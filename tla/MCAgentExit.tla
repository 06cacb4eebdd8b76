----------------------------- MODULE MCAgentExit -----------------------------
(***************************************************************************)
(* Two builds in one run: the configuration's, with the websocket server,  *)
(* and one with the websocket client in its place.  The initial state      *)
(* picks the build.  The builds share their variables but two: EarlyRe-    *)
(* sponsesSent and AgentStopsLast are about the server's build, and what   *)
(* they read, lost and dm_pc, stands still in the client's.                *)
(***************************************************************************)
EXTENDS AgentExit

VARIABLES build, c_dm_pc, c_lost

C == INSTANCE AgentExit WITH MtpThreads <- {"STOMP", "WSCLIENT"},
                             dm_pc <- c_dm_pc, lost <- c_lost

mcVars == <<vars, build, c_dm_pc, c_lost>>

MCInit ==
    \/ build = "server" /\ Init /\ c_dm_pc = "select" /\ c_lost = {}
    \/ build = "client" /\ C!Init /\ dm_pc = "select" /\ lost = {}

\* A step of the build that runs.
Either(step, clientStep) ==
    /\ UNCHANGED build
    /\ \/ build = "server" /\ step /\ UNCHANGED <<c_dm_pc, c_lost>>
       \/ build = "client" /\ clientStep /\ UNCHANGED <<dm_pc, lost>>

\* Fairness of either build, thread by thread.
MCFairness ==
    /\ WF_mcVars(Either(DmStep, C!DmStep))
    /\ WF_mcVars(Either(BdcExit, C!BdcExit))
    /\ WF_mcVars(Either(ThreadStep("STOMP"), C!ThreadStep("STOMP")))
    /\ SF_mcVars(Either(MtpSend("STOMP"), C!MtpSend("STOMP")))
    /\ WF_mcVars(Either(ThreadStep("WSSERVER"), C!ThreadStep("WSCLIENT")))
    /\ SF_mcVars(Either(MtpSend("WSSERVER"), C!MtpSend("WSCLIENT")))
    /\ \A t \in {"STOMP", "BDC"} :
            WF_mcVars(Either(PostMtpThreadExited(t), C!PostMtpThreadExited(t)))
    /\ WF_mcVars(Either(PostMtpThreadExited("WSSERVER"),
                        C!PostMtpThreadExited("WSCLIENT")))
    /\ WF_mcVars(Either(MtpTimeout("WSSERVER"), FALSE))

MCSpec == MCInit /\ [][Either(Next, C!Next)]_mcVars /\ MCFairness

-----------------------------------------------------------------------------

\* ExitHappens for either build: an exit that was asked for happens, unless a
\* thread's announcement is dropped at a full main queue or the DM thread is held up
\* by the queue of a bulk data thread that has gone.
EitherExitHappens ==
    requested ~> IF build = "server"
                 THEN dm_pc = "stopped" \/ ExitNotAnnounced \/ HeldUpByBdc
                 ELSE c_dm_pc = "stopped" \/ C!ExitNotAnnounced \/ C!HeldUpByBdc
=============================================================================
