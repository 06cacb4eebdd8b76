------------------------------ MODULE AgentExit ------------------------------
(***************************************************************************)
(* How the agent shuts down: mtp_exec.c, the thread loops of bdc_exec.c,   *)
(* wsclient.c and wsserver.c, and the exit handling of dm_exec.c and       *)
(* device_local_agent.c.                                                   *)
(*                                                                         *)
(* SIGTERM, a Reboot() or FactoryReset() command and USP_SIGNAL_Reboot all *)
(* schedule an exit.  The data model (DM) thread activates it only after   *)
(* it has queued the response to the message it is handling; each MTP      *)
(* thread then exits once it has nothing left to send and tells the DM     *)
(* thread, which performs the exit action when all threads have gone.      *)
(*                                                                         *)
(* MtpThreads is the build configuration: the MTPs that are compiled in.   *)
(***************************************************************************)
EXTENDS Integers, Sequences, Functions

CONSTANTS
    MtpThreads,     \* the MTPs compiled in
    MainCap,        \* datagrams the DM thread's main queue holds
    BdcCap,         \* datagrams the BDC thread's queue holds
    MaxRequests,    \* bound: requests received by the MTP threads
    MaxSignals      \* bound: SIGTERMs and USP_SIGNAL_Reboot calls

\* MTPs with a wakeup socket of their own in mtp_exec.c.
WakeupThreads == MtpThreads \ {"WSCLIENT", "WSSERVER"}
Threads == MtpThreads \cup {"BDC"}

ASSUME MtpAssumption ==
    MtpThreads \subseteq {"STOMP", "COAP", "MQTT", "UDS", "WSCLIENT", "WSSERVER"}
ASSUME CapAssumption == MainCap \in Nat \ {0} /\ BdcCap \in Nat \ {0}
ASSUME BoundAssumption == MaxRequests \in Nat /\ MaxSignals \in Nat

VARIABLES
    main_mq,                \* the DM thread's main queue
    bdc_mq,                 \* ScheduleExit messages in the BDC thread's queue
    wsclient_msg_queue,     \* responses and Activate messages for WSCLIENT
    send_queue,             \* usp_record_send_queue of each MTP
    wake,                   \* a wakeup is pending for the thread
    pc,                     \* where each thread is in its loop
    dm_pc,                  \* where the DM thread is in its loop
    dm_msg,                 \* the message it is handling
    mtp_exit_scheduled,
    mtp_reconnect_scheduled,
    scheduled_exit_action,
    dm_exit_scheduled,      \* set by SigTermHandler
    cumulative_mtp_threads_exited,
    requests,               \* number of requests received so far
    signals,                \* number of SIGTERMs and reboot signals so far
    lost,                   \* history: responses destroyed before they were sent
    requested               \* history: an exit has been asked for

inVars   == <<requests, signals>>
exitVars == <<mtp_exit_scheduled, mtp_reconnect_scheduled, scheduled_exit_action,
              dm_exit_scheduled, cumulative_mtp_threads_exited, requested>>
vars == <<main_mq, bdc_mq, wsclient_msg_queue, send_queue, wake, pc, dm_pc,
          dm_msg, inVars, exitVars, lost>>

-----------------------------------------------------------------------------

\* A response is early if it was queued before the exit was activated.
Responses == {"early", "late"}
RequestMsg == [kind: {"Request", "RebootRequest"}, thread: MtpThreads]
Message == RequestMsg \cup [kind: {"Exited"}, thread: Threads]
                      \cup {[kind |-> "Reboot", thread |-> "none"]}
NoMsg == [kind |-> "none", thread |-> "none"]

ThreadPcs == {"select", "check", "destroy", "post", "exited"}
DmPcs == {"select", "reboot", "respond", "activate", "wake", "loopend", "sigterm",
          "stopped"}

TypeOK ==
    /\ main_mq \in Seq(Message)
    /\ bdc_mq \in Nat
    /\ wsclient_msg_queue \in Seq(Responses \cup {"Activate"})
    /\ send_queue \in [MtpThreads -> Seq(Responses)]
    /\ wake \in [MtpThreads -> BOOLEAN]
    /\ pc \in [Threads -> ThreadPcs]
    /\ dm_pc \in DmPcs
    /\ dm_msg \in Message \cup {NoMsg}
    /\ dm_pc = "respond" => dm_msg.thread \in MtpThreads
    /\ dm_pc = "reboot" => dm_msg = NoMsg \/ dm_msg.thread \in MtpThreads
    /\ mtp_exit_scheduled \in {"Off", "Signalled", "Activated"}
    /\ mtp_reconnect_scheduled \in BOOLEAN
    /\ scheduled_exit_action \in {"Exit", "Reboot"}
    /\ dm_exit_scheduled \in BOOLEAN
    /\ cumulative_mtp_threads_exited \subseteq Threads
    /\ requests \in Nat
    /\ signals \in Nat
    /\ lost \subseteq Responses
    /\ requested \in BOOLEAN

\* MTP_EXEC_Init, BDC_EXEC_Init and DM_EXEC_Init.
Init ==
    /\ main_mq = <<>>
    /\ bdc_mq = 0
    /\ wsclient_msg_queue = <<>>
    /\ send_queue = [t \in MtpThreads |-> <<>>]
    /\ wake = [t \in MtpThreads |-> FALSE]
    /\ pc = [t \in Threads |-> "select"]
    /\ dm_pc = "select"
    /\ dm_msg = NoMsg
    /\ mtp_exit_scheduled = "Off"
    /\ mtp_reconnect_scheduled = FALSE
    /\ scheduled_exit_action = "Exit"
    /\ dm_exit_scheduled = FALSE
    /\ cumulative_mtp_threads_exited = {}
    /\ requests = 0
    /\ signals = 0
    /\ lost = {}
    /\ requested = FALSE

Running == dm_pc # "stopped"

\* is_xxx_mtp_thread_exited.
IsExited(t) == pc[t] \in {"post", "exited"}

SendDontWait(msg) ==
    IF Len(main_mq) < MainCap THEN Append(main_mq, msg) ELSE main_mq

-----------------------------------------------------------------------------
(* The threads with a wakeup socket: MTP_EXEC_StompMain, MqttMain, CoapMain *)
(* and UdsMain.  The connection to the controller is up.                    *)

dmVars == <<dm_pc, dm_msg>>

\* A request arrives; it may be a Reboot() command.  The websocket MTPs receive
\* requests in the same way, from a libwebsockets callback.
MtpReceive(t, kind) ==
    /\ Running
    /\ pc[t] = "select"
    /\ requests < MaxRequests
    /\ requests' = requests + 1
    /\ main_mq' = SendDontWait([kind |-> kind, thread |-> t])
    /\ pc' = [pc EXCEPT ![t] = "check"]
    /\ requested' = (requested \/ (kind = "RebootRequest" /\ main_mq' # main_mq))
    /\ UNCHANGED <<bdc_mq, wsclient_msg_queue, send_queue, wake, signals, lost,
                   mtp_exit_scheduled, mtp_reconnect_scheduled, dm_exit_scheduled,
                   scheduled_exit_action, cumulative_mtp_threads_exited>>
    /\ UNCHANGED dmVars

\* The socket is writable and there is a response to send.
MtpSend(t) ==
    /\ Running
    /\ pc[t] = "select"
    /\ send_queue[t] # <<>>
    /\ send_queue' = [send_queue EXCEPT ![t] = Tail(@)]
    /\ pc' = [pc EXCEPT ![t] = "check"]
    /\ UNCHANGED <<main_mq, bdc_mq, wsclient_msg_queue, wake, lost>>
    /\ UNCHANGED <<dmVars, inVars, exitVars>>

\* ProcessMtpWakeupQueueSocketActivity, and the return of lws_service after
\* lws_cancel_service.
MtpWake(t) ==
    /\ Running
    /\ pc[t] = "select"
    /\ wake[t]
    /\ wake' = [wake EXCEPT ![t] = FALSE]
    /\ pc' = [pc EXCEPT ![t] = "check"]
    /\ UNCHANGED <<main_mq, bdc_mq, wsclient_msg_queue, send_queue, lost>>
    /\ UNCHANGED <<dmVars, inVars, exitVars>>

\* select() or lws_service times out, or the socket is not writable yet.
MtpTimeout(t) ==
    /\ Running
    /\ pc[t] = "select"
    /\ ~ wake[t]
    /\ pc' = [pc EXCEPT ![t] = "check"]
    /\ UNCHANGED <<main_mq, bdc_mq, wsclient_msg_queue, send_queue, wake, lost>>
    /\ UNCHANGED <<dmVars, inVars, exitVars>>

\* Mutant of MtpCheckExit: the thread does not wait for its responses.
MtpExitAtOnce(t) ==
    /\ Running
    /\ pc[t] = "check"
    /\ pc' = [pc EXCEPT ![t] = IF mtp_exit_scheduled = "Activated"
                               THEN "destroy" ELSE "select"]
    /\ UNCHANGED <<main_mq, bdc_mq, wsclient_msg_queue, send_queue, wake, lost>>
    /\ UNCHANGED <<dmVars, inVars, exitVars>>

\* The test at the end of the loop.  XXX_AreAllResponsesSent and XXX_Destroy take
\* and release the MTP's mutex one after the other.
MtpCheckExit(t) ==
    /\ Running
    /\ pc[t] = "check"
    /\ pc' = [pc EXCEPT ![t] =
                IF mtp_exit_scheduled = "Activated" /\ send_queue[t] = <<>>
                THEN "destroy" ELSE "select"]
    /\ UNCHANGED <<main_mq, bdc_mq, wsclient_msg_queue, send_queue, wake, lost>>
    /\ UNCHANGED <<dmVars, inVars, exitVars>>

\* XXX_Destroy: the queue is purged and is_xxx_mtp_thread_exited is set.
MtpDestroy(t) ==
    /\ Running
    /\ pc[t] = "destroy"
    /\ lost' = lost \cup Range(send_queue[t])
    /\ send_queue' = [send_queue EXCEPT ![t] = <<>>]
    /\ pc' = [pc EXCEPT ![t] = "post"]
    /\ UNCHANGED <<main_mq, bdc_mq, wsclient_msg_queue, wake>>
    /\ UNCHANGED <<dmVars, inVars, exitVars>>

\* DM_EXEC_PostMtpThreadExited: not sent if the main queue is full.
PostMtpThreadExited(t) ==
    /\ Running
    /\ pc[t] = "post"
    /\ main_mq' = SendDontWait([kind |-> "Exited", thread |-> t])
    /\ pc' = [pc EXCEPT ![t] = "exited"]
    /\ UNCHANGED <<bdc_mq, wsclient_msg_queue, send_queue, wake, lost>>
    /\ UNCHANGED <<dmVars, inVars, exitVars>>

-----------------------------------------------------------------------------
(* The websocket and bulk data threads.                                    *)

\* One iteration of WSCLIENT_Main, with wsc_access_mutex held: handle one message,
\* then exit if nothing is queued on a connection.  AreAllWsclientResponsesSent
\* does not look at the message queue.
WsclientLoop ==
    LET t == "WSCLIENT"
        msg == IF wsclient_msg_queue = <<>> THEN "none"
                                            ELSE Head(wsclient_msg_queue)
        rest == IF msg = "none" THEN <<>> ELSE Tail(wsclient_msg_queue)
        queue == IF msg \in Responses THEN Append(send_queue[t], msg)
                                      ELSE send_queue[t]
        exit == mtp_exit_scheduled = "Activated" /\ queue = <<>>
    IN
    /\ Running
    /\ t \in MtpThreads
    /\ pc[t] = "check"
    /\ send_queue' = [send_queue EXCEPT ![t] = queue]
    /\ wsclient_msg_queue' = IF exit THEN <<>> ELSE rest
    /\ lost' = IF exit THEN lost \cup (Range(rest) \cap Responses) ELSE lost
    /\ pc' = [pc EXCEPT ![t] = IF exit THEN "post" ELSE "select"]
    /\ UNCHANGED <<main_mq, bdc_mq, wake>>
    /\ UNCHANGED <<dmVars, inVars, exitVars>>

\* Mutant of WsserverLoop: only a scheduled restart stops the server.
WsserverGoesOn ==
    LET t == "WSSERVER" IN
    /\ Running
    /\ t \in MtpThreads
    /\ pc[t] = "check"
    /\ pc' = [pc EXCEPT ![t] = "select"]
    /\ UNCHANGED <<main_mq, bdc_mq, wsclient_msg_queue, send_queue, wake, lost>>
    /\ UNCHANGED <<dmVars, inVars, exitVars>>

\* ServiceActiveWebsockServer and the exit of WSSERVER_Main.  The test and
\* StopWebsockServer are in one critical section; a response queued after it
\* finds no connection.
WsserverLoop ==
    LET t == "WSSERVER"
        exit == mtp_exit_scheduled = "Activated" /\ send_queue[t] = <<>>
    IN
    /\ Running
    /\ t \in MtpThreads
    /\ pc[t] = "check"
    /\ pc' = [pc EXCEPT ![t] = IF exit THEN "post" ELSE "select"]
    /\ UNCHANGED <<main_mq, bdc_mq, wsclient_msg_queue, send_queue, wake, lost>>
    /\ UNCHANGED <<dmVars, inVars, exitVars>>

\* BDC_EXEC_Main: the thread reads ScheduleExit and exits without waiting for its
\* reports.
BdcExit ==
    /\ Running
    /\ pc["BDC"] = "select"
    /\ bdc_mq > 0
    /\ bdc_mq' = bdc_mq - 1
    /\ pc' = [pc EXCEPT !["BDC"] = "post"]
    /\ UNCHANGED <<main_mq, wsclient_msg_queue, send_queue, wake, lost>>
    /\ UNCHANGED <<dmVars, inVars, exitVars>>

-----------------------------------------------------------------------------
(* The data model thread.                                                  *)

mtpVars == <<send_queue, wake, wsclient_msg_queue>>

\* SigTermHandler.
SigTerm ==
    /\ Running
    /\ signals < MaxSignals
    /\ signals' = signals + 1
    /\ dm_exit_scheduled' = TRUE
    /\ requested' = TRUE
    /\ UNCHANGED <<main_mq, bdc_mq, pc, lost, requests, mtp_exit_scheduled,
                   mtp_reconnect_scheduled, scheduled_exit_action,
                   cumulative_mtp_threads_exited>>
    /\ UNCHANGED <<mtpVars, dmVars>>

\* USP_SIGNAL_Reboot, called by a vendor thread: blocks while the queue is full.
SignalReboot ==
    /\ Running
    /\ signals < MaxSignals
    /\ Len(main_mq) < MainCap
    /\ signals' = signals + 1
    /\ main_mq' = Append(main_mq, [kind |-> "Reboot", thread |-> "none"])
    /\ requested' = TRUE
    /\ UNCHANGED <<bdc_mq, pc, lost, requests, mtp_exit_scheduled,
                   mtp_reconnect_scheduled, scheduled_exit_action,
                   dm_exit_scheduled, cumulative_mtp_threads_exited>>
    /\ UNCHANGED <<mtpVars, dmVars>>

\* MTP_EXEC_ScheduleExit.
ScheduleExit ==
    mtp_exit_scheduled' = IF mtp_exit_scheduled = "Off" THEN "Signalled"
                                                        ELSE mtp_exit_scheduled

\* A request, which may be a Reboot() command.  A setting changed by the request
\* may schedule a reconnection.
HandleRequest ==
    /\ dm_pc = "select"
    /\ main_mq # <<>>
    /\ Head(main_mq).kind \in {"Request", "RebootRequest"}
    /\ main_mq' = Tail(main_mq)
    /\ dm_msg' = Head(main_mq)
    /\ IF Head(main_mq).kind = "RebootRequest"
       THEN dm_pc' = "reboot" /\ UNCHANGED mtp_reconnect_scheduled
       ELSE /\ dm_pc' = "respond"
            /\ mtp_reconnect_scheduled' \in {mtp_reconnect_scheduled, TRUE}
    /\ UNCHANGED <<bdc_mq, pc, lost, mtp_exit_scheduled, scheduled_exit_action,
                   dm_exit_scheduled, cumulative_mtp_threads_exited, requested>>
    /\ UNCHANGED <<mtpVars, inVars>>

\* kDmExecMsg_Reboot.
HandleReboot ==
    /\ dm_pc = "select"
    /\ main_mq # <<>>
    /\ Head(main_mq).kind = "Reboot"
    /\ main_mq' = Tail(main_mq)
    /\ dm_msg' = NoMsg
    /\ dm_pc' = "reboot"
    /\ UNCHANGED <<bdc_mq, pc, lost>>
    /\ UNCHANGED <<mtpVars, inVars, exitVars>>

\* The two callers of BDC_EXEC_ScheduleExit and MTP_EXEC_ScheduleExit:
\* DEVICE_LOCAL_AGENT_ScheduleReboot, when the cause has been persisted, and the end
\* of the loop after a SIGTERM.  The send blocks while the BDC queue is full.
ScheduleBothExits ==
    /\ dm_pc \in {"reboot", "sigterm"}
    /\ bdc_mq < BdcCap
    /\ bdc_mq' = bdc_mq + 1
    /\ ScheduleExit
    /\ scheduled_exit_action' = IF dm_pc = "reboot" THEN "Reboot"
                                                    ELSE scheduled_exit_action
    /\ dm_pc' = IF dm_pc = "reboot" /\ dm_msg # NoMsg THEN "respond" ELSE "activate"
    /\ UNCHANGED <<main_mq, pc, dm_msg, lost, mtp_reconnect_scheduled,
                   dm_exit_scheduled, cumulative_mtp_threads_exited, requested>>
    /\ UNCHANGED <<mtpVars, inVars>>

\* Responses that die with the process when DM_EXEC_HandleScheduledExit is called.
StillQueued ==
    (Range(wsclient_msg_queue) \cap Responses)
        \cup UNION {Range(send_queue[t]) : t \in MtpThreads}

\* Mutant of HandleExited: a thread has exited, so the agent may stop.
ExitOnFirst ==
    /\ dm_pc = "select"
    /\ main_mq # <<>>
    /\ Head(main_mq).kind = "Exited"
    /\ main_mq' = Tail(main_mq)
    /\ cumulative_mtp_threads_exited' =
            cumulative_mtp_threads_exited \cup {Head(main_mq).thread}
    /\ dm_pc' = "stopped"
    /\ lost' = lost \cup StillQueued
    /\ UNCHANGED <<bdc_mq, pc, dm_msg, mtp_exit_scheduled, dm_exit_scheduled,
                   mtp_reconnect_scheduled, scheduled_exit_action, requested>>
    /\ UNCHANGED <<mtpVars, inVars>>

\* kDmExecMsg_MtpThreadExited.
HandleExited ==
    /\ dm_pc = "select"
    /\ main_mq # <<>>
    /\ Head(main_mq).kind = "Exited"
    /\ main_mq' = Tail(main_mq)
    /\ cumulative_mtp_threads_exited' =
            cumulative_mtp_threads_exited \cup {Head(main_mq).thread}
    /\ IF cumulative_mtp_threads_exited' = Threads
       THEN /\ dm_pc' = "stopped"
            /\ lost' = lost \cup StillQueued
       ELSE /\ dm_pc' = "loopend"
            /\ UNCHANGED lost
    /\ UNCHANGED <<bdc_mq, pc, dm_msg, mtp_exit_scheduled, dm_exit_scheduled,
                   mtp_reconnect_scheduled, scheduled_exit_action, requested>>
    /\ UNCHANGED <<mtpVars, inVars>>

\* XXX_QueueBinaryMessage: the response is freed if the thread has exited.
Respond ==
    LET t == dm_msg.thread
        response == IF mtp_exit_scheduled = "Activated" THEN "late" ELSE "early"
    IN
    /\ dm_pc = "respond"
    /\ dm_pc' = "activate"
    /\ dm_msg' = NoMsg
    /\ IF IsExited(t)
       THEN UNCHANGED mtpVars
       ELSE /\ wake' = [wake EXCEPT ![t] = TRUE]
            /\ IF t = "WSCLIENT"
               THEN /\ wsclient_msg_queue' = Append(wsclient_msg_queue, response)
                    /\ UNCHANGED send_queue
               ELSE /\ send_queue' = [send_queue EXCEPT ![t] = Append(@, response)]
                    /\ UNCHANGED wsclient_msg_queue
    /\ UNCHANGED <<main_mq, bdc_mq, pc, lost>>
    /\ UNCHANGED <<inVars, exitVars>>

\* MTP_EXEC_ActivateScheduledActions, up to the wakeups: nothing is done if an
\* MTP thread has exited (the websocket server's flag is not looked at).  A build
\* with no wakeup thread exits here.
ActivateScheduledActions ==
    /\ dm_pc = "activate"
    /\ IF \E t \in MtpThreads \ {"WSSERVER"} : IsExited(t)
       THEN /\ dm_pc' = "loopend"
            /\ UNCHANGED <<mtp_exit_scheduled, lost>>
       ELSE IF mtp_exit_scheduled = "Signalled"
       THEN /\ mtp_exit_scheduled' = "Activated"
            /\ IF WakeupThreads = {}
               THEN dm_pc' = "stopped" /\ lost' = lost \cup StillQueued
               ELSE dm_pc' = "wake" /\ UNCHANGED lost
       ELSE /\ dm_pc' = "wake"
            /\ UNCHANGED <<mtp_exit_scheduled, lost>>
    /\ UNCHANGED <<main_mq, bdc_mq, pc, dm_msg, dm_exit_scheduled, requested,
                   mtp_reconnect_scheduled, scheduled_exit_action,
                   cumulative_mtp_threads_exited>>
    /\ UNCHANGED <<mtpVars, inVars>>

\* Mutant of WakeThreads: the threads with a wakeup socket are not woken.
WakeWebsocketsOnly ==
    /\ dm_pc = "wake"
    /\ dm_pc' = "loopend"
    /\ mtp_reconnect_scheduled' = FALSE
    /\ LET woken == ({"WSCLIENT"} \cap MtpThreads)
                    \cup (IF mtp_reconnect_scheduled THEN {"WSSERVER"} ELSE {})
       IN  wake' = [t \in MtpThreads |-> wake[t] \/ t \in woken]
    /\ wsclient_msg_queue' =
            IF "WSCLIENT" \in MtpThreads /\ ~ IsExited("WSCLIENT")
            THEN Append(wsclient_msg_queue, "Activate") ELSE wsclient_msg_queue
    /\ UNCHANGED <<main_mq, bdc_mq, pc, dm_msg, send_queue, lost,
                   mtp_exit_scheduled, scheduled_exit_action, dm_exit_scheduled,
                   cumulative_mtp_threads_exited, requested>>
    /\ UNCHANGED inVars

\* The rest of it, as far as it wakes threads.  The websocket server is
\* woken only if a reconnection is scheduled as well; the websocket client always
\* gets a message.
WakeThreads ==
    /\ dm_pc = "wake"
    /\ dm_pc' = "loopend"
    /\ mtp_reconnect_scheduled' = FALSE
    /\ LET woken == (IF mtp_exit_scheduled = "Activated" THEN WakeupThreads ELSE {})
                    \cup ({"WSCLIENT"} \cap MtpThreads)
                    \cup (IF mtp_reconnect_scheduled THEN {"WSSERVER"} ELSE {})
       IN  wake' = [t \in MtpThreads |-> wake[t] \/ t \in woken]
    /\ wsclient_msg_queue' =
            IF "WSCLIENT" \in MtpThreads /\ ~ IsExited("WSCLIENT")
            THEN Append(wsclient_msg_queue, "Activate") ELSE wsclient_msg_queue
    /\ UNCHANGED <<main_mq, bdc_mq, pc, dm_msg, send_queue, lost,
                   mtp_exit_scheduled, scheduled_exit_action, dm_exit_scheduled,
                   cumulative_mtp_threads_exited, requested>>
    /\ UNCHANGED inVars

\* select() times out or is interrupted by the signal.
DmTimeout ==
    /\ dm_pc = "select"
    /\ dm_exit_scheduled
    /\ dm_pc' = "loopend"
    /\ UNCHANGED <<main_mq, bdc_mq, pc, dm_msg, lost>>
    /\ UNCHANGED <<mtpVars, inVars, exitVars>>

\* The end of the loop of DM_EXEC_Main.
LoopEnd ==
    /\ dm_pc = "loopend"
    /\ dm_pc' = IF dm_exit_scheduled THEN "sigterm" ELSE "select"
    /\ dm_exit_scheduled' = FALSE
    /\ UNCHANGED <<main_mq, bdc_mq, pc, dm_msg, lost, mtp_exit_scheduled,
                   mtp_reconnect_scheduled, scheduled_exit_action,
                   cumulative_mtp_threads_exited, requested>>
    /\ UNCHANGED <<mtpVars, inVars>>

-----------------------------------------------------------------------------

ThreadStep(t) ==
    \/ MtpSend(t)
    \/ MtpWake(t)
    \/ t \in WakeupThreads /\ MtpCheckExit(t)
    \/ MtpDestroy(t)
    \/ t = "WSCLIENT" /\ WsclientLoop
    \/ t = "WSSERVER" /\ WsserverLoop

DmStep ==
    \/ HandleRequest
    \/ HandleReboot
    \/ ScheduleBothExits
    \/ HandleExited
    \/ Respond
    \/ ActivateScheduledActions
    \/ WakeThreads
    \/ DmTimeout
    \/ LoopEnd

Next ==
    \/ \E t \in MtpThreads : ThreadStep(t) \/ MtpTimeout(t)
    \/ \E t \in MtpThreads, k \in {"Request", "RebootRequest"} : MtpReceive(t, k)
    \/ \E t \in Threads : PostMtpThreadExited(t)
    \/ BdcExit
    \/ SigTerm
    \/ SignalReboot
    \/ DmStep

Spec == Init /\ [][Next]_vars

\* Threads run and connected controllers take what is sent to them.  Of the
\* timeouts only the poll of the websocket server's interface address is relied
\* on.
Fairness ==
    /\ WF_vars(DmStep)
    /\ WF_vars(BdcExit)
    /\ \A t \in MtpThreads : WF_vars(ThreadStep(t)) /\ SF_vars(MtpSend(t))
    /\ \A t \in Threads : WF_vars(PostMtpThreadExited(t))
    /\ "WSSERVER" \in MtpThreads => WF_vars(MtpTimeout("WSSERVER"))

FairSpec == Spec /\ Fairness

-----------------------------------------------------------------------------
(* Properties.                                                             *)

\* A response that was queued before the exit was activated is sent before the
\* agent stops: the response to the Reboot() command itself is one.  This is why
\* the exit is activated only when the handler has queued its response.
EarlyResponsesSent == "early" \notin lost

\* DM_EXEC_HandleScheduledExit runs when no other thread can be using what
\* MAIN_Stop frees: every thread has destroyed its state and posted its message.
AgentStopsLast == dm_pc = "stopped" => \A t \in Threads : pc[t] = "exited"

\* The inductive strengthening of the two properties above, for a build with a
\* wakeup thread and without the websocket client.
ExitInv ==
    /\ EarlyResponsesSent
    /\ AgentStopsLast
    /\ wsclient_msg_queue = <<>>
    /\ \A t \in MtpThreads :
        /\ pc[t] = "destroy" => /\ mtp_exit_scheduled = "Activated"
                               /\ "early" \notin Range(send_queue[t])
        /\ IsExited(t) => send_queue[t] = <<>>
    /\ \A m \in Range(main_mq) : m.kind = "Exited" => pc[m.thread] = "exited"
    /\ \A t \in cumulative_mtp_threads_exited : pc[t] = "exited"

\* DM_EXEC_PostMtpThreadExited found the main queue full: the thread has gone and
\* nothing will tell the DM thread.
ExitNotAnnounced ==
    \E t \in Threads :
        /\ pc[t] = "exited"
        /\ t \notin cumulative_mtp_threads_exited
        /\ [kind |-> "Exited", thread |-> t] \notin Range(main_mq)

\* The BDC thread has gone, its queue is full, and the DM thread waits for ever for
\* room in it.
HeldUpByBdc ==
    /\ pc["BDC"] \in {"post", "exited"}
    /\ bdc_mq = BdcCap
    /\ dm_pc \in {"reboot", "sigterm"}

\* An exit that was asked for happens, unless one of two messages meets a full
\* queue: a thread's announcement, which DM_EXEC_PostMtpThreadExited drops and does
\* not repeat, or a further ScheduleExit for a bulk data thread that has gone, on
\* which BDC_EXEC_ScheduleExit blocks.  Whatever else happens - any order of
\* requests, signals, wakeups and exit tests - the agent stops.
ExitHappens == requested ~> (dm_pc = "stopped" \/ ExitNotAnnounced \/ HeldUpByBdc)

\* What the comment in DM_EXEC_Main promises of a scheduled exit: the agent stops
\* "once no queued messages to send".  A full queue breaks it.
StopsWhenAsked == requested ~> dm_pc = "stopped"

\* What the comments at the exit test of each thread loop promise: the thread
\* exits once "all responses have been sent".
AllResponsesSent == lost = {}
=============================================================================
