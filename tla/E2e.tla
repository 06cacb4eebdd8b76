--------------------------------- MODULE E2e ---------------------------------
(***************************************************************************)
(* Records and end-to-end sessions (msg_handler.c, e2e_context.c,          *)
(* sar_vector.c): the agent checks the records of a controller, puts       *)
(* segmented messages together, answers through the session, and ends or   *)
(* restarts the session when something does not fit.                       *)
(*                                                                         *)
(* The controller is external: it numbers its sessions, sends whole        *)
(* messages in one to three segments, follows the session of the agent's   *)
(* records and gives up its session for a Disconnect record.  The MTP      *)
(* keeps the order of records and may lose some.                           *)
(***************************************************************************)
EXTENDS Integers, Sequences, SequencesExt

CONSTANTS
  Modes,           \* values SessionMode is set to
  MaxSegments,     \* bound on segments of a message
  MaxCtMessages,   \* bound on messages the controller sends
  MaxE2eSessions,  \* bound on session ids
  MaxE2eQueue,     \* bound on records on their way to the agent
  MaxE2eWaiting,   \* bound on records that wait for the transport when the agent goes on
  MaxModeChanges,  \* bound on Sets of SessionMode and calls of Reset()
  MaxE2eFaults     \* bound on lost or odd records and on failed sends

ASSUME E2eAssumption ==
  /\ Modes \subseteq {"Require", "Allow", "Forbid"} /\ MaxSegments \in Nat \ {0}
  /\ {MaxCtMessages, MaxE2eSessions, MaxE2eQueue, MaxE2eWaiting, MaxModeChanges, MaxE2eFaults} \subseteq Nat

VARIABLES
  agent,    \* the e2e_session_t of the controller
  inq,      \* records on their way to the agent
  outq,     \* records the agent has queued for the controller
  posted,   \* E2E events in the queue of the data model thread
  ctl,      \* the controller's session and how far its message has been sent
  got,      \* the segments handed to MSG_HANDLER_HandleBinaryMessage last
  e2eSteps  \* numbers of changes and of faults so far

e2eVars == <<agent, inq, outq, posted, ctl, got, e2eSteps>>

Seg(m, i) == <<m, i>>          \* segment i of message m
Ctx(sess, seq, sar, seg) == [t |-> "ctx", sess |-> sess, seq |-> seq, sar |-> sar, seg |-> seg]
PlainRecord(seg) == [t |-> "plain", sess |-> 0, seq |-> 0, sar |-> "none", seg |-> seg]
Disc == [t |-> "disc", sess |-> 0, seq |-> 0, sar |-> "none", seg |-> <<>>]
\* The SAR state of segment i of n.
SarState(i, n) == IF n = 1 THEN "none" ELSE IF i = 1 THEN "begin" ELSE IF i = n THEN "complete" ELSE "inprocess"

\* ClearE2eSessionState: the session id and the mode stay.
ClearE2eSessionState(a) == [a EXCEPT !.status = "Down", !.sent = 0, !.recv = 0, !.parts = <<>>]

\* The session that E2E_CONTEXT_QueueUspSessionRecord starts if there is none.
NextSession(a) ==
  IF a.status # "Down" THEN a
  ELSE [a EXCEPT !.sess = @ + 1, !.sent = 0, !.recv = 0, !.status = "Negotiating"]

\* E2E_CONTEXT_IsToSendThroughSessionContext
ThroughSession(a) == a.status # "Down" \/ a.mode = "Require"

\* Segments 1..n of message m; the empty message 0 has one empty segment.
Segment(m, i) == IF m = 0 THEN <<>> ELSE Seg(m, i)

\* Seeded error: a segment that could not be queued takes no sequence number.
QueueCountingSent(a, q, m, n, ok) ==
  LET b == NextSession(a)
  IN [a |-> [b EXCEPT !.sent = @ + ok],
      q |-> q \o [i \in 1..ok |-> Ctx(b.sess, b.sent + i, SarState(i, n), Segment(m, i))]]

\* E2E_CONTEXT_QueueUspSessionRecord: message m in n segments, of which the
\* first ok are queued.  A segment gets its sequence number before it is
\* queued, and the first that cannot be queued ends the message.
QueueUspSessionRecord(a, q, m, n, ok) ==
  LET b == NextSession(a)
      numbered == IF ok < n THEN ok + 1 ELSE n
  IN [a |-> [b EXCEPT !.sent = @ + numbered],
      q |-> q \o [i \in 1..ok |-> Ctx(b.sess, b.sent + i, SarState(i, n), Segment(m, i))]]

\* QueueUspNoSessionRecord asserts that there is a payload.
QueueUspNoSessionRecord(a, q, m, ok) ==
  [a |-> [a EXCEPT !.halted = (m = 0)],
   q |-> IF m # 0 /\ ok > 0 THEN Append(q, PlainRecord(Seg(m, 1))) ELSE q]

\* MSG_HANDLER_QueueUspRecord
MSG_HANDLER_QueueUspRecord(a, q, m, n, ok) ==
  IF ThroughSession(a) THEN QueueUspSessionRecord(a, q, m, n, ok)
  ELSE QueueUspNoSessionRecord(a, q, m, ok)

\* E2E_CONTEXT_E2eSessionEvent: the empty message establishes the session.
E2eSessionEvent(a, q, event) ==
  LET b == [a EXCEPT !.mode = a.want]
      c == ClearE2eSessionState(b)
      r == IF event \in {"Termination", "Restart"} THEN Append(q, Disc) ELSE q
  IN IF event = "None" THEN [a |-> b, q |-> q]
     ELSE IF event = "Termination" THEN [a |-> c, q |-> r]
     ELSE MSG_HANDLER_QueueUspRecord(c, r, 0, 1, 1)

\* The event for a record that does not fit.
UnfitEvent(a) == IF a.mode = "Require" THEN "Restart" ELSE "Termination"

MayQueue(q) == Len(q) <= MaxE2eWaiting
Count(kind) == /\ e2eSteps[kind] < IF kind = "changes" THEN MaxModeChanges ELSE MaxE2eFaults
               /\ e2eSteps' = [e2eSteps EXCEPT ![kind] = @ + 1]
\* Every record is taken from inq, and may leave something in outq.
Take(r) == /\ ~agent.halted /\ inq # <<>> /\ Head(inq) = r /\ inq' = Tail(inq) /\ MayQueue(outq) /\ agent.sess < MaxE2eSessions
Become(x) == agent' = x.a /\ outq' = x.q

-----------------------------------------------------------------------------
(* Records the agent receives.                                             *)

\* MSG_HANDLER_QueueMessage: a message that may not be queued completely.
QueueMessage(a, m) ==
  \E n \in 1..MaxSegments :
    \/ Become(MSG_HANDLER_QueueUspRecord(a, outq, m, n, n)) /\ UNCHANGED e2eSteps
    \/ \E ok \in 0..(n - 1) :
         Count("faults") /\ Become(MSG_HANDLER_QueueUspRecord(a, outq, m, n, ok))

\* MSG_HANDLER_HandleBinaryMessage: the message is handled and answered.
HandleBinaryMessage(a, segs) == got' = segs /\ QueueMessage(a, segs[1][1])

NotDelivered(x) == Become(x) /\ UNCHANGED <<got, e2eSteps>>

\* The event of ValidateNoSessionContextHandling.
NoSessionEvent(a) ==
  IF a.mode = "Require" THEN "Restart" ELSE IF a.status # "Down" THEN "Termination" ELSE "None"

\* E2E_CONTEXT_HandleUspRecord, for a record without a session.
HandleNoSessionRecord ==
  \E r \in Range(inq) :
    /\ r.t = "plain" /\ Take(r)
    /\ IF NoSessionEvent(agent) # "None" THEN NotDelivered(E2eSessionEvent(agent, outq, NoSessionEvent(agent)))
       ELSE HandleBinaryMessage(agent, <<r.seg>>)
    /\ UNCHANGED <<posted, ctl>>

\* IsValidE2eSarState
IsValidE2eSarState(parts, sar) == (sar \in {"none", "begin"}) = (parts = <<>>)
\* ValidateSessionContextHandling
ValidSessionContext(a, r) ==
  /\ a.mode # "Forbid"
  /\ r.sess = a.sess \/ r.seq = 1
  /\ IsValidE2eSarState(a.parts, r.sar)

\* The session of the record is the session from now on.
Adopt(a, r) ==
  LET b == IF a.sess = r.sess THEN a ELSE [ClearE2eSessionState(a) EXCEPT !.sess = r.sess]
  IN [b EXCEPT !.recv = r.seq, !.status = "Up"]

\* Seeded error: a segment is appended whatever its sequence number.
AnyPayload(parts, r) == parts = <<>> \/ parts[Len(parts)].sess = r.sess

\* SAR_VECTOR_Append: the next segment of the same session.
IsValidPayload(parts, r) ==
  parts = <<>> \/ (parts[Len(parts)].sess = r.sess /\ r.seq = parts[Len(parts)].seq + 1)

\* HandleSessionContextRecord
HandleSessionContextRecord ==
  \E r \in Range(inq) :
    LET a == Adopt(agent, r)
        b == [a EXCEPT !.parts = Append(@, r)]
    IN /\ r.t = "ctx" /\ Take(r)
       /\ IF ~ValidSessionContext(agent, r) THEN NotDelivered(E2eSessionEvent(agent, outq, UnfitEvent(agent)))
          ELSE IF r.seg = <<>> THEN NotDelivered([a |-> a, q |-> outq])
          ELSE IF r.sar = "none" THEN HandleBinaryMessage(a, <<r.seg>>)
          ELSE IF ~IsValidPayload(a.parts, r) THEN NotDelivered(E2eSessionEvent(a, outq, UnfitEvent(a)))
          ELSE IF r.sar # "complete" THEN NotDelivered([a |-> b, q |-> outq])
          ELSE HandleBinaryMessage([b EXCEPT !.parts = <<>>], [i \in DOMAIN b.parts |-> b.parts[i].seg])
       /\ UNCHANGED <<posted, ctl>>

\* E2E_CONTEXT_ValidateSessionContextRecord: secure payload or not exactly
\* one payload.
HandleOddSessionRecord ==
  \E r \in Range(inq) :
    /\ r.t = "odd" /\ Take(r)
    /\ NotDelivered(E2eSessionEvent(agent, outq, "Restart"))
    /\ UNCHANGED <<posted, ctl>>

\* ValidateUspRecord, for a Disconnect record: the agent disconnects too.
HandleDisconnectRecord ==
  \E r \in Range(inq) :
    /\ r.t = "disc" /\ Take(r)
    /\ NotDelivered([a |-> agent, q |-> Append(outq, Disc)])
    /\ UNCHANGED <<posted, ctl>>

-----------------------------------------------------------------------------
(* Events of the data model thread.                                        *)

MayGoOn == ~agent.halted /\ agent.sess < MaxE2eSessions /\ MayQueue(outq)

\* Notify_E2ESessionMode: an event is posted, from the status of this moment.
Notify_E2ESessionMode ==
  \E mode \in Modes :
    LET event == IF mode = "Require" /\ agent.status = "Down" THEN "Establishment"
                 ELSE IF mode = "Forbid" /\ agent.status # "Down" THEN "Termination" ELSE "None"
    IN /\ ~agent.halted /\ Count("changes") /\ agent' = [agent EXCEPT !.want = mode]
       /\ posted' = IF event # "None" \/ agent.mode # mode THEN Append(posted, event) ELSE posted
       /\ UNCHANGED <<inq, outq, ctl, got>>

\* Async_E2ESessionReset
Async_E2ESessionReset ==
  LET event == IF agent.mode = "Require" THEN IF agent.status = "Down" THEN "Establishment" ELSE "Restart"
               ELSE IF agent.status = "Down" THEN "None" ELSE "Termination"
  IN /\ ~agent.halted /\ Count("changes") /\ event # "None" /\ posted' = Append(posted, event)
     /\ UNCHANGED <<agent, inq, outq, ctl, got>>

\* The event is taken from the queue (dm_exec.c:2271).
ProcessEvent ==
  /\ posted # <<>> /\ MayGoOn /\ posted' = Tail(posted)
  /\ NotDelivered(E2eSessionEvent(agent, outq, Head(posted)))
  /\ UNCHANGED <<inq, ctl>>

-----------------------------------------------------------------------------
(* The controller and the MTP: external.                                   *)

\* The next segment of the controller's message, in its session or without.
\* It starts a session with the next id.
ControllerSends ==
  \E n \in 1..MaxSegments, session \in BOOLEAN :
    LET first == ctl.at = 0
        c == IF ~first \/ ctl.up THEN ctl
             ELSE [ctl EXCEPT !.sess = @ + 1, !.seq = 0, !.up = TRUE]
        i == ctl.at + 1
        of == IF first THEN n ELSE ctl.of
        m == IF first THEN ctl.msg + 1 ELSE ctl.msg
    IN /\ (first \/ (session /\ n = ctl.of)) /\ Len(inq) < MaxE2eQueue
       /\ m <= MaxCtMessages /\ (session => c.sess <= MaxE2eSessions) /\ (~session => n = 1 /\ ~ctl.up)
       /\ IF session
            THEN /\ inq' = Append(inq, Ctx(c.sess, c.seq + 1, SarState(i, of), Seg(m, i)))
                 /\ ctl' = [c EXCEPT !.seq = @ + 1, !.msg = m, !.of = of, !.at = IF i = of THEN 0 ELSE i]
            ELSE inq' = Append(inq, PlainRecord(Seg(m, 1))) /\ ctl' = [ctl EXCEPT !.msg = m]
       /\ UNCHANGED <<agent, outq, posted, got, e2eSteps>>

\* It starts a session with an empty record.
ControllerEstablishes ==
  /\ ~ctl.up /\ ctl.at = 0 /\ ctl.sess < MaxE2eSessions /\ Len(inq) < MaxE2eQueue
  /\ inq' = Append(inq, Ctx(ctl.sess + 1, 1, "none", <<>>))
  /\ ctl' = [ctl EXCEPT !.sess = @ + 1, !.seq = 1, !.up = TRUE]
  /\ UNCHANGED <<agent, outq, posted, got, e2eSteps>>

\* It follows the agent: another session, or none.
ControllerReceives ==
  /\ outq # <<>> /\ outq' = Tail(outq)
  /\ LET r == Head(outq)
     IN ctl' = IF r.t = "disc" THEN [ctl EXCEPT !.up = FALSE, !.at = 0]
               ELSE IF r.t = "ctx" /\ (r.sess # ctl.sess \/ ~ctl.up)
                 THEN [ctl EXCEPT !.sess = r.sess, !.seq = 0, !.up = TRUE, !.at = 0]
               ELSE ctl
  /\ UNCHANGED <<agent, inq, posted, got, e2eSteps>>

\* It disconnects, or sends a record the agent does not support.
ControllerDisturbs ==
  /\ Count("faults") /\ Len(inq) < MaxE2eQueue
  /\ \E r \in {Disc, [Disc EXCEPT !.t = "odd"]} : inq' = Append(inq, r)
  /\ UNCHANGED <<agent, outq, posted, ctl, got>>

LoseRecord ==
  /\ Count("faults") /\ inq # <<>> /\ inq' = Tail(inq)
  /\ UNCHANGED <<agent, outq, posted, ctl, got>>

\* ProcessControllerE2ESessionAdded
E2eInit ==
  /\ \E mode \in Modes :
       agent = [sess |-> 0, sent |-> 0, recv |-> 0, status |-> "Down", mode |-> mode, want |-> mode, parts |-> <<>>,
                halted |-> FALSE]
  /\ inq = <<>> /\ outq = <<>> /\ posted = <<>> /\ got = <<>>
  /\ ctl = [sess |-> 0, seq |-> 0, up |-> FALSE, msg |-> 0, of |-> 0, at |-> 0]
  /\ e2eSteps = [changes |-> 0, faults |-> 0]

E2eNext ==
  \/ HandleNoSessionRecord \/ HandleSessionContextRecord \/ HandleOddSessionRecord \/ HandleDisconnectRecord
  \/ Notify_E2ESessionMode \/ Async_E2ESessionReset \/ ProcessEvent
  \/ ControllerSends \/ ControllerEstablishes \/ ControllerReceives \/ ControllerDisturbs \/ LoseRecord

E2eSpec == E2eInit /\ [][E2eNext]_e2eVars

-----------------------------------------------------------------------------
(* Properties.                                                             *)

\* The session and the queues hold what their C types allow.
E2eTypeOK ==
  /\ agent.status \in {"Down", "Negotiating", "Up"} /\ {agent.mode, agent.want} \subseteq Modes
  /\ {agent.sess, agent.sent, agent.recv} \subseteq Nat
  /\ Len(inq) <= MaxE2eQueue /\ Len(outq) <= MaxE2eWaiting + MaxSegments /\ Len(agent.parts) < MaxSegments

\* Whatever is lost, and whenever sessions end, restart or change, a message
\* that the agent handles consists of all segments of one message of the
\* controller, in their order (e2e_context.c:625, sar_vector.c:63).
ReassembledIsSent ==
  /\ \A i \in DOMAIN got : got[i] = Seg(got[1][1], i)
  /\ \A r \in Range(agent.parts) : r.seg[1] = agent.parts[1].seg[1]

\* A message that the agent could not queue completely is seen as cut short:
\* in one session the records with consecutive sequence numbers are whole
\* messages one after the other, and no number is used twice before the
\* session starts again (e2e_context.c:221 numbers a record before it is
\* queued at :255).
CutShortIsVisible ==
  \A i \in 1..(Len(outq) - 1) :
    LET r == outq[i]  s == outq[i + 1]
    IN (r.t = "ctx" /\ s.t = "ctx" /\ r.sess = s.sess) =>
         /\ s.seq > r.seq \/ s.seq = 1
         /\ s.seq = r.seq + 1 => ((r.sar \in {"none", "complete"}) = (s.sar \in {"none", "begin"}))

\* msg_handler.c:1566 "USP_ASSERT(ctxNoSession.payload.len > 0)": the empty
\* record that establishes a session is never sent without a session.
NoEmptyRecord == ~agent.halted

\* Neither side takes parts of messages for a message.
E2eInv == E2eTypeOK /\ ReassembledIsSent /\ CutShortIsVisible
=============================================================================
