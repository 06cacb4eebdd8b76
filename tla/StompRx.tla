------------------------------- MODULE StompRx -------------------------------
(***************************************************************************)
(* The receive buffer of a STOMP connection: ReceiveStompMessageInner and  *)
(* the functions of stomp.c below it, which cut the byte stream from the   *)
(* broker into STOMP frames.                                               *)
(*                                                                         *)
(* The broker sends frames and single line feeds as heartbeats; recv()     *)
(* returns the stream in pieces of any size.  A byte is one of             *)
(*    "lf"       a line feed (a heartbeat, when between frames)            *)
(*    "length"   header of a frame that has a content-length               *)
(*    "plain"    header of a frame that has none                           *)
(*    "bad"      header with a content-length that is invalid or too large *)
(*    "blank"    the blank line that ends the headers                      *)
(*    "data"     a byte of a body                                          *)
(*    "nul"      NUL: ends every frame, and may be in a body that has a    *)
(*               content-length                                            *)
(***************************************************************************)
EXTENDS Integers, Sequences

CONSTANTS
    MaxUnits,       \* bound: frames and heartbeats in the stream
    MaxUspMsgLen    \* MAX_USP_MSG_LEN: most bytes the receive buffer may hold

ASSUME RxAssumption == MaxUnits \in Nat /\ MaxUspMsgLen \in Nat

VARIABLES
    stream,     \* the bytes not yet received
    frames,     \* history: the frames the broker sent, in order
    rxframe,    \* the receive buffer
    header_len, \* rxframe_header_len: 0 until the headers are complete
    frame_len,  \* rxframe_frame_len: 0 if there is no content-length
    rx_pc,      \* "recv", "check" for a complete frame, "closed", "assert"
    handled     \* the frames handled, in order

rxVars == <<stream, frames, rxframe, header_len, frame_len, rx_pc, handled>>

-----------------------------------------------------------------------------
\* The content-length of the frames in the stream.
ContentLength == 2

Heartbeat == <<"lf">>
Frames ==
    {<<"length", "blank", "data", "data", "nul">>, <<"length", "blank", "nul", "lf", "nul">>,
     <<"plain", "blank", "data", "nul">>, <<"plain", "blank", "nul">>,
     <<"bad", "blank", "data", "nul">>}

\* The concatenation of units, and the frames among them.
Flat[u \in Seq(Frames \cup {Heartbeat})] ==
    IF u = <<>> THEN <<>> ELSE Head(u) \o Flat[Tail(u)]

RxInit ==
    /\ \E n \in 0 .. MaxUnits : \E u \in [1 .. n -> Frames \cup {Heartbeat}] :
          /\ stream = Flat[u]
          /\ frames = SelectSeq(u, LAMBDA f : f # Heartbeat)
    /\ rxframe = <<>>
    /\ header_len = 0
    /\ frame_len = 0
    /\ rx_pc = "recv"
    /\ handled = <<>>

-----------------------------------------------------------------------------
\* HandleStompSocketError frees the buffer and closes the connection.
Closed ==
    /\ rxframe' = <<>>
    /\ header_len' = 0
    /\ frame_len' = 0
    /\ rx_pc' = "closed"

\* The number of leading line feeds, and the buffer without them.
LeadingLfs(b) == CHOOSE k \in 0 .. Len(b) :
                    /\ \A i \in 1 .. k : b[i] = "lf"
                    /\ k < Len(b) => b[k + 1] # "lf"
RemoveReceivedHeartBeats(b) == SubSeq(b, LeadingLfs(b) + 1, Len(b))

First(b, byte) == {i \in DOMAIN b : b[i] = byte /\ \A j \in 1 .. i - 1 : b[j] # byte}

\* The length of the headers that are complete in b, or 0.
HeaderLen(b) == IF First(b, "blank") = {} THEN 0 ELSE CHOOSE i \in First(b, "blank") : TRUE

\* A piece of the stream is added to the buffer, unless it does not fit: then
\* the connection is closed, also when frames in the piece would have fitted.
ReceiveStompMessageInner(k) ==
    /\ rx_pc = "recv"
    /\ k \in 1 .. Len(stream)
    /\ stream' = SubSeq(stream, k + 1, Len(stream))
    /\ IF Len(rxframe) + k > MaxUspMsgLen THEN Closed
       ELSE /\ rxframe' = rxframe \o SubSeq(stream, 1, k)
            /\ rx_pc' = "check"
            /\ UNCHANGED <<header_len, frame_len>>
    /\ UNCHANGED <<frames, handled>>

\* Mutant: the rest of the buffer is only looked at after the next recv().
HandleStompMessageOnce(b, size) ==
    /\ size <= Len(b)
    /\ handled' = Append(handled, SubSeq(b, 1, size))
    /\ rxframe' = SubSeq(b, size + 1, Len(b))
    /\ header_len' = 0
    /\ frame_len' = 0
    /\ rx_pc' = "recv"

\* HandleStompMessage, then RemoveMessageFromRxBuf for the size of the frame,
\* which asserts that the buffer holds that many bytes.
HandleStompMessage(b, size) ==
    IF size <= Len(b)
    THEN /\ handled' = Append(handled, SubSeq(b, 1, size))
         /\ rxframe' = SubSeq(b, size + 1, Len(b))
         /\ header_len' = 0
         /\ frame_len' = 0
         /\ rx_pc' = "check"
    ELSE /\ rx_pc' = "assert"
         /\ UNCHANGED <<rxframe, header_len, frame_len, handled>>

\* No complete frame yet.
Incomplete(b, h, f) ==
    /\ rxframe' = b
    /\ header_len' = h
    /\ frame_len' = f
    /\ rx_pc' = "recv"
    /\ UNCHANGED handled

\* Mutant: a frame ends at its first NUL even if it has a content-length.
IsStompMsgCompleteAtNul ==
    LET b == RemoveReceivedHeartBeats(rxframe)
        h == HeaderLen(b)
    IN /\ rx_pc = "check"
       /\ CASE b = <<>> \/ h = 0 -> Incomplete(b, 0, 0)
            [] b # <<>> /\ h # 0 /\ b[1] = "bad" -> Closed /\ UNCHANGED handled
            [] OTHER ->
                 IF First(b, "nul") # {}
                 THEN HandleStompMessage(b, CHOOSE i \in First(b, "nul") : TRUE)
                 ELSE Incomplete(b, h, 0)
       /\ UNCHANGED <<stream, frames>>

\* One turn of the loop in ReceiveStompMessageInner.  len is the size of the
\* buffer before the heartbeats are removed from it.
IsStompMsgComplete ==
    LET len == Len(rxframe)
        b == RemoveReceivedHeartBeats(rxframe)
        h == IF header_len # 0 THEN header_len ELSE HeaderLen(b)
        f == IF header_len # 0 THEN frame_len
             ELSE IF h # 0 /\ b[1] = "length" THEN h + ContentLength + 1 ELSE 0
    IN /\ rx_pc = "check"
       /\ CASE b = <<>> \/ h = 0 -> Incomplete(b, 0, 0)
            [] b # <<>> /\ h # 0 /\ b[1] = "bad" -> Closed /\ UNCHANGED handled
            [] b # <<>> /\ h # 0 /\ f # 0 ->
                 IF len >= f THEN HandleStompMessage(b, f) ELSE Incomplete(b, h, f)
            [] OTHER ->
                 IF First(b, "nul") # {}
                 THEN HandleStompMessage(b, CHOOSE i \in First(b, "nul") : TRUE)
                 ELSE Incomplete(b, h, f)
       /\ UNCHANGED <<stream, frames>>

RxNext ==
    \/ \E k \in 1 .. Len(stream) : ReceiveStompMessageInner(k)
    \/ IsStompMsgComplete

RxSpec == RxInit /\ [][RxNext]_rxVars

-----------------------------------------------------------------------------
\* Properties.

\* Every variable has its type: what is known of a frame's headers is about the
\* bytes in the buffer.
RxTypeOK ==
    /\ rx_pc \in {"recv", "check", "closed", "assert"}
    /\ rxframe \in Seq(STRING) /\ stream \in Seq(STRING)
    /\ header_len \in 0 .. Len(rxframe)
    /\ frame_len \in {0, header_len + ContentLength + 1}

\* However recv() cuts the stream, the frames handled are the frames the broker
\* sent, whole and in order, without a byte of the heartbeats between them.
FramesIntact ==
    /\ Len(handled) <= Len(frames)
    /\ handled = SubSeq(frames, 1, Len(handled))

\* A frame is handled as soon as its last byte has arrived: the buffer never
\* holds a complete frame while the thread waits for more.
NothingHeldBack ==
    rx_pc = "recv" /\ stream = <<>> => rxframe = <<>> /\ handled = frames

\* The size of the frame that is removed from the buffer is never more than the
\* buffer holds: USP_ASSERT(sc->rxframe_msglen >= msg_size) in
\* RemoveMessageFromRxBuf.
BufferHoldsFrame == rx_pc # "assert"

\* The receive buffer recovers the broker's frames, whole, in order and without
\* delay, from a stream that recv() cuts anywhere.
StreamIntact == RxTypeOK /\ FramesIntact /\ NothingHeldBack
==============================================================================
