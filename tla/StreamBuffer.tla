---------------------------- MODULE StreamBuffer ----------------------------
(***************************************************************************)
(* A stream buffer (stream_buffer.c) between the task that runs the        *)
(* callbacks of lwIP, which writes what the TLS connection delivers, and   *)
(* the Network task, which reads it (TlsClient.cpp).  Nothing but the      *)
(* registration of a task that is going to wait is done in a critical      *)
(* section: the bytes are copied, and head and tail moved, while the other *)
(* task runs.                                                              *)
(*                                                                         *)
(* A task that waits registers itself in the buffer and sleeps in          *)
(* xTaskNotifyWait; the other side notifies it with the scheduler          *)
(* suspended and takes the registration away.  Time is left out: a wait    *)
(* that is bounded may end at any moment.                                  *)
(***************************************************************************)
EXTENDS Naturals, Sequences

CONSTANTS
    Byte,
    RingLength,     \* xLength, one more than the bytes it can hold
    Trigger,    \* xTriggerLevelBytes
    Chunk,      \* what a call of xStreamBufferSend may be given to send
    MaxRead     \* bound: bytes asked of one call of xStreamBufferReceive

ASSUME StreamBufferConstants ==
    /\ RingLength \in Nat \ {0, 1}
    /\ Trigger \in 1 .. RingLength - 1
    /\ Chunk \subseteq Seq(Byte) \ {<<>>}
    /\ MaxRead \in Nat \ {0}

VARIABLES
    head, tail, buf,        \* xHead, xTail, pucBuffer
    waitingToReceive,       \* xTaskWaitingToReceive # NULL: the reader
    waitingToSend,          \* xTaskWaitingToSend # NULL: the writer
    nstate,                 \* ucNotifyState of both tasks
    wpc, data, space, put,  \* the writer: where, its bytes, xSpace, bytes copied
    rpc, want, avail, taken,\* the reader: where, bytes asked for, xBytesAvailable,
                            \* the bytes copied
    wait                    \* xTicksToWait of both: none, some, or ever
buffer == <<head, tail, buf>>
writer == <<wpc, data, space, put>>
reader == <<rpc, want, avail, taken>>
streamVars == <<buffer, waitingToReceive, waitingToSend, nstate, writer, reader, wait>>

Side == {"writer", "reader"}
Patience == {"none", "some", "ever"}
Least(a, b) == IF a < b THEN a ELSE b          \* configMIN

\* The one step back both indices and both distances need.
Wrap(i) == IF i >= RingLength THEN i - RingLength ELSE i

\* prvBytesInBuffer and xStreamBufferSpacesAvailable.  Each reads the index
\* of the other side once: the loop of the latter repeats until it did.
BytesInBuffer == Wrap(RingLength + head - tail)
SpacesAvailable == Wrap(RingLength + tail - head - 1)

\* xTaskNotify(task, 0, eNoAction): a task that waits is readied by it.
Notified(s) == [nstate EXCEPT ![s] = "received"]

\* Where a call goes next; one that returns leaves no locals behind.
SendGoto(pc) ==
    IF pc = "idle"
    THEN wpc' = pc /\ data' = <<>> /\ space' = 0 /\ put' = 0
         /\ wait' = [wait EXCEPT !["writer"] = "none"]
    ELSE wpc' = pc /\ UNCHANGED <<data, space, put, wait>>
ReceiveGoto(pc) ==
    IF pc = "idle"
    THEN rpc' = pc /\ want' = 1 /\ avail' = 0 /\ taken' = <<>>
         /\ wait' = [wait EXCEPT !["reader"] = "none"]
    ELSE rpc' = pc /\ UNCHANGED <<want, avail, taken, wait>>

\* The first critical section of xTaskNotifyWait, and the second one, once the
\* task was notified or its time is over: the remaining ticks are then 0.
SleepOf(s) ==
    nstate' = [nstate EXCEPT ![s] = IF @ = "received" THEN @ ELSE "waiting"]
WakeOf(s) ==
    /\ \/ nstate[s] = "received" /\ wait' = wait
       \/ nstate[s] = "waiting" /\ wait[s] = "some"
          /\ wait' = [wait EXCEPT ![s] = "none"]
    /\ nstate' = [nstate EXCEPT ![s] = "none"]

----------------------------------------------------------------------------
(* xStreamBufferSend.                                                      *)

\* A part of the data is enough if all of it never fits.
Required == Least(Len(data), RingLength - 1)

Send(d, t) ==
    /\ wpc = "idle"
    /\ data' = d /\ UNCHANGED <<space, put>>
    /\ wait' = [wait EXCEPT !["writer"] = t]
    /\ wpc' = IF t = "none" THEN "look" ELSE "check"
    /\ UNCHANGED <<buffer, waitingToReceive, waitingToSend, nstate, reader>>

\* Its critical section: room for all, or the task registers.
SendCheck ==
    /\ wpc = "check"
    /\ space' = SpacesAvailable
    /\ IF SpacesAvailable < Required
       THEN /\ nstate' = [nstate EXCEPT !["writer"] =
                                IF @ = "received" THEN "none" ELSE @]
            /\ waitingToSend' = TRUE
            /\ wpc' = "sleep"
       ELSE /\ UNCHANGED <<nstate, waitingToSend>>
            /\ wpc' = "look"
    /\ UNCHANGED <<buffer, waitingToReceive, data, put, reader, wait>>

SendSleep ==
    /\ wpc = "sleep" /\ SleepOf("writer")
    /\ wpc' = "asleep"
    /\ UNCHANGED <<buffer, waitingToReceive, waitingToSend, data, space, put, reader, wait>>

SendWake ==
    /\ wpc = "asleep" /\ WakeOf("writer")
    /\ wpc' = "clear"
    /\ UNCHANGED <<buffer, waitingToReceive, waitingToSend, data, space, put, reader>>

\* The registration goes, and xTaskCheckForTimeOut ends the loop or not.
SendClear ==
    /\ wpc = "clear"
    /\ waitingToSend' = FALSE
    /\ \/ wait["writer"] # "none" /\ wpc' = "check" /\ wait' = wait
       \/ wait["writer"] # "ever" /\ wpc' = "look"
          /\ wait' = [wait EXCEPT !["writer"] = "none"]
    /\ UNCHANGED <<buffer, waitingToReceive, nstate, data, space, put, reader>>

\* The space is looked up again if there was none, or no look so far.
SendLook ==
    /\ wpc = "look"
    /\ LET s == IF space = 0 THEN SpacesAvailable ELSE space
       IN  IF s = 0 THEN SendGoto("idle")
           ELSE wpc' = "copy" /\ space' = s /\ UNCHANGED <<data, put, wait>>
    /\ UNCHANGED <<buffer, waitingToReceive, waitingToSend, nstate, reader>>

\* prvWriteBytesToBuffer, a byte at a time ...
ToWrite == Least(Len(data), space)
SendByte ==
    /\ wpc = "copy" /\ put < ToWrite
    /\ buf' = [buf EXCEPT ![Wrap(head + put)] = data[put + 1]]
    /\ put' = put + 1
    /\ UNCHANGED <<head, tail, waitingToReceive, waitingToSend, nstate, wpc, data,
                   space, reader, wait>>

\* ... and the head it returns is stored by prvWriteMessageToBuffer.
SendCommit ==
    /\ wpc = "copy" /\ put = ToWrite
    /\ head' = Wrap(head + put)
    /\ wpc' = "sent"
    /\ UNCHANGED <<tail, buf, waitingToReceive, waitingToSend, nstate, data, space, put,
                   reader, wait>>

(* Mutant: one byte more than the trigger level is needed. *)
SendTriggerLate ==
    /\ wpc = "sent"
    /\ SendGoto(IF BytesInBuffer > Trigger THEN "complete" ELSE "idle")
    /\ UNCHANGED <<buffer, waitingToReceive, waitingToSend, nstate, reader>>

\* Are there enough bytes to wake a reader?
SendTrigger ==
    /\ wpc = "sent"
    /\ SendGoto(IF BytesInBuffer >= Trigger THEN "complete" ELSE "idle")
    /\ UNCHANGED <<buffer, waitingToReceive, waitingToSend, nstate, reader>>

\* sbSEND_COMPLETED.
SendCompleted ==
    /\ wpc = "complete"
    /\ nstate' = IF waitingToReceive THEN Notified("reader") ELSE nstate
    /\ waitingToReceive' = FALSE
    /\ SendGoto("idle")
    /\ UNCHANGED <<buffer, waitingToSend, reader>>

----------------------------------------------------------------------------
(* xStreamBufferReceive.                                                   *)

Receive(n, t) ==
    /\ rpc = "idle"
    /\ want' = n /\ UNCHANGED <<avail, taken>>
    /\ wait' = [wait EXCEPT !["reader"] = t]
    /\ rpc' = IF t = "none" THEN "look" ELSE "check"
    /\ UNCHANGED <<buffer, waitingToReceive, waitingToSend, nstate, writer>>

\* Its critical section.
ReceiveCheck ==
    /\ rpc = "check"
    /\ avail' = BytesInBuffer
    /\ IF BytesInBuffer = 0
       THEN /\ nstate' = [nstate EXCEPT !["reader"] =
                                IF @ = "received" THEN "none" ELSE @]
            /\ waitingToReceive' = TRUE
            /\ rpc' = "sleep"
       ELSE /\ UNCHANGED <<nstate, waitingToReceive>>
            /\ rpc' = "copy"
    /\ UNCHANGED <<buffer, waitingToSend, want, taken, writer, wait>>

ReceiveSleep ==
    /\ rpc = "sleep" /\ SleepOf("reader")
    /\ rpc' = "asleep"
    /\ UNCHANGED <<buffer, waitingToReceive, waitingToSend, want, avail, taken, writer, wait>>

ReceiveWake ==
    /\ rpc = "asleep" /\ WakeOf("reader")
    /\ rpc' = "clear"
    /\ UNCHANGED <<buffer, waitingToReceive, waitingToSend, want, avail, taken, writer>>

ReceiveClear ==
    /\ rpc = "clear"
    /\ waitingToReceive' = FALSE
    /\ rpc' = "look"
    /\ UNCHANGED <<buffer, waitingToSend, nstate, want, avail, taken, writer, wait>>

\* The look after a wait, or instead of one.
ReceiveLook ==
    /\ rpc = "look"
    /\ IF BytesInBuffer = 0 THEN ReceiveGoto("idle")
       ELSE rpc' = "copy" /\ avail' = BytesInBuffer /\ UNCHANGED <<want, taken, wait>>
    /\ UNCHANGED <<buffer, waitingToReceive, waitingToSend, nstate, writer>>

\* prvReadBytesFromBuffer, and the tail stored by prvReadMessageFromBuffer.
ToRead == Least(want, avail)
ReceiveByte ==
    /\ rpc = "copy" /\ Len(taken) < ToRead
    /\ taken' = Append(taken, buf[Wrap(tail + Len(taken))])
    /\ UNCHANGED <<buffer, waitingToReceive, waitingToSend, nstate, rpc, want, avail,
                   writer, wait>>

(* Mutant: the tail moves by what was asked for. *)
ReceiveCommitAsked ==
    /\ rpc = "copy" /\ Len(taken) = ToRead
    /\ tail' = Wrap(tail + want)
    /\ rpc' = "complete"
    /\ UNCHANGED <<head, buf, waitingToReceive, waitingToSend, nstate, want, avail, taken,
                   writer, wait>>

ReceiveCommit ==
    /\ rpc = "copy" /\ Len(taken) = ToRead
    /\ tail' = Wrap(tail + Len(taken))
    /\ rpc' = "complete"
    /\ UNCHANGED <<head, buf, waitingToReceive, waitingToSend, nstate, want, avail, taken,
                   writer, wait>>

(* Mutant: the registration goes before it is looked at. *)
ReceiveCompletedSilent ==
    /\ rpc = "complete"
    /\ waitingToSend' = FALSE
    /\ ReceiveGoto("idle")
    /\ UNCHANGED <<buffer, waitingToReceive, nstate, writer>>

\* sbRECEIVE_COMPLETED.
ReceiveCompleted ==
    /\ rpc = "complete"
    /\ nstate' = IF waitingToSend THEN Notified("writer") ELSE nstate
    /\ waitingToSend' = FALSE
    /\ ReceiveGoto("idle")
    /\ UNCHANGED <<buffer, waitingToReceive, writer>>

----------------------------------------------------------------------------
\* prvInitialiseNewStreamBuffer; the storage holds whatever it held.
StreamInit ==
    /\ head = 0 /\ tail = 0 /\ buf \in [0 .. RingLength - 1 -> Byte]
    /\ waitingToReceive = FALSE /\ waitingToSend = FALSE
    /\ nstate = [s \in Side |-> "none"]
    /\ wpc = "idle" /\ data = <<>> /\ space = 0 /\ put = 0
    /\ rpc = "idle" /\ want = 1 /\ avail = 0 /\ taken = <<>>
    /\ wait = [s \in Side |-> "none"]

Write ==
    \/ \E d \in Chunk, t \in Patience : Send(d, t)
    \/ SendCheck \/ SendSleep \/ SendWake \/ SendClear \/ SendLook
    \/ SendByte \/ SendCommit \/ SendTrigger \/ SendCompleted
Read ==
    \/ \E n \in 1 .. MaxRead, t \in Patience : Receive(n, t)
    \/ ReceiveCheck \/ ReceiveSleep \/ ReceiveWake \/ ReceiveClear \/ ReceiveLook
    \/ ReceiveByte \/ ReceiveCommit \/ ReceiveCompleted

StreamNext == Write \/ Read

StreamSpec == StreamInit /\ [][StreamNext]_streamVars

\* A task that has called goes on; the Network task reads again and again.
FairStream == StreamSpec /\ WF_streamVars(Write /\ wpc # "idle") /\ WF_streamVars(Read)

----------------------------------------------------------------------------
(* Properties.                                                             *)

StreamTypeOK ==
    /\ head \in 0 .. RingLength - 1 /\ tail \in 0 .. RingLength - 1
    /\ buf \in [0 .. RingLength - 1 -> Byte]
    /\ waitingToReceive \in BOOLEAN /\ waitingToSend \in BOOLEAN
    /\ nstate \in [Side -> {"none", "waiting", "received"}]
    /\ wpc \in {"idle", "check", "sleep", "asleep", "clear", "look", "copy", "sent",
                "complete"}
    /\ data \in Seq(Byte) /\ space \in 0 .. RingLength - 1 /\ put \in Nat
    /\ rpc \in {"idle", "check", "sleep", "asleep", "clear", "look", "copy", "complete"}
    /\ want \in 1 .. MaxRead /\ avail \in 0 .. RingLength - 1 /\ taken \in Seq(Byte)
    /\ wait \in [Side -> Patience]

\* The bytes leave the ring in the order they were put in, each once, although
\* both sides copy while the other moves its index: the buffer implements the
\* pipe, which accepts bytes when the head moves and gives them when the tail
\* does.
Inside == [i \in 1 .. BytesInBuffer |-> buf[Wrap(tail + i - 1)]]
Handed == IF rpc = "complete" THEN taken ELSE <<>>
Pipe == INSTANCE BytePipe WITH
            Capacity <- RingLength - 1, asked <- data, pipe <- Inside, got <- Handed
ImplementsPipe == Pipe!Spec

\* No wake-up is lost: a task sleeps although it could be served only while it
\* is notified already, or the other side is between moving its index and
\* telling it.
NoSleeperForgotten ==
    /\ rpc = "asleep" /\ nstate["reader"] = "waiting" /\ BytesInBuffer >= Trigger
          => waitingToReceive /\ wpc \in {"sent", "complete"}
    /\ wpc = "asleep" /\ nstate["writer"] = "waiting" /\ SpacesAvailable >= Required
          => waitingToSend /\ rpc = "complete"

\* Every call to send comes to an end, even one that waits without limit for
\* more room than is left, since the reader keeps reading.
SendEnds == wpc # "idle" ~> wpc = "idle"
=============================================================================
