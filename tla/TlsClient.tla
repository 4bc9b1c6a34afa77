----------------------------- MODULE TlsClient -----------------------------
(***************************************************************************)
(* The TLS connection below MQTT: one state object per attempt, made by    *)
(* the Network task, handed to lwIP as the argument of its callbacks and   *)
(* freed by the task again; the callbacks of the TCP/IP thread, which run  *)
(* under the lock of lwIP; and the stream buffer that takes the bytes from *)
(* the thread to the task.  The task takes the lock to open and to close a *)
(* connection, and does not take it to write.                              *)
(***************************************************************************)
EXTENDS Integers, Sequences

CONSTANTS Cells,        \* the addresses malloc gives to state objects
          StreamSize,   \* capacity of the stream buffer: 4096 in the code
          MaxConnects,  \* bound on the connections opened
          MaxBytes      \* bound on the bytes the server sends on each

ASSUME SizesAssumption == /\ StreamSize \in Nat \ {0}
                          /\ {MaxConnects, MaxBytes} \subseteq Nat

VARIABLES cell,         \* "unused", "live" or "freed", of every address
          pcb, complete, connected,     \* the fields of the objects
          lookups,      \* lookups the callback of which will get the address
          state,        \* TlsClient::state, or Null
          task,         \* where the Network task is
          goal,         \* where it goes when the connection is closed
          incoming,     \* what tls_received has still to store
          stream,       \* the stream buffer: bytes as <<connection, number>>
          opened,       \* connections opened so far
          sent,         \* bytes the server has sent on the last of them
          next,         \* number of the byte to be read next on it
          dropped,      \* whether bytes of it were dropped
          halted        \* the program has done something without a meaning

object == <<cell, pcb, complete, connected>>
bytes  == <<incoming, stream, sent, next, dropped>>
vars   == <<object, lookups, state, task, goal, bytes, opened, halted>>

Null == "null"
ASSUME CellsAssumption == Cells # {} /\ Null \notin Cells

Live(a) == cell[a] = "live"

TypeOK ==
    /\ cell \in [Cells -> {"unused", "live", "freed"}]
    /\ pcb \in [Cells -> {"none", "idle", "connecting", "open"}]
    /\ complete \in [Cells -> BOOLEAN]
    /\ connected \in [Cells -> BOOLEAN]
    /\ lookups \in [Cells -> 0 .. MaxConnects]
    /\ state \in Cells \cup {Null}
    /\ task \in {"apart", "close", "free", "wifi", "wait", "judge",
                 "session", "write", "writing", "writeFailed"}
    /\ goal \in {"apart", "wifi"}
    /\ \A q \in {incoming, stream} :
          q \in Seq((1 .. MaxConnects) \X (1 .. MaxBytes))
    /\ Len(stream) <= StreamSize
    /\ opened \in 0 .. MaxConnects
    /\ sent \in 0 .. MaxBytes
    /\ next \in 1 .. MaxBytes + 1
    /\ {dropped, halted} \subseteq BOOLEAN

Init == /\ cell = [a \in Cells |-> "unused"]
        /\ pcb = [a \in Cells |-> "none"]
        /\ complete = [a \in Cells |-> FALSE]
        /\ connected = [a \in Cells |-> FALSE]
        /\ lookups = [a \in Cells |-> 0]
        /\ state = Null
        /\ task = "apart"
        /\ goal = "apart"
        /\ incoming = << >>
        /\ stream = << >>
        /\ opened = 0
        /\ sent = 0
        /\ next = 1
        /\ dropped = FALSE
        /\ halted = FALSE

(* The lock is held by the thread while a callback of it waits. *)
LockFree == incoming = << >>

-----------------------------------------------------------------------------
(* The functions of tls_common.c that both sides call.                     *)

(* Mutant: connected stays. *)
tls_client_close_halfway(a) ==
    /\ complete' = [complete EXCEPT ![a] = TRUE]
    /\ UNCHANGED connected
    /\ pcb' = [pcb EXCEPT ![a] = "none"]

tls_client_close(a) ==
    /\ complete' = [complete EXCEPT ![a] = TRUE]
    /\ connected' = [connected EXCEPT ![a] = FALSE]
    /\ pcb' = [pcb EXCEPT ![a] = "none"]

(* lwIP refuses to connect a pcb that is already used to connect, and may  *)
(* lack the memory for any other.                                          *)
tls_client_connect_to_server_ip(a) ==
    \/ /\ pcb[a] = "idle"
       /\ pcb' = [pcb EXCEPT ![a] = "connecting"]
       /\ UNCHANGED <<complete, connected>>
    \/ tls_client_close(a)

-----------------------------------------------------------------------------
(* The Network task: opening and closing.                                  *)

(* connect_internet first closes what there is. *)
StartAttempt == /\ task \in {"apart", "session"}
                /\ opened < MaxConnects
                /\ task' = "close"
                /\ goal' = "wifi"
                /\ UNCHANGED <<object, lookups, state, bytes, opened, halted>>

(* MQTT does not get through: the attempt is ended by a disconnect. *)
GiveUp == /\ task = "session"
          /\ task' = "close"
          /\ goal' = "apart"
          /\ UNCHANGED <<object, lookups, state, bytes, opened, halted>>

CloseLocked == /\ task = "close"
               /\ IF state = Null
                  THEN /\ task' = goal
                       /\ UNCHANGED object
                  ELSE /\ LockFree
                       /\ tls_client_close(state)
                       /\ task' = "free"
                       /\ UNCHANGED cell
               /\ UNCHANGED <<lookups, state, goal, bytes, opened, halted>>

(* Mutant: the object is forgotten, not freed. *)
FreeNothing == /\ task = "free"
               /\ state' = Null
               /\ task' = goal
               /\ UNCHANGED <<object, lookups, goal, bytes, opened, halted>>

FreeState == /\ task = "free"
             /\ cell' = [cell EXCEPT ![state] = "freed"]
             /\ state' = Null
             /\ task' = goal
             /\ UNCHANGED <<pcb, complete, connected, lookups, goal, bytes,
                            opened, halted>>

WifiFails == /\ task = "wifi"
             /\ task' = "apart"
             /\ UNCHANGED <<object, lookups, state, goal, bytes, opened,
                            halted>>

(* How tls_client_open goes on with the new object: no memory for the      *)
(* configuration or the pcb; a lookup answered from the cache, with a      *)
(* connect that is accepted or that fails, which only the wait finds out;  *)
(* a lookup begun; or none, when tls_client_close gets the pcb for a state. *)
OpenOn(a) ==
    \/ /\ pcb' = [pcb EXCEPT ![a] = "none"]
       /\ complete' = [complete EXCEPT ![a] = FALSE]
       /\ task' = "close"
       /\ UNCHANGED <<lookups, halted>>
    \/ /\ pcb' = [pcb EXCEPT ![a] = "connecting"]
       /\ complete' = [complete EXCEPT ![a] = FALSE]
       /\ task' = "wait"
       /\ UNCHANGED <<lookups, halted>>
    \/ /\ pcb' = [pcb EXCEPT ![a] = "none"]
       /\ complete' = [complete EXCEPT ![a] = TRUE]
       /\ task' = "wait"
       /\ UNCHANGED <<lookups, halted>>
    \/ /\ pcb' = [pcb EXCEPT ![a] = "idle"]
       /\ complete' = [complete EXCEPT ![a] = FALSE]
       /\ lookups' = [lookups EXCEPT ![a] = @ + 1]
       /\ task' = "wait"
       /\ UNCHANGED halted
    \/ /\ pcb' = [pcb EXCEPT ![a] = "idle"]
       /\ complete' = [complete EXCEPT ![a] = FALSE]
       /\ task' = "close"
       /\ halted' \in BOOLEAN
       /\ UNCHANGED lookups

(* tls_connect up to the wait.  The stream buffer is left as it is. *)
Open == /\ task = "wifi"
        /\ LockFree
        /\ opened < MaxConnects
        /\ opened' = opened + 1
        /\ sent' = 0
        /\ next' = 1
        /\ dropped' = FALSE
        /\ goal' = "apart"
        /\ \E a \in Cells :
              /\ ~Live(a)
              /\ cell' = [cell EXCEPT ![a] = "live"]
              /\ connected' = [connected EXCEPT ![a] = FALSE]
              /\ state' = a
              /\ OpenOn(a)
        /\ UNCHANGED <<incoming, stream>>

WaitEnds == /\ task = "wait"
            /\ connected[state] \/ complete[state]
            /\ task' = "judge"
            /\ UNCHANGED <<object, lookups, state, goal, bytes, opened,
                           halted>>

(* The time is up, whatever has happened since the last look. *)
TimesOut == /\ task = "wait"
            /\ task' = "close"
            /\ UNCHANGED <<object, lookups, state, goal, bytes, opened,
                           halted>>

(* Mutant: a connection that failed is not closed by anyone. *)
JudgeLeavesState ==
    /\ task = "judge"
    /\ task' = IF connected[state] THEN "session" ELSE "apart"
    /\ UNCHANGED <<object, lookups, state, goal, bytes, opened, halted>>

Judge == /\ task = "judge"
         /\ task' = IF connected[state] THEN "session" ELSE "close"
         /\ UNCHANGED <<object, lookups, state, goal, bytes, opened, halted>>

-----------------------------------------------------------------------------
(* The Network task: reading and writing, called by the MQTT client.       *)

ReadBytes == /\ task = "session"
             /\ stream # << >>
             /\ \E n \in 1 .. Len(stream) :
                   LET last == stream[n]
                   IN  /\ stream' = SubSeq(stream, n + 1, Len(stream))
                       /\ next' = IF last[1] = opened THEN last[2] + 1
                                                      ELSE next
             /\ UNCHANGED <<object, lookups, state, task, goal, incoming,
                            sent, dropped, opened, halted>>

(* The check of tls_client_write; when it fails nothing is done. *)
WriteBegins == /\ task = "session"
               /\ connected[state]
               /\ pcb[state] # "none"
               /\ task' = "write"
               /\ UNCHANGED <<object, lookups, state, goal, bytes, opened,
                              halted>>

(* The pcb is read a second time; without one altcp_write fails, and       *)
(* tls_client_close finds nothing to close.                                *)
WriteCalls == /\ task = "write"
              /\ task' = IF pcb[state] = "none" THEN "session" ELSE "writing"
              /\ UNCHANGED <<object, lookups, state, goal, bytes, opened,
                             halted>>

(* altcp_write returns, and if the pcb was closed under it, nobody knows   *)
(* what it has done.                                                       *)
WriteReturns ==
    /\ task = "writing"
    /\ IF pcb[state] = "none" THEN halted' \in BOOLEAN ELSE UNCHANGED halted
    /\ \/ /\ task' = "session"
          /\ UNCHANGED <<complete, connected>>
       \/ /\ task' = "writeFailed"
          /\ complete' = [complete EXCEPT ![state] = TRUE]
          /\ connected' = [connected EXCEPT ![state] = FALSE]
    /\ UNCHANGED <<cell, pcb, lookups, state, goal, bytes, opened>>

(* The rest of tls_client_close, without the lock. *)
CloseUnlocked == /\ task = "writeFailed"
                 /\ pcb' = [pcb EXCEPT ![state] = "none"]
                 /\ task' = "session"
                 /\ UNCHANGED <<cell, complete, connected, lookups, state,
                                goal, bytes, opened, halted>>

-----------------------------------------------------------------------------
(* The callbacks.                                                          *)

(* A callback that comes while the unlocked close takes the callbacks away *)
(* one by one may find no state.                                           *)
Undisturbed == task # "writeFailed"
Collision == /\ task = "writeFailed"
             /\ LockFree
             /\ pcb[state] = "open"
             /\ halted' = TRUE
             /\ UNCHANGED <<object, lookups, state, task, goal, bytes,
                            opened>>

(* A lookup cannot be taken back: its callback gets the address of an      *)
(* object that may be freed, or be another one by now.                     *)
tls_client_dns_found(a) ==
    /\ LockFree
    /\ lookups[a] > 0
    /\ lookups' = [lookups EXCEPT ![a] = @ - 1]
    /\ CASE ~Live(a) -> halted' \in BOOLEAN /\ UNCHANGED object
         [] Live(a) /\ complete[a] -> UNCHANGED <<object, halted>>
         [] OTHER -> /\ \/ tls_client_connect_to_server_ip(a)
                        \/ tls_client_close(a)
                     /\ UNCHANGED <<cell, halted>>
    /\ UNCHANGED <<state, task, goal, bytes, opened>>

tls_client_connected(a) ==
    /\ LockFree
    /\ pcb[a] = "connecting"
    /\ \/ /\ pcb' = [pcb EXCEPT ![a] = "open"]
          /\ connected' = [connected EXCEPT ![a] = TRUE]
          /\ UNCHANGED complete
       \/ tls_client_close(a)
    /\ UNCHANGED <<cell, lookups, state, task, goal, bytes, opened, halted>>

tls_client_err(a) ==
    /\ LockFree /\ Undisturbed
    /\ pcb[a] \in {"connecting", "open"}
    /\ tls_client_close(a)
    /\ UNCHANGED <<cell, lookups, state, task, goal, bytes, opened, halted>>

(* The server has closed the connection. *)
RecvEnd(a) == /\ LockFree /\ Undisturbed
              /\ pcb[a] = "open"
              /\ tls_client_close(a)
              /\ UNCHANGED <<cell, lookups, state, task, goal, bytes, opened,
                             halted>>

RecvData(a) ==
    /\ LockFree /\ Undisturbed
    /\ pcb[a] = "open"
    /\ \E n \in sent + 1 .. MaxBytes :
          /\ incoming' = [i \in 1 .. n - sent |-> <<opened, sent + i>>]
          /\ sent' = n
    /\ UNCHANGED <<object, lookups, state, task, goal, stream, next, dropped,
                   opened, halted>>

Least(i, j) == IF i < j THEN i ELSE j

(* Mutant: the rest is not what was left over but the same bytes again. *)
StoreFromTheStart ==
    /\ incoming # << >>
    /\ LET n == Least(Len(incoming), StreamSize - Len(stream))
       IN  IF n = 0
           THEN /\ dropped' = TRUE
                /\ incoming' = << >>
                /\ UNCHANGED stream
           ELSE /\ stream' = stream \o SubSeq(incoming, 1, n)
                /\ incoming' = SubSeq(incoming, 1, Len(incoming) - n)
                /\ UNCHANGED dropped
    /\ UNCHANGED <<object, lookups, state, task, goal, sent, next, opened,
                   halted>>

(* tls_received: as much as there is room for after 10 ms, and if there is *)
(* none the rest is dropped.                                               *)
Store == /\ incoming # << >>
         /\ LET n == Least(Len(incoming), StreamSize - Len(stream))
            IN  IF n = 0
                THEN /\ dropped' = TRUE
                     /\ incoming' = << >>
                     /\ UNCHANGED stream
                ELSE /\ stream' = stream \o SubSeq(incoming, 1, n)
                     /\ incoming' = SubSeq(incoming, n + 1, Len(incoming))
                     /\ UNCHANGED dropped
         /\ UNCHANGED <<object, lookups, state, task, goal, sent, next,
                        opened, halted>>

-----------------------------------------------------------------------------
Attempt == \/ CloseLocked \/ FreeState \/ WifiFails \/ Open
           \/ WaitEnds \/ TimesOut \/ Judge

Network == \/ StartAttempt \/ GiveUp \/ Attempt
           \/ ReadBytes \/ WriteBegins \/ WriteCalls \/ WriteReturns
           \/ CloseUnlocked

Thread == \/ Collision \/ Store
          \/ \E a \in Cells : \/ tls_client_dns_found(a)
                              \/ tls_client_connected(a)
                              \/ tls_client_err(a)
                              \/ RecvEnd(a)
                              \/ RecvData(a)

Next == ~halted /\ (Network \/ Thread)

Spec == Init /\ [][Next]_vars

(* The task goes on with what it has begun, and the thread with what it    *)
(* has to store; the lock is a mutex that a waiting task gets.  Nothing    *)
(* else is owed: not an answer, not a connection, not a byte.              *)
FairSpec == Spec /\ SF_vars(~halted /\ Attempt) /\ WF_vars(~halted /\ Store)

-----------------------------------------------------------------------------
(* Properties.                                                             *)

(* Of all the objects made for attempts that failed, timed out or ended,   *)
(* only the one the task knows exists, and no pcb is open on any other: no *)
(* path out of tls_connect leaks one, and no late answer opens one.        *)
NothingLeaks ==
    \A a \in Cells : /\ Live(a) => a = state
                     /\ pcb[a] # "none" => Live(a)

(* What tls_client_is_connected says is so, whoever closed the connection  *)
(* and whatever answers came late.                                         *)
ConnectedIsOpen ==
    \A a \in Cells : connected[a] => /\ pcb[a] = "open"
                                     /\ ~complete[a]
                                     /\ a = state

(* The bytes of a connection are read in the order in which they were      *)
(* received, each once and none left out, until some are dropped, however  *)
(* they are cut on the way through the stream buffer; what is left over    *)
(* from an earlier connection comes first.                                 *)
InOrder ==
    LET all == stream \o incoming
    IN  ~dropped =>
          \E old \in 0 .. Len(all) :
             /\ next + (Len(all) - old) = sent + 1
             /\ \A i \in 1 .. old : all[i][1] # opened
             /\ \A i \in old + 1 .. Len(all) :
                   all[i] = <<opened, next + (i - old) - 1>>

(* An attempt ends with a connection or with everything given back.        *)
AttemptEnds ==
    task = "wifi" ~> \/ task = "session"
                     \/ task = "apart" /\ state = Null
                     \/ halted
=============================================================================
