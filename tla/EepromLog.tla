----------------------------- MODULE EepromLog -----------------------------
(***************************************************************************)
(* The event log in the EEPROM (writeLog and deleteLogs of                 *)
(* src/EEPROM/EEPROM.cpp): LOG_COUNT slots and the stored address of the   *)
(* next one.  Control and UI both write it, the UI also deletes it on      *)
(* request.  The bus mutex covers single transactions only: between two of *)
(* them the other task may run, the supply may fail, and a transaction may *)
(* fail.                                                                   *)
(*                                                                         *)
(* Nothing keeps their calls apart: `raced', which the code does not have,  *)
(* records that two of them have overlapped.                               *)
(*                                                                         *)
(* Addresses count blocks of STR_BUFFER_SIZE bytes.  The blocks below the  *)
(* log hold the reboot flag and the stored target, the SSID and the        *)
(* password.  Messages are known by their serial number.                   *)
(*                                                                         *)
(* The chip is deaf for up to 5 ms after a write.  The writer waits them   *)
(* out, but with the bus released: the other task may call in between.     *)
(***************************************************************************)
EXTENDS Integers

CONSTANTS N,            \* LOG_COUNT: 10 in the code
          Writers,      \* the tasks that use the log
          MaxLogs,      \* bound on the messages logged
          MaxCrashes,   \* bound on the power failures
          MaxFaults     \* bound on the I2C transactions that fail

First  == 3                     \* MIN_LOG_ADDR
Last   == First + N - 1         \* MAX_LOG_ADDRESS
Erased == 1023                  \* 0xFFFF, far above the last block

Empty  == 0                     \* a slot whose first byte is zero
Junk   == -1                    \* never written, or torn: its CRC fails
Status == -2                    \* what the blocks below the log hold

ASSUME NAssumption == N \in 1 .. 1000
ASSUME WritersAssumption == Writers \subseteq {"control", "UI"}
ASSUME BoundsAssumption == /\ MaxLogs \in Nat
                           /\ MaxCrashes \in Nat
                           /\ MaxFaults \in Nat

VARIABLES pointer,      \* the word at LOG_ADDR_STORAGE
          cell,         \* the blocks up to the end of the log
          pc,           \* where each task is in writeLog or deleteLogs
          addr,         \* its log_addr
          pos,          \* its loop variable i
          message,      \* what it logs; Empty while the user deletes the log
          issued,       \* messages so far
          acked,        \* those reported as written and not deleted since
          busy,         \* the task waiting for the chip after a write
          cut,          \* the supply failed while the log was being deleted
          raced,        \* a task used the log while another was in a call
          crashes, faults

chip   == <<pointer, cell, busy>>
locals == <<pc, addr, pos, message>>
vars   == <<chip, locals, issued, acked, cut, raced, crashes, faults>>

Blocks == 0 .. Last
Slots  == First .. Last

TypeOK == /\ pointer \in 0 .. Last + 1 \cup {Erased}
          /\ cell \in [Blocks -> 0 .. MaxLogs \cup {Junk, Status}]
          /\ pc \in [Writers -> {"idle", "search", "wipe", "rewind", "slot",
                                 "pointer"}]
          /\ addr \in [Writers -> Blocks]
          /\ pos \in [Writers -> Slots]
          /\ message \in [Writers -> 0 .. MaxLogs]
          /\ issued \in 0 .. MaxLogs
          /\ acked \subseteq 1 .. MaxLogs
          /\ busy \in Writers \cup {"nobody"}
          /\ cut \in BOOLEAN
          /\ raced \in BOOLEAN
          /\ crashes \in 0 .. MaxCrashes
          /\ faults \in 0 .. MaxFaults

(* An erased chip whose status blocks are in use. *)
Init == /\ pointer = Erased
        /\ cell = [b \in Blocks |-> IF b < First THEN Status ELSE Junk]
        /\ pc = [w \in Writers |-> "idle"]
        /\ addr = [w \in Writers |-> 0]
        /\ pos = [w \in Writers |-> First]
        /\ message = [w \in Writers |-> Empty]
        /\ issued = 0
        /\ acked = {}
        /\ busy = "nobody"
        /\ cut = FALSE
        /\ raced = FALSE
        /\ crashes = 0
        /\ faults = 0

(* A task can use the bus unless it waits after its own write.  The        *)
(* transaction succeeds, or fails within the bound, or finds the chip      *)
(* deaf.                                                                   *)
Refused == busy # "nobody"

Transaction(w, ok) == /\ busy # w
                      /\ \/ ok /\ ~Refused /\ UNCHANGED faults
                         \/ ~ok /\ Refused /\ UNCHANGED faults
                         \/ ~ok /\ ~Refused /\ faults < MaxFaults
                                /\ faults' = faults + 1

(* A write that the chip has taken makes it deaf for a while. *)
Written(w, ok) == busy' = IF ok THEN w ELSE busy

CycleEnds == /\ busy # "nobody"
             /\ busy' = "nobody"
             /\ UNCHANGED <<pointer, cell, locals, issued, acked, cut,
                            crashes, faults>>

Set(f, w, v) == [f EXCEPT ![w] = v]

-----------------------------------------------------------------------------
(* writeLog.                                                               *)

FullLate(a) == a > Last + 1         \* mutant: off by one

Full(a) == a > Last

(* readLogAddress: a failed read yields address 0. *)
ReadPointer(w) ==
    /\ pc[w] = "idle"
    /\ issued < MaxLogs
    /\ issued' = issued + 1
    /\ message' = Set(message, w, issued + 1)
    /\ \E ok \in BOOLEAN :
          LET a == IF ok THEN pointer ELSE 0
          IN  /\ Transaction(w, ok)
              /\ IF Full(a)
                 THEN /\ pc' = Set(pc, w, "search")
                      /\ pos' = Set(pos, w, First)
                      /\ UNCHANGED addr
                 ELSE /\ pc' = Set(pc, w, "slot")
                      /\ addr' = Set(addr, w, a)
                      /\ UNCHANGED pos
    /\ UNCHANGED <<chip, acked, cut, crashes>>

(* isLogEmpty, a slot at a time; when no slot is empty, all are deleted. *)
Search(w) ==
    /\ pc[w] = "search"
    /\ \E ok \in BOOLEAN :
          /\ Transaction(w, ok)
          /\ \/ /\ ok /\ cell[pos[w]] = Empty
                /\ addr' = Set(addr, w, pos[w])
                /\ pc' = Set(pc, w, "slot")
                /\ UNCHANGED <<pos, acked>>
             \/ /\ ~ok \/ cell[pos[w]] # Empty
                /\ IF pos[w] < Last
                   THEN /\ pos' = Set(pos, w, pos[w] + 1)
                        /\ UNCHANGED <<pc, acked>>
                   ELSE /\ pos' = Set(pos, w, First)
                        /\ pc' = Set(pc, w, "wipe")
                        /\ acked' = {}
                /\ UNCHANGED addr
    /\ UNCHANGED <<chip, message, issued, cut, crashes>>

WriteSlot(w) ==
    /\ pc[w] = "slot"
    /\ \E ok \in BOOLEAN :
          /\ Transaction(w, ok)
          /\ Written(w, ok)
          /\ cell' = IF ok THEN Set(cell, addr[w], message[w]) ELSE cell
          /\ pc' = Set(pc, w, IF ok THEN "pointer" ELSE "idle")
    /\ UNCHANGED <<pointer, addr, pos, message, issued, acked, cut, crashes>>

(* The driver counts the bytes it hands to the FIFO, which takes all four  *)
(* of this write: that the chip did not acknowledge goes unnoticed.  The   *)
(* 66 bytes of a slot do not fit, and the same refusal is an error there.  *)
WritePointer(w) ==
    /\ pc[w] = "pointer"
    /\ \E ok \in BOOLEAN :
          /\ Transaction(w, ok)
          /\ Written(w, ok)
          /\ pointer' = IF ok THEN addr[w] + 1 ELSE pointer
          /\ acked' = IF ok \/ Refused THEN acked \cup {message[w]} ELSE acked
    /\ pc' = Set(pc, w, "idle")
    /\ UNCHANGED <<cell, addr, pos, message, issued, cut, crashes>>

-----------------------------------------------------------------------------
(* deleteLogs, from writeLog or from the DELETE ALL button.                *)

PressDelete ==
    /\ "UI" \in Writers
    /\ pc["UI"] = "idle" /\ busy # "UI"
    /\ pc' = Set(pc, "UI", "wipe")
    /\ pos' = Set(pos, "UI", First)
    /\ message' = Set(message, "UI", Empty)
    /\ acked' = {}
    /\ UNCHANGED <<chip, addr, issued, cut, crashes, faults>>

WipeSlot(w) ==
    /\ pc[w] = "wipe"
    /\ \E ok \in BOOLEAN :
          /\ Transaction(w, ok)
          /\ Written(w, ok)
          /\ cell' = IF ok THEN Set(cell, pos[w], Empty) ELSE cell
    /\ IF pos[w] < Last
       THEN pos' = Set(pos, w, pos[w] + 1) /\ UNCHANGED pc
       ELSE pc' = Set(pc, w, "rewind") /\ UNCHANGED pos
    /\ UNCHANGED <<pointer, addr, message, issued, acked, cut, crashes>>

(* Mutant: the pointer is not taken back when the logs are deleted. *)
WipePointerForgotten(w) ==
    /\ pc[w] = "rewind" /\ busy # w
    /\ addr' = Set(addr, w, First)
    /\ pc' = Set(pc, w, IF message[w] = Empty THEN "idle" ELSE "slot")
    /\ UNCHANGED <<chip, pos, message, issued, acked, cut, crashes,
                   faults>>

WipePointer(w) ==
    /\ pc[w] = "rewind"
    /\ \E ok \in BOOLEAN :
          /\ Transaction(w, ok)
          /\ Written(w, ok)
          /\ pointer' = IF ok THEN First ELSE pointer
    /\ addr' = Set(addr, w, First)
    /\ pc' = Set(pc, w, IF message[w] = Empty THEN "idle" ELSE "slot")
    /\ UNCHANGED <<cell, pos, message, issued, acked, cut, crashes>>

-----------------------------------------------------------------------------
(* The supply fails.  The slot being programmed may be left half written.  *)
Crash == /\ crashes < MaxCrashes
         /\ crashes' = crashes + 1
         /\ cell' \in {cell} \cup
               {Set(cell, addr[w], Junk) : w \in {v \in Writers : pc[v] = "slot"}}
         /\ pc' = [w \in Writers |-> "idle"]
         /\ addr' = [w \in Writers |-> 0]
         /\ pos' = [w \in Writers |-> First]
         /\ message' = [w \in Writers |-> Empty]
         /\ busy' = "nobody"
         /\ cut' = (cut \/ \E w \in Writers : pc[w] \in {"wipe", "rewind"})
         /\ UNCHANGED <<pointer, issued, acked, faults>>

Step(w) == \/ ReadPointer(w) \/ Search(w) \/ WriteSlot(w) \/ WritePointer(w)
           \/ WipeSlot(w) \/ WipePointer(w)

(* Another task is in a call, or in the 5 ms at the end of one. *)
Others(w) == \E v \in Writers \ {w} : pc[v] # "idle" \/ busy = v

Next ==
    \/ \E w \in Writers : Step(w) /\ raced' = (raced \/ Others(w))
    \/ PressDelete /\ raced' = (raced \/ Others("UI"))
    \/ (CycleEnds \/ Crash) /\ UNCHANGED raced

Spec == Init /\ [][Next]_vars

-----------------------------------------------------------------------------
(* Properties.                                                             *)

Idle == \A w \in Writers : pc[w] = "idle"

(* As long as the calls of the two tasks do not overlap and nothing fails, *)
(* the log is exactly the messages since the last deletion, oldest first,  *)
(* and then empty slots.                                                   *)
ExactLog ==
    Idle /\ pointer # Erased /\ crashes = 0 /\ faults = 0 /\ ~raced =>
        \A s \in Slots :
            cell[s] = IF s < pointer THEN issued - (pointer - s) + 1 ELSE Empty

(* "Log written successfully at address ...": a message so reported is in  *)
(* the log until the log is deleted.  Calls that overlap can break that.   *)
WrittenStays == \A m \in acked : \E s \in Slots : cell[s] = m

(* If none have and no transaction fails, it holds however the supply      *)
(* fails, but for a failure in the middle of a deletion: deleteLogs resets *)
(* the pointer last.                                                       *)
SurvivesCrashes == ~cut /\ ~raced /\ faults = 0 => WrittenStays
=============================================================================
