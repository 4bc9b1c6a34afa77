-------------------------- MODULE EepromLog_proofs --------------------------
(***************************************************************************)
(* For any number of slots, messages and power failures: a log whose users *)
(* do not overlap is exactly the messages since the last deletion, and a   *)
(* message reported as written survives every power failure but one in a   *)
(* deletion.                                                               *)
(***************************************************************************)
EXTENDS EepromLog, TLAPS

(* A call that logs has a message to log. *)
Messages == \A w \in Writers :
               pc[w] \in {"search", "slot", "pointer"} => message[w] # Empty

Deleting == \E w \in Writers : pc[w] \in {"wipe", "rewind"}

(* What was reported lies below the pointer, and so does no empty slot;    *)
(* the next message goes to the pointer.                                   *)
Tidy == /\ pointer >= First
        /\ \A m \in acked : \E s \in Slots : s < pointer /\ cell[s] = m
        /\ Deleting => acked = {}
        /\ ~Deleting => \A s \in Slots : s < pointer => cell[s] # Empty
        /\ \A w \in Writers :
             /\ pc[w] = "search" => pointer > Last
             /\ pc[w] \in {"slot", "pointer"} =>
                   addr[w] = pointer /\ pointer <= Last
             /\ pc[w] = "pointer" => cell[addr[w]] = message[w]

Below == ~cut /\ ~raced /\ faults = 0 => Tidy

(* The slots below p hold the messages up to n, the others none. *)
Holds(p, n) == \A s \in Slots :
                  cell[s] = IF s < p THEN n - (p - s) + 1 ELSE Empty

(* What a call that nothing disturbs has done so far. *)
OnTrack == /\ ~cut
           /\ Idle /\ pointer # Erased => Holds(pointer, issued)
           /\ \A w \in Writers :
                /\ pc[w] \in {"search", "slot", "pointer"} => message[w] = issued
                /\ pc[w] \in {"wipe", "rewind"} => message[w] \in {Empty, issued}
                /\ pc[w] = "slot" => Holds(addr[w], issued - 1)
                /\ pc[w] = "pointer" => Holds(addr[w] + 1, issued)
                /\ pc[w] = "wipe" => \A s \in Slots : s < pos[w] => cell[s] = Empty
                /\ pc[w] = "rewind" => \A s \in Slots : cell[s] = Empty

Progress == crashes = 0 /\ faults = 0 /\ ~raced => OnTrack

IInv == TypeOK /\ Messages /\ Below /\ Progress

-----------------------------------------------------------------------------
(* The bounds, in the form the provers use.                                *)
LEMMA Bounds == /\ N \in Nat /\ N >= 1 /\ N <= 1000
                /\ MaxLogs \in Nat /\ MaxCrashes \in Nat /\ MaxFaults \in Nat
                /\ First = 3 /\ Last = N + 2
                /\ Last \in Slots /\ First \in Slots /\ 0 \in Blocks
                /\ Slots \subseteq Blocks /\ Slots \subseteq Int
                /\ "nobody" \notin Writers
<1>1. N \in Nat /\ N >= 1 /\ N <= 1000
  BY NAssumption
<1>2. First = 3 /\ Last = N + 2
  BY <1>1 DEF First, Last
<1>3. Last \in Slots /\ First \in Slots /\ 0 \in Blocks
  BY <1>1, <1>2 DEF Slots, Blocks
<1>4. Slots \subseteq Blocks /\ Slots \subseteq Int
  BY <1>1, <1>2 DEF Slots, Blocks
<1>5. "nobody" \notin Writers
  BY WritersAssumption
<1> QED
  BY <1>1, <1>2, <1>3, <1>4, <1>5, BoundsAssumption

(* A transaction keeps count of the faults.  When no other task uses the   *)
(* log and none has failed, it succeeds.                                   *)
LEMMA Transactions ==
  ASSUME TypeOK, NEW w \in Writers, NEW ok \in BOOLEAN, Transaction(w, ok)
  PROVE  /\ faults' \in 0 .. MaxFaults
         /\ ~Others(w) /\ faults' = 0 => ok /\ ~Refused /\ faults = 0
<1>1. faults \in 0 .. MaxFaults /\ MaxFaults \in Nat
  BY Bounds DEF TypeOK
<1>2. faults' \in 0 .. MaxFaults
  BY <1>1 DEF Transaction
<1>3. ASSUME ~Others(w)
      PROVE  ~Refused
  BY <1>3 DEF TypeOK, Transaction, Others, Refused
<1>4. ASSUME ~Others(w), faults' = 0
      PROVE  ok /\ ~Refused /\ faults = 0
  BY <1>1, <1>3, <1>4 DEF Transaction
<1> QED
  BY <1>2, <1>4

-----------------------------------------------------------------------------
(* The types.                                                              *)

LEMMA TypeInit == Init => TypeOK
<1> SUFFICES ASSUME Init PROVE TypeOK
  OBVIOUS
<1>1. 0 \in 0 .. MaxLogs /\ 0 \in 0 .. MaxCrashes /\ 0 \in 0 .. MaxFaults
  BY Bounds
<1>2. cell \in [Blocks -> 0 .. MaxLogs \cup {Junk, Status}]
  BY DEF Init
<1>3. /\ addr \in [Writers -> Blocks]
      /\ pos \in [Writers -> Slots]
      /\ message \in [Writers -> 0 .. MaxLogs]
  BY <1>1, Bounds DEF Init, Empty
<1> QED
  BY <1>1, <1>2, <1>3 DEF Init, TypeOK

(* Each action changes a few entries, each to a value of its type.  What   *)
(* is reported is a message, since the call that reports it has one.       *)
LEMMA TypeStep == TypeOK /\ Messages /\ [Next]_vars => TypeOK'
<1> SUFFICES ASSUME TypeOK, Messages, [Next]_vars PROVE TypeOK'
  OBVIOUS
<1> USE DEF Set
<1>1. ASSUME NEW w \in Writers, Step(w), raced' = (raced \/ Others(w))
      PROVE  TypeOK'
  <2>0. raced' \in BOOLEAN
    BY <1>1 DEF TypeOK, Others
  <2>1. CASE ReadPointer(w)
    <3>1. PICK ok \in BOOLEAN :
             LET a == IF ok THEN pointer ELSE 0
             IN  /\ Transaction(w, ok)
                 /\ IF Full(a)
                    THEN /\ pc' = Set(pc, w, "search")
                         /\ pos' = Set(pos, w, First)
                         /\ UNCHANGED addr
                    ELSE /\ pc' = Set(pc, w, "slot")
                         /\ addr' = Set(addr, w, a)
                         /\ UNCHANGED pos
      BY <2>1 DEF ReadPointer
    <3> DEFINE a == IF ok THEN pointer ELSE 0
    <3>2. faults' \in 0 .. MaxFaults
      BY <3>1, Transactions
    <3>3. issued' \in 0 .. MaxLogs /\ message' \in [Writers -> 0 .. MaxLogs]
      BY <2>1, Bounds DEF ReadPointer, TypeOK
    <3>4. a \in Nat
      BY Bounds DEF TypeOK, Erased
    <3>5. ~Full(a) => a \in Blocks
      BY <3>4, Bounds DEF Full, Blocks
    <3>6. addr' \in [Writers -> Blocks]
      BY <3>1, <3>5 DEF TypeOK
    <3>7. pos' \in [Writers -> Slots]
      BY <3>1, Bounds DEF TypeOK
    <3>8. pc' \in [Writers -> {"idle", "search", "wipe", "rewind", "slot", "pointer"}]
      BY <3>1 DEF TypeOK
    <3>9. UNCHANGED <<chip, acked, cut, crashes>>
      BY <2>1 DEF ReadPointer
    <3> QED
      BY <2>0, <3>2, <3>3, <3>6, <3>7, <3>8, <3>9 DEF TypeOK, chip
  <2>2. CASE Search(w)
    <3>1. PICK ok \in BOOLEAN :
             /\ Transaction(w, ok)
             /\ \/ /\ ok /\ cell[pos[w]] = Empty
                   /\ addr' = Set(addr, w, pos[w])
                   /\ pc' = Set(pc, w, "slot")
                   /\ UNCHANGED <<pos, acked>>
                \/ /\ ~ok \/ cell[pos[w]] # Empty
                   /\ IF pos[w] < Last
                      THEN /\ pos' = Set(pos, w, pos[w] + 1)
                           /\ UNCHANGED <<pc, acked>>
                      ELSE /\ pos' = Set(pos, w, First)
                           /\ pc' = Set(pc, w, "wipe")
                           /\ acked' = {}
                   /\ UNCHANGED addr
      BY <2>2 DEF Search
    <3>2. faults' \in 0 .. MaxFaults
      BY <3>1, Transactions
    <3>3. pos[w] \in Slots /\ pos[w] \in Blocks
      BY Bounds DEF TypeOK
    <3>4. pos[w] < Last => pos[w] + 1 \in Slots
      BY <3>3, Bounds DEF Slots
    <3>5. addr' \in [Writers -> Blocks]
      BY <3>1, <3>3 DEF TypeOK
    <3>6. pos' \in [Writers -> Slots]
      BY <3>1, <3>4, Bounds DEF TypeOK
    <3>7. pc' \in [Writers -> {"idle", "search", "wipe", "rewind", "slot", "pointer"}]
      BY <3>1 DEF TypeOK
    <3>8. acked' \subseteq 1 .. MaxLogs
      BY <3>1 DEF TypeOK
    <3>9. UNCHANGED <<chip, message, issued, cut, crashes>>
      BY <2>2 DEF Search
    <3> QED
      BY <2>0, <3>2, <3>5, <3>6, <3>7, <3>8, <3>9 DEF TypeOK, chip
  <2>3. CASE WriteSlot(w)
    <3>1. PICK ok \in BOOLEAN :
             /\ Transaction(w, ok)
             /\ Written(w, ok)
             /\ cell' = IF ok THEN Set(cell, addr[w], message[w]) ELSE cell
             /\ pc' = Set(pc, w, IF ok THEN "pointer" ELSE "idle")
      BY <2>3 DEF WriteSlot
    <3>2. faults' \in 0 .. MaxFaults
      BY <3>1, Transactions
    <3>3. busy' \in Writers \cup {"nobody"}
      BY <3>1 DEF TypeOK, Written
    <3>4. cell' \in [Blocks -> 0 .. MaxLogs \cup {Junk, Status}]
      BY <3>1 DEF TypeOK
    <3>5. pc' \in [Writers -> {"idle", "search", "wipe", "rewind", "slot", "pointer"}]
      BY <3>1 DEF TypeOK
    <3> QED
      BY <2>0, <2>3, <3>2, <3>3, <3>4, <3>5 DEF TypeOK, WriteSlot
  <2>4. CASE WritePointer(w)
    <3>1. PICK ok \in BOOLEAN :
             /\ Transaction(w, ok)
             /\ Written(w, ok)
             /\ pointer' = IF ok THEN addr[w] + 1 ELSE pointer
             /\ acked' = IF ok \/ Refused THEN acked \cup {message[w]} ELSE acked
      BY <2>4 DEF WritePointer
    <3>2. faults' \in 0 .. MaxFaults
      BY <3>1, Transactions
    <3>3. busy' \in Writers \cup {"nobody"}
      BY <3>1 DEF TypeOK, Written
    <3>4. addr[w] \in Blocks
      BY DEF TypeOK
    <3>5. addr[w] + 1 \in 0 .. Last + 1
      BY <3>4, Bounds DEF Blocks
    <3>6. pointer' \in 0 .. Last + 1 \cup {Erased}
      BY <3>1, <3>5 DEF TypeOK
    <3>7. message[w] \in 1 .. MaxLogs
      <4>1. message[w] \in 0 .. MaxLogs /\ message[w] # 0
        BY <2>4 DEF WritePointer, Messages, TypeOK, Empty
      <4> QED
        BY <4>1, Bounds
    <3>8. acked' \subseteq 1 .. MaxLogs
      BY <3>1, <3>7 DEF TypeOK
    <3>9. pc' \in [Writers -> {"idle", "search", "wipe", "rewind", "slot", "pointer"}]
      BY <2>4 DEF WritePointer, TypeOK
    <3> QED
      BY <2>0, <2>4, <3>2, <3>3, <3>6, <3>8, <3>9 DEF TypeOK, WritePointer
  <2>5. CASE WipeSlot(w)
    <3>1. PICK ok \in BOOLEAN :
             /\ Transaction(w, ok)
             /\ Written(w, ok)
             /\ cell' = IF ok THEN Set(cell, pos[w], Empty) ELSE cell
      BY <2>5 DEF WipeSlot
    <3>2. faults' \in 0 .. MaxFaults
      BY <3>1, Transactions
    <3>3. busy' \in Writers \cup {"nobody"}
      BY <3>1 DEF TypeOK, Written
    <3>4. Empty \in 0 .. MaxLogs
      BY Bounds DEF Empty
    <3>5. cell' \in [Blocks -> 0 .. MaxLogs \cup {Junk, Status}]
      BY <3>1, <3>4 DEF TypeOK
    <3>6. pos[w] \in Slots
      BY DEF TypeOK
    <3>7. pos[w] < Last => pos[w] + 1 \in Slots
      BY <3>6, Bounds DEF Slots
    <3>8. pos' \in [Writers -> Slots]
      BY <2>5, <3>7 DEF WipeSlot, TypeOK
    <3>9. pc' \in [Writers -> {"idle", "search", "wipe", "rewind", "slot", "pointer"}]
      BY <2>5 DEF WipeSlot, TypeOK
    <3>10. UNCHANGED <<pointer, addr, message, issued, acked, cut, crashes>>
      BY <2>5 DEF WipeSlot
    <3> QED
      BY <2>0, <3>2, <3>3, <3>5, <3>8, <3>9, <3>10 DEF TypeOK
  <2>6. CASE WipePointer(w)
    <3>1. PICK ok \in BOOLEAN :
             /\ Transaction(w, ok)
             /\ Written(w, ok)
             /\ pointer' = IF ok THEN First ELSE pointer
      BY <2>6 DEF WipePointer
    <3>2. faults' \in 0 .. MaxFaults
      BY <3>1, Transactions
    <3>3. busy' \in Writers \cup {"nobody"}
      BY <3>1 DEF TypeOK, Written
    <3>4. pointer' \in 0 .. Last + 1 \cup {Erased}
      BY <3>1, Bounds DEF TypeOK
    <3>5. addr' \in [Writers -> Blocks]
      BY <2>6, Bounds DEF WipePointer, TypeOK
    <3>6. pc' \in [Writers -> {"idle", "search", "wipe", "rewind", "slot", "pointer"}]
      BY <2>6 DEF WipePointer, TypeOK
    <3>7. UNCHANGED <<cell, pos, message, issued, acked, cut, crashes>>
      BY <2>6 DEF WipePointer
    <3> QED
      BY <2>0, <3>2, <3>3, <3>4, <3>5, <3>6, <3>7 DEF TypeOK
  <2> QED
    BY <1>1, <2>1, <2>2, <2>3, <2>4, <2>5, <2>6 DEF Step
<1>2. ASSUME PressDelete, raced' = (raced \/ Others("UI"))
      PROVE  TypeOK'
  <2>1. raced' \in BOOLEAN
    BY <1>2 DEF TypeOK, Others
  <2>2. Empty \in 0 .. MaxLogs
    BY Bounds DEF Empty
  <2>3. pos' \in [Writers -> Slots] /\ message' \in [Writers -> 0 .. MaxLogs]
    BY <1>2, <2>2, Bounds DEF PressDelete, TypeOK
  <2>4. pc' \in [Writers -> {"idle", "search", "wipe", "rewind", "slot", "pointer"}]
    BY <1>2 DEF PressDelete, TypeOK
  <2> QED
    BY <1>2, <2>1, <2>3, <2>4 DEF PressDelete, TypeOK, chip
<1>3. CASE CycleEnds /\ UNCHANGED raced
  BY <1>3 DEF CycleEnds, TypeOK, locals
<1>4. CASE Crash /\ UNCHANGED raced
  <2>1. crashes' \in 0 .. MaxCrashes
    BY <1>4, Bounds DEF Crash, TypeOK
  <2>2. cell' \in [Blocks -> 0 .. MaxLogs \cup {Junk, Status}]
    BY <1>4 DEF Crash, TypeOK
  <2>3. /\ addr' \in [Writers -> Blocks]
        /\ pos' \in [Writers -> Slots]
    BY <1>4, Bounds DEF Crash
  <2>4. message' \in [Writers -> 0 .. MaxLogs]
    BY <1>4, Bounds DEF Crash, Empty
  <2>5. pc' \in [Writers -> {"idle", "search", "wipe", "rewind", "slot", "pointer"}]
    BY <1>4 DEF Crash
  <2>6. cut' \in BOOLEAN
    BY <1>4 DEF Crash, TypeOK
  <2>7. UNCHANGED <<pointer, issued, acked, faults>> /\ busy' = "nobody"
    BY <1>4 DEF Crash
  <2> QED
    BY <1>4, <2>1, <2>2, <2>3, <2>4, <2>5, <2>6, <2>7 DEF TypeOK
<1>5. CASE UNCHANGED vars
  BY <1>5 DEF TypeOK, vars, chip, locals
<1> QED
  BY <1>1, <1>2, <1>3, <1>4, <1>5 DEF Next

(* A call takes its message when it starts, and a deletion that continues  *)
(* as a call that logs has one.                                            *)
LEMMA MessagesStep == TypeOK /\ Messages /\ [Next]_vars => Messages'
<1> SUFFICES ASSUME TypeOK, Messages, [Next]_vars PROVE Messages'
  OBVIOUS
<1> USE DEF Set, Messages
<1>1. ASSUME NEW w \in Writers, Step(w)
      PROVE  Messages'
  <2>1. CASE ReadPointer(w)
    <3>1. issued + 1 # Empty
      BY DEF TypeOK, Empty
    <3>2. message' = [message EXCEPT ![w] = issued + 1]
      BY <2>1 DEF ReadPointer
    <3>3. \A v \in Writers \ {w} : pc'[v] = pc[v] /\ message'[v] = message[v]
      BY <2>1, <3>2 DEF ReadPointer, TypeOK
    <3> QED
      BY <3>1, <3>2, <3>3 DEF TypeOK
  <2>2. CASE Search(w)
    BY <2>2 DEF Search, TypeOK
  <2>3. CASE WriteSlot(w)
    BY <2>3 DEF WriteSlot, TypeOK
  <2>4. CASE WritePointer(w)
    BY <2>4 DEF WritePointer, TypeOK
  <2>5. CASE WipeSlot(w)
    BY <2>5 DEF WipeSlot, TypeOK
  <2>6. CASE WipePointer(w)
    BY <2>6 DEF WipePointer, TypeOK
  <2> QED
    BY <1>1, <2>1, <2>2, <2>3, <2>4, <2>5, <2>6 DEF Step
<1>2. CASE PressDelete
  BY <1>2 DEF PressDelete, TypeOK
<1>3. CASE CycleEnds
  BY <1>3 DEF CycleEnds, locals
<1>4. CASE Crash
  BY <1>4 DEF Crash
<1>5. CASE UNCHANGED vars
  BY <1>5 DEF vars, locals
<1> QED
  BY <1>1, <1>2, <1>3, <1>4, <1>5 DEF Next

-----------------------------------------------------------------------------
(* Calls that do not overlap and whose transactions do not fail.           *)

(* What each action does then.                                             *)
LEMMA Undisturbed ==
  ASSUME TypeOK, NEW w \in Writers, ~Others(w), faults' = 0
  PROVE  /\ Step(w) => faults = 0
         /\ ReadPointer(w) =>
              IF Full(pointer)
              THEN pc' = Set(pc, w, "search") /\ UNCHANGED addr
              ELSE pc' = Set(pc, w, "slot") /\ addr' = Set(addr, w, pointer)
         /\ Search(w) =>
              \/ /\ cell[pos[w]] = Empty
                 /\ addr' = Set(addr, w, pos[w]) /\ pc' = Set(pc, w, "slot")
                 /\ UNCHANGED <<pos, acked>>
              \/ UNCHANGED <<pc, acked, addr>>
              \/ /\ pc' = Set(pc, w, "wipe") /\ pos' = Set(pos, w, First)
                 /\ acked' = {} /\ UNCHANGED addr
         /\ WriteSlot(w) =>
              cell' = Set(cell, addr[w], message[w]) /\ pc' = Set(pc, w, "pointer")
         /\ WritePointer(w) =>
              pointer' = addr[w] + 1 /\ acked' = acked \cup {message[w]}
         /\ WipeSlot(w) => cell' = Set(cell, pos[w], Empty)
         /\ WipePointer(w) => pointer' = First
<1>1. \A ok \in BOOLEAN : Transaction(w, ok) => ok /\ faults = 0
  BY Transactions
<1>2. Step(w) => faults = 0
  BY <1>1 DEF Step, ReadPointer, Search, WriteSlot, WritePointer, WipeSlot, WipePointer
<1>3. ReadPointer(w) =>
        IF Full(pointer)
        THEN pc' = Set(pc, w, "search") /\ UNCHANGED addr
        ELSE pc' = Set(pc, w, "slot") /\ addr' = Set(addr, w, pointer)
  BY <1>1 DEF ReadPointer
<1>4. Search(w) =>
        \/ /\ cell[pos[w]] = Empty
           /\ addr' = Set(addr, w, pos[w]) /\ pc' = Set(pc, w, "slot")
           /\ UNCHANGED <<pos, acked>>
        \/ UNCHANGED <<pc, acked, addr>>
        \/ /\ pc' = Set(pc, w, "wipe") /\ pos' = Set(pos, w, First)
           /\ acked' = {} /\ UNCHANGED addr
  BY <1>1 DEF Search
<1>5. WriteSlot(w) =>
        cell' = Set(cell, addr[w], message[w]) /\ pc' = Set(pc, w, "pointer")
  BY <1>1 DEF WriteSlot
<1>6. WritePointer(w) =>
        pointer' = addr[w] + 1 /\ acked' = acked \cup {message[w]}
  BY <1>1 DEF WritePointer
<1>7. WipeSlot(w) => cell' = Set(cell, pos[w], Empty)
  BY <1>1 DEF WipeSlot
<1>8. WipePointer(w) => pointer' = First
  BY <1>1 DEF WipePointer
<1> QED
  BY <1>2, <1>3, <1>4, <1>5, <1>6, <1>7, <1>8

-----------------------------------------------------------------------------
(* What was reported stays.                                                *)

LEMMA BelowStep ==
    TypeOK /\ TypeOK' /\ Messages /\ Below /\ [Next]_vars => Below'
<1> SUFFICES ASSUME TypeOK, TypeOK', Messages, Below, [Next]_vars,
                    ~cut', ~raced', faults' = 0
             PROVE  Tidy'
  BY DEF Below
<1> USE DEF Set
<1>1. ASSUME NEW w \in Writers, Step(w), raced' = (raced \/ Others(w))
      PROVE  Tidy'
  <2>1. ~raced /\ ~Others(w)
    BY <1>1
  <2>2. ~cut /\ UNCHANGED cut
    BY <1>1 DEF Step, ReadPointer, Search, WriteSlot, WritePointer, WipeSlot, WipePointer
  <2>3. Tidy
    BY <1>1, <2>1, <2>2, Undisturbed DEF Below
  <2>4. \A v \in Writers \ {w} : pc[v] = "idle"
    BY <2>1 DEF Others
  <2>5. \A v \in Writers \ {w} : pc'[v] = "idle"
    BY <1>1, <2>4 DEF Step, ReadPointer, Search, WriteSlot, WritePointer, WipeSlot, WipePointer, TypeOK
  <2>6. Deleting <=> pc[w] \in {"wipe", "rewind"}
    BY <2>4 DEF Deleting
  <2>7. Deleting' <=> pc'[w] \in {"wipe", "rewind"}
    BY <2>5 DEF Deleting
  <2>8. pointer \in Int /\ pointer' \in Int
    BY Bounds DEF TypeOK, Erased
  <2>9. CASE ReadPointer(w)
    <3>1. UNCHANGED <<pointer, cell, acked>> /\ pc[w] = "idle"
      BY <2>9 DEF ReadPointer, chip
    <3>2. \/ pc'[w] = "search" /\ pointer > Last
          \/ pc'[w] = "slot" /\ addr'[w] = pointer /\ ~(pointer > Last)
      BY <2>9, <2>1, Undisturbed DEF Full, TypeOK
    <3> QED
      BY <3>1, <3>2, <2>3, <2>5, <2>6, <2>7, <2>8, Bounds DEF Tidy
  <2>10. CASE Search(w)
    <3>1. UNCHANGED <<pointer, cell>> /\ pc[w] = "search"
      BY <2>10 DEF Search, chip
    <3>2. cell[pos[w]] # Empty
      BY <3>1, <2>3, <2>6, <2>8, Bounds DEF Tidy, TypeOK, Slots
    <3>3. \/ UNCHANGED <<pc, acked, addr>>
          \/ pc' = Set(pc, w, "wipe") /\ acked' = {}
      BY <2>10, <2>1, <3>2, Undisturbed
    <3>4. CASE UNCHANGED <<pc, acked, addr>>
      BY <3>1, <3>4, <2>3, <2>5, <2>6, <2>7 DEF Tidy
    <3>5. CASE pc' = Set(pc, w, "wipe") /\ acked' = {}
      <4>1. pc'[w] = "wipe"
        BY <3>5 DEF TypeOK
      <4> QED
        BY <3>1, <3>5, <4>1, <2>3, <2>5, <2>6, <2>7 DEF Tidy
    <3> QED
      BY <3>3, <3>4, <3>5
  <2>11. CASE WriteSlot(w)
    <3>1. UNCHANGED <<pointer, acked, addr, message>> /\ pc[w] = "slot"
      BY <2>11 DEF WriteSlot
    <3>2. cell' = [cell EXCEPT ![addr[w]] = message[w]] /\ pc'[w] = "pointer"
      BY <2>11, <2>1, Undisturbed DEF TypeOK
    <3>3. addr[w] = pointer /\ pointer <= Last /\ message[w] # Empty
      BY <3>1, <2>3 DEF Tidy, Messages
    <3>4. cell'[addr[w]] = message[w]
      BY <3>2 DEF TypeOK
    <3>5. \A s \in Slots : s < pointer => cell'[s] = cell[s]
      BY <3>2, <3>3, <2>8, Bounds DEF TypeOK
    <3> QED
      BY <3>1, <3>2, <3>3, <3>4, <3>5, <2>3, <2>5, <2>6, <2>7 DEF Tidy
  <2>12. CASE WritePointer(w)
    <3>1. UNCHANGED cell /\ pc[w] = "pointer" /\ pc'[w] = "idle"
      BY <2>12 DEF WritePointer, TypeOK
    <3>2. pointer' = addr[w] + 1 /\ acked' = acked \cup {message[w]}
      BY <2>12, <2>1, Undisturbed
    <3>3. /\ addr[w] = pointer /\ pointer <= Last /\ message[w] # Empty
          /\ cell[addr[w]] = message[w] /\ pointer >= First
      BY <3>1, <2>3 DEF Tidy, Messages
    <3>4. pointer' = pointer + 1 /\ pointer \in Slots /\ cell[pointer] = message[w]
      BY <3>2, <3>3, <2>8, Bounds DEF Slots
    <3>5. \A s \in Slots : s < pointer' <=> s < pointer \/ s = pointer
      BY <3>4, <2>8, Bounds
    <3>6. \A m \in acked' : \E s \in Slots : s < pointer' /\ cell'[s] = m
      BY <3>1, <3>2, <3>4, <3>5, <2>3 DEF Tidy
    <3>7. \A s \in Slots : s < pointer' => cell'[s] # Empty
      BY <3>1, <3>3, <3>4, <3>5, <2>3, <2>6 DEF Tidy
    <3>8. pointer' >= First
      BY <3>3, <3>4, <2>8, Bounds
    <3> QED
      BY <3>1, <3>6, <3>7, <3>8, <2>5, <2>7 DEF Tidy
  <2>13. CASE WipeSlot(w)
    <3>1. UNCHANGED <<pointer, acked, addr, message>> /\ pc[w] = "wipe"
      BY <2>13 DEF WipeSlot
    <3>2. pc'[w] \in {"wipe", "rewind"}
      BY <2>13, <3>1 DEF WipeSlot, TypeOK
    <3>3. acked' = {}
      BY <3>1, <2>3, <2>6 DEF Tidy
    <3> QED
      BY <3>1, <3>2, <3>3, <2>3, <2>5, <2>7 DEF Tidy
  <2>14. CASE WipePointer(w)
    <3>1. UNCHANGED <<cell, acked, message>> /\ pc[w] = "rewind"
      BY <2>14 DEF WipePointer
    <3>2. pointer' = First
      BY <2>14, <2>1, Undisturbed
    <3>3. pc'[w] \in {"idle", "slot"} /\ addr'[w] = First
      BY <2>14 DEF WipePointer, TypeOK
    <3>4. acked' = {}
      BY <3>1, <2>3, <2>6 DEF Tidy
    <3>5. \A s \in Slots : ~(s < First)
      BY Bounds DEF Slots
    <3>6. First <= Last /\ First >= First
      BY Bounds
    <3> QED
      BY <3>2, <3>3, <3>4, <3>5, <3>6, <2>5, <2>7 DEF Tidy
  <2> QED
    BY <1>1, <2>9, <2>10, <2>11, <2>12, <2>13, <2>14 DEF Step
<1>2. ASSUME PressDelete, raced' = (raced \/ Others("UI"))
      PROVE  Tidy'
  <2>1. "UI" \in Writers /\ ~raced /\ ~Others("UI")
    BY <1>2 DEF PressDelete
  <2>2. Tidy
    BY <1>2, <2>1 DEF PressDelete, Below
  <2>3. \A v \in Writers \ {"UI"} : pc'[v] = "idle"
    BY <1>2, <2>1 DEF PressDelete, Others, TypeOK
  <2>4. pc'["UI"] = "wipe" /\ acked' = {} /\ UNCHANGED <<pointer, cell>>
    BY <1>2, <2>1 DEF PressDelete, TypeOK, chip
  <2> QED
    BY <2>1, <2>2, <2>3, <2>4 DEF Tidy, Deleting
<1>3. CASE CycleEnds /\ UNCHANGED raced
  BY <1>3 DEF CycleEnds, Below, Tidy, Deleting, locals
<1>4. CASE Crash /\ UNCHANGED raced
  <2>1. Tidy /\ ~Deleting
    BY <1>4 DEF Crash, Below, Deleting
  <2>2. /\ UNCHANGED <<pointer, acked>>
        /\ \A w \in Writers : pc'[w] = "idle"
    BY <1>4 DEF Crash
  <2>3. \A s \in Slots : s < pointer => cell'[s] = cell[s]
    <3>1. CASE cell' = cell
      BY <3>1
    <3>2. ASSUME NEW w \in Writers, pc[w] = "slot",
                 cell' = [cell EXCEPT ![addr[w]] = Junk]
          PROVE  \A s \in Slots : s < pointer => cell'[s] = cell[s]
      <4>1. addr[w] = pointer
        BY <3>2, <2>1 DEF Tidy
      <4>2. pointer \in Int
        BY Bounds DEF TypeOK, Erased
      <4> QED
        BY <3>2, <4>1, <4>2, Bounds DEF TypeOK
    <3> QED
      BY <1>4, <3>1, <3>2 DEF Crash
  <2> QED
    BY <2>1, <2>2, <2>3 DEF Tidy, Deleting
<1>5. CASE UNCHANGED vars
  BY <1>5 DEF vars, chip, locals, Below, Tidy, Deleting
<1> QED
  BY <1>1, <1>2, <1>3, <1>4, <1>5 DEF Next

-----------------------------------------------------------------------------
(* The log is exact.                                                       *)

(* No slot lies below the first: an empty log holds no message.            *)
LEMMA EmptyHolds ==
  ASSUME NEW n \in Int, \A s \in Slots : cell[s] = Empty
  PROVE  Holds(First, n)
BY Bounds DEF Holds, Slots

(* A message written to the slot after the others.                         *)
LEMMA OneMoreHolds ==
  ASSUME TypeOK, NEW p \in Slots, NEW n \in Int, Holds(p, n - 1),
         cell' = [cell EXCEPT ![p] = n]
  PROVE  Holds(p + 1, n)'
<1> DEFINE q == p + 1
<1> SUFFICES ASSUME NEW s \in Slots
             PROVE  cell'[s] = IF s < q THEN n - (q - s) + 1 ELSE Empty
  <2> HIDE DEF q
  <2> SUFFICES Holds(q, n)'
    BY DEF q
  <2> QED
    BY DEF Holds
<1>1. s \in Int /\ p \in Int /\ s \in Blocks /\ p \in Blocks
  BY Bounds
<1>2. CASE s = p
  BY <1>1, <1>2 DEF TypeOK
<1>3. CASE s # p
  <2>1. cell'[s] = cell[s]
    BY <1>1, <1>3 DEF TypeOK
  <2>2. cell[s] = IF s < p THEN n - 1 - (p - s) + 1 ELSE Empty
    BY DEF Holds
  <2>3. s < q <=> s < p
    BY <1>1, <1>3
  <2>4. n - 1 - (p - s) + 1 = n - (q - s) + 1
    BY <1>1
  <2> HIDE DEF q
  <2> QED
    BY <2>1, <2>2, <2>3, <2>4
<1> QED
  BY <1>2, <1>3

LEMMA ProgressStep ==
    TypeOK /\ TypeOK' /\ Below /\ Progress /\ [Next]_vars => Progress'
<1> SUFFICES ASSUME TypeOK, TypeOK', Below, Progress, [Next]_vars,
                    crashes' = 0, faults' = 0, ~raced'
             PROVE  OnTrack'
  BY DEF Progress
<1> USE DEF Set
<1>1. ASSUME NEW w \in Writers, Step(w), raced' = (raced \/ Others(w))
      PROVE  OnTrack'
  <2>1. ~raced /\ ~Others(w)
    BY <1>1
  <2>2. crashes = 0 /\ UNCHANGED cut
    BY <1>1 DEF Step, ReadPointer, Search, WriteSlot, WritePointer, WipeSlot, WipePointer
  <2>3. OnTrack
    BY <1>1, <2>1, <2>2, Undisturbed DEF Progress
  <2>4. Tidy /\ ~cut'
    BY <1>1, <2>1, <2>2, <2>3, Undisturbed DEF Below, OnTrack
  <2>5. \A v \in Writers \ {w} : pc[v] = "idle"
    BY <2>1 DEF Others
  <2>6. \A v \in Writers \ {w} : pc'[v] = "idle"
    BY <1>1, <2>5 DEF Step, ReadPointer, Search, WriteSlot, WritePointer, WipeSlot, WipePointer, TypeOK
  <2>7. Idle' <=> pc'[w] = "idle"
    BY <2>6 DEF Idle
  <2>8. issued \in Int /\ pointer \in Int
    BY Bounds DEF TypeOK, Erased
  <2>9. CASE ReadPointer(w)
    <3>1. /\ UNCHANGED <<pointer, cell>> /\ pc[w] = "idle"
          /\ issued' = issued + 1 /\ message'[w] = issued'
      BY <2>9 DEF ReadPointer, chip, TypeOK
    <3>2. \/ pc'[w] = "search"
          \/ pc'[w] = "slot" /\ addr'[w] = pointer /\ ~(pointer > Last)
      BY <2>9, <2>1, Undisturbed DEF Full, TypeOK
    <3>3. Idle
      BY <3>1, <2>5 DEF Idle
    <3>4. CASE pc'[w] = "search"
      BY <3>1, <3>4, <2>4, <2>6, <2>7 DEF OnTrack
    <3>5. CASE pc'[w] = "slot" /\ addr'[w] = pointer /\ ~(pointer > Last)
      <4>1. pointer # Erased
        BY <3>5, Bounds DEF Erased
      <4>2. Holds(pointer, issued)
        BY <3>3, <4>1, <2>3 DEF OnTrack
      <4>3. issued' - 1 = issued
        BY <3>1, <2>8
      <4>4. Holds(addr[w], issued - 1)'
        BY <3>1, <3>5, <4>2, <4>3 DEF Holds
      <4> QED
        BY <3>1, <3>5, <4>4, <2>4, <2>6, <2>7 DEF OnTrack
    <3> QED
      BY <3>2, <3>4, <3>5
  <2>10. CASE Search(w)
    <3>1. UNCHANGED <<pointer, cell, message, issued>> /\ pc[w] = "search"
      BY <2>10 DEF Search, chip
    <3>2. cell[pos[w]] # Empty
      BY <3>1, <2>4, <2>5, <2>8, Bounds DEF Tidy, Deleting, TypeOK, Slots
    <3>3. message[w] = issued
      BY <3>1, <2>3 DEF OnTrack
    <3>4. CASE UNCHANGED <<pc, acked, addr>>
      BY <3>1, <3>3, <3>4, <2>4, <2>6, <2>7 DEF OnTrack
    <3>5. CASE pc' = Set(pc, w, "wipe") /\ pos' = Set(pos, w, First)
      <4>1. pc'[w] = "wipe" /\ pos'[w] = First
        BY <3>5 DEF TypeOK
      <4>2. \A s \in Slots : ~(s < First)
        BY Bounds DEF Slots
      <4> QED
        BY <3>1, <3>3, <4>1, <4>2, <2>4, <2>6, <2>7 DEF OnTrack
    <3> QED
      BY <2>10, <2>1, <3>2, <3>4, <3>5, Undisturbed
  <2>11. CASE WriteSlot(w)
    <3>1. UNCHANGED <<addr, message, issued>> /\ pc[w] = "slot"
      BY <2>11 DEF WriteSlot
    <3>2. cell' = [cell EXCEPT ![addr[w]] = message[w]] /\ pc'[w] = "pointer"
      BY <2>11, <2>1, Undisturbed DEF TypeOK
    <3>3. /\ message[w] = issued
          /\ Holds(addr[w], issued - 1)
      BY <3>1, <2>3 DEF OnTrack
    <3>4. addr[w] \in Slots
      BY <3>1, <2>4, <2>8, Bounds DEF Tidy, Slots
    <3>5. Holds(addr[w] + 1, issued)'
      <4>1. \A p \in Slots, n \in Int :
              Holds(p, n - 1) /\ cell' = [cell EXCEPT ![p] = n] => Holds(p + 1, n)'
        BY OneMoreHolds
      <4> QED
        BY <3>1, <3>2, <3>3, <3>4, <4>1, <2>8
    <3> QED
      BY <3>1, <3>2, <3>3, <3>5, <2>4, <2>6, <2>7 DEF OnTrack
  <2>12. CASE WritePointer(w)
    <3>1. /\ UNCHANGED <<cell, issued>>
          /\ pc[w] = "pointer" /\ pc'[w] = "idle"
      BY <2>12 DEF WritePointer, TypeOK
    <3>2. pointer' = addr[w] + 1
      BY <2>12, <2>1, Undisturbed
    <3>3. Holds(addr[w] + 1, issued)
      BY <3>1, <2>3 DEF OnTrack
    <3>4. Holds(pointer, issued)'
      BY <3>1, <3>2, <3>3 DEF Holds
    <3> QED
      BY <3>1, <3>4, <2>4, <2>6 DEF OnTrack
  <2>13. CASE WipeSlot(w)
    <3>1. UNCHANGED <<pointer, message, issued>> /\ pc[w] = "wipe"
      BY <2>13 DEF WipeSlot
    <3>2. cell' = [cell EXCEPT ![pos[w]] = Empty]
      BY <2>13, <2>1, Undisturbed
    <3>3. /\ message[w] \in {Empty, issued}
          /\ \A s \in Slots : s < pos[w] => cell[s] = Empty
      BY <3>1, <2>3 DEF OnTrack
    <3>4. pos[w] \in Slots
      BY DEF TypeOK
    <3>5. \A s \in Slots : s < pos[w] \/ s = pos[w] => cell'[s] = Empty
      BY <3>2, <3>3, Bounds DEF TypeOK
    <3>6. CASE pos[w] < Last
      <4>1. pc'[w] = "wipe" /\ pos'[w] = pos[w] + 1
        BY <2>13, <3>1, <3>6 DEF WipeSlot, TypeOK
      <4>2. \A s, k \in Slots : s < k + 1 => s < k \/ s = k
        BY Bounds
      <4>3. \A s \in Slots : s < pos'[w] => cell'[s] = Empty
        BY <3>4, <3>5, <4>1, <4>2
      <4> QED
        BY <3>1, <3>3, <4>1, <4>3, <2>4, <2>6, <2>7 DEF OnTrack
    <3>7. CASE ~(pos[w] < Last)
      <4>1. pc'[w] = "rewind"
        BY <2>13, <3>7 DEF WipeSlot, TypeOK
      <4>2. \A s \in Slots : s < pos[w] \/ s = pos[w]
        BY <3>4, <3>7, Bounds DEF Slots
      <4> QED
        BY <3>1, <3>3, <3>5, <4>1, <4>2, <2>4, <2>6, <2>7 DEF OnTrack
    <3> QED
      BY <3>6, <3>7
  <2>14. CASE WipePointer(w)
    <3>1. UNCHANGED <<cell, message, issued>> /\ pc[w] = "rewind"
      BY <2>14 DEF WipePointer
    <3>2. pointer' = First
      BY <2>14, <2>1, Undisturbed
    <3>3. addr'[w] = First
          /\ pc'[w] = IF message[w] = Empty THEN "idle" ELSE "slot"
      BY <2>14 DEF WipePointer, TypeOK
    <3>4. /\ message[w] \in {Empty, issued}
          /\ \A s \in Slots : cell'[s] = Empty
      BY <3>1, <2>3 DEF OnTrack
    <3>5. Holds(First, issued)' /\ Holds(First, issued - 1)'
      BY <3>1, <3>4, <2>8, Bounds DEF Holds, Slots
    <3>6. CASE message[w] = Empty
      <4>1. Holds(pointer, issued)'
        BY <3>2, <3>5
      <4> QED
        BY <3>3, <3>6, <4>1, <2>4, <2>6 DEF OnTrack
    <3>7. CASE message[w] # Empty
      <4>1. pc'[w] = "slot" /\ message'[w] = issued'
        BY <3>1, <3>3, <3>4, <3>7
      <4>2. Holds(addr[w], issued - 1)'
        BY <3>3, <3>5
      <4> QED
        BY <4>1, <4>2, <2>4, <2>6, <2>7 DEF OnTrack
    <3> QED
      BY <3>6, <3>7
  <2> QED
    BY <1>1, <2>9, <2>10, <2>11, <2>12, <2>13, <2>14 DEF Step
<1>2. ASSUME PressDelete, raced' = (raced \/ Others("UI"))
      PROVE  OnTrack'
  <2>1. "UI" \in Writers /\ ~raced /\ ~Others("UI")
    BY <1>2 DEF PressDelete
  <2>2. OnTrack
    BY <1>2, <2>1 DEF PressDelete, Progress
  <2>3. \A v \in Writers \ {"UI"} : pc'[v] = "idle"
    BY <1>2, <2>1 DEF PressDelete, Others, TypeOK
  <2>4. pc'["UI"] = "wipe" /\ pos'["UI"] = First /\ message'["UI"] = Empty
        /\ UNCHANGED cut
    BY <1>2, <2>1 DEF PressDelete, TypeOK
  <2>5. \A s \in Slots : ~(s < First)
    BY Bounds DEF Slots
  <2> QED
    BY <2>1, <2>2, <2>3, <2>4, <2>5 DEF OnTrack, Idle
<1>3. CASE CycleEnds /\ UNCHANGED raced
  BY <1>3 DEF CycleEnds, Progress, OnTrack, Idle, Holds, locals
<1>4. CASE Crash
  BY <1>4 DEF Crash, TypeOK
<1>5. CASE UNCHANGED vars
  BY <1>5 DEF vars, chip, locals, Progress, OnTrack, Idle, Holds
<1> QED
  BY <1>1, <1>2, <1>3, <1>4, <1>5 DEF Next

-----------------------------------------------------------------------------
(* The invariant, and what follows.                                        *)

LEMMA InvInit == Init => IInv
<1> SUFFICES ASSUME Init PROVE IInv
  OBVIOUS
<1>1. TypeOK
  BY TypeInit
<1>2. Messages
  BY DEF Init, Messages
<1>3. Tidy
  <2>1. pointer >= First
    BY Bounds DEF Init, Erased
  <2>2. \A s \in Slots : cell[s] # Empty
    BY Bounds DEF Init, Slots, Empty, Junk
  <2> QED
    BY <2>1, <2>2 DEF Init, Tidy, Deleting
<1>4. OnTrack
  BY DEF Init, OnTrack
<1> QED
  BY <1>1, <1>2, <1>3, <1>4 DEF IInv, Below, Progress

(* The invariant holds of every behaviour.                                 *)
THEOREM Invariance == Spec => []IInv
<1>1. Init => IInv
  BY InvInit
<1>2. IInv /\ [Next]_vars => IInv'
  BY TypeStep, MessagesStep, BelowStep, ProgressStep DEF IInv
<1> QED
  BY <1>1, <1>2, PTL DEF Spec

(* Every variable keeps its type: the pointer stays the address of a slot, *)
(* the end of the log or erased, and what writeLog reports is a message.   *)
THEOREM TypeCorrect == Spec => []TypeOK
<1>1. IInv => TypeOK
  BY DEF IInv
<1> QED
  BY <1>1, Invariance, PTL

(* As long as the calls of the two tasks do not overlap and nothing fails, *)
(* writeLog and deleteLogs keep the log exactly the messages since the     *)
(* last deletion, oldest first, and then empty slots.                      *)
THEOREM LogIsExact == Spec => []ExactLog
<1>1. IInv => ExactLog
  BY DEF IInv, Progress, OnTrack, ExactLog, Holds
<1> QED
  BY <1>1, Invariance, PTL

(* A message that writeLog reported as written is in the log until the log *)
(* is deleted, however often the supply fails outside a deletion, as long  *)
(* as the calls do not overlap and no transaction fails.                   *)
THEOREM ReportedSurvives == Spec => []SurvivesCrashes
<1>1. IInv => SurvivesCrashes
  BY DEF IInv, Below, Tidy, SurvivesCrashes, WrittenStays
<1> QED
  BY <1>1, Invariance, PTL
=============================================================================
