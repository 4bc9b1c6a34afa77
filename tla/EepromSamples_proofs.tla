------------------------ MODULE EepromSamples_proofs ------------------------
(***************************************************************************)
(* The measurement ring, for every number of slots, of samples, of power   *)
(* failures and of failed transactions:                                    *)
(*   - its types (Typed, RTyped);                                          *)
(*   - as long as nothing fails it holds exactly the last N samples (RInv);*)
(*   - a power failure costs one sample at most (LInv);                    *)
(*   - a chart shows no sample twice (SInv, CInv), and runs forward in     *)
(*     time (OInv, FInv).                                                  *)
(***************************************************************************)
EXTENDS EepromSamples, FiniteSetTheorems, SequenceTheorems, TLAPS

(* An index is at most one lap ahead of the ring. *)
LEMMA OneLap ==
    ASSUME NEW a \in 0 .. 2 * N - 1
    PROVE  a % N = IF a < N THEN a ELSE a - N
BY NAssumption

(* The slot the writer takes next: an erased index counts as 0. *)
Place == IF idx = Erased THEN 0 ELSE idx

(* The ring after n samples, in the two laps: filling up, and full.        *)
RingHolds(n, place) ==
    IF n < N
    THEN /\ place = n
         /\ \A i \in 0 .. N - 1 : i < n => slot[i] = Entry(i)
    ELSE /\ place \in 0 .. N - 1
         /\ \A i \in 0 .. N - 1 :
               slot[i] = Entry(IF i < place THEN n - place + i
                                            ELSE n - place + i - N)

(* The same while the sample n is being written. *)
RInv == crashes = 0 /\ faults = 0 =>
    /\ idx = Erased => taken = 0
    /\ wpc # "index" => RingHolds(taken, Place)
    /\ wpc # "idle" => curr = Place
    /\ wpc \in {"idle", "count"} => InUse(total) = Kept
    /\ wpc \in {"data", "index"} =>
          total = IF taken + 1 < N THEN taken + 1 ELSE N
    /\ wpc = "index" =>
          /\ slot[curr] = Entry(taken)
          /\ taken < N => /\ Place = taken
                          /\ \A i \in 0 .. N - 1 : i < taken =>
                                slot[i] = Entry(i)
          /\ taken >= N => \A i \in 0 .. N - 1 : i # Place =>
                slot[i] = Entry(IF i < Place THEN taken - Place + i
                                             ELSE taken - Place + i - N)

(* The part of the type invariant that the ring needs. *)
Typed == /\ idx \in 0 .. N - 1 \cup {Erased}
         /\ total \in 0 .. N \cup {Erased}
         /\ slot \in [0 .. N - 1 -> Valid \cup {Broken}]
         /\ wpc \in {"idle", "count", "data", "index"}
         /\ curr \in 0 .. N - 1
         /\ taken \in Nat
         /\ crashes \in Nat
         /\ faults \in Nat

(* What writeSample stores passes the check of readAllSamples. *)
LEMMA EntryValid == \A k \in Nat : Entry(k) \in Valid
BY DEF Entry, Valid

(* An erased chip is an empty ring. *)
LEMMA InitRing == Init => Typed /\ RInv
<1> SUFFICES ASSUME Init PROVE Typed /\ RInv
  OBVIOUS
<1>1. Typed
  BY NAssumption DEF Init, Typed
<1>2. RInv
  BY NAssumption DEF Init, RInv, RingHolds, Place, InUse, Kept
<1> QED
  BY <1>1, <1>2

(* Every step keeps these types. *)
LEMMA NextTyped == Typed /\ [Next]_vars => Typed'
<1> SUFFICES ASSUME Typed, [Next]_vars PROVE Typed'
  OBVIOUS
<1> USE NAssumption DEF Typed, ring, writer, reader
<1>1. CASE ReadIndex
  BY <1>1 DEF ReadIndex, Transaction, Erased
<1>2. CASE CountUp
  BY <1>2 DEF CountUp, Transaction, InUse, Erased
<1>3. CASE WriteData
  BY <1>3, EntryValid DEF WriteData, Transaction
<1>4. CASE WriteIndex
  <2>1. (curr + 1) % N \in 0 .. N - 1
    OBVIOUS
  <2> QED
    BY <1>4, <2>1 DEF WriteIndex, Transaction
<1>5. CASE Reader
  <2>1. UNCHANGED <<ring, writer, crashes>> /\ faults' \in Nat
    BY <1>5 DEF Reader, OpenChart, ReadTotal, ReadSlot, ShowChart, LeaveChart,
                ChartRead, Transaction
  <2> QED
    BY <2>1
<1>6. CASE Crash
  <2>1. slot' = slot \/ slot' = [slot EXCEPT ![curr] = Broken]
    BY <1>6 DEF Crash
  <2>2. slot' \in [0 .. N - 1 -> Valid \cup {Broken}]
    BY <2>1
  <2>3. /\ UNCHANGED <<idx, total, faults>>
        /\ wpc' = "idle" /\ curr' = 0
        /\ taken' \in Nat /\ crashes' \in Nat
    BY <1>6 DEF Crash
  <2> QED
    BY <2>2, <2>3
<1>7. CASE CycleEnds
  BY <1>7 DEF CycleEnds
<1>8. CASE UNCHANGED vars
  BY <1>8 DEF vars
<1> QED
  BY <1>1, <1>2, <1>3, <1>4, <1>5, <1>6, <1>7, <1>8 DEF Next, Writer

(* Every step of writer, reader and supply keeps the ring in shape. *)
LEMMA NextRing == Typed /\ RInv /\ [Next]_vars => RInv'
<1> SUFFICES ASSUME Typed, RInv, [Next]_vars, crashes' = 0 /\ faults' = 0
             PROVE  RInv'
  BY DEF RInv
<1> USE NAssumption DEF ring, writer, reader
<1>1. CASE ReadIndex
  <2>1. crashes = 0 /\ faults = 0 /\ UNCHANGED <<idx, total, slot, taken>>
        /\ wpc = "idle" /\ wpc' = "count"
    BY <1>1 DEF ReadIndex, Transaction, Typed
  <2>2. curr' = Place
    BY <1>1, <2>1 DEF ReadIndex, Transaction, Typed, Place, Erased
  <2> QED
    BY <2>1, <2>2 DEF RInv, RingHolds, Place, Kept
<1>2. CASE CountUp
  <2>1. crashes = 0 /\ faults = 0 /\ UNCHANGED <<idx, slot, curr, taken>>
        /\ wpc = "count" /\ wpc' = "data"
    BY <1>2 DEF CountUp, Transaction, Typed
  <2>2. total' = IF InUse(total) < N THEN InUse(total) + 1 ELSE total
    BY <1>2, <2>1 DEF CountUp, Transaction, Typed
  <2>3. total' = IF taken + 1 < N THEN taken + 1 ELSE N
    BY <2>1, <2>2 DEF RInv, Typed, Kept, InUse
  <2> QED
    BY <2>1, <2>3 DEF RInv, RingHolds, Place
<1>3. CASE WriteData
  <2>1. crashes = 0 /\ faults = 0 /\ UNCHANGED <<idx, total, curr, taken>>
        /\ wpc = "data" /\ wpc' = "index"
        /\ slot' = [slot EXCEPT ![curr] = Entry(taken)]
    BY <1>3 DEF WriteData, Transaction, Typed
  <2>2. curr = Place /\ RingHolds(taken, Place)
        /\ (total = IF taken + 1 < N THEN taken + 1 ELSE N)
    BY <2>1 DEF RInv
  <2>3. slot'[curr] = Entry(taken)
        /\ \A i \in 0 .. N - 1 : i # curr => slot'[i] = slot[i]
    BY <2>1 DEF Typed
  <2> QED
    BY <2>1, <2>2, <2>3 DEF RInv, RingHolds, Place, Typed
<1>4. CASE WriteIndex
  <2>1. crashes = 0 /\ faults = 0 /\ UNCHANGED <<total, slot, curr>>
        /\ wpc = "index" /\ wpc' = "idle" /\ taken' = taken + 1
        /\ idx' = (curr + 1) % N
    BY <1>4 DEF WriteIndex, Transaction, Typed
  <2>2. idx' = IF curr + 1 < N THEN curr + 1 ELSE 0
    <3> DEFINE a == curr + 1
    <3>1. a \in 0 .. 2 * N - 1 /\ a <= N
      BY DEF Typed
    <3> HIDE DEF a
    <3>2. a % N = IF a < N THEN a ELSE 0
      BY <3>1, OneLap
    <3> QED
      BY <2>1, <3>2 DEF a
  <2>3. Place' = idx'
    BY <2>2 DEF Place, Erased, Typed
  <2>4. curr = Place /\ curr \in 0 .. N - 1 /\ taken \in Nat
    BY <2>1 DEF RInv, Typed
  <2>5. InUse(total)' = Kept'
    <3>1. total' = IF taken + 1 < N THEN taken + 1 ELSE N
      BY <2>1 DEF RInv
    <3>2. Kept' = IF taken + 1 < N THEN taken + 1 ELSE N
      BY <2>1 DEF Kept
    <3>3. total' # Erased
      BY <2>4, <3>1 DEF Erased
    <3> QED
      BY <3>1, <3>2, <3>3 DEF InUse
  <2>6. RingHolds(taken, Place)'
    <3>1. CASE taken < N
      BY <2>1, <2>2, <2>3, <2>4, <3>1 DEF RInv, RingHolds
    <3>2. CASE taken >= N
      <4>1. \A i \in 0 .. N - 1 :
               slot[i] = Entry(IF i <= curr THEN taken - curr + i
                                            ELSE taken - curr + i - N)
        BY <2>1, <2>4, <3>2 DEF RInv
      <4>2. \A i \in 0 .. N - 1 :
               (IF i <= curr THEN taken - curr + i ELSE taken - curr + i - N)
               = (IF i < idx' THEN taken + 1 - idx' + i
                              ELSE taken + 1 - idx' + i - N)
        BY <2>2, <2>4
      <4>3. \A i \in 0 .. N - 1 :
               slot[i] = Entry(IF i < idx' THEN taken + 1 - idx' + i
                                           ELSE taken + 1 - idx' + i - N)
        BY <4>1, <4>2
      <4> QED
        BY <2>1, <2>2, <2>3, <2>4, <3>2, <4>3 DEF RingHolds
    <3> QED
      BY <2>4, <3>1, <3>2
  <2>7. idx' # Erased
    BY <2>2, <2>4 DEF Erased
  <2> QED
    BY <2>1, <2>5, <2>6, <2>7 DEF RInv
<1>5. CASE Reader
  <2>1. UNCHANGED <<ring, writer, crashes>> /\ faults = 0
    BY <1>5 DEF Reader, OpenChart, ReadTotal, ReadSlot, ShowChart, LeaveChart,
                ChartRead, Transaction, Typed
  <2> QED
    BY <2>1 DEF RInv, RingHolds, Place, Kept, InUse
<1>6. CASE Crash
  BY <1>6 DEF Crash, Typed
<1>7. CASE CycleEnds
  BY <1>7 DEF CycleEnds, RInv, RingHolds, Place, Kept, InUse
<1>8. CASE UNCHANGED vars
  BY <1>8 DEF vars, RInv, RingHolds, Place, Kept, InUse
<1> QED
  BY <1>1, <1>2, <1>3, <1>4, <1>5, <1>6, <1>7, <1>8 DEF Next, Writer

(* The inductive invariant holds in every state. *)
THEOREM RingInvariant == Spec => [](Typed /\ RInv)
BY InitRing, NextTyped, NextRing, PTL DEF Spec

(* Whatever the number of slots, the slots that readAllSamples visits are  *)
(* the last samples taken, oldest first.                                   *)
THEOREM HistoryExact == Spec => []ExactHistory
<1>1. Typed /\ RInv => ExactHistory
  <2> SUFFICES ASSUME Typed, RInv, wpc = "idle", crashes = 0, faults = 0,
                      NEW i \in 0 .. Kept - 1
               PROVE  /\ InUse(total) = Kept
                      /\ slot[(Start(idx % N, InUse(total)) + i) % N]
                            = Entry(taken - Kept + i)
    BY DEF ExactHistory, RInv
  <2> USE NAssumption DEF Typed
  <2>1. InUse(total) = Kept /\ RingHolds(taken, Place)
    BY DEF RInv
  <2>2. Kept \in 1 .. N /\ Clamp(Kept) = Kept /\ taken > 0
    BY DEF Kept, Clamp
  <2>3. CASE taken < N
    <3>1. idx = taken /\ Kept = taken
      BY <2>1, <2>2, <2>3 DEF RingHolds, Place, Kept
    <3>2. idx % N = idx
      BY <3>1, <2>3, OneLap
    <3>3. Start(idx % N, Kept) = N % N
      BY <2>2, <3>1, <3>2 DEF Start
    <3>4. N % N = 0
      BY OneLap
    <3>5. (0 + i) % N = i
      BY <3>1, <2>3, OneLap
    <3> QED
      BY <2>1, <2>3, <3>1, <3>3, <3>4, <3>5 DEF RingHolds
  <2>4. CASE taken >= N
    <3>1. Kept = N /\ Place \in 0 .. N - 1
      BY <2>1, <2>4 DEF Kept, RingHolds
    <3>2. idx = Place
      BY <2>2 DEF RInv, Place
    <3>3. idx % N = idx
      BY <3>1, <3>2, OneLap
    <3>4. Start(idx % N, Kept) = idx
      BY <2>2, <3>1, <3>2, <3>3 DEF Start
    <3> DEFINE a == idx + i
    <3>5. PICK j \in Int : /\ j = (idx + i) % N
                           /\ j = IF idx + i < N THEN idx + i ELSE idx + i - N
      <4>1. a \in 0 .. 2 * N - 1
        BY <3>1, <3>2
      <4> HIDE DEF a
      <4>2. a % N = IF a < N THEN a ELSE a - N
        BY <4>1, OneLap
      <4> QED
        BY <4>1, <4>2 DEF a
    <3>6. /\ j \in 0 .. N - 1
          /\ (IF j < idx THEN taken - idx + j ELSE taken - idx + j - N)
             = taken - N + i
      BY <3>1, <3>2, <3>5
    <3>7. slot[j] = Entry(taken - N + i)
      BY <2>1, <2>4, <3>2, <3>6 DEF RingHolds
    <3> QED
      BY <2>1, <3>1, <3>4, <3>5, <3>7
  <2> QED
    BY <2>3, <2>4
<1> QED
  BY <1>1, RingInvariant, PTL

-----------------------------------------------------------------------------
(* What power failures cost.                                               *)

(* How many samples ago the slot i is, when p is the next one to be taken: *)
(* 1 is the last sample, N the slot p itself.                              *)
Age(i, p) == IF i < p THEN p - i ELSE p - i + N

LEMMA AgeFacts ==
    ASSUME NEW p \in 0 .. N - 1, NEW i \in 0 .. N - 1
    PROVE  /\ Age(i, p) \in 1 .. N /\ Age(i, p) \in Nat
           /\ (Age(i, p) = N <=> i = p)
           /\ (p + 1) % N \in 0 .. N - 1
           /\ Age(i, (p + 1) % N) = IF i = p THEN 1 ELSE Age(i, p) + 1
<1> USE NAssumption
<1> DEFINE a == p + 1
<1>1. a \in 0 .. 2 * N - 1 /\ a <= N
  OBVIOUS
<1> HIDE DEF a
<1>2. a % N = IF a < N THEN a ELSE a - N
  BY <1>1, OneLap
<1>3. a = p + 1
  BY DEF a
<1>4. (p + 1) % N = IF p + 1 < N THEN p + 1 ELSE 0
  BY <1>1, <1>2, <1>3
<1> QED
  BY <1>4 DEF Age

(* The slots whose sample is at least as old as its place says, and which  *)
(* a chart visits.                                                         *)
Good == {i \in 0 .. N - 1 : /\ idx # Erased /\ slot[i] # Broken
                            /\ slot[i].serial + Age(i, Place) <= taken
                            /\ Age(i, Place) <= InUse(total)}
Keeps == {slot[i].serial : i \in Good}

(* The first of the last N samples, of n. *)
First(n) == IF n < N THEN 0 ELSE n - N

(* The samples a full ring of them would show and this one does not; while *)
(* the next sample is being written its slot no longer counts.             *)
Lost == (First(IF wpc = "idle" THEN taken ELSE taken + 1) .. taken - 1) \ Keeps

LInv ==
    faults = 0 =>
        /\ wpc # "idle" => curr = Place
        /\ wpc = "index" => slot[curr] = Entry(taken)
        /\ wpc \in {"data", "index"} => InUse(total) >= 1
        /\ \A i \in 0 .. N - 1 : i # Place /\ slot[i] # Broken =>
              /\ slot[i].serial + Age(i, Place) <= taken
              /\ Age(i, Place) <= InUse(total)
              /\ wpc \in {"data", "index"} => Age(i, Place) < InUse(total)
        /\ Cardinality(Lost) <= crashes

LEMMA LostFinite ==
    ASSUME Typed PROVE IsFiniteSet(Lost) /\ Cardinality(Lost) \in Nat
<1> DEFINE S == First(IF wpc = "idle" THEN taken ELSE taken + 1) .. taken - 1
<1>1. IsFiniteSet(S)
  <2> DEFINE a == First(IF wpc = "idle" THEN taken ELSE taken + 1)
             b == taken - 1
  <2>1. a \in Int /\ b \in Int
    BY NAssumption DEF First, Typed
  <2> HIDE DEF a, b
  <2>2. IsFiniteSet(a .. b)
    BY <2>1, FS_Interval
  <2> QED
    BY <2>2 DEF a, b
<1>2. Lost \subseteq S
  BY DEF Lost
<1> QED
  BY <1>1, <1>2, FS_Subset, FS_CardinalityType

LEMMA LostShrinks ==
    ASSUME Typed, Typed', Lost' \subseteq Lost,
           Cardinality(Lost) <= crashes, UNCHANGED crashes
    PROVE  Cardinality(Lost') <= crashes'
<1>1. /\ IsFiniteSet(Lost) /\ Cardinality(Lost) \in Nat
      /\ Cardinality(Lost') \in Nat
  BY LostFinite, FS_Subset, FS_CardinalityType
<1>2. Cardinality(Lost') <= Cardinality(Lost)
  BY <1>1, FS_Subset
<1>3. crashes \in Nat
  BY DEF Typed
<1> DEFINE m == Cardinality(Lost)
           n == Cardinality(Lost')
<1>4. m \in Nat /\ n \in Nat /\ n <= m /\ m <= crashes
  BY <1>1, <1>2
<1> HIDE DEF m, n
<1>5. n <= crashes'
  BY <1>3, <1>4
<1> QED
  BY <1>5 DEF n

LEMMA LostGrows ==
    ASSUME Typed, Typed', NEW x, Lost' \subseteq Lost \cup {x},
           Cardinality(Lost) <= crashes, crashes' = crashes + 1
    PROVE  Cardinality(Lost') <= crashes'
<1> DEFINE m == Cardinality(Lost)
           n == Cardinality(Lost')
           k == Cardinality(Lost \cup {x})
<1>1. IsFiniteSet(Lost) /\ m \in Nat
  BY LostFinite
<1>2. IsFiniteSet(Lost \cup {x}) /\ k \in {m, m + 1}
  BY <1>1, FS_AddElement
<1>3. n <= k /\ n \in Nat
  BY <1>2, FS_Subset, FS_CardinalityType
<1>4. crashes \in Nat /\ m <= crashes
  BY DEF Typed
<1> HIDE DEF m, n, k
<1>5. n <= crashes'
  BY <1>1, <1>2, <1>3, <1>4
<1> QED
  BY <1>5 DEF n

LEMMA PlaceIn == Typed => Place \in 0 .. N - 1
BY NAssumption DEF Typed, Place

LEMMA SerialIn ==
    ASSUME Typed, NEW i \in 0 .. N - 1, slot[i] # Broken
    PROVE  slot[i].serial \in Nat
BY DEF Typed, Valid

LEMMA InitLost == Init => LInv
<1> SUFFICES ASSUME Init PROVE LInv
  OBVIOUS
<1>1. taken = 0 /\ wpc = "idle" /\ crashes = 0
  BY DEF Init
<1>2. First(taken) .. taken - 1 = {}
  BY <1>1, NAssumption DEF First
<1>3. Lost = {}
  BY <1>1, <1>2 DEF Lost
<1>4. Cardinality(Lost) = 0
  BY <1>3, FS_EmptySet
<1>5. \A i \in 0 .. N - 1 : slot[i] = Broken
  BY DEF Init
<1> QED
  BY <1>1, <1>4, <1>5 DEF LInv

(* Steps that change no slot and no place. *)
LEMMA LostStays ==
    ASSUME Typed, Typed', LInv, faults = 0,
           UNCHANGED <<idx, slot, taken, crashes>>, InUse(total') >= InUse(total),
           wpc = "idle" <=> wpc' = "idle"
    PROVE  Cardinality(Lost') <= crashes'
<1>1. Place \in 0 .. N - 1 /\ Place' = Place
  BY PlaceIn DEF Place
<1>2. Good \subseteq Good'
  <2> SUFFICES ASSUME NEW i \in Good PROVE i \in Good'
    OBVIOUS
  <2>1. /\ i \in 0 .. N - 1 /\ idx # Erased /\ slot[i] # Broken
        /\ slot[i].serial + Age(i, Place) <= taken
        /\ Age(i, Place) <= InUse(total)
    BY DEF Good
  <2>2. InUse(total) \in Nat /\ InUse(total') \in Nat /\ Age(i, Place) \in Nat
    <3>1. total \in Nat /\ total' \in Nat
      BY NAssumption DEF Typed, Erased
    <3>2. InUse(total) \in Nat /\ InUse(total') \in Nat
      BY <3>1 DEF InUse
    <3> QED
      BY <1>1, <2>1, <3>2, AgeFacts
  <2>3. Age(i, Place) <= InUse(total')
    BY <2>1, <2>2
  <2>4. Age(i, Place)' = Age(i, Place) /\ InUse(total)' = InUse(total')
    BY <1>1 DEF Age, InUse
  <2> QED
    BY <2>1, <2>3, <2>4 DEF Good
<1>3. Keeps \subseteq Keeps'
  BY <1>2 DEF Keeps, Good
<1>4. Lost' \subseteq Lost
  BY <1>3 DEF Lost, First
<1> QED
  BY <1>4, LostShrinks DEF LInv

LEMMA NextLost == Typed /\ LInv /\ [Next]_vars => LInv'
<1> SUFFICES ASSUME Typed, LInv, [Next]_vars, faults' = 0 PROVE LInv'
  BY DEF LInv
<1> USE NAssumption DEF ring, writer, reader
<1>1. Typed'
  BY NextTyped
<1>2. Place \in 0 .. N - 1
  BY PlaceIn
<1>3. CASE ReadIndex
  <2>1. /\ faults = 0 /\ UNCHANGED <<idx, total, slot, taken, crashes>>
        /\ wpc = "idle" /\ wpc' = "count"
    BY <1>3 DEF ReadIndex, Transaction, Typed
  <2>2. curr' = Place
    BY <1>3, <2>1 DEF ReadIndex, Transaction, Typed, Place, Erased
  <2>3. /\ Place' = Place /\ Good' = Good /\ InUse(total)' = InUse(total)
        /\ \A i \in 0 .. N - 1 : Age(i, Place)' = Age(i, Place)
    BY <2>1 DEF Place, Good, InUse, Age
  <2>4. Keeps' = Keeps
    BY <2>1, <2>3 DEF Keeps
  <2>5. Lost' \subseteq Lost
    BY <2>1, <2>4 DEF Lost, First, Typed
  <2>6. Cardinality(Lost') <= crashes'
    BY <1>1, <2>1, <2>5, LostShrinks DEF LInv
  <2> QED
    BY <2>1, <2>2, <2>3, <2>6 DEF LInv
<1>4. CASE CountUp
  <2>1. /\ faults = 0 /\ UNCHANGED <<idx, slot, curr, taken, crashes>>
        /\ wpc = "count" /\ wpc' = "data"
    BY <1>4 DEF CountUp, Transaction, Typed
  <2>2. total' = IF InUse(total) < N THEN InUse(total) + 1 ELSE total
    BY <1>4, <2>1 DEF CountUp, Transaction, Typed
  <2>3. /\ InUse(total') \in 1 .. N /\ InUse(total) \in 0 .. N
        /\ InUse(total') = IF InUse(total) < N THEN InUse(total) + 1 ELSE N
    BY <2>2 DEF InUse, Typed, Erased
  <2>4. Cardinality(Lost') <= crashes'
    BY <1>1, <2>1, <2>3, LostStays
  <2>5. Place' = Place
    BY <2>1 DEF Place
  <2>6. ASSUME NEW i \in 0 .. N - 1, i # Place, slot[i] # Broken
        PROVE  /\ slot[i].serial + Age(i, Place) <= taken
               /\ Age(i, Place) < InUse(total')
    <3>1. Age(i, Place) \in 1 .. N /\ Age(i, Place) # N
      BY <1>2, <2>6, AgeFacts
    <3>2. /\ slot[i].serial + Age(i, Place) <= taken
          /\ Age(i, Place) <= InUse(total)
      BY <2>1, <2>6 DEF LInv
    <3> QED
      BY <2>3, <3>1, <3>2
  <2>7. \A i \in 0 .. N - 1 : i # Place /\ slot[i] # Broken =>
           Age(i, Place) <= InUse(total')
    <3> SUFFICES ASSUME NEW i \in 0 .. N - 1, i # Place, slot[i] # Broken
                 PROVE  Age(i, Place) <= InUse(total')
      OBVIOUS
    <3>1. Age(i, Place) \in Nat
      BY <1>2, AgeFacts
    <3> QED
      BY <2>3, <2>6, <3>1
  <2>8. curr = Place
    BY <2>1 DEF LInv
  <2>9. InUse(total)' = InUse(total')
    BY DEF InUse
  <2> HIDE DEF Broken
  <2> QED
    BY <2>1, <2>3, <2>4, <2>5, <2>6, <2>7, <2>8, <2>9 DEF LInv, Age
<1>5. CASE WriteData
  <2>1. /\ faults = 0 /\ UNCHANGED <<idx, total, curr, taken, crashes>>
        /\ wpc = "data" /\ wpc' = "index"
        /\ slot' = [slot EXCEPT ![curr] = Entry(taken)]
    BY <1>5 DEF WriteData, Transaction, Typed
  <2>2. curr = Place /\ Place' = Place /\ InUse(total)' = InUse(total)
    BY <2>1 DEF LInv, Place, InUse
  <2>3. slot'[curr] = Entry(taken)
        /\ \A i \in 0 .. N - 1 : i # curr => slot'[i] = slot[i]
    BY <2>1 DEF Typed
  <2>4. Lost' \subseteq Lost
    <3> SUFFICES ASSUME NEW x \in Lost' PROVE x \in Lost
      OBVIOUS
    <3>1. x \in First(taken + 1) .. taken - 1 /\ x \notin Keeps'
      BY <2>1 DEF Lost, First
    <3>2. ASSUME NEW i \in Good, x = slot[i].serial PROVE FALSE
      <4>1. /\ i \in 0 .. N - 1 /\ idx # Erased /\ slot[i] # Broken
            /\ slot[i].serial + Age(i, Place) <= taken
            /\ Age(i, Place) <= InUse(total)
        BY <3>2 DEF Good
      <4>2. CASE i = Place
        <5>1. Age(i, Place) = N
          BY <4>1, <4>2, AgeFacts
        <5> QED
          BY <3>1, <3>2, <4>1, <5>1 DEF First, Typed
      <4>3. CASE i # Place
        <5>1. i \in Good'
          BY <2>1, <2>2, <2>3, <4>1, <4>3 DEF Good, Age
        <5> QED
          BY <2>2, <2>3, <3>1, <3>2, <4>1, <4>3, <5>1 DEF Keeps
      <4> QED
        BY <4>2, <4>3
    <3> QED
      BY <2>1, <3>1, <3>2 DEF Lost, Keeps, First
  <2>5. Cardinality(Lost') <= crashes'
    BY <1>1, <2>1, <2>4, LostShrinks DEF LInv
  <2>6. ASSUME NEW i \in 0 .. N - 1, i # Place, slot'[i] # Broken
        PROVE  /\ slot'[i].serial + Age(i, Place) <= taken
               /\ Age(i, Place) <= InUse(total)
               /\ Age(i, Place) < InUse(total)
    BY <2>1, <2>2, <2>3, <2>6 DEF LInv
  <2>7. InUse(total) >= 1
    BY <2>1 DEF LInv
  <2>8. Age(0, Place)' = Age(0, Place) /\ \A i : Age(i, Place)' = Age(i, Place)
    BY <2>2 DEF Age
  <2> QED
    BY <2>1, <2>2, <2>3, <2>5, <2>6, <2>7, <2>8 DEF LInv
<1>6. CASE WriteIndex
  <2>1. /\ faults = 0 /\ UNCHANGED <<total, slot, curr, crashes>>
        /\ wpc = "index" /\ wpc' = "idle" /\ taken' = taken + 1
        /\ idx' = (curr + 1) % N
    BY <1>6 DEF WriteIndex, Transaction, Typed
  <2>2. curr = Place /\ slot[curr] = Entry(taken) /\ InUse(total) >= 1
    BY <2>1 DEF LInv
  <2>3. idx' \in 0 .. N - 1
    BY <1>2, <2>1, <2>2, AgeFacts
  <2>4. Place' = idx' /\ idx' # Erased
    BY <2>3 DEF Place, Erased
  <2>5. InUse(total)' = InUse(total)
    BY <2>1 DEF InUse
  <2>6. ASSUME NEW i \in 0 .. N - 1, slot[i] # Broken
        PROVE  /\ slot[i].serial + Age(i, Place') <= taken + 1
               /\ Age(i, Place') <= InUse(total)
               /\ i \in Good'
    <3>1. Age(i, Place') = IF i = Place THEN 1 ELSE Age(i, Place) + 1
      BY <1>2, <2>1, <2>2, <2>4, AgeFacts
    <3>2. Age(i, Place) \in Nat /\ slot[i].serial \in Nat
      BY <1>2, <2>6, AgeFacts, SerialIn
    <3>3. CASE i = Place
      <4>1. slot[i].serial = taken
        BY <2>2, <3>3 DEF Entry
      <4>2. /\ slot[i].serial + Age(i, Place') <= taken + 1
            /\ Age(i, Place') <= InUse(total)
        BY <2>2, <3>1, <3>3, <4>1 DEF Typed
      <4> QED
        BY <2>1, <2>4, <2>5, <2>6, <4>2 DEF Good, Age
    <3>4. CASE i # Place
      <4>1. /\ slot[i].serial + Age(i, Place) <= taken
            /\ Age(i, Place) < InUse(total)
        BY <2>1, <2>6, <3>4 DEF LInv
      <4>2. InUse(total) \in Nat /\ taken \in Nat
        BY DEF InUse, Typed
      <4>3. /\ slot[i].serial + Age(i, Place') <= taken + 1
            /\ Age(i, Place') <= InUse(total)
        BY <3>1, <3>2, <3>4, <4>1, <4>2
      <4> QED
        BY <2>1, <2>4, <2>5, <2>6, <4>3 DEF Good, Age
    <3> QED
      BY <3>3, <3>4
  <2>7. Lost' \subseteq Lost
    <3> SUFFICES ASSUME NEW x \in Lost' PROVE x \in Lost
      OBVIOUS
    <3>1. x \in First(taken + 1) .. taken /\ x \notin Keeps'
      BY <2>1 DEF Lost, First, Typed
    <3>2. ASSUME NEW i \in 0 .. N - 1, slot[i] # Broken
          PROVE  x # slot[i].serial
      BY <2>1, <2>6, <3>1, <3>2 DEF Keeps
    <3>3. x # taken
      <4>1. slot[curr] # Broken /\ slot[curr].serial = taken
        BY <2>2 DEF Entry, Broken, Typed
      <4> QED
        BY <1>2, <2>2, <3>2, <4>1
    <3>4. x \notin Keeps
      BY <3>2 DEF Keeps, Good
    <3> QED
      BY <2>1, <3>1, <3>3, <3>4 DEF Lost, First, Typed
  <2>8. Cardinality(Lost') <= crashes'
    BY <1>1, <2>1, <2>7, LostShrinks DEF LInv
  <2>9. \A i : Age(i, Place)' = Age(i, Place')
    BY DEF Age
  <2> QED
    BY <2>1, <2>5, <2>6, <2>8, <2>9 DEF LInv
<1>7. CASE Reader
  <2>1. UNCHANGED <<ring, writer, crashes>> /\ faults = 0
    BY <1>7 DEF Reader, OpenChart, ReadTotal, ReadSlot, ShowChart, LeaveChart,
                ChartRead, Transaction, Typed
  <2>2. Cardinality(Lost') <= crashes'
    BY <1>1, <2>1, LostStays DEF InUse, Typed
  <2> QED
    BY <2>1, <2>2 DEF LInv, Place, InUse, Age
<1>8. CASE Crash
  <2>1. /\ faults = 0 /\ UNCHANGED <<idx, total>> /\ wpc' = "idle"
        /\ crashes' = crashes + 1
        /\ taken' = IF wpc = "idle" THEN taken ELSE taken + 1
    BY <1>8 DEF Crash
  <2>2. \/ slot' = slot
        \/ wpc # "idle" /\ slot' = [slot EXCEPT ![curr] = Broken]
    BY <1>8 DEF Crash
  <2>3. Place' = Place /\ InUse(total)' = InUse(total)
        /\ \A i : Age(i, Place)' = Age(i, Place)
    BY <2>1 DEF Place, InUse, Age
  <2>4. \A i \in 0 .. N - 1 : i # Place => slot'[i] = slot[i]
    BY <2>1, <2>2 DEF LInv, Typed
  <2>5. ASSUME NEW i \in 0 .. N - 1, i # Place, slot'[i] # Broken
        PROVE  /\ slot'[i].serial + Age(i, Place) <= taken'
               /\ Age(i, Place) <= InUse(total)
    <3>1. /\ slot[i].serial + Age(i, Place) <= taken
          /\ Age(i, Place) <= InUse(total)
      BY <2>1, <2>4, <2>5 DEF LInv
    <3>2. Age(i, Place) \in Nat /\ slot[i].serial \in Nat
      BY <1>2, <2>4, <2>5, AgeFacts, SerialIn
    <3> QED
      BY <2>1, <2>4, <2>5, <3>1, <3>2 DEF Typed
  <2>6. Lost' \subseteq Lost \cup {taken}
    <3> SUFFICES ASSUME NEW x \in Lost', x # taken PROVE x \in Lost
      OBVIOUS
    <3>1. x \in First(taken') .. taken - 1 /\ x \notin Keeps'
      BY <2>1 DEF Lost, First, Typed
    <3>2. ASSUME NEW i \in Good, x = slot[i].serial PROVE FALSE
      <4>1. /\ i \in 0 .. N - 1 /\ idx # Erased /\ slot[i] # Broken
            /\ slot[i].serial + Age(i, Place) <= taken
            /\ Age(i, Place) <= InUse(total)
        BY <3>2 DEF Good
      <4>2. CASE i = Place /\ wpc # "idle"
        <5>1. Age(i, Place) = N
          BY <4>1, <4>2, AgeFacts
        <5> QED
          BY <2>1, <3>1, <3>2, <4>1, <4>2, <5>1 DEF First, Typed
      <4>3. CASE i # Place \/ wpc = "idle"
        <5>1. slot'[i] = slot[i]
          BY <2>2, <2>4, <4>1, <4>3
        <5>2. slot[i].serial + Age(i, Place) <= taken'
          <6>1. Age(i, Place) \in Nat /\ slot[i].serial \in Nat
            BY <1>2, <4>1, AgeFacts, SerialIn
          <6> QED
            BY <2>1, <4>1, <6>1 DEF Typed
        <5>3. i \in Good'
          BY <2>1, <2>3, <4>1, <5>1, <5>2 DEF Good
        <5> QED
          BY <3>1, <3>2, <5>1, <5>3 DEF Keeps
      <4> QED
        BY <4>2, <4>3
    <3>3. x \in First(IF wpc = "idle" THEN taken ELSE taken + 1) .. taken - 1
      BY <2>1, <3>1 DEF First, Typed
    <3> QED
      BY <3>2, <3>3 DEF Lost, Keeps
  <2>7. Cardinality(Lost') <= crashes'
    BY <1>1, <2>1, <2>6, LostGrows DEF LInv
  <2> QED
    BY <2>1, <2>3, <2>5, <2>7 DEF LInv
<1>9. CASE CycleEnds
  <2>1. UNCHANGED <<ring, writer, crashes>> /\ faults = 0
    BY <1>9 DEF CycleEnds
  <2>2. Cardinality(Lost') <= crashes'
    BY <1>1, <2>1, LostStays DEF InUse, Typed
  <2> QED
    BY <2>1, <2>2 DEF LInv, Place, InUse, Age
<1>10. CASE UNCHANGED vars
  <2>1. UNCHANGED <<ring, writer, crashes>> /\ faults = 0
    BY <1>10 DEF vars
  <2>2. Cardinality(Lost') <= crashes'
    BY <1>1, <2>1, LostStays DEF InUse, Typed
  <2> QED
    BY <2>1, <2>2 DEF LInv, Place, InUse, Age
<1> QED
  BY <1>3, <1>4, <1>5, <1>6, <1>7, <1>8, <1>9, <1>10 DEF Next, Writer

(* A chart visits the slots that are in use. *)
LEMMA GoodIsVisible ==
    ASSUME Typed, NEW i \in Good PROVE slot[i].serial \in Visible
<1> USE NAssumption
<1>1. /\ i \in 0 .. N - 1 /\ idx # Erased
      /\ Age(i, Place) <= InUse(total)
  BY DEF Good
<1>2. idx \in 0 .. N - 1 /\ Place = idx
  BY <1>1 DEF Typed, Place
<1>3. Age(i, idx) \in 1 .. N
  BY <1>1, <1>2, AgeFacts
<1> DEFINE t == Clamp(total)
           k == t - Age(i, idx)
           b == idx + N - t
           g == (IF b < N THEN b ELSE b - N) + k
<1>4. t \in 0 .. N /\ Age(i, idx) <= t
  BY <1>1, <1>2, <1>3 DEF Clamp, InUse, Typed, Erased
<1>5. k \in 0 .. t - 1 /\ b \in 0 .. 2 * N - 1
  BY <1>2, <1>3, <1>4
<1>6. idx % N = idx
  BY <1>2, OneLap
<1>7. Start(idx % N, total) = IF b < N THEN b ELSE b - N
  <2>1. Start(idx % N, total) = b % N
    BY <1>6 DEF Start
  <2> HIDE DEF b
  <2> QED
    BY <1>5, <2>1, OneLap
<1>8. g \in 0 .. 2 * N - 1 /\ i = IF g < N THEN g ELSE g - N
  BY <1>1, <1>2, <1>3, <1>4, <1>5 DEF Age
<1>9. (Start(idx % N, total) + k) % N = i
  <2>1. Start(idx % N, total) + k = g
    BY <1>7
  <2> HIDE DEF g
  <2> QED
    BY <1>8, <2>1, OneLap
<1> HIDE DEF k
<1> QED
  BY <1>5, <1>9 DEF Visible

(* Of the last samples that the ring can hold, every power failure costs   *)
(* at most one, for any number of power failures at any point of           *)
(* writeSample.                                                            *)
THEOREM CrashCostsOne == Spec => []OneLostPerCrash
<1>1. Typed /\ LInv => OneLostPerCrash
  <2> SUFFICES ASSUME Typed, LInv, wpc = "idle", faults = 0
               PROVE  Cardinality((taken - Kept .. taken - 1) \ Visible)
                         <= crashes
    BY DEF OneLostPerCrash
  <2> DEFINE W == (taken - Kept .. taken - 1) \ Visible
             m == Cardinality(Lost)
             n == Cardinality(W)
  <2>1. taken - Kept = First(taken)
    BY NAssumption DEF Kept, First, Typed
  <2>2. W \subseteq Lost
    <3> SUFFICES ASSUME NEW x \in W PROVE x \in Lost
      OBVIOUS
    <3>1. x \in First(taken) .. taken - 1 /\ x \notin Visible
      BY <2>1
    <3>2. x \notin Keeps
      BY <3>1, GoodIsVisible DEF Keeps
    <3> QED
      BY <3>1, <3>2 DEF Lost
  <2> HIDE DEF W
  <2>3. /\ IsFiniteSet(Lost) /\ m \in Nat /\ n \in Nat /\ n <= m
        /\ m <= crashes /\ crashes \in Nat
    <3>1. IsFiniteSet(Lost) /\ m \in Nat
      BY LostFinite
    <3>2. IsFiniteSet(W) /\ n <= m
      BY <2>2, <3>1, FS_Subset
    <3>3. n \in Nat
      BY <3>2, FS_CardinalityType
    <3> QED
      BY <3>1, <3>2, <3>3 DEF LInv, Typed
  <2> HIDE DEF m, n
  <2>4. n <= crashes
    BY <2>3
  <2> QED
    BY <2>4 DEF n, W
<1>2. Spec => [](Typed /\ LInv)
  BY InitRing, InitLost, NextTyped, NextLost, PTL DEF Spec
<1> QED
  BY <1>1, <1>2, PTL

-----------------------------------------------------------------------------
(* What is known of the reader.                                            *)

RTyped == /\ rpc \in {"idle", "total", "slots", "shown"}
          /\ from \in 0 .. N - 1
          /\ left \in 0 .. N
          /\ chart \in Seq(Valid)
          /\ raced \in BOOLEAN
          /\ missed \in BOOLEAN
          /\ cycle \in BOOLEAN
          /\ crashes \in 0 .. MaxCrashes
          /\ faults \in 0 .. MaxFaults
          /\ rpc \in {"idle", "total"} => chart = << >>
          /\ rpc = "shown" => left = 0
          /\ rpc \in {"total", "slots"} /\ wpc # "idle" => raced

LEMMA ModIn == \A a \in Nat : a % N \in 0 .. N - 1
BY NAssumption

LEMMA ClampIn == \A t \in Nat : Clamp(t) \in 0 .. N
BY NAssumption DEF Clamp

LEMMA InitReader == Init => RTyped
<1> SUFFICES ASSUME Init PROVE RTyped
  OBVIOUS
<1>1. raced \in BOOLEAN /\ missed \in BOOLEAN /\ cycle \in BOOLEAN
  BY Zenon DEF Init
<1>2. chart \in Seq(Valid)
  BY EmptySeq DEF Init
<1> QED
  BY <1>1, <1>2, NAssumption, BoundsAssumption DEF Init, RTyped

(* A transaction that fails is within the bound. *)
LEMMA FaultsIn ==
    ASSUME RTyped, NEW ok \in BOOLEAN, Transaction(ok)
    PROVE  faults' \in 0 .. MaxFaults
BY BoundsAssumption DEF RTyped, Transaction

LEMMA ChartReadIn ==
    ASSUME RTyped, NEW ok \in BOOLEAN, ChartRead(ok)
    PROVE  faults' \in 0 .. MaxFaults /\ missed' \in BOOLEAN
<1>1. CASE Transaction(ok) /\ UNCHANGED missed
  BY <1>1, FaultsIn DEF RTyped
<1>2. CASE missed' = TRUE /\ UNCHANGED faults
  <2>1. missed' \in BOOLEAN
    BY <1>2, Zenon
  <2> QED
    BY <1>2, <2>1 DEF RTyped
<1> QED
  BY <1>1, <1>2 DEF ChartRead

LEMMA NextReader == ASSUME Typed, RTyped, [Next]_vars PROVE RTyped'
<1> USE DEF ring, writer, reader
<1>1. CASE ReadIndex
  <2>1. /\ faults' \in 0 .. MaxFaults
        /\ UNCHANGED <<rpc, from, left, chart, missed, cycle, crashes>>
        /\ raced' = (rpc \in {"total", "slots"})
    BY <1>1, FaultsIn DEF ReadIndex
  <2>2. raced' \in BOOLEAN
    <3>1. CASE rpc \in {"total", "slots"}
      BY <2>1, <3>1
    <3>2. CASE rpc \notin {"total", "slots"}
      BY <2>1, <3>2
    <3> QED
      BY <3>1, <3>2
  <2> QED
    BY <2>1, <2>2 DEF RTyped
<1>2. CASE CountUp
  <2>1. PICK r, w \in BOOLEAN :
           /\ Transaction(r /\ w)
           /\ cycle' = ((IF r THEN InUse(total) ELSE 0) < N /\ w)
    BY <1>2 DEF CountUp
  <2>2. cycle' \in BOOLEAN /\ (r /\ w) \in BOOLEAN
    <3>1. \A A, B : (A /\ B) \in BOOLEAN
      BY Zenon
    <3> QED
      BY <2>1, <3>1, Zenon
  <2>3. faults' \in 0 .. MaxFaults
    BY <2>1, <2>2, FaultsIn
  <2>4. wpc = "count" /\ UNCHANGED <<rpc, from, left, chart, missed, raced,
                                     crashes>>
    BY <1>2 DEF CountUp
  <2> QED
    BY <2>2, <2>3, <2>4 DEF RTyped
<1>3. CASE WriteData \/ WriteIndex
  <2>1. PICK ok \in BOOLEAN : Transaction(ok) /\ cycle' = ok
    BY <1>3 DEF WriteData, WriteIndex
  <2>2. wpc # "idle" /\ UNCHANGED <<rpc, from, left, chart, missed, raced,
                                    crashes>>
    BY <1>3 DEF WriteData, WriteIndex
  <2>3. faults' \in 0 .. MaxFaults
    BY <2>1, FaultsIn
  <2> QED
    BY <2>1, <2>2, <2>3 DEF RTyped
<1>4. CASE OpenChart
  <2>1. PICK ok \in BOOLEAN : /\ ChartRead(ok)
                              /\ from' = IF ok THEN idx % N ELSE 0
    BY <1>4 DEF OpenChart
  <2>2. faults' \in 0 .. MaxFaults /\ missed' \in BOOLEAN
    BY <2>1, ChartReadIn
  <2>3. from' \in 0 .. N - 1
    <3>1. idx % N \in 0 .. N - 1
      <4>1. idx \in Nat
        BY NAssumption DEF Typed, Erased
      <4> QED
        BY <4>1, ModIn
    <3> QED
      BY <2>1, <3>1, NAssumption
  <2>4. /\ rpc' = "total" /\ rpc = "idle" /\ raced' = (wpc # "idle" \/ cycle)
        /\ UNCHANGED <<wpc, left, chart, cycle, crashes>>
    BY <1>4 DEF OpenChart
  <2>5. raced' \in BOOLEAN
    BY <2>4, Zenon
  <2> QED
    BY <2>2, <2>3, <2>4, <2>5 DEF RTyped
<1>5. CASE ReadTotal
  <2>1. PICK ok \in BOOLEAN :
           /\ ChartRead(ok)
           /\ from' = Start(from, IF ok THEN total ELSE 0)
           /\ left' = Clamp(IF ok THEN total ELSE 0)
    BY <1>5 DEF ReadTotal
  <2> DEFINE t == IF ok THEN total ELSE 0
  <2>2. faults' \in 0 .. MaxFaults /\ missed' \in BOOLEAN
    BY <2>1, ChartReadIn
  <2>3. t \in Nat
    BY NAssumption DEF Typed, Erased
  <2> HIDE DEF t
  <2>4. Clamp(t) \in 0 .. N
    BY <2>3, ClampIn
  <2>5. Start(from, t) \in 0 .. N - 1
    <3>1. from + N - Clamp(t) \in Nat
      BY <2>4, NAssumption DEF RTyped
    <3> QED
      BY <3>1, ModIn DEF Start
  <2>6. /\ from' \in 0 .. N - 1 /\ left' \in 0 .. N
    BY <2>1, <2>4, <2>5 DEF t
  <2>7. /\ chart' = << >> /\ rpc' = "slots" /\ rpc = "total"
        /\ UNCHANGED <<wpc, raced, cycle, crashes>>
    BY <1>5 DEF ReadTotal
  <2>8. << >> \in Seq(Valid)
    OBVIOUS
  <2> QED
    BY <2>2, <2>6, <2>7, <2>8 DEF RTyped
<1>6. CASE ReadSlot
  <2>1. PICK ok \in BOOLEAN :
           /\ ChartRead(ok)
           /\ chart' = IF ok /\ slot[from] # Broken
                       THEN Append(chart, slot[from]) ELSE chart
    BY <1>6 DEF ReadSlot
  <2>2. faults' \in 0 .. MaxFaults /\ missed' \in BOOLEAN
    BY <2>1, ChartReadIn
  <2>3. /\ rpc = "slots" /\ left > 0 /\ from' = (from + 1) % N
        /\ left' = left - 1 /\ UNCHANGED <<rpc, wpc, raced, cycle, crashes>>
    BY <1>6 DEF ReadSlot
  <2>4. from' \in 0 .. N - 1 /\ left' \in 0 .. N
    <3>1. from + 1 \in Nat
      BY DEF RTyped
    <3>2. (from + 1) % N \in 0 .. N - 1
      BY <3>1, ModIn
    <3>3. left - 1 \in 0 .. N
      BY <2>3, NAssumption DEF RTyped
    <3> QED
      BY <2>3, <3>2, <3>3
  <2>5. chart' \in Seq(Valid)
    <3>1. slot[from] # Broken => slot[from] \in Valid
      BY DEF Typed, RTyped
    <3> QED
      BY <2>1, <3>1, AppendProperties DEF RTyped
  <2> QED
    BY <2>2, <2>3, <2>4, <2>5 DEF RTyped
<1>7. CASE ShowChart \/ LeaveChart
  <2>1. /\ raced' \in BOOLEAN /\ missed' \in BOOLEAN
    BY <1>7 DEF ShowChart, LeaveChart, RTyped
  <2>2. chart' \in Seq(Valid)
    BY <1>7, EmptySeq DEF ShowChart, LeaveChart, RTyped
  <2> QED
    BY <1>7, <2>1, <2>2 DEF ShowChart, LeaveChart, RTyped
<1>8. CASE Crash
  <2>1. /\ raced' = FALSE /\ missed' = FALSE /\ cycle' = FALSE
        /\ rpc' = "idle" /\ from' = 0 /\ left' = 0 /\ chart' = << >>
        /\ crashes' = crashes + 1 /\ crashes < MaxCrashes /\ faults' = faults
    BY <1>8 DEF Crash
  <2>2. raced' \in BOOLEAN /\ missed' \in BOOLEAN /\ cycle' \in BOOLEAN
    BY <2>1, Zenon
  <2>3. << >> \in Seq(Valid)
    OBVIOUS
  <2> QED
    BY <2>1, <2>2, <2>3, NAssumption, BoundsAssumption DEF RTyped
<1>9. CASE CycleEnds
  <2>1. cycle' \in BOOLEAN
    BY <1>9, Zenon DEF CycleEnds
  <2> QED
    BY <1>9, <2>1 DEF CycleEnds, RTyped
<1>10. CASE UNCHANGED vars
  BY <1>10 DEF vars, RTyped
<1> QED
  BY <1>1, <1>2, <1>3, <1>4, <1>5, <1>6, <1>7, <1>8, <1>9, <1>10
     DEF Next, Writer, Reader

(* Every variable keeps its type: the ring has no slot and no count beyond *)
(* its N, and a chart is a sequence of valid samples, whatever fails.      *)
THEOREM TypeCorrect == Spec => []TypeOK
<1>1. Typed /\ RTyped => TypeOK
  BY DEF Typed, RTyped, TypeOK
<1>2. Spec => [](Typed /\ RTyped)
  <2>1. Init => Typed /\ RTyped
    BY InitRing, InitReader
  <2>2. Typed /\ RTyped /\ [Next]_vars => (Typed /\ RTyped)'
    BY NextTyped, NextReader
  <2> QED
    BY <2>1, <2>2, PTL DEF Spec
<1> QED
  BY <1>1, <1>2, PTL

-----------------------------------------------------------------------------
(* No sample twice.                                                        *)

(* The serial number of the sample being written is in its slot only. *)
SInv == /\ \A i \in 0 .. N - 1 : slot[i] # Broken =>
              \/ slot[i].serial < taken
              \/ slot[i].serial = taken /\ wpc = "index" /\ i = curr
        /\ \A i, j \in 0 .. N - 1 :
              i # j /\ slot[i] # Broken /\ slot[j] # Broken =>
                 slot[i].serial # slot[j].serial

(* Where the reader stops: the place it has read at its start. *)
Base == IF rpc = "total" THEN from ELSE (from + left) % N

(* The slots it has still to visit are the last ones before its base. *)
CInv == /\ \A e \in 1 .. Len(chart) :
              \/ chart[e].serial < taken
              \/ chart[e].serial = taken /\ wpc = "index"
        /\ \A e \in 1 .. Len(chart), i \in 0 .. N - 1 :
              Age(i, Base) <= left /\ slot[i] # Broken =>
                 slot[i].serial # chart[e].serial
        /\ \A e, g \in 1 .. Len(chart) :
              e # g => chart[e].serial # chart[g].serial

LEMMA InitSerials == Init => SInv /\ CInv
<1> SUFFICES ASSUME Init PROVE SInv /\ CInv
  OBVIOUS
<1>1. chart = << >> /\ Len(<< >>) = 0 /\ \A i \in 0 .. N - 1 : slot[i] = Broken
  BY DEF Init
<1> QED
  BY <1>1 DEF SInv, CInv

LEMMA EntrySerial == \A k : Entry(k).serial = k
BY DEF Entry

LEMMA SerialsKeep == ASSUME Typed, SInv, [Next]_vars PROVE SInv'
<1> USE NAssumption DEF ring, writer, reader
<1>1. ASSUME UNCHANGED <<slot, taken>>, wpc # "index" PROVE SInv'
  BY <1>1 DEF SInv
<1>2. CASE ReadIndex \/ CountUp
  <2>1. UNCHANGED <<slot, taken>> /\ wpc # "index"
    BY <1>2 DEF ReadIndex, CountUp
  <2> QED
    BY <1>1, <2>1
<1>3. CASE WriteData
  <2>1. PICK ok \in BOOLEAN :
           IF ok THEN /\ slot' = [slot EXCEPT ![curr] = Entry(taken)]
                      /\ wpc' = "index" /\ UNCHANGED taken
                 ELSE /\ wpc' = "idle" /\ taken' = taken + 1
                      /\ UNCHANGED slot
    BY <1>3 DEF WriteData
  <2>2. wpc = "data" /\ curr' = curr
    BY <1>3 DEF WriteData
  <2>3. \A i \in 0 .. N - 1 : slot[i] # Broken =>
           slot[i].serial < taken /\ slot[i].serial \in Nat
    BY <2>2, SerialIn DEF SInv
  <2>4. CASE ok
    <3>1. /\ slot'[curr] = Entry(taken) /\ slot'[curr].serial = taken
          /\ \A i \in 0 .. N - 1 : i # curr => slot'[i] = slot[i]
      BY <2>1, <2>4, EntrySerial DEF Typed
    <3>2. wpc' = "index" /\ taken' = taken
      BY <2>1, <2>4
    <3>3. \A i \in 0 .. N - 1 : slot'[i] # Broken =>
             IF i = curr THEN slot'[i].serial = taken
             ELSE slot'[i] = slot[i] /\ slot[i].serial < taken
                     /\ slot[i].serial \in Nat
      BY <2>3, <3>1
    <3> QED
      BY <2>2, <3>2, <3>3 DEF SInv, Typed
  <2>5. CASE ~ok
    <3>1. UNCHANGED slot /\ taken' = taken + 1
      BY <2>1, <2>5
    <3> QED
      BY <2>3, <3>1 DEF SInv, Typed
  <2> QED
    BY <2>4, <2>5
<1>4. CASE WriteIndex
  <2>1. UNCHANGED slot /\ taken' = taken + 1
    BY <1>4 DEF WriteIndex
  <2>2. \A i \in 0 .. N - 1 : slot[i] # Broken =>
           slot[i].serial <= taken /\ slot[i].serial \in Nat
    BY SerialIn DEF SInv, Typed
  <2> QED
    BY <2>1, <2>2 DEF SInv, Typed
<1>5. CASE Reader \/ CycleEnds \/ UNCHANGED vars
  <2>1. UNCHANGED <<slot, taken, wpc, curr>>
    BY <1>5 DEF Reader, OpenChart, ReadTotal, ReadSlot, ShowChart,
                LeaveChart, CycleEnds, vars
  <2> QED
    BY <2>1 DEF SInv
<1>6. CASE Crash
  <2>1. /\ wpc' = "idle"
        /\ taken' = IF wpc = "idle" THEN taken ELSE taken + 1
    BY <1>6 DEF Crash
  <2>2. slot' = slot \/ slot' = [slot EXCEPT ![curr] = Broken]
    BY <1>6 DEF Crash
  <2>3. \A i \in 0 .. N - 1 : slot'[i] # Broken =>
           slot[i] # Broken /\ slot'[i] = slot[i]
    BY <2>2 DEF Typed
  <2>4. \A i \in 0 .. N - 1 : slot[i] # Broken =>
           slot[i].serial < taken' /\ slot[i].serial \in Nat
    BY <2>1, SerialIn DEF SInv, Typed
  <2> QED
    BY <2>1, <2>3, <2>4 DEF SInv, Typed
<1> QED
  BY <1>2, <1>3, <1>4, <1>5, <1>6 DEF Next, Writer

(* What the steps of readAllSamples do to the base: nothing, once the      *)
(* index is read.                                                          *)
LEMMA BaseFacts ==
    ASSUME RTyped
    PROVE  /\ Base \in 0 .. N - 1
           /\ rpc = "slots" /\ left > 0 =>
                 /\ Age(from, Base) = left
                 /\ (((from + 1) % N) + (left - 1)) % N = Base
<1> USE NAssumption
<1>1. from \in 0 .. N - 1 /\ left \in 0 .. N /\ N \in Nat \ {0}
  BY DEF RTyped
<1> DEFINE a == from + left
           c == from + 1
           d == (IF c < N THEN c ELSE c - N) + (left - 1)
<1>2. a \in 0 .. 2 * N - 1 /\ c \in 0 .. 2 * N - 1
  BY <1>1
<1>3. /\ a % N = IF a < N THEN a ELSE a - N
      /\ c % N = IF c < N THEN c ELSE c - N
  <2> HIDE DEF a, c
  <2> QED
    BY <1>2, OneLap
<1>4. Base \in 0 .. N - 1
  BY <1>1, <1>3 DEF Base
<1>5. ASSUME rpc = "slots", left > 0
      PROVE  /\ Age(from, Base) = left
             /\ ((c % N) + (left - 1)) % N = Base
  <2>1. Base = IF a < N THEN a ELSE a - N
    BY <1>3, <1>5 DEF Base
  <2>2. Age(from, Base) = left
    BY <1>1, <1>5, <2>1 DEF Age
  <2>3. d \in 0 .. 2 * N - 1
    BY <1>1, <1>5
  <2>4. d % N = IF d < N THEN d ELSE d - N
    <3> HIDE DEF d
    <3> QED
      BY <2>3, OneLap
  <2>5. (IF d < N THEN d ELSE d - N) = IF a < N THEN a ELSE a - N
    BY <1>1, <1>5
  <2>6. (c % N) + (left - 1) = d
    BY <1>3
  <2> HIDE DEF d
  <2> QED
    BY <2>1, <2>2, <2>4, <2>5, <2>6
<1> QED
  BY <1>4, <1>5

LEMMA ReadSlotBase ==
    ASSUME RTyped, ReadSlot
    PROVE  Base' = Base /\ Age(from, Base) = left /\ left > 0 /\ left' = left - 1
<1>1. /\ rpc = "slots" /\ left > 0 /\ from' = (from + 1) % N
      /\ left' = left - 1 /\ rpc' = "slots"
  BY DEF ReadSlot
<1>2. (from' + left') % N = Base /\ Age(from, Base) = left
  BY <1>1, BaseFacts
<1> QED
  BY <1>1, <1>2 DEF Base

LEMMA ReadTotalBase ==
    ASSUME Typed, RTyped, ReadTotal PROVE Base' = Base
<1> USE NAssumption
<1>1. PICK ok \in BOOLEAN :
         /\ from' = Start(from, IF ok THEN total ELSE 0)
         /\ left' = Clamp(IF ok THEN total ELSE 0)
  BY DEF ReadTotal
<1> DEFINE t == IF ok THEN total ELSE 0
           k == Clamp(t)
           b == from + N - k
           g == (IF b < N THEN b ELSE b - N) + k
<1>2. t \in Nat
  BY DEF Typed, Erased
<1>3. k \in 0 .. N /\ from \in 0 .. N - 1
  <2> HIDE DEF t
  <2> QED
    BY <1>2, ClampIn DEF RTyped
<1> HIDE DEF k
<1>4. b \in 0 .. 2 * N - 1 /\ g \in 0 .. 2 * N - 1
      /\ from = IF g < N THEN g ELSE g - N
  BY <1>3
<1>5. b % N = IF b < N THEN b ELSE b - N
  <2> HIDE DEF b
  <2> QED
    BY <1>4, OneLap
<1>6. g % N = IF g < N THEN g ELSE g - N
  <2> HIDE DEF g
  <2> QED
    BY <1>4, OneLap
<1>7. from' = b % N /\ left' = k
  BY <1>1 DEF Start, k
<1>8. from' + left' = g
  BY <1>5, <1>7
<1>9. (from' + left') % N = from
  <2> HIDE DEF g
  <2> QED
    BY <1>4, <1>6, <1>8
<1>10. rpc = "total" /\ rpc' = "slots"
  BY DEF ReadTotal
<1> QED
  BY <1>9, <1>10 DEF Base

LEMMA ChartSerialIn ==
    ASSUME RTyped, NEW e \in 1 .. Len(chart)
    PROVE  chart[e] \in Valid /\ chart[e].serial \in Nat
<1>1. chart[e] \in Valid
  BY ElementOfSeq DEF RTyped
<1> QED
  BY <1>1 DEF Valid

(* What ReadSlot appends. *)
LEMMA ReadSlotChart ==
    ASSUME Typed, RTyped, ReadSlot
    PROVE  \/ chart' = chart
           \/ /\ slot[from] # Broken /\ Len(chart') = Len(chart) + 1
              /\ chart'[Len(chart) + 1] = slot[from]
              /\ \A e \in 1 .. Len(chart) : chart'[e] = chart[e]
<1>1. \/ chart' = chart
      \/ slot[from] # Broken /\ chart' = Append(chart, slot[from])
  BY DEF ReadSlot
<1>2. CASE slot[from] # Broken /\ chart' = Append(chart, slot[from])
  <2>1. slot[from] \in Valid /\ chart \in Seq(Valid)
    BY <1>2 DEF Typed, RTyped
  <2> QED
    BY <1>2, <2>1, AppendProperties
<1> QED
  BY <1>1, <1>2

LEMMA ChartKeeps ==
    ASSUME Typed, RTyped, SInv, CInv, [Next]_vars PROVE CInv'
<1> USE NAssumption DEF ring, writer, reader
<1>1. Len(chart) \in Nat /\ Base \in 0 .. N - 1
  BY LenProperties, BaseFacts DEF RTyped
<1>2. \A e \in 1 .. Len(chart) : chart[e].serial \in Nat
  BY ChartSerialIn
<1>3. ASSUME UNCHANGED <<slot, taken, rpc, from, left, chart>>, wpc # "index"
      PROVE  CInv'
  BY <1>3 DEF CInv, Base, Age
<1>4. ASSUME chart' = << >> PROVE CInv'
  <2>1. Len(chart') = 0
    BY <1>4
  <2> QED
    BY <2>1 DEF CInv
<1>5. CASE ReadIndex \/ CountUp
  <2>1. UNCHANGED <<slot, taken, rpc, from, left, chart>> /\ wpc # "index"
    BY <1>5 DEF ReadIndex, CountUp
  <2> QED
    BY <1>3, <2>1
<1>6. CASE WriteData
  <2>1. PICK ok \in BOOLEAN :
           IF ok THEN /\ slot' = [slot EXCEPT ![curr] = Entry(taken)]
                      /\ wpc' = "index" /\ UNCHANGED taken
                 ELSE /\ wpc' = "idle" /\ taken' = taken + 1
                      /\ UNCHANGED slot
    BY <1>6 DEF WriteData
  <2>2. wpc = "data" /\ UNCHANGED <<rpc, from, left, chart>>
    BY <1>6 DEF WriteData
  <2>3. Base' = Base /\ \A i : Age(i, Base)' = Age(i, Base)
    BY <2>2 DEF Base, Age
  <2>4. \A e \in 1 .. Len(chart) : chart[e].serial < taken
    BY <2>2 DEF CInv
  <2>5. \A i \in 0 .. N - 1 :
           slot'[i] = slot[i] \/ slot'[i].serial = taken
    BY <2>1, EntrySerial DEF Typed
  <2>6. \A e \in 1 .. Len(chart) :
           chart[e].serial < taken' /\ chart[e].serial # taken
    BY <1>2, <2>1, <2>4 DEF Typed
  <2> QED
    BY <2>2, <2>3, <2>5, <2>6 DEF CInv
<1>7. CASE WriteIndex
  <2>1. /\ taken' = taken + 1
        /\ UNCHANGED <<slot, rpc, from, left, chart>>
    BY <1>7 DEF WriteIndex
  <2>2. \A e \in 1 .. Len(chart) : chart[e].serial < taken'
    BY <1>2, <2>1 DEF CInv, Typed
  <2>3. Base' = Base /\ \A i : Age(i, Base)' = Age(i, Base)
    BY <2>1 DEF Base, Age
  <2> QED
    BY <2>1, <2>2, <2>3 DEF CInv
<1>8. CASE OpenChart
  <2>1. chart' = << >>
    BY <1>8 DEF OpenChart, RTyped
  <2> QED
    BY <1>4, <2>1
<1>9. CASE ReadTotal \/ LeaveChart \/ Crash
  <2>1. chart' = << >>
    BY <1>9 DEF ReadTotal, LeaveChart, Crash
  <2> QED
    BY <1>4, <2>1
<1>10. CASE ReadSlot
  <2>1. /\ Base' = Base /\ Age(from, Base) = left /\ left > 0
        /\ left' = left - 1 /\ from \in 0 .. N - 1 /\ left \in Nat
    BY <1>10, ReadSlotBase DEF RTyped
  <2>2. UNCHANGED <<slot, taken, wpc, curr>>
    BY <1>10 DEF ReadSlot
  <2>3. ASSUME NEW i \in 0 .. N - 1, Age(i, Base)' <= left'
        PROVE  Age(i, Base) <= left /\ i # from
    <3>1. Age(i, Base) \in Nat /\ Age(i, Base)' = Age(i, Base)
      BY <1>1, <2>1, AgeFacts DEF Age
    <3> QED
      BY <2>1, <2>3, <3>1
  <2>4. CASE chart' = chart
    BY <2>2, <2>3, <2>4 DEF CInv
  <2>5. CASE /\ slot[from] # Broken /\ Len(chart') = Len(chart) + 1
             /\ chart'[Len(chart) + 1] = slot[from]
             /\ \A e \in 1 .. Len(chart) : chart'[e] = chart[e]
    <3> DEFINE l == Len(chart)
    <3>1. \A e \in 1 .. l + 1 : \/ e \in 1 .. l /\ chart'[e] = chart[e]
                                \/ e = l + 1 /\ chart'[e] = slot[from]
      BY <1>1, <2>5
    <3>2. \/ slot[from].serial < taken
          \/ slot[from].serial = taken /\ wpc = "index"
      BY <2>1, <2>5 DEF SInv
    <3>3. \A e \in 1 .. l : chart[e].serial # slot[from].serial
      BY <2>1, <2>5 DEF CInv
    <3>4. \A i \in 0 .. N - 1 : Age(i, Base)' <= left' /\ slot[i] # Broken =>
             slot[i].serial # slot[from].serial
      BY <2>1, <2>3, <2>5 DEF SInv
    <3>5. \A i \in 0 .. N - 1, e \in 1 .. l :
             Age(i, Base)' <= left' /\ slot[i] # Broken =>
                slot[i].serial # chart[e].serial
      BY <2>3 DEF CInv
    <3>6. \A e \in 1 .. l : \/ chart[e].serial < taken
                            \/ chart[e].serial = taken /\ wpc = "index"
      BY DEF CInv
    <3>7. \A e, g \in 1 .. l : e # g => chart[e].serial # chart[g].serial
      BY DEF CInv
    <3>8. Len(chart') = l + 1
      BY <2>5
    <3> HIDE DEF l
    <3> QED
      BY <2>2, <3>1, <3>2, <3>3, <3>4, <3>5, <3>6, <3>7, <3>8 DEF CInv
  <2> QED
    BY <1>10, <2>4, <2>5, ReadSlotChart
<1>11. CASE ShowChart
  <2>1. /\ left = 0 /\ rpc = "slots" /\ rpc' = "shown"
        /\ UNCHANGED <<slot, taken, wpc, from, left, chart>>
    BY <1>11 DEF ShowChart
  <2>2. Base' = Base
    BY <2>1 DEF Base
  <2> QED
    BY <2>1, <2>2 DEF CInv, Age
<1>12. CASE CycleEnds \/ UNCHANGED vars
  <2>1. UNCHANGED <<slot, taken, wpc, rpc, from, left, chart>>
    BY <1>12 DEF CycleEnds, vars
  <2> QED
    BY <2>1 DEF CInv, Base, Age
<1> QED
  BY <1>5, <1>6, <1>7, <1>8, <1>9, <1>10, <1>11, <1>12
     DEF Next, Writer, Reader

-----------------------------------------------------------------------------
(* Time runs forward.                                                      *)

(* The slots before p but for p itself, from the last to the first, hold   *)
(* older and older samples.                                                *)
Ordered(p) ==
    \A i, j \in 0 .. N - 1 :
        /\ i # p /\ j # p /\ slot[i] # Broken /\ slot[j] # Broken
        /\ Age(i, p) < Age(j, p)
        => slot[i].serial > slot[j].serial

(* Before the first sample is complete only its slot can hold any. *)
OInv == faults = 0 =>
            /\ Ordered(Place)
            /\ idx = Erased => \A i \in 1 .. N - 1 : slot[i] = Broken

(* A chart that was begun on an empty ring. *)
FirstChart == /\ \A i \in 1 .. N - 1 : slot[i] = Broken
              /\ wpc # "idle" => curr = 0
              /\ idx # Erased => raced /\ wpc = "idle"
              /\ chart # << >> => Len(chart) = 1 /\ Age(0, Base) > left

(* One that was begun on any other: at most one sample is written while it *)
(* is read, into the slot that is visited first or not at all.             *)
LaterChart == /\ Base = Place \/ (raced /\ wpc = "idle")
              /\ idx # Erased
              /\ Ordered(Base)
              /\ chart # << >> => left < N
              /\ Len(chart) >= 2 =>
                    \E v \in 0 .. N - 1 :
                       /\ Age(v, Base) > left /\ v # Base
                       /\ slot[v] # Broken /\ slot[v] = chart[Len(chart)]

Forward == \A e \in 2 .. Len(chart) - 1 : chart[e].serial < chart[e + 1].serial

FInv == ~missed /\ faults = 0 =>
            /\ rpc \in {"total", "slots"} => FirstChart \/ LaterChart
            /\ Forward

LEMMA InitOrder == Init => OInv /\ FInv
<1> SUFFICES ASSUME Init PROVE OInv /\ FInv
  OBVIOUS
<1>1. /\ chart = << >> /\ Len(<< >>) = 0 /\ rpc = "idle"
      /\ \A i \in 0 .. N - 1 : slot[i] = Broken
  BY DEF Init
<1>2. OInv
  BY <1>1 DEF OInv, Ordered
<1>3. FInv
  BY <1>1 DEF FInv, Forward
<1> QED
  BY <1>2, <1>3

(* Writing at the place itself keeps the order before it, and the step to   *)
(* the next place adds the sample that is the last one taken.              *)
LEMMA OrderKeeps ==
    ASSUME Typed, SInv, LInv, OInv, [Next]_vars PROVE OInv'
<1> SUFFICES ASSUME faults' = 0 PROVE OInv'
  BY DEF OInv
<1> USE NAssumption DEF ring, writer, reader
<1>1. Place \in 0 .. N - 1
  BY PlaceIn
<1>2. ASSUME faults = 0, idx' = idx,
             \A i \in 0 .. N - 1 : i # Place => slot'[i] = slot[i]
      PROVE  OInv'
  <2>1. Place' = Place
    BY <1>2 DEF Place
  <2>2. Ordered(Place)
    BY <1>2 DEF OInv
  <2> DEFINE p == Place
  <2>3. p \in 0 .. N - 1 /\ Ordered(p) /\ p' = p
        /\ \A i \in 0 .. N - 1 : i # p => slot'[i] = slot[i]
    BY <1>1, <1>2, <2>1, <2>2
  <2> HIDE DEF p
  <2>4. \A i, j \in 0 .. N - 1 :
           /\ i # p /\ j # p /\ slot'[i] # Broken /\ slot'[j] # Broken
           /\ Age(i, p) < Age(j, p)
           => slot'[i].serial > slot'[j].serial
    BY <2>3 DEF Ordered
  <2>5. Ordered(Place)'
    BY <2>1, <2>4 DEF p, Ordered, Age
  <2>6. ASSUME idx = Erased, NEW i \in 1 .. N - 1 PROVE slot'[i] = Broken
    <3>1. Place = 0
      BY <2>6 DEF Place
    <3> QED
      BY <1>2, <2>6, <3>1 DEF OInv
  <2> QED
    BY <1>2, <2>5, <2>6 DEF OInv
<1>3. CASE ReadIndex \/ CountUp
  <2>1. faults = 0 /\ UNCHANGED <<idx, slot>>
    BY <1>3 DEF ReadIndex, CountUp, Transaction, Typed
  <2> QED
    BY <1>2, <2>1
<1>4. CASE WriteData
  <2>1. faults = 0 /\ idx' = idx /\ wpc = "data"
        /\ slot' = [slot EXCEPT ![curr] = Entry(taken)]
    BY <1>4 DEF WriteData, Transaction, Typed
  <2>2. curr = Place
    BY <2>1 DEF LInv
  <2> QED
    BY <1>2, <2>1, <2>2 DEF Typed
<1>5. CASE WriteIndex
  <2>1. /\ faults = 0 /\ slot' = slot /\ wpc = "index"
        /\ idx' = (curr + 1) % N
    BY <1>5 DEF WriteIndex, Transaction, Typed
  <2>2. curr = Place /\ slot[Place] = Entry(taken) /\ Ordered(Place)
    BY <2>1 DEF LInv, OInv
  <2>3. idx' \in 0 .. N - 1 /\ idx' # Erased
    BY <1>1, <2>1, <2>2, AgeFacts DEF Erased
  <2>4. Place' = idx'
    BY <2>3 DEF Place
  <2>5. \A i \in 0 .. N - 1 :
           /\ Age(i, Place)' = IF i = Place THEN 1 ELSE Age(i, Place) + 1
           /\ Age(i, Place) \in 1 .. N
    <3>1. Place' = (Place + 1) % N
      BY <2>1, <2>2, <2>4
    <3>2. \A i \in 0 .. N - 1 :
             Age(i, (Place + 1) % N)
                = IF i = Place THEN 1 ELSE Age(i, Place) + 1
      BY <1>1, AgeFacts
    <3>3. \A i : Age(i, Place)' = Age(i, Place')
      BY DEF Age
    <3>4. \A i \in 0 .. N - 1 : Age(i, Place) \in 1 .. N
      BY <1>1, AgeFacts
    <3> QED
      BY <3>1, <3>2, <3>3, <3>4
  <2>6. ASSUME NEW i \in 0 .. N - 1, NEW j \in 0 .. N - 1,
               slot[i] # Broken, slot[j] # Broken,
               Age(i, Place)' < Age(j, Place)'
        PROVE  slot[i].serial > slot[j].serial
    <3>1. j # Place /\ i # j
      BY <2>5, <2>6
    <3>2. CASE i = Place
      <4>1. slot[i].serial = taken
        BY <2>2, <3>2, EntrySerial
      <4>2. slot[j].serial < taken /\ slot[j].serial \in Nat /\ taken \in Nat
        BY <2>2, <2>6, <3>1, SerialIn DEF SInv, Typed
      <4> QED
        BY <4>1, <4>2
    <3>3. CASE i # Place
      <4>1. Age(i, Place) < Age(j, Place)
        BY <2>5, <2>6, <3>1, <3>3
      <4> QED
        BY <2>2, <2>6, <3>1, <3>3, <4>1 DEF Ordered
    <3> QED
      BY <3>2, <3>3
  <2>7. Ordered(Place)'
    BY <2>1, <2>6 DEF Ordered
  <2> QED
    BY <2>3, <2>7 DEF OInv
<1>6. CASE Reader \/ CycleEnds \/ UNCHANGED vars
  <2>1. faults = 0 /\ UNCHANGED <<idx, slot>>
    BY <1>6 DEF Reader, OpenChart, ReadTotal, ReadSlot, ShowChart, LeaveChart,
                CycleEnds, vars, ChartRead, Transaction, Typed
  <2> QED
    BY <1>2, <2>1
<1>7. CASE Crash
  <2>1. faults = 0 /\ idx' = idx
    BY <1>7 DEF Crash
  <2>2. \/ slot' = slot
        \/ wpc = "data" /\ slot' = [slot EXCEPT ![curr] = Broken]
    BY <1>7 DEF Crash
  <2>3. \A i \in 0 .. N - 1 : i # Place => slot'[i] = slot[i]
    BY <2>1, <2>2 DEF LInv, Typed
  <2> QED
    BY <1>2, <2>1, <2>3
<1> QED
  BY <1>3, <1>4, <1>5, <1>6, <1>7 DEF Next, Writer

(* A chart is begun at the place, or on an empty ring. *)
LEMMA OpenForward ==
    ASSUME Typed, RTyped, LInv, OInv, OpenChart, missed' = FALSE, faults' = 0
    PROVE  FInv'
<1> USE NAssumption DEF ring, writer
<1>1. faults = 0 /\ from' = idx % N
  BY DEF OpenChart, ChartRead, Transaction, Typed
<1>2. /\ rpc' = "total" /\ chart' = << >> /\ Len(<< >>) = 0
      /\ UNCHANGED <<idx, total, slot, wpc, curr, taken>>
  BY DEF OpenChart, RTyped
<1>3. Forward'
  BY <1>2 DEF Forward
<1>4. CASE idx = Erased
  <2>1. \A i \in 1 .. N - 1 : slot[i] = Broken
    BY <1>1, <1>4 DEF OInv
  <2>2. wpc # "idle" => curr = 0
    BY <1>1, <1>4 DEF LInv, Place
  <2>3. FirstChart'
    BY <1>2, <1>4, <2>1, <2>2 DEF FirstChart
  <2> QED
    BY <1>3, <2>3 DEF FInv
<1>5. CASE idx # Erased
  <2>1. idx \in 0 .. N - 1 /\ Place = idx
    BY <1>5 DEF Place, Typed
  <2>2. idx % N = idx
    BY <2>1, OneLap
  <2>3. Base' = idx /\ Place' = idx
    BY <1>1, <1>2, <1>5, <2>2 DEF Base, Place
  <2>4. Ordered(idx)
    BY <1>1, <2>1 DEF OInv
  <2>5. Ordered(Base)'
    BY <1>2, <2>3, <2>4 DEF Ordered, Age
  <2>6. LaterChart'
    BY <1>2, <1>5, <2>3, <2>5 DEF LaterChart
  <2> QED
    BY <1>3, <2>6 DEF FInv
<1> QED
  BY <1>4, <1>5

(* Every slot that is read and holds a sample holds a later one than the   *)
(* slot before, but for the first.                                         *)
LEMMA SlotForward ==
    ASSUME Typed, RTyped, FInv, ReadSlot, ~missed', faults' = 0
    PROVE  FInv'
<1> USE NAssumption DEF ring, writer
<1>1. ~missed /\ faults = 0
  BY DEF ReadSlot, ChartRead, Transaction, Typed, RTyped
<1>2. /\ rpc = "slots" /\ rpc' = "slots"
      /\ UNCHANGED <<idx, total, slot, wpc, curr, taken, raced>>
  BY DEF ReadSlot
<1>3. /\ Base' = Base /\ Age(from, Base) = left /\ left' = left - 1
      /\ left \in 1 .. N /\ left' < left /\ from \in 0 .. N - 1
      /\ Base \in 0 .. N - 1
  BY ReadSlotBase, BaseFacts DEF RTyped
<1>4. \A i : Age(i, Base)' = Age(i, Base)
  BY <1>3 DEF Age
<1>5. \A i \in 0 .. N - 1 : Age(i, Base) \in 1 .. N /\ (Age(i, Base) = N <=> i = Base)
  BY <1>3, AgeFacts
<1> DEFINE l == Len(chart)
<1>6. l \in Nat /\ (chart = << >> <=> l = 0)
  BY LenProperties, EmptySeq DEF RTyped
<1>7. Forward /\ (FirstChart \/ LaterChart)
  BY <1>1, <1>2 DEF FInv
<1>8. CASE chart' = chart
  <2>1. Forward'
    BY <1>7, <1>8 DEF Forward
  <2>2. CASE FirstChart
    <3>1. Age(0, Base) > left => Age(0, Base) > left'
      BY <1>3, <1>5
    <3>2. FirstChart'
      BY <1>2, <1>4, <1>8, <2>2, <3>1 DEF FirstChart
    <3> QED
      BY <2>1, <3>2 DEF FInv
  <2>3. CASE LaterChart
    <3>1. \A v \in 0 .. N - 1 : Age(v, Base) > left => Age(v, Base)' > left'
      BY <1>3, <1>4, <1>5
    <3>2. Ordered(Base)' /\ Place' = Place
      BY <1>2, <1>3, <1>4, <2>3 DEF LaterChart, Ordered, Place
    <3>3. left' < N
      BY <1>3
    <3>4. Len(chart') >= 2 =>
             \E v \in 0 .. N - 1 :
                /\ Age(v, Base)' > left' /\ v # Base
                /\ slot[v] # Broken /\ slot[v] = chart[Len(chart)]
      BY <1>8, <2>3, <3>1 DEF LaterChart
    <3>5. LaterChart'
      BY <1>2, <1>3, <1>8, <2>3, <3>2, <3>3, <3>4 DEF LaterChart
    <3> QED
      BY <2>1, <3>5 DEF FInv
  <2> QED
    BY <1>7, <2>2, <2>3
<1>9. CASE /\ slot[from] # Broken /\ Len(chart') = Len(chart) + 1
           /\ chart'[Len(chart) + 1] = slot[from]
           /\ \A e \in 1 .. Len(chart) : chart'[e] = chart[e]
  <2>1. /\ Len(chart') = l + 1 /\ chart'[l + 1] = slot[from]
        /\ \A e \in 1 .. l : chart'[e] = chart[e]
    BY <1>9
  <2>2. CASE FirstChart
    <3>1. from = 0
      BY <1>3, <1>9, <2>2 DEF FirstChart
    <3>2. l = 0
      BY <1>3, <1>5, <1>6, <2>2, <3>1 DEF FirstChart
    <3>3. Len(chart') = 1 /\ Age(0, Base)' > left'
      BY <1>3, <1>4, <2>1, <3>1, <3>2
    <3>4. FirstChart'
      BY <1>2, <2>2, <3>3 DEF FirstChart
    <3>5. Forward'
      BY <3>3 DEF Forward
    <3> QED
      BY <3>4, <3>5 DEF FInv
  <2>3. CASE LaterChart
    <3>1. Ordered(Base) /\ Ordered(Base)' /\ Place' = Place
      BY <1>2, <1>3, <1>4, <2>3 DEF LaterChart, Ordered, Place
    <3>2. l >= 1 => from # Base
      BY <1>3, <1>5, <1>6, <2>3 DEF LaterChart
    <3>3. PICK u \in 0 .. N - 1 : u = from
      BY <1>3
    <3>4. l + 1 >= 2 =>
             \E v \in 0 .. N - 1 :
                /\ Age(v, Base)' > left' /\ v # Base
                /\ slot[v] # Broken /\ slot[v] = chart'[l + 1]
      <4>1. Age(u, Base)' > left'
        BY <1>3, <1>4, <3>3
      <4> QED
        BY <1>6, <1>9, <2>1, <3>2, <3>3, <4>1
    <3>5. left' < N
      BY <1>3
    <3>6. LaterChart'
      BY <1>2, <1>3, <2>1, <2>3, <3>1, <3>4, <3>5 DEF LaterChart
    <3>7. ASSUME l >= 2 PROVE chart[l].serial < slot[from].serial
      <4>1. PICK v \in 0 .. N - 1 :
               /\ Age(v, Base) > left /\ v # Base
               /\ slot[v] # Broken /\ slot[v] = chart[l]
        BY <2>3, <3>7 DEF LaterChart
      <4>2. from # Base /\ Age(from, Base) < Age(v, Base)
        BY <1>3, <1>5, <3>2, <3>7, <4>1
      <4>3. slot[from].serial > slot[v].serial
        BY <1>3, <1>9, <3>1, <4>1, <4>2 DEF Ordered
      <4> QED
        BY <1>3, <1>9, <4>1, <4>3, SerialIn
    <3>8. Forward'
      <4> SUFFICES ASSUME NEW e \in 2 .. l
                   PROVE  chart'[e].serial < chart'[e + 1].serial
        BY <1>6, <2>1 DEF Forward
      <4>1. CASE e = l
        BY <1>6, <2>1, <3>7, <4>1
      <4>2. CASE e # l
        <5>1. e \in 2 .. l - 1 /\ e \in 1 .. l /\ e + 1 \in 1 .. l
          BY <1>6, <4>2
        <5> QED
          BY <1>7, <2>1, <5>1 DEF Forward
      <4> QED
        BY <4>1, <4>2
    <3> QED
      BY <3>6, <3>8 DEF FInv
  <2> QED
    BY <1>7, <2>2, <2>3
<1> QED
  BY <1>8, <1>9, ReadSlotChart

LEMMA ForwardKeeps ==
    ASSUME Typed, RTyped, LInv, OInv, FInv, [Next]_vars PROVE FInv'
<1> SUFFICES ASSUME ~missed', faults' = 0 PROVE FInv'
  BY DEF FInv
<1> USE NAssumption DEF ring, writer, reader
<1>1. RTyped' /\ Typed'
  BY NextTyped, NextReader
<1>2. ASSUME chart' = << >>, rpc' \notin {"total", "slots"} PROVE FInv'
  <2>1. Len(chart') = 0
    BY <1>2
  <2> QED
    BY <1>2, <2>1 DEF FInv, Forward
<1>3. ASSUME UNCHANGED <<rpc, from, left, chart>>, FInv,
             ~missed, faults = 0,
             FirstChart => FirstChart', LaterChart => LaterChart'
      PROVE  FInv'
  BY <1>3 DEF FInv, Forward
<1>4. CASE ReadIndex
  <2>1. /\ ~missed /\ faults = 0 /\ wpc = "idle" /\ ~raced
        /\ UNCHANGED <<idx, total, slot, taken, rpc, from, left, chart>>
        /\ curr' = IF idx < N THEN idx ELSE 0
    BY <1>4 DEF ReadIndex, Transaction, Typed
  <2>2. Base' = Base /\ Place' = Place /\ \A i : Age(i, Base)' = Age(i, Base)
    BY <2>1 DEF Base, Place, Age
  <2>3. ASSUME FirstChart PROVE FirstChart'
    <3>1. idx = Erased
      BY <2>1, <2>3 DEF FirstChart
    <3>2. curr' = 0
      BY <2>1, <3>1 DEF Erased
    <3> QED
      BY <2>1, <2>2, <2>3, <3>1, <3>2 DEF FirstChart
  <2>4. ASSUME LaterChart PROVE LaterChart'
    BY <2>1, <2>2, <2>4 DEF LaterChart, Ordered, Age
  <2> QED
    BY <1>3, <2>1, <2>3, <2>4
<1>5. CASE CountUp
  <2>1. /\ ~missed /\ faults = 0 /\ wpc = "count" /\ wpc' # "idle"
        /\ UNCHANGED <<idx, slot, curr, taken, raced, rpc, from, left, chart>>
    BY <1>5 DEF CountUp, Transaction, Typed
  <2>2. Base' = Base /\ Place' = Place /\ \A i : Age(i, Base)' = Age(i, Base)
    BY <2>1 DEF Base, Place, Age
  <2>3. ASSUME FirstChart PROVE FirstChart'
    BY <2>1, <2>2, <2>3 DEF FirstChart
  <2>4. ASSUME LaterChart PROVE LaterChart'
    BY <2>1, <2>2, <2>4 DEF LaterChart, Ordered, Age
  <2> QED
    BY <1>3, <2>1, <2>3, <2>4
<1>6. CASE WriteData
  <2>1. /\ ~missed /\ faults = 0 /\ wpc = "data" /\ wpc' # "idle"
        /\ UNCHANGED <<idx, total, curr, taken, raced, rpc, from, left, chart>>
        /\ slot' = [slot EXCEPT ![curr] = Entry(taken)]
    BY <1>6 DEF WriteData, Transaction, Typed
  <2>2. Base' = Base /\ Place' = Place /\ \A i : Age(i, Base)' = Age(i, Base)
    BY <2>1 DEF Base, Place, Age
  <2>3. curr = Place
    BY <2>1 DEF LInv
  <2>4. \A i \in 0 .. N - 1 : i # curr => slot'[i] = slot[i]
    BY <2>1 DEF Typed
  <2>5. ASSUME FirstChart PROVE FirstChart'
    <3>1. curr = 0
      BY <2>1, <2>5 DEF FirstChart
    <3>2. \A i \in 1 .. N - 1 : slot'[i] = Broken
      BY <2>4, <2>5, <3>1 DEF FirstChart
    <3>3. idx = Erased
      BY <2>1, <2>5 DEF FirstChart
    <3> QED
      BY <2>1, <2>2, <2>5, <3>1, <3>2, <3>3 DEF FirstChart
  <2>6. ASSUME LaterChart PROVE LaterChart'
    <3>1. Base = curr
      BY <2>1, <2>3, <2>6 DEF LaterChart
    <3>2. \A i \in 0 .. N - 1 : i # Base => slot'[i] = slot[i]
      BY <2>4, <3>1
    <3>3. Ordered(Base)'
      BY <2>2, <2>6, <3>2 DEF LaterChart, Ordered
    <3> QED
      BY <2>1, <2>2, <2>6, <3>2, <3>3 DEF LaterChart
  <2> QED
    BY <1>3, <2>1, <2>5, <2>6
<1>7. CASE WriteIndex
  <2>1. /\ ~missed /\ faults = 0 /\ wpc = "index" /\ wpc' = "idle"
        /\ UNCHANGED <<total, slot, curr, raced, rpc, from, left, chart>>
        /\ idx' = (curr + 1) % N
    BY <1>7 DEF WriteIndex, Transaction, Typed
  <2>2. Base' = Base /\ \A i : Age(i, Base)' = Age(i, Base)
    BY <2>1 DEF Base, Age
  <2>3. idx' # Erased
    <3>1. idx' \in 0 .. N - 1
      BY <2>1, AgeFacts DEF Typed
    <3> QED
      BY <3>1 DEF Erased
  <2>4. rpc \in {"total", "slots"} => raced
    BY <2>1 DEF RTyped
  <2>5. ASSUME FirstChart, raced PROVE FirstChart'
    BY <2>1, <2>2, <2>5 DEF FirstChart
  <2>6. ASSUME LaterChart, raced PROVE LaterChart'
    BY <2>1, <2>2, <2>3, <2>6 DEF LaterChart, Ordered
  <2>7. Forward'
    BY <2>1 DEF FInv, Forward
  <2> QED
    BY <2>1, <2>4, <2>5, <2>6, <2>7 DEF FInv
<1>8. CASE OpenChart
  BY <1>8, <1>1, OpenForward DEF RTyped
<1>9. CASE ReadTotal
  <2>1. ~missed /\ faults = 0
    BY <1>9 DEF ReadTotal, ChartRead, Transaction, Typed, RTyped
  <2>2. /\ rpc = "total" /\ chart' = << >> /\ Len(<< >>) = 0
        /\ UNCHANGED <<idx, total, slot, wpc, curr, taken, raced>>
    BY <1>9 DEF ReadTotal
  <2>3. Base' = Base /\ Place' = Place /\ \A i : Age(i, Base)' = Age(i, Base)
    BY <1>9, <2>2, ReadTotalBase DEF Place, Age
  <2>4. FirstChart => FirstChart'
    BY <2>2 DEF FirstChart
  <2>5. LaterChart => LaterChart'
    BY <2>2, <2>3 DEF LaterChart, Ordered
  <2>6. Forward'
    BY <2>2 DEF Forward
  <2> QED
    BY <2>1, <2>2, <2>4, <2>5, <2>6 DEF FInv
<1>10. CASE ReadSlot
  BY <1>10, SlotForward
<1>11. CASE ShowChart
  <2>1. /\ ~missed /\ faults = 0 /\ rpc' = "shown" /\ chart' = chart
    BY <1>11 DEF ShowChart
  <2> QED
    BY <2>1 DEF FInv, Forward
<1>12. CASE LeaveChart \/ Crash
  <2>1. chart' = << >> /\ rpc' = "idle"
    BY <1>12 DEF LeaveChart, Crash
  <2> QED
    BY <1>2, <2>1
<1>13. CASE CycleEnds \/ UNCHANGED vars
  <2>1. /\ ~missed /\ faults = 0
        /\ UNCHANGED <<idx, slot, wpc, curr, raced, rpc, from, left, chart>>
    BY <1>13 DEF CycleEnds, vars
  <2>2. Base' = Base /\ Place' = Place /\ \A i : Age(i, Base)' = Age(i, Base)
    BY <2>1 DEF Base, Place, Age
  <2>3. FirstChart => FirstChart'
    BY <2>1, <2>2 DEF FirstChart
  <2>4. LaterChart => LaterChart'
    BY <2>1, <2>2 DEF LaterChart, Ordered
  <2> QED
    BY <1>3, <2>1, <2>3, <2>4
<1> QED
  BY <1>4, <1>5, <1>6, <1>7, <1>8, <1>9, <1>10, <1>11, <1>12, <1>13
     DEF Next, Writer, Reader

(* Whatever power failures came before and however the writer races it, a  *)
(* chart shows no sample twice, and from its second point on every sample  *)
(* is later than the one before, if no bus transaction failed.             *)
THEOREM ChartRunsForward == Spec => []TimeRunsForward
<1>1. RTyped /\ CInv /\ FInv => TimeRunsForward
  <2> SUFFICES ASSUME RTyped, CInv, FInv PROVE TimeRunsForward
    OBVIOUS
  <2>1. DOMAIN chart = 1 .. Len(chart) /\ Len(chart) \in Nat
    BY LenProperties DEF RTyped
  <2>2. \A e \in 1 .. Len(chart) : Serials[e] = chart[e].serial
    BY <2>1 DEF Serials
  <2>3. NoSampleTwice
    BY <2>1, <2>2 DEF NoSampleTwice, CInv
  <2>4. ASSUME ~missed, faults = 0, NEW e \in 2 .. Len(chart) - 1
        PROVE  Serials[e] < Serials[e + 1]
    <3>1. e \in 1 .. Len(chart) /\ e + 1 \in 1 .. Len(chart)
      BY <2>1
    <3> QED
      BY <2>2, <2>4, <3>1 DEF FInv, Forward
  <2> QED
    BY <2>3, <2>4 DEF TimeRunsForward
<1>2. Init => Typed /\ RTyped /\ SInv /\ CInv /\ LInv /\ OInv /\ FInv
  BY InitRing, InitReader, InitSerials, InitLost, InitOrder
<1>3. Typed /\ RTyped /\ SInv /\ CInv /\ LInv /\ OInv /\ FInv /\ [Next]_vars
      => (Typed /\ RTyped /\ SInv /\ CInv /\ LInv /\ OInv /\ FInv)'
  BY NextTyped, NextReader, SerialsKeep, ChartKeeps, NextLost, OrderKeeps,
     ForwardKeeps
<1> QED
  BY <1>1, <1>2, <1>3, PTL DEF Spec
=============================================================================
