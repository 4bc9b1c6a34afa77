---------------------------- MODULE Kernel_proofs ----------------------------
(***************************************************************************)
(* What the tasks rely on, for every value of the constants:               *)
(*   - the list of the heap's free blocks is exact and the heap implements *)
(*     the Allocator;                                                      *)
(*   - no wake-up of a stream buffer is lost and it implements the         *)
(*     BytePipe;                                                           *)
(*   - time-outs, periods and timers of the kernel are exact across the    *)
(*     wrap of the tick count;                                             *)
(*   - the target humidity: for any targets, any length of the Message     *)
(*     queues and any number of saves, web targets and mishaps, device,    *)
(*     screen and EEPROM agree after an update that did not cross another, *)
(*     and the echo of the broker mends what updates that crossed have     *)
(*     left.                                                               *)
(* The scheduler and the queues are in FreeRTOS_proofs.                    *)
(***************************************************************************)
EXTENDS Heap, StreamBuffer, Timers, TargetRh, FiniteSetTheorems, SequenceTheorems,
        WellFoundedInduction, TLAPS

(***************************************************************************)
(*                                The heap                                 *)
(***************************************************************************)

\* The headers that stand, whichever list or owner their blocks have.
Blocks == {b \in Address : size[b] > 0}
EndOf(b) == b + size[b]
HeapBytes == First .. End - 1

HeapTypes ==
    /\ size \in [Address -> Nat] /\ size[End] = 0
    /\ next \in [Address \union {ListStart} -> Address \union {NoBlock}] /\ next[End] = NoBlock
    /\ used \subseteq Blocks /\ marked \subseteq Blocks /\ used \cap marked = {}
    /\ remaining \in Nat /\ wanted \in Nat
    /\ pc \in {"idle", "asked", "search", "insert", "give"}
    /\ prev \in Free \union {ListStart, NoBlock}
    /\ block \in Free \union {End, NoBlock}
    /\ hand \in Blocks \union {NoBlock} /\ keep \in Blocks \union {NoBlock}
    /\ at \in Free \union {ListStart, NoBlock}
    /\ {hand, keep} \cap (used \union marked) = {}
    /\ hand = keep => hand = NoBlock

\* The blocks tile the memory, each at an aligned address.
Tiled ==
    /\ First \in Blocks
    /\ \A b \in Blocks : b % Align = 0 /\ EndOf(b) \in Blocks \union {End}
    /\ \A a, b \in Blocks : a < b => EndOf(a) <= b
    /\ \A x \in HeapBytes : \E b \in Blocks : b <= x /\ x < EndOf(b)

\* The list links the free blocks, and only those, in the order of their addresses.
IsNext(a, c) ==
    /\ c \in Free \union {End} /\ a < c
    /\ \A b \in Free : a < b => c <= b
Linked == \A a \in Free \union {ListStart} : IsNext(a, next[a])

\* Free neighbours have merged.
Apart == \A b \in Free : EndOf(b) \notin Free

\* What each call knows where it is: the search has passed only blocks that
\* are too small, and the block to insert lies behind the one found.
Calls ==
    /\ pc \in {"idle", "asked"} =>
          prev = NoBlock /\ block = NoBlock /\ hand = NoBlock /\ at = NoBlock /\ keep = NoBlock
    /\ pc = "search" => /\ prev # NoBlock /\ block = next[prev]
                        /\ hand = NoBlock /\ at = NoBlock /\ keep = NoBlock
                        /\ Needed > 0
                        /\ \A b \in Free : b < block => size[b] < Needed
    /\ pc = "insert" => prev = NoBlock /\ block = NoBlock /\ hand # NoBlock /\ at # NoBlock /\ at < hand
    /\ pc = "give" => prev = NoBlock /\ block = NoBlock /\ hand = NoBlock /\ at = NoBlock /\ keep # NoBlock
    /\ keep # NoBlock => Needed > 0 /\ size[keep] >= Needed

\* xFreeBytesRemaining is the number of the bytes in no block that is given out.
Outside(B) == {x \in HeapBytes : \A b \in B : x < b \/ EndOf(b) <= x}
Unowned == Outside(used \union marked)
BytesCounted == remaining = Cardinality(Unowned)

HeapInv == HeapTypes /\ Tiled /\ Linked /\ Apart /\ Calls /\ BytesCounted

----------------------------------------------------------------------------
(* Arithmetic of the alignment.                                            *)

\* A number is its quotient's multiple and its remainder.
LEMMA Division ==
    ASSUME NEW a \in Nat, NEW n \in Nat \ {0}
    PROVE  /\ a % n \in 0 .. n - 1 /\ a \div n \in Nat
           /\ a = n * (a \div n) + (a % n)
OBVIOUS

\* And it has only one quotient and one remainder.
LEMMA Quotient ==
    ASSUME NEW q \in Nat, NEW n \in Nat \ {0}, NEW r \in 0 .. n - 1
    PROVE  (n * q + r) % n = r /\ (n * q + r) \div n = q
OBVIOUS

\* A multiple leaves no remainder.
LEMMA Multiple ==
    ASSUME NEW q \in Nat, NEW n \in Nat \ {0}
    PROVE  (n * q) % n = 0
<1>1. (n * q + 0) % n = 0 BY Quotient
<1> QED BY <1>1

\* Sums of aligned numbers are aligned.
LEMMA AlignedSum ==
    ASSUME NEW a \in Nat, NEW b \in Nat, a % Align = 0, b % Align = 0
    PROVE  (a + b) % Align = 0
<1> DEFINE p == a \div Align
           q == b \div Align
<1>1. Align \in Nat \ {0} BY HeapConstants
<1>2. p \in Nat /\ q \in Nat /\ a = Align * p /\ b = Align * q BY <1>1, Division
<1>3. p + q \in Nat /\ a + b = Align * (p + q)
  <2> HIDE DEF p, q
  <2> QED BY <1>1, <1>2
<1>4. (Align * (p + q)) % Align = 0 BY <1>1, <1>3, Multiple
<1> QED BY <1>3, <1>4

\* RoundUp returns the first aligned number that is not below its argument.
LEMMA RoundsUp ==
    ASSUME NEW n \in Nat
    PROVE  /\ RoundUp(n) \in Nat /\ n <= RoundUp(n) /\ RoundUp(n) < n + Align
           /\ RoundUp(n) % Align = 0
           /\ RoundUp(n) = ((n + Align - 1) \div Align) * Align
<1> DEFINE q == n \div Align
           r == n % Align
<1>1. Align \in Nat \ {0} BY HeapConstants
<1>2. q \in Nat /\ r \in 0 .. Align - 1 /\ n = Align * q + r BY <1>1, Division
<1>3. CASE r = 0
  <2>1. Align % Align = 0 BY <1>1
  <2>2. RoundUp(n) = Align * q BY <1>1, <1>2, <1>3, <2>1 DEF RoundUp
  <2>3. n + Align - 1 = Align * q + (Align - 1) BY <1>1, <1>2, <1>3
  <2>4. (n + Align - 1) \div Align = q
    <3> HIDE DEF q
    <3>1. Align - 1 \in 0 .. Align - 1 BY <1>1
    <3> QED BY <1>1, <1>2, <2>3, <3>1, Quotient
  <2>5. RoundUp(n) % Align = 0
    <3> HIDE DEF q
    <3> QED BY <1>1, <1>2, <2>2, Multiple
  <2>6. n = Align * q BY <1>1, <1>2, <1>3
  <2> HIDE DEF q
  <2> QED BY <1>1, <1>2, <2>2, <2>4, <2>5, <2>6
<1>4. CASE r # 0
  <2>1. (Align - r) % Align = Align - r BY <1>1, <1>2, <1>4
  <2>2. RoundUp(n) = n + (Align - r) BY <2>1 DEF RoundUp
  <2>3. q + 1 \in Nat /\ RoundUp(n) = Align * (q + 1)
    <3> HIDE DEF q, r
    <3> QED BY <1>1, <1>2, <2>2
  <2>4. n + Align - 1 = Align * (q + 1) + (r - 1)
    <3> HIDE DEF q, r
    <3> QED BY <1>1, <1>2
  <2>5. (n + Align - 1) \div Align = q + 1
    <3> HIDE DEF q, r
    <3>1. q + 1 \in Nat /\ r - 1 \in 0 .. Align - 1 BY <1>1, <1>2, <1>4
    <3> QED BY <1>1, <2>4, <3>1, Quotient
  <2>6. RoundUp(n) % Align = 0
    <3> HIDE DEF q, r
    <3>1. PICK m \in Nat : RoundUp(n) = Align * m BY <2>3
    <3> QED BY <1>1, <3>1, Multiple
  <2> HIDE DEF q, r
  <2> QED BY <1>1, <1>2, <1>4, <2>2, <2>3, <2>5, <2>6
<1> QED BY <1>3, <1>4

\* The memory of the heap starts at an aligned address, and no block can be
\* so long that its length sets the bit of the mark.
LEMMA Memory ==
    /\ First \in Nat /\ End \in Nat /\ First < End /\ First % Align = 0
    /\ End - First <= SizeMax \div 2
    /\ Address \subseteq Nat /\ First \in Address /\ End \in Address
<1>1. First \in Nat /\ Base <= First /\ First % Align = 0
  BY HeapConstants, RoundsUp DEF First
<1>2. Base + Total - Header \in Int /\ Align \in Nat \ {0} BY HeapConstants
<1>3. (Base + Total - Header) % Align \in Nat BY <1>2
<1>4. End \in Int /\ End <= Base + Total - Header BY <1>2, <1>3 DEF End, RoundDown
<1>5. First < End /\ Total <= SizeMax \div 2 BY HeapConstants
<1>6. {Base, Total, Header, SizeMax} \subseteq Nat BY HeapConstants
<1>7. SizeMax \div 2 \in Nat BY <1>6
<1>8. End - First <= Total BY <1>1, <1>4, <1>6
<1> QED BY <1>1, <1>4, <1>5, <1>6, <1>7, <1>8 DEF Address

\* What pvPortMalloc looks for is what a piece needs at least, unless that is
\* more than the memory.
LEMMA Demanded ==
    ASSUME NEW n \in Nat
    PROVE  /\ Demand(n) \in Nat /\ Owners!Least(n) \in Nat
           /\ Demand(n) % Align = 0
           /\ Demand(n) > 0 => n > 0 /\ Demand(n) = Owners!Least(n)
           /\ n > 0 => Owners!Least(n) > 0
           /\ n > 0 /\ ~(Valid(Demand(n)) /\ Demand(n) > 0) => Owners!Least(n) > End - First
<1>1. {Header, SizeMax} \subseteq Nat /\ Header > 0 /\ SizeMax \div 2 <= SizeMax
  BY HeapConstants
<1>2. n + Header \in Nat BY <1>1
<1>3. Align \in Nat \ {0} BY HeapConstants
<1>4. (n + Header) + Align - 1 = n + Header + Align - 1 BY <1>1, <1>3
<1>5. Owners!Least(n) = RoundUp(n + Header) BY <1>2, RoundsUp DEF Owners!Least
<1>6. /\ RoundUp(n + Header) \in Nat /\ RoundUp(n + Header) >= n + Header
      /\ RoundUp(n + Header) % Align = 0
  BY <1>2, RoundsUp
<1>7. 0 % Align = 0 BY <1>3
<1>8. SizeMax \div 2 \in Nat BY <1>1
<1> DEFINE u == RoundUp(n + Header)
<1>9. /\ Demand(n) \in {0, u}
      /\ Demand(n) > 0 => n > 0 /\ Demand(n) = u
      /\ Demand(n) = 0 => n = 0 \/ n + Header > SizeMax \/ u > SizeMax
  <2>1. u \in Nat /\ u >= n + Header BY <1>6
  <2>2. Demand(n) = IF n = 0 \/ n + Header > SizeMax \/ u > SizeMax THEN 0 ELSE u
    BY DEF Demand
  <2> HIDE DEF u
  <2> QED BY <1>1, <1>2, <2>1, <2>2
<1>10. End - First <= SizeMax \div 2 BY Memory
<1> HIDE DEF u
<1>11. u \in Nat /\ u >= n + Header /\ u % Align = 0 BY <1>6 DEF u
<1>12. Owners!Least(n) = u BY <1>5 DEF u
<1>13. End - First \in Int BY Memory
<1> QED BY <1>1, <1>7, <1>8, <1>9, <1>10, <1>11, <1>12, <1>13 DEF Valid

----------------------------------------------------------------------------
(* The blocks.                                                             *)

\* The free blocks are blocks, and End, ListStart and NoBlock are none.
LEMMA BlockFacts ==
    ASSUME HeapTypes
    PROVE  /\ Free \subseteq Blocks
           /\ Free = Blocks \ (used \union marked \union {hand, keep})
           /\ {ListStart, NoBlock, End} \cap Blocks = {}
           /\ ListStart < First /\ ListStart < End /\ NoBlock < ListStart
           /\ \A b \in Blocks : /\ b \in Nat /\ b \in Address /\ b < End /\ First <= b
                                /\ size[b] \in Nat /\ size[b] > 0
                                /\ EndOf(b) \in Nat /\ b < EndOf(b)
<1>1. Free = Blocks \ (used \union marked \union {hand, keep}) BY DEF Free, Blocks
<1>2. ASSUME NEW b \in Blocks
      PROVE  /\ b \in Nat /\ b \in Address /\ b < End /\ First <= b
             /\ size[b] \in Nat /\ size[b] > 0
             /\ EndOf(b) \in Nat /\ b < EndOf(b)
  <2>1. b \in Address /\ size[b] > 0 /\ size[b] \in Nat BY DEF Blocks, HeapTypes
  <2>2. b \in Nat /\ First <= b /\ b <= End BY <2>1, Memory DEF Address
  <2>3. b # End BY <2>1 DEF HeapTypes
  <2> QED BY <2>1, <2>2, <2>3, Memory DEF EndOf
<1>3. ListStart < First /\ ListStart < End /\ NoBlock < ListStart BY Memory DEF ListStart, NoBlock
<1> QED BY <1>1, <1>2, <1>3, Memory DEF ListStart, NoBlock

\* Two blocks do not overlap, and no block reaches beyond the end.
LEMMA Disjoint ==
    ASSUME HeapTypes, Tiled
    PROVE  /\ \A b \in Blocks : EndOf(b) <= End
           /\ \A a, b \in Blocks : a # b => EndOf(a) # EndOf(b)
           /\ \A a, b \in Blocks : a < EndOf(b) /\ b < EndOf(a) => a = b
<1>1. \A b \in Blocks : b \in Nat /\ EndOf(b) \in Nat /\ b < EndOf(b) /\ b < End
  BY BlockFacts
<1>2. \A b \in Blocks : EndOf(b) <= End BY <1>1, Memory DEF Tiled
<1>3. \A a, b \in Blocks : a < b => EndOf(a) <= b BY DEF Tiled
<1> QED BY <1>1, <1>2, <1>3

\* With no block in the hands of a call, a gap that is long enough for a
\* request is a free block that is.
LEMMA GapIsFree ==
    ASSUME HeapTypes, Tiled, Apart, hand = NoBlock, keep = NoBlock,
           NEW n \in Nat \ {0}, Owners!Room(n)
    PROVE  \E b \in Free : size[b] >= n
<1>1. Allocated = used \union marked BY DEF Allocated
<1>2. Blocks = Free \union Allocated BY <1>1, BlockFacts DEF HeapTypes
<1>3. PICK x \in {First} \union {p.to : p \in {Piece(b) : b \in Allocated}} :
         x + n <= End /\ \A p \in {Piece(b) : b \in Allocated} : x + n <= p.from \/ p.to <= x
  BY DEF Owners!Room, Owners!Clear
<1>4. \A b \in Allocated : x + n <= b \/ EndOf(b) <= x
  <2> TAKE b \in Allocated
  <2>1. x + n <= Piece(b).from \/ Piece(b).to <= x BY <1>3
  <2> QED BY <2>1 DEF Piece, EndOf
<1>5. x \in Blocks \union {End}
  <2>1. CASE x = First BY <2>1 DEF Tiled
  <2>2. CASE x # First
    <3>1. PICK b \in Allocated : x = Piece(b).to BY <1>3, <2>2
    <3>2. x = EndOf(b) BY <3>1 DEF Piece, EndOf
    <3> QED BY <1>2, <3>2 DEF Tiled
  <2> QED BY <2>1, <2>2
<1>6. \A b \in Blocks : /\ b \in Nat /\ EndOf(b) \in Nat /\ b < EndOf(b)
                        /\ EndOf(b) = b + size[b] /\ size[b] \in Nat
  BY BlockFacts DEF EndOf
<1>7. x \in Blocks BY <1>3, <1>5, Memory
<1>8. x \in Free BY <1>2, <1>4, <1>6, <1>7
<1>9. CASE size[x] < n
  <2>1. EndOf(x) \in Blocks \union {End} BY <1>7 DEF Tiled
  <2>2. EndOf(x) < x + n BY <1>6, <1>7, <1>9
  <2>3. EndOf(x) \in Blocks BY <1>3, <1>6, <1>7, <2>1, <2>2, Memory
  <2>4. EndOf(x) \in Allocated BY <1>2, <1>8, <2>3 DEF Apart
  <2> QED BY <1>4, <1>6, <1>7, <2>2, <2>3, <2>4
<1> QED BY <1>6, <1>7, <1>8, <1>9

\* The bytes in no block given out are finitely many; those of a free block
\* are among them.
LEMMA FreeBytes ==
    ASSUME HeapTypes, Tiled
    PROVE  /\ IsFiniteSet(Unowned) /\ Cardinality(Unowned) \in Nat
           /\ \A b \in Blocks \ (used \union marked) : size[b] <= Cardinality(Unowned)
<1>1. IsFiniteSet(HeapBytes) BY FS_Interval, Memory DEF HeapBytes
<1>2. IsFiniteSet(Unowned) /\ Cardinality(Unowned) \in Nat
  BY <1>1, FS_Subset, FS_CardinalityType DEF Unowned, Outside
<1>3. ASSUME NEW b \in Blocks \ (used \union marked)
      PROVE  size[b] <= Cardinality(Unowned)
  <2>1. b \in Nat /\ size[b] \in Nat /\ size[b] > 0 /\ First <= b /\ EndOf(b) = b + size[b]
    BY BlockFacts DEF EndOf
  <2>2. Cardinality(b .. EndOf(b) - 1) = size[b] BY <2>1, FS_Interval
  <2>3. ASSUME NEW x \in b .. EndOf(b) - 1 PROVE x \in Unowned
    <3>1. x \in Nat /\ b <= x /\ x < EndOf(b) BY <2>1, <2>3
    <3>2. x \in HeapBytes BY <2>1, <3>1, Disjoint, Memory DEF HeapBytes
    <3>3. ASSUME NEW c \in used \union marked PROVE x < c \/ EndOf(c) <= x
      <4>1. c \in Blocks /\ c # b BY DEF HeapTypes
      <4>2. c \in Nat /\ EndOf(c) \in Nat /\ EndOf(b) \in Nat BY <4>1, BlockFacts
      <4>3. ~(c < EndOf(b) /\ b < EndOf(c)) BY <4>1, Disjoint
      <4> QED BY <2>1, <3>1, <4>2, <4>3
    <3> QED BY <3>2, <3>3 DEF Unowned, Outside
  <2> QED BY <1>2, <2>2, <2>3, FS_Subset
<1> QED BY <1>2, <1>3

----------------------------------------------------------------------------
(* The steps that leave the list alone.                                    *)

\* prvHeapInit makes one free block of the memory.
LEMMA HeapInitial == HeapInit => HeapInv
<1> SUFFICES ASSUME HeapInit PROVE HeapInv OBVIOUS
<1> USE DEF HeapInit
<1>1. /\ First \in Nat /\ End \in Nat /\ First < End /\ First % Align = 0
      /\ Address \subseteq Nat /\ First \in Address /\ End \in Address
      /\ ListStart < First /\ NoBlock < ListStart /\ ListStart \in Int /\ NoBlock \in Int
  BY Memory DEF ListStart, NoBlock
<1>2. Blocks = {First} /\ size[First] = End - First BY <1>1 DEF Blocks
<1>3. Free = {First} BY <1>1, <1>2 DEF Free, Blocks
<1>4. EndOf(First) = End BY <1>1, <1>2 DEF EndOf
<1>5. size[End] = 0 /\ next[End] = NoBlock /\ next[ListStart] = First /\ next[First] = End
  BY <1>1
<1>6. size \in [Address -> Nat] BY <1>1
<1>7. next \in [Address \union {ListStart} -> Address \union {NoBlock}] BY <1>1
<1>8. HeapTypes BY <1>1, <1>2, <1>3, <1>5, <1>6, <1>7 DEF HeapTypes
<1>9. Tiled BY <1>1, <1>2, <1>4 DEF Tiled, HeapBytes
<1>10. Linked BY <1>1, <1>3, <1>5 DEF Linked, IsNext
<1>11. Apart BY <1>1, <1>3, <1>4 DEF Apart
<1>12. Calls BY <1>1 DEF Calls
<1>13. Unowned = HeapBytes BY DEF Unowned, Outside
<1>14. BytesCounted BY <1>1, <1>13, FS_Interval DEF BytesCounted, HeapBytes
<1> QED BY <1>8, <1>9, <1>10, <1>11, <1>12, <1>14 DEF HeapInv

\* While the headers and the set of free blocks stay the same, so does the list.
LEMMA ListKept ==
    ASSUME Tiled, Linked, Apart, UNCHANGED <<size, next>>, Free' = Free
    PROVE  Blocks' = Blocks /\ Tiled' /\ Linked' /\ Apart'
BY DEF Tiled, Linked, Apart, IsNext, Blocks, EndOf

\* While the blocks that are given out stay the same, so do the bytes that are not.
LEMMA CountKept ==
    ASSUME BytesCounted, UNCHANGED remaining, used' \union marked' = used \union marked,
           \A b \in used \union marked : size'[b] = size[b]
    PROVE  BytesCounted'
<1>1. \A b \in used \union marked : EndOf(b)' = EndOf(b) BY DEF EndOf
<1>2. Unowned' = Unowned BY <1>1 DEF Unowned, Outside
<1> QED BY <1>2 DEF BytesCounted

\* pvPortMalloc is called.
LEMMA MallocStep == ASSUME HeapInv, NEW n \in Sizes, Malloc(n) PROVE HeapInv'
<1> USE DEF HeapInv
<1>1. /\ pc = "idle" /\ pc' = "asked" /\ wanted' = n /\ n \in Nat
      /\ UNCHANGED <<size, next, used, marked, remaining, cursors>>
  BY HeapConstants DEF Malloc
<1>2. Free' = Free BY <1>1 DEF Free, cursors
<1>3. Blocks' = Blocks /\ Tiled' /\ Linked' /\ Apart' BY <1>1, <1>2, ListKept
<1>4. HeapTypes' BY <1>1, <1>2, <1>3 DEF HeapTypes, cursors
<1>5. BytesCounted' BY <1>1, CountKept
<1>6. Calls' BY <1>1 DEF Calls, cursors
<1> QED BY <1>3, <1>4, <1>5, <1>6

\* The look at the request refuses it or starts the search at the front of the list.
LEMMA LookStep == ASSUME HeapInv, Look PROVE HeapInv'
<1> USE DEF HeapInv
<1>1. /\ pc = "asked" /\ pc' \in {"search", "idle"}
      /\ UNCHANGED <<size, next, used, marked, remaining, wanted, hand, at, keep>>
      /\ pc' = "search" => prev' = ListStart /\ block' = next[ListStart] /\ Needed > 0
      /\ pc' = "idle" => prev' = prev /\ block' = block
  BY DEF Look, cursors
<1>2. Free' = Free BY <1>1 DEF Free
<1>3. Blocks' = Blocks /\ Tiled' /\ Linked' /\ Apart' BY <1>1, <1>2, ListKept
<1>4. next[ListStart] \in Free \union {End} /\ \A b \in Free : next[ListStart] <= b
  <2>1. IsNext(ListStart, next[ListStart]) BY DEF Linked
  <2>2. \A b \in Free : ListStart < b BY BlockFacts DEF ListStart
  <2> QED BY <2>1, <2>2 DEF IsNext
<1>5. HeapTypes' BY <1>1, <1>2, <1>3, <1>4 DEF HeapTypes, Calls
<1>6. BytesCounted' BY <1>1, CountKept
<1>7. Needed' = Needed BY <1>1 DEF Needed, Demand
<1>8. \A b \in Free : ~(b < next[ListStart])
  <2>1. \A b \in Free : b \in Nat BY BlockFacts
  <2>2. next[ListStart] \in Nat BY <1>4, <2>1, Memory
  <2> QED BY <1>4, <2>1, <2>2
<1>9. ListStart # NoBlock BY DEF ListStart, NoBlock
<1>10. Calls' BY <1>1, <1>2, <1>7, <1>8, <1>9 DEF Calls
<1> QED BY <1>3, <1>5, <1>6, <1>10

\* The search passes a block that is too small.
LEMMA WalkStep == ASSUME HeapInv, Walk PROVE HeapInv'
<1> USE DEF HeapInv
<1>1. /\ pc = "search" /\ pc' = "search" /\ prev' = block /\ block' = next[block]
      /\ size[block] < Needed /\ next[block] # NoBlock
      /\ UNCHANGED <<size, next, used, marked, remaining, wanted, hand, at, keep>>
  BY DEF Walk, TooSmall
<1>2. Free' = Free BY <1>1 DEF Free
<1>3. Blocks' = Blocks /\ Tiled' /\ Linked' /\ Apart' BY <1>1, <1>2, ListKept
<1>4. /\ prev \in Free \union {ListStart} /\ block = next[prev]
      /\ \A b \in Free : b < block => size[b] < Needed
  BY <1>1 DEF HeapTypes, Calls
<1>5. block \in Free
  <2>1. IsNext(prev, block) BY <1>4 DEF Linked
  <2> QED BY <1>1, <2>1 DEF IsNext, HeapTypes
<1>6. IsNext(block, next[block]) BY <1>5 DEF Linked
<1>7. \A b \in Free : b < next[block] => size[b] < Needed
  <2> TAKE b \in Free
  <2>1. \A c \in Free : c \in Nat BY BlockFacts
  <2>2. next[block] \in Nat BY <1>6, <2>1, Memory DEF IsNext
  <2> QED BY <1>1, <1>4, <1>5, <1>6, <2>1, <2>2 DEF IsNext
<1>8. HeapTypes' BY <1>1, <1>2, <1>3, <1>5, <1>6 DEF HeapTypes, IsNext
<1>9. BytesCounted' BY <1>1, CountKept
<1>10. Needed' = Needed BY <1>1 DEF Needed, Demand
<1>11. block # NoBlock BY <1>5, BlockFacts
<1>12. Calls' BY <1>1, <1>2, <1>7, <1>10, <1>11 DEF Calls
<1> QED BY <1>3, <1>8, <1>9, <1>12

\* The search ends without a block.
LEMMA NoneFitsStep == ASSUME HeapInv, NoneFits PROVE HeapInv'
<1> USE DEF HeapInv
<1>1. /\ pc = "search" /\ pc' = "idle" /\ prev' = NoBlock /\ block' = NoBlock
      /\ UNCHANGED <<size, next, used, marked, remaining, wanted, hand, at, keep>>
  BY DEF NoneFits
<1>2. Free' = Free BY <1>1 DEF Free
<1>3. Blocks' = Blocks /\ Tiled' /\ Linked' /\ Apart' BY <1>1, <1>2, ListKept
<1>4. HeapTypes' BY <1>1, <1>2, <1>3 DEF HeapTypes
<1>5. BytesCounted' BY <1>1, CountKept
<1>6. Calls' BY <1>1 DEF Calls
<1> QED BY <1>3, <1>4, <1>5, <1>6

\* The mark of a block is cleared before the block is free.
LEMMA FreeMarkStep == ASSUME HeapInv, NEW b \in used, FreeMark(b) PROVE HeapInv'
<1> USE DEF HeapInv
<1>1. /\ pc = "idle" /\ pc' = pc /\ used' = used \ {b} /\ marked' = marked \union {b}
      /\ UNCHANGED <<size, next, remaining, wanted, cursors>>
  BY DEF FreeMark
<1>2. used' \union marked' = used \union marked BY <1>1
<1>3. Free' = Free BY <1>1, <1>2 DEF Free, cursors
<1>4. Blocks' = Blocks /\ Tiled' /\ Linked' /\ Apart' BY <1>1, <1>3, ListKept
<1>5. used' \subseteq Blocks /\ marked' \subseteq Blocks /\ used' \cap marked' = {}
  BY <1>1 DEF HeapTypes
<1>6. HeapTypes' BY <1>1, <1>2, <1>3, <1>4, <1>5 DEF HeapTypes, cursors
<1>7. BytesCounted' BY <1>1, <1>2, CountKept
<1>8. Calls' BY <1>1 DEF Calls, cursors
<1> QED BY <1>4, <1>6, <1>7, <1>8

\* The insertion passes a free block in front of the one in hand.
LEMMA SeekStep == ASSUME HeapInv, Seek PROVE HeapInv'
<1> USE DEF HeapInv
<1>1. /\ pc = "insert" /\ pc' = pc /\ next[at] < hand /\ at' = next[at]
      /\ UNCHANGED <<size, next, used, marked, remaining, wanted, prev, block, hand, keep>>
  BY DEF Seek
<1>2. Free' = Free BY <1>1 DEF Free
<1>3. Blocks' = Blocks /\ Tiled' /\ Linked' /\ Apart' BY <1>1, <1>2, ListKept
<1>4. next[at] \in Free
  <2>1. at \in Free \union {ListStart} BY <1>1 DEF HeapTypes, Calls
  <2>2. IsNext(at, next[at]) BY <2>1 DEF Linked
  <2>3. hand \in Blocks BY <1>1 DEF HeapTypes, Calls
  <2>4. hand < End /\ hand \in Nat BY <2>3, BlockFacts
  <2> QED BY <1>1, <2>2, <2>4, Memory DEF IsNext
<1>5. HeapTypes' BY <1>1, <1>2, <1>3, <1>4 DEF HeapTypes
<1>6. BytesCounted' BY <1>1, CountKept
<1>7. Needed' = Needed BY <1>1 DEF Needed, Demand
<1>8. next[at] # NoBlock BY <1>4, BlockFacts
<1>9. Calls' BY <1>1, <1>7, <1>8 DEF Calls
<1> QED BY <1>3, <1>5, <1>6, <1>9

----------------------------------------------------------------------------
(* The steps that count.                                                   *)

\* A block that is given out takes as many bytes as it is long.
LEMMA BlockTakes ==
    ASSUME HeapTypes, Tiled, NEW B \in SUBSET Blocks, NEW b \in Blocks \ B
    PROVE  Cardinality(Outside(B)) = Cardinality(Outside(B \union {b})) + size[b]
<1> DEFINE I == b .. EndOf(b) - 1
           O == Outside(B \union {b})
<1>1. /\ b \in Nat /\ size[b] \in Nat /\ size[b] > 0 /\ First <= b
      /\ EndOf(b) = b + size[b] /\ EndOf(b) \in Nat /\ EndOf(b) <= End
  BY BlockFacts, Disjoint DEF EndOf
<1>2. IsFiniteSet(I) /\ Cardinality(I) = size[b]
  <2>1. Cardinality(b .. EndOf(b) - 1) = size[b] BY <1>1, FS_Interval
  <2>2. IsFiniteSet(b .. EndOf(b) - 1) BY <1>1, FS_Interval
  <2> QED BY <2>1, <2>2
<1>3. IsFiniteSet(O)
  <2>1. IsFiniteSet(HeapBytes) BY FS_Interval, Memory DEF HeapBytes
  <2> QED BY <2>1, FS_Subset DEF Outside
<1>4. O \intersect I = {}
  <2>1. ASSUME NEW x \in O, x \in I PROVE FALSE
    <3>1. x < b \/ EndOf(b) <= x BY DEF Outside
    <3>2. x \in Int /\ b <= x /\ x <= EndOf(b) - 1 BY <1>1, <2>1
    <3> QED BY <1>1, <3>1, <3>2
  <2> QED BY <2>1
<1>5. Outside(B) = O \union I
  <2>1. ASSUME NEW x \in I PROVE x \in Outside(B)
    <3>1. x \in Int /\ b <= x /\ x < EndOf(b) BY <1>1
    <3>2. x \in HeapBytes BY <1>1, <3>1, Memory DEF HeapBytes
    <3>3. ASSUME NEW c \in B PROVE x < c \/ EndOf(c) <= x
      <4>1. c \in Blocks /\ c # b OBVIOUS
      <4>2. c \in Nat /\ EndOf(c) \in Nat BY <4>1, BlockFacts
      <4>3. ~(c < EndOf(b) /\ b < EndOf(c)) BY <4>1, Disjoint
      <4> QED BY <1>1, <3>1, <4>2, <4>3
    <3> QED BY <3>2, <3>3 DEF Outside
  <2>2. ASSUME NEW x \in Outside(B), x \notin I PROVE x \in O
    <3>1. x \in Int BY Memory DEF Outside, HeapBytes
    <3>2. x < b \/ EndOf(b) <= x BY <1>1, <2>2, <3>1
    <3> QED BY <3>2 DEF Outside
  <2>3. O \subseteq Outside(B) BY DEF Outside
  <2> QED BY <2>1, <2>2, <2>3
<1>6. Cardinality(O) \in Nat BY <1>3, FS_CardinalityType
<1>7. Cardinality(O \union I) = Cardinality(O) + Cardinality(I) - Cardinality({})
  BY <1>2, <1>3, <1>4, FS_Union
<1> HIDE DEF O, I
<1>8. Cardinality({}) = 0 BY FS_EmptySet
<1> QED BY <1>1, <1>2, <1>5, <1>6, <1>7, <1>8 DEF O

\* A block that has lost its mark is taken in hand to be inserted.
LEMMA FreeInsertStep == ASSUME HeapInv, NEW b \in marked, FreeInsert(b) PROVE HeapInv'
<1> USE DEF HeapInv
<1>1. /\ pc = "idle" /\ marked' = marked \ {b} /\ remaining' = remaining + size[b]
      /\ hand' = b /\ at' = ListStart /\ pc' = "insert"
      /\ UNCHANGED <<size, next, used, wanted, prev, block, keep>>
  BY DEF FreeInsert
<1>2. prev = NoBlock /\ block = NoBlock /\ hand = NoBlock /\ keep = NoBlock BY <1>1 DEF Calls
<1>3. /\ b \in Blocks /\ b \notin used /\ b \notin used' \union marked' /\ b # NoBlock
      /\ used \union marked = (used' \union marked') \union {b}
  BY <1>1, BlockFacts DEF HeapTypes
<1>4. NoBlock \notin Blocks BY BlockFacts
<1>5. Free' = Free BY <1>1, <1>2, <1>3, <1>4 DEF Free, Blocks
<1>6. Blocks' = Blocks /\ Tiled' /\ Linked' /\ Apart' BY <1>1, <1>5, ListKept
<1>7. remaining' \in Nat /\ size[b] \in Nat BY <1>1, <1>3, BlockFacts DEF HeapTypes
<1>8. HeapTypes' BY <1>1, <1>2, <1>3, <1>5, <1>6, <1>7 DEF HeapTypes
<1>9. BytesCounted'
  <2> DEFINE B == used' \union marked'
  <2>1. B \in SUBSET Blocks BY <1>1 DEF HeapTypes
  <2>2. Cardinality(Outside(B)) = Cardinality(Outside(B \union {b})) + size[b]
    BY <1>3, <2>1, BlockTakes
  <2>3. Unowned' = Outside(B) BY <1>1 DEF Unowned, Outside, EndOf, HeapBytes
  <2>4. Unowned = Outside(B \union {b}) BY <1>3 DEF Unowned
  <2> QED BY <1>1, <2>2, <2>3, <2>4 DEF BytesCounted
<1>10. Calls'
  <2>1. ListStart < b /\ ListStart # NoBlock /\ b # NoBlock
    BY <1>3, BlockFacts, Memory DEF ListStart, NoBlock
  <2> QED BY <1>1, <1>2, <2>1 DEF Calls
<1> QED BY <1>6, <1>8, <1>9, <1>10

\* The block found is given out.
LEMMA GiveStep == ASSUME HeapInv, Give PROVE HeapInv'
<1> USE DEF HeapInv
<1>1. /\ pc = "give" /\ remaining' = remaining - size[keep] /\ used' = used \union {keep}
      /\ keep' = NoBlock /\ pc' = "idle"
      /\ UNCHANGED <<size, next, marked, wanted, prev, block, hand, at>>
  BY DEF Give
<1>2. prev = NoBlock /\ block = NoBlock /\ hand = NoBlock /\ at = NoBlock /\ keep # NoBlock
  BY <1>1 DEF Calls
<1>3. /\ keep \in Blocks /\ keep \notin used \union marked
      /\ used' \union marked' = (used \union marked) \union {keep}
  BY <1>1, <1>2 DEF HeapTypes
<1>4. NoBlock \notin Blocks BY BlockFacts
<1>5. Free' = Free BY <1>1, <1>2, <1>3, <1>4 DEF Free, Blocks
<1>6. Blocks' = Blocks /\ Tiled' /\ Linked' /\ Apart' BY <1>1, <1>5, ListKept
<1>7. Cardinality(Outside(used \union marked)) =
          Cardinality(Outside((used \union marked) \union {keep})) + size[keep]
  <2>1. used \union marked \in SUBSET Blocks BY DEF HeapTypes
  <2> QED BY <1>3, <2>1, BlockTakes
<1>8. Unowned' = Outside((used \union marked) \union {keep})
  BY <1>1, <1>3 DEF Unowned, Outside, EndOf, HeapBytes
<1>9. Cardinality(Unowned') \in Nat /\ size[keep] \in Nat
  <2>1. IsFiniteSet(Unowned) BY FreeBytes
  <2>2. Unowned' \subseteq Unowned BY <1>8 DEF Unowned, Outside
  <2>3. size[keep] \in Nat BY <1>3, BlockFacts
  <2> QED BY <2>1, <2>2, <2>3, FS_Subset, FS_CardinalityType
<1>10. remaining' = Cardinality(Unowned') BY <1>1, <1>7, <1>8, <1>9 DEF BytesCounted, Unowned
<1>11. HeapTypes' BY <1>1, <1>2, <1>3, <1>5, <1>6, <1>9, <1>10 DEF HeapTypes
<1>12. Calls' BY <1>1, <1>2 DEF Calls
<1> QED BY <1>6, <1>10, <1>11, <1>12 DEF BytesCounted

----------------------------------------------------------------------------
(* The steps that change the list.                                         *)

\* What the search knows of the block it ends with.
LEMMA Found ==
    ASSUME HeapInv, Fits
    PROVE  /\ block \in Free /\ IsNext(prev, block) /\ prev \in Free \union {ListStart}
           /\ Needed \in Nat /\ Needed > 0 /\ Needed % Align = 0 /\ Needed <= size[block]
           /\ hand = NoBlock /\ at = NoBlock /\ keep = NoBlock
<1> USE DEF HeapInv
<1>1. /\ pc = "search" /\ block # End /\ (size[block] < Needed => next[block] = NoBlock)
  BY DEF Fits, TooSmall
<1>2. /\ prev \in Free \union {ListStart} /\ block = next[prev]
      /\ hand = NoBlock /\ at = NoBlock /\ keep = NoBlock /\ Needed > 0
  BY <1>1 DEF Calls, HeapTypes
<1>3. IsNext(prev, block) BY <1>2 DEF Linked
<1>4. block \in Free BY <1>1, <1>3 DEF IsNext
<1>5. IsNext(block, next[block]) BY <1>4 DEF Linked
<1>6. next[block] # NoBlock BY <1>5, BlockFacts, Memory DEF IsNext, NoBlock
<1>7. Needed \in Nat /\ Needed % Align = 0 BY Demanded DEF Needed, HeapTypes
<1>8. size[block] \in Nat BY <1>4, BlockFacts
<1> QED BY <1>1, <1>2, <1>3, <1>4, <1>6, <1>7, <1>8

\* The list without its block is a list of the free blocks that are left.
LEMMA Unlinked ==
    ASSUME HeapTypes, Linked, NEW a \in Free \union {ListStart}, NEW b \in Free, b = next[a],
           Free' = Free \ {b},
           next' = [next EXCEPT ![a] = next[b], ![b] = NoBlock]
    PROVE  Linked'
<1>1. IsNext(a, b) /\ IsNext(b, next[b]) BY DEF Linked
<1>2. \A c \in Free \union {ListStart} : /\ c \in Int /\ (c # ListStart => ListStart < c)
                                     /\ c \in Address \union {ListStart}
  BY BlockFacts DEF ListStart
<1>3. End \in Int /\ End \notin Free BY BlockFacts, Memory
<1>4. next'[a] = next[b] BY <1>1, <1>2 DEF IsNext, HeapTypes
<1>5. ASSUME NEW c \in Free' \union {ListStart} PROVE IsNext(c, next[c])'
  <2>1. c \in Free \union {ListStart} /\ c # b BY BlockFacts
  <2>2. CASE c = a
    <3>1. next[b] \in Free' \union {End} BY <1>1, <1>2, <1>3 DEF IsNext
    <3>2. a < next[b] BY <1>1, <1>2, <1>3 DEF IsNext
    <3>3. \A d \in Free' : a < d => next[b] <= d BY <1>1, <1>2, <1>3 DEF IsNext
    <3> QED BY <1>4, <2>2, <3>1, <3>2, <3>3 DEF IsNext
  <2>3. CASE c # a
    <3>1. next'[c] = next[c] BY <1>2, <2>1, <2>3 DEF HeapTypes
    <3>2. IsNext(c, next[c]) BY <2>1 DEF Linked
    <3>3. next[c] # b
      <4>1. c < a \/ a < c BY <1>2, <2>1, <2>3
      <4>2. CASE c < a
        <5>1. a \in Free BY <1>2, <2>1, <4>2
        <5> QED BY <1>1, <1>2, <3>2, <4>2, <5>1 DEF IsNext
      <4>3. CASE a < c
        <5>1. c \in Free BY <1>2, <2>1, <4>3
        <5> QED BY <1>1, <1>2, <2>1, <3>2, <4>3, <5>1 DEF IsNext
      <4> QED BY <4>1, <4>2, <4>3
    <3>4. next'[c] \in Free' \union {End} BY <3>1, <3>2, <3>3 DEF IsNext
    <3>5. c < next'[c] /\ \A d \in Free' : c < d => next'[c] <= d
      BY <3>1, <3>2 DEF IsNext
    <3> QED BY <3>4, <3>5 DEF IsNext
  <2> QED BY <2>2, <2>3
<1> QED BY <1>5 DEF Linked

\* The block found leaves the list; what is left of it becomes a block of its own.
LEMMA FitsStep == ASSUME HeapInv, Fits PROVE HeapInv'
<1> USE DEF HeapInv
<1>1. /\ block \in Free /\ IsNext(prev, block) /\ prev \in Free \union {ListStart}
      /\ Needed \in Nat /\ Needed > 0 /\ Needed % Align = 0 /\ Needed <= size[block]
      /\ hand = NoBlock /\ at = NoBlock /\ keep = NoBlock /\ block = next[prev]
  BY Found DEF Fits, Calls
<1>2. PICK b \in Free : b = block BY <1>1
<1>3. PICK p \in Free \union {ListStart} : p = prev BY <1>1
<1>4. PICK n \in Nat : n = Needed BY <1>1
<1>5. /\ n > 0 /\ n % Align = 0 /\ n <= size[b] /\ b = next[p] BY <1>1, <1>2, <1>3, <1>4
<1>6. /\ keep' = b /\ prev' = NoBlock /\ block' = NoBlock
      /\ next' = [next EXCEPT ![p] = next[b], ![b] = NoBlock]
      /\ UNCHANGED <<used, marked, remaining, wanted>>
      /\ IF size[b] - n > MinimumBlock
         THEN /\ size' = [size EXCEPT ![b] = n, ![b + n] = size[b] - n]
              /\ hand' = b + n /\ at' = ListStart /\ pc' = "insert"
         ELSE UNCHANGED <<size, hand, at>> /\ pc' = "give"
  BY <1>2, <1>3, <1>4 DEF Fits
<1>7. /\ Free = Blocks \ (used \union marked) /\ b \in Blocks /\ NoBlock \notin Blocks
      /\ used \subseteq Blocks /\ marked \subseteq Blocks
      /\ b \notin used \union marked /\ b \notin {NoBlock, ListStart}
  BY <1>1, <1>2, BlockFacts DEF HeapTypes
<1>8. /\ b \in Nat /\ First <= b /\ size[b] \in Nat /\ b \in Address
      /\ EndOf(b) = b + size[b] /\ EndOf(b) <= End /\ b < End
  BY <1>7, BlockFacts, Disjoint DEF EndOf
<1>9. Needed' = n BY <1>4, <1>6 DEF Needed, Demand
<1>10. next' \in [Address \union {ListStart} -> Address \union {NoBlock}] /\ next'[End] = NoBlock
  <2>1. next[b] \in Address \union {NoBlock} BY <1>8 DEF HeapTypes
  <2>2. p # End BY BlockFacts, Memory DEF ListStart
  <2>3. b # End BY <1>8, Memory
  <2>4. End \in Address \union {ListStart} BY Memory
  <2> QED BY <1>6, <2>1, <2>2, <2>3, <2>4 DEF HeapTypes
<1>11. CASE size[b] - n > MinimumBlock
  <2>1. PICK r : r = b + n OBVIOUS
  <2>2. /\ size' = [size EXCEPT ![b] = n, ![r] = size[b] - n]
        /\ hand' = r /\ at' = ListStart /\ pc' = "insert"
    BY <1>6, <1>11, <2>1
  <2>3. MinimumBlock > 0 /\ MinimumBlock \in Nat BY HeapConstants DEF MinimumBlock
  <2>4. r \in Nat /\ b < r /\ r < EndOf(b) /\ r < End /\ r # b
    BY <1>5, <1>8, <1>11, <2>1, <2>3, Memory
  <2>5. r \in Address /\ r # NoBlock BY <1>8, <2>4, Memory DEF Address, NoBlock
  <2>6. r \notin Blocks
    <3>1. \A c \in Blocks : b < c => EndOf(b) <= c BY <1>7 DEF Tiled
    <3>2. EndOf(b) \in Nat BY <1>8
    <3> QED BY <2>4, <3>1, <3>2
  <2>7. size[b] - n > 0 /\ size[b] - n \in Nat BY <1>8, <1>11, <2>3
  <2>8. /\ size' \in [Address -> Nat] /\ size'[b] = n /\ size'[r] = size[b] - n
        /\ \A c \in Address \ {b, r} : size'[c] = size[c]
    BY <1>8, <2>2, <2>4, <2>5, <2>7 DEF HeapTypes
  <2>9. size'[r] > 0 /\ size'[b] > 0 BY <1>5, <2>7, <2>8
  <2>10. size[b] > 0 BY <1>7, BlockFacts
  <2>11. Blocks' = Blocks \union {r} BY <1>8, <2>5, <2>8, <2>9, <2>10 DEF Blocks
  <2>12. Free' = Free \ {b}
    <3>1. Free' = Blocks' \ (used' \union marked' \union {hand', keep'})
      BY DEF Free, Blocks
    <3> QED BY <1>6, <1>7, <2>2, <2>6, <2>11, <3>1
  <2>13. /\ EndOf(b)' = r /\ EndOf(r)' = EndOf(b)
         /\ \A c \in Blocks \ {b} : EndOf(c)' = EndOf(c)
    <3>1. EndOf(b)' = b + size'[b] /\ EndOf(r)' = r + size'[r] BY DEF EndOf
    <3>2. r + (size[b] - n) = b + size[b] BY <1>8, <2>1, <2>4
    <3>3. \A c \in Blocks \ {b} : c \in Address \ {b, r} BY <2>6, BlockFacts
    <3>4. \A c \in Blocks \ {b} : EndOf(c)' = c + size'[c] /\ EndOf(c) = c + size[c]
      BY DEF EndOf
    <3> QED BY <1>8, <2>1, <2>8, <3>1, <3>2, <3>3, <3>4
  <2>14. \A c \in Blocks : c \in Nat /\ EndOf(c) \in Nat /\ c < EndOf(c) BY BlockFacts
  <2>15. Tiled'
    <3>1. First \in Blocks' BY <2>11 DEF Tiled
    <3>2. r % Align = 0
      <4>1. b % Align = 0 BY <1>7 DEF Tiled
      <4> QED BY <1>5, <1>8, <2>1, <4>1, AlignedSum
    <3>3. \A c \in Blocks' : c % Align = 0 /\ EndOf(c)' \in Blocks' \union {End}
      BY <1>7, <2>11, <2>13, <3>2 DEF Tiled
    <3>4. \A a \in Blocks : b < a => EndOf(b) <= a BY <1>7 DEF Tiled
    <3>5. \A a, c \in Blocks' : a < c => EndOf(a)' <= c
      <4> TAKE a, c \in Blocks'
      <4>1. a \in Blocks /\ c \in Blocks /\ a < c => EndOf(a) <= c BY DEF Tiled
      <4>2. b \in Blocks /\ c \in Blocks /\ b < c => EndOf(b) <= c BY DEF Tiled
      <4>3. b \in Blocks /\ a \in Blocks /\ a < b => EndOf(a) <= b BY DEF Tiled
      <4>4. a \in Blocks \union {r} /\ c \in Blocks \union {r} BY <2>11
      <4>5. \A d \in Blocks : d < b \/ d = b \/ b < d BY <1>8, <2>14
      <4>6. CASE a = r BY <1>7, <1>8, <2>4, <2>6, <2>13, <2>14, <4>2, <4>4, <4>6
      <4>7. CASE a = b BY <1>7, <1>8, <2>4, <2>13, <2>14, <4>2, <4>4, <4>7
      <4>8. CASE a \in Blocks \ {b} /\ c = r
        BY <1>7, <1>8, <2>4, <2>13, <2>14, <4>3, <4>5, <4>8, <3>4
      <4>9. CASE a \in Blocks \ {b} /\ c \in Blocks BY <2>13, <4>1, <4>9
      <4> QED BY <4>4, <4>6, <4>7, <4>8, <4>9
    <3>6. ASSUME NEW x \in HeapBytes PROVE \E c \in Blocks' : c <= x /\ x < EndOf(c)'
      <4>1. PICK c \in Blocks : c <= x /\ x < EndOf(c) BY DEF Tiled
      <4>2. x \in Int BY Memory DEF HeapBytes
      <4>3. CASE c # b BY <2>11, <2>13, <4>1, <4>3
      <4>4. CASE c = b BY <2>4, <2>11, <2>13, <4>1, <4>2, <4>4
      <4> QED BY <4>3, <4>4
    <3> QED BY <3>1, <3>3, <3>5, <3>6 DEF Tiled, HeapBytes
  <2>16. Linked' BY <1>5, <1>6, <2>12, Unlinked
  <2>17. Apart'
    <3>1. \A c \in Free' : EndOf(c)' = EndOf(c) BY <1>7, <2>12, <2>13
    <3> QED BY <2>12, <3>1 DEF Apart
  <2>18. HeapTypes'
    <3>1. size'[End] = 0 BY <1>8, <2>4, <2>8, Memory DEF HeapTypes
    <3> QED BY <1>6, <1>7, <1>10, <2>2, <2>4, <2>6, <2>8, <2>11, <3>1 DEF HeapTypes
  <2>19. Calls'
    <3>1. ListStart < r /\ ListStart # NoBlock BY <2>4 DEF ListStart, NoBlock
    <3>2. size'[b] >= n BY <2>8
    <3> QED BY <1>5, <1>6, <1>9, <2>2, <2>5, <3>1, <3>2 DEF Calls
  <2>20. BytesCounted'
    <3>1. \A c \in used \union marked : size'[c] = size[c]
      BY <1>7, <2>6, <2>8, BlockFacts
    <3> QED BY <1>6, <3>1, CountKept
  <2> QED BY <2>15, <2>16, <2>17, <2>18, <2>19, <2>20
<1>12. CASE ~(size[b] - n > MinimumBlock)
  <2>1. size' = size /\ hand' = NoBlock /\ at' = NoBlock /\ pc' = "give" BY <1>1, <1>6, <1>12
  <2>2. Blocks' = Blocks BY <2>1 DEF Blocks
  <2>3. Free' = Free \ {b}
    <3>1. Free' = Blocks' \ (used' \union marked' \union {hand', keep'})
      BY DEF Free, Blocks
    <3> QED BY <1>6, <1>7, <2>1, <2>2, <3>1
  <2>4. Tiled' BY <2>1, <2>2 DEF Tiled, EndOf
  <2>5. Linked' BY <1>5, <1>6, <2>3, Unlinked
  <2>6. Apart' BY <2>1, <2>3 DEF Apart, EndOf
  <2>7. HeapTypes' BY <1>6, <1>7, <1>10, <2>1, <2>2 DEF HeapTypes
  <2>8. Calls'
    <3>1. size'[b] >= n BY <1>5, <1>8, <2>1
    <3> QED BY <1>5, <1>6, <1>7, <1>9, <2>1, <3>1 DEF Calls
  <2>9. BytesCounted' BY <1>6, <2>1, CountKept
  <2> QED BY <2>4, <2>5, <2>6, <2>7, <2>8, <2>9
<1> QED BY <1>11, <1>12

\* The block in hand lies between two neighbours of the list, and where it
\* touches one they become one block: with a in front, c behind it, j is the
\* block they are then, z its end and gone the headers that are no more.
Merges(a, h, c, j, z, gone) ==
    /\ a \in Free \union {ListStart} /\ h \in Blocks \ Free /\ c = next[a]
    /\ c \in Free \union {End} /\ a < h /\ h < c /\ EndOf(h) <= c
    /\ a # ListStart => EndOf(a) <= h
    /\ \A b \in Free : a < b => c <= b
    /\ h \notin used \union marked \union {keep}
    /\ \/ j = h /\ (a = ListStart \/ EndOf(a) # h) /\ h \notin gone
       \/ j = a /\ a # ListStart /\ EndOf(a) = h /\ h \in gone
    /\ \/ z = EndOf(h) /\ (c = End \/ EndOf(h) # c) /\ c \notin gone
       \/ z = EndOf(c) /\ c # End /\ EndOf(h) = c /\ c \in gone
    /\ gone \subseteq {h, c}
    /\ Blocks' = Blocks \ gone
    /\ Free' = (Free \union {j}) \ gone
    /\ EndOf(j)' = z /\ \A b \in Blocks' \ {j} : size'[b] = size[b] /\ EndOf(b)' = EndOf(b)
    /\ next'[j] = IF c \in gone THEN next[c] ELSE c
    /\ a # j => next'[a] = j
    /\ \A b \in (Free \union {ListStart}) \ ({a, j} \union gone) : next'[b] = next[b]

\* The insertion of a block is one of the merges above, and keeps the types.
LEMMA LinkMerges ==
    ASSUME HeapInv, Link
    PROVE  /\ \E a, h, c, j, z, gone : Merges(a, h, c, j, z, gone)
           /\ size' \in [Address -> Nat] /\ size'[End] = 0
           /\ next' \in [Address \union {ListStart} -> Address \union {NoBlock}] /\ next'[End] = NoBlock
<1> USE DEF HeapInv
<1>1. /\ pc = "insert" /\ next[at] >= hand
      /\ UNCHANGED <<used, marked, keep>> /\ hand' = NoBlock
  BY DEF Link
<1>2. PICK a \in Free \union {ListStart} : a = at BY <1>1 DEF HeapTypes, Calls
<1>3. PICK h \in Blocks : h = hand BY <1>1 DEF HeapTypes, Calls
<1>4. IsNext(a, next[a]) /\ a < h BY <1>1, <1>2, <1>3 DEF Linked, Calls
<1>5. PICK c \in Free \union {End} : c = next[a] BY <1>4 DEF IsNext
<1>6. /\ Free = Blocks \ (used \union marked \union {hand, keep})
      /\ h \notin used \union marked \union {keep} /\ h \notin Free
      /\ NoBlock \notin Blocks /\ ListStart \notin Blocks /\ End \notin Blocks
  BY <1>3, BlockFacts DEF HeapTypes
<1>7. \A b \in Blocks : /\ b \in Nat /\ b \in Address /\ b < End /\ size[b] \in Nat /\ size[b] > 0
                        /\ EndOf(b) = b + size[b] /\ EndOf(b) \in Nat /\ EndOf(b) <= End
  BY BlockFacts, Disjoint DEF EndOf
<1>8. h < c
  <2>1. c # h BY <1>3, <1>6
  <2>2. c >= h BY <1>1, <1>2, <1>3, <1>5
  <2>3. c \in Nat BY <1>6, <1>7, Memory
  <2> QED BY <1>7, <2>1, <2>2, <2>3
<1>9. EndOf(h) <= c BY <1>6, <1>7, <1>8 DEF Tiled
<1>10. a # ListStart => EndOf(a) <= h BY <1>4, <1>6 DEF Tiled
<1>11. PICK f \in BOOLEAN : f <=> JoinsFront OBVIOUS
<1>12. f <=> a # ListStart /\ EndOf(a) = h BY <1>2, <1>3, <1>11 DEF JoinsFront, EndOf
<1>13. PICK j : j = IF f THEN a ELSE h OBVIOUS
<1>14. PICK s : s = IF f THEN size[a] + size[h] ELSE size[h] OBVIOUS
<1>15. j = Joined /\ s = JoinedSize
  BY <1>2, <1>3, <1>11, <1>13, <1>14 DEF Joined, JoinedSize
<1>16. j \in Blocks /\ s \in Nat /\ s > 0 /\ j + s = EndOf(h)
  BY <1>3, <1>6, <1>7, <1>12, <1>13, <1>14
<1>17. PICK g \in BOOLEAN : g <=> JoinsBack OBVIOUS
<1>18. g <=> EndOf(h) = c /\ c # End BY <1>2, <1>5, <1>15, <1>16, <1>17 DEF JoinsBack
<1> DEFINE gone == (IF f THEN {h} ELSE {}) \union (IF g THEN {c} ELSE {})
           z == IF g THEN EndOf(c) ELSE EndOf(h)
<1>19. /\ size' = [x \in Address |->
                IF x = j THEN s + (IF g THEN size[c] ELSE 0)
                ELSE IF x = h \/ (g /\ x = c) THEN 0 ELSE size[x]]
       /\ next' = [x \in Address \union {ListStart} |->
                IF x = j THEN IF g THEN next[c] ELSE c
                ELSE IF x = a THEN j
                ELSE IF g /\ x = c THEN NoBlock ELSE next[x]]
  BY <1>2, <1>3, <1>5, <1>15, <1>17 DEF Link
<1>20. g => c \in Blocks BY <1>6, <1>18
<1>21. j # c /\ h # c /\ j \in Address
  <2>1. a \in Int /\ h \in Int /\ c \in Int BY <1>6, <1>7, Memory DEF ListStart
  <2>2. a # c /\ h # c BY <1>4, <1>8, <2>1
  <2> QED BY <1>7, <1>13, <1>16, <2>2
<1>22. /\ size'[j] \in Nat /\ size'[j] > 0 /\ j + size'[j] = z
       /\ \A b \in gone : b \in Blocks /\ size'[b] = 0
       /\ \A b \in Address \ ({j} \union gone) : size'[b] = size[b]
  <2>1. size'[j] = s + (IF g THEN size[c] ELSE 0) BY <1>19, <1>21
  <2>2. g => size[c] \in Nat /\ EndOf(c) = c + size[c] /\ c \in Nat BY <1>7, <1>20
  <2>3. j \in Nat BY <1>7, <1>16
  <2>4. j + size'[j] = z BY <1>16, <1>18, <2>1, <2>2, <2>3
  <2>5. ASSUME NEW b \in gone PROVE b \in Blocks /\ size'[b] = 0
    <3>1. b # j /\ b \in Blocks BY <1>13, <1>20, <1>21, <1>4, <1>7
    <3>2. b = h \/ (g /\ b = c) OBVIOUS
    <3> QED BY <1>7, <1>19, <3>1, <3>2
  <2>6. \A b \in Address \ ({j} \union gone) : size'[b] = size[b]
    <3> TAKE b \in Address \ ({j} \union gone)
    <3>1. b # j /\ ~(g /\ b = c) /\ (f => b # h) /\ b # h BY <1>13
    <3> QED BY <1>19, <3>1
  <2> HIDE DEF z, gone
  <2> QED BY <1>16, <2>1, <2>2, <2>4, <2>5, <2>6
<1>23. Blocks' = Blocks \ gone BY <1>7, <1>16, <1>22 DEF Blocks
<1>24. Free' = (Free \union {j}) \ gone
  <2>1. Free' = Blocks' \ (used' \union marked' \union {hand', keep'})
    BY DEF Free, Blocks
  <2>2. j \notin used \union marked \union {keep} BY <1>2, <1>6, <1>12, <1>13
  <2>3. f => h \in gone BY DEF gone
  <2>4. ~f => j = h BY <1>13
  <2> HIDE DEF gone
  <2> QED BY <1>1, <1>3, <1>6, <1>16, <1>23, <2>1, <2>2, <2>3, <2>4
<1>25. Merges(a, h, c, j, z, gone)
  <2>1. EndOf(j)' = z BY <1>22 DEF EndOf
  <2>2. \A b \in Blocks' \ {j} : size'[b] = size[b] /\ EndOf(b)' = EndOf(b)
    BY <1>7, <1>22, <1>23 DEF EndOf
  <2>3. next'[j] = IF c \in gone THEN next[c] ELSE c BY <1>7, <1>16, <1>19, <1>21
  <2>4. a # j => next'[a] = j BY <1>6, <1>7, <1>19
  <2>5. \A b \in (Free \union {ListStart}) \ ({a, j} \union gone) : next'[b] = next[b]
    BY <1>6, <1>7, <1>19
  <2>6. \A b \in Free : a < b => c <= b BY <1>4, <1>5 DEF IsNext
  <2>7. j = h \/ j = a BY <1>13
  <2>8. \/ j = h /\ (a = ListStart \/ EndOf(a) # h) /\ h \notin gone
        \/ j = a /\ a # ListStart /\ EndOf(a) = h /\ h \in gone
    BY <1>12, <1>13, <1>21
  <2>9. \/ z = EndOf(h) /\ (c = End \/ EndOf(h) # c) /\ c \notin gone
        \/ z = EndOf(c) /\ c # End /\ EndOf(h) = c /\ c \in gone
    BY <1>18, <1>21
  <2>10. gone \subseteq {h, c} OBVIOUS
  <2> HIDE DEF gone, z
  <2> QED BY <1>4, <1>5, <1>6, <1>8, <1>9, <1>10, <1>23, <1>24, <2>1, <2>2, <2>3, <2>4,
             <2>5, <2>6, <2>8, <2>9, <2>10 DEF Merges
<1>26. size' \in [Address -> Nat]
  <2>1. \A x \in Address : size[x] \in Nat BY DEF HeapTypes
  <2>2. \A x \in Address : size'[x] \in Nat
    <3> TAKE x \in Address
    <3>1. CASE x = j \/ x \in gone BY <1>22, <3>1
    <3>2. CASE x \notin {j} \union gone BY <1>22, <2>1, <3>2
    <3> HIDE DEF gone
    <3> QED BY <3>1, <3>2
  <2> QED BY <1>19, <2>2
<1>27. next' \in [Address \union {ListStart} -> Address \union {NoBlock}]
  <2>1. \A x \in Address \union {ListStart} : next[x] \in Address \union {NoBlock}
    BY DEF HeapTypes
  <2>2. c \in Address BY <1>6, <1>7, Memory
  <2>3. \A x \in Address \union {ListStart} : next'[x] \in Address \union {NoBlock}
    BY <1>19, <1>21, <2>1, <2>2
  <2> QED BY <1>19, <2>3
<1>28. size'[End] = 0 /\ next'[End] = NoBlock
  <2>1. End # j /\ End # h /\ End # a /\ End \in Address /\ ~(g /\ c = End)
    BY <1>3, <1>6, <1>16, <1>18, Memory DEF ListStart
  <2> QED BY <1>19, <2>1 DEF HeapTypes
<1> HIDE DEF gone, z
<1> QED BY <1>25, <1>26, <1>27, <1>28

\* What a merge says of the blocks, the list and the free neighbours in a form
\* that the three steps below share.
LEMMA MergeFacts ==
    ASSUME HeapTypes, Tiled, Linked, Apart,
           NEW a, NEW h, NEW c, NEW j, NEW z, NEW gone, Merges(a, h, c, j, z, gone)
    PROVE  /\ \A b \in Blocks : /\ b \in Nat /\ EndOf(b) \in Nat /\ b < EndOf(b)
                                /\ b < End /\ EndOf(b) <= End
           /\ a \in Int /\ h \in Nat /\ c \in Nat /\ j \in Blocks \ gone /\ End \in Nat
           /\ z \in Nat /\ EndOf(h) <= z /\ j < z /\ j <= h /\ z <= End
           /\ c \in Blocks \union {End} /\ gone \subseteq Blocks /\ End \notin Blocks
           /\ Free \subseteq Blocks /\ ListStart \notin Blocks /\ h \notin Free
           /\ a # ListStart => a \in Blocks /\ a \in Free
           /\ a = ListStart => \A b \in Free : a < b
<1> USE DEF Merges
<1>1. \A b \in Blocks : /\ b \in Nat /\ EndOf(b) \in Nat /\ b < EndOf(b)
                        /\ b < End /\ EndOf(b) <= End
  BY BlockFacts, Disjoint
<1>2. Free \subseteq Blocks /\ ListStart \notin Blocks /\ End \notin Blocks /\ End \in Nat
  BY BlockFacts, Memory
<1>3. a \in Int /\ h \in Nat /\ c \in Nat /\ h \in Blocks BY <1>1, <1>2 DEF ListStart
<1>4. a # c /\ h # c BY <1>3
<1>5. j \in Blocks \ gone /\ j <= h BY <1>1, <1>2, <1>3, <1>4
<1>6. c \in gone => c \in Blocks BY <1>2
<1>7. z \in Nat /\ EndOf(h) <= z /\ z <= End BY <1>1, <1>2, <1>3
<1>8. j < z BY <1>1, <1>3, <1>5, <1>7
<1>9. a = ListStart => \A b \in Free : a < b BY <1>1, <1>2 DEF ListStart
<1> QED BY <1>1, <1>2, <1>3, <1>5, <1>6, <1>7, <1>8, <1>9

\* Merged blocks tile the memory as the blocks they are made of did.
LEMMA MergeTiles ==
    ASSUME HeapTypes, Tiled, Linked, Apart,
           NEW a, NEW h, NEW c, NEW j, NEW z, NEW gone, Merges(a, h, c, j, z, gone)
    PROVE  Tiled'
<1>1. /\ \A b \in Blocks : /\ b \in Nat /\ EndOf(b) \in Nat /\ b < EndOf(b)
                           /\ b < End /\ EndOf(b) <= End
      /\ a \in Int /\ h \in Nat /\ c \in Nat /\ j \in Blocks \ gone /\ End \in Nat
      /\ z \in Nat /\ EndOf(h) <= z /\ j < z /\ j <= h /\ z <= End
      /\ c \in Blocks \union {End} /\ gone \subseteq Blocks /\ End \notin Blocks
      /\ Free \subseteq Blocks /\ ListStart \notin Blocks /\ h \notin Free
      /\ a # ListStart => a \in Blocks /\ a \in Free
  BY MergeFacts
<1>2. /\ Blocks' = Blocks \ gone /\ h \in Blocks /\ h < c
      /\ EndOf(j)' = z /\ \A b \in Blocks' \ {j} : EndOf(b)' = EndOf(b)
      /\ \/ j = h /\ h \notin gone
         \/ j = a /\ EndOf(a) = h /\ h \in gone /\ a \in Blocks
      /\ \/ z = EndOf(h) /\ c \notin gone
         \/ z = EndOf(c) /\ EndOf(h) = c /\ c \in gone
      /\ gone \subseteq {h, c}
  BY <1>1 DEF Merges
<1>3. \A b \in Blocks : b % Align = 0 /\ EndOf(b) \in Blocks \union {End} BY DEF Tiled
<1>4. \A b, d \in Blocks : b < d => EndOf(b) <= d BY DEF Tiled
<1>5. First \in Blocks' 
  <2>1. First \in Blocks /\ First \in Nat BY Memory DEF Tiled
  <2>2. \A b \in Blocks : First <= b BY BlockFacts
  <2>3. \A b \in gone : j < b BY <1>1, <1>2
  <2> QED BY <1>1, <1>2, <2>1, <2>2, <2>3
<1>6. \A b \in Blocks \ gone : b # j => EndOf(b) \notin gone
  <2>1. \A b, d \in Blocks : b # d => EndOf(b) # EndOf(d) BY Disjoint
  <2> QED BY <1>1, <1>2, <2>1
<1>7. z \in (Blocks \ gone) \union {End}
  <2>1. CASE c \notin gone
    <3>1. EndOf(h) \notin gone BY <1>1, <1>2, <2>1
    <3> QED BY <1>2, <1>3, <2>1, <3>1
  <2>2. CASE c \in gone
    <3>1. EndOf(c) \notin gone BY <1>1, <1>2, <2>2
    <3> QED BY <1>1, <1>2, <1>3, <2>2, <3>1
  <2> QED BY <2>1, <2>2
<1>8. \A b \in Blocks' : b % Align = 0 /\ EndOf(b)' \in Blocks' \union {End}
  BY <1>2, <1>3, <1>6, <1>7
<1>9. ASSUME NEW b \in Blocks', NEW d \in Blocks', b < d PROVE EndOf(b)' <= d
  <2>1. CASE b # j BY <1>2, <1>4, <1>9, <2>1
  <2>2. CASE b = j
    <3>1. d \in Blocks /\ d \notin gone /\ d # h BY <1>1, <1>2, <1>9, <2>2
    <3>2. h < d BY <1>1, <1>2, <1>4, <1>9, <2>2, <3>1
    <3>3. EndOf(h) <= d BY <1>2, <1>4, <3>1, <3>2
    <3>4. CASE c \notin gone BY <1>2, <2>2, <3>3, <3>4
    <3>5. CASE c \in gone
      <4>1. c \in Blocks /\ c # d /\ c <= d /\ d \in Nat BY <1>1, <1>2, <3>1, <3>3, <3>5
      <4>2. EndOf(c) <= d BY <1>1, <1>4, <3>1, <4>1
      <4> QED BY <1>2, <2>2, <3>5, <4>2
    <3> QED BY <3>4, <3>5
  <2> QED BY <2>1, <2>2
<1>10. ASSUME NEW x \in HeapBytes PROVE \E b \in Blocks' : b <= x /\ x < EndOf(b)'
  <2>1. PICK d \in Blocks : d <= x /\ x < EndOf(d) BY DEF Tiled
  <2>2. x \in Int BY Memory DEF HeapBytes
  <2>3. CASE d \in Blocks' \ {j} BY <1>2, <2>1, <2>3
  <2>4. CASE d \in gone \union {j}
    <3>1. j <= x /\ x < z
      <4>1. CASE d = h BY <1>1, <1>2, <2>1, <2>2, <4>1
      <4>2. CASE d = c BY <1>1, <1>2, <2>1, <2>2, <2>4, <4>2
      <4>3. CASE d = a /\ j = a BY <1>1, <1>2, <2>1, <2>2, <4>3
      <4> QED BY <1>2, <2>4, <4>1, <4>2, <4>3
    <3> QED BY <1>1, <1>2, <3>1
  <2> QED BY <1>2, <2>3, <2>4
<1> QED BY <1>5, <1>8, <1>9, <1>10 DEF Tiled, HeapBytes

\* The merged block stands in the list where its parts did.
LEMMA MergeLinks ==
    ASSUME HeapTypes, Tiled, Linked, Apart,
           NEW a, NEW h, NEW c, NEW j, NEW z, NEW gone, Merges(a, h, c, j, z, gone)
    PROVE  Linked'
<1>1. /\ \A b \in Blocks : b \in Nat
      /\ a \in Int /\ h \in Nat /\ c \in Nat /\ j \in Blocks \ gone /\ End \in Nat /\ j <= h
      /\ End \notin Blocks /\ Free \subseteq Blocks /\ ListStart \notin Blocks
      /\ a # ListStart => a \in Free
      /\ a = ListStart => \A b \in Free : a < b
  BY MergeFacts
<1>2. /\ a \in Free \union {ListStart} /\ c = next[a] /\ c \in Free \union {End} /\ a < h /\ h < c
      /\ \A b \in Free : a < b => c <= b
      /\ \/ j = h /\ h \notin gone
         \/ j = a /\ a # ListStart /\ h \in gone
      /\ gone \subseteq {h, c} /\ h \notin Free /\ (c \in gone => c \in Free)
      /\ Free' = (Free \union {j}) \ gone
      /\ next'[j] = IF c \in gone THEN next[c] ELSE c
      /\ a # j => next'[a] = j
      /\ \A b \in (Free \union {ListStart}) \ ({a, j} \union gone) : next'[b] = next[b]
  BY <1>1 DEF Merges
<1>3. \A b \in Free \union {ListStart} :
          next[b] \in Free \union {End} /\ b < next[b] /\ \A d \in Free : b < d => next[b] <= d
  BY DEF Linked, IsNext
<1>4. \A b \in Free' \union {ListStart} : b \in Int BY <1>1, <1>2 DEF ListStart
<1>5. ASSUME NEW b \in Free' \union {ListStart} PROVE IsNext(b, next[b])'
  <2>1. CASE b = j
    <3>1. CASE c \in gone
      <4>1. next'[j] = next[c] /\ c \in Free BY <1>2, <3>1
      <4>2. next[c] \in Nat /\ c < next[c] BY <1>1, <1>3, <4>1
      <4>3. next[c] \in Free' \union {End} BY <1>1, <1>2, <1>3, <4>1, <4>2
      <4>4. j < next[c] BY <1>1, <1>2, <4>2
      <4>5. ASSUME NEW d \in Free', j < d PROVE next[c] <= d
        <5>1. d \in Free /\ d # c BY <1>1, <1>2, <3>1, <4>5
        <5>2. a < d BY <1>1, <1>2, <4>5, <5>1
        <5>3. c < d BY <1>1, <1>2, <5>1, <5>2
        <5> QED BY <1>3, <4>1, <5>1, <5>3
      <4> QED BY <2>1, <4>1, <4>3, <4>4, <4>5 DEF IsNext
    <3>2. CASE c \notin gone
      <4>1. next'[j] = c BY <1>2, <3>2
      <4>2. c \in Free' \union {End} BY <1>2, <3>2
      <4>3. j < c BY <1>1, <1>2
      <4>4. ASSUME NEW d \in Free', j < d PROVE c <= d
        <5>1. d \in Free BY <1>1, <1>2, <4>4
        <5>2. a < d BY <1>1, <1>2, <4>4, <5>1
        <5> QED BY <1>2, <5>1, <5>2
      <4> QED BY <2>1, <4>1, <4>2, <4>3, <4>4 DEF IsNext
    <3> QED BY <3>1, <3>2
  <2>2. CASE b = a /\ a # j
    <3>1. next'[a] = j /\ j = h /\ j \in Free' BY <1>1, <1>2, <2>2
    <3>2. ASSUME NEW d \in Free', a < d PROVE j <= d
      <4>1. CASE d = j BY <1>1, <4>1
      <4>2. CASE d # j BY <1>1, <1>2, <3>1, <3>2, <4>2
      <4> QED BY <4>1, <4>2
    <3> QED BY <1>2, <2>2, <3>1, <3>2 DEF IsNext
  <2>3. CASE b # j /\ b # a
    <3>1. b \in (Free \union {ListStart}) \ ({a, j} \union gone)
      BY <1>1, <1>2, <2>3 DEF ListStart
    <3>2. next'[b] = next[b] BY <1>2, <3>1
    <3>3. next[b] \in Nat /\ b \in Int BY <1>1, <1>3, <1>4, <3>1
    <3>4. next[b] # c /\ (b < h => next[b] <= h)
      <4>1. CASE b < a
        <5>1. a \in Free BY <1>1, <1>2, <3>1, <4>1
        <5>2. next[b] <= a BY <1>3, <3>1, <4>1, <5>1
        <5> QED BY <1>1, <1>2, <3>3, <5>2
      <4>2. CASE a < b
        <5>1. b \in Free BY <1>1, <1>2, <3>1, <4>2 DEF ListStart
        <5>2. c <= b BY <1>2, <4>2, <5>1
        <5>3. b < next[b] BY <1>3, <3>1
        <5> QED BY <1>1, <1>2, <3>3, <5>2, <5>3
      <4> QED BY <1>1, <2>3, <3>3, <4>1, <4>2
    <3>5. next[b] \in Free' \union {End}
      <4>1. next[b] \in Free \union {End} BY <1>3, <3>1
      <4> QED BY <1>2, <3>4, <4>1
    <3>6. ASSUME NEW d \in Free', b < d PROVE next[b] <= d
      <4>1. CASE d \in Free BY <1>3, <3>1, <3>6, <4>1
      <4>2. CASE d \notin Free BY <1>2, <3>1, <3>4, <3>6, <4>2, <1>1
      <4> QED BY <4>1, <4>2
    <3>7. b < next[b] BY <1>3, <3>1
    <3> QED BY <3>2, <3>5, <3>6, <3>7 DEF IsNext
  <2> QED BY <2>1, <2>2, <2>3
<1> QED BY <1>5 DEF Linked

\* No two neighbours are free after a merge.
LEMMA MergeApart ==
    ASSUME HeapTypes, Tiled, Linked, Apart,
           NEW a, NEW h, NEW c, NEW j, NEW z, NEW gone, Merges(a, h, c, j, z, gone)
    PROVE  Apart'
<1>1. /\ \A b \in Blocks : /\ b \in Nat /\ EndOf(b) \in Nat /\ b < EndOf(b)
                           /\ b < End /\ EndOf(b) <= End
      /\ a \in Int /\ h \in Nat /\ c \in Nat /\ j \in Blocks \ gone /\ End \in Nat
      /\ z \in Nat /\ EndOf(h) <= z /\ j < z /\ j <= h
      /\ End \notin Blocks /\ Free \subseteq Blocks /\ ListStart \notin Blocks /\ h \notin Free
      /\ a # ListStart => a \in Free
      /\ a = ListStart => \A b \in Free : a < b
  BY MergeFacts
<1>2. /\ Blocks' = Blocks \ gone /\ h \in Blocks /\ h < c /\ c \in Free \union {End}
      /\ a < h /\ EndOf(h) <= c /\ (a # ListStart => EndOf(a) <= h)
      /\ \A b \in Free : a < b => c <= b
      /\ EndOf(j)' = z /\ \A b \in Blocks' \ {j} : EndOf(b)' = EndOf(b)
      /\ \/ j = h /\ (a = ListStart \/ EndOf(a) # h) /\ h \notin gone
         \/ j = a /\ a # ListStart /\ EndOf(a) = h /\ h \in gone
      /\ \/ z = EndOf(h) /\ (c = End \/ EndOf(h) # c) /\ c \notin gone
         \/ z = EndOf(c) /\ c # End /\ EndOf(h) = c /\ c \in gone
      /\ gone \subseteq {h, c}
      /\ Free' = (Free \union {j}) \ gone
  BY DEF Merges
<1>3. z \notin Free'
  <2>1. z # j BY <1>1
  <2>2. SUFFICES z \notin Free BY <1>2, <2>1
  <2>3. CASE c \in gone BY <1>2, <2>3 DEF Apart
  <2>4. CASE c \notin gone
    <3>1. a < z BY <1>1, <1>2
    <3>2. z \in Free => c <= z BY <1>2, <3>1
    <3> QED BY <1>1, <1>2, <2>4, <3>2
  <2> QED BY <2>3, <2>4
<1>4. ASSUME NEW b \in Free', b # j PROVE EndOf(b) \notin Free'
  <2>1. b \in Free /\ b \in Blocks BY <1>1, <1>2, <1>4
  <2>2. EndOf(b) \notin Free BY <2>1 DEF Apart
  <2>3. EndOf(b) # j
    <3>1. CASE j # h BY <1>1, <1>2, <2>2, <3>1
    <3>2. CASE j = h
      <4>1. SUFFICES ASSUME EndOf(b) = h PROVE FALSE BY <3>2
      <4>2. b < h /\ b # a BY <1>1, <1>2, <2>1, <3>2, <4>1
      <4>3. ~(a < b) BY <1>1, <1>2, <2>1, <4>2
      <4>4. a \in Free /\ b < a BY <1>1, <1>2, <2>1, <4>2, <4>3
      <4>5. EndOf(b) <= a BY <1>1, <2>1, <4>4 DEF Tiled
      <4> QED BY <1>1, <1>2, <4>1, <4>5
    <3> QED BY <3>1, <3>2
  <2> QED BY <1>2, <2>2, <2>3
<1>5. ASSUME NEW b \in Free' PROVE EndOf(b)' \notin Free'
  <2>1. b \in Blocks' BY <1>1, <1>2
  <2> QED BY <1>2, <1>3, <1>4, <2>1
<1> QED BY <1>5 DEF Apart

\* A merge leaves the blocks that are given out, and the one found, as they are.
LEMMA LinkKeeps ==
    ASSUME HeapInv, Link
    PROVE  \A b \in (used \union marked \union {keep}) \ {NoBlock} :
               b \in Blocks' /\ size'[b] = size[b]
<1> USE DEF HeapInv
<1>1. PICK a, h, c, j, z, gone : Merges(a, h, c, j, z, gone) BY LinkMerges
<1>2. /\ Blocks' = Blocks \ gone /\ gone \subseteq {h, c} /\ c \in Free \union {End}
      /\ h \notin used \union marked \union {keep} /\ j \in Free \union {h}
      /\ \A b \in Blocks' \ {j} : size'[b] = size[b]
  BY <1>1 DEF Merges
<1>3. End \notin Blocks /\ Free = Blocks \ (used \union marked \union {hand, keep})
  BY BlockFacts
<1>4. used \subseteq Blocks /\ marked \subseteq Blocks /\ keep \in Blocks \union {NoBlock}
  BY DEF HeapTypes
<1> QED BY <1>2, <1>3, <1>4

\* The block in hand enters the list.
LEMMA LinkStep == ASSUME HeapInv, Link PROVE HeapInv'
<1> USE DEF HeapInv
<1>1. /\ pc = "insert" /\ hand' = NoBlock /\ at' = NoBlock
      /\ pc' = IF keep = NoBlock THEN "idle" ELSE "give"
      /\ UNCHANGED <<used, marked, remaining, wanted, prev, block, keep>>
  BY DEF Link
<1>2. /\ size' \in [Address -> Nat] /\ size'[End] = 0
      /\ next' \in [Address \union {ListStart} -> Address \union {NoBlock}] /\ next'[End] = NoBlock
  BY LinkMerges
<1>3. PICK a, h, c, j, z, gone : Merges(a, h, c, j, z, gone) BY LinkMerges
<1>4. Tiled' /\ Linked' /\ Apart' BY <1>3, MergeTiles, MergeLinks, MergeApart
<1>5. used \subseteq Blocks /\ marked \subseteq Blocks /\ keep \in Blocks \union {NoBlock}
  BY DEF HeapTypes
<1>6. \A b \in (used \union marked \union {keep}) \ {NoBlock} : b \in Blocks' /\ size'[b] = size[b]
  BY LinkKeeps
<1>7. prev = NoBlock /\ block = NoBlock /\ hand # NoBlock BY <1>1 DEF Calls
<1>8. HeapTypes'
  <2>1. NoBlock \notin Blocks BY BlockFacts
  <2>2. used' \subseteq Blocks' /\ marked' \subseteq Blocks' /\ keep' \in Blocks' \union {NoBlock}
    BY <1>1, <1>5, <1>6, <2>1
  <2>3. NoBlock \notin used \union marked /\ keep \notin used \union marked
    BY <1>5, <2>1 DEF HeapTypes
  <2> QED BY <1>1, <1>2, <1>7, <2>2, <2>3 DEF HeapTypes
<1>9. Needed' = Needed BY <1>1 DEF Needed, Demand
<1>10. Calls' BY <1>1, <1>6, <1>7, <1>9 DEF Calls
<1>11. BytesCounted'
  <2>1. \A b \in used \union marked : size'[b] = size[b]
    BY <1>5, <1>6, BlockFacts
  <2> QED BY <1>1, <2>1, CountKept
<1> QED BY <1>4, <1>8, <1>10, <1>11

\* A step of the heap keeps the invariant.
LEMMA HeapStep == HeapInv /\ [HeapNext]_heapVars => HeapInv'
<1> SUFFICES ASSUME HeapInv, [HeapNext]_heapVars PROVE HeapInv' OBVIOUS
<1>1. ASSUME NEW n \in Sizes, Malloc(n) PROVE HeapInv' BY <1>1, MallocStep
<1>2. CASE Look BY <1>2, LookStep
<1>3. CASE Walk BY <1>3, WalkStep
<1>4. CASE NoneFits BY <1>4, NoneFitsStep
<1>5. CASE Fits BY <1>5, FitsStep
<1>6. CASE Give BY <1>6, GiveStep
<1>7. ASSUME NEW b \in used, FreeMark(b) PROVE HeapInv' BY <1>7, FreeMarkStep
<1>8. ASSUME NEW b \in marked, FreeInsert(b) PROVE HeapInv' BY <1>8, FreeInsertStep
<1>9. CASE Seek BY <1>9, SeekStep
<1>10. CASE Link BY <1>10, LinkStep
<1>11. CASE UNCHANGED heapVars
  <2>1. UNCHANGED <<size, next, used, marked, remaining, pc, wanted, prev, block, hand, at,
                    keep>>
    BY <1>11 DEF heapVars, cursors
  <2>2. Free' = Free BY <2>1 DEF Free
  <2>3. Blocks' = Blocks /\ Tiled' /\ Linked' /\ Apart'
    BY <2>1, <2>2, ListKept DEF HeapInv
  <2>4. HeapTypes' BY <2>1, <2>2, <2>3 DEF HeapInv, HeapTypes
  <2>5. BytesCounted' BY <2>1, CountKept DEF HeapInv
  <2>6. Needed' = Needed BY <2>1 DEF Needed, Demand
  <2>7. Calls' BY <2>1, <2>2, <2>6 DEF HeapInv, Calls
  <2> QED BY <2>3, <2>4, <2>5, <2>7 DEF HeapInv
<1> QED
  BY <1>1, <1>2, <1>3, <1>4, <1>5, <1>6, <1>7, <1>8, <1>9, <1>10, <1>11 DEF HeapNext

\* The invariant holds in every state of the heap.
LEMMA HeapInvariant == HeapSpec => []HeapInv
<1> QED BY HeapInitial, HeapStep, PTL DEF HeapSpec

\* Between two calls nothing is in hand, and the invariant says what
\* FreeListExact does.
LEMMA ExactBetweenCalls == HeapInv => FreeListExact
<1> SUFFICES ASSUME HeapInv, pc = "idle"
             PROVE  LET blocks == Free \union used \union marked
                        After(a) == {b \in Free : b > a}
                    IN  /\ First \in blocks /\ \A b \in blocks : b % Align = 0
                        /\ \A b \in blocks : b + size[b] \in (blocks \ {First}) \union {End}
                        /\ \A a, b \in blocks : a < b => a + size[a] <= b
                        /\ \A a \in Free \union {ListStart} :
                              next[a] = IF After(a) = {} THEN End ELSE Min(After(a))
                        /\ \A b \in Free : b + size[b] \notin Free
                        /\ remaining = Cardinality(UNION {b .. b + size[b] - 1 : b \in Free})
  BY DEF FreeListExact
<1> USE DEF HeapInv
<1>1. hand = NoBlock /\ keep = NoBlock BY DEF Calls
<1>2. Blocks = Free \union used \union marked
  BY <1>1, BlockFacts DEF HeapTypes
<1>3. \A b \in Blocks : /\ b \in Nat /\ First <= b /\ b < End
                        /\ size[b] \in Nat /\ EndOf(b) = b + size[b]
                        /\ EndOf(b) \in Nat /\ b < EndOf(b)
  BY BlockFacts DEF EndOf
<1>4. First \in Blocks /\ \A b \in Blocks : b % Align = 0 BY DEF Tiled
<1>5. \A b \in Blocks : EndOf(b) \in (Blocks \ {First}) \union {End}
  <2>1. \A b \in Blocks : EndOf(b) # First BY <1>3, Memory
  <2> QED BY <2>1 DEF Tiled
<1>6. \A a, b \in Blocks : a < b => EndOf(a) <= b BY DEF Tiled
<1>7. ASSUME NEW a \in Free \union {ListStart}
      PROVE  next[a] = IF {b \in Free : b > a} = {} THEN End ELSE Min({b \in Free : b > a})
  <2> DEFINE S == {b \in Free : b > a}
  <2>1. next[a] \in Free \union {End} /\ a < next[a] /\ \A b \in S : next[a] <= b
    BY DEF Linked, IsNext
  <2>2. \A b \in S : b \in Nat /\ b < End BY <1>2, <1>3
  <2>3. CASE S = {}
    <3>1. next[a] \notin Free
      <4>1. ASSUME next[a] \in Free PROVE FALSE
        <5>1. next[a] > a BY <2>1
        <5> QED BY <2>3, <4>1, <5>1
      <4> QED BY <4>1
    <3> QED BY <2>1, <2>3, <3>1
  <2>4. CASE S # {}
    <3>1. next[a] \in S
      <4>1. PICK b \in S : TRUE BY <2>4
      <4>2. next[a] # End BY <2>1, <2>2, <4>1, Memory
      <4> QED BY <2>1, <4>2
    <3>2. \A x \in S : (\A y \in S : x <= y) => x = next[a] BY <2>1, <2>2, <3>1
    <3>3. Min(S) = CHOOSE x \in S : \A y \in S : x <= y BY DEF Min
    <3>4. Min(S) = next[a]
      <4> HIDE DEF S
      <4> QED BY <2>1, <3>1, <3>2, <3>3
    <3> QED BY <2>4, <3>4
  <2> QED BY <2>3, <2>4
<1>8. UNION {b .. b + size[b] - 1 : b \in Free} = Unowned
  <2>1. ASSUME NEW x \in Unowned PROVE \E b \in Free : x \in b .. b + size[b] - 1
    <3>1. x \in HeapBytes /\ x \in Int BY Memory DEF Unowned, Outside, HeapBytes
    <3>2. PICK b \in Blocks : b <= x /\ x < EndOf(b) BY <3>1 DEF Tiled
    <3>3. b \notin used \union marked BY <1>3, <3>1, <3>2 DEF Unowned, Outside
    <3> QED BY <1>2, <1>3, <3>1, <3>2, <3>3
  <2>2. ASSUME NEW b \in Free, NEW x \in b .. b + size[b] - 1 PROVE x \in Unowned
    <3>1. b \in Blocks BY <1>2
    <3>2. x \in Int /\ b <= x /\ x < EndOf(b) BY <1>3, <3>1
    <3>3. x \in HeapBytes BY <1>3, <3>1, <3>2, Disjoint, Memory DEF HeapBytes
    <3>4. ASSUME NEW d \in used \union marked PROVE x < d \/ EndOf(d) <= x
      <4>1. d \in Blocks /\ d # b BY <1>2, BlockFacts
      <4>2. ~(d < EndOf(b) /\ b < EndOf(d)) BY <3>1, <4>1, Disjoint
      <4> QED BY <1>3, <3>1, <3>2, <4>1, <4>2
    <3> QED BY <3>3, <3>4 DEF Unowned, Outside
  <2> QED BY <2>1, <2>2
<1>9. \A b \in Free : EndOf(b) \notin Free BY DEF Apart
<1>10. \A b \in Blocks : EndOf(b) = b + size[b] BY <1>3
<1>11. Free \subseteq Blocks BY <1>2
<1>12. /\ \A b \in Blocks : b + size[b] \in (Blocks \ {First}) \union {End}
       /\ \A a, b \in Blocks : a < b => a + size[a] <= b
       /\ \A b \in Free : b + size[b] \notin Free
  BY <1>5, <1>6, <1>9, <1>10, <1>11
<1>13. remaining = Cardinality(UNION {b .. b + size[b] - 1 : b \in Free})
  BY <1>8 DEF BytesCounted
<1> QED BY <1>2, <1>4, <1>7, <1>12, <1>13

\* For every memory and alignment, the list of free blocks is exact between two calls.
THEOREM FreeListIsExact == HeapSpec => []FreeListExact
BY HeapInvariant, ExactBetweenCalls, PTL

----------------------------------------------------------------------------
(* The heap is an allocator.                                               *)

Owned == {Piece(b) : b \in Allocated}

\* Pieces of different blocks differ.
LEMMA PieceOf ==
    /\ \A b : Piece(b).from = b /\ Piece(b).to = EndOf(b)
    /\ \A b, d : Piece(b) = Piece(d) => b = d
<1>1. \A b : Piece(b).from = b /\ Piece(b).to = EndOf(b) BY DEF Piece, EndOf
<1> QED BY <1>1

\* While the blocks given out stay the same, so do the pieces.
LEMMA OwnedKept ==
    ASSUME NEW B, \A b \in B : size'[b] = size[b]
    PROVE  {Piece(b) : b \in B}' = {Piece(b) : b \in B}
BY DEF Piece

\* The heap grants or refuses nothing in a step that gives no block out and takes none.
LEMMA Unmoved ==
    ASSUME Allocated' = Allocated, \A b \in Allocated : size'[b] = size[b],
           UNCHANGED <<wanted, got>>
    PROVE  UNCHANGED Owners!vars
<1>1. Owned' = Owned BY DEF Owned, Piece
<1> QED BY <1>1 DEF Owners!vars, Owned

\* A request that is longer than every free block may be refused.
LEMMA MayRefuse ==
    ASSUME HeapInv, hand = NoBlock, keep = NoBlock, Needed > 0, \A b \in Free : size[b] < Needed
    PROVE  ~Owners!Room(Owners!Least(wanted))
<1>1. Needed \in Nat \ {0} /\ Needed = Owners!Least(wanted)
  BY Demanded DEF HeapInv, HeapTypes, Needed
<1>2. SUFFICES ASSUME Owners!Room(Needed) PROVE FALSE BY <1>1
<1>3. PICK b \in Free : size[b] >= Needed BY <1>1, <1>2, GapIsFree DEF HeapInv
<1>4. size[b] \in Nat BY BlockFacts DEF HeapInv
<1> QED BY <1>1, <1>3, <1>4

\* So may one that no memory of this size can hold.
LEMMA TooLong ==
    ASSUME HeapInv, hand = NoBlock, keep = NoBlock, NEW n \in Nat, n > End - First
    PROVE  ~Owners!Room(n)
<1>1. SUFFICES ASSUME Owners!Room(n) PROVE FALSE OBVIOUS
<1>2. PICK x \in {First} \union {p.to : p \in {Piece(b) : b \in Allocated}} : x + n <= End
  BY <1>1 DEF Owners!Room
<1>3. x \in Nat /\ First <= x
  <2>1. CASE x = First BY <2>1, Memory
  <2>2. CASE x # First
    <3>1. PICK b \in Allocated : x = Piece(b).to BY <1>2, <2>2
    <3>2. b \in Blocks BY DEF Allocated, HeapInv, HeapTypes
    <3>3. b \in Nat /\ First <= b /\ EndOf(b) \in Nat /\ b < EndOf(b)
      BY <3>2, BlockFacts DEF HeapInv
    <3> QED BY <3>1, <3>3, PieceOf, Memory
  <2> QED BY <2>1, <2>2
<1> QED BY <1>2, <1>3, Memory

\* Each step of the heap is one of the allocator, or none.
LEMMA OwnersStep == HeapInv /\ [HeapNext]_heapVars => [Owners!Next]_(Owners!vars)
<1> SUFFICES ASSUME HeapInv, [HeapNext]_heapVars PROVE [Owners!Next]_(Owners!vars) OBVIOUS
<1>1. wanted \in Nat BY DEF HeapInv, HeapTypes
<1>2. ASSUME NEW n \in Sizes, Malloc(n) PROVE [Owners!Next]_(Owners!vars)
  <2>1. /\ Allocated' = Allocated /\ size' = size /\ wanted' = n /\ n \in Nat
        /\ got' = Owners!Nothing
    BY <1>2, HeapConstants DEF Malloc, Allocated, cursors
  <2>2. Owned' = Owned BY <2>1 DEF Owned, Piece
  <2>3. Owners!Ask BY <2>1, <2>2 DEF Owners!Ask, Owned
  <2> QED BY <2>3 DEF Owners!Next
<1>3. CASE Look
  <2>1. /\ pc = "asked" /\ hand = NoBlock /\ keep = NoBlock
        /\ UNCHANGED <<size, used, marked, wanted, hand, keep>>
    BY <1>3 DEF Look, HeapInv, Calls, cursors
  <2>2. Allocated' = Allocated /\ size' = size BY <2>1 DEF Allocated
  <2>3. CASE Valid(Needed) /\ Needed > 0 /\ Needed <= remaining
    <3>1. UNCHANGED <<wanted, got>> BY <1>3, <2>3 DEF Look
    <3> QED BY <2>2, <3>1, Unmoved
  <2>4. CASE ~(Valid(Needed) /\ Needed > 0 /\ Needed <= remaining)
    <3>1. got' = Owners!Refused /\ wanted' = wanted BY <1>3, <2>4 DEF Look
    <3>2. Owned' = Owned BY <2>2 DEF Owned, Piece
    <3>3. wanted = 0 \/ ~Owners!Room(Owners!Least(wanted))
      <4>1. CASE ~(Valid(Needed) /\ Needed > 0)
        <5>1. wanted > 0 => Owners!Least(wanted) > End - First
          BY <1>1, <4>1, Demanded DEF Needed
        <5>2. Owners!Least(wanted) \in Nat BY <1>1, Demanded
        <5> QED BY <1>1, <2>1, <5>1, <5>2, TooLong
      <4>2. CASE Needed > 0 /\ ~(Needed <= remaining)
        <5>1. remaining \in Nat /\ Needed \in Nat
          BY <1>1, Demanded DEF Needed, HeapInv, HeapTypes
        <5>2. \A b \in Free : size[b] <= remaining /\ size[b] \in Nat
          BY FreeBytes, BlockFacts DEF HeapInv, BytesCounted
        <5>3. \A b \in Free : size[b] < Needed BY <4>2, <5>1, <5>2
        <5> QED BY <2>1, <4>2, <5>3, MayRefuse
      <4> QED BY <2>4, <4>1, <4>2
    <3>4. Owners!Refuse BY <3>1, <3>2, <3>3 DEF Owners!Refuse, Owned
    <3> QED BY <3>4 DEF Owners!Next
  <2> QED BY <2>3, <2>4
<1>4. CASE Walk
  <2>1. Allocated' = Allocated /\ UNCHANGED <<size, wanted, got>>
    BY <1>4 DEF Walk, Allocated
  <2> QED BY <2>1, Unmoved
<1>5. CASE NoneFits
  <2>1. /\ pc = "search" /\ block = End /\ got' = Owners!Refused
        /\ UNCHANGED <<size, used, marked, wanted, hand, keep>>
    BY <1>5 DEF NoneFits
  <2>2. hand = NoBlock /\ keep = NoBlock /\ Needed > 0 /\ \A b \in Free : b < End => size[b] < Needed
    BY <2>1 DEF HeapInv, Calls
  <2>3. \A b \in Free : size[b] < Needed BY <2>2, BlockFacts DEF HeapInv
  <2>4. ~Owners!Room(Owners!Least(wanted)) BY <2>2, <2>3, MayRefuse
  <2>5. Owned' = Owned BY <2>1 DEF Owned, Piece, Allocated
  <2>6. Owners!Refuse BY <2>1, <2>4, <2>5 DEF Owners!Refuse, Owned
  <2> QED BY <2>6 DEF Owners!Next
<1>6. CASE Fits
  <2>1. /\ keep' = block /\ UNCHANGED <<used, marked, wanted, got>>
        /\ block \in Free /\ hand = NoBlock /\ keep = NoBlock
        /\ Needed \in Nat /\ Needed > 0 /\ Needed <= size[block]
    BY <1>6, Found DEF Fits
  <2>2. block # NoBlock /\ block \in Blocks /\ block \notin used \union marked
    BY <2>1, BlockFacts DEF HeapInv
  <2>3. Allocated = used \union marked /\ Allocated' = used \union marked
    BY <2>1, <2>2 DEF Allocated
  <2>4. ASSUME NEW b \in used \union marked PROVE size'[b] = size[b]
    <3>1. b \in Blocks /\ b # block BY <2>2 DEF HeapInv, HeapTypes
    <3>2. \A d \in Blocks : /\ d \in Nat /\ EndOf(d) \in Nat
                            /\ size[d] \in Nat /\ EndOf(d) = d + size[d]
      BY BlockFacts DEF HeapInv, EndOf
    <3>3. CASE size[block] - Needed > MinimumBlock
      <4>1. size' = [size EXCEPT ![block] = Needed, ![block + Needed] = size[block] - Needed]
        BY <1>6, <3>3 DEF Fits
      <4>2. MinimumBlock \in Nat BY HeapConstants DEF MinimumBlock
      <4>3. b # block + Needed
        <5>1. block < b => EndOf(block) <= b BY <2>2, <3>1 DEF HeapInv, Tiled
        <5> QED BY <2>1, <2>2, <3>1, <3>2, <3>3, <4>2, <5>1
      <4> QED BY <3>1, <4>1, <4>3 DEF HeapInv, HeapTypes, Blocks
    <3>4. CASE ~(size[block] - Needed > MinimumBlock) BY <1>6, <3>4 DEF Fits
    <3> QED BY <3>3, <3>4
  <2> QED BY <2>1, <2>3, <2>4, Unmoved
<1>7. CASE Give
  <2>1. /\ pc = "give" /\ used' = used \union {keep} /\ got' = Piece(keep) /\ keep' = NoBlock
        /\ UNCHANGED <<size, marked, wanted, hand>>
    BY <1>7 DEF Give
  <2>2. /\ hand = NoBlock /\ keep # NoBlock /\ Needed > 0 /\ size[keep] >= Needed
        /\ keep \in Blocks /\ keep \notin used \union marked
        /\ used \subseteq Blocks /\ marked \subseteq Blocks
    BY <2>1 DEF HeapInv, Calls, HeapTypes
  <2>3. PICK g \in Blocks : g = keep BY <2>2
  <2>4. Allocated = used \union marked /\ Allocated' = Allocated \union {g}
    BY <2>1, <2>2, <2>3 DEF Allocated
  <2>5. \A b \in Blocks : Piece(b)' = Piece(b) BY <2>1 DEF Piece
  <2>6. Owned' = {Piece(b)' : b \in Allocated \union {g}} BY <2>4 DEF Owned
  <2>7. Owned' = Owned \union {got'}
    <3>1. \A b \in Allocated \union {g} : Piece(b)' = Piece(b) BY <2>2, <2>4, <2>5
    <3>2. got' = Piece(g) BY <2>1, <2>3
    <3> QED BY <2>6, <3>1, <3>2 DEF Owned
  <2>8. got' = Piece(g) BY <2>1, <2>3
  <2>9. Piece(g) \notin Owned BY <2>2, <2>3, <2>4, PieceOf DEF Owned
  <2>10. /\ g \in Nat /\ First <= g /\ EndOf(g) = g + size[g] /\ size[g] \in Nat
         /\ EndOf(g) <= End /\ EndOf(g) \in Nat /\ g % Align = 0
    BY BlockFacts, Disjoint DEF HeapInv, EndOf, Tiled
  <2>11. /\ wanted > 0 /\ Owners!Least(wanted) = Needed /\ Needed \in Nat
    BY <1>1, <2>2, Demanded DEF Needed
  <2>12. Owners!Clear(g, EndOf(g))
    <3>1. ASSUME NEW b \in Allocated PROVE EndOf(g) <= b \/ EndOf(b) <= g
      <4>1. b \in Blocks /\ b # g BY <2>2, <2>3, <2>4
      <4>2. b \in Nat /\ EndOf(b) \in Nat BY <4>1, BlockFacts DEF HeapInv
      <4>3. ~(b < EndOf(g) /\ g < EndOf(b)) BY <4>1, Disjoint DEF HeapInv
      <4> QED BY <2>10, <4>2, <4>3
    <3> QED BY <3>1, PieceOf DEF Owners!Clear
  <2>13. Owners!Give
    <3>1. got'.from = g /\ got'.to = EndOf(g) BY <2>8, PieceOf
    <3>2. got'.to - got'.from >= Owners!Least(wanted) BY <2>2, <2>3, <2>10, <2>11, <3>1
    <3>3. UNCHANGED wanted BY <2>1
    <3> QED
      BY <2>7, <2>8, <2>9, <2>10, <2>11, <2>12, <3>1, <3>2, <3>3 DEF Owners!Give, Owned
  <2> QED BY <2>13 DEF Owners!Next
<1>8. ASSUME NEW b \in used, FreeMark(b) PROVE [Owners!Next]_(Owners!vars)
  <2>1. Allocated' = Allocated /\ UNCHANGED <<size, wanted, got>>
    BY <1>8 DEF FreeMark, Allocated, cursors
  <2> QED BY <2>1, Unmoved
<1>9. ASSUME NEW b \in marked, FreeInsert(b) PROVE [Owners!Next]_(Owners!vars)
  <2>1. /\ marked' = marked \ {b} /\ hand' = b /\ hand = NoBlock /\ keep = NoBlock
        /\ UNCHANGED <<size, used, keep, wanted, got>>
    BY <1>9 DEF FreeInsert, HeapInv, Calls
  <2>2. b # NoBlock BY BlockFacts DEF HeapInv, HeapTypes
  <2>3. Allocated' = Allocated BY <2>1, <2>2 DEF Allocated
  <2> QED BY <2>1, <2>3, Unmoved
<1>10. CASE Seek
  <2>1. Allocated' = Allocated /\ UNCHANGED <<size, wanted, got>>
    BY <1>10 DEF Seek, Allocated
  <2> QED BY <2>1, Unmoved
<1>11. CASE Link
  <2>1. /\ pc = "insert" /\ hand' = NoBlock /\ UNCHANGED <<used, marked, keep, wanted, got>>
    BY <1>11 DEF Link
  <2>2. hand # NoBlock /\ hand \notin used \union marked
    BY <2>1 DEF HeapInv, Calls, HeapTypes
  <2>3. \A b \in used \union marked : size'[b] = size[b] 
    <3>1. NoBlock \notin used \union marked BY BlockFacts DEF HeapInv, HeapTypes
    <3> QED BY <1>11, <3>1, LinkKeeps
  <2>4. Allocated' = used \union marked BY <2>1 DEF Allocated
  <2>5. CASE keep # NoBlock
    <3>1. Allocated = used \union marked BY <2>5 DEF Allocated
    <3> QED BY <2>1, <2>3, <2>4, <3>1, Unmoved
  <2>6. CASE keep = NoBlock
    <3>1. PICK h : h = hand OBVIOUS
    <3>2. Allocated = used \union marked \union {h} BY <2>2, <2>6, <3>1 DEF Allocated
    <3>3. \A b \in used \union marked : Piece(b)' = Piece(b) BY <2>3 DEF Piece
    <3>4. Owned' = {Piece(b) : b \in used \union marked} BY <2>4, <3>3 DEF Owned
    <3>5. Owned = {Piece(b) : b \in used \union marked} \union {Piece(h)}
      BY <3>2 DEF Owned
    <3>6. Piece(h) \notin {Piece(b) : b \in used \union marked} BY <2>2, <3>1, PieceOf
    <3>7. Piece(h) \in Owned /\ Owned' = Owned \ {Piece(h)} BY <3>4, <3>5, <3>6
    <3>8. Owners!TakeBack BY <2>1, <3>7 DEF Owners!TakeBack, Owned
    <3> QED BY <3>8 DEF Owners!Next
  <2> QED BY <2>5, <2>6
<1>12. CASE UNCHANGED heapVars
  <2>1. Allocated' = Allocated /\ UNCHANGED <<size, wanted, got>>
    BY <1>12 DEF heapVars, Allocated, cursors
  <2> QED BY <2>1, Unmoved
<1> QED
  BY <1>2, <1>3, <1>4, <1>5, <1>6, <1>7, <1>8, <1>9, <1>10, <1>11, <1>12 DEF HeapNext

\* For every memory, alignment and set of sizes, the heap gives each byte to one
\* owner at a time and refuses a request only if no gap is long enough for it.
THEOREM HeapImplements == HeapSpec => GivesEachByteOnce
<1>1. HeapInit => Owners!Init
  <2> SUFFICES ASSUME HeapInit PROVE Owners!Init OBVIOUS
  <2>1. Allocated = {} BY DEF HeapInit, Allocated
  <2>2. Owned = {} BY <2>1 DEF Owned
  <2> QED BY <2>2 DEF Owners!Init, HeapInit, Owned
<1> QED
  BY <1>1, OwnersStep, HeapInvariant, PTL DEF HeapSpec, GivesEachByteOnce, Owners!Spec

(***************************************************************************)
(*                            The stream buffer                            *)
(***************************************************************************)

\* The registration of a task that is going to sleep stands until it is
\* notified, and what would serve it is then on its way to be told.
Registered ==
    /\ rpc \in {"sleep", "asleep"} =>
          /\ waitingToReceive \/ nstate["reader"] = "received"
          /\ waitingToReceive /\ BytesInBuffer >= Trigger => wpc \in {"sent", "complete"}
    /\ wpc \in {"sleep", "asleep"} =>
          /\ waitingToSend \/ nstate["writer"] = "received"
          /\ waitingToSend /\ SpacesAvailable >= Required => rpc = "complete"

\* The space the writer knows of is there, it has data, and the bytes it copied
\* are in the ring behind the head.
Sending ==
    /\ wpc # "idle" => data # <<>>
    /\ wpc \notin {"sent", "complete"} => space <= SpacesAvailable
    /\ wpc \notin {"copy", "sent", "complete"} => put = 0
    /\ wpc = "copy" => /\ space > 0 /\ put <= ToWrite
                       /\ \A i \in 1 .. put : buf[Wrap(head + i - 1)] = data[i]

\* The bytes the reader knows of are there, and those it copied are still
\* the ones in the ring at the tail.
Receiving ==
    /\ rpc \notin {"copy", "complete"} => taken = <<>>
    /\ rpc = "copy" => /\ avail > 0 /\ avail <= BytesInBuffer
                       /\ Len(taken) <= ToRead
                       /\ \A i \in 1 .. Len(taken) : taken[i] = buf[Wrap(tail + i - 1)]

StreamInv == StreamTypeOK /\ Registered /\ Sending /\ Receiving

----------------------------------------------------------------------------
(* Arithmetic of the ring.                                                 *)

\* The distances between the indices are lengths, and add up.
LEMMA Distances ==
    ASSUME StreamTypeOK
    PROVE  /\ BytesInBuffer \in 0 .. RingLength - 1
           /\ SpacesAvailable \in 0 .. RingLength - 1
           /\ SpacesAvailable = RingLength - 1 - BytesInBuffer
BY StreamBufferConstants DEF StreamTypeOK, BytesInBuffer, SpacesAvailable, Wrap

\* An index moved on by less than the length is an index.
LEMMA Moved ==
    ASSUME NEW i \in 0 .. RingLength - 1, NEW n \in 0 .. RingLength
    PROVE  Wrap(i + n) \in 0 .. RingLength - 1
BY StreamBufferConstants DEF Wrap

\* Two steps along the ring are one.
LEMMA TwoSteps ==
    ASSUME NEW t \in 0 .. RingLength - 1, NEW n \in Nat, NEW i \in Nat \ {0}, n + i < RingLength
    PROVE  Wrap(Wrap(t + n) + i - 1) = Wrap(t + (n + i) - 1)
BY StreamBufferConstants DEF Wrap

\* The byte the writer stores next is none of those that wait to be read.
LEMMA FreeByte ==
    ASSUME StreamTypeOK, NEW n \in Nat, n < SpacesAvailable,
           NEW i \in 1 .. BytesInBuffer
    PROVE  Wrap(head + n) # Wrap(tail + i - 1)
BY StreamBufferConstants DEF StreamTypeOK, BytesInBuffer, SpacesAvailable, Wrap

\* Nor is it one of those it has stored already.
LEMMA NextByte ==
    ASSUME StreamTypeOK, NEW n \in Nat, n < RingLength, NEW i \in 1 .. n
    PROVE  Wrap(head + n) # Wrap(head + i - 1)
BY StreamBufferConstants DEF StreamTypeOK, Wrap

\* The head moved on: as many bytes more, as much space less.
LEMMA HeadMoved ==
    ASSUME StreamTypeOK, NEW n \in 0 .. SpacesAvailable, head' = Wrap(head + n), tail' = tail
    PROVE  /\ BytesInBuffer' = BytesInBuffer + n
           /\ SpacesAvailable' = SpacesAvailable - n
BY StreamBufferConstants DEF StreamTypeOK, BytesInBuffer, SpacesAvailable, Wrap

\* The tail moved on: as many bytes less, as much space more.
LEMMA TailMoved ==
    ASSUME StreamTypeOK, NEW n \in 0 .. BytesInBuffer, tail' = Wrap(tail + n), head' = head
    PROVE  /\ BytesInBuffer' = BytesInBuffer - n
           /\ SpacesAvailable' = SpacesAvailable + n
BY StreamBufferConstants DEF StreamTypeOK, BytesInBuffer, SpacesAvailable, Wrap

\* No index moved: no distance did.
LEMMA NoneMoved ==
    ASSUME head' = head, tail' = tail
    PROVE  BytesInBuffer' = BytesInBuffer /\ SpacesAvailable' = SpacesAvailable
BY DEF BytesInBuffer, SpacesAvailable, Wrap

\* What a chunk and the least of two lengths are.
LEMMA Chunks == Chunk \subseteq Seq(Byte) /\ \A d \in Chunk : d # <<>> /\ Len(d) > 0
BY StreamBufferConstants

\* No bytes are a sequence of bytes.
LEMMA NoBytes == <<>> \in Seq(Byte) /\ Len(<<>>) = 0
OBVIOUS

\* What a step leaves of the locals of a call that goes on or returns.
LEMMA SendGoes ==
    ASSUME StreamTypeOK, NEW to \in {"idle", "complete"}, SendGoto(to)
    PROVE  /\ wpc' = to
           /\ data' \in Seq(Byte) /\ space' \in 0 .. RingLength - 1 /\ put' \in Nat
           /\ wait' \in [Side -> Patience]
<1>1. CASE to = "idle"
    BY <1>1, NoBytes, StreamBufferConstants DEF StreamTypeOK, SendGoto, Side, Patience
<1>2. CASE to # "idle"
    BY <1>2 DEF StreamTypeOK, SendGoto
<1> QED
    BY <1>1, <1>2

\* The same for the reader's.
LEMMA ReceiveGoes ==
    ASSUME StreamTypeOK, NEW to \in {"idle", "complete"}, ReceiveGoto(to)
    PROVE  /\ rpc' = to
           /\ want' \in 1 .. MaxRead /\ avail' \in 0 .. RingLength - 1
           /\ taken' \in Seq(Byte) /\ wait' \in [Side -> Patience]
<1>1. CASE to = "idle"
    BY <1>1, NoBytes, StreamBufferConstants DEF StreamTypeOK, ReceiveGoto, Side, Patience
<1>2. CASE to # "idle"
    BY <1>2 DEF StreamTypeOK, ReceiveGoto
<1> QED
    BY <1>1, <1>2

----------------------------------------------------------------------------
(* The invariant.                                                          *)

\* A new stream buffer satisfies the invariant.
LEMMA Initial == StreamInit => StreamInv
<1> SUFFICES ASSUME StreamInit PROVE StreamInv
    OBVIOUS
<1>1. StreamTypeOK
    <2>1. head \in 0 .. RingLength - 1 /\ tail \in 0 .. RingLength - 1 /\ space \in 0 .. RingLength - 1
          /\ avail \in 0 .. RingLength - 1 /\ want \in 1 .. MaxRead /\ put \in Nat
        BY StreamBufferConstants DEF StreamInit
    <2>2. data \in Seq(Byte) /\ taken \in Seq(Byte)
        BY NoBytes DEF StreamInit
    <2> QED
        BY <2>1, <2>2 DEF StreamInit, StreamTypeOK, Side, Patience
<1>2. SpacesAvailable \in Nat
    BY <1>1, Distances
<1> QED
    BY <1>1, <1>2 DEF StreamInit, StreamInv, Registered, Sending, Receiving

\* Every step keeps the types: the indices stay in the ring.
LEMMA TypeStep == StreamTypeOK /\ Sending /\ Receiving /\ [StreamNext]_streamVars => StreamTypeOK'
<1> SUFFICES ASSUME StreamTypeOK, Sending, Receiving, [StreamNext]_streamVars PROVE StreamTypeOK'
    OBVIOUS
<1> USE StreamBufferConstants, Distances DEF StreamTypeOK, Side, Patience, buffer, writer, reader
<1>1. ASSUME NEW d \in Chunk, NEW t \in Patience, Send(d, t) PROVE StreamTypeOK'
    BY <1>1, Chunks DEF Send
<1>2. CASE SendCheck
    BY <1>2 DEF SendCheck
<1>3. CASE SendSleep
    BY <1>3 DEF SendSleep, SleepOf
<1>4. CASE SendWake
    BY <1>4 DEF SendWake, WakeOf
<1>5. CASE SendClear
    BY <1>5 DEF SendClear
<1>6. CASE SendLook
    <2>1. CASE wpc' = "copy"
        BY <1>6, <2>1, SendGoes DEF SendLook
    <2>2. CASE wpc' # "copy"
        BY <1>6, <2>2, SendGoes DEF SendLook
    <2> QED
        BY <2>1, <2>2
<1>7. CASE SendByte
    BY <1>7, Moved DEF SendByte, Sending, ToWrite, Least
<1>8. CASE SendCommit
    <2>1. put \in 0 .. RingLength
        BY <1>8 DEF SendCommit, ToWrite, Least
    <2>2. head' \in 0 .. RingLength - 1
        BY <1>8, <2>1, Moved DEF SendCommit
    <2> QED
        BY <1>8, <2>2 DEF SendCommit
<1>9. CASE SendTrigger
    BY <1>9, SendGoes DEF SendTrigger
<1>10. CASE SendCompleted
    BY <1>10, SendGoes DEF SendCompleted, Notified
<1>11. ASSUME NEW n \in 1 .. MaxRead, NEW t \in Patience, Receive(n, t) PROVE StreamTypeOK'
    BY <1>11 DEF Receive
<1>12. CASE ReceiveCheck
    BY <1>12 DEF ReceiveCheck
<1>13. CASE ReceiveSleep
    BY <1>13 DEF ReceiveSleep, SleepOf
<1>14. CASE ReceiveWake
    BY <1>14 DEF ReceiveWake, WakeOf
<1>15. CASE ReceiveClear
    BY <1>15 DEF ReceiveClear
<1>16. CASE ReceiveLook
    <2>1. CASE BytesInBuffer = 0
        BY <1>16, <2>1, ReceiveGoes DEF ReceiveLook
    <2>2. CASE BytesInBuffer # 0
        BY <1>16, <2>2 DEF ReceiveLook
    <2> QED
        BY <2>1, <2>2
<1>17. CASE ReceiveByte
    BY <1>17, Moved DEF ReceiveByte, Receiving, ToRead, Least
<1>18. CASE ReceiveCommit
    <2>1. Len(taken) \in 0 .. RingLength
        BY <1>18 DEF ReceiveCommit, ToRead, Least
    <2>2. tail' \in 0 .. RingLength - 1
        BY <1>18, <2>1, Moved DEF ReceiveCommit
    <2> QED
        BY <1>18, <2>2 DEF ReceiveCommit
<1>19. CASE ReceiveCompleted
    BY <1>19, ReceiveGoes DEF ReceiveCompleted, Notified
<1>20. CASE UNCHANGED streamVars
    BY <1>20 DEF streamVars
<1> QED
    BY <1>1, <1>2, <1>3, <1>4, <1>5, <1>6, <1>7, <1>8, <1>9, <1>10, <1>11, <1>12,
       <1>13, <1>14, <1>15, <1>16, <1>17, <1>18, <1>19, <1>20 DEF StreamNext, Write, Read

\* Every step keeps: who waits unnotified is registered, or is about to be told.
LEMMA RegisteredStep == StreamInv /\ StreamTypeOK' /\ [StreamNext]_streamVars => Registered'
<1> SUFFICES ASSUME StreamInv, StreamTypeOK', [StreamNext]_streamVars PROVE Registered'
    OBVIOUS
<1> USE StreamBufferConstants, Distances DEF StreamInv, StreamTypeOK, Registered, Side, Patience, buffer,
                                             writer, reader
<1>1. ASSUME NEW d \in Chunk, NEW t \in Patience, Send(d, t) PROVE Registered'
    BY <1>1, NoneMoved DEF Send, Required
<1>2. CASE SendCheck
    BY <1>2, NoneMoved DEF SendCheck, Required, Least
<1>3. CASE SendSleep
    BY <1>3, NoneMoved DEF SendSleep, SleepOf, Required
<1>4. CASE SendWake
    BY <1>4, NoneMoved DEF SendWake, WakeOf, Required
<1>5. CASE SendClear
    BY <1>5, NoneMoved DEF SendClear, Required
<1>6. CASE SendLook
    BY <1>6, NoneMoved DEF SendLook, SendGoto, Required
<1>7. CASE SendByte
    BY <1>7, NoneMoved DEF SendByte, Required
<1>8. CASE SendCommit
    BY <1>8 DEF SendCommit, Required
<1>9. CASE SendTrigger
    BY <1>9, NoneMoved DEF SendTrigger, SendGoto, Required
<1>10. CASE SendCompleted
    BY <1>10, NoneMoved DEF SendCompleted, SendGoto, Notified, Required
<1>11. ASSUME NEW n \in 1 .. MaxRead, NEW t \in Patience, Receive(n, t) PROVE Registered'
    BY <1>11, NoneMoved DEF Receive, Required
<1>12. CASE ReceiveCheck
    BY <1>12, NoneMoved DEF ReceiveCheck, Required
<1>13. CASE ReceiveSleep
    BY <1>13, NoneMoved DEF ReceiveSleep, SleepOf, Required
<1>14. CASE ReceiveWake
    BY <1>14, NoneMoved DEF ReceiveWake, WakeOf, Required
<1>15. CASE ReceiveClear
    BY <1>15, NoneMoved DEF ReceiveClear, Required
<1>16. CASE ReceiveLook
    BY <1>16, NoneMoved DEF ReceiveLook, ReceiveGoto, Required
<1>17. CASE ReceiveByte
    BY <1>17, NoneMoved DEF ReceiveByte, Required
<1>18. CASE ReceiveCommit
    BY <1>18 DEF ReceiveCommit, Required
<1>19. CASE ReceiveCompleted
    BY <1>19, NoneMoved DEF ReceiveCompleted, ReceiveGoto, Notified, Required
<1>20. CASE UNCHANGED streamVars
    BY <1>20, NoneMoved DEF streamVars, Required
<1> QED
    BY <1>1, <1>2, <1>3, <1>4, <1>5, <1>6, <1>7, <1>8, <1>9, <1>10, <1>11, <1>12,
       <1>13, <1>14, <1>15, <1>16, <1>17, <1>18, <1>19, <1>20 DEF StreamNext, Write, Read

\* A byte copied in follows those copied before it, and leaves those alone that
\* wait to be read.
LEMMA ByteCopied ==
    ASSUME StreamTypeOK, Sending, SendByte
    PROVE  \A i \in 1 .. put' : buf'[Wrap(head' + i - 1)] = data'[i]
<1>1. /\ put \in Nat /\ put < RingLength /\ head \in 0 .. RingLength - 1
      /\ put' = put + 1 /\ head' = head /\ data' = data
      /\ buf' = [buf EXCEPT ![Wrap(head + put)] = data[put + 1]]
      /\ \A i \in 1 .. put : buf[Wrap(head + i - 1)] = data[i]
    BY StreamBufferConstants DEF StreamTypeOK, Sending, SendByte, ToWrite, Least
<1>2. DOMAIN buf = 0 .. RingLength - 1
    BY DEF StreamTypeOK
<1>3. ASSUME NEW i \in 1 .. put + 1 PROVE buf'[Wrap(head + i - 1)] = data[i]
    <2>1. Wrap(head + i - 1) \in 0 .. RingLength - 1
        BY <1>1, StreamBufferConstants DEF Wrap
    <2>2. CASE i = put + 1
        BY <1>1, <1>2, <2>1, <2>2
    <2>3. CASE i # put + 1
        <3>1. i \in 1 .. put
            BY <1>1, <2>3
        <3>2. Wrap(head + put) # Wrap(head + i - 1)
            BY <1>1, <3>1, NextByte
        <3> QED
            BY <1>1, <1>2, <2>1, <3>1, <3>2
    <2> QED
        BY <2>2, <2>3
<1> QED
    BY <1>1, <1>3

\* A byte that is copied in lies outside the bytes that are in the ring.
LEMMA ByteLeavesOthers ==
    ASSUME StreamTypeOK, Sending, SendByte
    PROVE  \A i \in 1 .. BytesInBuffer :
               buf'[Wrap(tail + i - 1)] = buf[Wrap(tail + i - 1)]
<1> SUFFICES ASSUME NEW i \in 1 .. BytesInBuffer
             PROVE  buf'[Wrap(tail + i - 1)] = buf[Wrap(tail + i - 1)]
    OBVIOUS
<1>1. put \in Nat /\ put < SpacesAvailable
    BY Distances DEF StreamTypeOK, Sending, SendByte, ToWrite, Least
<1>2. Wrap(head + put) # Wrap(tail + i - 1)
    BY <1>1, FreeByte
<1>3. Wrap(tail + i - 1) \in 0 .. RingLength - 1
    BY Distances, StreamBufferConstants DEF StreamTypeOK, Wrap
<1> QED
    BY <1>2, <1>3 DEF StreamTypeOK, SendByte

\* A byte copied out follows those copied before it.
LEMMA ByteTaken ==
    ASSUME StreamTypeOK, Receiving, ReceiveByte
    PROVE  /\ Len(taken') = Len(taken) + 1
           /\ \A i \in 1 .. Len(taken') : taken'[i] = buf'[Wrap(tail' + i - 1)]
<1> DEFINE n == Len(taken)
<1>1. /\ n \in Nat /\ n < RingLength /\ taken \in Seq(Byte) /\ buf' = buf /\ tail' = tail
      /\ taken' = Append(taken, buf[Wrap(tail + n)])
      /\ \A i \in 1 .. n : taken[i] = buf[Wrap(tail + i - 1)]
    <2>1. /\ want \in Nat /\ avail \in Nat /\ avail < RingLength /\ RingLength \in Nat
          /\ taken \in Seq(Byte) /\ n \in Nat
        BY StreamBufferConstants DEF StreamTypeOK
    <2>2. n < avail
        BY <2>1 DEF ReceiveByte, ToRead, Least
    <2> QED
        BY <2>1, <2>2 DEF Receiving, ReceiveByte, buffer
<1>2. /\ Len(taken') = n + 1
      /\ taken'[n + 1] = buf[Wrap(tail + n)]
      /\ \A i \in 1 .. n : taken'[i] = taken[i]
    BY <1>1
<1>3. tail \in Nat
    BY DEF StreamTypeOK
<1>4. tail + (n + 1) - 1 = tail + n
    BY <1>1, <1>3
<1> QED
    BY <1>1, <1>2, <1>4

\* What is copied out was there.
LEMMA TakenThere ==
    ASSUME StreamTypeOK, Receiving, rpc = "copy"
    PROVE  1 .. Len(taken) \subseteq 1 .. BytesInBuffer
<1>1. /\ want \in Nat /\ avail \in Nat /\ Len(taken) \in Nat /\ BytesInBuffer \in Nat
    BY Distances, StreamBufferConstants DEF StreamTypeOK
<1>2. Len(taken) <= avail /\ avail <= BytesInBuffer
    BY <1>1 DEF Receiving, ToRead, Least
<1> QED
    BY <1>1, <1>2

\* Every step keeps what is true of the writer's locals.
LEMMA SendingStep == StreamInv /\ StreamTypeOK' /\ [StreamNext]_streamVars => Sending'
<1> SUFFICES ASSUME StreamInv, StreamTypeOK', [StreamNext]_streamVars PROVE Sending'
    OBVIOUS
<1> USE StreamBufferConstants, Distances DEF StreamInv, StreamTypeOK, Sending, buffer, writer, reader
<1>1. ASSUME UNCHANGED <<buffer, writer>> PROVE Sending'
    BY <1>1, NoneMoved DEF ToWrite, Least
<1>2. ASSUME NEW d \in Chunk, NEW t \in Patience, Send(d, t) PROVE Sending'
    BY <1>2, NoneMoved DEF Send, ToWrite, Least
<1>3. CASE SendCheck
    BY <1>3, NoneMoved DEF SendCheck, ToWrite, Least
<1>4. CASE SendSleep
    BY <1>4, NoneMoved DEF SendSleep, SleepOf, ToWrite, Least
<1>5. CASE SendWake
    BY <1>5, NoneMoved DEF SendWake, WakeOf, ToWrite, Least
<1>6. CASE SendClear
    BY <1>6, NoneMoved DEF SendClear, ToWrite, Least
<1>7. CASE SendLook
    BY <1>7, NoneMoved DEF SendLook, SendGoto, ToWrite, Least
<1>8. CASE SendByte
    <2>1. /\ wpc = "copy" /\ wpc' = wpc /\ data' = data /\ space' = space /\ put' = put + 1
          /\ SpacesAvailable' = SpacesAvailable
        BY <1>8, NoneMoved DEF SendByte
    <2>2. put + 1 <= ToWrite /\ ToWrite' = ToWrite
        BY <1>8 DEF SendByte, ToWrite, Least
    <2> QED
        BY <1>8, <2>1, <2>2, ByteCopied
<1>9. CASE SendCommit
    BY <1>9 DEF SendCommit, ToWrite, Least
<1>10. CASE SendTrigger
    BY <1>10, NoneMoved DEF SendTrigger, SendGoto, ToWrite, Least
<1>11. CASE SendCompleted
    BY <1>11, NoneMoved DEF SendCompleted, SendGoto, Notified, ToWrite, Least
<1>12. ASSUME NEW n \in 1 .. MaxRead, NEW t \in Patience, Receive(n, t) PROVE Sending'
    BY <1>1, <1>12 DEF Receive
<1>13. CASE ReceiveCheck
    BY <1>1, <1>13 DEF ReceiveCheck
<1>14. CASE ReceiveSleep
    BY <1>1, <1>14 DEF ReceiveSleep
<1>15. CASE ReceiveWake
    BY <1>1, <1>15 DEF ReceiveWake
<1>16. CASE ReceiveClear
    BY <1>1, <1>16 DEF ReceiveClear
<1>17. CASE ReceiveLook
    BY <1>1, <1>17 DEF ReceiveLook
<1>18. CASE ReceiveByte
    BY <1>1, <1>18 DEF ReceiveByte
<1>19. CASE ReceiveCommit
    <2>1. Len(taken) \in 0 .. BytesInBuffer
        BY <1>19 DEF ReceiveCommit, Receiving, ToRead, Least
    <2>2. SpacesAvailable' = SpacesAvailable + Len(taken)
        BY <1>19, <2>1, TailMoved DEF ReceiveCommit
    <2> QED
        BY <1>19, <2>1, <2>2 DEF ReceiveCommit, ToWrite, Least
<1>20. CASE ReceiveCompleted
    BY <1>1, <1>20 DEF ReceiveCompleted
<1>21. CASE UNCHANGED streamVars
    BY <1>21, NoneMoved DEF streamVars, ToWrite, Least
<1> QED
    BY <1>2, <1>3, <1>4, <1>5, <1>6, <1>7, <1>8, <1>9, <1>10, <1>11, <1>12, <1>13,
       <1>14, <1>15, <1>16, <1>17, <1>18, <1>19, <1>20, <1>21 DEF StreamNext, Write, Read

\* Every step keeps what is true of the reader's locals.
LEMMA ReceivingStep == StreamInv /\ StreamTypeOK' /\ [StreamNext]_streamVars => Receiving'
<1> SUFFICES ASSUME StreamInv, StreamTypeOK', [StreamNext]_streamVars PROVE Receiving'
    OBVIOUS
<1> USE StreamBufferConstants, Distances DEF StreamInv, StreamTypeOK, Receiving, buffer, writer, reader
<1>1. ASSUME UNCHANGED <<buffer, reader>> PROVE Receiving'
    BY <1>1, NoneMoved DEF ToRead, Least
<1>2. ASSUME NEW d \in Chunk, NEW t \in Patience, Send(d, t) PROVE Receiving'
    BY <1>1, <1>2 DEF Send
<1>3. CASE SendCheck
    BY <1>1, <1>3 DEF SendCheck
<1>4. CASE SendSleep
    BY <1>1, <1>4 DEF SendSleep
<1>5. CASE SendWake
    BY <1>1, <1>5 DEF SendWake
<1>6. CASE SendClear
    BY <1>1, <1>6 DEF SendClear
<1>7. CASE SendLook
    BY <1>1, <1>7 DEF SendLook
<1>8. CASE SendByte
    <2>1. /\ rpc' = rpc /\ want' = want /\ avail' = avail /\ taken' = taken
          /\ head' = head /\ tail' = tail /\ BytesInBuffer' = BytesInBuffer
        BY <1>8, NoneMoved DEF SendByte
    <2>2. ASSUME rpc = "copy", NEW i \in 1 .. Len(taken)
          PROVE  taken[i] = buf'[Wrap(tail + i - 1)]
        <3>1. i \in 1 .. BytesInBuffer
            BY <2>2, TakenThere
        <3> QED
            BY <1>8, <2>2, <3>1, ByteLeavesOthers
    <2> QED
        BY <2>1, <2>2 DEF ToRead, Least, Wrap
<1>9. CASE SendCommit
    <2>1. put \in 0 .. SpacesAvailable
        BY <1>9 DEF SendCommit, Sending, ToWrite, Least
    <2>2. BytesInBuffer' = BytesInBuffer + put
        BY <1>9, <2>1, HeadMoved DEF SendCommit
    <2> QED
        BY <1>9, <2>1, <2>2 DEF SendCommit, ToRead, Least
<1>10. CASE SendTrigger
    BY <1>1, <1>10 DEF SendTrigger
<1>11. CASE SendCompleted
    BY <1>1, <1>11 DEF SendCompleted
<1>12. ASSUME NEW n \in 1 .. MaxRead, NEW t \in Patience, Receive(n, t) PROVE Receiving'
    BY <1>12, NoneMoved DEF Receive, ToRead, Least
<1>13. CASE ReceiveCheck
    BY <1>13, NoneMoved DEF ReceiveCheck, ToRead, Least
<1>14. CASE ReceiveSleep
    BY <1>14, NoneMoved DEF ReceiveSleep, SleepOf, ToRead, Least
<1>15. CASE ReceiveWake
    BY <1>15, NoneMoved DEF ReceiveWake, WakeOf, ToRead, Least
<1>16. CASE ReceiveClear
    BY <1>16, NoneMoved DEF ReceiveClear, ToRead, Least
<1>17. CASE ReceiveLook
    BY <1>17, NoneMoved DEF ReceiveLook, ReceiveGoto, ToRead, Least
<1>18. CASE ReceiveByte
    BY <1>18, ByteTaken, NoneMoved DEF ReceiveByte, ToRead, Least
<1>19. CASE ReceiveCommit
    BY <1>19 DEF ReceiveCommit, ToRead, Least
<1>20. CASE ReceiveCompleted
    BY <1>20, NoneMoved DEF ReceiveCompleted, ReceiveGoto, Notified, ToRead, Least
<1>21. CASE UNCHANGED streamVars
    BY <1>21, NoneMoved DEF streamVars, ToRead, Least
<1> QED
    BY <1>2, <1>3, <1>4, <1>5, <1>6, <1>7, <1>8, <1>9, <1>10, <1>11, <1>12, <1>13,
       <1>14, <1>15, <1>16, <1>17, <1>18, <1>19, <1>20, <1>21 DEF StreamNext, Write, Read

\* The invariant of the stream buffer.
LEMMA Invariant == StreamSpec => []StreamInv
<1>1. StreamInv /\ [StreamNext]_streamVars => StreamInv'
    <2> SUFFICES ASSUME StreamInv, [StreamNext]_streamVars PROVE StreamInv'
        OBVIOUS
    <2>1. StreamTypeOK'
        BY TypeStep DEF StreamInv
    <2> QED
        BY <2>1, RegisteredStep, SendingStep, ReceivingStep DEF StreamInv
<1> QED
    BY Initial, <1>1, PTL DEF StreamSpec

\* The types hold in every state the code can reach.
THEOREM StreamTypes == StreamSpec => []StreamTypeOK
BY Invariant, PTL DEF StreamInv

\* No wake-up is lost, for any length and trigger level: a task sleeps in a
\* call that could be served only if it is about to be told.
THEOREM NoneForgotten == StreamSpec => []NoSleeperForgotten
<1>1. StreamInv => NoSleeperForgotten
    BY DEF StreamInv, StreamTypeOK, Registered, NoSleeperForgotten, Side
<1> QED
    BY Invariant, <1>1, PTL

----------------------------------------------------------------------------
(* The refinement.                                                         *)

\* A stretch of the ring is a sequence of bytes.
LEMMA Stretch ==
    ASSUME NEW h \in 0 .. RingLength - 1, NEW t \in 0 .. RingLength - 1,
           NEW f \in [0 .. RingLength - 1 -> Byte]
    PROVE  LET n == Wrap(RingLength + h - t)
               s == [i \in 1 .. n |-> f[Wrap(t + i - 1)]]
           IN  /\ n \in Nat /\ s \in Seq(Byte) /\ Len(s) = n
               /\ \A i \in 1 .. n : s[i] = f[Wrap(t + i - 1)]
<1> DEFINE n == Wrap(RingLength + h - t)
<1>1. n \in Nat /\ n < RingLength
    BY StreamBufferConstants DEF Wrap
<1>2. ASSUME NEW i \in 1 .. n PROVE f[Wrap(t + i - 1)] \in Byte
    <2>1. Wrap(t + i - 1) \in 0 .. RingLength - 1
        BY <1>1, StreamBufferConstants DEF Wrap
    <2> QED
        BY <2>1
<1> HIDE DEF n
<1>3. [i \in 1 .. n |-> f[Wrap(t + i - 1)]] \in Seq(Byte)
    BY <1>1, <1>2
<1> QED
    BY <1>1, <1>3 DEF n

\* So is what waits to be read, now and after a step.
LEMMA ContentsType ==
    ASSUME StreamTypeOK
    PROVE  /\ Inside \in Seq(Byte) /\ Len(Inside) = BytesInBuffer
           /\ BytesInBuffer \in Nat
           /\ \A i \in 1 .. BytesInBuffer : Inside[i] = buf[Wrap(tail + i - 1)]
<1>1. /\ head \in 0 .. RingLength - 1 /\ tail \in 0 .. RingLength - 1
      /\ buf \in [0 .. RingLength - 1 -> Byte]
    BY DEF StreamTypeOK
<1> QED
    BY <1>1, Stretch DEF Inside, BytesInBuffer

\* The bytes in the ring after a step are a sequence of bytes again.
LEMMA ContentsNext ==
    ASSUME StreamTypeOK'
    PROVE  /\ Inside' \in Seq(Byte) /\ Len(Inside') = BytesInBuffer'
           /\ BytesInBuffer' \in Nat
           /\ \A i \in 1 .. BytesInBuffer' : Inside'[i] = buf'[Wrap(tail' + i - 1)]
<1>1. /\ head' \in 0 .. RingLength - 1 /\ tail' \in 0 .. RingLength - 1
      /\ buf' \in [0 .. RingLength - 1 -> Byte]
    BY DEF StreamTypeOK
<1>2. BytesInBuffer' = Wrap(RingLength + head' - tail')
    BY DEF BytesInBuffer, Wrap
<1>3. Inside' = [i \in 1 .. BytesInBuffer' |-> buf'[Wrap(tail' + i - 1)]]
    BY DEF Inside, Wrap
<1> QED
    BY <1>1, <1>2, <1>3, Stretch

\* It stays the same while no index moves and no byte of it is written.
LEMMA ContentsKept ==
    ASSUME StreamTypeOK, head' = head, tail' = tail,
           \A i \in 1 .. BytesInBuffer :
               buf'[Wrap(tail + i - 1)] = buf[Wrap(tail + i - 1)]
    PROVE  Inside' = Inside
<1>1. BytesInBuffer' = BytesInBuffer
    BY NoneMoved
<1> QED
    BY <1>1 DEF Inside, Wrap

\* Storing the head appends the bytes that were copied.
LEMMA ContentsGrow ==
    ASSUME StreamInv, StreamTypeOK', SendCommit
    PROVE  /\ put \in 1 .. Len(data)
           /\ Len(Inside) + put <= RingLength - 1
           /\ Inside' = Inside \o SubSeq(data, 1, put)
<1> DEFINE b == BytesInBuffer
<1>1. /\ put \in Nat /\ data \in Seq(Byte) /\ Len(data) \in Nat /\ data # <<>>
      /\ space \in Nat /\ space > 0 /\ space <= SpacesAvailable
    BY StreamBufferConstants DEF StreamInv, StreamTypeOK, Sending, SendCommit
<1>2. put \in 1 .. Len(data) /\ put <= SpacesAvailable
    BY <1>1, Distances DEF StreamInv, SendCommit, ToWrite, Least
<1>3. put \in 0 .. SpacesAvailable
    BY <1>1, <1>2
<1>4. b' = b + put
    BY <1>3, HeadMoved DEF StreamInv, SendCommit
<1>5. b \in Nat /\ b + put <= RingLength - 1
    BY <1>2, Distances, StreamBufferConstants DEF StreamInv
<1>6. ASSUME NEW i \in 1 .. b + put
      PROVE  Inside'[i] = (Inside \o SubSeq(data, 1, put))[i]
    <2>1. Inside'[i] = buf[Wrap(tail + i - 1)]
        BY <1>4, <1>6, ContentsNext DEF SendCommit
    <2>2. CASE i <= b
        <3>1. i \in 1 .. b
            BY <1>5, <1>6, <2>2
        <3>2. Inside[i] = buf[Wrap(tail + i - 1)]
            BY <3>1, ContentsType DEF StreamInv
        <3> QED
            BY <1>1, <1>2, <2>1, <3>1, <3>2, ContentsType DEF StreamInv
    <2>3. CASE i > b
        <3>1. i - b \in 1 .. put
            BY <1>2, <1>5, <1>6, <2>3
        <3>2. Wrap(tail + i - 1) = Wrap(head + (i - b) - 1)
            BY <1>2, <1>5, <2>3, StreamBufferConstants
               DEF StreamInv, StreamTypeOK, BytesInBuffer, Wrap
        <3>3. buf[Wrap(tail + i - 1)] = data[i - b]
            BY <3>1, <3>2 DEF StreamInv, Sending, SendCommit
        <3> QED
            BY <1>1, <1>2, <2>1, <2>3, <3>1, <3>3, ContentsType DEF StreamInv
    <2> QED
        <3>1. i <= b \/ i > b
            BY <1>1, <1>5, <1>6
        <3> QED
            BY <2>2, <2>3, <3>1
<1>7. Inside' \in Seq(Byte) /\ Len(Inside') = b + put
    BY <1>4, ContentsNext
<1>8. /\ Inside \o SubSeq(data, 1, put) \in Seq(Byte)
      /\ Len(Inside \o SubSeq(data, 1, put)) = b + put
    <2>1. SubSeq(data, 1, put) \in Seq(Byte) /\ Len(SubSeq(data, 1, put)) = put
        BY <1>1, <1>2
    <2> QED
        BY <2>1, <1>5, ContentsType DEF StreamInv
<1>9. Inside' = Inside \o SubSeq(data, 1, put)
    BY <1>6, <1>7, <1>8
<1> QED
    BY <1>2, <1>5, <1>9, ContentsType DEF StreamInv

\* A sequence is what follows the first n elements of another when it has their
\* number and each of them in its place: what a receive leaves in the ring.
LEMMA RestOfSequence ==
    ASSUME NEW S, NEW s \in Seq(S), NEW u \in Seq(S), NEW n \in Nat, NEW b \in Nat,
           n <= b, Len(s) = b, Len(u) = b - n,
           \A i \in 1 .. b - n : u[i] = s[n + i]
    PROVE  u = SubSeq(s, n + 1, b)
<1> DEFINE w == SubSeq(s, n + 1, b)
<1>1. w \in Seq(S) /\ Len(w) = b - n
    OBVIOUS
<1>2. ASSUME NEW i \in 1 .. b - n PROVE w[i] = s[n + i]
    OBVIOUS
<1> HIDE DEF w
<1>3. \A i \in 1 .. Len(u) : u[i] = w[i]
    BY <1>2
<1>4. u = w
    BY <1>1, <1>3
<1> QED
    BY <1>4 DEF w

\* Storing the tail removes the bytes that were copied.
LEMMA ContentsShrink ==
    ASSUME StreamInv, StreamTypeOK', ReceiveCommit
    PROVE  /\ Len(taken) \in 1 .. Len(Inside)
           /\ taken = SubSeq(Inside, 1, Len(taken))
           /\ Inside' = SubSeq(Inside, Len(taken) + 1, Len(Inside))
<1> DEFINE b == BytesInBuffer
           n == Len(taken)
<1>1. /\ taken \in Seq(Byte) /\ n \in Nat /\ want \in Nat /\ want > 0
      /\ avail \in Nat /\ avail > 0 /\ avail <= b /\ b \in Nat
    BY Distances, StreamBufferConstants DEF StreamInv, StreamTypeOK, Receiving, ReceiveCommit
<1>2. n \in 1 .. b
    BY <1>1 DEF ReceiveCommit, ToRead, Least
<1>3. b' = b - n
    BY <1>1, <1>2, TailMoved DEF StreamInv, ReceiveCommit
<1>4. Inside \in Seq(Byte) /\ Len(Inside) = b
    BY ContentsType DEF StreamInv
<1>5. ASSUME NEW i \in 1 .. n PROVE taken[i] = Inside[i]
    BY <1>1, <1>2, ContentsType DEF StreamInv, Receiving, ReceiveCommit
<1>6. Inside' \in Seq(Byte) /\ Len(Inside') = b - n
    BY <1>3, ContentsNext
<1>7. ASSUME NEW i \in 1 .. b - n PROVE Inside'[i] = Inside[n + i]
    <2>1. Inside'[i] = buf[Wrap(Wrap(tail + n) + i - 1)]
        BY <1>3, ContentsNext DEF ReceiveCommit
    <2>2. Wrap(Wrap(tail + n) + i - 1) = Wrap(tail + (n + i) - 1)
        <3>1. tail \in 0 .. RingLength - 1 /\ n \in Nat /\ i \in Nat /\ i > 0 /\ n + i < RingLength
            BY <1>1, <1>2, Distances, StreamBufferConstants DEF StreamInv, StreamTypeOK
        <3> QED
            <4>1. i \in Nat \ {0}
                BY <3>1
            <4> QED
                BY <3>1, <4>1, TwoSteps, Zenon
    <2>3. n + i \in 1 .. b
        BY <1>1, <1>2
    <2> QED
        BY <2>1, <2>2, <2>3, ContentsType DEF StreamInv, ReceiveCommit
<1>8. taken = SubSeq(Inside, 1, n)
    BY <1>1, <1>2, <1>4, <1>5
<1>9. Inside' = SubSeq(Inside, n + 1, b)
    <2> HIDE DEF b, n
    <2>1. b \in Nat /\ n \in Nat /\ n <= b
        BY <1>1, <1>2
    <2>2. Inside \in Seq(Byte) /\ Len(Inside) = b
        BY <1>4
    <2>3. Inside' \in Seq(Byte) /\ Len(Inside') = b - n
        BY <1>6
    <2>4. \A i \in 1 .. b - n : Inside'[i] = Inside[n + i]
        BY <1>7
    <2> QED
        BY <2>1, <2>2, <2>3, <2>4, RestOfSequence, Zenon
<1> QED
    BY <1>2, <1>4, <1>8, <1>9

\* Every step is one of the pipe, or none.
LEMMA PipeStep == StreamInv /\ StreamTypeOK' /\ [StreamNext]_streamVars => [Pipe!Next]_(Pipe!vars)
<1> SUFFICES ASSUME StreamInv, StreamTypeOK', [StreamNext]_streamVars PROVE [Pipe!Next]_(Pipe!vars)
    OBVIOUS
<1>1. CASE SendCommit
    <2>1. data' = data /\ Handed' = Handed
        BY <1>1 DEF SendCommit, Handed, reader
    <2> QED
        BY <1>1, <2>1, ContentsGrow DEF Pipe!Next, Pipe!Put
<1>2. CASE ReceiveCommit
    <2>1. data' = data /\ Handed' = taken
        BY <1>2 DEF ReceiveCommit, Handed, writer
    <2> QED
        BY <1>2, <2>1, ContentsShrink DEF Pipe!Next, Pipe!Take
<1>3. CASE ~SendCommit /\ ~ReceiveCommit
    <2>1. head' = head /\ tail' = tail /\ (SendByte \/ buf' = buf)
        BY <1>3 DEF StreamNext, Write, Read, streamVars, buffer, Send, SendCheck, SendSleep, SendWake,
           SendClear, SendLook, SendByte, SendTrigger, SendCompleted, Receive, ReceiveCheck,
           ReceiveSleep, ReceiveWake, ReceiveClear, ReceiveLook, ReceiveByte,
           ReceiveCompleted
    <2>2. Inside' = Inside
        BY <2>1, ContentsKept, ByteLeavesOthers DEF StreamInv
    <2>3. \/ data' = data /\ Handed' = Handed
          \/ Handed' = Handed
          \/ data' = data /\ Handed' = <<>>
        BY <1>3 DEF StreamNext, Write, Read, streamVars, writer, reader, Handed, Send, SendCheck,
           SendSleep, SendWake, SendClear, SendLook, SendByte, SendTrigger, SendCompleted,
           SendGoto, Receive, ReceiveCheck, ReceiveSleep, ReceiveWake, ReceiveClear,
           ReceiveLook, ReceiveByte, ReceiveCompleted, ReceiveGoto
    <2>4. data' \in Seq(Byte)
        BY DEF StreamTypeOK
    <2> QED
        BY <2>2, <2>3, <2>4 DEF Pipe!Next, Pipe!vars, Pipe!Ask, Pipe!Forget
<1> QED
    BY <1>1, <1>2, <1>3

\* The stream buffer is a pipe: for any length and any interleaving of the
\* copies and the index updates of its two sides, the bytes taken are the oldest
\* of those accepted.
THEOREM Implementation == StreamSpec => ImplementsPipe
<1>1. StreamInit => Pipe!Init
    <2> SUFFICES ASSUME StreamInit PROVE Pipe!Init
        OBVIOUS
    <2>1. BytesInBuffer = 0
        BY StreamBufferConstants DEF StreamInit, BytesInBuffer, Wrap
    <2>2. Inside = <<>>
        BY <2>1 DEF Inside
    <2> QED
        BY <2>2 DEF StreamInit, Pipe!Init, Handed
<1>2. StreamInv /\ StreamInv' /\ [StreamNext]_streamVars => [Pipe!Next]_(Pipe!vars)
    BY PipeStep DEF StreamInv
<1> QED
    BY Invariant, <1>1, <1>2, PTL DEF StreamSpec, ImplementsPipe, Pipe!Spec

(***************************************************************************)
(*                 Time across the wrap of the tick count                  *)
(***************************************************************************)

\* The tick count at time T, the number of ticks since the start, and the count
\* of its overflows.
TickAt(T) == T % TickMod
OverflowsAt(T) == (T \div TickMod) % OvfMod
ShowsTime(kk, T) == kk.tick = TickAt(T) /\ kk.ovf = OverflowsAt(T)

\* Less than a whole turn later the tick count has wrapped once, or not at all.
LEMMA Turn ==
    ASSUME NEW T \in Nat, NEW d \in 0 .. TickMod - 1
    PROVE  /\ TickAt(T) \in 0 .. TickMod - 1 /\ T \div TickMod \in Nat
           /\ IF TickAt(T) + d < TickMod
              THEN /\ TickAt(T + d) = TickAt(T) + d
                   /\ (T + d) \div TickMod = T \div TickMod
              ELSE /\ TickAt(T + d) = TickAt(T) + d - TickMod
                   /\ (T + d) \div TickMod = (T \div TickMod) + 1
<1> DEFINE a == T % TickMod
           e == T \div TickMod
<1>1. TickMod \in Nat \ {0} BY KernelConstants
<1>2. a \in 0 .. TickMod - 1 /\ e \in Nat /\ T = TickMod * e + a BY <1>1, Division
<1> HIDE DEF a, e
<1>3. CASE a + d < TickMod
  <2>1. a + d \in 0 .. TickMod - 1 /\ T + d = TickMod * e + (a + d) BY <1>1, <1>2, <1>3
  <2>2. (T + d) % TickMod = a + d /\ (T + d) \div TickMod = e
    BY <1>1, <1>2, <2>1, Quotient
  <2> QED BY <1>2, <1>3, <2>2 DEF TickAt, a, e
<1>4. CASE ~(a + d < TickMod)
  <2>1. a + d - TickMod \in 0 .. TickMod - 1
        /\ T + d = TickMod * (e + 1) + (a + d - TickMod) /\ e + 1 \in Nat
    BY <1>1, <1>2, <1>4
  <2>2. (T + d) % TickMod = a + d - TickMod /\ (T + d) \div TickMod = e + 1
    BY <1>1, <2>1, Quotient
  <2> QED BY <1>2, <1>4, <2>2 DEF TickAt, a, e
<1> QED BY <1>3, <1>4

\* The difference of two tick counts, as an unsigned number.
LEMMA Difference ==
    ASSUME NEW a \in 0 .. TickMod - 1, NEW b \in 0 .. TickMod - 1
    PROVE  (a - b) % TickMod = IF a >= b THEN a - b ELSE a - b + TickMod
<1>1. TickMod \in Nat \ {0} BY KernelConstants
<1>2. CASE a >= b BY <1>1, <1>2
<1>3. CASE a < b
  <2>1. (TickMod * (-1) + (a - b + TickMod)) % TickMod = a - b + TickMod BY <1>1, <1>3
  <2> QED BY <1>1, <1>3, <2>1
<1> QED BY <1>2, <1>3

\* So a time less than a turn ago is known exactly.
LEMMA Elapsed ==
    ASSUME NEW T \in Nat, NEW d \in 0 .. TickMod - 1
    PROVE  (TickAt(T + d) - TickAt(T)) % TickMod = d
<1> DEFINE a == TickAt(T)
           b == TickAt(T + d)
<1>1. TickMod \in Nat \ {0} BY KernelConstants
<1>2. a \in 0 .. TickMod - 1 /\ b = IF a + d < TickMod THEN a + d ELSE a + d - TickMod
  BY Turn
<1> HIDE DEF a, b
<1>3. b \in 0 .. TickMod - 1 BY <1>1, <1>2
<1>4. (b - a) % TickMod = IF b >= a THEN b - a ELSE b - a + TickMod BY <1>2, <1>3, Difference
<1>5. (b - a) % TickMod = d BY <1>1, <1>2, <1>4
<1> QED BY <1>5 DEF a, b

\* xTaskCheckForTimeOut is exact wherever the tick count and the count of its
\* overflows wrap: a call that began to wait at time T, and whose deadline is
\* T + ticks, has expired d ticks later exactly when that time is reached.  Until
\* then the timeout state and the wait are those of a call that begins now and has
\* the same deadline, so that waking without reason, however often, moves no
\* deadline.  d is less than a turn of the count, 49 days: a task woken
\* later may be told to go on waiting.
THEOREM TimeoutsAreExact ==
    ASSUME NEW T \in Nat, NEW d \in 0 .. TickMod - 1, NEW ticks \in 0 .. MaxDelay - 1,
           NEW kk, ShowsTime(kk, T + d), kk.cur \notin kk.aborted
    PROVE  LET x == CheckForTimeOut(kk, TickAt(T), OverflowsAt(T), ticks)
           IN  /\ x.expired <=> T + ticks <= T + d
               /\ ~x.expired => /\ x.at = TickAt(T + d) /\ x.ovf = OverflowsAt(T + d)
                                /\ T + d + x.wait = T + ticks
<1> DEFINE entry == TickAt(T)
           ovf == OverflowsAt(T)
           elapsed == (kk.tick - entry) % TickMod
           x == CheckForTimeOut(kk, entry, ovf, ticks)
<1>1. TickMod \in Nat \ {0, 1} /\ ticks # MaxDelay /\ ticks \in Nat /\ d \in Nat
  BY KernelConstants DEF MaxDelay
<1>2. elapsed = d /\ kk.tick = TickAt(T + d) BY Elapsed DEF ShowsTime
<1>3. ~(kk.ovf # ovf /\ kk.tick >= entry)
  <2>1. CASE entry + d < TickMod
    <3>1. (T + d) \div TickMod = T \div TickMod BY <2>1, Turn
    <3>2. kk.ovf = ovf BY <3>1 DEF ShowsTime, OverflowsAt
    <3> QED BY <3>2
  <2>2. CASE ~(entry + d < TickMod)
    <3>1. entry \in 0 .. TickMod - 1 /\ kk.tick = entry + d - TickMod BY <1>2, <2>2, Turn
    <3> QED BY <1>1, <3>1
  <2> QED BY <2>1, <2>2
<1>4. /\ elapsed >= ticks => x.expired = TRUE
      /\ ~(elapsed >= ticks) => /\ x.expired = FALSE /\ x.at = kk.tick /\ x.ovf = kk.ovf
                               /\ x.wait = ticks - elapsed
  <2> HIDE DEF entry, ovf
  <2>1. ~(kk.ovf # ovf /\ kk.tick >= entry) BY <1>3
  <2> QED BY <1>1, <2>1 DEF CheckForTimeOut
<1> HIDE DEF elapsed, x
<1>5. /\ x.expired <=> T + ticks <= T + d
      /\ ~x.expired => /\ x.at = TickAt(T + d) /\ x.ovf = OverflowsAt(T + d)
                       /\ T + d + x.wait = T + ticks
  BY <1>1, <1>2, <1>4 DEF ShowsTime
<1> QED BY <1>5 DEF x, entry, ovf

\* xTaskDelayUntil decides right across the wrap: a task that last woke at time T
\* and asks d ticks later to sleep until T + inc has to sleep exactly when
\* that time is still to come, and the ticks it is to sleep are then those that are
\* left of it.
THEOREM PeriodsAreExact ==
    ASSUME NEW T \in Nat, NEW d \in 0 .. TickMod - 1, NEW inc \in 1 .. TickMod - 1,
           NEW kk, kk.tick = TickAt(T + d)
    PROVE  /\ ShouldDelay(kk, TickAt(T), inc) <=> T + d < T + inc
           /\ T + d < T + inc =>
                 (((TickAt(T) + inc) % TickMod) - kk.tick) % TickMod = (T + inc) - (T + d)
<1> DEFINE a == TickAt(T)
           b == TickAt(T + d)
           w == TickAt(T + inc)
<1>1. TickMod \in Nat \ {0, 1} /\ inc \in 0 .. TickMod - 1 /\ d \in Nat BY KernelConstants
<1>2. /\ a \in 0 .. TickMod - 1
      /\ b = IF a + d < TickMod THEN a + d ELSE a + d - TickMod
      /\ w = IF a + inc < TickMod THEN a + inc ELSE a + inc - TickMod
  BY <1>1, Turn
<1>3. (a + inc) % TickMod = w
  <2> HIDE DEF a, w
  <2>1. CASE a + inc < TickMod BY <1>1, <1>2, <2>1
  <2>2. CASE ~(a + inc < TickMod)
    <3>1. (TickMod * 1 + (a + inc - TickMod)) % TickMod = a + inc - TickMod
      BY <1>1, <1>2, <2>2
    <3> QED BY <1>1, <1>2, <2>2, <3>1
  <2> QED BY <2>1, <2>2
<1>4. ShouldDelay(kk, a, inc) <=> IF b < a THEN w < a /\ w > b ELSE w < a \/ w > b
  <2> HIDE DEF a, b, w
  <2>1. kk.tick = b BY DEF b
  <2> QED BY <1>3, <2>1 DEF ShouldDelay
<1>5. d < inc => (w - b) % TickMod = inc - d
  <2>1. b \in 0 .. TickMod - 1 /\ w \in 0 .. TickMod - 1
    <3> HIDE DEF a, b, w
    <3> QED BY <1>1, <1>2
  <2>2. (w - b) % TickMod = IF w >= b THEN w - b ELSE w - b + TickMod BY <2>1, Difference
  <2> HIDE DEF a, b, w
  <2> QED BY <1>1, <1>2, <2>1, <2>2
<1> HIDE DEF a, b, w
<1>6. ShouldDelay(kk, a, inc) <=> d < inc BY <1>1, <1>2, <1>4
<1>7. kk.tick = b /\ T + d \in Nat /\ T + inc \in Nat
      /\ (T + d < T + inc <=> d < inc) /\ (T + inc) - (T + d) = inc - d
  BY <1>1 DEF b
<1> QED BY <1>3, <1>5, <1>6, <1>7 DEF a

\* A timer command that was timed at T, or an expiry at that time, and is looked at
\* d ticks later is late exactly when the period has passed, wherever the tick count
\* wraps; and if it has not, the timer goes to the overflow list exactly when
\* its expiry lies beyond the next wrap.
THEOREM TimersAreExact ==
    ASSUME NEW T \in Nat, NEW d \in 0 .. TickMod - 1,
           NEW tm0, NEW x, tm0.period[x] \in 1 .. TickMod - 1
    PROVE  LET p == tm0.period[x]
               w == TickAt(T + p)
               now == TickAt(T + d)
           IN  /\ Late(tm0, x, w, now, TickAt(T)) <=> T + p <= T + d
               /\ T + d < T + p =>
                     (w <= now <=> (T + d) \div TickMod < (T + p) \div TickMod)
<1> DEFINE p == tm0.period[x]
           a == TickAt(T)
           b == TickAt(T + d)
           w == TickAt(T + p)
           e == T \div TickMod
<1>1. TickMod \in Nat \ {0, 1} /\ p \in 0 .. TickMod - 1 /\ p > 0 /\ d \in Nat
  BY KernelConstants
<1> HIDE DEF p
<1>2. /\ a \in 0 .. TickMod - 1 /\ e \in Nat
      /\ IF a + d < TickMod THEN b = a + d /\ (T + d) \div TickMod = e
                            ELSE b = a + d - TickMod /\ (T + d) \div TickMod = e + 1
      /\ IF a + p < TickMod THEN w = a + p /\ (T + p) \div TickMod = e
                            ELSE w = a + p - TickMod /\ (T + p) \div TickMod = e + 1
  BY <1>1, Turn
<1>3. (b - a) % TickMod = d BY Elapsed
<1> HIDE DEF a, b, w, e
<1>4. Late(tm0, x, w, b, a) <=> IF w <= b THEN d >= p ELSE b < a /\ w >= a
  BY <1>3 DEF Late, p
<1>5. Late(tm0, x, w, b, a) <=> d >= p BY <1>1, <1>2, <1>4
<1>6. d < p => (w <= b <=> (T + d) \div TickMod < (T + p) \div TickMod)
  BY <1>1, <1>2
<1>7. (T + p <= T + d <=> d >= p) /\ (T + d < T + p <=> d < p) BY <1>1
<1> QED BY <1>5, <1>6, <1>7 DEF a, b, w, p

(***************************************************************************)
(*                           The target humidity                           *)
(***************************************************************************)

-----------------------------------------------------------------------------
(* Queues.                                                                 *)

(* What a receiver of q that has e now ends up with. *)
Final(q, e) == IF q = << >> THEN e ELSE q[Len(q)]

(* The last to come is the last to be received. *)
LEMMA AppendFinal ==
    ASSUME NEW S, NEW q \in Seq(S), NEW t \in S
    PROVE  /\ Append(q, t) \in Seq(S) /\ Append(q, t) # << >>
           /\ Len(Append(q, t)) = Len(q) + 1 /\ Len(q) \in Nat
           /\ \A e : Final(Append(q, t), e) = t
<1>1. /\ Append(q, t) \in Seq(S) /\ Len(Append(q, t)) = Len(q) + 1
      /\ Append(q, t)[Len(q) + 1] = t /\ Len(q) \in Nat
  BY AppendProperties, LenProperties
<1>2. Append(q, t) # << >>
  BY <1>1
<1> QED
  BY <1>1, <1>2 DEF Final

(* Taking from the front leaves the end as it is. *)
LEMMA TailFinal ==
    ASSUME NEW S, NEW q \in Seq(S), q # << >>
    PROVE  /\ Head(q) \in S /\ Tail(q) \in Seq(S)
           /\ Len(Tail(q)) <= Len(q) /\ Len(q) \in Nat /\ Len(Tail(q)) \in Nat
           /\ \A e : Final(Tail(q), Head(q)) = Final(q, e)
<1> DEFINE l == Len(q)
           t == Tail(q)
           m == Len(t)
<1>1. /\ l \in Nat /\ l >= 1 /\ Head(q) = q[1] /\ Head(q) \in S
      /\ t \in Seq(S) /\ m = l - 1
      /\ \A i \in 1 .. m : t[i] = q[i + 1]
  BY HeadTailProperties, LenProperties, EmptySeq, ElementOfSeq
<1>2. m \in Nat /\ (t = << >> <=> m = 0)
  BY <1>1, LenProperties, EmptySeq
<1>3. CASE m = 0
  BY <1>1, <1>2, <1>3 DEF Final
<1>4. CASE m # 0
  <2> HIDE DEF l, m, t
  <2>1. m \in 1 .. m /\ m + 1 = l
    BY <1>1, <1>2, <1>4
  <2>2. t[m] = q[l]
    BY <1>1, <2>1
  <2> QED
    BY <1>1, <1>2, <1>4, <2>2 DEF Final, l, m, t
<1> QED
  BY <1>3, <1>4

LEMMA FinalIn ==
    ASSUME NEW S, NEW q \in Seq(S), NEW e \in S PROVE Final(q, e) \in S
<1>1. Len(q) \in Nat /\ (q = << >> <=> Len(q) = 0)
  BY LenProperties, EmptySeq
<1>2. CASE q # << >>
  <2>1. Len(q) \in 1 .. Len(q)
    BY <1>1, <1>2
  <2> QED
    BY <1>2, <2>1, ElementOfSeq DEF Final
<1> QED
  BY <1>2 DEF Final

(* Nothing but readings, before a step if after it. *)
LEMMA ReadingsAppend ==
    ASSUME NEW S, NEW q \in Seq(S), NEW t \in S,
           Append(q, t) \in Seq({Reading})
    PROVE  q \in Seq({Reading}) /\ t = Reading
<1>1. /\ Len(Append(q, t)) = Len(q) + 1 /\ Len(q) \in Nat
      /\ \A i \in 1 .. Len(q) : Append(q, t)[i] = q[i]
      /\ Append(q, t)[Len(q) + 1] = t
  BY AppendProperties, LenProperties
<1>2. \A i \in 1 .. Len(q) + 1 : Append(q, t)[i] = Reading
  BY <1>1, ElementOfSeq
<1> DEFINE l == Len(q)
           r == Append(q, t)
<1>3. /\ l \in Nat /\ \A i \in 1 .. l : r[i] = q[i]
      /\ \A i \in 1 .. l + 1 : r[i] = Reading
      /\ r[l + 1] = t
  BY <1>1, <1>2
<1> HIDE DEF l, r
<1>4. t = Reading /\ \A i \in 1 .. l : q[i] = Reading
  BY <1>3
<1> QED
  BY <1>4, SeqDef DEF l

LEMMA ReadingsTail ==
    ASSUME NEW S, NEW q \in Seq(S), q # << >>, Head(q) = Reading,
           Tail(q) \in Seq({Reading})
    PROVE  q \in Seq({Reading})
<1> DEFINE l == Len(q)
           t == Tail(q)
<1>1. /\ l \in Nat /\ l >= 1 /\ q[1] = Reading
      /\ Len(t) = l - 1
      /\ \A i \in 1 .. Len(t) : t[i] = q[i + 1]
  BY HeadTailProperties, LenProperties, EmptySeq
<1>2. \A i \in 1 .. Len(t) : t[i] = Reading
  BY ElementOfSeq
<1> HIDE DEF l, t
<1>3. ASSUME NEW i \in 1 .. l PROVE q[i] = Reading
  <2>1. CASE i = 1
    BY <1>1, <2>1
  <2>2. CASE i # 1
    <3> DEFINE j == i - 1
    <3>1. j \in 1 .. Len(t) /\ j + 1 = i
      BY <1>1, <2>2
    <3> HIDE DEF j
    <3> QED
      BY <1>1, <1>2, <3>1
  <2> QED
    BY <2>1, <2>2
<1> QED
  BY <1>3, SeqDef DEF l

(* A receiver that holds e and empties q, which may hold readings, has v   *)
(* in the end.                                                             *)
EndsWith(q, e, v) ==
    \/ OnlyReadings(q) /\ v = e
    \/ \E i \in 1 .. Len(q) :
          /\ q[i] = v /\ v # Reading
          /\ \A j \in 1 .. Len(q) : j > i => q[j] = Reading

LEMMA OnlyReadingsMeans ==
    ASSUME NEW S, NEW q \in Seq(S)
    PROVE  OnlyReadings(q) <=> \A i \in 1 .. Len(q) : q[i] = Reading
<1>1. ASSUME OnlyReadings(q), NEW i \in 1 .. Len(q) PROVE q[i] = Reading
  BY <1>1, ElementOfSeq DEF OnlyReadings
<1>2. ASSUME \A i \in 1 .. Len(q) : q[i] = Reading PROVE OnlyReadings(q)
  BY <1>2, SeqDef DEF OnlyReadings
<1> QED
  BY <1>1, <1>2

LEMMA EndsAppend ==
    ASSUME NEW S, NEW q \in Seq(S), NEW t \in S
    PROVE  /\ t # Reading => /\ ~OnlyReadings(Append(q, t))
                             /\ \A e : EndsWith(Append(q, t), e, t)
           /\ t = Reading =>
                 /\ OnlyReadings(Append(q, t)) <=> OnlyReadings(q)
                 /\ \A e, v : EndsWith(q, e, v) => EndsWith(Append(q, t), e, v)
<1> DEFINE l == Len(q)
           r == Append(q, t)
<1>1. /\ r \in Seq(S) /\ l \in Nat /\ Len(r) = l + 1
      /\ \A i \in 1 .. l : r[i] = q[i]
      /\ r[l + 1] = t
  BY AppendProperties, LenProperties
<1>2. /\ OnlyReadings(q) <=> \A i \in 1 .. l : q[i] = Reading
      /\ OnlyReadings(r) <=> \A i \in 1 .. l + 1 : r[i] = Reading
  BY <1>1, OnlyReadingsMeans
<1>3. /\ \A e, v : EndsWith(q, e, v) <=>
            \/ OnlyReadings(q) /\ v = e
            \/ \E i \in 1 .. l : /\ q[i] = v /\ v # Reading
                                 /\ \A j \in 1 .. l : j > i => q[j] = Reading
      /\ \A e, v : EndsWith(r, e, v) <=>
            \/ OnlyReadings(r) /\ v = e
            \/ \E i \in 1 .. l + 1 :
                  /\ r[i] = v /\ v # Reading
                  /\ \A j \in 1 .. l + 1 : j > i => r[j] = Reading
  BY <1>1 DEF EndsWith
<1> HIDE DEF l, r
<1>4. ASSUME t # Reading
      PROVE  ~OnlyReadings(r) /\ \A e : EndsWith(r, e, t)
  <2>1. l + 1 \in 1 .. l + 1
    BY <1>1
  <2>2. \A j \in 1 .. l + 1 : ~(j > l + 1)
    BY <1>1
  <2> QED
    BY <1>1, <1>2, <1>3, <1>4, <2>1, <2>2
<1>5. ASSUME t = Reading
      PROVE  /\ OnlyReadings(r) <=> OnlyReadings(q)
             /\ \A e, v : EndsWith(q, e, v) => EndsWith(r, e, v)
  <2>1. \A i \in 1 .. l + 1 : i \in 1 .. l \/ i = l + 1
    BY <1>1
  <2>2. 1 .. l \subseteq 1 .. l + 1
    BY <1>1
  <2>3. OnlyReadings(r) <=> OnlyReadings(q)
    BY <1>1, <1>2, <1>5, <2>1, <2>2
  <2>4. ASSUME NEW e, NEW v, EndsWith(q, e, v) PROVE EndsWith(r, e, v)
    <3>1. CASE OnlyReadings(q) /\ v = e
      BY <1>3, <2>3, <3>1
    <3>2. CASE \E i \in 1 .. l : /\ q[i] = v /\ v # Reading
                                /\ \A j \in 1 .. l : j > i => q[j] = Reading
      BY <1>1, <1>3, <1>5, <2>1, <2>2, <3>2
    <3> QED
      BY <1>3, <2>4, <3>1, <3>2
  <2> QED
    BY <2>3, <2>4
<1> QED
  BY <1>4, <1>5 DEF r

(* The two cases of it in to_UI. *)
LEMMA EndsInUI ==
    ASSUME NEW S, NEW q \in Seq(S \cup {Reading})
    PROVE  /\ OnlyReadings(Append(q, Reading)) <=> OnlyReadings(q)
           /\ \A e, v : EndsWith(q, e, v)
                         => EndsWith(Append(q, Reading), e, v)
           /\ \A t \in S : t # Reading => /\ ~OnlyReadings(Append(q, t))
                                         /\ \A e : EndsWith(Append(q, t), e, t)
<1>1. ASSUME NEW t \in S \cup {Reading}
      PROVE  /\ t # Reading => /\ ~OnlyReadings(Append(q, t))
                               /\ \A e : EndsWith(Append(q, t), e, t)
             /\ t = Reading =>
                   /\ OnlyReadings(Append(q, t)) <=> OnlyReadings(q)
                   /\ \A e, v : EndsWith(q, e, v)
                                 => EndsWith(Append(q, t), e, v)
  BY EndsAppend
<1>2. Reading \in S \cup {Reading}
  OBVIOUS
<1>3. /\ OnlyReadings(Append(q, Reading)) <=> OnlyReadings(q)
      /\ \A e, v : EndsWith(q, e, v) => EndsWith(Append(q, Reading), e, v)
  BY <1>1, <1>2
<1> QED
  BY <1>1, <1>3

LEMMA EndsTail ==
    ASSUME NEW S, NEW q \in Seq(S), q # << >>
    PROVE  /\ Head(q) = Reading =>
                 /\ OnlyReadings(Tail(q)) <=> OnlyReadings(q)
                 /\ \A e, v : EndsWith(q, e, v) => EndsWith(Tail(q), e, v)
           /\ Head(q) # Reading =>
                 /\ ~OnlyReadings(q)
                 /\ \A e, v : EndsWith(q, e, v)
                                => EndsWith(Tail(q), Head(q), v)
<1> DEFINE l == Len(q)
           t == Tail(q)
           m == Len(t)
<1>1. /\ l \in Nat /\ l >= 1 /\ Head(q) = q[1] /\ t \in Seq(S)
      /\ m = l - 1 /\ \A i \in 1 .. m : t[i] = q[i + 1]
  BY HeadTailProperties, LenProperties, EmptySeq
<1>2. /\ OnlyReadings(q) <=> \A i \in 1 .. l : q[i] = Reading
      /\ OnlyReadings(t) <=> \A i \in 1 .. m : t[i] = Reading
  BY <1>1, OnlyReadingsMeans
<1>3. /\ \A e, v : EndsWith(q, e, v) <=>
            \/ OnlyReadings(q) /\ v = e
            \/ \E i \in 1 .. l : /\ q[i] = v /\ v # Reading
                                 /\ \A j \in 1 .. l : j > i => q[j] = Reading
      /\ \A e, v : EndsWith(t, e, v) <=>
            \/ OnlyReadings(t) /\ v = e
            \/ \E i \in 1 .. m : /\ t[i] = v /\ v # Reading
                                 /\ \A j \in 1 .. m : j > i => t[j] = Reading
  BY DEF EndsWith
<1> HIDE DEF l, t, m
<1>4. /\ 1 \in 1 .. l /\ \A i \in 1 .. m : i + 1 \in 1 .. l
      /\ \A i \in 1 .. l : i = 1 \/ (i - 1 \in 1 .. m /\ (i - 1) + 1 = i)
      /\ \A i \in 1 .. m : i \in Int
  BY <1>1
<1>5. ASSUME \A j \in 1 .. l : j > 1 => q[j] = Reading PROVE OnlyReadings(t)
  <2>1. ASSUME NEW i \in 1 .. m PROVE i + 1 > 1 /\ i + 1 \in 1 .. l
    BY <1>4
  <2> QED
    BY <1>1, <1>2, <1>5, <2>1
<1>6. ASSUME NEW i \in 1 .. l, i # 1, q[i] # Reading,
             \A j \in 1 .. l : j > i => q[j] = Reading
      PROVE  /\ i - 1 \in 1 .. m /\ t[i - 1] = q[i]
             /\ \A j \in 1 .. m : j > i - 1 => t[j] = Reading
  <2>1. i - 1 \in 1 .. m /\ t[i - 1] = q[i]
    <3>1. i - 1 \in 1 .. m /\ (i - 1) + 1 = i
      BY <1>4, <1>6
    <3> QED
      BY <1>1, <3>1
  <2>2. ASSUME NEW j \in 1 .. m, j > i - 1 PROVE t[j] = Reading
    <3>1. j + 1 \in 1 .. l /\ j + 1 > i
      BY <1>4, <2>2
    <3> QED
      BY <1>1, <1>6, <3>1
  <2> QED
    BY <2>1, <2>2
<1>7. ASSUME Head(q) = Reading
      PROVE  /\ OnlyReadings(t) <=> OnlyReadings(q)
             /\ \A e, v : EndsWith(q, e, v) => EndsWith(t, e, v)
  <2>1. OnlyReadings(t) <=> OnlyReadings(q)
    <3>1. ASSUME OnlyReadings(t), NEW i \in 1 .. l PROVE q[i] = Reading
      BY <1>1, <1>2, <1>4, <1>7, <3>1
    <3>2. ASSUME OnlyReadings(q), NEW i \in 1 .. m PROVE t[i] = Reading
      BY <1>1, <1>2, <1>4, <3>2
    <3> QED
      BY <1>2, <3>1, <3>2
  <2>2. ASSUME NEW e, NEW v, EndsWith(q, e, v) PROVE EndsWith(t, e, v)
    <3>1. CASE OnlyReadings(q) /\ v = e
      BY <1>3, <2>1, <3>1
    <3>2. ASSUME NEW i \in 1 .. l, q[i] = v, v # Reading,
                 \A j \in 1 .. l : j > i => q[j] = Reading
          PROVE  EndsWith(t, e, v)
      <4>1. i # 1
        BY <1>1, <1>7, <3>2
      <4> QED
        BY <1>3, <1>6, <3>2, <4>1
    <3> QED
      BY <1>3, <2>2, <3>1, <3>2
  <2> QED
    BY <2>1, <2>2
<1>8. ASSUME Head(q) # Reading
      PROVE  /\ ~OnlyReadings(q)
             /\ \A e, v : EndsWith(q, e, v) => EndsWith(t, Head(q), v)
  <2>1. ~OnlyReadings(q)
    BY <1>1, <1>2, <1>4, <1>8
  <2>2. ASSUME NEW e, NEW v, EndsWith(q, e, v) PROVE EndsWith(t, Head(q), v)
    <3>1. ASSUME NEW i \in 1 .. l, q[i] = v, v # Reading,
                 \A j \in 1 .. l : j > i => q[j] = Reading
          PROVE  EndsWith(t, Head(q), v)
      <4>1. CASE i = 1
        BY <1>1, <1>3, <1>5, <3>1, <4>1
      <4>2. CASE i # 1
        BY <1>3, <1>6, <3>1, <4>2
      <4> QED
        BY <4>1, <4>2
    <3> QED
      BY <1>3, <2>1, <2>2, <3>1
  <2> QED
    BY <2>1, <2>2
<1> QED
  BY <1>7, <1>8 DEF t

(* When only readings are left, the receiver has it. *)
LEMMA EndsHere ==
    ASSUME NEW S, NEW q \in Seq(S), OnlyReadings(q),
           NEW e, NEW v, EndsWith(q, e, v)
    PROVE  v = e
BY OnlyReadingsMeans DEF EndsWith

-----------------------------------------------------------------------------
(* The inductive invariant.                                                *)

(* The targets anybody sets.                                               *)
Target == {t \in Bytes : InRange(t)}

Typed ==
    /\ stored \in Bytes /\ setRh \in Bytes /\ shown \in Bytes
    /\ slider \in Target
    /\ ui # "boot" => shown \in Target
    /\ ui \in {"boot", "top", "receive", "event", "control", "network"}
    /\ control \in {"boot", "top", "toUI", "toNetwork", "drain"}
    /\ net \in {"top", "publish", "offline", "message", "toUI", "yield"}
    /\ uiLinked \in BOOLEAN /\ linkSeen \in BOOLEAN /\ linked \in BOOLEAN
    /\ astray \in BOOLEAN /\ lost \in BOOLEAN
    /\ toControl \in Seq(Bytes) /\ Len(toControl) <= QueueLength
    /\ toUI \in Seq(Target \cup {Reading}) /\ Len(toUI) <= QueueLength
    /\ toNetwork \in Seq(Target \cup {Reading})
    /\ Len(toNetwork) <= QueueLength
    /\ inbox \in Target \cup {Nothing}
    /\ channel \in Target \cup {Nothing}
    /\ down \in Seq(Target)
    /\ net = "toUI" => inbox # Nothing

Bounded == /\ saves \in 0 .. MaxSaves
           /\ web \in 0 .. MaxWeb
           /\ losses \in 0 .. MaxMishaps
           /\ faults \in 0 .. MaxMishaps - losses

(* The UI starts first, and Control starts with what the UI has sent. *)
Booting ==
    /\ ui = "boot" => /\ net = "top" /\ ~linked /\ inbox = Nothing
                      /\ down = << >> /\ OnlyReadings(toUI)
                      /\ toControl = << >>
    /\ control = "boot" /\ ui # "boot" => toControl # << >>

(* Where the last update will have got to, at every stage of its way, if   *)
(* it did not cross another.                                               *)
Agree ==
    ~astray =>
        /\ ui = "control" =>
              OnlyReadings(toUI) /\ net # "toUI" /\ stored = shown
        /\ net = "toUI" => Final(toControl, setRh) = inbox
        /\ net # "toUI" /\ ui \notin {"boot", "control"} =>
              /\ EndsWith(toUI, stored, Final(toControl, setRh))
              /\ OnlyReadings(toUI) => shown = stored

(* Nothing is on its way to the channel or on its way back. *)
Quiet == /\ ui \notin {"control", "network"}
         /\ toNetwork \in Seq({Reading})
         /\ down = << >>

(* Where the value of the channel will have got to once all is quiet. *)
Echo ==
    ~lost /\ faults = 0 =>
        /\ Final(down, inbox) \in {channel, Nothing}
        /\ net # "offline"
        /\ ~linked => channel = Nothing
        /\ ui = "control" => uiLinked
        /\ Quiet /\ net = "toUI" => Final(toControl, setRh) = inbox
        /\ Quiet /\ inbox = Nothing /\ channel # Nothing =>
              /\ Final(toControl, setRh) = channel
              /\ EndsWith(toUI, stored, channel)
              /\ EndsWith(toUI, shown, channel)

IInv == Typed /\ Bounded /\ Booting /\ Agree /\ Echo

LEMMA TargetFacts ==
    /\ Target \subseteq Bytes /\ Offered \subseteq Target
    /\ WebTargets \subseteq Target /\ StoredFirst \subseteq Bytes
    /\ DefaultRh \in Target
    /\ Nothing \notin Target /\ Reading \notin Target
    /\ \A t \in Bytes : (IF InRange(t) THEN t ELSE DefaultRh) \in Target
    /\ \A t \in Target : AsByte(t) = t
<1>1. \A t \in Bytes : t \in 0 .. 255
  BY OfferedAssumption DEF Bytes, MinSetRh, MaxSetRh, DefaultRh
<1>2. DefaultRh \in Target
  BY DEF Target, Bytes, InRange, MinSetRh, MaxSetRh, DefaultRh
<1>3. Offered \subseteq Target /\ WebTargets \subseteq Target
  BY OfferedAssumption
     DEF Target, Bytes, InRange, MinSetRh, MaxSetRh
<1>4. Target \subseteq Bytes /\ StoredFirst \subseteq Bytes
  BY DEF Target, Bytes
<1>5. Nothing \notin Target /\ Reading \notin Target
  BY <1>1, <1>4 DEF Nothing, Reading
<1>6. /\ \A t \in Bytes : (IF InRange(t) THEN t ELSE DefaultRh) \in Target
      /\ \A t \in Target : AsByte(t) = t
  BY <1>1, <1>2 DEF Target, AsByte
<1> QED
  BY <1>2, <1>3, <1>4, <1>5, <1>6

LEMMA BoundsAreNat == /\ QueueLength \in Nat /\ QueueLength > 0
                      /\ MaxSaves \in Nat /\ MaxWeb \in Nat
                      /\ MaxMishaps \in Nat
BY BoundsAssumption

(* The power comes up with any byte in the EEPROM.                         *)
LEMMA InitIInv == Init => IInv
<1> SUFFICES ASSUME Init PROVE IInv
  OBVIOUS
<1> USE DEF Init
<1>1. \A S : << >> \in Seq(S) /\ Len(<< >>) = 0
  BY EmptySeq
<1>2. /\ uiLinked \in BOOLEAN /\ linkSeen \in BOOLEAN /\ linked \in BOOLEAN
      /\ astray \in BOOLEAN /\ lost \in BOOLEAN
  BY Zenon
<1>3. Typed
  BY <1>1, <1>2, TargetFacts, BoundsAreNat DEF Typed
<1>4. Bounded
  BY BoundsAreNat DEF Bounded
<1>5. Booting /\ Agree
  BY <1>1 DEF Booting, Agree, OnlyReadings
<1>6. Echo
  BY DEF Echo, Final
<1> QED
  BY <1>3, <1>4, <1>5, <1>6 DEF IInv

-----------------------------------------------------------------------------
(* Types and bounds.                                                       *)

LEMMA BoundedKeeps == ASSUME Bounded, [Next]_vars PROVE Bounded'
<1> USE BoundsAreNat DEF Bounded
<1>0. ASSUME UNCHANGED <<saves, web, losses, faults>> PROVE Bounded'
  BY <1>0
<1>1. ASSUME NEW ok \in BOOLEAN, Transaction(ok),
             UNCHANGED <<saves, web, losses>>
      PROVE  Bounded'
  BY <1>1 DEF Transaction
<1>2. ASSUME UIBoot \/ TakeTarget \/ ControlBoot PROVE Bounded'
  BY <1>1, <1>2 DEF UIBoot, TakeTarget, ControlBoot, netSide, broker, userSide
<1>3. ASSUME Save PROVE Bounded'
  <2>1. PICK ok \in BOOLEAN : Transaction(ok)
    BY <1>3 DEF Save
  <2>2. saves' = saves + 1 /\ saves < MaxSaves /\ UNCHANGED <<web, losses>>
    BY <1>3 DEF Save, netSide, broker
  <2> QED
    BY <2>1, <2>2 DEF Transaction
<1>4. ASSUME WebSets PROVE Bounded'
  BY <1>4 DEF WebSets, userSide, netSide
<1>5. ASSUME LinkDead PROVE Bounded'
  BY <1>5 DEF LinkDead, userSide
<1>6. ASSUME LookAtBits \/ TakeReading \/ NoMoreMessages \/ Choose
               \/ TellControl \/ TellNetwork \/ NoSave \/ Measure
               \/ NoReading \/ ReadingToUI \/ ReadingToNetwork
               \/ Adopt \/ Drained \/ Join \/ Pass \/ LinkGood \/ Reconnect
               \/ NoMessage \/ ForwardToControl \/ ForwardToUI \/ Arrive
               \/ YieldEnds
      PROVE  UNCHANGED <<saves, web, losses, faults>>
  BY <1>6 DEF LookAtBits, TakeReading, NoMoreMessages, Choose, TellControl,
     TellNetwork, NoSave, Measure, NoReading, ReadingToUI, ReadingToNetwork,
     Adopt, Drained, Join, Pass, LinkGood,
     Reconnect, NoMessage, ForwardToControl, ForwardToUI, Arrive, YieldEnds,
     userSide, netSide, broker
<1>7. ASSUME Publish PROVE UNCHANGED <<saves, web, losses, faults>>
  BY <1>7 DEF Publish, userSide, netSide
<1>8. UNCHANGED vars => UNCHANGED <<saves, web, losses, faults>>
  BY DEF vars, userSide, netSide, broker
<1> QED
  BY <1>0, <1>2, <1>3, <1>4, <1>5, <1>6, <1>7, <1>8
     DEF Next, UI, Control, Network

(* What each part of the device may change of the others: nothing but the  *)
(* queues.                                                                 *)
LEMMA UITyped == ASSUME Typed, UI \/ Choose PROVE Typed'
<1> USE TargetFacts, BoundsAreNat DEF Typed
<1>1. CASE UIBoot
  <2>1. PICK ok \in BOOLEAN :
           LET t == IF ok THEN stored ELSE shown
           IN  /\ toControl' = Append(toControl, t)
               /\ shown' = IF InRange(t) THEN t ELSE DefaultRh
               /\ astray' = ~(ok /\ InRange(stored))
    BY <1>1 DEF UIBoot
  <2> DEFINE t == IF ok THEN stored ELSE shown
  <2>2. t \in Bytes
    OBVIOUS
  <2>3. /\ shown' = IF InRange(t) THEN t ELSE DefaultRh
        /\ toControl' = Append(toControl, t)
    BY <2>1
  <2> HIDE DEF t
  <2>4. toControl' \in Seq(Bytes) /\ Len(toControl') = Len(toControl) + 1
        /\ Len(toControl) \in Nat
    BY <2>2, <2>3, AppendFinal
  <2>5. astray' \in BOOLEAN
    BY <2>1, Zenon
  <2>6. /\ Room(toControl) /\ ui' = "top"
        /\ UNCHANGED <<stored, slider, uiLinked, device, netSide, broker,
                       toUI, toNetwork, lost>>
    BY <1>1 DEF UIBoot
  <2> QED
    BY <2>2, <2>3, <2>4, <2>5, <2>6 DEF Room, device, netSide, broker
<1>2. CASE LookAtBits \/ NoMoreMessages \/ Choose \/ NoSave
  <2>1. /\ UNCHANGED <<stored, shown, device, netSide, broker, queues, ghosts>>
        /\ ui' \in {"top", "receive", "event"} /\ ui # "boot"
    BY <1>2 DEF LookAtBits, NoMoreMessages, Choose, NoSave
  <2>2. slider' \in Target /\ uiLinked' \in BOOLEAN
    BY <1>2 DEF LookAtBits, NoMoreMessages, Choose, NoSave
  <2> QED
    BY <2>1, <2>2 DEF device, netSide, broker, queues, ghosts
<1>7. CASE TakeReading
  <2>1. /\ toUI # << >> /\ toUI' = Tail(toUI)
        /\ UNCHANGED <<stored, userSide, device, netSide, broker,
                       toControl, toNetwork, ghosts>>
    BY <1>7 DEF TakeReading
  <2>2. toUI' \in Seq(Target \cup {Reading}) /\ Len(toUI') <= QueueLength
    <3>1. /\ Tail(toUI) \in Seq(Target \cup {Reading})
          /\ Len(Tail(toUI)) <= Len(toUI) /\ Len(toUI) \in Nat
          /\ Len(Tail(toUI)) \in Nat
      BY <2>1, TailFinal
    <3> QED
      BY <2>1, <3>1
  <2> QED
    BY <2>1, <2>2 DEF userSide, device, netSide, broker, ghosts
<1>3. CASE TakeTarget
  <2>1. /\ toUI # << >> /\ toUI' = Tail(toUI) /\ shown' = Head(toUI)
        /\ Head(toUI) # Reading /\ ui' = ui
        /\ UNCHANGED <<slider, uiLinked, device, netSide, broker,
                       toControl, toNetwork, lost>>
    BY <1>3 DEF TakeTarget
  <2>2. /\ Head(toUI) \in Target /\ toUI' \in Seq(Target \cup {Reading})
        /\ Len(toUI') <= QueueLength
    <3>1. /\ Head(toUI) \in Target \cup {Reading}
          /\ Tail(toUI) \in Seq(Target \cup {Reading})
          /\ Len(Tail(toUI)) <= Len(toUI) /\ Len(toUI) \in Nat
          /\ Len(Tail(toUI)) \in Nat
      BY <2>1, TailFinal
    <3> QED
      BY <2>1, <3>1
  <2>3. PICK ok \in BOOLEAN : /\ stored' = IF ok THEN Head(toUI) ELSE stored
                              /\ astray' = (astray \/ ~ok)
    BY <1>3 DEF TakeTarget
  <2>4. astray' \in BOOLEAN
    BY <2>3, Zenon
  <2> QED
    BY <2>1, <2>2, <2>3, <2>4 DEF device, netSide, broker
<1>4. CASE Save
  <2>1. /\ shown' = slider /\ ui' = "control"
        /\ UNCHANGED <<slider, uiLinked, device, netSide, broker, queues>>
    BY <1>4 DEF Save
  <2>2. PICK ok \in BOOLEAN : /\ stored' = IF ok THEN slider ELSE stored
                              /\ astray' = (HalfDelivered \/ ~ok)
    BY <1>4 DEF Save
  <2>3. astray' \in BOOLEAN /\ lost' \in BOOLEAN
    <3>1. lost' = (lost \/ ~uiLinked)
      BY <1>4 DEF Save
    <3> QED
      BY <2>2, <3>1, Zenon
  <2> QED
    BY <2>1, <2>2, <2>3 DEF device, netSide, broker, queues
<1>5. CASE TellControl
  <2>1. /\ toControl' = Append(toControl, shown) /\ Room(toControl)
        /\ ui = "control" /\ ui' \in {"network", "top"}
        /\ uiLinked' = FALSE
        /\ UNCHANGED <<stored, shown, slider, device, netSide, broker,
                       toUI, toNetwork, ghosts>>
    BY <1>5 DEF TellControl
  <2>2. toControl' \in Seq(Bytes) /\ Len(toControl') = Len(toControl) + 1
        /\ Len(toControl) \in Nat
    BY <2>1, AppendFinal
  <2>3. uiLinked' \in BOOLEAN
    BY <2>1, Zenon
  <2> QED
    BY <2>1, <2>2, <2>3 DEF Room, device, netSide, broker, ghosts
<1>6. CASE TellNetwork
  <2>1. /\ toNetwork' = Append(toNetwork, shown) /\ Room(toNetwork)
        /\ ui = "network" /\ ui' = "top"
        /\ UNCHANGED <<stored, shown, slider, uiLinked, device, netSide,
                       broker, toControl, toUI, ghosts>>
    BY <1>6 DEF TellNetwork
  <2>2. /\ toNetwork' \in Seq(Target \cup {Reading})
        /\ Len(toNetwork') = Len(toNetwork) + 1 /\ Len(toNetwork) \in Nat
    BY <2>1, AppendFinal
  <2> QED
    BY <2>1, <2>2 DEF Room, device, netSide, broker, ghosts
<1> QED
  BY <1>1, <1>2, <1>3, <1>4, <1>5, <1>6, <1>7 DEF UI

(* A reading is put into a queue or dropped. *)
LEMMA OfferTyped ==
    ASSUME NEW S, Reading \in S, NEW q \in Seq(S), Len(q) <= QueueLength
    PROVE  /\ Offer(q) \in Seq(S) /\ Len(Offer(q)) <= QueueLength
           /\ Offer(q) \in {q, Append(q, Reading)}
<1>1. /\ Append(q, Reading) \in Seq(S)
      /\ Len(Append(q, Reading)) = Len(q) + 1 /\ Len(q) \in Nat
  BY AppendFinal
<1> QED
  BY <1>1, BoundsAreNat DEF Offer, Room

LEMMA ControlTyped == ASSUME Typed, Control PROVE Typed'
<1> USE TargetFacts, BoundsAreNat DEF Typed
<1>1. CASE ControlBoot \/ Measure \/ NoReading \/ Drained
  BY <1>1 DEF ControlBoot, Measure, NoReading, Drained, userSide, netSide,
              broker, queues, ghosts
<1>2. CASE ReadingToUI
  <2>1. /\ control' \in {"toNetwork", "drain"} /\ toUI' = Offer(toUI)
        /\ linkSeen' = FALSE
        /\ UNCHANGED <<stored, userSide, setRh, netSide, broker, toControl,
                       toNetwork, ghosts>>
    BY <1>2 DEF ReadingToUI
  <2>2. toUI' \in Seq(Target \cup {Reading}) /\ Len(toUI') <= QueueLength
    BY <2>1, OfferTyped
  <2>3. linkSeen' \in BOOLEAN
    BY <2>1, Zenon
  <2> QED
    BY <2>1, <2>2, <2>3 DEF userSide, netSide, broker, ghosts
<1>4. CASE ReadingToNetwork
  <2>1. /\ control' = "drain" /\ toNetwork' = Offer(toNetwork)
        /\ UNCHANGED <<stored, userSide, setRh, linkSeen, netSide, broker,
                       toControl, toUI, ghosts>>
    BY <1>4 DEF ReadingToNetwork
  <2>2. /\ toNetwork' \in Seq(Target \cup {Reading})
        /\ Len(toNetwork') <= QueueLength
    BY <2>1, OfferTyped
  <2> QED
    BY <2>1, <2>2 DEF userSide, netSide, broker, ghosts
<1>3. CASE Adopt
  <2>1. /\ toControl # << >> /\ setRh' = Head(toControl)
        /\ toControl' = Tail(toControl)
        /\ UNCHANGED <<stored, userSide, control, linkSeen, netSide, broker,
                       toUI, toNetwork, ghosts>>
    BY <1>3 DEF Adopt
  <2>2. /\ Head(toControl) \in Bytes /\ Tail(toControl) \in Seq(Bytes)
        /\ Len(Tail(toControl)) <= Len(toControl)
        /\ Len(toControl) \in Nat /\ Len(Tail(toControl)) \in Nat
    BY <2>1, TailFinal
  <2>3. Len(toControl') <= QueueLength
    BY <2>1, <2>2
  <2> QED
    BY <2>1, <2>2, <2>3 DEF userSide, netSide, broker, ghosts
<1> QED
  BY <1>1, <1>2, <1>3, <1>4 DEF Control

(* What an update of the channel leaves. *)
LEMMA UpdateTyped ==
    ASSUME Typed, NEW t \in Target, Update(t)
    PROVE  /\ channel' \in Target /\ down' \in Seq(Target)
           /\ lost' \in BOOLEAN
<1>1. CASE /\ channel' = t /\ down' = Append(down, t) /\ UNCHANGED lost
  BY <1>1, AppendFinal DEF Typed
<1>2. CASE /\ channel' = t /\ UNCHANGED down /\ lost' = TRUE
  <2>1. lost' \in BOOLEAN
    BY <1>2, Zenon
  <2> QED
    BY <1>2, <2>1 DEF Typed
<1> QED
  BY <1>1, <1>2 DEF Update

LEMMA NetworkTyped == ASSUME Typed, Network \/ Join \/ WebSets PROVE Typed'
<1> USE TargetFacts, BoundsAreNat DEF Typed
<1>1. CASE Join \/ Pass \/ LinkGood \/ NoMessage \/ YieldEnds
  <2>1. linked' \in BOOLEAN
    BY <1>1, Zenon DEF Join, Pass, LinkGood, NoMessage, YieldEnds
  <2> QED
    BY <1>1, <2>1 DEF Join, Pass, LinkGood, NoMessage, YieldEnds, userSide,
       device, broker, queues, ghosts
<1>2. CASE Reconnect
  BY <1>2 DEF Reconnect, userSide, device, broker, queues, ghosts
<1>3. CASE LinkDead
  <2>1. linked' \in BOOLEAN /\ lost' \in BOOLEAN
    BY <1>3, Zenon DEF LinkDead
  <2>2. down' = << >> /\ << >> \in Seq(Target)
    BY <1>3 DEF LinkDead
  <2> QED
    BY <1>3, <2>1, <2>2 DEF LinkDead, userSide, device, queues
<1>4. CASE Publish
  <2>1. /\ toNetwork # << >> /\ toNetwork' = Tail(toNetwork)
        /\ UNCHANGED <<stored, userSide, device, netSide, web, toControl,
                       toUI, astray>>
    BY <1>4 DEF Publish
  <2>2. /\ Head(toNetwork) \in Target \cup {Reading}
        /\ toNetwork' \in Seq(Target \cup {Reading})
        /\ Len(toNetwork') <= QueueLength
    <3>1. /\ Head(toNetwork) \in Target \cup {Reading}
          /\ Tail(toNetwork) \in Seq(Target \cup {Reading})
          /\ Len(Tail(toNetwork)) <= Len(toNetwork)
          /\ Len(toNetwork) \in Nat /\ Len(Tail(toNetwork)) \in Nat
      BY <2>1, TailFinal
    <3> QED
      BY <2>1, <3>1
  <2>3. /\ channel' \in Target \cup {Nothing} /\ down' \in Seq(Target)
        /\ lost' \in BOOLEAN
    <3>1. CASE UNCHANGED <<channel, down, lost>>
      BY <3>1
    <3>2. CASE lost' = TRUE /\ UNCHANGED <<channel, down>>
      <4>1. lost' \in BOOLEAN
        BY <3>2, Zenon
      <4> QED
        BY <3>2, <4>1
    <3>3. CASE Head(toNetwork) # Reading /\ Update(Head(toNetwork))
      BY <2>2, <3>3, UpdateTyped
    <3> QED
      BY <1>4, <3>1, <3>2, <3>3 DEF Publish
  <2> QED
    BY <2>1, <2>2, <2>3 DEF userSide, device, netSide
<1>5. CASE ForwardToControl
  <2>1. /\ inbox # Nothing /\ net' = "toUI" /\ AsByte(inbox) = inbox
        /\ UNCHANGED <<stored, userSide, device, linked, inbox, broker,
                       toUI, toNetwork>>
    BY <1>5 DEF ForwardToControl
  <2>2. /\ toControl' \in Seq(Bytes) /\ Len(toControl') <= QueueLength
        /\ astray' \in BOOLEAN /\ lost' \in BOOLEAN
    <3>1. CASE Room(toControl)
      <4>1. /\ toControl' = Append(toControl, inbox) /\ UNCHANGED lost
            /\ astray' = (ui = "control")
        BY <1>5, <2>1, <3>1 DEF ForwardToControl
      <4>2. /\ toControl' \in Seq(Bytes)
            /\ Len(toControl') = Len(toControl) + 1 /\ Len(toControl) \in Nat
        BY <2>1, <4>1, AppendFinal
      <4>3. astray' \in BOOLEAN
        BY <4>1, Zenon
      <4> QED
        BY <3>1, <4>1, <4>2, <4>3 DEF Room
    <3>2. CASE ~Room(toControl)
      <4>1. astray' = TRUE /\ lost' = TRUE /\ UNCHANGED toControl
        BY <1>5, <3>2 DEF ForwardToControl
      <4>2. astray' \in BOOLEAN /\ lost' \in BOOLEAN
        BY <4>1, Zenon
      <4> QED
        BY <4>1, <4>2
    <3> QED
      BY <3>1, <3>2
  <2> QED
    BY <2>1, <2>2 DEF userSide, device, broker
<1>6. CASE ForwardToUI
  <2>1. /\ net = "toUI" /\ inbox' = Nothing /\ net' = "yield"
        /\ inbox \in Target /\ AsByte(inbox) = inbox
        /\ UNCHANGED <<stored, userSide, device, linked, broker,
                       toControl, toNetwork>>
    BY <1>6 DEF ForwardToUI
  <2>2. /\ toUI' \in Seq(Target \cup {Reading}) /\ Len(toUI') <= QueueLength
        /\ astray' \in BOOLEAN /\ lost' \in BOOLEAN
    <3>1. CASE Room(toUI)
      <4>1. toUI' = Append(toUI, inbox) /\ UNCHANGED ghosts
        BY <1>6, <2>1, <3>1 DEF ForwardToUI
      <4>2. /\ toUI' \in Seq(Target \cup {Reading})
            /\ Len(toUI') = Len(toUI) + 1 /\ Len(toUI) \in Nat
        BY <2>1, <4>1, AppendFinal
      <4> QED
        BY <3>1, <4>1, <4>2 DEF Room, ghosts
    <3>2. CASE ~Room(toUI)
      <4>1. astray' = TRUE /\ lost' = TRUE /\ UNCHANGED toUI
        BY <1>6, <3>2 DEF ForwardToUI
      <4>2. astray' \in BOOLEAN /\ lost' \in BOOLEAN
        BY <4>1, Zenon
      <4> QED
        BY <4>1, <4>2
    <3> QED
      BY <3>1, <3>2
  <2> QED
    BY <2>1, <2>2 DEF userSide, device, broker
<1>7. CASE Arrive
  <2>1. /\ net = "yield" /\ down # << >> /\ inbox' = Head(down)
        /\ down' = Tail(down)
        /\ UNCHANGED <<stored, userSide, device, net, linked, channel,
                       queues, ghosts>>
    BY <1>7 DEF Arrive
  <2>2. Head(down) \in Target /\ Tail(down) \in Seq(Target)
    BY <2>1, TailFinal
  <2> QED
    BY <2>1, <2>2 DEF userSide, device, queues, ghosts
<1>8. CASE WebSets
  <2>1. PICK t \in Target : Update(t)
    BY <1>8 DEF WebSets
  <2>2. /\ channel' \in Target /\ down' \in Seq(Target)
        /\ lost' \in BOOLEAN
    BY <2>1, UpdateTyped
  <2>3. UNCHANGED <<stored, userSide, device, netSide, queues, astray>>
    BY <1>8 DEF WebSets
  <2> QED
    BY <2>2, <2>3 DEF userSide, device, netSide, queues
<1> QED
  BY <1>1, <1>2, <1>3, <1>4, <1>5, <1>6, <1>7, <1>8 DEF Network

LEMMA TypedKeeps == ASSUME Typed, [Next]_vars PROVE Typed'
<1>1. ASSUME UNCHANGED vars PROVE Typed'
  BY <1>1 DEF vars, Typed, userSide, device, netSide, broker, queues, ghosts
<1> QED
  BY <1>1, UITyped, ControlTyped, NetworkTyped DEF Next

-----------------------------------------------------------------------------
(* Start-up.                                                               *)

LEMMA BootingKeeps == ASSUME Typed, Booting, [Next]_vars PROVE Booting'
<1> USE DEF Booting, userSide, device, netSide, broker, queues, ghosts
<1>1. CASE UIBoot
  <2>1. PICK t : t \in Bytes /\ toControl' = Append(toControl, t)
    BY <1>1 DEF UIBoot, Typed
  <2>2. toControl' # << >>
    BY <2>1, AppendFinal DEF Typed
  <2>3. ui' = "top"
    BY <1>1 DEF UIBoot
  <2> QED
    BY <2>2, <2>3
<1>2. CASE LookAtBits \/ TakeReading \/ TakeTarget \/ NoMoreMessages
             \/ Choose \/ Save \/ TellNetwork \/ NoSave
  <2>1. ui # "boot" /\ ui' # "boot" /\ UNCHANGED <<control, toControl>>
    BY <1>2 DEF LookAtBits, TakeReading, TakeTarget, NoMoreMessages, Choose,
                Save, TellNetwork, NoSave
  <2> QED
    BY <2>1
<1>3. CASE TellControl
  <2>1. toControl' = Append(toControl, shown) /\ ui' # "boot" /\ shown \in Bytes
    BY <1>3 DEF TellControl, Typed
  <2>2. toControl' # << >>
    BY <2>1, AppendFinal DEF Typed
  <2> QED
    BY <2>1, <2>2
<1>4. CASE ControlBoot \/ Measure \/ NoReading \/ ReadingToUI
             \/ ReadingToNetwork \/ Adopt \/ Drained
  <2>1. /\ control' # "boot"
        /\ UNCHANGED <<ui, net, linked, inbox, down>>
    BY <1>4 DEF ControlBoot, Measure, NoReading, ReadingToUI,
                ReadingToNetwork, Adopt, Drained
  <2>2. ui = "boot" => UNCHANGED toControl
    BY <1>4 DEF ControlBoot, Measure, NoReading, ReadingToUI,
                ReadingToNetwork, Adopt, Drained
  <2>3. OnlyReadings(toUI) => OnlyReadings(toUI')
    <3>1. CASE ReadingToUI
      <4>1. toUI' \in {toUI, Append(toUI, Reading)}
        BY <3>1, OfferTyped DEF ReadingToUI, Typed
      <4>2. OnlyReadings(Append(toUI, Reading)) <=> OnlyReadings(toUI)
        BY EndsAppend DEF Typed
      <4> QED
        BY <4>1, <4>2
    <3>2. CASE ~ReadingToUI
      BY <1>4, <3>2 DEF ControlBoot, Measure, NoReading, ReadingToNetwork,
                        Adopt, Drained
    <3> QED
      BY <3>1, <3>2
  <2> QED
    BY <2>1, <2>2, <2>3
<1>5. CASE Join \/ Pass \/ LinkGood \/ LinkDead \/ Reconnect \/ NoMessage
             \/ ForwardToUI \/ Arrive \/ YieldEnds
  <2>1. ui # "boot" /\ UNCHANGED <<ui, control, toControl>>
    BY <1>5 DEF Join, Pass, LinkGood, LinkDead, Reconnect, NoMessage,
                ForwardToUI, Arrive, YieldEnds
  <2> QED
    BY <2>1
<1>6. CASE Publish
  BY <1>6 DEF Publish
<1>7. CASE ForwardToControl
  <2>1. ui # "boot" /\ inbox \in Bytes /\ UNCHANGED <<ui, control>>
    BY <1>7, TargetFacts DEF ForwardToControl, Typed
  <2>2. toControl' = Append(toControl, inbox) \/ toControl' = toControl
    BY <1>7, TargetFacts DEF ForwardToControl, Typed
  <2>3. Append(toControl, inbox) # << >>
    BY <2>1, AppendFinal DEF Typed
  <2> QED
    BY <2>1, <2>2, <2>3
<1>8. CASE WebSets
  <2>1. UNCHANGED <<ui, control, net, linked, inbox, toUI, toControl>>
    BY <1>8 DEF WebSets
  <2>2. ui = "boot" => UNCHANGED down
    BY <1>8 DEF WebSets, Update
  <2> QED
    BY <2>1, <2>2
<1>9. CASE UNCHANGED vars
  BY <1>9 DEF vars
<1> QED
  BY <1>1, <1>2, <1>3, <1>4, <1>5, <1>6, <1>7, <1>8, <1>9
     DEF Next, UI, Control, Network

-----------------------------------------------------------------------------
(* Agreement.                                                              *)

(* Steps that neither move nor set a target. *)
LEMMA AgreeStays ==
    ASSUME Agree,
           UNCHANGED <<stored, setRh, shown, toControl, toUI, astray>>,
           net' = "toUI" => net = "toUI" /\ inbox' = inbox,
           net = "toUI" => net' = "toUI",
           ui' = "control" <=> ui = "control", ui' = "boot" <=> ui = "boot"
    PROVE  Agree'
BY DEF Agree

LEMMA AgreeKeeps == ASSUME Typed, Booting, Agree, [Next]_vars PROVE Agree'
<1>1. CASE UIBoot
  <2> SUFFICES ASSUME ~astray' PROVE Agree'
    BY DEF Agree
  <2>1. /\ toControl' = Append(toControl, stored)
        /\ shown' = stored /\ UNCHANGED stored
    BY <1>1 DEF UIBoot
  <2>2. /\ ui' = "top" /\ net' = "top" /\ OnlyReadings(toUI')
    BY <1>1 DEF UIBoot, Booting, netSide
  <2>3. Final(toControl', setRh') = stored
    BY <2>1, AppendFinal DEF Typed
  <2> QED
    BY <2>1, <2>2, <2>3 DEF Agree, EndsWith
<1>14. CASE TakeReading
  <2>1. /\ toUI # << >> /\ Head(toUI) = Reading /\ toUI' = Tail(toUI)
        /\ ui = "receive" /\ ui' = "receive"
        /\ UNCHANGED <<stored, setRh, shown, toControl, astray, net, inbox>>
    BY <1>14 DEF TakeReading, userSide, device, netSide, ghosts
  <2>2. /\ OnlyReadings(toUI') <=> OnlyReadings(toUI)
        /\ \A e, v : EndsWith(toUI, e, v) => EndsWith(toUI', e, v)
    BY <2>1, EndsTail DEF Typed
  <2>3. Final(toControl, setRh)' = Final(toControl, setRh)
    BY <2>1 DEF Final
  <2> QED
    BY <2>1, <2>2, <2>3 DEF Agree
<1>2. CASE LookAtBits \/ NoMoreMessages \/ Choose \/ TellNetwork \/ NoSave
  <2>1. /\ UNCHANGED <<stored, setRh, shown, toControl, toUI, astray, net,
                       inbox>>
        /\ ui' \notin {"control", "boot"} /\ ui \notin {"control", "boot"}
    BY <1>2 DEF LookAtBits, NoMoreMessages, Choose, TellNetwork, NoSave,
                device, netSide, queues, ghosts
  <2> QED
    BY <2>1, AgreeStays
<1>3. CASE TakeTarget
  <2> SUFFICES ASSUME ~astray' PROVE Agree'
    BY DEF Agree
  <2>1. /\ ~astray /\ stored' = Head(toUI) /\ shown' = Head(toUI)
        /\ toUI # << >> /\ Head(toUI) # Reading /\ toUI' = Tail(toUI)
        /\ ui' = "receive" /\ ui = "receive"
        /\ UNCHANGED <<setRh, toControl, net, inbox>>
    BY <1>3 DEF TakeTarget, device, netSide
  <2>2. \A v : EndsWith(toUI, stored, v) => EndsWith(toUI', stored', v)
    BY <2>1, EndsTail DEF Typed
  <2>3. Final(toControl, setRh)' = Final(toControl, setRh)
    BY <2>1 DEF Final
  <2> QED
    BY <2>1, <2>2, <2>3 DEF Agree
<1>4. CASE Save
  <2> SUFFICES ASSUME ~astray' PROVE Agree'
    BY DEF Agree
  <2>1. /\ ~HalfDelivered /\ stored' = slider /\ shown' = slider
        /\ ui' = "control" /\ UNCHANGED <<toUI, net>>
    BY <1>4 DEF Save, netSide, queues
  <2> QED
    BY <2>1 DEF Agree, HalfDelivered
<1>5. CASE TellControl
  <2> SUFFICES ASSUME ~astray' PROVE Agree'
    BY DEF Agree
  <2>1. /\ ~astray /\ ui = "control" /\ ui' \in {"network", "top"}
        /\ toControl' = Append(toControl, shown)
        /\ UNCHANGED <<stored, shown, setRh, toUI, net, inbox>>
    BY <1>5 DEF TellControl, ghosts, device, netSide
  <2>2. OnlyReadings(toUI) /\ net # "toUI" /\ stored = shown
    BY <2>1 DEF Agree
  <2>3. Final(toControl', setRh') = shown
    BY <2>1, AppendFinal DEF Typed
  <2> QED
    BY <2>1, <2>2, <2>3 DEF Agree, EndsWith
<1>6. CASE ControlBoot
  <2>1. UNCHANGED <<stored, shown, toControl, toUI, astray, net, inbox, ui>>
    BY <1>6 DEF ControlBoot, userSide, netSide, queues, ghosts
  <2>2. CASE ui = "boot"
    BY <2>1, <2>2 DEF Agree, Booting
  <2>3. CASE ui # "boot"
    <3>1. toControl # << >>
      BY <1>6, <2>3 DEF ControlBoot, Booting
    <3>2. Final(toControl, setRh)' = Final(toControl, setRh)
      BY <2>1, <3>1 DEF Final
    <3> QED
      BY <2>1, <3>2 DEF Agree
  <2> QED
    BY <2>2, <2>3
<1>7. CASE Measure \/ NoReading \/ ReadingToNetwork \/ Drained
  <2>1. UNCHANGED <<stored, setRh, shown, toControl, toUI, astray, net,
                    inbox, ui>>
    BY <1>7 DEF Measure, NoReading, ReadingToNetwork, Drained, userSide,
                netSide, queues, ghosts
  <2> QED
    BY <2>1, AgreeStays
<1>15. CASE ReadingToUI
  <2>1. /\ toUI' \in {toUI, Append(toUI, Reading)}
        /\ UNCHANGED <<stored, setRh, shown, toControl, astray, net,
                       inbox, ui>>
    BY <1>15, OfferTyped
       DEF ReadingToUI, Typed, userSide, netSide, ghosts
  <2>2. /\ OnlyReadings(toUI') <=> OnlyReadings(toUI)
        /\ \A e, v : EndsWith(toUI, e, v) => EndsWith(toUI', e, v)
    <3>1. CASE toUI' = toUI
      BY <3>1
    <3>2. CASE toUI' = Append(toUI, Reading)
      BY <3>2, EndsInUI DEF Typed
    <3> QED
      BY <2>1, <3>1, <3>2
  <2>3. Final(toControl, setRh)' = Final(toControl, setRh)
    BY <2>1 DEF Final
  <2> QED
    BY <2>1, <2>2, <2>3 DEF Agree
<1>8. CASE Adopt
  <2>1. /\ toControl # << >> /\ setRh' = Head(toControl)
        /\ toControl' = Tail(toControl)
        /\ UNCHANGED <<stored, shown, toUI, astray, net, inbox, ui>>
    BY <1>8 DEF Adopt, userSide, netSide, ghosts
  <2>2. Final(toControl, setRh)' = Final(toControl, setRh)
    BY <2>1, TailFinal DEF Typed
  <2> QED
    BY <2>1, <2>2 DEF Agree
<1>9. CASE Join \/ Pass \/ LinkGood \/ LinkDead \/ Reconnect \/ NoMessage
             \/ Arrive \/ YieldEnds
  <2>1. /\ UNCHANGED <<stored, setRh, shown, toControl, toUI, astray, ui>>
        /\ net' # "toUI" /\ net # "toUI"
    BY <1>9 DEF Join, Pass, LinkGood, LinkDead, Reconnect, NoMessage,
                Arrive, YieldEnds, userSide, device, queues, ghosts
  <2> QED
    BY <2>1, AgreeStays
<1>10. CASE Publish \/ WebSets
  <2>1. UNCHANGED <<stored, setRh, shown, toControl, toUI, astray, net,
                    inbox, ui>>
    BY <1>10 DEF Publish, WebSets, userSide, device, netSide, queues
  <2> QED
    BY <2>1, AgreeStays
<1>11. CASE ForwardToControl
  <2> SUFFICES ASSUME ~astray' PROVE Agree'
    BY DEF Agree
  <2>1. /\ toControl' = Append(toControl, inbox) /\ inbox \in Bytes
        /\ ui # "control" /\ net' = "toUI" /\ UNCHANGED <<ui, inbox>>
    BY <1>11, TargetFacts DEF ForwardToControl, Typed, userSide
  <2>2. Final(toControl', setRh') = inbox
    BY <2>1, AppendFinal DEF Typed
  <2> QED
    BY <2>1, <2>2 DEF Agree
<1>12. CASE ForwardToUI
  <2> SUFFICES ASSUME ~astray' PROVE Agree'
    BY DEF Agree
  <2>1. /\ toUI' = Append(toUI, inbox) /\ inbox \in Target /\ ~astray
        /\ net = "toUI" /\ net' = "yield"
        /\ UNCHANGED <<ui, toControl, setRh, stored>>
    BY <1>12, TargetFacts DEF ForwardToUI, Typed, userSide, device, ghosts
  <2>2. EndsWith(toUI', stored', inbox) /\ ~OnlyReadings(toUI')
    BY <2>1, EndsInUI, TargetFacts DEF Typed
  <2>3. Final(toControl, setRh)' = inbox /\ ui # "control"
    BY <2>1 DEF Agree, Final
  <2> QED
    BY <2>1, <2>2, <2>3 DEF Agree
<1>13. CASE UNCHANGED vars
  <2>1. UNCHANGED <<stored, setRh, shown, toControl, toUI, astray, net,
                    inbox, ui>>
    BY <1>13 DEF vars, userSide, device, netSide, queues, ghosts
  <2> QED
    BY <2>1, AgreeStays
<1> QED
  BY <1>1, <1>2, <1>3, <1>4, <1>5, <1>6, <1>7, <1>8, <1>9, <1>10, <1>11,
     <1>12, <1>13, <1>14, <1>15 DEF Next, UI, Control, Network

-----------------------------------------------------------------------------
(* The echo.                                                               *)

(* What is lost stays lost, and a fault is not forgotten. *)
LEMMA Monotone ==
    ASSUME Bounded, [Next]_vars, ~lost', faults' = 0
    PROVE  ~lost /\ faults = 0
<1> USE DEF Bounded, userSide, device, netSide, broker, queues, ghosts
<1>1. ASSUME NEW ok \in BOOLEAN, Transaction(ok) PROVE faults = 0 /\ ok
  BY <1>1, BoundsAreNat DEF Transaction
<1>2. CASE UIBoot \/ TakeTarget \/ ControlBoot
  <2>1. ~lost
    BY <1>2 DEF UIBoot, TakeTarget, ControlBoot
  <2>2. faults = 0
    BY <1>1, <1>2 DEF UIBoot, TakeTarget, ControlBoot
  <2> QED
    BY <2>1, <2>2
<1>3. CASE Save
  BY <1>1, <1>3 DEF Save
<1>4. CASE LookAtBits \/ TakeReading \/ NoMoreMessages \/ Choose
             \/ TellControl \/ TellNetwork \/ NoSave \/ Measure
             \/ NoReading \/ ReadingToUI \/ ReadingToNetwork
             \/ Adopt \/ Drained \/ Join \/ Pass \/ LinkGood \/ Reconnect
             \/ NoMessage \/ Arrive \/ YieldEnds
  BY <1>4 DEF LookAtBits, TakeReading, NoMoreMessages, Choose, TellControl,
     TellNetwork, NoSave, Measure, NoReading, ReadingToUI, ReadingToNetwork,
     Adopt, Drained, Join, Pass, LinkGood,
     Reconnect, NoMessage, Arrive, YieldEnds
<1>5. CASE LinkDead \/ Publish \/ WebSets \/ ForwardToControl \/ ForwardToUI
  BY <1>5 DEF LinkDead, Publish, WebSets, ForwardToControl, ForwardToUI,
              Update
<1>6. CASE UNCHANGED vars
  BY <1>6 DEF vars
<1> QED
  BY <1>2, <1>3, <1>4, <1>5, <1>6 DEF Next, UI, Control, Network

(* Steps that move no target and make nothing quiet. *)
LEMMA EchoStays ==
    ASSUME Echo, ~lost, faults = 0,
           UNCHANGED <<stored, setRh, shown, toControl, toUI, down, channel,
                       inbox>>,
           net' = "toUI" => net = "toUI",
           net' = "offline" => net = "offline",
           linked' \/ UNCHANGED linked,
           ui' = "control" => ui = "control" /\ UNCHANGED uiLinked,
           Quiet' => Quiet
    PROVE  Echo'
BY DEF Echo, Final

(* Readings that come to the UI, or are taken, move no target either. *)
LEMMA EchoReadings ==
    ASSUME Echo, ~lost, faults = 0,
           UNCHANGED <<stored, setRh, shown, toControl, toNetwork, down,
                       channel, inbox, net, linked, ui, uiLinked>>,
           \A e, v : EndsWith(toUI, e, v) => EndsWith(toUI', e, v)
    PROVE  Echo'
<1>1. /\ Final(toControl, setRh)' = Final(toControl, setRh)
      /\ Final(down, inbox)' = Final(down, inbox)
      /\ Quiet' <=> Quiet
  BY DEF Final, Quiet
<1> QED
  BY <1>1 DEF Echo

(* An update that is not lost is on its way back. *)
LEMMA UpdateEchoes ==
    ASSUME Typed, Echo, ~lost, faults = 0, NEW t \in Target, Update(t), ~lost',
           UNCHANGED <<inbox, net, linked, ui, uiLinked>>
    PROVE  Echo'
<1>1. linked /\ channel' = t /\ down' = Append(down, t)
  BY DEF Update
<1>2. Final(down', inbox') = t /\ down' # << >>
  BY <1>1, AppendFinal DEF Typed
<1> QED
  BY <1>1, <1>2 DEF Echo, Quiet

LEMMA EchoKeeps ==
    ASSUME Typed, Bounded, Booting, Echo, [Next]_vars PROVE Echo'
<1> SUFFICES ASSUME ~lost', faults' = 0 PROVE Echo'
  BY DEF Echo
<1>0. ~lost /\ faults = 0
  BY Monotone
<1>1. ASSUME NEW ok \in BOOLEAN, Transaction(ok) PROVE ok
  BY <1>0, <1>1 DEF Transaction
<1>2. CASE UIBoot
  <2>1. /\ ui' = "top" /\ net' = "top" /\ ~linked' /\ inbox' = Nothing
        /\ down' = << >> /\ channel' = channel /\ ~linked
    BY <1>2 DEF UIBoot, Booting, netSide, broker
  <2> QED
    BY <1>0, <2>1 DEF Echo, Final
<1>3. CASE LookAtBits \/ NoMoreMessages \/ Choose \/ NoSave
  <2>1. /\ UNCHANGED <<stored, setRh, shown, toControl, toUI, toNetwork,
                       down, channel, inbox, net, linked>>
        /\ ui' # "control" /\ ui \notin {"control", "network"}
    BY <1>3 DEF LookAtBits, NoMoreMessages, Choose, NoSave, device, netSide,
                broker, queues
  <2> QED
    BY <1>0, <2>1, EchoStays DEF Quiet
<1>21. CASE TakeReading
  <2>1. /\ toUI # << >> /\ Head(toUI) = Reading /\ toUI' = Tail(toUI)
        /\ UNCHANGED <<stored, setRh, shown, toControl, toNetwork, down,
                       channel, inbox, net, linked, ui, uiLinked>>
    BY <1>21 DEF TakeReading, userSide, device, netSide, broker
  <2>2. \A e, v : EndsWith(toUI, e, v) => EndsWith(toUI', e, v)
    BY <2>1, EndsTail DEF Typed
  <2> QED
    BY <1>0, <2>1, <2>2, EchoReadings
<1>4. CASE TakeTarget
  <2>1. /\ stored' = Head(toUI) /\ shown' = Head(toUI)
        /\ Head(toUI) # Reading
        /\ toUI # << >> /\ toUI' = Tail(toUI) /\ ui' = ui
        /\ ui = "receive"
        /\ UNCHANGED <<setRh, toControl, toNetwork, net, linked, inbox,
                       channel, down>>
    BY <1>1, <1>4 DEF TakeTarget, device, netSide, broker
  <2>2. \A e, v : EndsWith(toUI, e, v) => EndsWith(toUI', Head(toUI), v)
    BY <2>1, EndsTail DEF Typed
  <2>3. /\ Final(toControl, setRh)' = Final(toControl, setRh)
        /\ Final(down, inbox)' = Final(down, inbox)
        /\ Quiet' <=> Quiet
    BY <2>1 DEF Final, Quiet
  <2> QED
    BY <1>0, <2>1, <2>2, <2>3 DEF Echo
<1>5. CASE Save
  <2>1. /\ uiLinked /\ ui' = "control"
        /\ UNCHANGED <<down, inbox, net, channel, linked, uiLinked>>
    BY <1>5 DEF Save, netSide, broker
  <2> QED
    BY <1>0, <2>1 DEF Echo, Quiet, Final
<1>6. CASE TellControl
  <2>1. /\ ui = "control"
        /\ ui' = IF uiLinked THEN "network" ELSE "top"
        /\ UNCHANGED <<down, inbox, net, channel, linked>>
    BY <1>6 DEF TellControl, netSide, broker
  <2> QED
    BY <1>0, <2>1 DEF Echo, Quiet, Final
<1>7. CASE TellNetwork
  <2>1. /\ toNetwork' = Append(toNetwork, shown) /\ shown \in Target
        /\ ui' = "top" /\ UNCHANGED <<down, inbox, net, channel, linked>>
    BY <1>7 DEF TellNetwork, netSide, broker, Typed
  <2>2. ~Quiet'
    <3>1. shown # Reading
      BY <2>1, TargetFacts
    <3>2. Append(toNetwork, shown) \notin Seq({Reading})
      BY <2>1, <3>1, ReadingsAppend DEF Typed
    <3> QED
      BY <2>1, <3>2 DEF Quiet
  <2> QED
    BY <1>0, <2>1, <2>2 DEF Echo, Final
<1>8. CASE ControlBoot
  <2>1. UNCHANGED <<stored, shown, toControl, toUI, toNetwork, net, inbox,
                    down, channel, linked, ui, uiLinked>>
    BY <1>8 DEF ControlBoot, userSide, netSide, broker, queues
  <2>2. CASE ui = "boot"
    BY <1>0, <2>1, <2>2 DEF Echo, Booting, Final
  <2>3. CASE ui # "boot"
    <3>1. toControl # << >>
      BY <1>8, <2>3 DEF ControlBoot, Booting
    <3>2. Final(toControl, setRh)' = Final(toControl, setRh)
      BY <2>1, <3>1 DEF Final
    <3>3. /\ Final(down, inbox)' = Final(down, inbox)
          /\ Quiet' <=> Quiet
      BY <2>1 DEF Final, Quiet
    <3> QED
      BY <1>0, <2>1, <3>2, <3>3 DEF Echo
  <2> QED
    BY <2>2, <2>3
<1>22. CASE ReadingToUI
  <2>1. /\ toUI' \in {toUI, Append(toUI, Reading)}
        /\ UNCHANGED <<stored, setRh, shown, toControl, toNetwork, down,
                       channel, inbox, net, linked, ui, uiLinked>>
    BY <1>22, OfferTyped
       DEF ReadingToUI, Typed, userSide, netSide, broker
  <2>2. \A e, v : EndsWith(toUI, e, v) => EndsWith(toUI', e, v)
    <3>1. CASE toUI' = toUI
      BY <3>1
    <3>2. CASE toUI' = Append(toUI, Reading)
      BY <3>2, EndsInUI DEF Typed
    <3> QED
      BY <2>1, <3>1, <3>2
  <2> QED
    BY <1>0, <2>1, <2>2, EchoReadings
<1>9. CASE Measure \/ NoReading \/ Drained
  <2>1. UNCHANGED <<stored, setRh, shown, toControl, toUI, toNetwork, down,
                    channel, inbox, net, linked, ui, uiLinked>>
    BY <1>9 DEF Measure, NoReading, Drained, userSide, netSide, broker, queues
  <2> QED
    BY <1>0, <2>1, EchoStays DEF Quiet
<1>10. CASE ReadingToNetwork
  <2>1. /\ UNCHANGED <<stored, setRh, shown, toControl, toUI, down,
                       channel, inbox, net, linked, ui, uiLinked>>
        /\ toNetwork' \in {toNetwork, Append(toNetwork, Reading)}
    BY <1>10, OfferTyped
       DEF ReadingToNetwork, Typed, userSide, netSide, broker
  <2>2. Append(toNetwork, Reading) \in Seq({Reading})
          => toNetwork \in Seq({Reading})
    BY ReadingsAppend DEF Typed
  <2>3. Quiet' => Quiet
    BY <2>1, <2>2 DEF Quiet
  <2> QED
    BY <1>0, <2>1, <2>3, EchoStays
<1>11. CASE Adopt
  <2>1. /\ toControl # << >> /\ setRh' = Head(toControl)
        /\ toControl' = Tail(toControl)
        /\ UNCHANGED <<stored, shown, toUI, toNetwork, net, inbox, down,
                       channel, linked, ui, uiLinked>>
    BY <1>11 DEF Adopt, userSide, netSide, broker
  <2>2. Final(toControl, setRh)' = Final(toControl, setRh)
    BY <2>1, TailFinal DEF Typed
  <2>3. /\ Final(down, inbox)' = Final(down, inbox)
        /\ Quiet' <=> Quiet
    BY <2>1 DEF Final, Quiet
  <2> QED
    BY <1>0, <2>1, <2>2, <2>3 DEF Echo
<1>12. CASE Join \/ Pass \/ LinkGood \/ NoMessage \/ YieldEnds
  <2>1. /\ UNCHANGED <<stored, setRh, shown, toControl, toUI, toNetwork,
                       down, channel, inbox, ui, uiLinked>>
        /\ net' \notin {"toUI", "offline"}
        /\ (linked' \/ UNCHANGED linked)
    BY <1>12 DEF Join, Pass, LinkGood, NoMessage, YieldEnds, userSide,
                 device, broker, queues
  <2> QED
    BY <1>0, <2>1, EchoStays DEF Quiet
<1>13. CASE Reconnect
  BY <1>0, <1>13 DEF Reconnect, Echo
<1>14. CASE LinkDead
  BY <1>14 DEF LinkDead
<1>15. CASE Publish
  <2>1. /\ toNetwork # << >> /\ toNetwork' = Tail(toNetwork)
        /\ UNCHANGED <<stored, setRh, shown, toControl, toUI, net, inbox,
                       linked, ui, uiLinked>>
    BY <1>15 DEF Publish, userSide, device, netSide
  <2>2. Head(toNetwork) \in Target \cup {Reading}
    BY <2>1, TailFinal DEF Typed
  <2>3. CASE Head(toNetwork) = Reading
    <3>1. UNCHANGED <<channel, down>>
      BY <1>15, <2>3 DEF Publish
    <3>2. Tail(toNetwork) \in Seq({Reading}) => toNetwork \in Seq({Reading})
      BY <2>1, <2>3, ReadingsTail DEF Typed
    <3>3. Quiet' => Quiet
      BY <2>1, <3>1, <3>2 DEF Quiet
    <3> QED
      BY <1>0, <2>1, <3>1, <3>3, EchoStays
  <2>4. CASE Head(toNetwork) # Reading
    <3>1. Update(Head(toNetwork))
      BY <1>15, <2>4 DEF Publish
    <3> QED
      BY <1>0, <2>1, <2>2, <2>4, <3>1, UpdateEchoes
  <2> QED
    BY <2>3, <2>4
<1>16. CASE ForwardToControl
  <2>1. /\ toControl' = Append(toControl, inbox) /\ inbox \in Bytes
        /\ net' = "toUI" /\ inbox # Nothing
        /\ UNCHANGED <<inbox, down, channel, linked, ui, uiLinked>>
    BY <1>16, TargetFacts DEF ForwardToControl, Typed, userSide, broker
  <2>2. Final(toControl', setRh') = inbox
    BY <2>1, AppendFinal DEF Typed
  <2>3. Final(down, inbox)' = Final(down, inbox)
    BY <2>1 DEF Final
  <2> QED
    BY <1>0, <2>1, <2>2, <2>3 DEF Echo
<1>17. CASE ForwardToUI
  <2>1. /\ toUI' = Append(toUI, inbox) /\ inbox \in Target
        /\ net = "toUI" /\ net' = "yield" /\ inbox' = Nothing
        /\ UNCHANGED <<toControl, setRh, toNetwork, down, channel, linked,
                       ui, uiLinked>>
    BY <1>17, TargetFacts DEF ForwardToUI, Typed, userSide, device, broker
  <2>2. \A e : EndsWith(toUI', e, inbox)
    BY <2>1, EndsInUI, TargetFacts DEF Typed
  <2>3. /\ Final(toControl, setRh)' = Final(toControl, setRh)
        /\ Quiet' <=> Quiet
    BY <2>1 DEF Final, Quiet
  <2>4. Final(down', inbox') \in {Final(down, inbox), Nothing}
    BY <2>1 DEF Final
  <2>5. Quiet => Final(down, inbox) = inbox /\ inbox # Nothing
    BY <2>1, TargetFacts DEF Quiet, Final
  <2> QED
    BY <1>0, <2>1, <2>2, <2>3, <2>4, <2>5 DEF Echo
<1>18. CASE Arrive
  <2>1. /\ net = "yield" /\ net' = "yield" /\ down # << >>
        /\ inbox' = Head(down) /\ down' = Tail(down)
        /\ UNCHANGED <<channel, linked, ui, uiLinked>>
    BY <1>18 DEF Arrive, userSide
  <2>2. /\ Final(down', inbox') = Final(down, inbox)
        /\ Head(down) \in Target
    BY <2>1, TailFinal DEF Typed
  <2>3. inbox' # Nothing
    BY <2>1, <2>2, TargetFacts
  <2> QED
    BY <1>0, <2>1, <2>2, <2>3 DEF Echo
<1>19. CASE WebSets
  <2>1. PICK t \in Target : Update(t)
    BY <1>19, TargetFacts DEF WebSets
  <2>2. UNCHANGED <<inbox, net, linked, ui, uiLinked>>
    BY <1>19 DEF WebSets, userSide, netSide
  <2> QED
    BY <1>0, <2>1, <2>2, UpdateEchoes
<1>20. CASE UNCHANGED vars
  <2>1. UNCHANGED <<stored, setRh, shown, toControl, toUI, toNetwork, down,
                    channel, inbox, net, linked, ui, uiLinked>>
    BY <1>20 DEF vars, userSide, device, netSide, broker, queues
  <2> QED
    BY <1>0, <2>1, EchoStays DEF Quiet
<1> QED
  BY <1>2, <1>3, <1>4, <1>5, <1>6, <1>7, <1>8, <1>9, <1>10, <1>11, <1>12,
     <1>13, <1>14, <1>15, <1>16, <1>17, <1>18, <1>19, <1>20, <1>21, <1>22
     DEF Next, UI, Control, Network

-----------------------------------------------------------------------------
LEMMA Inductive == Spec => []IInv
<1>1. IInv /\ [Next]_vars => IInv'
  BY BoundedKeeps, TypedKeeps, BootingKeeps, AgreeKeeps, EchoKeeps DEF IInv
<1> QED
  BY <1>1, InitIInv, PTL DEF Spec

(* The three queues never hold more than their slots, and what travels is  *)
(* a target or a reading, whatever byte the EEPROM held at power-up.       *)
THEOREM TypeCorrect == Spec => []TypeOK
<1>1. IInv => TypeOK
  <2> SUFFICES ASSUME IInv PROVE TypeOK
    OBVIOUS
  <2> USE TargetFacts DEF IInv, Typed
  <2>1. /\ toControl \in Seq(Bytes)
        /\ toUI \in Seq(Bytes \cup {Reading})
        /\ toNetwork \in Seq(Bytes \cup {Reading})
        /\ down \in Seq(Bytes)
    BY SeqMonotonic
  <2>2. {uiLinked, linkSeen, linked, astray, lost} \subseteq BOOLEAN
    BY Zenon
  <2>3. {stored, setRh, shown, slider} \subseteq Bytes
    OBVIOUS
  <2>4. \A q \in {toControl, toUI, toNetwork} : Len(q) <= QueueLength
    OBVIOUS
  <2>5. inbox \in Bytes \cup {Nothing} /\ channel \in Bytes \cup {Nothing}
    OBVIOUS
  <2> QED
    BY <2>1, <2>2, <2>3, <2>4, <2>5 DEF TypeOK, Bounded
<1> QED
  BY <1>1, Inductive, PTL

(* Once every target has been received after an update that neither        *)
(* crossed another nor was cut short, Control regulates to what the EEPROM *)
(* keeps and the screen shows, whatever readings are still in the queues,  *)
(* and whatever byte the EEPROM held or failures left before that update.  *)
THEOREM PlacesAgree == Spec => []Agreement
<1>1. IInv => Agreement
  <2> SUFFICES ASSUME IInv, Settled, ~astray PROVE {setRh, shown} = {stored}
    BY DEF Agreement
  <2>1. /\ toControl = << >> /\ OnlyReadings(toUI)
        /\ net # "toUI" /\ ui \notin {"boot", "control"}
    BY DEF Settled
  <2>2. EndsWith(toUI, stored, setRh) /\ shown = stored
    BY <2>1 DEF IInv, Agree, Final
  <2>3. setRh = stored
    BY <2>1, <2>2, EndsHere DEF IInv, Typed
  <2> QED
    BY <2>2, <2>3
<1> QED
  BY <1>1, Inductive, PTL

(* If nothing is lost on the way, then however many saves and targets of   *)
(* the web page cross each other, once all is quiet device, screen and     *)
(* EEPROM have the value of the channel: the echo mends them.              *)
THEOREM EchoMends == Spec => []EchoHeals
<1>1. IInv => EchoHeals
  <2> SUFFICES ASSUME IInv, Settled, channel # Nothing, inbox = Nothing,
                      down = << >>, ui # "network",
                      OnlyReadings(toNetwork), ~lost, faults = 0
               PROVE  {setRh, shown, stored} = {channel}
    BY DEF EchoHeals
  <2>1. toControl = << >> /\ OnlyReadings(toUI) /\ ui # "control"
    BY DEF Settled
  <2>2. Quiet
    BY <2>1 DEF Quiet, OnlyReadings
  <2>3. /\ setRh = channel /\ EndsWith(toUI, stored, channel)
        /\ EndsWith(toUI, shown, channel)
    BY <2>1, <2>2 DEF IInv, Echo, Final
  <2>4. stored = channel /\ shown = channel
    BY <2>1, <2>3, EndsHere DEF IInv, Typed
  <2> QED
    BY <2>3, <2>4
<1> QED
  BY <1>1, Inductive, PTL
=============================================================================
