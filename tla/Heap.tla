-------------------------------- MODULE Heap --------------------------------
(***************************************************************************)
(* The heap every object of the kernel and every `new' of the application  *)
(* comes from (portable/MemMang/heap_4.c): a list of free blocks in the    *)
(* order of their addresses, first fit, blocks split when they are given   *)
(* and merged with their neighbours when they come back.                   *)
(*                                                                         *)
(* The addresses are those of the block headers.  A step is an iteration   *)
(* of one of the two loops or what lies between them; the scheduler is     *)
(* suspended meanwhile, so that the only thing another task can come       *)
(* between is vPortFree, which clears the mark of the block before it      *)
(* suspends the scheduler.  The headers of blocks that are no more are     *)
(* kept at 0: nothing may read them.                                       *)
(***************************************************************************)
EXTENDS Integers, FiniteSetsExt

CONSTANTS
    Base,       \* the address of ucHeap
    Total,      \* configTOTAL_HEAP_SIZE
    Align,      \* portBYTE_ALIGNMENT
    Header,     \* xHeapStructSize, a multiple of Align
    SizeMax,    \* heapSIZE_MAX; its upper half marks blocks as allocated, and
                \* configTOTAL_HEAP_SIZE is far below that
    Sizes       \* bound: the sizes asked for

RoundUp(n) == n + ((Align - (n % Align)) % Align)
RoundDown(n) == n - (n % Align)

\* prvHeapInit: the first block and the end marker.
First == RoundUp(Base)
End == RoundDown(Base + Total - Header)

ASSUME HeapConstants ==
    /\ Base \in Nat /\ Total \in Nat /\ Align \in Nat \ {0} /\ Header \in Nat \ {0}
    /\ SizeMax \in Nat /\ Sizes \subseteq 0 .. SizeMax
    /\ First < End /\ Total <= SizeMax \div 2

Address == First .. End
ListStart == -1             \* xStart: in no block, in front of all of them
NoBlock == -2
MinimumBlock == 2 * Header  \* heapMINIMUM_BLOCK_SIZE

VARIABLES
    size, next,     \* xBlockSize without its mark, and pxNextFreeBlock
    used,           \* the blocks that are marked as allocated
    marked,         \* blocks vPortFree has taken the mark from, not free yet
    remaining,      \* xFreeBytesRemaining
    pc, wanted,     \* the call under way, and the size it was called with
    prev, block,    \* pxPreviousBlock and pxBlock
    hand, at,       \* pxBlockToInsert and pxIterator
    keep,           \* the block pvPortMalloc returns once its rest is inserted
    got             \* the block pvPortMalloc returned, with its end
cursors == <<prev, block, hand, at, keep>>
heapVars == <<size, next, used, marked, remaining, pc, wanted, cursors, got>>

\* The blocks in the list of free ones.
Free == {a \in Address : size[a] > 0} \ (used \union marked \union {hand, keep})

\* The blocks that belong to the application, or still count as if they did: one
\* that is freed is free when it is in the list.
Allocated == used \union marked \union (IF keep = NoBlock /\ hand # NoBlock THEN {hand} ELSE {})
Piece(b) == [from |-> b, to |-> b + size[b]]
Owners == INSTANCE Allocator WITH
              owned <- {Piece(b) : b \in Allocated}, asked <- wanted

----------------------------------------------------------------------------
(* pvPortMalloc.                                                           *)

\* mutant: the addition may wrap.
DemandWraps(n) == IF n = 0 THEN 0 ELSE RoundUp((n + Header) % (SizeMax + 1))

\* The size with the header and rounded up, 0 if that overflows.
Demand(n) ==
    LET s == n + Header
    IN  IF n = 0 \/ s > SizeMax \/ RoundUp(s) > SizeMax THEN 0 ELSE RoundUp(s)
Needed == Demand(wanted)
Valid(r) == r <= SizeMax \div 2

Malloc(n) ==
    /\ pc = "idle"
    /\ wanted' = n
    /\ got' = Owners!Nothing
    /\ pc' = "asked"
    /\ UNCHANGED <<size, next, used, marked, remaining, cursors>>

\* A request that is invalid or larger than all that is free is refused at once.
Look ==
    /\ pc = "asked"
    /\ IF Valid(Needed) /\ Needed > 0 /\ Needed <= remaining
       THEN /\ pc' = "search" /\ prev' = ListStart /\ block' = next[ListStart]
            /\ UNCHANGED <<hand, at, keep, got>>
       ELSE pc' = "idle" /\ got' = Owners!Refused /\ UNCHANGED cursors
    /\ UNCHANGED <<size, next, used, marked, remaining, wanted>>

TooSmall == size[block] < Needed /\ next[block] # NoBlock

\* The loop that looks for the first block that is large enough.
Walk ==
    /\ pc = "search" /\ TooSmall
    /\ prev' = block /\ block' = next[block]
    /\ UNCHANGED <<size, next, used, marked, remaining, pc, wanted, hand, at, keep, got>>

NoneFits ==
    /\ pc = "search" /\ ~TooSmall /\ block = End
    /\ pc' = "idle" /\ got' = Owners!Refused
    /\ prev' = NoBlock /\ block' = NoBlock
    /\ UNCHANGED <<size, next, used, marked, remaining, wanted, hand, at, keep>>

\* The block leaves the list; what is more than a block than needed becomes a
\* block of its own, to be inserted.
Fits ==
    /\ pc = "search" /\ ~TooSmall /\ block # End
    /\ keep' = block /\ prev' = NoBlock /\ block' = NoBlock
    /\ next' = [next EXCEPT ![prev] = next[block], ![block] = NoBlock]
    /\ IF size[block] - Needed > MinimumBlock
       THEN /\ size' = [size EXCEPT ![block] = Needed,
                                    ![block + Needed] = size[block] - Needed]
            /\ hand' = block + Needed /\ at' = ListStart /\ pc' = "insert"
       ELSE UNCHANGED <<size, hand, at>> /\ pc' = "give"
    /\ UNCHANGED <<used, marked, remaining, wanted, got>>

Give ==
    /\ pc = "give"
    /\ remaining' = remaining - size[keep]
    /\ used' = used \union {keep}
    /\ got' = Piece(keep) /\ keep' = NoBlock
    /\ pc' = "idle"
    /\ UNCHANGED <<size, next, marked, wanted, prev, block, hand, at>>

----------------------------------------------------------------------------
(* vPortFree.                                                              *)

FreeMark(b) ==
    /\ pc = "idle" /\ b \in used
    /\ used' = used \ {b} /\ marked' = marked \union {b}
    /\ UNCHANGED <<size, next, remaining, pc, wanted, cursors, got>>

FreeInsert(b) ==
    /\ pc = "idle" /\ b \in marked
    /\ marked' = marked \ {b}
    /\ remaining' = remaining + size[b]
    /\ hand' = b /\ at' = ListStart /\ pc' = "insert"
    /\ UNCHANGED <<size, next, used, wanted, prev, block, keep, got>>

----------------------------------------------------------------------------
(* prvInsertBlockIntoFreeList.                                             *)

Seek ==
    /\ pc = "insert" /\ next[at] < hand
    /\ at' = next[at]
    /\ UNCHANGED <<size, next, used, marked, remaining, pc, wanted, prev, block, hand,
                   keep, got>>

\* The block joins the one in front of it, the one behind it, both or none.
JoinsFront == at # ListStart /\ at + size[at] = hand
Joined == IF JoinsFront THEN at ELSE hand
JoinedSize == IF JoinsFront THEN size[at] + size[hand] ELSE size[hand]
\* mutant: the last block swallows the end marker.
JoinsEnd == Joined + JoinedSize = next[at]

JoinsBack == Joined + JoinedSize = next[at] /\ next[at] # End

Link ==
    /\ pc = "insert" /\ next[at] >= hand
    /\ size' = [a \in Address |->
            IF a = Joined THEN JoinedSize + (IF JoinsBack THEN size[next[at]] ELSE 0)
            ELSE IF a = hand \/ (JoinsBack /\ a = next[at]) THEN 0 ELSE size[a]]
    /\ next' = [a \in Address \union {ListStart} |->
            IF a = Joined THEN IF JoinsBack THEN next[next[at]] ELSE next[at]
            ELSE IF a = at THEN Joined
            ELSE IF JoinsBack /\ a = next[at] THEN NoBlock ELSE next[a]]
    /\ hand' = NoBlock /\ at' = NoBlock
    /\ pc' = IF keep = NoBlock THEN "idle" ELSE "give"
    /\ UNCHANGED <<used, marked, remaining, wanted, prev, block, keep, got>>

----------------------------------------------------------------------------
\* prvHeapInit, which the first pvPortMalloc calls: one free block.
HeapInit ==
    /\ size = [a \in Address |-> IF a = First THEN End - First ELSE 0]
    /\ next = [a \in Address \union {ListStart} |->
                  IF a = ListStart THEN First ELSE IF a = First THEN End ELSE NoBlock]
    /\ used = {} /\ marked = {}
    /\ remaining = End - First
    /\ pc = "idle" /\ wanted = 0
    /\ prev = NoBlock /\ block = NoBlock /\ hand = NoBlock /\ at = NoBlock /\ keep = NoBlock
    /\ got = Owners!Nothing

HeapNext ==
    \/ \E n \in Sizes : Malloc(n)
    \/ Look \/ Walk \/ NoneFits \/ Fits \/ Give
    \/ \E b \in used : FreeMark(b)
    \/ \E b \in marked : FreeInsert(b)
    \/ Seek \/ Link

HeapSpec == HeapInit /\ [][HeapNext]_heapVars

----------------------------------------------------------------------------
(* Properties.                                                             *)

\* The heap gives each byte to one owner at a time and refuses a request only
\* if no gap is long enough: the free blocks are all found, and neighbours merge.
GivesEachByteOnce == Owners!Spec

\* Between two calls the blocks tile the heap without a hole, the list links the
\* free ones and only those in the order of their addresses, no two of them are
\* neighbours, and xFreeBytesRemaining is the number of their bytes.  Every
\* block is aligned.
FreeListExact ==
    pc = "idle" =>
        LET blocks == Free \union used \union marked
            After(a) == {b \in Free : b > a}
        IN  /\ First \in blocks /\ \A b \in blocks : b % Align = 0
            /\ \A b \in blocks : b + size[b] \in (blocks \ {First}) \union {End}
            /\ \A a, b \in blocks : a < b => a + size[a] <= b
            /\ \A a \in Free \union {ListStart} :
                  next[a] = IF After(a) = {} THEN End ELSE Min(After(a))
            /\ \A b \in Free : b + size[b] \notin Free
            /\ remaining = Cardinality(UNION {b .. b + size[b] - 1 : b \in Free})
=============================================================================
