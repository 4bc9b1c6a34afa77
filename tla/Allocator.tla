------------------------------ MODULE Allocator ------------------------------
(***************************************************************************)
(* What a heap promises: each piece of memory has one owner until it is    *)
(* given back, and a request is refused only if no gap between the pieces  *)
(* given out is as long as it.                                             *)
(***************************************************************************)
EXTENDS Integers

CONSTANTS
    First, End, \* the memory: the addresses First .. End - 1
    Header,     \* what a piece needs beyond the bytes asked for
    Align       \* every piece starts, and its length is, a multiple of Align

VARIABLES
    owned,      \* the pieces given out, as [from |-> first, to |-> one past the last]
    asked,      \* the bytes of the request under way
    got         \* what the request returned: nothing yet, the piece, or Refused
vars == <<owned, asked, got>>

Nothing == [from |-> 0, to |-> 0]
Refused == [from |-> -1, to |-> -1]

Clear(x, y) == \A p \in owned : y <= p.from \/ p.to <= x

\* A gap that starts where the memory or what follows a piece does.
Room(n) ==
    \E x \in {First} \union {p.to : p \in owned} : x + n <= End /\ Clear(x, x + n)

\* The least length of a piece that serves a request of n bytes.
Least(n) == ((n + Header + Align - 1) \div Align) * Align

Init == owned = {} /\ asked = 0 /\ got = Nothing

Ask == asked' \in Nat /\ got' = Nothing /\ UNCHANGED owned

Give ==
    /\ owned' = owned \union {got'}
    /\ got' \notin owned
    /\ First <= got'.from /\ got'.to <= End
    /\ got'.from % Align = 0
    /\ got'.to - got'.from >= Least(asked) /\ asked > 0
    /\ Clear(got'.from, got'.to)
    /\ UNCHANGED asked

Refuse == got' = Refused /\ (asked = 0 \/ ~Room(Least(asked))) /\ UNCHANGED <<owned, asked>>

TakeBack == (\E p \in owned : owned' = owned \ {p}) /\ UNCHANGED <<asked, got>>

Next == Ask \/ Give \/ Refuse \/ TakeBack

Spec == Init /\ [][Next]_vars
=============================================================================
