------------------------------ MODULE BytePipe ------------------------------
(***************************************************************************)
(* What a stream buffer promises its one writer and its one reader: the    *)
(* bytes come out in the order they went in, each once, and never more of  *)
(* them wait than the buffer has room for.                                 *)
(***************************************************************************)
EXTENDS Naturals, Sequences

CONSTANTS Byte, Capacity

VARIABLES
    asked,      \* the bytes of the call of the writer
    pipe,       \* the bytes accepted and not yet taken
    got         \* the bytes the last call of the reader returned
vars == <<asked, pipe, got>>

Init == asked = <<>> /\ pipe = <<>> /\ got = <<>>

Ask == asked' \in Seq(Byte) /\ UNCHANGED <<pipe, got>>

\* All or the first of the bytes are accepted ...
Put == \E n \in 1 .. Len(asked) :
    /\ Len(pipe) + n <= Capacity
    /\ pipe' = pipe \o SubSeq(asked, 1, n)
    /\ UNCHANGED <<asked, got>>

Forget == got' = <<>> /\ UNCHANGED <<asked, pipe>>

\* ... and the oldest ones are taken.
Take == \E n \in 1 .. Len(pipe) :
    /\ got' = SubSeq(pipe, 1, n)
    /\ pipe' = SubSeq(pipe, n + 1, Len(pipe))
    /\ UNCHANGED asked

Next == Ask \/ Put \/ Forget \/ Take

Spec == Init /\ [][Next]_vars
=============================================================================
