---------------------------- MODULE MessageQueue ----------------------------
(***************************************************************************)
(* What a queue promises those who use it: a bounded buffer that gives     *)
(* each item once, in the order the items went in, the urgent ones first   *)
(* and the last of these before the others.  A mailbox, of length 1, takes *)
(* an urgent item in place of the one it has.  got holds what the last     *)
(* call of each user returned.                                             *)
(***************************************************************************)
EXTENDS Naturals, Sequences

CONSTANTS User, Channel, Length, Value,
          Urgent    \* the items sent to the front

VARIABLES items, got
vars == <<items, got>>

Init == items = [c \in Channel |-> <<>>] /\ got = [u \in User |-> "none"]

\* A user, or an interrupt, which keeps no result here, adds an item ...
Told(r) == got' = got \/ \E u \in User : got' = [got EXCEPT ![u] = r]
Put(c, v) ==
    /\ Len(items[c]) < Length[c]
    /\ items' = [items EXCEPT ![c] = IF v \in Urgent THEN <<v>> \o @ ELSE Append(@, v)]
    /\ Told("ok")
Replace(c, v) ==
    /\ Length[c] = 1
    /\ items' = [items EXCEPT ![c] = <<v>>]
    /\ Told("ok")

\* ... takes the first one, or only reads it ...
Take(c) ==
    /\ items[c] # <<>>
    /\ items' = [items EXCEPT ![c] = Tail(@)]
    /\ Told(Head(items[c]))
Peek(c) ==
    /\ items[c] # <<>>
    /\ Told(Head(items[c]))
    /\ UNCHANGED items

\* ... or throws all of them away.
Clear(c) == items' = [items EXCEPT ![c] = <<>>] /\ Told("ok")

\* A call ends with no item: refused, or not one of a queue.
Other(u, r) ==
    /\ r \notin Value
    /\ got' = [got EXCEPT ![u] = r]
    /\ UNCHANGED items

\* A user makes a new one, which has called nothing yet.
Join(u, new) ==
    /\ got' = [got EXCEPT ![u] = "ok", ![new] = "none"]
    /\ UNCHANGED items

Next ==
    \/ \E c \in Channel :
          \/ Take(c) \/ Peek(c) \/ Clear(c)
          \/ \E v \in Value : Put(c, v)
          \/ \E v \in Urgent : Replace(c, v)
    \/ \E u \in User, r \in {"ok", "failed"} : Other(u, r)
    \/ \E u, new \in User : Join(u, new)

Spec == Init /\ [][Next]_vars
=============================================================================
