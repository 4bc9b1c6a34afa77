----------------------------- MODULE EventGroup -----------------------------
(***************************************************************************)
(* One event group (event_groups.c) as operators on a kernel state k and   *)
(* the set of its bits.  Its waiters are in no order; each keeps what it   *)
(* waits for in the value of its event item, marked as in use, and finds   *)
(* there the bits that released it.                                        *)
(***************************************************************************)
EXTENDS Kernel

Waiters == <<"group", "bits">>      \* xTasksWaitingForBits

\* prvTestWaitCondition, for the bits, and all or any of them, of w.
ConditionMet(bits, w) ==
    IF w.all THEN w.bits \subseteq bits ELSE w.bits \cap bits # {}

\* vTaskPlaceOnUnorderedEventList.
PlaceOnUnordered(k, w, wait) ==
    AddCurrentToDelayed([k EXCEPT !.evval[k.cur] = w,
                                  !.ev[Waiters] = Append(@, k.cur)], wait, TRUE)

\* vTaskRemoveFromUnorderedEventList: straight to the ready list, although
\* the scheduler is suspended; no interrupt uses these lists.
RemoveFromUnordered(k, t, bits) ==
    LET a == [k EXCEPT !.evval[t] =
                    [NotInUse EXCEPT !.use = "set", !.bits = bits]]
    IN  [Wakened(a, t) EXCEPT !.yp = @ \/ HigherThanCurrent(k, t)]

\* The walk of xEventGroupSetBits over the waiters, with the scheduler
\* suspended: all of them are tested against the same bits, and those that the
\* released ones asked to clear are cleared at the end.
SetBits(k, bits, new) ==
    LET all == bits \union new
        Met(t) == ConditionMet(all, k.evval[t])
        Visit(a, t) == IF Met(t) THEN RemoveFromUnordered(a, t, all) ELSE a
    IN  [k |-> ForEach(Visit, k, k.ev[Waiters]),
         bits |-> all \ UNION {k.evval[t].bits :
                              t \in {u \in ToSet(k.ev[Waiters]) : Met(u) /\ k.evval[u].clear}}]

\* uxTaskResetEventItemValue: the item is sorted by priority again.
ResetEventValue(k) ==
    [k EXCEPT !.evval[k.cur] = NotInUse, !.evprio[k.cur] = k.prio[k.cur]]
=============================================================================
