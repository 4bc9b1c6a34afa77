------------------------------- MODULE Kernel -------------------------------
(***************************************************************************)
(* The scheduler of the FreeRTOS kernel the controller runs on (tasks.c    *)
(* and list.c), as operators on one record.  The configuration is that of  *)
(* FreeRTOSConfig.h: one core, preemption, time slicing, mutexes, the      *)
(* generic selection of the next task.  A kernel state k has               *)
(*   cur, top          pxCurrentTCB and uxTopReadyPriority                 *)
(*   ready             one circular list per priority: its items q and     *)
(*                     pxIndex as a position `at' (0: the end marker)      *)
(*   delayed, overflow the two delayed lists, suspended the suspended one  *)
(*   wake              the item value of each task in a delayed list       *)
(*   ev                the event lists, that of Pend xPendingReadyList      *)
(*   evprio, evval     the value of the event item of a task: the priority *)
(*                     it is sorted by, or what an event group keeps there *)
(*   prio, base, held  uxPriority, uxBasePriority, uxMutexesHeld           *)
(*   nstate, note      ucNotifyState and ulNotifiedValue                   *)
(*   tick, ovf         xTickCount modulo TickMod, xNumOfOverflows          *)
(*   unblock           xNextTaskUnblockTime                                *)
(*   sus, pended, yp   uxSchedulerSuspended, xPendedTicks, xYieldPending   *)
(*   aborted           the tasks whose ucDelayAborted is set               *)
(*   dead, gone        xTasksWaitingTermination, and the deleted tasks     *)
(* A task that waits for ever is in `suspended', as in the code; tick and  *)
(* overflow counts wrap at TickMod and OvfMod.                             *)
(***************************************************************************)
EXTENDS Integers, Sequences, FiniteSets, FiniteSetsExt, SequencesExt

CONSTANTS
    Task,       \* every task, the idle task among them
    Idle,       \* the idle task
    BasePrio,   \* the priority each task is created with
    EventList,  \* the event lists of the kernel objects
    TickMod,    \* 2^32 in the code: the tick count is modulo TickMod
    OvfMod      \* 2^32 in the code: so is the count of its overflows

ASSUME KernelConstants ==
    /\ IsFiniteSet(Task) /\ Idle \in Task
    /\ BasePrio \in [Task -> Nat]
    /\ BasePrio[Idle] = 0
    /\ TickMod \in Nat \ {0, 1}
    /\ OvfMod \in Nat \ {0, 1}

MaxDelay == TickMod - 1        \* portMAX_DELAY: wait for ever
Pend == <<"kernel", "pend">>    \* the name of xPendingReadyList
Zero == "0"                   \* a notification value of 0: none to take
NotInUse == [use |-> "none", bits |-> {}, all |-> FALSE, clear |-> FALSE]
Prio == {BasePrio[t] : t \in Task}

----------------------------------------------------------------------------
(* Lists (list.c).                                                         *)

\* vListInsertEnd: just before pxIndex, so that it is the last one served.
InsertEnd(l, t) ==
    IF l.at = 0 THEN [l EXCEPT !.q = Append(@, t)]
                ELSE [q |-> InsertAt(l.q, l.at, t), at |-> l.at + 1]

\* uxListRemove: pxIndex steps back if it points to the item that goes, or to
\* one behind it.
Drop(l, t) ==
    [q |-> RemoveFirst(l.q, t),
     at |-> IF \E i \in 1 .. l.at : l.q[i] = t THEN l.at - 1 ELSE l.at]

\* vListInsert: before the first item with a larger value, after its equals.
InsertSorted(s, t, Before(_, _)) ==
    LET i == SelectInSeq(s, LAMBDA e : Before(t, e))
    IN  IF i = 0 THEN Append(s, t) ELSE InsertAt(s, i, t)

ByWake(k, s, t) == InsertSorted(s, t, LAMBDA a, b : k.wake[a] < k.wake[b])
ByPrio(k, s, t) == InsertSorted(s, t, LAMBDA a, b : k.evprio[a] > k.evprio[b])

\* A step for each item of a list, from the first to the last: a fold to the left,
\* as a recursive function.
ForEach(Step(_, _), a, s) ==
    LET after[i \in 0 .. Len(s)] == IF i = 0 THEN a ELSE Step(after[i - 1], s[i])
    IN  after[Len(s)]

----------------------------------------------------------------------------
(* The state of a task.                                                    *)

\* prvAddTaskToReadyList.
AddToReady(k, t) ==
    [k EXCEPT !.ready[k.prio[t]] = InsertEnd(@, t),
              !.top = IF k.prio[t] > @ THEN k.prio[t] ELSE @]

\* uxListRemove of the state item, from whichever list holds it; its value is
\* not read again before it is set.
OutOfState(k, t) ==
    [k EXCEPT !.ready = [p \in Prio |-> Drop(@[p], t)],
              !.delayed = RemoveFirst(@, t),
              !.overflow = RemoveFirst(@, t),
              !.suspended = @ \ {t},
              !.wake[t] = 0]

\* uxListRemove of the event item.
OutOfEvent(k, t) == [k EXCEPT !.ev = [l \in DOMAIN @ |-> RemoveFirst(@[l], t)]]

IsReady(k, t) == Contains(k.ready[k.prio[t]].q, t)
HigherThanCurrent(k, t) == k.prio[t] > k.prio[k.cur]

\* mutant: a task that times out stays in its event list.
WakenedStateOnly(k, t) == AddToReady(OutOfState(k, t), t)

Wakened(k, t) == AddToReady(OutOfState(OutOfEvent(k, t), t), t)

\* prvResetNextTaskUnblockTime.
ResetUnblock(k) ==
    [k EXCEPT !.unblock = IF k.delayed = <<>> THEN MaxDelay
                                              ELSE k.wake[Head(k.delayed)]]

\* vTaskSwitchContext.
Switch(k) ==
    IF k.sus > 0 THEN [k EXCEPT !.yp = TRUE]
    ELSE LET p == Max({r \in Prio : r <= k.top /\ k.ready[r].q # <<>>})
             i == (k.ready[p].at % Len(k.ready[p].q)) + 1
         IN  [k EXCEPT !.yp = FALSE, !.top = p, !.ready[p].at = i,
                       !.cur = k.ready[p].q[i]]

SwitchIf(b, k) == IF b THEN Switch(k) ELSE k

\* A switch the kernel owes: made at once, or noted in xYieldPending.
YieldNow(u) == SwitchIf(u.switch, u.k)
YieldLater(u) == [u.k EXCEPT !.yp = @ \/ u.switch]
YieldTo(k, t) == [k EXCEPT !.yp = @ \/ HigherThanCurrent(k, t)]

\* prvAddCurrentTaskToDelayedList.
AddCurrentToDelayed(k, wait, canBlockForEver) ==
    LET t == k.cur
        w == (k.tick + wait) % TickMod
        a == [OutOfState(k, t) EXCEPT !.aborted = @ \ {t}]
        b == [a EXCEPT !.wake[t] = w]
    IN  IF wait = MaxDelay /\ canBlockForEver
        THEN [a EXCEPT !.suspended = @ \union {t}]
        ELSE IF w < k.tick
        THEN [b EXCEPT !.overflow = ByWake(b, @, t)]
        ELSE [b EXCEPT !.delayed = ByWake(b, @, t),
                       !.unblock = IF w < @ THEN w ELSE @]

----------------------------------------------------------------------------
(* Time.                                                                   *)

\* mutant: the next unblock time is not recomputed for the new list.
SwapListsOnly(k) ==
    [k EXCEPT !.delayed = k.overflow, !.overflow = k.delayed,
              !.ovf = (@ + 1) % OvfMod]

\* taskSWITCH_DELAYED_LISTS, when the count wraps to 0.
SwapDelayedLists(k) ==
    ResetUnblock([k EXCEPT !.delayed = k.overflow, !.overflow = k.delayed,
                           !.ovf = (@ + 1) % OvfMod])

\* The tasks of the delayed list whose time has come.
Due(k) ==
    LET late == SelectInSeq(k.delayed, LAMBDA t : k.wake[t] > k.tick)
    IN  IF k.tick < k.unblock THEN <<>>
        ELSE IF late = 0 THEN k.delayed ELSE SubSeq(k.delayed, 1, late - 1)

\* The kernel after a tick that woke the tasks of due, and whether it requires
\* a switch: one of them, or a task of the same priority, is to run.
Ticked(k, due) ==
    [k |-> k,
     switch |-> \/ \E t \in ToSet(due) : HigherThanCurrent(k, t)
                \/ Len(k.ready[k.prio[k.cur]].q) > 1
                \/ k.yp]

WakeDue(k) ==
    Ticked(IF k.tick < k.unblock THEN k
           ELSE ResetUnblock(ForEach(Wakened, k, Due(k))), Due(k))

\* xTaskIncrementTick: the new kernel and whether a switch is required.
IncrementTick(k) ==
    LET a == [k EXCEPT !.tick = (@ + 1) % TickMod]
    IN  IF k.sus > 0 THEN [k |-> [k EXCEPT !.pended = @ + 1], switch |-> FALSE]
        ELSE WakeDue(IF a.tick = 0 THEN SwapDelayedLists(a) ELSE a)

\* vTaskSuspendAll.
SuspendAll(k) == [k EXCEPT !.sus = @ + 1]

\* The part of xTaskResumeAll that runs once nothing holds the scheduler: the
\* tasks in xPendingReadyList, then one xTaskIncrementTick per pended tick.
ReadyPended(k) ==
    LET Move(a, t) == YieldTo(Wakened(a, t), t)
    IN  IF k.ev[Pend] = <<>> THEN k ELSE ResetUnblock(ForEach(Move, k, k.ev[Pend]))

UnwindTicks(k) ==
    LET after[n \in 0 .. k.pended] ==
            IF n = 0 THEN k ELSE YieldLater(IncrementTick(after[n - 1]))
    IN  [after[k.pended] EXCEPT !.pended = 0]

\* xTaskResumeAll: the new kernel, and whether it has yielded.
Yielded(k) == [k |-> SwitchIf(k.yp, k), yielded |-> k.yp]
ResumeAll(k) ==
    LET a == [k EXCEPT !.sus = @ - 1]
    IN  IF a.sus > 0 THEN [k |-> a, yielded |-> FALSE]
        ELSE Yielded(UnwindTicks(ReadyPended(a)))

\* mutant: the wait is shortened, the time it starts from is not moved up.
CheckFromEntry(k, at, ovf, wait) ==
    LET elapsed == (k.tick - at) % TickMod
    IN  IF k.cur \notin k.aborted /\ (wait = MaxDelay \/ elapsed < wait)
        THEN [expired |-> FALSE, at |-> at, ovf |-> ovf,
              wait |-> IF wait = MaxDelay THEN wait ELSE wait - elapsed]
        ELSE [expired |-> TRUE, at |-> at, ovf |-> ovf, wait |-> 0]

\* xTaskCheckForTimeOut, for a timeout state [at, ovf] and the ticks to wait:
\* whether it has expired, or the wait was aborted, and both as the call leaves
\* them.
CheckForTimeOut(k, at, ovf, wait) ==
    LET elapsed == (k.tick - at) % TickMod
        keep == [expired |-> FALSE, at |-> at, ovf |-> ovf, wait |-> wait]
    IN  IF k.cur \in k.aborted THEN [keep EXCEPT !.expired = TRUE]
        ELSE IF wait = MaxDelay THEN [keep EXCEPT !.at = 0, !.ovf = 0]
        ELSE IF \/ k.ovf # ovf /\ k.tick >= at
                \/ elapsed >= wait
        THEN [keep EXCEPT !.expired = TRUE, !.wait = 0]
        ELSE [keep EXCEPT !.at = k.tick, !.ovf = k.ovf, !.wait = wait - elapsed]

\* xTaskDelayUntil: whether a task that last woke at `last' has to sleep
\* until last + inc.
ShouldDelay(k, last, inc) ==
    LET w == (last + inc) % TickMod
    IN  IF k.tick < last THEN w < last /\ w > k.tick
                         ELSE w < last \/ w > k.tick

----------------------------------------------------------------------------
(* Event lists, mutexes and notifications.                                 *)

\* vTaskPlaceOnEventList.
PlaceOnEventList(k, l, wait) ==
    AddCurrentToDelayed([k EXCEPT !.ev[l] = ByPrio(k, @, k.cur)], wait, TRUE)

\* A task taken off its event list is readied, or pended while the scheduler
\* is suspended; xYieldPending is set if it outranks the current task.
Unblock(k, t) ==
    YieldTo(IF k.sus = 0 THEN Wakened(k, t)
            ELSE [OutOfEvent(k, t) EXCEPT !.ev[Pend] = Append(@, t)], t)

\* xTaskRemoveFromEventList: the first waiter, if there is one; `switch' is
\* its result.
UnblockFirst(k, l) ==
    IF k.ev[l] = <<>> THEN [k |-> k, switch |-> FALSE]
    ELSE [k |-> Unblock(k, Head(k.ev[l])),
          switch |-> HigherThanCurrent(k, Head(k.ev[l]))]

\* mutant: the event item takes the new priority even while it holds bits.
ReprioritiseItem(k, t, p) ==
    LET a == [k EXCEPT !.prio[t] = p, !.evprio[t] = p, !.evval[t] = NotInUse]
    IN  IF IsReady(k, t) THEN AddToReady([OutOfState(k, t) EXCEPT
                                             !.prio = a.prio, !.evprio = a.evprio], t)
                         ELSE a

\* The new priority of a task, in the ready list of that priority if it is
\* ready; its position in an event list stays what it was.
Reprioritise(k, t, p) ==
    LET a == [k EXCEPT !.prio[t] = p,
                       !.evprio[t] = IF k.evval[t] = NotInUse THEN p ELSE @]
    IN  IF IsReady(k, t) THEN AddToReady([OutOfState(k, t) EXCEPT
                                             !.prio = a.prio, !.evprio = a.evprio], t)
                         ELSE a

\* xTaskPriorityInherit: the current task waits for a mutex h may hold.
PriorityInherit(k, h) ==
    IF h \notin Task THEN [k |-> k, inherited |-> FALSE]
    ELSE [k |-> IF k.prio[h] < k.prio[k.cur]
                THEN Reprioritise(k, h, k.prio[k.cur]) ELSE k,
          inherited |-> k.base[h] < k.prio[k.cur]]

\* xTaskPriorityDisinherit: the current task gives a mutex back.
PriorityDisinherit(k) ==
    LET a == [k EXCEPT !.held[k.cur] = @ - 1]
        lower == k.prio[k.cur] # k.base[k.cur] /\ a.held[k.cur] = 0
    IN  [k |-> IF lower THEN Reprioritise(a, k.cur, k.base[k.cur]) ELSE a,
         switch |-> lower]

\* mutant: the holder falls to its base priority whoever else still waits.
DisinheritToBase(k, h, waiting) ==
    IF h \in Task /\ k.prio[h] # k.base[h] /\ k.held[h] = 1
    THEN Reprioritise(k, h, k.base[h]) ELSE k

\* vTaskPriorityDisinheritAfterTimeout: h keeps the highest priority that
\* still waits for the mutex, unless it holds others.
DisinheritAfterTimeout(k, h, waiting) ==
    LET p == IF k.base[h] < waiting THEN waiting ELSE k.base[h]
    IN  IF h \in Task /\ k.prio[h] # p /\ k.held[h] = 1
        THEN Reprioritise(k, h, p) ELSE k

\* xTaskGenericNotify with eSetValueWithOverwrite, called by a task: the value
\* is stored, and a task that waits for it is readied.
Notify(k, t, v) ==
    LET a == [k EXCEPT !.nstate[t] = "received", !.note[t] = v]
    IN  IF k.nstate[t] = "waiting"
        THEN [k |-> Wakened(a, t), switch |-> HigherThanCurrent(k, t)]
        ELSE [k |-> a, switch |-> FALSE]

\* xTaskGenericNotifyFromISR: the task is pended if the scheduler is suspended.
NotifyFromISR(k, t, v) ==
    LET a == [k EXCEPT !.nstate[t] = "received", !.note[t] = v]
    IN  IF k.nstate[t] = "waiting"
        THEN [k |-> Unblock(a, t), switch |-> HigherThanCurrent(k, t)]
        ELSE [k |-> a, switch |-> FALSE]

----------------------------------------------------------------------------
(* The state vTaskStartScheduler leaves once every task is created: the    *)
(* last created of the highest priority runs.                              *)

Created(p) == SetToSeq({t \in Task : BasePrio[t] = p})
KernelInit ==
    [cur |-> Last(Created(Max(Prio))), top |-> Max(Prio),
     ready |-> [p \in Prio |-> [q |-> Created(p), at |-> 0]],
     delayed |-> <<>>, overflow |-> <<>>, suspended |-> {}, wake |-> [t \in Task |-> 0],
     ev |-> [l \in EventList \union {Pend} |-> <<>>],
     evprio |-> BasePrio, evval |-> [t \in Task |-> NotInUse],
     prio |-> BasePrio, base |-> BasePrio, held |-> [t \in Task |-> 0],
     nstate |-> [t \in Task |-> "none"], note |-> [t \in Task |-> Zero],
     tick |-> 0, ovf |-> 0, unblock |-> MaxDelay, sus |-> 0, pended |-> 0, yp |-> FALSE,
     aborted |-> {}, dead |-> <<>>, gone |-> {}]
=============================================================================
