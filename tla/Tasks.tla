------------------------------- MODULE Tasks -------------------------------
(***************************************************************************)
(* The calls of tasks.c: delays, notifications, and what a task may do to  *)
(* another or to itself: suspend and resume it, change its priority, cut   *)
(* its wait short, delete and create it.                                   *)
(***************************************************************************)
EXTENDS Queues

\* vTaskDelay of one tick or more.
Delay ==
    /\ At("try", {"delay"})
    /\ LET t == k.cur IN
       /\ k' = AddCurrentToDelayed(SuspendAll(k), Call(t).wait, FALSE)
       /\ th' = [th EXCEPT ![t] = [@ EXCEPT !.pc = "resume", !.set = TRUE,
                                            !.yield = TRUE, !.then = "awake"]]
       /\ left' = [left EXCEPT ![t] = Call(t).wait]
    /\ UNCHANGED <<queue, bits, tm, scn>>

\* vTaskDelayUntil, a period after the last time it was due.
DelayUntil ==
    /\ At("try", {"until"})
    /\ LET t == k.cur
           s == SuspendAll(k)
           w == (th[t].last + Call(t).wait) % TickMod
       IN  /\ k' = IF ShouldDelay(k, th[t].last, Call(t).wait)
                   THEN AddCurrentToDelayed(s, (w - k.tick) % TickMod, FALSE)
                   ELSE s
           /\ th' = [th EXCEPT ![t] = [@ EXCEPT !.pc = "resume", !.set = TRUE,
                                                !.yield = TRUE, !.then = "awake",
                                                !.last = w]]
           /\ left' = [left EXCEPT ![t] = @ + Call(t).wait]
    /\ UNCHANGED <<queue, bits, tm, scn>>

Awake ==
    /\ At("awake", {"delay", "until", "set", "sync", "wait", "park", "abort"})
    /\ Return(k.cur, "ok")
    /\ UNCHANGED <<k, queue, bits, tm, scn>>

\* mutant: the value is not looked at before the task blocks.
NotifyTakeBlind ==
    /\ At("try", {"notified"})
    /\ LET t == k.cur
           wait == Call(t).wait
           a == [k EXCEPT !.nstate[t] = "waiting"]
       IN  /\ k' = IF wait = 0 THEN a ELSE Switch(AddCurrentToDelayed(a, wait, TRUE))
           /\ th' = [th EXCEPT ![t] = [@ EXCEPT !.pc = "taken", !.set = TRUE]]
           /\ left' = [left EXCEPT ![t] = IF wait = MaxDelay THEN 0 ELSE wait]
    /\ UNCHANGED <<queue, bits, tm, scn>>

\* ulTaskNotifyTake(pdTRUE, wait): its first critical section blocks the task
\* unless the value is set already ...
NotifyTake ==
    /\ At("try", {"notified"})
    /\ LET t == k.cur
           wait == Call(t).wait
           a == [k EXCEPT !.nstate[t] = "waiting"]
       IN  /\ k' = IF k.note[t] # Zero THEN k
                   ELSE IF wait = 0 THEN a
                   ELSE Switch(AddCurrentToDelayed(a, wait, TRUE))
           /\ th' = [th EXCEPT ![t] = [@ EXCEPT !.pc = "taken", !.set = TRUE]]
           /\ left' = [left EXCEPT ![t] = IF wait = MaxDelay THEN 0 ELSE wait]
    /\ UNCHANGED <<queue, bits, tm, scn>>

\* ... and its second one takes the value, which is 0 after a timeout.
NotifyTaken ==
    /\ At("taken", {"notified"})
    /\ LET t == k.cur IN
       /\ k' = [k EXCEPT !.note[t] = Zero, !.nstate[t] = "none"]
       /\ Return(t, IF k.note[t] = Zero THEN "failed" ELSE "ok")
    /\ UNCHANGED <<queue, bits, tm, scn>>

\* xTaskNotify(eSetValueWithOverwrite).
NotifyTask ==
    /\ At("try", {"notify"})
    /\ k' = YieldNow(Notify(k, Call(k.cur).to, Call(k.cur).v))
    /\ Return(k.cur, "ok")
    /\ UNCHANGED <<queue, bits, tm, scn>>

----------------------------------------------------------------------------
(* Suspended tasks.                                                        *)

\* The call of t ends otherwise than it asked for.
Cut(u, set) == [set EXCEPT ![u].cut = TRUE]
InEventList(kk, u) == \E l \in DOMAIN kk.ev : Contains(kk.ev[l], u)

\* prvTaskIsTaskSuspended.
IsSuspended(u) == u \in k.suspended /\ ~InEventList(k, u)

\* vTaskSuspend, its first critical section: the task waits for nothing more.
Parked(u) ==
    [OutOfState(OutOfEvent(k, u), u) EXCEPT
        !.suspended = @ \union {u},
        !.nstate[u] = IF @ = "waiting" THEN "none" ELSE @]
Park ==
    /\ At("try", {"park"})
    /\ LET u == Call(k.cur).to
       IN  /\ k' = Parked(u)
           /\ th' = [Cut(u, th) EXCEPT ![k.cur].pc = "parked"]
    /\ UNCHANGED <<queue, bits, left, tm, scn>>

\* The rest of it; a task that suspends itself yields.
ParkDone ==
    /\ At("parked", {"park"})
    /\ k' = ResetUnblock(k)
    /\ th' = [th EXCEPT ![k.cur] =
                 [@ EXCEPT !.pc = IF Call(k.cur).to = k.cur THEN "yield" ELSE "awake",
                           !.then = "awake"]]
    /\ UNCHANGED <<queue, bits, left, tm, scn>>

\* mutant: a resumed task that outranks the caller does not get the processor.
UnparkNoYield ==
    /\ At("try", {"unpark"})
    /\ LET u == Call(k.cur).to
       IN  k' = IF u # k.cur /\ IsSuspended(u) THEN AddToReady(OutOfState(k, u), u) ELSE k
    /\ Return(k.cur, "ok")
    /\ UNCHANGED <<queue, bits, tm, scn>>

\* vTaskResume.
Unpark ==
    /\ At("try", {"unpark"})
    /\ LET u == Call(k.cur).to
       IN  k' = IF u # k.cur /\ IsSuspended(u)
                THEN SwitchIf(HigherThanCurrent(k, u), AddToReady(OutOfState(k, u), u))
                ELSE k
    /\ Return(k.cur, "ok")
    /\ UNCHANGED <<queue, bits, tm, scn>>

\* xTaskResumeFromISR: the task is pended if the scheduler is suspended.
UnparkFromISR(u) ==
    /\ k' = IF ~IsSuspended(u) THEN k
            ELSE IF k.sus = 0
            THEN SwitchIf(HigherThanCurrent(k, u), AddToReady(OutOfState(YieldTo(k, u), u), u))
            ELSE [k EXCEPT !.ev[Pend] = Append(@, u)]
    /\ queue' = queue

----------------------------------------------------------------------------
(* Priorities, aborted waits, and the life of a task.                      *)

\* vTaskPrioritySet: an inherited priority stays, the base priority changes.
Rebased(u, p, inherits) ==
    LET a == Reprioritise(k, u, IF inherits THEN k.prio[u] ELSE p)
    IN  [a EXCEPT !.base[u] = p,
                  !.evprio[u] = IF k.evval[u] = NotInUse THEN p ELSE @]
SetPriority ==
    /\ At("try", {"priority"})
    /\ LET u == Call(k.cur).to
           p == Call(k.cur).prio
           yield == IF p > k.base[u] THEN u # k.cur /\ p > k.prio[k.cur] ELSE u = k.cur
       IN  k' = IF p = k.base[u] THEN k
                ELSE SwitchIf(yield, Rebased(u, p, k.base[u] # k.prio[u]))
    /\ Return(k.cur, "ok")
    /\ UNCHANGED <<queue, bits, tm, scn>>

\* eTaskGetState = eBlocked.
Blocked(u) ==
    /\ u # k.cur /\ ~Contains(k.ev[Pend], u)
    /\ \/ u \in ToSet(k.delayed) \union ToSet(k.overflow)
       \/ u \in k.suspended /\ (InEventList(k, u) \/ k.nstate[u] = "waiting")

\* xTaskAbortDelay: with the scheduler suspended, the state is looked at ...
Abort ==
    /\ At("try", {"abort"})
    /\ k' = SuspendAll(k)
    /\ th' = [th EXCEPT ![k.cur].pc = "look"]
    /\ UNCHANGED <<queue, bits, left, tm, scn>>
AbortLook ==
    /\ At("look", {"abort"})
    /\ th' = [th EXCEPT ![k.cur] =
                 IF Blocked(Call(k.cur).to) THEN [@ EXCEPT !.pc = "cut"]
                 ELSE [@ EXCEPT !.pc = "resume", !.then = "refused"]]
    /\ UNCHANGED <<k, queue, bits, left, tm, scn>>

\* mutant: the task stays in the event list.
AbortStateOnly ==
    /\ At("cut", {"abort"})
    /\ LET u == Call(k.cur).to
           a == IF InEventList(k, u) THEN [k EXCEPT !.aborted = @ \union {u}] ELSE k
       IN  /\ k' = YieldTo(WakenedStateOnly(a, u), u)
           /\ th' = [Cut(u, th) EXCEPT ![k.cur] = [@ EXCEPT !.pc = "resume", !.then = "awake"]]
    /\ UNCHANGED <<queue, bits, left, tm, scn>>

\* ... and the task woken; by then an interrupt may have taken it off the list
\* of what it waited for.
AbortCut ==
    /\ At("cut", {"abort"})
    /\ LET u == Call(k.cur).to
           a == IF InEventList(k, u) THEN [k EXCEPT !.aborted = @ \union {u}] ELSE k
       IN  /\ k' = YieldTo(Wakened(a, u), u)
           /\ th' = [Cut(u, th) EXCEPT ![k.cur] = [@ EXCEPT !.pc = "resume", !.then = "awake"]]
    /\ UNCHANGED <<queue, bits, left, tm, scn>>

\* vTaskDelete, of a task that still lives: one that deletes itself is left to the
\* idle task.
Delete ==
    /\ At("try", {"delete"})
    /\ LET u == Call(k.cur).to
           a == OutOfState(OutOfEvent(k, u), u)
           self == u = k.cur
       IN  IF u \in k.gone \union ToSet(k.dead) THEN k' = k /\ Return(k.cur, "failed")
           ELSE IF self
           THEN /\ k' = [a EXCEPT !.dead = Append(@, u)]
                /\ th' = [Cut(u, th) EXCEPT ![u].pc = "yield", ![u].then = "deleted"]
                /\ left' = left
           ELSE /\ k' = ResetUnblock([a EXCEPT !.gone = @ \union {u}])
                /\ th' = [Cut(u, th) EXCEPT ![k.cur] = Start(Following(k.cur, "ok"), "ok", @.last)]
                /\ left' = [left EXCEPT ![k.cur] = 0]
    /\ UNCHANGED <<queue, bits, tm, scn>>

\* prvCheckTasksWaitingTermination, in the loop of the idle task.
Bury ==
    /\ k.cur = Idle /\ k.dead # <<>>
    /\ k' = [k EXCEPT !.dead = Tail(@), !.gone = @ \union {Head(k.dead)}]
    /\ UNCHANGED <<queue, bits, th, left, tm, scn>>

\* prvInitialiseNewTask, for a name that no task has.
NewTask(u) ==
    [k EXCEPT !.gone = @ \ {u}, !.prio[u] = BasePrio[u], !.base[u] = BasePrio[u],
              !.evprio[u] = BasePrio[u], !.evval[u] = NotInUse, !.held[u] = 0,
              !.nstate[u] = "none", !.note[u] = Zero, !.aborted = @ \ {u}]

\* xTaskCreate; an interrupt before its yield finds the same lists.
Create ==
    /\ At("try", {"create"})
    /\ LET t == k.cur
           u == Call(t).to
       IN  IF u \notin k.gone THEN k' = k /\ Return(t, "failed")
           ELSE /\ k' = SwitchIf(BasePrio[u] > k.prio[t], AddToReady(NewTask(u), u))
                /\ th' = [th EXCEPT ![t] = Start(Following(t, "ok"), "ok", @.last),
                                    ![u] = Start(1, "none", 0)]
                /\ left' = [left EXCEPT ![t] = 0, ![u] = 0]
    /\ UNCHANGED <<queue, bits, tm, scn>>

TaskStep ==
    \/ Delay \/ DelayUntil \/ Awake
    \/ NotifyTake \/ NotifyTaken \/ NotifyTask
    \/ Park \/ ParkDone \/ Unpark \/ SetPriority
    \/ Abort \/ AbortLook \/ AbortCut \/ Delete \/ Bury \/ Create
=============================================================================
