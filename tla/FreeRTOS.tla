------------------------------ MODULE FreeRTOS ------------------------------
(***************************************************************************)
(* The kernel at work: tasks that call queues, tasks, event groups and     *)
(* timers, with the tick and the device interrupts between any two         *)
(* critical sections; and what it promises.                                *)
(***************************************************************************)
EXTENDS Tasks

CONSTANTS
    Urgent,     \* the items that scenarios send to the front of a queue
    MaxPended,  \* bound: ticks pended during one suspension of the scheduler
    MaxLate     \* bound: ticks a task may be kept from a deadline that passed

ASSUME FreeRTOSConstants ==
    /\ Urgent \subseteq Value
    /\ MaxPended \in Nat /\ MaxLate \in Nat
    /\ Value \cap {"ok", "failed"} = {}
    /\ "selected" \notin Queue /\ Null \notin Task

\* What tasks and interrupts may use, all but the queue of the timer commands.
Channels == Queue \ {TimerQueue}

\* The calls that name a task, and those of them that use it, so that it must not
\* be one that may have been deleted.
OnTask == {"create", "delete", "park", "unpark", "abort", "priority", "notify"}
Using == {"park", "abort", "notify"}

\* The calls of a scenario, and the tasks they delete.
CallsOf(sc) == UNION {{sc.prog[t][i] : i \in 1 .. Len(sc.prog[t])} : t \in Task \ {Idle}}
Mortal(sc) == {i.to : i \in {j \in CallsOf(sc) : j.op = "delete"}}

\* The timer service task.
Serves(sc, t) == \E i \in 1 .. Len(sc.prog[t]) : sc.prog[t][i].op = "timers"

\* What the kernel asserts of a call, or of an interrupt: items go into queues,
\* mutexes are given and taken, only a mailbox is overwritten, a task exists.
Legal(type, i) ==
    LET On(kinds) == i.q \in Channels /\ type[i.q] \in kinds
    IN  /\ i.op \in {"send", "front", "overwrite"} =>
              On({"queue"}) /\ i.v \in Value /\ (i.v \in Urgent <=> i.op # "send")
        /\ i.op = "overwrite" => Length[i.q] = 1
        /\ i.op \in {"receive", "peek", "reset", "join", "leave"} => On({"queue"})
        /\ i.op \in {"give", "take"} => On({"semaphore", "mutex"})
        /\ i.op \in {"retake", "regive"} => On({"mutex"})
        /\ i.op = "select" => On({"set"})
        /\ i.op = "join" => i.to \in Channels /\ type[i.to] = "set"
        /\ i.op \in OnTask => i.to \in Task
        /\ i.op \in {"delete", "park"} => i.to # Idle
        /\ i.op = "priority" => i.prio \in Prio
        /\ i.op = "command" => i.timer \in Timer

\* A task receives from what it selected with the call before; an interrupt,
\* which holds no mutex, gives none; one task at most serves the timers.
ASSUME ScenariosAreLegal ==
    \A s \in DOMAIN Scenario :
        LET sc == Scenario[s] IN
        /\ \A t \in Task \ {Idle} :
              LET p == sc.prog[t] IN
              /\ Len(p) \in Nat \ {0}
              /\ \A i \in 1 .. Len(p) :
                    \/ Legal(sc.type, p[i])
                    \/ /\ p[i].op = "receive" /\ p[i].q = "selected"
                       /\ i > 1 /\ p[i - 1].op = "select"
        /\ \A i \in CallsOf(sc) \union sc.isr :
              i.op \in Using => i.to \notin Mortal(sc)
        /\ sc.type[TimerQueue] = "queue"
        /\ \A t, u \in Task \ {Idle} : Serves(sc, t) =>
              /\ Serves(sc, u) => u = t
              /\ \A x \in Timer : Client[x] \notin Mortal(sc)
        /\ \A i \in sc.isr :
              /\ Legal(sc.type, i)
              /\ i.op = "give" => sc.type[i.q] = "semaphore"

----------------------------------------------------------------------------
(* Event groups.  No interrupt touches one, so that a call is one step up  *)
(* to xTaskResumeAll.                                                      *)

Wanted(t) == [use |-> "wait", bits |-> Call(t).bits, all |-> Call(t).all,
              clear |-> Call(t).clear]
Cleared(b, t) == IF Call(t).clear THEN b \ Call(t).bits ELSE b

\* xEventGroupSetBits.
SetEvents ==
    /\ At("try", {"set"})
    /\ LET s == SetBits(SuspendAll(k), bits, Call(k.cur).new)
       IN  k' = s.k /\ bits' = s.bits
    /\ th' = [th EXCEPT ![k.cur] = [@ EXCEPT !.pc = "resume", !.then = "awake"]]
    /\ UNCHANGED <<queue, left, tm, scn>>

\* xEventGroupClearBits.
ClearEvents ==
    /\ At("try", {"clear"})
    /\ bits' = bits \ Call(k.cur).new
    /\ Return(k.cur, "ok")
    /\ UNCHANGED <<k, queue, tm, scn>>

\* The call goes to sleep, or returns from xTaskResumeAll with what it found.
WaitingFor(sleep) ==
    /\ th' = [th EXCEPT ![k.cur] =
                 [@ EXCEPT !.pc = "resume", !.set = sleep, !.yield = sleep,
                           !.then = IF sleep THEN "told" ELSE "awake"]]
    /\ left' = [left EXCEPT ![k.cur] = IF Call(k.cur).wait = MaxDelay THEN 0
                                       ELSE Call(k.cur).wait]

\* xEventGroupWaitBits.
WaitEvents ==
    /\ At("try", {"wait"})
    /\ LET t == k.cur
           met == ConditionMet(bits, Wanted(t))
           sleep == ~met /\ Call(t).wait # 0
       IN  /\ k' = IF sleep
                   THEN PlaceOnUnordered(SuspendAll(k), Wanted(t), Call(t).wait)
                   ELSE SuspendAll(k)
           /\ bits' = IF met THEN Cleared(bits, t) ELSE bits
           /\ WaitingFor(sleep)
    /\ UNCHANGED <<queue, tm, scn>>

\* xEventGroupSync: with the scheduler suspended it sets its own bits, and then
\* waits for all of those it names; they are cleared for it.
SyncEvents ==
    /\ At("try", {"sync"})
    /\ LET t == k.cur
           s == SetBits(SuspendAll(k), bits, Call(t).new)
           met == ConditionMet(bits \union Call(t).new, Wanted(t))
           sleep == ~met /\ Call(t).wait # 0
       IN  /\ k' = IF sleep THEN PlaceOnUnordered(s.k, Wanted(t), Call(t).wait) ELSE s.k
           /\ bits' = IF met THEN s.bits \ Call(t).bits ELSE s.bits
           /\ WaitingFor(sleep)
    /\ UNCHANGED <<queue, tm, scn>>

\* The rest of either call once it has slept: a task that no bit released looks
\* at the bits once more before it reports a timeout.
EventsAwaited ==
    /\ At("told", {"wait", "sync"})
    /\ LET t == k.cur
           told == k.evval[t].use = "set"
           met == ConditionMet(bits, Wanted(t))
       IN  /\ k' = ResetEventValue(k)
           /\ bits' = IF ~told /\ met THEN Cleared(bits, t) ELSE bits
           /\ Return(t, IF told \/ met THEN "ok" ELSE "failed")
    /\ UNCHANGED <<queue, tm, scn>>

----------------------------------------------------------------------------
(* The timers: the calls that post a command, and the timer service task,  *)
(* whose program is the one call "timers".                                 *)

\* xTimerStart, xTimerChangePeriod, xTimerStop: the time is read before the
\* command is sent ...
Command ==
    /\ At("try", {"command"})
    /\ th' = [th EXCEPT ![k.cur].pc = "post", ![k.cur].at = k.tick]
    /\ UNCHANGED <<k, queue, bits, left, tm, scn>>

\* ... by xTimerGenericCommand, without waiting for room.
Post ==
    /\ At("post", {"command"})
    /\ LET t == k.cur
           c == [cmd |-> Call(t).cmd, timer |-> Call(t).timer,
                 value |-> IF Call(t).cmd = "change" THEN Call(t).period ELSE th[t].at]
           u == UnblockFirst(k, Rx(TimerQueue))
       IN  IF IsFull(TimerQueue) THEN UNCHANGED <<k, queue>> /\ Return(t, "failed")
           ELSE /\ queue' = [queue EXCEPT ![TimerQueue] = CopyTo(TimerQueue, c, "send")]
                /\ k' = YieldNow(u)
                /\ Return(t, "ok")
    /\ UNCHANGED <<bits, tm, scn>>

\* vQueueWaitForMessageRestricted and vTaskPlaceOnEventListRestricted.
WaitRestricted(a, wait, forever) ==
    AddCurrentToDelayed([a EXCEPT !.ev[Rx(TimerQueue)] = Append(@, k.cur)],
                        IF forever THEN MaxDelay ELSE wait, forever)

\* prvGetNextExpireTime and prvProcessTimerOrBlockTask up to xTaskResumeAll: a
\* timer has expired, or the task sleeps until one does or a command arrives.
\* With nothing in the current list it wakes when the tick count wraps.
LookAround(a) ==
    LET t == k.cur
        none == tm.current = <<>>
        next == IF none THEN 0 ELSE tm.value[Head(tm.current)]
        expired == ~a.switched /\ ~none /\ next <= k.tick
        sleep == ~a.switched /\ ~expired /\ IsEmpty(TimerQueue)
        forever == none /\ tm.overflow = <<>>
        wait == (next - k.tick) % TickMod
    IN  /\ tm' = a.s.tm
        /\ k' = IF sleep THEN WaitRestricted(a.s.k, wait, forever) ELSE a.s.k
        /\ th' = [th EXCEPT ![t] =
                     [@ EXCEPT !.pc = "resume", !.at = k.tick,
                               !.yield = ~a.switched /\ ~expired,
                               !.set = sleep /\ ~forever,
                               !.then = IF expired THEN "fire" ELSE "commands"]]
        /\ left' = [left EXCEPT ![t] = IF sleep /\ ~forever THEN wait ELSE 0]
DaemonLook ==
    /\ At("try", {"timers"})
    /\ LookAround(SampleTimeNow([k |-> SuspendAll(k), tm |-> tm]))
    /\ UNCHANGED <<queue, bits, scn>>

\* prvProcessExpiredTimer, with the time read before xTaskResumeAll.
DaemonFire ==
    /\ At("fire", {"timers"})
    /\ LET a == ProcessExpired([k |-> k, tm |-> tm], th[k.cur].at)
       IN  k' = a.k /\ tm' = a.tm
    /\ th' = [th EXCEPT ![k.cur].pc = "commands"]
    /\ UNCHANGED <<queue, bits, left, scn>>

\* prvProcessReceivedCommands: the next command, or back to prvTimerTask.
DaemonReceive ==
    /\ At("commands", {"timers"})
    /\ LET t == k.cur
           f == CopyFrom(TimerQueue)
           u == UnblockFirst(k, Tx(TimerQueue))
       IN  IF IsEmpty(TimerQueue)
           THEN /\ th' = [th EXCEPT ![t] = Start(1, "none", 0)]
                /\ left' = [left EXCEPT ![t] = 0]
                /\ UNCHANGED <<k, queue>>
           ELSE /\ queue' = [queue EXCEPT ![TimerQueue] = f.rest]
                /\ k' = YieldNow(u)
                /\ th' = [th EXCEPT ![t].pc = "obey", ![t].cmd = f.item]
                /\ left' = left
    /\ UNCHANGED <<bits, tm, scn>>

DaemonObey ==
    /\ At("obey", {"timers"})
    /\ LET a == Obey([k |-> k, tm |-> tm], th[k.cur].cmd)
       IN  k' = a.k /\ tm' = a.tm
    /\ th' = [th EXCEPT ![k.cur].pc = "commands", ![k.cur].cmd = Null]
    /\ UNCHANGED <<queue, bits, left, scn>>

----------------------------------------------------------------------------
(* Interrupts and time.                                                    *)

NotifyISR(t, v) == k' = YieldNow(NotifyFromISR(k, t, v)) /\ queue' = queue

Interrupt ==
    /\ \E i \in Scenario[scn].isr :
          \/ QueueFromISR(i)
          \/ i.op = "notify" /\ NotifyISR(i.to, i.v)
          \/ i.op = "unpark" /\ UnparkFromISR(i.to)
    /\ UNCHANGED <<bits, th, left, tm, scn>>

\* A task whose call has a deadline, and no other task has interfered with.
Timed(t) ==
    /\ t # Idle /\ ~th[t].cut
    /\ \/ Call(t).op = "until"
       \/ th[t].set /\ Call(t).op = "delay"
       \/ th[t].set /\ Call(t).wait # MaxDelay

\* How long ago the command of a start was timed, and the commands on their way.
Age(at) == (k.tick + k.pended - at) % TickMod
Underway ==
    {Contents(TimerQueue)[i] : i \in 1 .. queue[TimerQueue].n}
        \union {th[t].cmd : t \in {u \in Task : th[u].pc = "obey"}}

\* Bound: no deadline is more than MaxLate ticks past, nor a command as old.
InTime ==
    /\ \A t \in Task : Timed(t) => left[t] > -MaxLate
    /\ \A x \in tm.active : tm.due[x] > -MaxLate
    /\ \A t \in Task \ {Idle} : th[t].pc = "post" => Age(th[t].at) < MaxLate
    /\ \A c \in Underway : c.cmd = "start" => Age(c.value) < MaxLate

\* xPortSysTickHandler.
Tick ==
    /\ k.sus > 0 => k.pended < MaxPended
    /\ InTime
    /\ k' = YieldNow(IncrementTick(k))
    /\ left' = [t \in Task |-> IF Timed(t) THEN left[t] - 1 ELSE left[t]]
    /\ tm' = [tm EXCEPT !.due = [x \in Timer |-> IF x \in tm.active THEN @[x] - 1 ELSE @[x]]]
    /\ UNCHANGED <<queue, bits, th, scn>>

----------------------------------------------------------------------------
Init ==
    /\ scn \in DOMAIN Scenario
    /\ k = KernelInit
    /\ queue = [c \in Queue |-> NewQueue(c, Scenario[scn].type[c])]
    /\ bits = {}
    /\ th = [t \in Task |-> Start(1, "none", 0)]
    /\ left = [t \in Task |-> 0]
    /\ tm = InitTimers

Next ==
    \/ QueueStep \/ TaskStep \/ Resume \/ Yield
    \/ SetEvents \/ ClearEvents \/ WaitEvents \/ SyncEvents \/ EventsAwaited
    \/ Command \/ Post
    \/ DaemonLook \/ DaemonFire \/ DaemonReceive \/ DaemonObey
    \/ Interrupt \/ Tick

Spec == Init /\ [][Next]_vars

----------------------------------------------------------------------------
(* Properties.                                                             *)

Delayed == ToSet(k.delayed) \union ToSet(k.overflow)
Deleted == ToSet(k.dead) \union k.gone
Pending == ToSet(k.ev[Pend])

\* The state lists, suspended and gone aside, and the event lists.
StateLists == {k.ready[p].q : p \in Prio} \union {k.delayed, k.overflow, k.dead}
EventLists == {k.ev[l] : l \in DOMAIN k.ev}

\* The places a task may have, one of which it has.
Places == {"ready", "delayed", "overflow", "suspended", "dead", "gone"}
IsAt(kk, t, place) ==
    CASE place = "ready" -> \E p \in Prio : Contains(kk.ready[p].q, t)
      [] place = "delayed" -> Contains(kk.delayed, t)
      [] place = "overflow" -> Contains(kk.overflow, t)
      [] place = "suspended" -> t \in kk.suspended
      [] place = "dead" -> Contains(kk.dead, t)
      [] place = "gone" -> t \in kk.gone

\* Every task is in exactly one state list, once: the ready list of its current
\* priority, a delayed list, the suspended one, or it is deleted; it is in at most one
\* event list, and one that waits in the event list of an object is not ready (one
\* that timed out and is notified before it runs may be both ready and pending).
ListsAgree ==
    /\ \A s \in StateLists \union EventLists : IsInjective(s)
    /\ \A t \in Task :
          /\ Cardinality({place \in Places : IsAt(k, t, place)}) = 1
          /\ \A p \in Prio : Contains(k.ready[p].q, t) => p = k.prio[t]
          /\ Cardinality({l \in DOMAIN k.ev : Contains(k.ev[l], t)}) <= 1
          /\ \A l \in DOMAIN k.ev \ {Pend} :
                Contains(k.ev[l], t) => ~IsReady(k, t) /\ t \notin Deleted

\* Outside a suspension of the scheduler no ready task outranks the one that
\* runs, and that one is ready, except for a task on its way to yield: every
\* path that readies a task also switches to it when it must.
RunsHighest ==
    k.sus = 0 =>
        /\ \A t \in Task : IsReady(k, t) => ~HigherThanCurrent(k, t)
        /\ IsReady(k, k.cur) \/ th[k.cur].pc \in {"yield", "parked"}

\* The delayed lists are sorted by wake time, and a task asleep with a deadline
\* wakes after exactly the ticks it asked for:
\* its wake time is the true time left, pended ticks included, and it is in the
\* overflow list exactly if that time is past the wrap of the tick count.
SleepsRight ==
    /\ \A s \in {k.delayed, k.overflow} : \A i \in 1 .. Len(s) - 1 :
          k.wake[s[i]] <= k.wake[s[i + 1]]
    /\ \A t \in {u \in Delayed \ Pending : ~th[u].cut} :
          LET ticks == left[t] + k.pended
          IN  /\ ticks > 0
              /\ (k.wake[t] - k.tick) % TickMod = ticks
              /\ t \in ToSet(k.overflow) <=> k.tick + ticks >= TickMod

\* No callback comes before its time, whenever the tick count wraps, and the
\* timer service task never sleeps past the time the next one has to come.
TimersRight ==
    /\ \A x \in Timer : tm.due[x] <= tm.period[x]
    /\ \A t \in (Delayed \union k.suspended) \ Pending, x \in tm.active :
          Call(t).op = "timers" =>
              /\ tm.due[x] + k.pended > 0
              /\ t \in Delayed
              /\ (k.wake[t] - k.tick) % TickMod <= tm.due[x] + k.pended
WakesOnTime == SleepsRight /\ TimersRight

\* No call that may wait reports a timeout, and no delay ends, before its time,
\* unless another task interfered with it.
NeverEarly ==
    [][\A t \in Task \ {Idle} :
          /\ th[t].set /\ ~th[t].cut /\ ~th'[t].set /\ Call(t).wait # 0
          /\ th'[t].got = "failed" \/ Call(t).op \in {"delay", "until"}
          => left[t] <= 0 /\ (Call(t).wait = MaxDelay => Call(t).op \in {"delay", "until"})]_vars

\* A task sleeps on a queue it could be served by only while every item (or
\* free place) has a task that was already woken for it, or is counted in the
\* lock of the queue and will be given out when it is unlocked.
Served(c, list, ready, lock, ops) ==
    LET woken == {t \in Task \ (Deleted \union {Idle}) :
                    /\ Call(t).op \in ops /\ Obj(t) = c /\ th[t].set
                    /\ ~Contains(k.ev[list], t)}
    IN  k.ev[list] # <<>> =>
            \/ ready <= Cardinality(woken) + (IF lock > 0 THEN lock ELSE 0)
            \/ lock = Cardinality(Task)
NoLostWakeup ==
    \A c \in Queue :
        /\ Served(c, Rx(c), queue[c].n, queue[c].tx, Receiving)
        /\ Served(c, Tx(c), Length[c] - queue[c].n, queue[c].rx, Sending)

\* Nothing is counted past its length, and a mutex is free exactly when it has no
\* holder: a take that succeeds takes it from nobody.
CountsRight ==
    \A c \in Channels :
        /\ queue[c].n \in 0 .. Length[c]
        /\ IsMutex(c) => (queue[c].holder = Null <=> queue[c].n = 1)

\* The counts of the mutexes are right, each task counts the ones it
\* holds, the holder runs at least at the priority of whoever waits for it, and
\* a priority is raised only while a mutex is held.
Inheritance ==
    /\ CountsRight
    /\ \A m \in {c \in Channels : IsMutex(c)}, t \in Task :
          Contains(k.ev[Rx(m)], t) /\ queue[m].holder \in Task
             => k.prio[queue[m].holder] >= k.prio[t]
    /\ \A t \in Task :
          /\ k.held[t] = Cardinality({m \in Queue : queue[m].holder = t})
          /\ k.prio[t] >= k.base[t]
          /\ k.prio[t] > k.base[t] => k.held[t] > 0

\* No task waits for bits that are set, and a task that waits still has in its
\* event item what it waits for, whatever happens to its priority meanwhile; the
\* item of a task that does not wait is sorted by its priority.
EventsNotMissed ==
    /\ \A t \in ToSet(k.ev[Waiters]) :
          k.evval[t] = Wanted(t) /\ ~ConditionMet(bits, Wanted(t))
    /\ \A t \in Task \ {Idle} :
          th[t].pc \in {"try", "lock", "test"} =>
              k.evval[t] = NotInUse /\ k.evprio[t] = k.prio[t]

\* The queues implement the bounded buffer of MessageQueue: read off the ring
\* from pcReadFrom, the items leave in the order they were sent, those sent to
\* the front before all others, each once.
Buffer == INSTANCE MessageQueue WITH
              User <- Task, Channel <- Channels,
              items <- [c \in Channels |->
                           IF queue[c].type = "queue" THEN Contents(c) ELSE <<>>],
              got <- [t \in Task |-> th[t].got]
FirstInFirstOut == Buffer!Spec

\* A task asleep until it is notified has no notification: one that arrives
\* between the two critical sections of ulTaskNotifyTake is not lost.
NotifiedIsAwake ==
    \A t \in (Delayed \union k.suspended) \ Pending :
        th[t].pc = "taken" /\ ~th[t].cut => k.note[t] = Zero /\ k.nstate[t] = "waiting"

\* A set holds the handle of a member once for each item of that member, but
\* for the items counted in its lock, which the set is told of when it is
\* unlocked, and those that a task has selected and goes on to receive.
SetsExact ==
    \A c \in {m \in Queue : queue[m].set # Null} :
        LET s == queue[c].set
            selected == {t \in Task \ {Idle} :
                           Call(t).op = "receive" /\ Call(t).q = "selected" /\ th[t].cmd = c}
        IN  queue[c].n = Len(SelectSeq(Contents(s), LAMBDA h : h = c))
                         + Max({queue[c].tx, 0}) + Cardinality(selected)

\* Nobody sleeps through what it waits for: an item or a place in a queue, a
\* notification, or the bits of an event group; nor through what a set has.
NothingMissed ==
    /\ NoLostWakeup
    /\ SetsExact
    /\ NotifiedIsAwake
    /\ EventsNotMissed
=============================================================================
