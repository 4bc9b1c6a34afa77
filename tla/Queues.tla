------------------------------- MODULE Queues -------------------------------
(***************************************************************************)
(* Queues, semaphores, mutexes and queue sets (queue.c) on top of the      *)
(* scheduler of Kernel, and what all calls of the kernel have in common:   *)
(* only the current task steps; one step is one critical section, or a     *)
(* stretch of code that no interrupt can tell from one.                    *)
(*                                                                         *)
(* Each task runs a program, a sequence of calls repeated for ever.  Its   *)
(* progress is th[t]: the call ip, the point pc reached in it, and the     *)
(* local variables of that call.  Two things are not in the code: left[t], *)
(* the true number of ticks until the deadline of the call, counted        *)
(* without wrap, and cut, that another task suspended, aborted or deleted  *)
(* the task meanwhile.                                                     *)
(*                                                                         *)
(* A call names its queue, or "selected": the member of a set that the     *)
(* task got from xQueueSelectFromSet before.                               *)
(***************************************************************************)
EXTENDS EventGroup, Timers, FiniteSets, TLC

CONSTANTS
    Queue,      \* the queues, semaphores, mutexes and sets
    Length,     \* uxLength of each of them
    TimerQueue, \* xTimerQueue, the commands for the timer service task
    Value,      \* the items
    Scenario    \* by name, [prog |-> a Seq of calls per task, isr |-> a set of
                \* calls, type |-> uxQueueType of each queue]

ASSUME QueueConstants ==
    /\ EventList = Queue \X {"rx", "tx"} \union {Waiters}
    /\ Length \in [Queue -> Nat \ {0}]
    /\ TimerQueue \in Queue
    /\ \A s \in DOMAIN Scenario, c \in Queue :
          Scenario[s].type[c] = "mutex" => Length[c] = 1

VARIABLES k, queue, bits, th, left, tm, scn
vars == <<k, queue, bits, th, left, tm, scn>>

Null == "NULL"
Unlocked == -1                  \* queueUNLOCKED
Rx(c) == <<c, "rx">>            \* xTasksWaitingToReceive
Tx(c) == <<c, "tx">>            \* xTasksWaitingToSend

----------------------------------------------------------------------------
(* A queue: n items in the ring buf, w is pcWriteTo and r pcReadFrom as    *)
(* indices, tx and rx the locks, set the set it is a member of; of a mutex *)
(* the task that holds it and its uxRecursiveCallCount.                    *)

\* prvInitialiseNewQueue and, for a mutex, prvInitialiseMutex, which gives it.
NewQueue(c, type) ==
    [type |-> type, n |-> IF type = "mutex" THEN 1 ELSE 0,
     buf |-> [i \in 0 .. Length[c] - 1 |-> Null], w |-> 0, r |-> Length[c] - 1,
     tx |-> Unlocked, rx |-> Unlocked, set |-> Null, holder |-> Null, depth |-> 0]

\* The items as they will leave: from behind pcReadFrom.
Contents(c) ==
    [i \in 1 .. queue[c].n |-> queue[c].buf[(queue[c].r + i) % Length[c]]]

IsMutex(c) == queue[c].type = "mutex"
IsEmpty(c) == queue[c].n = 0               \* prvIsQueueEmpty
IsFull(c) == queue[c].n = Length[c]        \* prvIsQueueFull

\* prvCopyDataToQueue at the back: pcWriteTo moves on.
AtBack(q, c, v) ==
    [q EXCEPT !.n = @ + 1, !.buf[q.w] = v, !.w = (@ + 1) % Length[c]]

\* mutant: the item goes one place too far.
AtFrontPast(q, c, v, over) ==
    [q EXCEPT !.n = IF over /\ @ > 0 THEN @ ELSE @ + 1,
              !.r = (@ - 1) % Length[c], !.buf[(q.r - 1) % Length[c]] = v]

\* At the front: the item goes under pcReadFrom, which moves back; one that
\* overwrites takes the place of the only item.
AtFront(q, c, v, over) ==
    [q EXCEPT !.n = IF over /\ @ > 0 THEN @ ELSE @ + 1,
              !.buf[q.r] = v, !.r = (@ - 1) % Length[c]]

\* prvCopyDataToQueue: a semaphore only counts, a mutex loses its holder.
CopyTo(c, v, pos) ==
    IF queue[c].type = "semaphore" THEN [queue[c] EXCEPT !.n = @ + 1]
    ELSE IF IsMutex(c) THEN [queue[c] EXCEPT !.n = @ + 1, !.holder = Null, !.depth = 0]
    ELSE IF pos \in {"front", "overwrite"} THEN AtFront(queue[c], c, v, pos = "overwrite")
    ELSE AtBack(queue[c], c, v)

\* Giving a mutex may lower the priority of the giver.
Given(c) == IF IsMutex(c) THEN PriorityDisinherit(k) ELSE [k |-> k, switch |-> FALSE]

\* mutant: the item under pcReadFrom is copied before the pointer moves.
CopyFromStale(c) ==
    [item |-> queue[c].buf[queue[c].r],
     rest |-> [queue[c] EXCEPT !.n = @ - 1, !.r = (@ + 1) % Length[c]]]

\* prvCopyDataFromQueue and the decrement that follows it.
CopyFrom(c) ==
    LET i == (queue[c].r + 1) % Length[c]
    IN  [item |-> queue[c].buf[i], rest |-> [queue[c] EXCEPT !.n = @ - 1, !.r = i]]

\* prvIncrementQueueTxLock and RxLock: capped at the number of tasks.
Counted(lock) == IF lock < Cardinality(Task) THEN lock + 1 ELSE lock
CountedIf(lock) == IF lock = Unlocked THEN lock ELSE Counted(lock)

----------------------------------------------------------------------------
(* Who is told of an item.  A state s = [k, queue] becomes one with the    *)
(* switch it asks for.                                                     *)

Told(u, qs) == [k |-> u.k, queue |-> qs, switch |-> u.switch]
Untold(kk, qs) == [k |-> kk, queue |-> qs, switch |-> FALSE]

\* prvNotifyQueueSetContainer: the handle c goes into the set s.
NotifySet(kk, qs, c, s) ==
    LET q == AtBack(qs[s], s, c)
    IN  IF qs[s].n = Length[s] THEN Untold(kk, qs)
        ELSE Told(IF qs[s].tx = Unlocked THEN UnblockFirst(kk, Rx(s))
                                         ELSE [k |-> kk, switch |-> FALSE],
                  [qs EXCEPT ![s] = [q EXCEPT !.tx = CountedIf(@)]])

\* An item has come into queue c: the set it is a member of is told, or its
\* first receiver.
Arrived(kk, qs, c) ==
    IF qs[c].set # Null THEN NotifySet(kk, qs, c, qs[c].set)
                        ELSE Told(UnblockFirst(kk, Rx(c)), qs)

\* While the scheduler is suspended the switch is noted for later.
Noted(u) == Untold(YieldLater(u), u.queue)
TellLater(s, c) == Noted(Arrived(s.k, s.queue, c))

\* mutant: an unlocked queue tells of one item, however many came.
ToldOnce(s, c, lock) == IF lock > 0 THEN TellLater(s, c) ELSE s

\* The first half of prvUnlockQueue: each item that came is told of.
ToldAll(s, c, lock) ==
    LET after[i \in 0 .. lock] == IF i = 0 THEN s ELSE TellLater(after[i - 1], c)
    IN  IF lock > 0 THEN after[lock] ELSE s

\* The second half: a sender is unblocked per item that left.
Released(a, l, lock) ==
    LET after[i \in 0 .. lock] ==
            IF i = 0 THEN a ELSE YieldLater(UnblockFirst(after[i - 1], l))
    IN  IF lock > 0 THEN after[lock] ELSE a

----------------------------------------------------------------------------
(* Calls.                                                                  *)

Call(t) == Scenario[scn].prog[t][th[t].ip]
Obj(t) == IF Call(t).q = "selected" THEN th[t].cmd ELSE Call(t).q
At(pc, ops) ==
    k.cur \in Task \ {Idle} /\ th[k.cur].pc = pc /\ Call(k.cur).op \in ops

Sending == {"send", "front", "overwrite", "give", "regive"}
Receiving == {"receive", "select", "peek", "take", "retake"}
QueueOps == Sending \union Receiving
Waits(t) == Call(t).op \in Receiving

Start(ip, got, last) ==
    [ip |-> ip, pc |-> "try", set |-> FALSE, at |-> 0, ovf |-> 0, wait |-> 0,
     inherited |-> FALSE, then |-> "try", yield |-> FALSE, got |-> got,
     last |-> last, cmd |-> Null, cut |-> FALSE]

\* The call returns; a task whose take was refused, or that selected nothing,
\* starts its program again, since it must not use what it did not get.
Following(t, got) ==
    IF Call(t).op \in {"take", "retake", "select"} /\ got = "failed" THEN 1
    ELSE (th[t].ip % Len(Scenario[scn].prog[t])) + 1
ReturnWith(t, got, cmd) ==
    /\ th' = [th EXCEPT ![t] = [Start(Following(t, got), got, @.last) EXCEPT !.cmd = cmd]]
    /\ left' = IF Call(t).op = "until" THEN left ELSE [left EXCEPT ![t] = 0]
Return(t, got) == ReturnWith(t, got, Null)

Wait(t) == IF th[t].set THEN th[t].wait ELSE Call(t).wait

\* The queue cannot serve the call now: give up if it may not block, else
\* note the time of entry, once, and go on to block.
Block(t) ==
    /\ UNCHANGED <<k, queue>>
    /\ IF Wait(t) = 0 THEN Return(t, "failed")
       ELSE IF th[t].set
       THEN th' = [th EXCEPT ![t].pc = "suspend"] /\ left' = left
       ELSE /\ th' = [th EXCEPT ![t] = [@ EXCEPT !.pc = "suspend", !.set = TRUE,
                                        !.at = k.tick, !.ovf = k.ovf,
                                        !.wait = Call(t).wait]]
            /\ left' = [left EXCEPT ![t] = IF Wait(t) = MaxDelay THEN 0 ELSE Wait(t)]

\* The item is in the queue, as qs has it: a set or a receiver is told, unless
\* an item of a member was overwritten; or a mutex was given, with result g.
Sent(g, qs, c, over) ==
    IF qs[c].set # Null /\ over /\ ~IsEmpty(c) THEN Untold(g.k, qs)
    ELSE IF qs[c].set # Null \/ g.k.ev[Rx(c)] # <<>> THEN Arrived(g.k, qs, c)
    ELSE Told(g, qs)
Effect(u) == k' = YieldNow(u) /\ queue' = u.queue

\* xQueueGenericSend (xSemaphoreGive for a semaphore or mutex), its critical
\* section: the item goes in and the first task that waits for it is readied.
TrySend ==
    /\ At("try", Sending)
    /\ LET t == k.cur
           c == Obj(t)
           over == Call(t).op = "overwrite"
       IN  /\ Call(t).op = "regive" => queue[c].holder = t /\ queue[c].depth = 1
           /\ IF IsFull(c) /\ ~over THEN Block(t)
              ELSE /\ Effect(Sent(Given(c),
                                  [queue EXCEPT ![c] = CopyTo(c, Call(t).v, Call(t).op)],
                                  c, over))
                   /\ Return(t, "ok")
    /\ UNCHANGED <<bits, tm, scn>>

\* A place has become free: the first sender is readied.
Freed(kk, c) == k' = YieldNow(UnblockFirst(kk, Tx(c)))

\* xQueueReceive; xQueueSelectFromSet is one from the queue of the set.
TryReceive ==
    /\ At("try", {"receive", "select"})
    /\ LET t == k.cur
           c == Obj(t)
           f == CopyFrom(c)
       IN  IF IsEmpty(c) THEN Block(t)
           ELSE /\ queue' = [queue EXCEPT ![c] = f.rest]
                /\ Freed(k, c)
                /\ IF Call(t).op = "select" THEN ReturnWith(t, "ok", f.item)
                                            ELSE Return(t, f.item)
    /\ UNCHANGED <<bits, tm, scn>>

\* xQueueSemaphoreTake: a semaphore counts down, a mutex gets its holder.
TryTake ==
    /\ At("try", {"take", "retake"})
    /\ LET t == k.cur
           c == Obj(t)
           q == [queue[c] EXCEPT !.n = @ - 1,
                                 !.holder = IF IsMutex(c) THEN t ELSE @,
                                 !.depth = IF Call(t).op = "retake" THEN @ + 1 ELSE @]
       IN  /\ Call(t).op = "retake" => queue[c].holder # t
           /\ IF IsEmpty(c) THEN Block(t)
              ELSE /\ queue' = [queue EXCEPT ![c] = q]
                   /\ Freed(IF IsMutex(c) THEN [k EXCEPT !.held[t] = @ + 1] ELSE k, c)
                   /\ Return(t, "ok")
    /\ UNCHANGED <<bits, tm, scn>>

\* mutant: a peek that leaves the item tells nobody else of it.
TryPeekAlone ==
    /\ At("try", {"peek"})
    /\ LET c == Obj(k.cur)
       IN  IF IsEmpty(c) THEN Block(k.cur)
           ELSE Return(k.cur, CopyFrom(c).item) /\ UNCHANGED <<k, queue>>
    /\ UNCHANGED <<bits, tm, scn>>

\* xQueuePeek: the item stays, and the next task that waits for it is readied.
TryPeek ==
    /\ At("try", {"peek"})
    /\ LET c == Obj(k.cur)
       IN  IF IsEmpty(c) THEN Block(k.cur)
           ELSE /\ k' = YieldNow(UnblockFirst(k, Rx(c)))
                /\ queue' = queue
                /\ Return(k.cur, CopyFrom(c).item)
    /\ UNCHANGED <<bits, tm, scn>>

\* xQueueTakeMutexRecursive by the holder.
TakeAgain ==
    /\ At("try", {"retake"})
    /\ LET t == k.cur IN
       /\ queue[Obj(t)].holder = t
       /\ queue' = [queue EXCEPT ![Obj(t)].depth = @ + 1]
       /\ Return(t, "ok")
    /\ UNCHANGED <<k, bits, tm, scn>>

\* xQueueGiveMutexRecursive, but for the last give of the holder, which sends.
GiveAgain ==
    /\ At("try", {"regive"})
    /\ LET t == k.cur
           c == Obj(t)
       IN  /\ queue[c].holder = t => queue[c].depth > 1
           /\ queue' = IF queue[c].holder = t
                       THEN [queue EXCEPT ![c].depth = @ - 1] ELSE queue
           /\ Return(t, IF queue[c].holder = t THEN "ok" ELSE "failed")
    /\ UNCHANGED <<k, bits, tm, scn>>

----------------------------------------------------------------------------
(* The way of a call that has to wait.                                     *)

\* vTaskSuspendAll.
Suspend ==
    /\ At("suspend", QueueOps)
    /\ k' = SuspendAll(k)
    /\ th' = [th EXCEPT ![k.cur].pc = "lock"]
    /\ UNCHANGED <<queue, bits, left, tm, scn>>

\* prvLockQueue, then xTaskCheckForTimeOut (the tick count stands still).
Lock ==
    /\ At("lock", QueueOps)
    /\ LET t == k.cur
           c == Obj(t)
           x == CheckForTimeOut(k, th[t].at, th[t].ovf, th[t].wait)
       IN  /\ queue' = [queue EXCEPT ![c].rx = IF @ = Unlocked THEN 0 ELSE @,
                                     ![c].tx = IF @ = Unlocked THEN 0 ELSE @]
           /\ th' = [th EXCEPT ![t] =
                        [@ EXCEPT !.at = x.at, !.ovf = x.ovf, !.wait = x.wait,
                                  !.pc = IF x.expired THEN "unlock" ELSE "test",
                                  !.then = IF ~x.expired THEN "try"
                                           ELSE IF Waits(t) THEN "recheck"
                                           ELSE "refused",
                                  !.cut = th[t].cut \/ t \in k.aborted]]
           /\ k' = [k EXCEPT !.aborted = @ \ {t}]
    /\ UNCHANGED <<bits, left, tm, scn>>

\* The queue is looked at again under its lock; the task goes onto the event
\* list, and the holder of a mutex inherits its priority.
Test ==
    /\ At("test", QueueOps)
    /\ LET t == k.cur
           c == Obj(t)
           h == IF IsMutex(c) THEN PriorityInherit(k, queue[c].holder)
                ELSE [k |-> k, inherited |-> FALSE]
           stuck == IF Waits(t) THEN IsEmpty(c) ELSE IsFull(c)
       IN  /\ k' = IF stuck THEN PlaceOnEventList(h.k, IF Waits(t) THEN Rx(c) ELSE Tx(c),
                                                  th[t].wait)
                            ELSE k
           /\ th' = [th EXCEPT ![t] =
                        [@ EXCEPT !.pc = "unlock", !.yield = stuck,
                                  !.inherited = IF stuck THEN h.inherited
                                                         ELSE th[t].inherited]]
    /\ UNCHANGED <<queue, bits, left, tm, scn>>

\* prvUnlockQueue of queue c, once the items that came are told of.
Unlocking(s, c) ==
    /\ k' = Released(s.k, Tx(c), queue[c].rx)
    /\ queue' = [s.queue EXCEPT ![c].tx = Unlocked, ![c].rx = Unlocked]
Unlock ==
    /\ At("unlock", QueueOps)
    /\ LET c == Obj(k.cur)
       IN  Unlocking(ToldAll([k |-> k, queue |-> queue], c, queue[c].tx), c)
    /\ th' = [th EXCEPT ![k.cur].pc = "resume"]
    /\ UNCHANGED <<bits, left, tm, scn>>

\* xTaskResumeAll; a task that has put itself to sleep yields afterwards
\* unless xTaskResumeAll did.
ResumeTo(r) ==
    /\ k' = r.k
    /\ th' = [th EXCEPT ![k.cur] =
                 [@ EXCEPT !.pc = IF th[k.cur].yield /\ ~r.yielded
                                  THEN "yield" ELSE th[k.cur].then,
                           !.yield = FALSE]]
Resume ==
    /\ k.cur \in Task \ {Idle} /\ th[k.cur].pc = "resume"
    /\ ResumeTo(ResumeAll(k))
    /\ UNCHANGED <<queue, bits, left, tm, scn>>

\* portYIELD_WITHIN_API.
Yield ==
    /\ k.cur \in Task \ {Idle} /\ th[k.cur].pc = "yield"
    /\ k' = Switch(k)
    /\ th' = [th EXCEPT ![k.cur].pc = th[k.cur].then]
    /\ UNCHANGED <<queue, bits, left, tm, scn>>

\* A send that timed out returns without another look at the queue; so does an
\* xTaskAbortDelay that found its task awake.
Refused ==
    /\ At("refused", Sending \union {"abort"})
    /\ Return(k.cur, "failed")
    /\ UNCHANGED <<k, queue, bits, tm, scn>>

\* A receive that timed out returns only if the queue is still empty; one that
\* made the holder of a mutex inherit its priority then takes that back.
Recheck ==
    /\ At("recheck", Receiving)
    /\ LET t == k.cur IN
       IF ~IsEmpty(Obj(t)) \/ th[t].inherited
       THEN /\ th' = [th EXCEPT ![t].pc = IF IsEmpty(Obj(t)) THEN "undo" ELSE "try"]
            /\ left' = left
       ELSE Return(t, "failed")
    /\ UNCHANGED <<k, queue, bits, tm, scn>>

\* prvGetDisinheritPriorityAfterTimeout: the highest priority still waiting.
HighestWaiter(c) == IF k.ev[Rx(c)] = <<>> THEN 0 ELSE k.evprio[Head(k.ev[Rx(c)])]

\* vTaskPriorityDisinheritAfterTimeout.
Undo ==
    /\ At("undo", {"take", "retake"})
    /\ LET c == Obj(k.cur)
       IN  k' = DisinheritAfterTimeout(k, queue[c].holder, HighestWaiter(c))
    /\ Return(k.cur, "failed")
    /\ UNCHANGED <<queue, bits, tm, scn>>

----------------------------------------------------------------------------
(* Calls that never wait.                                                  *)

\* xQueueGenericReset of a queue in use; one sender is readied.
Emptied(q, c) ==
    [q EXCEPT !.n = 0, !.w = 0, !.r = Length[c] - 1, !.rx = Unlocked, !.tx = Unlocked]
Reset ==
    /\ At("try", {"reset"})
    /\ queue' = [queue EXCEPT ![Obj(k.cur)] = Emptied(@, Obj(k.cur))]
    /\ Freed(k, Obj(k.cur))
    /\ Return(k.cur, "ok")
    /\ UNCHANGED <<bits, tm, scn>>

\* mutant: a queue with items in it joins the set.
AddToSetUnasked ==
    /\ At("try", {"join"})
    /\ LET t == k.cur
           c == Obj(t)
           ok == queue[c].set = Null
       IN  /\ queue' = IF ok THEN [queue EXCEPT ![c].set = Call(t).to] ELSE queue
           /\ Return(t, IF ok THEN "ok" ELSE "failed")
    /\ UNCHANGED <<k, bits, tm, scn>>

\* xQueueAddToSet: an empty queue that is in no set.
AddToSet ==
    /\ At("try", {"join"})
    /\ LET t == k.cur
           c == Obj(t)
           ok == queue[c].set = Null /\ IsEmpty(c)
       IN  /\ queue' = IF ok THEN [queue EXCEPT ![c].set = Call(t).to] ELSE queue
           /\ Return(t, IF ok THEN "ok" ELSE "failed")
    /\ UNCHANGED <<k, bits, tm, scn>>

\* xQueueRemoveFromSet looks at the queue outside its critical section ...
LeaveSet ==
    /\ At("try", {"leave"})
    /\ LET t == k.cur
           c == Obj(t)
       IN  IF queue[c].set = Call(t).from /\ IsEmpty(c)
           THEN th' = [th EXCEPT ![t].pc = "leave"] /\ left' = left
           ELSE Return(t, "failed")
    /\ UNCHANGED <<k, queue, bits, tm, scn>>

\* ... so that an item may come before the queue leaves.
LeftSet ==
    /\ At("leave", {"leave"})
    /\ queue' = [queue EXCEPT ![Obj(k.cur)].set = Null]
    /\ Return(k.cur, "ok")
    /\ UNCHANGED <<k, bits, tm, scn>>

----------------------------------------------------------------------------
(* Calls by interrupts: an unlocked queue tells at once, a locked one only *)
(* counts.  A handler ends with portYIELD_FROM_ISR(woken).                 *)

\* mutant: the woken task is reported to nobody.
FromISRNoYield(qs, c, told) ==
    IF queue[c].tx # Unlocked
    THEN k' = k /\ queue' = [qs EXCEPT ![c].tx = Counted(@)]
    ELSE k' = Arrived(k, qs, c).k /\ queue' = Arrived(k, qs, c).queue

\* The item is in the queue, as qs has it; told: a set need not be told of it.
FromISR(qs, c, told) ==
    IF queue[c].tx # Unlocked
    THEN k' = k /\ queue' = [qs EXCEPT ![c].tx = Counted(@)]
    ELSE IF told THEN k' = k /\ queue' = qs
    ELSE Effect(Arrived(k, qs, c))

\* xQueueGenericSendFromISR, at the back or over the item in the queue.
SendFromISR(c, v, pos) ==
    /\ ~IsFull(c) \/ pos = "overwrite"
    /\ FromISR([queue EXCEPT ![c] = CopyTo(c, v, pos)], c,
               queue[c].set # Null /\ pos = "overwrite" /\ ~IsEmpty(c))

\* xQueueGiveFromISR.
GiveFromISR(c) ==
    /\ ~IsFull(c)
    /\ FromISR([queue EXCEPT ![c].n = @ + 1], c, FALSE)

\* xQueueReceiveFromISR.
ReceiveFromISR(c) ==
    LET free == queue[c].rx = Unlocked
    IN  /\ ~IsEmpty(c)
        /\ IF free THEN Freed(k, c) ELSE k' = k
        /\ queue' = [queue EXCEPT ![c] =
                        [CopyFrom(c).rest EXCEPT !.rx = CountedIf(@)]]

QueueFromISR(i) ==
    \/ i.op \in {"send", "overwrite"} /\ SendFromISR(i.q, i.v, i.op)
    \/ i.op = "give" /\ GiveFromISR(i.q)
    \/ i.op = "receive" /\ ReceiveFromISR(i.q)

QueueStep ==
    \/ TrySend \/ TryReceive \/ TryTake \/ TryPeek \/ TakeAgain \/ GiveAgain
    \/ Suspend \/ Lock \/ Test \/ Unlock \/ Refused \/ Recheck \/ Undo
    \/ Reset \/ AddToSet \/ LeaveSet \/ LeftSet
=============================================================================
