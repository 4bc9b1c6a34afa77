------------------------------- MODULE Timers -------------------------------
(***************************************************************************)
(* The software timers (timers.c) as operators on a state s of two parts,  *)
(* the kernel s.k and the timers s.tm:                                     *)
(*   current, overflow  the two lists of running timers: those that expire *)
(*                      before the tick count wraps, and those after       *)
(*   value, period      the expiry time and the period of each timer       *)
(*   active             tmrSTATUS_IS_ACTIVE                                *)
(*   last               xLastTime of prvSampleTimeNow                      *)
(* and tm.due, not in the code: the true number of ticks until a timer has *)
(* to expire next, to which each call of its callback adds a period.       *)
(*                                                                         *)
(* Only the timer service task touches them.  The callback gives a task    *)
(* notification, as Control::timer_callback does.                          *)
(***************************************************************************)
EXTENDS Kernel

CONSTANTS
    Timer,      \* the timers
    FirstPeriod,\* the period each is created with
    AutoReload, \* those that start again by themselves
    Client,     \* the task that the callback of a timer notifies
    Notice      \* the notification value it gives

ASSUME TimerConstants ==
    /\ FirstPeriod \in [Timer -> 1 .. TickMod - 1]
    /\ AutoReload \subseteq Timer
    /\ Client \in [Timer -> Task]

InitTimers ==
    [current |-> <<>>, overflow |-> <<>>, value |-> [x \in Timer |-> 0],
     period |-> FirstPeriod, active |-> {}, last |-> 0, due |-> [x \in Timer |-> 0]]

ByExpiry(tm, s, x) == InsertSorted(s, x, LAMBDA a, b : tm.value[a] < tm.value[b])

OutOfLists(tm, x) ==
    [tm EXCEPT !.current = RemoveFirst(@, x), !.overflow = RemoveFirst(@, x)]

\* mutant: the callback is a period early when a period has just passed.
LateBeyond(tm, x, next, now, command) ==
    IF next <= now THEN (now - command) % TickMod > tm.period[x]
                   ELSE now < command /\ next >= command

\* prvInsertTimerInActiveList: whether the expiry time passed between the
\* command, or the last expiry, and now ...
Late(tm, x, next, now, command) ==
    IF next <= now THEN (now - command) % TickMod >= tm.period[x]
                   ELSE now < command /\ next >= command

\* ... and, if it has not, the list the timer goes to.
InsertTimer(tm, x, next, now) ==
    LET a == [tm EXCEPT !.value[x] = next]
    IN  IF next <= now THEN [a EXCEPT !.overflow = ByExpiry(a, @, x)]
                       ELSE [a EXCEPT !.current = ByExpiry(a, @, x)]

Callback(s, x) ==
    [k |-> YieldNow(Notify(s.k, Client[x], Notice)),
     tm |-> [s.tm EXCEPT !.due[x] = @ + s.tm.period[x]]]

\* prvReloadTimer: while the next expiry has passed too, a callback for the last
\* one; fewer than TickMod can have passed.  Then the timer is inserted.
Passed(b, x, now) ==
    LET next == (b.at + b.s.tm.period[x]) % TickMod
    IN  IF Late(b.s.tm, x, next, now, b.at) THEN [s |-> Callback(b.s, x), at |-> next]
                                            ELSE b
Reload(s, x, expired, now) ==
    LET after[i \in 0 .. TickMod] ==
            IF i = 0 THEN [s |-> s, at |-> expired] ELSE Passed(after[i - 1], x, now)
        end == after[TickMod]
    IN  [end.s EXCEPT !.tm = InsertTimer(@, x, (end.at + @.period[x]) % TickMod, now)]

\* A timer that expired, out of its list: reloaded or done, then called.
Expire(s, x, expired, now) ==
    Callback(IF x \in AutoReload THEN Reload(s, x, expired, now)
             ELSE [s EXCEPT !.tm.active = @ \ {x}], x)

\* prvProcessExpiredTimer.
ProcessExpired(s, now) ==
    LET x == Head(s.tm.current)
    IN  Expire([s EXCEPT !.tm = OutOfLists(@, x)], x, s.tm.value[x], now)

\* prvSwitchTimerLists: what is left in the current list has expired; nothing is
\* inserted into it meanwhile, because no time is later than the last one.
SwapTimerLists(s) ==
    [s EXCEPT !.tm.current = s.tm.overflow, !.tm.overflow = s.tm.current]
SwitchTimerLists(s) ==
    LET First(a, x) == IF a.tm.current = <<>> THEN a ELSE ProcessExpired(a, MaxDelay)
    IN  SwapTimerLists(ForEach(First, s, s.tm.current))

\* prvSampleTimeNow.
SampleTimeNow(s) ==
    LET wrapped == s.k.tick < s.tm.last
    IN  [s |-> [(IF wrapped THEN SwitchTimerLists(s) ELSE s)
                   EXCEPT !.tm.last = s.k.tick],
         switched |-> wrapped]

\* prvProcessReceivedCommands, for one command c = [cmd, timer, value]; the value
\* is the time of a start and the new period of a change.
StartTimer(s, x, at) ==
    LET now == s.k.tick
        next == (at + s.tm.period[x]) % TickMod
        a == [s EXCEPT !.tm.active = @ \union {x},
                       !.tm.due[x] = s.tm.period[x] - ((now - at) % TickMod)]
    IN  IF Late(s.tm, x, next, now, at) THEN Expire(a, x, next, now)
        ELSE [a EXCEPT !.tm = InsertTimer(@, x, next, now)]

ChangePeriod(s, x, period) ==
    LET a == [s.tm EXCEPT !.active = @ \union {x}, !.period[x] = period,
                          !.due[x] = period]
    IN  [s EXCEPT !.tm = InsertTimer(a, x, (s.k.tick + period) % TickMod, s.k.tick)]

Obeyed(s, c) ==
    CASE c.cmd = "start" -> StartTimer(s, c.timer, c.value)
      [] c.cmd = "change" -> ChangePeriod(s, c.timer, c.value)
      [] c.cmd = "stop" -> [s EXCEPT !.tm.active = @ \ {c.timer},
                                     !.tm.due[c.timer] = 0]
      [] OTHER -> s
Obey(s, c) == Obeyed(SampleTimeNow([s EXCEPT !.tm = OutOfLists(@, c.timer)]).s, c)
=============================================================================
