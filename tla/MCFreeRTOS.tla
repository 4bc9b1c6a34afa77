----------------------------- MODULE MCFreeRTOS -----------------------------
(* FreeRTOS on small instances: four tasks, and the ways the application   *)
(* uses the kernel and the calls it does not make, each a scenario.        *)
EXTENDS FreeRTOS

MCTask == {"low", "mid", "high", "idle"}
MCPrio == [t \in MCTask |-> CASE t = "low" -> 1 [] t = "mid" -> 2
                              [] t = "high" -> 3 [] OTHER -> 0]
MCEventList == Queue \X {"rx", "tx"} \union {Waiters}
MCLength == [c \in Queue |-> IF c = "q" THEN 2 ELSE 1]

Send(c, v, w) == [op |-> "send", q |-> c, v |-> v, wait |-> w]
Receive(c, w) == [op |-> "receive", q |-> c, wait |-> w]
Take(m, w) == [op |-> "take", q |-> m, wait |-> w]
Give(m) == [op |-> "give", q |-> m, v |-> Null, wait |-> 0]
Retake(m, w) == [op |-> "retake", q |-> m, wait |-> w]
Regive(m) == [op |-> "regive", q |-> m, v |-> Null, wait |-> 0]
ToFront(c, v, w) == [op |-> "front", q |-> c, v |-> v, wait |-> w]
Overwrite(c, v) == [op |-> "overwrite", q |-> c, v |-> v, wait |-> 0]
Peek(c, w) == [op |-> "peek", q |-> c, wait |-> w]
Empty(c) == [op |-> "reset", q |-> c]
Join(c, s) == [op |-> "join", q |-> c, to |-> s]
Leave(c, s) == [op |-> "leave", q |-> c, from |-> s]
Select(s, w) == [op |-> "select", q |-> s, wait |-> w]
Pause(w) == [op |-> "delay", wait |-> w]
Every(w) == [op |-> "until", wait |-> w]
Notified(w) == [op |-> "notified", wait |-> w]
NotifyTo(t, v) == [op |-> "notify", to |-> t, v |-> v, wait |-> 0]
SetAll(b) == [op |-> "set", new |-> b]
Clear(b) == [op |-> "clear", new |-> b]
WaitFor(b, all, clear, w) ==
    [op |-> "wait", bits |-> b, all |-> all, clear |-> clear, wait |-> w]
Sync(b, others, w) ==
    [op |-> "sync", new |-> b, bits |-> others, all |-> TRUE, clear |-> TRUE, wait |-> w]
Begin(x) == [op |-> "command", cmd |-> "start", timer |-> x, wait |-> 0]
Stop(x) == [op |-> "command", cmd |-> "stop", timer |-> x, wait |-> 0]
Change(x, p) ==
    [op |-> "command", cmd |-> "change", timer |-> x, period |-> p, wait |-> 0]
Service == <<[op |-> "timers", wait |-> 0]>>
OfTask(op, t) == [op |-> op, to |-> t, wait |-> 0]
Prioritise(t, p) == [op |-> "priority", to |-> t, prio |-> p]
Asleep == <<Notified(MaxDelay)>>
\* The types of the queues: one mutex, unless a scenario says otherwise.
Types == [c \in Queue |-> IF c = "m" THEN "mutex" ELSE "queue"]
OfType(type, cs) == [c \in Queue |-> IF c \in cs THEN type ELSE Types[c]]
Runs(l, m, h) == [t \in MCTask |-> CASE t = "low" -> l [] t = "mid" -> m
                                     [] t = "high" -> h [] OTHER -> <<>>]

\* Two producers and one consumer of a queue, every way to wait.
Pipe == [prog |-> Runs(<<Send("q", "x", 2), Send("q", "y", MaxDelay)>>,
                       <<Receive("q", 2)>>,
                       <<Send("q", "x", 0), Pause(1)>>), type |-> Types, isr |-> {}]
\* The UART: its interrupt drains the queue of a task that writes, and feeds
\* the one that two tasks read.
Writer == [prog |-> Runs(<<Send("r", "x", 2)>>, <<Send("r", "y", MaxDelay)>>, Asleep),
           type |-> Types, isr |-> {[op |-> "receive", q |-> "r"]}]
Readers == [prog |-> Runs(<<Receive("q", MaxDelay)>>, <<Receive("q", MaxDelay)>>, Asleep),
            type |-> Types, isr |-> {[op |-> "send", q |-> "q", v |-> "x"]}]
\* The bus mutex: of two waiters the one of higher priority gives up first.
Bus == [prog |-> Runs(<<Take("m", MaxDelay), Pause(2), Give("m")>>,
                      <<Pause(1), Take("m", MaxDelay), Give("m")>>,
                      <<Take("m", 1), Give("m"), Pause(1)>>), type |-> Types, isr |-> {}]
\* A transfer that waits for its interrupt, beside a periodic task.
Transfer == [prog |-> Runs(<<NotifyTo("mid", "y"), Pause(1)>>, <<Notified(2)>>,
                           <<Every(2)>>),
             type |-> Types, isr |-> {[op |-> "notify", to |-> "mid", v |-> "x"]}]

\* Waiters for any and for all of two bits, one of them holding the mutex the
\* third task wants; and a rendezvous.
Events == [prog |-> Runs(<<Take("m", MaxDelay), WaitFor({1, 2}, TRUE, TRUE, 1), Give("m")>>,
                         <<Pause(1), SetAll({1}), SetAll({2}), Clear({1})>>,
                         <<Take("m", 2), Give("m"), WaitFor({1, 2}, FALSE, FALSE, 2)>>),
           type |-> Types, isr |-> {}]
Meeting == [prog |-> Runs(<<Sync({1}, {1, 2}, MaxDelay)>>, <<Sync({2}, {1, 2}, 1), Pause(1)>>,
                          <<Pause(2)>>), type |-> Types, isr |-> {}]

\* The control task waits for its timer, while another task starts, changes
\* and stops it; a timer that runs once is started and stopped without a pause.
Ticking == [prog |-> Runs(<<Begin("auto"), Change("auto", 1), Pause(2), Stop("auto")>>,
                          <<Notified(MaxDelay)>>, Service), type |-> Types, isr |-> {}]
Rushing == [prog |-> Runs(<<Begin("once"), Stop("once")>>,
                          <<Notified(MaxDelay)>>, Service), type |-> Types, isr |-> {}]

\* One task holds two mutexes, and gives first the one the other task of its
\* raised priority waits for.
TwoMutexes == [prog |-> Runs(<<Pause(1), Take("r", MaxDelay), Give("r"), Pause(2)>>,
                             <<Take("m", MaxDelay), Take("r", MaxDelay), Pause(2),
                               Give("m"), Give("r"), Pause(1)>>,
                             <<Pause(1), Take("m", MaxDelay), Give("m"), Pause(2)>>),
               type |-> OfType("mutex", {"r"}), isr |-> {}]
MCTwoMutexes == [mutexes |-> TwoMutexes]

\* A mailbox that is overwritten, looked into by one task and emptied by another.
Mailbox == [prog |-> Runs(<<Receive("r", 1), Overwrite("r", "z"), Empty("r")>>,
                          <<Peek("r", MaxDelay), Pause(1)>>, Asleep),
            type |-> Types, isr |-> {[op |-> "overwrite", q |-> "r", v |-> "z"]}]
\* An item that overtakes the others.
Overtaking == [prog |-> Runs(<<Send("q", "x", 2), Send("q", "y", 0)>>,
                             <<Receive("q", MaxDelay)>>,
                             <<ToFront("q", "z", 0), Pause(1)>>),
               type |-> Types, isr |-> {}]
\* A counting semaphore that an interrupt gives.
Counting == [prog |-> Runs(<<Take("q", 0), Give("q")>>, <<Take("q", MaxDelay)>>, Asleep),
             type |-> OfType("semaphore", {"q"}), isr |-> {[op |-> "give", q |-> "q"]}]
\* A recursive mutex.
Nested == [prog |-> Runs(<<Retake("m", MaxDelay), Retake("m", 1), Pause(1), Regive("m"),
                           Regive("m")>>,
                         <<Retake("m", 1), Regive("m"), Regive("m"), Pause(1)>>,
                         Asleep),
           type |-> Types, isr |-> {}]
\* Two queues in a set; one leaves it again and again.
SetOf == [prog |-> Runs(<<Join("r", "q"), Join("m", "q"), Send("m", "x", 0), Leave("m", "q")>>,
                        <<Select("q", MaxDelay), Receive("selected", 0)>>, Asleep),
          type |-> [OfType("queue", {"m"}) EXCEPT !["q"] = "set"],
          isr |-> {[op |-> "send", q |-> "r", v |-> "y"]}]
\* Tasks that are suspended, by themselves and by others, while they wait.
Parking == [prog |-> Runs(<<OfTask("park", "mid"), Send("r", "x", 0), OfTask("unpark", "mid"),
                            OfTask("unpark", "high")>>,
                          <<Receive("r", 1)>>, <<OfTask("park", "high")>>),
            type |-> Types, isr |-> {[op |-> "unpark", to |-> "high"]}]
\* A wait cut short by another task.
Aborting == [prog |-> Runs(<<OfTask("abort", "mid"), OfTask("abort", "high")>>,
                           <<Receive("r", 1)>>, Asleep),
             type |-> Types, isr |-> {[op |-> "send", q |-> "r", v |-> "x"]}]
\* Priorities that change while tasks are ready, asleep and waiting.
Priorities == [prog |-> Runs(<<Prioritise("mid", 3), Send("r", "x", 1), Prioritise("mid", 1)>>,
                             <<Receive("r", 2)>>,
                             <<Pause(2), Prioritise("low", 2), Prioritise("high", 1),
                               Prioritise("low", 1), Prioritise("high", 3)>>),
               type |-> Types, isr |-> {}]
\* Tasks that end: one by itself, one wherever it is, both made anew.
Life == [prog |-> Runs(<<OfTask("delete", "mid"), OfTask("create", "mid"), OfTask("create", "high"),
                         Pause(1)>>,
                       <<Receive("r", 1), Pause(MaxDelay)>>, <<Send("r", "x", 0), Pause(1), OfTask("delete", "high")>>),
         type |-> Types, isr |-> {}]

MCScenario == [pipe |-> Pipe, writer |-> Writer, readers |-> Readers, bus |-> Bus,
               transfer |-> Transfer, events |-> Events, meeting |-> Meeting,
               ticking |-> Ticking, rushing |-> Rushing, mailbox |-> Mailbox, overtaking |-> Overtaking,
               counting |-> Counting, nested |-> Nested, set |-> SetOf,
               parking |-> Parking, aborting |-> Aborting, priorities |-> Priorities,
               life |-> Life]
MCPeriod == [auto |-> 2, once |-> 2]
MCClient == [x \in {"auto", "once"} |-> "mid"]
=============================================================================
