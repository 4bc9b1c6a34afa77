------------------------------- MODULE I2CBus -------------------------------
(***************************************************************************)
(* The interrupt-driven I2C driver: tasks that share a bus through a       *)
(* mutex, the handler that feeds the FIFOs of the controller and wakes the *)
(* task through its notification, the controller and the chip behind it.   *)
(* One of the tasks, Control, gets the ticks of a timer through the same   *)
(* notification.                                                           *)
(*                                                                         *)
(* All interrupts have one priority and a byte takes 90 us at 100 kHz: the *)
(* handler, and the loop that fills the FIFO, are single steps, while a    *)
(* task may be held up between any two of its own.                         *)
(***************************************************************************)
EXTENDS Integers, Sequences

CONSTANTS Tasks,        \* the tasks that use the bus
          Ticked,       \* those of them that get the ticks of the timer
          Transfers,    \* <<bytes to write, bytes to read>>, not both 0
          Depth,        \* of each FIFO: 16 in the controller
          MaxTransfers, \* bound on the transactions begun
          MaxTicks,     \* bound on the ticks
          MaxTroubles   \* bound on the refusals and hangs of the chip

ASSUME TransfersAssumption ==
    /\ Transfers # {}
    /\ Transfers \subseteq {t \in Nat \X Nat : t[1] + t[2] > 0}
ASSUME DepthAssumption == Depth \in Nat \ {0, 1}
ASSUME BoundsAssumption == {MaxTransfers, MaxTicks, MaxTroubles} \subseteq Nat

VARIABLES at,           \* where every task is in transaction()
          notified,     \* its notification value
          holder,       \* who has the mutex, or Nobody
          asked,        \* the transfer every task wants or is at
          wctr, rctr, rcnt, restart,    \* the counters of the driver
          stored,       \* the bytes the handler has put into the buffer
          count,        \* what transaction() returns
          irq,          \* whether the interrupt is enabled
          mask,         \* the sources the controller may interrupt for
          tx, rx,       \* the FIFOs
          stopDet,      \* the stop condition was seen and not cleared
          aborted,      \* the chip has refused; commands are discarded
          hung,         \* the bus does not move
          got,          \* the bytes the chip has taken
          issued,       \* all commands of this transaction
          met,          \* a tick has met a transaction
          begun, ticks, troubles

driver == <<wctr, rctr, rcnt, restart, stored>>
chip   == <<tx, rx, stopDet, aborted, hung, got>>
bounds == <<begun, ticks, troubles>>
vars   == <<at, notified, holder, asked, driver, count, irq, mask, chip,
            issued, met, bounds>>

Nobody == "nobody"
ASSUME TasksAssumption == Ticked \subseteq Tasks /\ Nobody \notin Tasks

AllSources == {"stop", "txEmpty", "rxFull"}
Command == [op : {"write", "read"}, restart : BOOLEAN, stop : BOOLEAN]

TypeOK ==
    /\ at \in [Tasks -> {"out", "asks", "begun", "waits", "woken"}]
    /\ notified \in [Tasks -> Nat]
    /\ holder \in Tasks \cup {Nobody}
    /\ asked \in [Tasks -> Transfers]
    /\ {wctr, rctr, rcnt, count, got} \subseteq Nat
    /\ stored \in Seq(Nat)
    /\ mask \subseteq AllSources
    /\ tx \in Seq(Command)
    /\ rx \in Seq(Nat)
    /\ issued \in Seq(Command)
    /\ {restart, irq, stopDet, aborted, hung, met} \subseteq BOOLEAN
    /\ begun \in 0 .. MaxTransfers
    /\ ticks \in 0 .. MaxTicks
    /\ troubles \in 0 .. MaxTroubles

Init == /\ at = [t \in Tasks |-> "out"]
        /\ notified = [t \in Tasks |-> 0]
        /\ holder = Nobody
        /\ asked = [t \in Tasks |-> CHOOSE x \in Transfers : TRUE]
        /\ wctr = 0 /\ rctr = 0 /\ rcnt = 0 /\ restart = FALSE
        /\ stored = << >>
        /\ count = 0
        /\ irq = FALSE
        /\ mask = {}
        /\ tx = << >> /\ rx = << >>
        /\ stopDet = FALSE /\ aborted = FALSE /\ hung = FALSE
        /\ got = 0
        /\ issued = << >>
        /\ met = FALSE
        /\ begun = 0 /\ ticks = 0 /\ troubles = 0

Least(i, j) == IF i < j THEN i ELSE j

(* What tx_fill_fifo puts into the FIFO: n of the w bytes left to write;   *)
(* the last of all gets the stop when there is nothing to read.            *)
WriteCommands(n, w, r, again) ==
    [i \in 1 .. n |-> [op      |-> "write",
                       restart |-> again /\ i = 1,
                       stop    |-> i = w /\ r = 0]]

(* Mutant: the restart stays set for every read. *)
ReadCommandsAgain(n, r, again) ==
    [i \in 1 .. n |-> [op |-> "read", restart |-> again, stop |-> i = r]]

(* What rx_fill_fifo puts there. *)
ReadCommands(n, r, again) ==
    [i \in 1 .. n |-> [op      |-> "read",
                       restart |-> again /\ i = 1,
                       stop    |-> i = r]]

Taken(w, r, room) == Least(room, IF w > 0 THEN w ELSE r)

(* The commands that one call adds, with w and r left to give, and what is *)
(* left afterwards.                                                        *)
Fill(w, r, again, room) ==
    LET n == Taken(w, r, room)
    IN  IF w > 0
        THEN [commands |-> WriteCommands(n, w, r, again),
              w |-> w - n, r |-> r, restart |-> n = w /\ r > 0]
        ELSE [commands |-> ReadCommands(n, r, again),
              w |-> w, r |-> r - n, restart |-> again /\ n = 0]

-----------------------------------------------------------------------------
(* The tasks.                                                              *)

Ask(t) == /\ at[t] = "out"
          /\ begun < MaxTransfers
          /\ begun' = begun + 1
          /\ \E transfer \in Transfers :
                asked' = [asked EXCEPT ![t] = transfer]
          /\ at' = [at EXCEPT ![t] = "asks"]
          /\ UNCHANGED <<notified, holder, driver, count, irq, mask, chip,
                         issued, met, ticks, troubles>>

(* transaction() up to the interrupt.  Whether the controller forgets a    *)
(* stop it has seen when it is disabled and enabled, the code does not say.*)
Begin(t) ==
    /\ at[t] = "asks"
    /\ holder = Nobody
    /\ holder' = t
    /\ LET fill == Fill(asked[t][1], asked[t][2], FALSE, Depth)
       IN  /\ tx' = fill.commands
           /\ issued' = fill.commands
           /\ wctr' = fill.w
           /\ rctr' = fill.r
           /\ restart' = fill.restart
    /\ rcnt' = asked[t][2]
    /\ stored' = << >>
    /\ mask' = AllSources
    /\ rx' = << >>
    /\ stopDet' \in {stopDet, FALSE}
    /\ aborted' = FALSE
    /\ hung' = FALSE
    /\ got' = 0
    /\ met' = (met \/ notified[t] > 0)
    /\ at' = [at EXCEPT ![t] = "begun"]
    /\ UNCHANGED <<notified, asked, count, irq, bounds>>

Enable(t) == /\ at[t] = "begun"
             /\ irq' = TRUE
             /\ at' = [at EXCEPT ![t] = "waits"]
             /\ UNCHANGED <<notified, holder, asked, driver, count, mask,
                            chip, issued, met, bounds>>

(* Mutant: the commands to read are counted, not the bytes read. *)
WakeCountsCommands(t) ==
           /\ at[t] = "waits"
           /\ notified[t] > 0
           /\ notified' = [notified EXCEPT ![t] = 0]
           /\ count' = asked[t][1] + asked[t][2] - (rctr + wctr)
           /\ at' = [at EXCEPT ![t] = "woken"]
           /\ UNCHANGED <<holder, asked, driver, irq, mask, chip, issued,
                          met, bounds>>

Wake(t) == /\ at[t] = "waits"
           /\ notified[t] > 0
           /\ notified' = [notified EXCEPT ![t] = 0]
           /\ count' = asked[t][1] + asked[t][2] - (rcnt + wctr)
           /\ at' = [at EXCEPT ![t] = "woken"]
           /\ UNCHANGED <<holder, asked, driver, irq, mask, chip, issued,
                          met, bounds>>

Pending == \/ "stop" \in mask /\ stopDet
           \/ "txEmpty" \in mask /\ tx = << >>
           \/ "rxFull" \in mask /\ Len(rx) >= Depth - 1

(* Mutant: no time limit for a bus that does not move. *)
TimesOutIfIdle(t) ==
               /\ at[t] = "waits"
               /\ notified[t] = 0
               /\ ~Pending /\ ~hung
               /\ tx = << >>
               /\ count' = 0
               /\ at' = [at EXCEPT ![t] = "woken"]
               /\ UNCHANGED <<notified, holder, asked, driver, irq, mask,
                              chip, issued, met, bounds>>

(* The second is over: nothing has moved for long.  A transfer takes some  *)
(* milliseconds.                                                           *)
TimesOut(t) == /\ at[t] = "waits"
               /\ notified[t] = 0
               /\ ~Pending
               /\ hung \/ tx = << >>
               /\ count' = 0
               /\ at' = [at EXCEPT ![t] = "woken"]
               /\ UNCHANGED <<notified, holder, asked, driver, irq, mask,
                              chip, issued, met, bounds>>

Return(t) == /\ at[t] = "woken"
             /\ irq' = FALSE
             /\ holder' = Nobody
             /\ at' = [at EXCEPT ![t] = "out"]
             /\ UNCHANGED <<notified, asked, driver, count, mask, chip,
                            issued, met, bounds>>

(* The loop of Control takes what is there for a tick. *)
TakeTick(t) == /\ t \in Ticked
               /\ at[t] = "out"
               /\ notified[t] > 0
               /\ notified' = [notified EXCEPT ![t] = 0]
               /\ UNCHANGED <<at, holder, asked, driver, count, irq, mask,
                              chip, issued, met, bounds>>

Tick(t) == /\ t \in Ticked
           /\ ticks < MaxTicks
           /\ ticks' = ticks + 1
           /\ notified' = [notified EXCEPT ![t] = @ + 1]
           /\ met' = (met \/ at[t] # "out")
           /\ UNCHANGED <<at, holder, asked, driver, count, irq, mask, chip,
                          issued, begun, troubles>>

-----------------------------------------------------------------------------
(* The handler.                                                            *)

(* Mutant: one byte at a time. *)
DrainedOne == Least(1, Least(rcnt, Len(rx)))

(* It empties the receive FIFO first, as far as bytes are wanted. *)
Drained == Least(rcnt, Len(rx))

(* Mutant: the stop does not end the interrupts. *)
MaskAfterStopKept(stop, given) ==
    IF given THEN {"stop", "rxFull"} ELSE mask

(* What may interrupt next, after a stop or when all commands are given. *)
MaskAfter(stop, given) ==
    CASE stop  -> {}
      [] ~stop /\ given  -> {"stop", "rxFull"}
      [] ~stop /\ ~given -> mask

isr ==
    /\ irq /\ Pending
    /\ stored' = stored \o SubSeq(rx, 1, Drained)
    /\ rcnt' = rcnt - Drained
    /\ rx' = SubSeq(rx, Drained + 1, Len(rx))
    /\ LET wants == "txEmpty" \in mask /\ tx = << >>
           fill  == IF wants /\ wctr + rctr > 0
                    THEN Fill(wctr, rctr, restart, Depth)
                    ELSE [commands |-> << >>, w |-> wctr, r |-> rctr,
                          restart |-> restart]
           stop  == "stop" \in mask /\ stopDet
       IN  /\ tx' = IF aborted THEN tx ELSE tx \o fill.commands
           /\ issued' = issued \o fill.commands
           /\ wctr' = fill.w
           /\ rctr' = fill.r
           /\ restart' = fill.restart
           /\ mask' = MaskAfter(stop, wants /\ fill.w + fill.r = 0)
           /\ stopDet' = (stopDet /\ ~stop)
           /\ notified' = IF stop THEN [notified EXCEPT ![holder] = 1]
                                  ELSE notified
    /\ UNCHANGED <<at, holder, asked, count, irq, aborted, hung, got, met,
                   bounds>>

-----------------------------------------------------------------------------
(* The controller and the chip.                                            *)

Moves == tx # << >> /\ ~hung

Execute ==
    /\ Moves
    /\ LET command == Head(tx)
       IN  /\ tx' = Tail(tx)
           /\ stopDet' = (stopDet \/ command.stop)
           /\ IF command.op = "write"
              THEN /\ got' = got + 1
                   /\ UNCHANGED rx
              ELSE /\ rx' = Append(rx, Len(stored) + Len(rx) + 1)
                   /\ UNCHANGED got
    /\ UNCHANGED <<at, notified, holder, asked, driver, count, irq, mask,
                   aborted, hung, issued, met, bounds>>

(* The chip does not answer its address or a byte: the controller throws   *)
(* away its commands and stops.                                            *)
Refuse == /\ Moves
          /\ Head(tx).op = "write" \/ stored \o rx = << >>
          /\ troubles < MaxTroubles
          /\ troubles' = troubles + 1
          /\ tx' = << >>
          /\ stopDet' = TRUE
          /\ aborted' = TRUE
          /\ UNCHANGED <<at, notified, holder, asked, driver, count, irq,
                         mask, rx, hung, got, issued, met, begun, ticks>>

Hang == /\ Moves
        /\ troubles < MaxTroubles
        /\ troubles' = troubles + 1
        /\ hung' = TRUE
        /\ UNCHANGED <<at, notified, holder, asked, driver, count, irq, mask,
                       tx, rx, stopDet, aborted, got, issued, met, begun,
                       ticks>>

-----------------------------------------------------------------------------
Task(t) == \/ Begin(t) \/ Enable(t) \/ Wake(t) \/ TimesOut(t) \/ Return(t)

Next == \/ isr \/ Execute \/ Refuse \/ Hang
        \/ \E t \in Tasks : \/ Ask(t) \/ Task(t) \/ TakeTick(t) \/ Tick(t)

Spec == Init /\ [][Next]_vars

(* The handler runs when it is due, a bus that moves goes on moving, a     *)
(* task goes on, and the mutex serves those who wait for it.               *)
FairSpec == /\ Spec
            /\ WF_vars(isr) /\ WF_vars(Execute)
            /\ \A t \in Tasks : SF_vars(Begin(t)) /\ WF_vars(Task(t))

-----------------------------------------------------------------------------
(* Properties.                                                             *)

Done(t) == at[t] = "woken"
Full(t) == count = asked[t][1] + asked[t][2]

(* The handler empties the receive FIFO in time. *)
NothingOverruns == Len(rx) <= Depth

(* On the wire a transaction is all its writes and then all its reads, one *)
(* restart between them and one stop at the end, in however many fillings. *)
WellFormed ==
    \A t \in Tasks : holder = t =>
       LET w == asked[t][1]
           r == asked[t][2]
       IN  \A i \in 1 .. Len(issued) :
              issued[i] = [op      |-> IF i <= w THEN "write" ELSE "read",
                           restart |-> w > 0 /\ r > 0 /\ i = w + 1,
                           stop    |-> i = w + r]

(* As long as no tick has come in the way, a transfer that the chip does   *)
(* not refuse is reported as full and is so, however it is cut up by the   *)
(* FIFOs and whoever used the bus before; what it puts on the wire is well *)
(* formed whatever happens.                                                *)
Faithful ==
    /\ NothingOverruns
    /\ WellFormed
    /\ \A t \in Tasks :
          Done(t) /\ ~met /\ ~aborted /\ ~hung =>
             /\ Full(t)
             /\ got = asked[t][1]
             /\ stored = [i \in 1 .. asked[t][2] |-> i]

(* A read reported as full has all its bytes in the right places, whatever *)
(* ticks, refusals and left-over stops have come in the way of this or an  *)
(* earlier transaction: what the EEPROM takes for data is data.            *)
FullReadIsRead ==
    \A t \in Tasks :
       Done(t) /\ Full(t) /\ asked[t][2] > 0 =>
          /\ got = asked[t][1]
          /\ SubSeq(stored, 1, asked[t][2]) = [i \in 1 .. asked[t][2] |-> i]

(* The end of a transaction is told once and to the task it belongs to:    *)
(* nothing is left over that would end the next one.                       *)
ToldOnce ==
    \A t \in Tasks \ Ticked :
       at[t] \in {"out", "asks", "begun"} => notified[t] = 0

(* Whoever wants the bus gets it and returns from the transaction. *)
EveryoneReturns == \A t \in Tasks : at[t] = "asks" ~> at[t] = "out"
=============================================================================
