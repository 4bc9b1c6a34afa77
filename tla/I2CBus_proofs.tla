--------------------------- MODULE I2CBus_proofs ---------------------------
(***************************************************************************)
(* For all tasks, transfers and depths of the FIFO, however many ticks,    *)
(* refusals and hangs come in between: transactions are well formed on the *)
(* wire, what is reported as full is so, and their end is told once.       *)
(***************************************************************************)
EXTENDS I2CBus, SequenceTheorems, TLAPS

Busy == holder # Nobody
W == asked[holder][1]
R == asked[holder][2]

(* The i-th command of a transaction that writes w bytes and reads r. *)
Form(i, w, r) == [op      |-> IF i <= w THEN "write" ELSE "read",
                  restart |-> w > 0 /\ r > 0 /\ i = w + 1,
                  stop    |-> i = w + r]

(* The mutex has one owner, and only the owner's interrupts are enabled. *)
Owner ==
    /\ \A t \in Tasks : at[t] \in {"begun", "waits", "woken"} <=> holder = t
    /\ irq <=> Busy /\ at[holder] # "begun"

(* Bytes arrive in order, and there is room for all that are under way. *)
Bytes ==
    /\ \A i \in 1 .. Len(stored) : stored[i] = i
    /\ \A i \in 1 .. Len(rx) : rx[i] = Len(stored) + i
    /\ Len(rx) + Len(tx) <= Depth

(* What the driver has given to the controller, and its counters of what   *)
(* is left to give.                                                        *)
Given == Busy =>
    /\ wctr <= W /\ rctr <= R
    /\ wctr > 0 => rctr = R
    /\ restart <=> (W > 0 /\ R > 0 /\ wctr = 0 /\ rctr = R)
    /\ rcnt = R - Len(stored)
    /\ Len(issued) = (W - wctr) + (R - rctr)
    /\ \A i \in 1 .. Len(issued) : issued[i] = Form(i, W, R)

Executed == got + Len(stored) + Len(rx)

(* What the controller has made of it, and what waits in the FIFO. *)
Wire == Busy =>
    /\ got <= W /\ Len(stored) + Len(rx) <= R
    /\ Len(stored) + Len(rx) > 0 => got = W
    /\ aborted => tx = << >>
    /\ ~aborted => /\ Len(issued) = Executed + Len(tx)
                   /\ \A i \in 1 .. Len(tx) : tx[i] = Form(Executed + i, W, R)

(* The owner gets no ticks, or has got none in a transaction. *)
Clean == holder \notin Ticked \/ ~met

(* A transaction that has run to its end has seen its stop; the handler    *)
(* then masks everything and tells the owner.  An owner that is woken      *)
(* before, and not by a tick, has a bus that hangs.                        *)
Ends == Busy =>
    /\ mask \in {AllSources, {"stop", "rxFull"}, {}}
    /\ mask = {"stop", "rxFull"} => wctr + rctr = 0
    /\ mask # {} /\ wctr + rctr = 0 /\ tx = << >> => stopDet
    /\ mask # {} /\ aborted => stopDet
    /\ mask = {} => at[holder] # "begun"
    /\ mask = {} /\ at[holder] = "waits" => notified[holder] > 0
    /\ at[holder] = "woken" /\ mask # {} /\ Clean => hung /\ ~stopDet

(* A notification is one for the end of this transaction. *)
Told == \A t \in Tasks :
    /\ t \in Ticked /\ ~met /\ holder = t /\ notified[t] > 0 =>
          at[t] = "waits" /\ mask = {}
    /\ t \notin Ticked /\ notified[t] > 0 =>
          holder = t /\ at[t] = "waits" /\ mask = {}

(* As long as no tick has met a transaction, no stop is left over and      *)
(* none comes before its time.                                             *)
Undisturbed == ~met =>
    /\ ~Busy => ~stopDet /\ (tx = << >> \/ hung)
    /\ Busy =>
         /\ stopDet \/ mask = {} => aborted \/ (wctr + rctr = 0 /\ tx = << >>)
         /\ mask = {} => ~stopDet /\ tx = << >>
         /\ mask = {} /\ ~aborted => wctr = 0 /\ rcnt = 0 /\ rx = << >>
         /\ at[holder] = "woken" /\ ~aborted /\ ~hung =>
               mask = {} /\ count = W + R

(* The count that transaction() returns is right for good. *)
Counted == Busy /\ at[holder] = "woken" /\ count = W + R =>
              rcnt = 0 /\ wctr = 0

IInv == /\ TypeOK /\ Owner /\ Bytes /\ Given /\ Wire
        /\ Ends /\ Told /\ Undisturbed /\ Counted

-----------------------------------------------------------------------------
(* Lemmas.                                                                 *)

(* What a task asks for is some bytes. *)
LEMMA Sizes ==
    ASSUME TypeOK, NEW t \in Tasks
    PROVE  /\ asked[t] \in Transfers
           /\ asked[t][1] \in Nat /\ asked[t][2] \in Nat
           /\ asked[t][1] + asked[t][2] > 0
BY TransfersAssumption DEF TypeOK

(* A command of a transaction is a command. *)
LEMMA FormIsCommand ==
    ASSUME NEW i \in Nat, NEW w \in Nat, NEW r \in Nat
    PROVE  Form(i, w, r) \in Command
BY DEF Form, Command

(* A filling f continues a transaction of wall and rall bytes that has w   *)
(* and r left to give: its commands have the right form, no more than      *)
(* there is room for, at least one, and the counters say what is left.     *)
Continues(f, w, r, wall, rall, room) ==
    /\ f.commands \in Seq(Command)
    /\ Len(f.commands) \in Nat /\ Len(f.commands) > 0
    /\ Len(f.commands) <= room
    /\ f.w \in Nat /\ f.w <= w /\ f.r \in Nat /\ f.r <= r
    /\ f.w > 0 => f.r = rall
    /\ f.restart \in BOOLEAN
    /\ f.restart <=> (wall > 0 /\ rall > 0 /\ f.w = 0 /\ f.r = rall)
    /\ f.w + f.r + Len(f.commands) = w + r
    /\ \A i \in 1 .. Len(f.commands) :
          f.commands[i] = Form(wall - w + (rall - r) + i, wall, rall)

(* What Fill gives continues the transaction. *)
LEMMA Filling ==
    ASSUME NEW wall \in Nat, NEW rall \in Nat,
           NEW w \in Nat, w <= wall, NEW r \in Nat, r <= rall, w + r > 0,
           w > 0 => r = rall,
           NEW again \in BOOLEAN,
           again <=> (wall > 0 /\ rall > 0 /\ w = 0 /\ r = rall),
           NEW room \in Nat, room > 0,
           NEW f, f = Fill(w, r, again, room)
    PROVE  Continues(f, w, r, wall, rall, room)
<1> DEFINE n == Taken(w, r, room)
           c == IF w > 0 THEN WriteCommands(n, w, r, again)
                ELSE ReadCommands(n, r, again)
<1>1. n \in 1 .. room /\ n <= IF w > 0 THEN w ELSE r
  BY DEF Taken, Least
<1>2. /\ w > 0 => f = [commands |-> c, w |-> w - n, r |-> r,
                       restart |-> n = w /\ r > 0]
      /\ w = 0 => f = [commands |-> c, w |-> w, r |-> r - n,
                       restart |-> again /\ n = 0]
  BY DEF Fill
<1> HIDE DEF n
<1>3. c \in Seq(Command) /\ Len(c) = n
  <2>1. WriteCommands(n, w, r, again) \in [1 .. n -> Command]
    BY <1>1 DEF WriteCommands, Command
  <2>2. ReadCommands(n, r, again) \in [1 .. n -> Command]
    BY <1>1 DEF ReadCommands, Command
  <2>3. c \in [1 .. n -> Command] /\ n \in Nat
    BY <1>1, <2>1, <2>2
  <2> QED
    BY <2>3
<1>4. ASSUME NEW i \in 1 .. n
      PROVE  c[i] = Form(wall - w + (rall - r) + i, wall, rall)
  <2> DEFINE j == wall - w + (rall - r) + i
  <2>1. CASE w > 0
    <3>1. c[i] = [op |-> "write", restart |-> again /\ i = 1,
                  stop |-> i = w /\ r = 0]
      BY <2>1 DEF WriteCommands
    <3>2. j <= wall /\ ~(again /\ i = 1) /\ j # wall + 1
      BY <1>1, <2>1
    <3>3. (i = w /\ r = 0) <=> j = wall + rall
      BY <1>1, <2>1
    <3> QED
      BY <3>1, <3>2, <3>3 DEF Form
  <2>2. CASE w = 0
    <3>1. c[i] = [op |-> "read", restart |-> again /\ i = 1, stop |-> i = r]
      BY <2>2 DEF ReadCommands
    <3>2. ~(j <= wall) /\ ((i = r) <=> j = wall + rall)
      BY <1>1, <2>2
    <3>3. (again /\ i = 1) <=> (wall > 0 /\ rall > 0 /\ j = wall + 1)
      BY <1>1, <2>2
    <3> QED
      BY <3>1, <3>2, <3>3 DEF Form
  <2> QED
    BY <2>1, <2>2
<1> HIDE DEF c
<1>5. \A i \in 1 .. Len(c) :
         c[i] = Form(wall - w + (rall - r) + i, wall, rall)
  BY <1>3, <1>4
<1>6. CASE w > 0
  <2> DEFINE b == n = w /\ r > 0
  <2>1. f = [commands |-> c, w |-> w - n, r |-> r, restart |-> b]
    BY <1>2, <1>6
  <2>2. b \in BOOLEAN /\ (b <=> (n = w /\ r > 0))
    OBVIOUS
  <2> HIDE DEF b
  <2>3. f.commands = c /\ f.w = w - n /\ f.r = r /\ f.restart = b
    BY <2>1
  <2>4. /\ f.w \in Nat /\ f.w <= w /\ f.r \in Nat /\ f.r <= r
        /\ f.w > 0 => f.r = rall
        /\ f.w + f.r + n = w + r
    BY <1>1, <1>6, <2>3
  <2>5. f.restart <=> (wall > 0 /\ rall > 0 /\ f.w = 0 /\ f.r = rall)
    BY <1>1, <1>6, <2>2, <2>3
  <2> QED
    BY <1>1, <1>3, <1>5, <2>2, <2>3, <2>4, <2>5 DEF Continues
<1>7. CASE w = 0
  <2> DEFINE b == again /\ n = 0
  <2>1. f = [commands |-> c, w |-> w, r |-> r - n, restart |-> b]
    BY <1>2, <1>7
  <2>2. b \in BOOLEAN /\ (b <=> (again /\ n = 0))
    OBVIOUS
  <2> HIDE DEF b
  <2>3. f.commands = c /\ f.w = w /\ f.r = r - n /\ f.restart = b
    BY <2>1
  <2>4. /\ f.w \in Nat /\ f.w <= w /\ f.r \in Nat /\ f.r <= r
        /\ f.w > 0 => f.r = rall
        /\ f.w + f.r + n = w + r
    BY <1>1, <1>7, <2>3
  <2>5. f.restart <=> (wall > 0 /\ rall > 0 /\ f.w = 0 /\ f.r = rall)
    BY <1>1, <1>7, <2>2, <2>3
  <2> QED
    BY <1>1, <1>3, <1>5, <2>2, <2>3, <2>4, <2>5 DEF Continues
<1>8. w > 0 \/ w = 0
  OBVIOUS
<1> QED
  BY <1>6, <1>7, <1>8, Zenon

-----------------------------------------------------------------------------
(* The invariant.                                                          *)

(* Nothing is asked for and nothing enabled at power-up. *)
LEMMA InitIInv == Init => IInv
<1> SUFFICES ASSUME Init PROVE IInv
  OBVIOUS
<1>1. (CHOOSE x \in Transfers : TRUE) \in Transfers
  BY TransfersAssumption
<1>2. TypeOK
  <2>1. asked \in [Tasks -> Transfers]
    BY <1>1 DEF Init
  <2>2. << >> \in Seq(Nat) /\ << >> \in Seq(Command)
    OBVIOUS
  <2>3. begun \in 0 .. MaxTransfers /\ ticks \in 0 .. MaxTicks
        /\ troubles \in 0 .. MaxTroubles
    BY BoundsAssumption DEF Init
  <2>4. {restart, irq, stopDet, aborted, hung, met} \subseteq BOOLEAN
    BY Zenon DEF Init
  <2>5. /\ at \in [Tasks -> {"out", "asks", "begun", "waits", "woken"}]
        /\ notified \in [Tasks -> Nat]
        /\ {wctr, rctr, rcnt, count, got} \subseteq Nat
    BY DEF Init
  <2> QED
    BY <2>1, <2>2, <2>3, <2>4, <2>5 DEF Init, TypeOK
<1>3. Owner /\ Told
  BY TasksAssumption DEF Init, Owner, Told, Busy
<1>4. Bytes
  BY DepthAssumption DEF Init, Bytes
<1>5. Given /\ Wire /\ Ends /\ Undisturbed /\ Counted
  BY DEF Init, Given, Wire, Ends, Undisturbed, Counted, Busy
<1> QED
  BY <1>2, <1>3, <1>4, <1>5 DEF IInv

(* A task that asks for the bus does not have it. *)
LEMMA AskKeeps == ASSUME IInv, NEW t \in Tasks, Ask(t) PROVE IInv'
<1>1. TypeOK'
  <2>1. begun' \in 0 .. MaxTransfers
    BY BoundsAssumption DEF IInv, TypeOK, Ask
  <2>2. asked' \in [Tasks -> Transfers]
    BY DEF IInv, TypeOK, Ask
  <2> QED
    BY <2>1, <2>2 DEF IInv, TypeOK, Ask, driver, chip
<1> USE TasksAssumption
    DEF IInv, TypeOK, Owner, Busy, W, R, driver, chip, bounds, Ask
<1>2. Owner' /\ Bytes'
  BY DEF Bytes
<1>3. Busy => W' = W /\ R' = R
  OBVIOUS
<1>4. Given' /\ Wire'
  BY <1>3 DEF Given, Wire, Executed
<1>5. Ends' /\ Told'
  BY DEF Ends, Told, Clean
<1>6. Undisturbed' /\ Counted'
  BY <1>3 DEF Undisturbed, Counted
<1> QED
  BY <1>1, <1>2, <1>4, <1>5, <1>6

(* A new transaction starts with a filling of its own and, unless a tick   *)
(* has met one, with no stop left over.                                    *)
LEMMA BeginKeeps == ASSUME IInv, NEW t \in Tasks, Begin(t) PROVE IInv'
<1> DEFINE w == asked[t][1]
           r == asked[t][2]
           f == Fill(w, r, FALSE, Depth)
<1>1. /\ holder = Nobody /\ holder' = t /\ t # Nobody /\ at[t] = "asks"
      /\ at' = [at EXCEPT ![t] = "begun"] /\ at'[t] = "begun"
      /\ W' = w /\ R' = r /\ w \in Nat /\ r \in Nat /\ w + r > 0
  BY TasksAssumption, Sizes DEF IInv, TypeOK, Begin, W, R
<1>2. /\ tx' = f.commands /\ issued' = f.commands
      /\ wctr' = f.w /\ rctr' = f.r /\ restart' = f.restart
      /\ rcnt' = r /\ stored' = << >> /\ rx' = << >> /\ got' = 0
      /\ mask' = AllSources /\ aborted' = FALSE /\ hung' = FALSE
      /\ stopDet' \in {stopDet, FALSE}
      /\ met' = (met \/ notified[t] > 0)
      /\ UNCHANGED <<notified, asked, count, irq, begun, ticks, troubles>>
  BY DEF Begin, bounds
<1> HIDE DEF w, r
<1>3. Continues(f, w, r, w, r, Depth)
  <2> DEFINE again == FALSE
  <2>1. again \in BOOLEAN /\ (again <=> (w > 0 /\ r > 0 /\ w = 0 /\ r = r))
    BY <1>1
  <2>2. f = Fill(w, r, again, Depth)
    OBVIOUS
  <2> HIDE DEF f, again
  <2> QED
    BY <1>1, <2>1, <2>2, Filling, DepthAssumption
<1> HIDE DEF f
<1>4. \A i \in 1 .. Len(f.commands) : f.commands[i] = Form(i, w, r)
  <2>1. \A i \in 1 .. Len(f.commands) : w - w + (r - r) + i = i
    BY <1>1, <1>3 DEF Continues
  <2> QED
    BY <2>1, <1>3 DEF Continues
<1>5. /\ f.commands # << >>
      /\ Len(issued') = (w - wctr') + (r - rctr')
      /\ Len(tx') <= Depth /\ Len(issued') = Len(tx')
  <2>1. f.commands # << >>
    BY <1>3 DEF Continues
  <2>2. Len(f.commands) = (w - f.w) + (r - f.r)
    <3> DEFINE n == Len(f.commands)
    <3>1. n \in Nat /\ f.w \in Nat /\ f.r \in Nat /\ f.w + f.r + n = w + r
      BY <1>3 DEF Continues
    <3> HIDE DEF n
    <3>2. n = (w - f.w) + (r - f.r)
      BY <1>1, <3>1
    <3> QED
      BY <3>2 DEF n
  <2> QED
    BY <1>2, <1>3, <2>1, <2>2 DEF Continues
<1>6. TypeOK'
  <2>1. /\ {wctr, rctr, rcnt, count, got}' \subseteq Nat
        /\ {restart, irq, stopDet, aborted, hung, met}' \subseteq BOOLEAN
    <3>1. f.w \in Nat /\ f.r \in Nat /\ count' \in Nat
      BY <1>1, <1>2, <1>3 DEF IInv, TypeOK, Continues
    <3>2. irq' \in BOOLEAN /\ stopDet' \in BOOLEAN /\ met' \in BOOLEAN
      BY <1>2 DEF IInv, TypeOK
    <3>3. {restart, irq, stopDet, aborted, hung, met}' \subseteq BOOLEAN
      BY <1>2, <1>3, <3>2, Zenon DEF Continues
    <3> QED
      BY <1>1, <1>2, <3>1, <3>3
  <2>2. /\ at' \in [Tasks -> {"out", "asks", "begun", "waits", "woken"}]
        /\ holder' \in Tasks \cup {Nobody} /\ mask' \subseteq AllSources
    BY <1>1, <1>2 DEF IInv, TypeOK
  <2>3. stored' \in Seq(Nat) /\ rx' \in Seq(Nat)
    BY <1>2
  <2> QED
    BY <1>2, <1>3, <2>1, <2>2, <2>3 DEF IInv, TypeOK, Continues
<1>7. Owner'
  BY <1>1, <1>2, TasksAssumption DEF IInv, TypeOK, Owner, Busy
<1>8. Bytes'
  BY <1>2, <1>3, <1>5, DepthAssumption DEF Bytes, Continues
<1>9. Given'
  BY <1>1, <1>2, <1>3, <1>5, <1>4 DEF Given, Continues
<1>10. Wire'
  BY <1>1, <1>2, <1>3, <1>5, <1>4 DEF Wire, Executed, Continues
<1>11. Ends'
  <2>1. tx' # << >> /\ mask' = AllSources /\ aborted' = FALSE
        /\ at'[holder'] = "begun"
    BY <1>1, <1>2, <1>5
  <2> QED
    BY <2>1 DEF Ends, AllSources
<1>12. Told'
  BY <1>1, <1>2, TasksAssumption DEF IInv, TypeOK, Told
<1>13. Undisturbed'
  BY <1>1, <1>2 DEF IInv, TypeOK, Undisturbed, Busy, AllSources
<1>14. Counted'
  BY <1>1 DEF IInv, TypeOK, Counted
<1> QED
  BY <1>6, <1>7, <1>8, <1>9, <1>10, <1>11, <1>12, <1>13, <1>14 DEF IInv

(* A task that only moves on leaves the transaction as it is. *)
LEMMA EnableKeeps == ASSUME IInv, NEW t \in Tasks, Enable(t) PROVE IInv'
<1> USE TasksAssumption
    DEF IInv, TypeOK, Owner, Busy, W, R, driver, chip, bounds, Enable
<1>1. TypeOK' /\ Owner' /\ Bytes'
  BY DEF Bytes
<1>2. Given' /\ Wire'
  BY DEF Given, Wire, Executed
<1>3. Ends' /\ Told'
  BY DEF Ends, Told, Clean
<1>4. Undisturbed' /\ Counted'
  BY DEF Undisturbed, Counted
<1> QED
  BY <1>1, <1>2, <1>3, <1>4

(* The task that is woken by the stop finds that all is done. *)
LEMMA WakeKeeps == ASSUME IInv, NEW t \in Tasks, Wake(t) PROVE IInv'
<1>1. /\ holder = t /\ holder' = t /\ t # Nobody
      /\ at[t] = "waits" /\ notified[t] > 0
      /\ at' = [at EXCEPT ![t] = "woken"]
      /\ notified' = [notified EXCEPT ![t] = 0]
      /\ W \in Nat /\ R \in Nat /\ W + R > 0 /\ W' = W /\ R' = R
      /\ count' = W + R - (rcnt + wctr)
  BY TasksAssumption, Sizes DEF IInv, TypeOK, Wake, W, R, Owner
<1>2. /\ rcnt \in Nat /\ wctr \in Nat /\ Len(stored) \in Nat
      /\ wctr <= W /\ rcnt = R - Len(stored)
  BY <1>1 DEF IInv, TypeOK, Given, Busy
<1>3. count' \in Nat /\ (count' = W + R <=> rcnt = 0 /\ wctr = 0)
  BY <1>1, <1>2
<1> USE TasksAssumption DEF IInv, TypeOK, Owner, Busy, driver, chip, bounds
<1>4. UNCHANGED <<asked, driver, irq, mask, chip, issued, met, bounds>>
  BY DEF Wake
<1>5. TypeOK' /\ Owner' /\ Bytes'
  BY <1>1, <1>4, <1>3 DEF Bytes
<1>6. Given' /\ Wire'
  BY <1>1, <1>4 DEF Given, Wire, Executed
<1>7. Clean => mask = {}
  BY <1>1 DEF Told, Clean
<1>8. Ends'
  BY <1>1, <1>4, <1>7 DEF Ends, Clean
<1>9. Told'
  BY <1>1, <1>4 DEF Told
<1>10. Undisturbed'
  <2>1. ~met /\ ~aborted => mask = {} /\ count' = W + R
    BY <1>1, <1>7, <1>3 DEF Undisturbed, Clean
  <2> QED
    BY <1>1, <1>4, <2>1 DEF Undisturbed
<1>11. Counted'
  BY <1>1, <1>4, <1>3 DEF Counted
<1> QED
  BY <1>5, <1>6, <1>8, <1>10, <1>11, <1>9

(* A task times out only on a bus that hangs: the end of a transaction     *)
(* that moves is told.                                                     *)
LEMMA TimesOutKeeps == ASSUME IInv, NEW t \in Tasks, TimesOut(t) PROVE IInv'
<1>1. /\ holder = t /\ holder' = t /\ t # Nobody
      /\ at[t] = "waits" /\ ~(notified[t] > 0)
      /\ at' = [at EXCEPT ![t] = "woken"]
      /\ W + R > 0 /\ W' = W /\ R' = R /\ count' = 0
  BY TasksAssumption, Sizes DEF IInv, TypeOK, TimesOut, W, R, Owner
<1> USE TasksAssumption DEF IInv, TypeOK, Owner, Busy, driver, chip, bounds
<1>2. UNCHANGED <<notified, asked, driver, irq, mask, chip, issued, met, bounds>>
  BY DEF TimesOut
<1>3. TypeOK' /\ Owner' /\ Bytes'
  BY <1>1, <1>2 DEF Bytes
<1>4. Given' /\ Wire'
  BY <1>1, <1>2 DEF Given, Wire, Executed
<1>5. mask # {} /\ hung /\ ~stopDet
  BY <1>1 DEF Ends, TimesOut, Pending, AllSources
<1>6. Ends' /\ Told'
  BY <1>1, <1>2, <1>5 DEF Ends, Told, Clean
<1>7. Undisturbed' /\ Counted'
  BY <1>1, <1>2, <1>5 DEF Undisturbed, Counted
<1> QED
  BY <1>3, <1>4, <1>6, <1>7

(* What a task leaves behind when it returns is silent. *)
LEMMA ReturnKeeps == ASSUME IInv, NEW t \in Tasks, Return(t) PROVE IInv'
<1> USE TasksAssumption
    DEF IInv, TypeOK, Owner, Busy, driver, chip, bounds, Return
<1>1. TypeOK' /\ Owner' /\ Bytes'
  BY DEF Bytes
<1>2. Given' /\ Wire' /\ Ends' /\ Counted'
  BY DEF Given, Wire, Ends, Counted
<1>3. Told'
  BY DEF Told, Ends
<1>4. Undisturbed'
  BY DEF Undisturbed, Ends, Clean
<1> QED
  BY <1>1, <1>2, <1>3, <1>4

(* The ticks reach only those who get them. *)
LEMMA TakeTickKeeps == ASSUME IInv, NEW t \in Tasks, TakeTick(t) PROVE IInv'
<1> USE TasksAssumption
    DEF IInv, TypeOK, Owner, Busy, W, R, driver, chip, bounds, TakeTick
<1>1. TypeOK' /\ Owner' /\ Bytes'
  BY DEF Bytes
<1>2. Given' /\ Wire'
  BY DEF Given, Wire, Executed
<1>3. Ends' /\ Told'
  BY DEF Ends, Told, Clean
<1>4. Undisturbed' /\ Counted'
  BY DEF Undisturbed, Counted
<1> QED
  BY <1>1, <1>2, <1>3, <1>4

(* A tick that meets a transaction is remembered in met. *)
LEMMA TickKeeps == ASSUME IInv, NEW t \in Tasks, Tick(t) PROVE IInv'
<1>1. /\ notified' = [notified EXCEPT ![t] = notified[t] + 1]
      /\ ticks' = ticks + 1 /\ ticks < MaxTicks
      /\ met' = (met \/ at[t] # "out") /\ t \in Ticked
      /\ UNCHANGED <<at, holder, asked, wctr, rctr, rcnt, restart, stored,
                     count, irq, mask, tx, rx, stopDet, aborted, hung, got,
                     issued, begun, troubles>>
  BY DEF Tick, driver, chip
<1>2. notified \in [Tasks -> Nat] /\ notified' \in [Tasks -> Nat]
  BY <1>1 DEF IInv, TypeOK
<1>3. ticks' \in 0 .. MaxTicks
  BY <1>1, BoundsAssumption DEF IInv, TypeOK
<1>4. TypeOK'
  <2>1. {restart, irq, stopDet, aborted, hung, met}' \subseteq BOOLEAN
    BY <1>1, Zenon DEF IInv, TypeOK
  <2> QED
    BY <1>1, <1>2, <1>3, <2>1 DEF IInv, TypeOK
<1>5. Owner' /\ Bytes' /\ Given' /\ Wire' /\ Counted'
  BY <1>1 DEF IInv, Owner, Bytes, Given, Wire, Executed, Counted, Busy, W, R
<1>6. Ends'
  <2>1. Busy => holder \in Tasks
    BY DEF IInv, TypeOK, Busy
  <2>2. Busy /\ notified[holder] > 0 => notified'[holder] > 0
    BY <1>1, <1>2, <2>1
  <2>3. Busy' <=> Busy
    BY <1>1 DEF Busy
  <2>4. Clean' => Clean
    BY <1>1 DEF Clean
  <2> QED
    BY <1>1, <2>2, <2>3, <2>4 DEF IInv, Ends
<1>7. Told'
  BY <1>1, <1>2, TasksAssumption DEF IInv, TypeOK, Owner, Told
<1>8. Undisturbed'
  BY <1>1 DEF IInv, Undisturbed, Busy, W, R
<1> QED
  BY <1>4, <1>5, <1>6, <1>7, <1>8 DEF IInv

(* The handler takes all the bytes that have come: none is more than the   *)
(* task wants.  It has a stop to tell exactly when one was seen.           *)
LEMMA Drains ==
    ASSUME IInv, isr
    PROVE  /\ holder \in Tasks /\ Busy /\ at[holder] \in {"waits", "woken"}
           /\ W \in Nat /\ R \in Nat /\ W' = W /\ R' = R
           /\ "stop" \in mask
           /\ rx' = << >> /\ stored' \in Seq(Nat)
           /\ Len(stored) \in Nat /\ Len(rx) \in Nat
           /\ Len(stored') = Len(stored) + Len(rx) /\ Len(stored') <= R
           /\ \A i \in 1 .. Len(stored') : stored'[i] = i
           /\ rcnt' = R - Len(stored') /\ rcnt' \in Nat
           /\ stopDet' = FALSE
           /\ notified' = IF stopDet THEN [notified EXCEPT ![holder] = 1]
                          ELSE notified
<1>1. /\ holder \in Tasks /\ Busy /\ at[holder] \in {"waits", "woken"}
      /\ W' = W /\ R' = R
  BY TasksAssumption DEF IInv, TypeOK, isr, Owner, Busy, W, R
<1>2. W \in Nat /\ R \in Nat
  BY <1>1, Sizes DEF IInv, W, R
<1>3. "stop" \in mask
  BY <1>1 DEF IInv, Ends, isr, Pending, AllSources
<1>4. /\ Len(stored) \in Nat /\ Len(rx) \in Nat
      /\ stored \in Seq(Nat) /\ rx \in Seq(Nat)
      /\ rcnt = R - Len(stored) /\ Len(stored) + Len(rx) <= R
  BY <1>1 DEF IInv, TypeOK, Given, Wire
<1>5. Drained = Len(rx)
  BY <1>2, <1>4 DEF Drained, Least
<1>6. SubSeq(rx, 1, Drained) = rx /\ SubSeq(rx, Drained + 1, Len(rx)) = << >>
  BY <1>4, <1>5
<1>7. rx' = << >> /\ stored' = stored \o rx /\ rcnt' = rcnt - Len(rx)
  BY <1>5, <1>6 DEF isr
<1>8. /\ stored' \in Seq(Nat) /\ Len(stored') = Len(stored) + Len(rx)
      /\ \A i \in 1 .. Len(stored) + Len(rx) :
            stored'[i] = IF i <= Len(stored) THEN stored[i]
                         ELSE rx[i - Len(stored)]
  BY <1>4, <1>7, ConcatProperties
<1>9. ASSUME NEW i \in 1 .. Len(stored') PROVE stored'[i] = i
  <2>1. CASE i <= Len(stored)
    <3>1. i \in 1 .. Len(stored) /\ stored'[i] = stored[i]
      BY <1>4, <1>8, <2>1
    <3> QED
      BY <3>1 DEF IInv, Bytes
  <2>2. CASE i > Len(stored)
    <3>1. i - Len(stored) \in 1 .. Len(rx)
      BY <1>4, <1>8, <2>2
    <3>2. rx[i - Len(stored)] = Len(stored) + (i - Len(stored))
      BY <3>1 DEF IInv, Bytes
    <3> QED
      BY <1>4, <1>8, <2>2, <3>2
  <2> QED
    BY <1>4, <1>8, <2>1, <2>2
<1>10. rcnt' = R - Len(stored') /\ rcnt' \in Nat
  BY <1>2, <1>4, <1>7, <1>8
<1>11. /\ stopDet' = FALSE
       /\ notified' = IF stopDet THEN [notified EXCEPT ![holder] = 1]
                      ELSE notified
  BY <1>3 DEF isr, IInv, TypeOK
<1> QED
  BY <1>1, <1>2, <1>3, <1>4, <1>7, <1>8, <1>9, <1>10, <1>11

(* It gives more commands when there are none in the FIFO. *)
LEMMA FillsUp ==
    ASSUME IInv, isr, "txEmpty" \in mask, tx = << >>, wctr + rctr > 0
    PROVE  \E f : /\ Continues(f, wctr, rctr, W, R, Depth)
                  /\ tx' = IF aborted THEN tx ELSE f.commands
                  /\ issued' = issued \o f.commands
                  /\ wctr' = f.w /\ rctr' = f.r /\ restart' = f.restart
                  /\ mask' = IF stopDet THEN {}
                             ELSE IF f.w + f.r = 0 THEN {"stop", "rxFull"}
                             ELSE mask
<1> DEFINE f == Fill(wctr, rctr, restart, Depth)
<1>1. /\ wctr \in Nat /\ rctr \in Nat /\ restart \in BOOLEAN
      /\ W \in Nat /\ R \in Nat /\ wctr <= W /\ rctr <= R
      /\ wctr > 0 => rctr = R
      /\ restart <=> (W > 0 /\ R > 0 /\ wctr = 0 /\ rctr = R)
  BY Drains DEF IInv, TypeOK, Given
<1>2. Continues(f, wctr, rctr, W, R, Depth)
  BY <1>1, Filling, DepthAssumption
<1>3. << >> \o f.commands = f.commands
  BY <1>2 DEF Continues
<1>4. f.w + f.r = 0 \/ f.w + f.r # 0
  OBVIOUS
<1>5. /\ tx' = IF aborted THEN tx ELSE f.commands
      /\ issued' = issued \o f.commands
      /\ wctr' = f.w /\ rctr' = f.r /\ restart' = f.restart
      /\ mask' = IF stopDet THEN {}
                 ELSE IF f.w + f.r = 0 THEN {"stop", "rxFull"} ELSE mask
  BY <1>3, Drains DEF isr, MaskAfter
<1> QED
  BY <1>2, <1>5

(* Otherwise it gives none. *)
LEMMA LetsRun ==
    ASSUME IInv, isr, ~("txEmpty" \in mask /\ tx = << >> /\ wctr + rctr > 0)
    PROVE  /\ UNCHANGED <<tx, issued, wctr, rctr, restart>>
           /\ mask' = IF stopDet THEN {} ELSE mask
<1>1. tx \o << >> = tx /\ issued \o << >> = issued
  BY DEF IInv, TypeOK
<1>2. UNCHANGED <<tx, issued, wctr, rctr, restart>>
  BY <1>1 DEF isr
<1>3. "txEmpty" \in mask /\ tx = << >> => stopDet
  <2>1. wctr \in Nat /\ rctr \in Nat
    BY DEF IInv, TypeOK
  <2>2. mask # {} /\ Busy
    BY Drains
  <2>3. CASE wctr + rctr = 0
    BY <2>2, <2>3 DEF IInv, Ends
  <2> QED
    BY <2>1, <2>3
<1>4. mask' = IF stopDet THEN {} ELSE mask
  BY <1>3, Drains DEF isr, MaskAfter
<1> QED
  BY <1>2, <1>4

(* Either way the transaction goes on as it should, or has come to its end *)
(* and is told.                                                            *)
LEMMA isrKeeps == ASSUME IInv, isr PROVE IInv'
<1> DEFINE fills == "txEmpty" \in mask /\ tx = << >> /\ wctr + rctr > 0
<1>1. /\ holder \in Tasks /\ Busy /\ at[holder] \in {"waits", "woken"}
      /\ W \in Nat /\ R \in Nat /\ W' = W /\ R' = R
      /\ "stop" \in mask /\ mask # {}
      /\ rx' = << >> /\ stored' \in Seq(Nat)
      /\ Len(stored) \in Nat /\ Len(rx) \in Nat
      /\ Len(stored') = Len(stored) + Len(rx) /\ Len(stored') <= R
      /\ \A i \in 1 .. Len(stored') : stored'[i] = i
      /\ rcnt' = R - Len(stored') /\ rcnt' \in Nat
      /\ stopDet' = FALSE
      /\ notified' = IF stopDet THEN [notified EXCEPT ![holder] = 1]
                     ELSE notified
  BY Drains
<1>2. UNCHANGED <<at, holder, asked, count, irq, aborted, hung, got, met,
                  begun, ticks, troubles>>
  BY DEF isr, bounds
<1>3. Executed' = Executed
  BY <1>1, <1>2 DEF Executed, IInv, TypeOK
<1>4. /\ wctr \in Nat /\ rctr \in Nat /\ got \in Nat /\ Depth \in Nat
      /\ tx \in Seq(Command) /\ issued \in Seq(Command)
      /\ mask \subseteq AllSources /\ restart \in BOOLEAN
      /\ stopDet \in BOOLEAN /\ aborted \in BOOLEAN /\ met \in BOOLEAN
  BY DepthAssumption DEF IInv, TypeOK
<1>5. /\ mask' \subseteq AllSources
      /\ mask' = {} <=> stopDet
      /\ wctr' \in Nat /\ wctr' <= wctr /\ rctr' \in Nat /\ restart' \in BOOLEAN
      /\ tx' \in Seq(Command) /\ Len(tx') <= Depth
      /\ issued' \in Seq(Command)
  <2>1. CASE fills
    <3>1. PICK f : /\ Continues(f, wctr, rctr, W, R, Depth)
                   /\ tx' = IF aborted THEN tx ELSE f.commands
                   /\ issued' = issued \o f.commands
                   /\ wctr' = f.w /\ rctr' = f.r /\ restart' = f.restart
                   /\ mask' = IF stopDet THEN {}
                              ELSE IF f.w + f.r = 0 THEN {"stop", "rxFull"}
                              ELSE mask
      BY <2>1, FillsUp
    <3>2. mask' \subseteq AllSources /\ (mask' = {} <=> stopDet)
      BY <1>1, <1>4, <3>1 DEF AllSources
    <3>3. f.commands \in Seq(Command) /\ Len(f.commands) <= Depth
      BY <3>1 DEF Continues
    <3>4. /\ tx' \in Seq(Command) /\ Len(tx') <= Depth
          /\ issued' \in Seq(Command)
      BY <1>4, <2>1, <3>1, <3>3
    <3>5. /\ wctr' \in Nat /\ wctr' <= wctr /\ rctr' \in Nat
          /\ restart' \in BOOLEAN
      BY <3>1 DEF Continues
    <3> QED
      BY <3>2, <3>4, <3>5
  <2>2. CASE ~fills
    <3>1. Len(tx) \in Nat /\ Len(tx) <= Depth
      BY <1>1, <1>4 DEF IInv, Bytes
    <3> QED
      BY <1>1, <1>4, <2>2, <3>1, LetsRun
  <2> QED
    BY <2>1, <2>2
<1>6. TypeOK' /\ Owner' /\ Bytes'
  <2>1. {wctr, rctr, rcnt, count, got}' \subseteq Nat
    BY <1>1, <1>2, <1>5 DEF IInv, TypeOK
  <2>2. {restart, irq, stopDet, aborted, hung, met}' \subseteq BOOLEAN
    BY <1>1, <1>2, <1>5, Zenon DEF IInv, TypeOK
  <2>3. notified' \in [Tasks -> Nat]
    BY <1>1 DEF IInv, TypeOK
  <2>4. rx' \in Seq(Nat)
    BY <1>1
  <2>5. TypeOK'
    BY <1>1, <1>2, <1>5, <2>1, <2>2, <2>3, <2>4 DEF IInv, TypeOK
  <2>6. Owner'
    BY <1>1, <1>2 DEF IInv, Owner, Busy
  <2>7. Bytes'
    BY <1>1, <1>5 DEF Bytes
  <2> QED
    BY <2>5, <2>6, <2>7
<1>7. Told'
  BY <1>1, <1>2, <1>5 DEF IInv, TypeOK, Told, Ends, Clean, Busy
<1>8. Counted'
  BY <1>1, <1>2, <1>4, <1>5 DEF IInv, Counted, Given, Busy
<1>9. Given' /\ Wire'
  <2>1. CASE fills
    <3>1. PICK f : /\ Continues(f, wctr, rctr, W, R, Depth)
                   /\ tx' = IF aborted THEN tx ELSE f.commands
                   /\ issued' = issued \o f.commands
                   /\ wctr' = f.w /\ rctr' = f.r /\ restart' = f.restart
      BY <2>1, FillsUp
    <3> DEFINE n == Len(f.commands)
               m == Len(issued)
    <3>2. /\ n \in Nat /\ m \in Nat /\ f.commands \in Seq(Command)
          /\ f.w \in Nat /\ f.r \in Nat /\ f.w <= wctr /\ f.r <= rctr
          /\ f.w + f.r + n = wctr + rctr
      BY <1>4, <3>1 DEF Continues
    <3>3. wctr <= W /\ rctr <= R /\ m = (W - wctr) + (R - rctr)
      BY <1>1 DEF IInv, Given
    <3>4. /\ Len(issued') = m + n
          /\ \A i \in 1 .. m + n : issued'[i] =
               IF i <= m THEN issued[i] ELSE f.commands[i - m]
      BY <1>4, <3>1, <3>2, ConcatProperties
    <3>5. \A i \in 1 .. m : issued[i] = Form(i, W, R)
      BY <1>1 DEF IInv, Given
    <3>6. \A i \in 1 .. n : f.commands[i] = Form(m + i, W, R)
      BY <3>1, <3>3 DEF Continues
    <3> HIDE DEF n, m
    <3>7. ASSUME NEW i \in 1 .. m + n PROVE issued'[i] = Form(i, W, R)
      <4>1. CASE i <= m
        BY <3>2, <3>4, <3>5, <4>1
      <4>2. CASE i > m
        <5>1. i - m \in 1 .. n /\ m + (i - m) = i
          BY <3>2, <4>2
        <5>2. f.commands[i - m] = Form(i, W, R)
          BY <3>6, <5>1
        <5> QED
          BY <3>2, <3>4, <4>2, <5>2
      <4> QED
        BY <3>2, <4>1, <4>2
    <3> DEFINE w1 == f.w
               r1 == f.r
    <3>8. /\ W \in Nat /\ R \in Nat /\ wctr \in Nat /\ rctr \in Nat
          /\ w1 \in Nat /\ r1 \in Nat /\ n \in Nat /\ m \in Nat
          /\ w1 <= wctr /\ r1 <= rctr /\ wctr <= W /\ rctr <= R
          /\ w1 + r1 + n = wctr + rctr
          /\ m = (W - wctr) + (R - rctr)
      BY <1>1, <1>4, <3>2, <3>3
    <3>9. m + n = (W - f.w) + (R - f.r) /\ f.w <= W /\ f.r <= R
      <4> HIDE DEF w1, r1
      <4>1. m + n = (W - w1) + (R - r1) /\ w1 <= W /\ r1 <= R
        BY <3>8
      <4> QED
        BY <4>1 DEF w1, r1
    <3>10. f.w <= W /\ f.r <= R /\ Len(f.commands) = n /\ Len(issued) = m
      BY <3>9 DEF n, m
    <3>11. /\ f.w > 0 => f.r = R
           /\ f.restart <=> (W > 0 /\ R > 0 /\ f.w = 0 /\ f.r = R)
      BY <3>1 DEF Continues
    <3>12. Given'
      <4>1. wctr' = f.w /\ rctr' = f.r /\ restart' = f.restart
        BY <3>1
      <4>2. wctr' <= W /\ rctr' <= R /\ (wctr' > 0 => rctr' = R)
        BY <4>1, <3>10, <3>11
      <4>3. restart' <=> (W > 0 /\ R > 0 /\ wctr' = 0 /\ rctr' = R)
        BY <4>1, <3>11
      <4>4. Len(issued') = (W - wctr') + (R - rctr')
        BY <3>1, <3>4, <3>9
      <4>5. \A i \in 1 .. Len(issued') : issued'[i] = Form(i, W, R)
        BY <3>4, <3>7
      <4> QED
        BY <1>1, <4>2, <4>4, <4>5, <4>3 DEF Given
    <3>13. Wire'
      <4>1. Len(issued) = Executed \/ aborted
        BY <1>1, <2>1, <1>4 DEF IInv, Wire, Executed
      <4>2. /\ got <= W /\ (Len(stored) + Len(rx) > 0 => got = W)
            /\ aborted => tx = << >>
        BY <1>1 DEF IInv, Wire
      <4>3. /\ got' <= W' /\ Len(stored') + Len(rx') <= R'
            /\ Len(stored') + Len(rx') > 0 => got' = W'
            /\ aborted' => tx' = << >>
        BY <1>1, <1>2, <3>1, <4>2
      <4>4. ASSUME ~aborted'
            PROVE  /\ Len(issued') = Executed' + Len(tx')
                   /\ \A i \in 1 .. Len(tx') : tx'[i] = Form(Executed' + i, W', R')
        BY <1>1, <1>2, <1>3, <3>1, <3>2, <3>4, <3>6, <3>10, <4>1, <4>4
      <4> QED
        BY <4>3, <4>4 DEF Wire
    <3> QED
      BY <3>12, <3>13
  <2>2. CASE ~fills
    <3>1. UNCHANGED <<tx, issued, wctr, rctr, restart>>
      BY <2>2, LetsRun
    <3>2. Given'
      BY <1>1, <3>1 DEF IInv, Given
    <3>3. Wire'
      BY <1>1, <1>2, <1>3, <3>1 DEF IInv, Wire
    <3> QED
      BY <3>2, <3>3
  <2> QED
    BY <2>1, <2>2
<1>10. Ends'
  <2>1. CASE stopDet
    <3>1. mask' = {} /\ holder' = holder /\ at' = at
      BY <1>2, <1>5, <2>1
    <3>2. notified'[holder] = 1
      BY <1>1, <2>1 DEF IInv, TypeOK
    <3> QED
      BY <1>1, <3>1, <3>2 DEF Ends
  <2>2. CASE ~stopDet /\ fills
    <3>1. PICK f : /\ Continues(f, wctr, rctr, W, R, Depth)
                   /\ tx' = IF aborted THEN tx ELSE f.commands
                   /\ wctr' = f.w /\ rctr' = f.r
                   /\ mask' = IF f.w + f.r = 0 THEN {"stop", "rxFull"} ELSE mask
      BY <2>2, FillsUp
    <3>2. ~aborted /\ tx' # << >>
      BY <1>1, <2>2, <3>1 DEF IInv, Ends, Continues
    <3> QED
      BY <1>1, <1>2, <2>2, <3>1, <3>2 DEF IInv, Ends, Busy, Clean
  <2>3. CASE ~stopDet /\ ~fills
    <3>1. UNCHANGED <<tx, wctr, rctr, mask>> /\ notified' = notified
      BY <1>1, <2>3, LetsRun
    <3> QED
      BY <1>1, <1>2, <2>3, <3>1 DEF IInv, Ends, Busy, Clean
  <2> QED
    BY <2>1, <2>2, <2>3
<1>11. Undisturbed'
  <2>1. CASE stopDet /\ ~met
    <3>1. /\ aborted \/ (wctr + rctr = 0 /\ tx = << >>)
          /\ aborted => tx = << >>
      BY <1>1, <2>1 DEF IInv, Undisturbed, Wire
    <3>2. tx' = << >> /\ (aborted \/ (wctr' = wctr /\ rctr' = rctr))
      <4>1. CASE fills
        <5>1. aborted /\ tx = << >>
          BY <1>4, <3>1, <4>1
        <5> QED
          BY <4>1, <5>1, FillsUp
      <4>2. CASE ~fills
        BY <3>1, <4>2, LetsRun
      <4> QED
        BY <4>1, <4>2
    <3>3. mask' = {} /\ tx' = << >> /\ Busy'
      BY <1>1, <1>2, <1>5, <2>1, <3>1, <3>2 DEF Busy
    <3>4. ASSUME ~aborted PROVE wctr' = 0 /\ rcnt' = 0 /\ wctr' + rctr' = 0
      <4>1. /\ Len(issued) = W + R /\ Len(issued) = got + Len(stored) + Len(rx)
            /\ got <= W /\ Len(stored) + Len(rx) <= R
        BY <1>1, <1>4, <3>1, <3>4 DEF IInv, Given, Wire, Executed
      <4>2. rcnt' = 0
        BY <1>1, <1>4, <4>1
      <4>3. wctr = 0 /\ rctr = 0
        BY <1>4, <3>1, <3>4
      <4> QED
        BY <3>2, <3>4, <4>2, <4>3
    <3>5. at[holder] = "woken" => aborted \/ hung
      BY <1>1, <2>1 DEF IInv, Undisturbed
    <3> QED
      BY <1>1, <1>2, <3>3, <3>4, <3>5 DEF Undisturbed
  <2>2. CASE ~stopDet
    BY <1>1, <1>2, <1>5, <2>2 DEF IInv, Undisturbed, Busy
  <2> QED
    BY <1>2, <2>1, <2>2 DEF Undisturbed
<1> QED
  BY <1>6, <1>7, <1>8, <1>9, <1>10, <1>11 DEF IInv

-----------------------------------------------------------------------------
(* The controller and the chip.                                            *)

(* The command that is carried out is the next one of the transaction. *)
LEMMA NextCommand ==
    ASSUME IInv, Moves, Busy
    PROVE  /\ W \in Nat /\ R \in Nat /\ Executed \in Nat
           /\ got \in Nat /\ Len(stored) \in Nat /\ Len(rx) \in Nat
           /\ ~aborted /\ Len(tx) \in Nat \ {0}
           /\ Head(tx) = Form(Executed + 1, W, R)
           /\ Executed + Len(tx) + (wctr + rctr) = W + R
           /\ got + Len(stored) + Len(rx) = Executed
           /\ Head(tx).op = "write" =>
                 got + 1 <= W /\ Len(stored) = 0 /\ Len(rx) = 0
           /\ Head(tx).op # "write" =>
                 got = W /\ Len(stored) + Len(rx) + 1 <= R
           /\ Head(tx).stop <=> Executed + 1 = W + R
<1>1. /\ holder \in Tasks /\ W \in Nat /\ R \in Nat
  BY Sizes DEF IInv, TypeOK, Busy, W, R
<1>2. /\ got \in Nat /\ Len(stored) \in Nat /\ Len(rx) \in Nat
      /\ wctr \in Nat /\ rctr \in Nat /\ Len(issued) \in Nat
      /\ tx \in Seq(Command) /\ tx # << >>
  BY DEF IInv, TypeOK, Moves
<1>3. Len(tx) \in Nat \ {0} /\ Head(tx) = tx[1]
  BY <1>2
<1>4. got + Len(stored) + Len(rx) = Executed /\ Executed \in Nat
  BY <1>2 DEF Executed
<1>5. /\ ~aborted /\ Len(issued) = Executed + Len(tx)
      /\ \A i \in 1 .. Len(tx) : tx[i] = Form(Executed + i, W, R)
      /\ got <= W /\ Len(stored) + Len(rx) <= R
      /\ Len(stored) + Len(rx) > 0 => got = W
  BY <1>2 DEF IInv, Wire
<1>6. Len(issued) = (W - wctr) + (R - rctr)
  BY DEF IInv, Given
<1>7. Head(tx) = Form(Executed + 1, W, R)
  BY <1>3, <1>5
<1>8. /\ Head(tx).op = "write" <=> Executed + 1 <= W
      /\ Head(tx).stop <=> Executed + 1 = W + R
  <2> DEFINE stop == Executed + 1 = W + R
             op == IF Executed + 1 <= W THEN "write" ELSE "read"
             again == W > 0 /\ R > 0 /\ Executed + 1 = W + 1
  <2>1. Head(tx) = [op |-> op, restart |-> again, stop |-> stop]
    BY <1>7 DEF Form
  <2>2. op = "write" <=> Executed + 1 <= W
    OBVIOUS
  <2> HIDE DEF op, again, stop
  <2>3. Head(tx).op = op /\ Head(tx).stop = stop
    BY <2>1
  <2> QED
    BY <2>2, <2>3 DEF stop
<1>9. Executed + Len(tx) + (wctr + rctr) = W + R
  BY <1>1, <1>2, <1>3, <1>4, <1>5, <1>6
<1>10. Executed + 1 <= W + R
  BY <1>1, <1>2, <1>3, <1>4, <1>9
<1>11. Executed + 1 <= W => got + 1 <= W /\ Len(stored) = 0 /\ Len(rx) = 0
  BY <1>1, <1>2, <1>4, <1>5
<1>12. ~(Executed + 1 <= W) => got = W /\ Len(stored) + Len(rx) + 1 <= R
  BY <1>1, <1>2, <1>4, <1>5, <1>10
<1> QED
  BY <1>1, <1>2, <1>3, <1>4, <1>5, <1>7, <1>8, <1>9, <1>11, <1>12

(* A command carried out moves the transaction on by one, and the last     *)
(* ends it with a stop.                                                    *)
LEMMA ExecuteKeeps == ASSUME IInv, Execute PROVE IInv'
<1>1. /\ tx \in Seq(Command) /\ tx # << >> /\ tx' = Tail(tx) /\ ~hung
      /\ stopDet' = (stopDet \/ Head(tx).stop)
      /\ UNCHANGED <<at, notified, holder, asked, wctr, rctr, rcnt, restart,
                     stored, count, irq, mask, aborted, hung, issued, met,
                     begun, ticks, troubles>>
      /\ Moves
  BY DEF IInv, TypeOK, Execute, Moves, driver, bounds
<1>2. /\ Head(tx) \in Command /\ tx' \in Seq(Command)
      /\ Len(tx) \in Nat \ {0} /\ Len(tx') = Len(tx) - 1
      /\ \A i \in 1 .. Len(tx') : tx'[i] = tx[i + 1]
  BY <1>1, HeadTailProperties
<1>3. /\ got \in Nat /\ rx \in Seq(Nat)
      /\ Len(stored) \in Nat /\ Len(rx) \in Nat
  BY DEF IInv, TypeOK
<1>4. \/ /\ Head(tx).op = "write" /\ got' = got + 1 /\ rx' = rx
      \/ /\ Head(tx).op # "write" /\ got' = got
         /\ rx' = Append(rx, Len(stored) + Len(rx) + 1)
  BY DEF Execute
<1>5. /\ got' \in Nat /\ rx' \in Seq(Nat)
      /\ Len(rx') = IF Head(tx).op = "write" THEN Len(rx) ELSE Len(rx) + 1
      /\ \A i \in 1 .. Len(rx') : rx'[i] = Len(stored) + i
  <2>1. \A i \in 1 .. Len(rx) : rx[i] = Len(stored) + i
    BY DEF IInv, Bytes
  <2>2. CASE Head(tx).op = "write"
    BY <1>3, <1>4, <2>1, <2>2
  <2>3. CASE Head(tx).op # "write"
    <3> DEFINE e == Len(stored) + Len(rx) + 1
    <3>1. e \in Nat /\ rx' = Append(rx, e)
      BY <1>3, <1>4, <2>3
    <3> HIDE DEF e
    <3>2. /\ rx' \in Seq(Nat) /\ Len(rx') = Len(rx) + 1
          /\ \A i \in 1 .. Len(rx) : rx'[i] = rx[i]
          /\ rx'[Len(rx) + 1] = e
      BY <1>3, <3>1, AppendProperties
    <3>3. ASSUME NEW i \in 1 .. Len(rx) + 1 PROVE rx'[i] = Len(stored) + i
      <4>1. CASE i = Len(rx) + 1
        BY <1>3, <3>2, <4>1 DEF e
      <4>2. CASE i # Len(rx) + 1
        <5>1. i \in 1 .. Len(rx)
          BY <1>3, <4>2
        <5> QED
          BY <2>1, <3>2, <5>1
      <4> QED
        BY <4>1, <4>2
    <3> QED
      BY <1>3, <1>4, <2>3, <3>2, <3>3
  <2> QED
    BY <2>2, <2>3
<1>6. TypeOK'
  <2>1. stopDet' \in BOOLEAN
    BY <1>1, <1>2 DEF Command, IInv, TypeOK
  <2>2. {wctr, rctr, rcnt, count, got}' \subseteq Nat
    BY <1>1, <1>5 DEF IInv, TypeOK
  <2>3. {restart, irq, stopDet, aborted, hung, met}' \subseteq BOOLEAN
    BY <1>1, <2>1, Zenon DEF IInv, TypeOK
  <2> QED
    BY <1>1, <1>2, <1>5, <2>2, <2>3 DEF IInv, TypeOK
<1>7. Owner' /\ Told' /\ Counted'
  BY <1>1 DEF IInv, Owner, Told, Counted, Busy, W, R
<1>8. Bytes'
  <2>1. Len(rx') + Len(tx') <= Len(rx) + Len(tx) /\ Len(rx) + Len(tx) <= Depth
    BY <1>2, <1>3, <1>5 DEF IInv, Bytes
  <2>2. Len(rx') \in Nat /\ Len(tx') \in Nat /\ Depth \in Nat
    BY <1>2, <1>3, <1>5, DepthAssumption
  <2>3. Len(rx') + Len(tx') <= Depth
    BY <1>2, <1>3, <2>1, <2>2
  <2> QED
    BY <1>1, <1>5, <2>3 DEF IInv, Bytes
<1>9. Given'
  BY <1>1 DEF IInv, Given, Busy, W, R
<1>10. CASE Busy
  <2>1. /\ W \in Nat /\ R \in Nat /\ Executed \in Nat
        /\ got \in Nat /\ Len(stored) \in Nat /\ Len(rx) \in Nat
        /\ ~aborted /\ Len(tx) \in Nat \ {0}
        /\ Head(tx) = Form(Executed + 1, W, R)
        /\ Executed + Len(tx) + (wctr + rctr) = W + R
        /\ got + Len(stored) + Len(rx) = Executed
        /\ Head(tx).op = "write" =>
              got + 1 <= W /\ Len(stored) = 0 /\ Len(rx) = 0
        /\ Head(tx).op # "write" =>
              got = W /\ Len(stored) + Len(rx) + 1 <= R
        /\ Head(tx).stop <=> Executed + 1 = W + R
    BY <1>1, <1>10, NextCommand
  <2>2. W' = W /\ R' = R /\ Busy' /\ wctr \in Nat /\ rctr \in Nat
    BY <1>1, <1>10 DEF W, R, Busy, IInv, TypeOK
  <2>3. Executed' = Executed + 1
    <3>1. Executed' = got' + Len(stored) + Len(rx')
      BY <1>1 DEF Executed
    <3> QED
      BY <1>4, <1>5, <2>1, <3>1
  <2>4. /\ got' <= W /\ Len(stored) + Len(rx') <= R
        /\ Len(stored) + Len(rx') > 0 => got' = W
    BY <1>3, <1>4, <1>5, <2>1
  <2>5. Len(issued) = Executed' + Len(tx')
    <3>1. Len(issued) = Executed + Len(tx)
      BY <1>10, <2>1 DEF IInv, Wire
    <3> QED
      BY <1>2, <2>1, <2>3, <3>1
  <2>6. ASSUME NEW i \in 1 .. Len(tx') PROVE tx'[i] = Form(Executed' + i, W, R)
    <3>1. i + 1 \in 1 .. Len(tx) /\ Executed + (i + 1) = Executed' + i
      BY <1>2, <2>1, <2>3
    <3>2. tx[i + 1] = Form(Executed + (i + 1), W, R)
      BY <1>10, <2>1, <3>1 DEF IInv, Wire
    <3> QED
      BY <1>2, <3>1, <3>2
  <2>7. Wire'
    BY <1>1, <2>1, <2>2, <2>4, <2>5, <2>6 DEF Wire
  <2>8. Head(tx).stop <=> wctr + rctr = 0 /\ tx' = << >>
    <3>1. tx' = << >> <=> Len(tx) = 1
      BY <1>2
    <3> QED
      BY <1>2, <2>1, <2>2, <3>1
  <2>9. Ends'
    BY <1>1, <1>10, <2>1, <2>2, <2>8 DEF IInv, Ends, Clean
  <2>10. Undisturbed'
    BY <1>1, <1>10, <2>1, <2>2, <2>8 DEF IInv, Undisturbed
  <2> QED
    BY <1>6, <1>7, <1>8, <1>9, <2>7, <2>9, <2>10 DEF IInv
<1>11. CASE ~Busy
  <2>1. ~Busy' /\ met
    BY <1>1, <1>11 DEF Busy, IInv, Undisturbed
  <2>2. Wire' /\ Ends' /\ Undisturbed'
    BY <1>1, <2>1 DEF Wire, Ends, Undisturbed
  <2> QED
    BY <1>6, <1>7, <1>8, <1>9, <2>2 DEF IInv
<1> QED
  BY <1>10, <1>11

(* A refusal ends the transaction with a stop, too. *)
LEMMA RefuseKeeps == ASSUME IInv, Refuse PROVE IInv'
<1>1. /\ tx # << >> /\ tx' = << >> /\ ~hung /\ stopDet' = TRUE
      /\ aborted' = TRUE /\ troubles' = troubles + 1 /\ troubles < MaxTroubles
      /\ UNCHANGED <<at, notified, holder, asked, wctr, rctr, rcnt, restart,
                     stored, count, irq, mask, rx, hung, got, issued, met,
                     begun, ticks>>
  BY DEF Refuse, Moves, driver
<1>2. TypeOK'
  <2>1. troubles' \in 0 .. MaxTroubles
    BY <1>1, BoundsAssumption DEF IInv, TypeOK
  <2>2. {restart, irq, stopDet, aborted, hung, met}' \subseteq BOOLEAN
    BY <1>1, Zenon DEF IInv, TypeOK
  <2> QED
    BY <1>1, <2>1, <2>2 DEF IInv, TypeOK
<1>3. Owner' /\ Told' /\ Counted' /\ Given'
  BY <1>1 DEF IInv, Owner, Told, Counted, Given, Busy, W, R
<1>4. Bytes'
  <2>1. Len(rx) \in Nat /\ Len(tx) \in Nat /\ Depth \in Nat
    BY DepthAssumption DEF IInv, TypeOK
  <2> QED
    BY <1>1, <2>1 DEF IInv, Bytes
<1>5. Wire'
  BY <1>1 DEF IInv, Wire, Busy, W, R
<1>6. Ends'
  BY <1>1 DEF IInv, Ends, Busy, Clean
<1>7. Undisturbed'
  BY <1>1 DEF IInv, Undisturbed, Busy
<1> QED
  BY <1>2, <1>3, <1>4, <1>5, <1>6, <1>7 DEF IInv

(* A bus that hangs leaves everything where it is. *)
LEMMA HangKeeps == ASSUME IInv, Hang PROVE IInv'
<1>1. /\ tx # << >> /\ hung' = TRUE /\ ~hung
      /\ troubles' = troubles + 1 /\ troubles < MaxTroubles
      /\ UNCHANGED <<at, notified, holder, asked, wctr, rctr, rcnt, restart,
                     stored, count, irq, mask, tx, rx, stopDet, aborted, got,
                     issued, met, begun, ticks>>
  BY DEF Hang, Moves, driver
<1>2. TypeOK'
  <2>1. troubles' \in 0 .. MaxTroubles
    BY <1>1, BoundsAssumption DEF IInv, TypeOK
  <2>2. {restart, irq, stopDet, aborted, hung, met}' \subseteq BOOLEAN
    BY <1>1, Zenon DEF IInv, TypeOK
  <2> QED
    BY <1>1, <2>1, <2>2 DEF IInv, TypeOK
<1>3. Owner' /\ Told' /\ Counted' /\ Given'
  BY <1>1 DEF IInv, Owner, Told, Counted, Given, Busy, W, R
<1>4. Bytes' /\ Wire'
  BY <1>1 DEF IInv, Bytes, Wire, Executed, Busy, W, R
<1>5. Ends' /\ Undisturbed'
  BY <1>1 DEF IInv, Ends, Undisturbed, Busy, Clean, W, R
<1> QED
  BY <1>2, <1>3, <1>4, <1>5 DEF IInv

-----------------------------------------------------------------------------
(* The theorems.                                                           *)

(* No step of a task, of the handler, of the controller or of the timer    *)
(* breaks the invariant.                                                   *)
THEOREM Invariance == Spec => []IInv
<1>1. IInv /\ [Next]_vars => IInv'
  <2> SUFFICES ASSUME IInv, [Next]_vars PROVE IInv'
    OBVIOUS
  <2>1. CASE isr
    BY <2>1, isrKeeps
  <2>2. CASE Execute
    BY <2>2, ExecuteKeeps
  <2>3. CASE Refuse
    BY <2>3, RefuseKeeps
  <2>4. CASE Hang
    BY <2>4, HangKeeps
  <2>5. ASSUME NEW t \in Tasks,
               \/ Ask(t) \/ Task(t) \/ TakeTick(t) \/ Tick(t)
        PROVE  IInv'
    BY <2>5, AskKeeps, BeginKeeps, EnableKeeps, WakeKeeps, TimesOutKeeps,
       ReturnKeeps, TakeTickKeeps, TickKeeps DEF Task
  <2>6. CASE UNCHANGED vars
    <3>1. UNCHANGED <<at, notified, holder, asked, wctr, rctr, rcnt, restart,
                      stored, count, irq, mask, tx, rx, stopDet, aborted,
                      hung, got, issued, met, begun, ticks, troubles>>
      BY <2>6 DEF vars, driver, chip, bounds
    <3>2. TypeOK' /\ Owner' /\ Bytes'
      BY <3>1 DEF IInv, TypeOK, Owner, Bytes, Busy
    <3>3. Given' /\ Wire'
      BY <3>1 DEF IInv, Given, Wire, Executed, Busy, W, R
    <3>4. Ends' /\ Told' /\ Undisturbed' /\ Counted'
      BY <3>1 DEF IInv, Ends, Told, Undisturbed, Counted, Clean, Busy, W, R
    <3> QED
      BY <3>2, <3>3, <3>4 DEF IInv
  <2> QED
    BY <2>1, <2>2, <2>3, <2>4, <2>5, <2>6 DEF Next
<1> QED
  BY InitIInv, <1>1, PTL DEF Spec

(* All variables stay in their types. *)
THEOREM TypeCorrect == Spec => []TypeOK
<1>1. IInv => TypeOK
  BY DEF IInv
<1> QED
  BY <1>1, Invariance, PTL

(* A transfer that no tick, refusal or hang has met is reported as full    *)
(* and is so; the receive FIFO never overruns, and every transaction is    *)
(* well formed on the wire (transaction() and its handler, PicoI2C.cpp).   *)
THEOREM TransfersAreFaithful == Spec => []Faithful
<1>1. IInv => Faithful
  <2> SUFFICES ASSUME IInv PROVE Faithful
    OBVIOUS
  <2>1. NothingOverruns
    <3>1. Len(rx) \in Nat /\ Len(tx) \in Nat /\ Depth \in Nat
      BY DepthAssumption DEF IInv, TypeOK
    <3> QED
      BY <3>1 DEF IInv, Bytes, NothingOverruns
  <2>2. WellFormed
    BY TasksAssumption DEF IInv, Given, WellFormed, Form, Busy, W, R
  <2>3. ASSUME NEW t \in Tasks, Done(t), ~met, ~aborted, ~hung
        PROVE  /\ Full(t)
               /\ got = asked[t][1]
               /\ stored = [i \in 1 .. asked[t][2] |-> i]
    <3>1. /\ holder = t /\ Busy /\ W = asked[t][1] /\ R = asked[t][2]
          /\ W \in Nat /\ R \in Nat
      BY <2>3, TasksAssumption, Sizes DEF Done, IInv, Owner, Busy, W, R
    <3>2. mask = {} /\ count = W + R /\ wctr = 0 /\ rcnt = 0 /\ rx = << >>
      BY <2>3, <3>1 DEF Done, IInv, Undisturbed
    <3>3. tx = << >> /\ wctr + rctr = 0
      BY <2>3, <3>1, <3>2 DEF IInv, Undisturbed
    <3>4. /\ Len(stored) \in Nat /\ got \in Nat /\ Len(stored) = R
          /\ Len(issued) = W + R /\ Len(issued) = Executed
      <4>1. rcnt = R - Len(stored) /\ Len(issued) = (W - wctr) + (R - rctr)
        BY <3>1 DEF IInv, Given
      <4>2. /\ Len(stored) \in Nat /\ got \in Nat /\ wctr \in Nat /\ rctr \in Nat
            /\ Len(rx) \in Nat
        BY DEF IInv, TypeOK
      <4>3. Len(issued) = Executed + Len(tx) /\ Executed \in Nat
        BY <2>3, <3>1, <4>2 DEF IInv, Wire, Executed
      <4>4. Len(stored) = R
        BY <3>1, <3>2, <4>1, <4>2
      <4>5. Len(issued) = W + R
        <5>1. wctr = 0 /\ rctr = 0
          BY <3>3, <4>2
        <5> QED
          BY <3>1, <4>1, <5>1
      <4>6. Len(issued) = Executed
        BY <3>3, <4>3
      <4> QED
        BY <4>2, <4>4, <4>5, <4>6
    <3>5. got = W
      BY <3>1, <3>2, <3>4 DEF Executed
    <3>6. stored = [i \in 1 .. R |-> i]
      <4>1. stored \in Seq(Nat) /\ \A i \in 1 .. R : stored[i] = i
        BY <3>4 DEF IInv, TypeOK, Bytes
      <4> QED
        BY <3>1, <3>4, <4>1
    <3> QED
      BY <3>1, <3>2, <3>5, <3>6 DEF Full
  <2> QED
    BY <2>1, <2>2, <2>3 DEF Faithful
<1> QED
  BY <1>1, Invariance, PTL

(* Whatever has come in the way, a read reported as full has every byte in *)
(* its place (the count that transaction() returns, PicoI2C.cpp).          *)
THEOREM FullReadsAreReads == Spec => []FullReadIsRead
<1>1. IInv => FullReadIsRead
  <2> SUFFICES ASSUME IInv, NEW t \in Tasks, Done(t), Full(t), asked[t][2] > 0
               PROVE  /\ got = asked[t][1]
                      /\ SubSeq(stored, 1, asked[t][2]) = [i \in 1 .. asked[t][2] |-> i]
    BY DEF FullReadIsRead
  <2>1. /\ holder = t /\ Busy /\ W = asked[t][1] /\ R = asked[t][2]
        /\ W \in Nat /\ R \in Nat /\ R > 0
    BY TasksAssumption, Sizes DEF Done, IInv, Owner, Busy, W, R
  <2>2. rcnt = 0 /\ Len(stored) \in Nat /\ Len(rx) \in Nat
    BY <2>1 DEF Done, Full, IInv, TypeOK, Counted
  <2>3. Len(stored) = R
    BY <2>1, <2>2 DEF IInv, Given
  <2>4. got = W
    BY <2>1, <2>2, <2>3 DEF IInv, Wire
  <2>5. stored \in Seq(Nat) /\ \A i \in 1 .. R : stored[i] = i
    BY <2>3 DEF IInv, TypeOK, Bytes
  <2>6. SubSeq(stored, 1, R) = stored /\ stored = [i \in 1 .. R |-> i]
    BY <2>1, <2>3, <2>5, SubSeqFull
  <2> QED
    BY <2>1, <2>4, <2>6
<1> QED
  BY <1>1, Invariance, PTL

(* The end of a transaction is told once, and to its task: nothing is left *)
(* over that would end the next one early.                                 *)
THEOREM EndsAreToldOnce == Spec => []ToldOnce
<1>1. IInv => ToldOnce
  <2> SUFFICES ASSUME IInv, NEW t \in Tasks \ Ticked,
                      at[t] \in {"out", "asks", "begun"}
               PROVE  notified[t] = 0
    BY DEF ToldOnce
  <2>1. notified[t] \in Nat
    BY DEF IInv, TypeOK
  <2>2. ~(notified[t] > 0)
    BY DEF IInv, Told
  <2> QED
    BY <2>1, <2>2
<1> QED
  BY <1>1, Invariance, PTL
=============================================================================
