--------------------------- MODULE FreeRTOS_proofs ---------------------------
(***************************************************************************)
(* The kernel's scheduler and queues, for every value of the constants:    *)
(* whatever the tasks, their priorities, their calls, the timers and the   *)
(* interrupts, the queues implement the MessageQueue, the mutexes exclude, *)
(* and every task is in the lists its state asks for and in no other.      *)
(***************************************************************************)
EXTENDS FreeRTOS, FiniteSetTheorems, SequenceTheorems, WellFoundedInduction, TLAPS

(***************************************************************************)
(*                               The queues                                *)
(***************************************************************************)

----------------------------------------------------------------------------
(* The ring of a queue.                                                    *)

\* The indices of a queue q of length n agree with the number of its items.
Ring(q, n) ==
    /\ q.n \in 0 .. n /\ q.r \in 0 .. n - 1 /\ q.w \in 0 .. n - 1
    /\ q.w = (q.r + q.n + 1) % n
    /\ DOMAIN q.buf = 0 .. n - 1
    /\ {"n", "r", "w", "buf"} \subseteq DOMAIN q

\* Its items in the order in which they leave.
Line(q, n) == [i \in 1 .. q.n |-> q.buf[(q.r + i) % n]]

\* An index goes round at most twice.
LEMMA Round ==
    ASSUME NEW n \in Nat \ {0}, NEW a \in 0 .. 3 * n - 1
    PROVE  a % n = IF a < n THEN a ELSE IF a < 2 * n THEN a - n ELSE a - 2 * n
<1>1. CASE a < n BY <1>1
<1>2. CASE n <= a /\ a < 2 * n
  <2>1. (n * 1 + (a - n)) % n = a - n BY <1>2
  <2> QED BY <1>2, <2>1
<1>3. CASE 2 * n <= a
  <2>1. (n * 2 + (a - 2 * n)) % n = a - 2 * n BY <1>3
  <2> QED BY <1>3, <2>1
<1> QED BY <1>1, <1>2, <1>3

\* One step on ...
LEMMA Next1 ==
    ASSUME NEW n \in Nat \ {0}, NEW r \in 0 .. n - 1
    PROVE  (r + 1) % n = IF r + 1 < n THEN r + 1 ELSE 0
<1>1. CASE r + 1 < n BY <1>1
<1>2. CASE r + 1 = n
  <2>1. (n * 1 + 0) % n = 0 OBVIOUS
  <2> QED BY <1>2, <2>1
<1> QED BY <1>1, <1>2

\* ... and one step back.
LEMMA Back ==
    ASSUME NEW n \in Nat \ {0}, NEW r \in 0 .. n - 1
    PROVE  (r - 1) % n = IF r = 0 THEN n - 1 ELSE r - 1
<1>1. CASE r = 0
  <2>1. (n * (-1) + (n - 1)) % n = n - 1 OBVIOUS
  <2> QED BY <1>1, <2>1
<1>2. CASE r > 0 BY <1>2
<1> QED BY <1>1, <1>2

\* What Ring says without a modulus.
Indices(q, n) ==
    /\ q.n \in 0 .. n /\ q.r \in 0 .. n - 1 /\ q.w \in 0 .. n - 1
    /\ q.w = IF q.r + q.n + 1 < n THEN q.r + q.n + 1
             ELSE IF q.r + q.n + 1 < 2 * n THEN q.r + q.n + 1 - n ELSE 0
    /\ DOMAIN q.buf = 0 .. n - 1
    /\ {"n", "r", "w", "buf"} \subseteq DOMAIN q

\* The indices of a ring without the remainder.
LEMMA RingIndices ==
    ASSUME NEW q, NEW n \in Nat \ {0}
    PROVE  Ring(q, n) <=> Indices(q, n)
<1>1. ASSUME q.n \in 0 .. n, q.r \in 0 .. n - 1
      PROVE  (q.r + q.n + 1) % n = IF q.r + q.n + 1 < n THEN q.r + q.n + 1
                                   ELSE IF q.r + q.n + 1 < 2 * n THEN q.r + q.n + 1 - n ELSE 0
  <2>1. q.r + q.n + 1 \in 0 .. 3 * n - 1 BY <1>1
  <2>2. ~(q.r + q.n + 1 < 2 * n) => q.r + q.n + 1 - 2 * n = 0 BY <1>1
  <2>3. PICK a \in 0 .. 3 * n - 1 : a = q.r + q.n + 1 BY <2>1
  <2>4. a % n = IF a < n THEN a ELSE IF a < 2 * n THEN a - n ELSE a - 2 * n BY Round
  <2> DEFINE m == a % n
  <2>5. m = (q.r + q.n + 1) % n BY <2>3
  <2>6. m = IF a < n THEN a ELSE IF a < 2 * n THEN a - n ELSE a - 2 * n BY <2>4
  <2> HIDE DEF m
  <2>7. m = IF q.r + q.n + 1 < n THEN q.r + q.n + 1
            ELSE IF q.r + q.n + 1 < 2 * n THEN q.r + q.n + 1 - n ELSE 0
    BY <1>1, <2>2, <2>3, <2>6
  <2> QED BY <2>5, <2>7
<1> QED BY <1>1 DEF Ring, Indices

\* Its items, without a modulus.
Place(r, i, n) == IF r + i < n THEN r + i ELSE r + i - n
Nth(q, n, i) == q.buf[Place(q.r, i, n)]

\* Only the place of the item after the last is the place written next ...
LEMMA PlaceAfter ==
    ASSUME NEW n \in Nat \ {0}, NEW r \in 0 .. n - 1, NEW m \in 0 .. n - 1, NEW i \in 1 .. m + 1
    PROVE  /\ Place(r, i, n) \in 0 .. n - 1
           /\ Place(r, i, n) = (IF r + m + 1 < n THEN r + m + 1 ELSE r + m + 1 - n) <=> i = m + 1
BY DEF Place

\* ... and the place in front of the first is that of no item.
LEMMA PlaceBefore ==
    ASSUME NEW n \in Nat \ {0}, NEW r \in 0 .. n - 1, NEW m \in 0 .. n - 1, NEW i \in 1 .. m + 1
    PROVE  LET b == IF r = 0 THEN n - 1 ELSE r - 1
           IN  /\ Place(b, i, n) \in 0 .. n - 1 /\ (Place(b, i, n) = r <=> i = 1)
               /\ i # 1 => Place(b, i, n) = Place(r, i - 1, n)
<1>1. CASE r = 0 BY <1>1 DEF Place
<1>2. CASE r # 0 BY <1>2 DEF Place
<1> QED BY <1>1, <1>2

\* The i-th item of the line is the one at the i-th place.
LEMMA LineNth ==
    ASSUME NEW q, NEW n \in Nat \ {0}, Ring(q, n)
    PROVE  /\ Line(q, n) = [i \in 1 .. q.n |-> Nth(q, n, i)]
           /\ Len(Line(q, n)) = q.n
<1>1. q.n \in 0 .. n /\ q.r \in 0 .. n - 1 BY DEF Ring
<1>2. ASSUME NEW i \in 1 .. q.n PROVE q.buf[(q.r + i) % n] = Nth(q, n, i)
  <2>1. q.r + i \in 0 .. 3 * n - 1 /\ q.r + i < 2 * n BY <1>1
  <2>2. PICK a \in 0 .. 3 * n - 1 : a = q.r + i BY <2>1
  <2>3. a % n = IF a < n THEN a ELSE IF a < 2 * n THEN a - n ELSE a - 2 * n BY Round
  <2> DEFINE m == a % n
  <2>4. m = (q.r + i) % n BY <2>2
  <2>5. m = IF a < n THEN a ELSE IF a < 2 * n THEN a - n ELSE a - 2 * n BY <2>3
  <2> HIDE DEF m
  <2>6. m = Place(q.r, i, n) BY <1>1, <2>1, <2>2, <2>5 DEF Place
  <2> QED BY <2>4, <2>6 DEF Nth
<1>3. Line(q, n) = [i \in 1 .. q.n |-> Nth(q, n, i)] BY <1>2 DEF Line
<1> QED BY <1>1, <1>3

\* prvCopyDataToQueue at the back: the item will leave last.
LEMMA BackOfLine ==
    ASSUME NEW c \in Queue, NEW q, NEW v, Ring(q, Length[c]), q.n < Length[c]
    PROVE  /\ Ring(AtBack(q, c, v), Length[c])
           /\ Line(AtBack(q, c, v), Length[c]) = Append(Line(q, Length[c]), v)
<1> DEFINE n == Length[c]
           p == AtBack(q, c, v)
<1>1. n \in Nat \ {0} BY QueueConstants
<1>2. Indices(q, n) /\ q.n < n BY <1>1, RingIndices
<1>3. /\ p.n = q.n + 1 /\ p.r = q.r
      /\ p.buf = [q.buf EXCEPT ![q.w] = v] /\ DOMAIN p = DOMAIN q
  BY <1>2 DEF AtBack, Indices
<1>4. p.w = (q.w + 1) % n BY <1>2 DEF AtBack, Indices
<1>5. Ring(q, n) OBVIOUS
<1> HIDE DEF n, p
<1>6. p.w = IF q.w + 1 < n THEN q.w + 1 ELSE 0
  <2>1. q.w \in 0 .. n - 1 BY <1>2 DEF Indices
  <2>2. (q.w + 1) % n = IF q.w + 1 < n THEN q.w + 1 ELSE 0 BY <1>1, <2>1, Next1
  <2> QED BY <1>4, <2>2
<1>7. Indices(p, n)
  <2>1. /\ q.n \in 0 .. n - 1 /\ q.r \in 0 .. n - 1 /\ q.w \in 0 .. n - 1
        /\ q.w = IF q.r + q.n + 1 < n THEN q.r + q.n + 1
                 ELSE IF q.r + q.n + 1 < 2 * n THEN q.r + q.n + 1 - n ELSE 0
    BY <1>1, <1>2 DEF Indices
  <2>2. /\ p.n \in 0 .. n /\ p.r \in 0 .. n - 1 /\ p.w \in 0 .. n - 1
        /\ p.w = IF p.r + p.n + 1 < n THEN p.r + p.n + 1
                 ELSE IF p.r + p.n + 1 < 2 * n THEN p.r + p.n + 1 - n ELSE 0
    BY <1>1, <1>3, <1>6, <2>1
  <2>3. DOMAIN p.buf = DOMAIN q.buf BY <1>3
  <2> QED BY <1>2, <1>3, <2>2, <2>3 DEF Indices
<1>8. Ring(p, n) BY <1>1, <1>7, RingIndices
<1>9. ASSUME NEW i \in 1 .. q.n + 1
      PROVE  Nth(p, n, i) = IF i = q.n + 1 THEN v ELSE Nth(q, n, i)
  <2>1. /\ q.n \in 0 .. n - 1 /\ q.r \in 0 .. n - 1 /\ DOMAIN q.buf = 0 .. n - 1
        /\ q.w = IF q.r + q.n + 1 < n THEN q.r + q.n + 1 ELSE q.r + q.n + 1 - n
    BY <1>1, <1>2 DEF Indices
  <2>2. Place(q.r, i, n) \in 0 .. n - 1 /\ (Place(q.r, i, n) = q.w <=> i = q.n + 1)
    <3>1. Place(q.r, i, n) \in 0 .. n - 1
      BY <1>1, <2>1, PlaceAfter
    <3>2. Place(q.r, i, n) = (IF q.r + q.n + 1 < n THEN q.r + q.n + 1 ELSE q.r + q.n + 1 - n)
             <=> i = q.n + 1
      BY <1>1, <2>1, PlaceAfter
    <3> QED BY <2>1, <3>1, <3>2
  <2> QED BY <1>3, <2>1, <2>2 DEF Nth
<1>10. Line(p, n) = Append(Line(q, n), v)
  <2>1. Line(p, n) = [i \in 1 .. q.n + 1 |-> IF i = q.n + 1 THEN v ELSE Nth(q, n, i)]
    BY <1>1, <1>3, <1>8, <1>9, LineNth
  <2>2. Line(q, n) = [i \in 1 .. q.n |-> Nth(q, n, i)] /\ Len(Line(q, n)) = q.n /\ q.n \in Nat
    BY <1>1, <1>2, <1>5, LineNth DEF Indices
  <2> QED BY <2>1, <2>2
<1> QED BY <1>8, <1>10 DEF n, p

\* At the front: the item will leave first.
LEMMA FrontOfLine ==
    ASSUME NEW c \in Queue, NEW q, NEW v, Ring(q, Length[c]), q.n < Length[c]
    PROVE  /\ Ring(AtFront(q, c, v, FALSE), Length[c])
           /\ Line(AtFront(q, c, v, FALSE), Length[c]) = <<v>> \o Line(q, Length[c])
<1> DEFINE n == Length[c]
           p == AtFront(q, c, v, FALSE)
<1>1. n \in Nat \ {0} BY QueueConstants
<1>2. Indices(q, n) /\ q.n < n BY <1>1, RingIndices
<1>3. /\ p.n = q.n + 1 /\ p.w = q.w
      /\ p.buf = [q.buf EXCEPT ![q.r] = v] /\ DOMAIN p = DOMAIN q
  BY <1>2 DEF AtFront, Indices
<1>4. p.r = (q.r - 1) % n BY <1>2 DEF AtFront, Indices
<1>5. Ring(q, n) OBVIOUS
<1> HIDE DEF n, p
<1>6. p.r = IF q.r = 0 THEN n - 1 ELSE q.r - 1 BY <1>4, <1>1, <1>2, Back DEF Indices
<1>7. Indices(p, n)
  <2>1. /\ q.n \in 0 .. n - 1 /\ q.r \in 0 .. n - 1 /\ q.w \in 0 .. n - 1
        /\ q.w = IF q.r + q.n + 1 < n THEN q.r + q.n + 1
                 ELSE IF q.r + q.n + 1 < 2 * n THEN q.r + q.n + 1 - n ELSE 0
    BY <1>1, <1>2 DEF Indices
  <2>2. /\ p.n \in 0 .. n /\ p.r \in 0 .. n - 1 /\ p.w \in 0 .. n - 1
        /\ p.w = IF p.r + p.n + 1 < n THEN p.r + p.n + 1
                 ELSE IF p.r + p.n + 1 < 2 * n THEN p.r + p.n + 1 - n ELSE 0
    BY <1>1, <1>3, <1>6, <2>1
  <2>3. DOMAIN p.buf = DOMAIN q.buf BY <1>3
  <2> QED BY <1>2, <1>3, <2>2, <2>3 DEF Indices
<1>8. Ring(p, n) BY <1>1, <1>7, RingIndices
<1>9. ASSUME NEW i \in 1 .. q.n + 1
      PROVE  Nth(p, n, i) = IF i = 1 THEN v ELSE Nth(q, n, i - 1)
  <2>1. q.n \in 0 .. n - 1 /\ q.r \in 0 .. n - 1 /\ DOMAIN q.buf = 0 .. n - 1
    BY <1>1, <1>2 DEF Indices
  <2>2. /\ Place(p.r, i, n) \in 0 .. n - 1 /\ (Place(p.r, i, n) = q.r <=> i = 1)
        /\ i # 1 => Place(p.r, i, n) = Place(q.r, i - 1, n)
    BY <1>1, <1>6, <2>1, PlaceBefore
  <2> QED BY <1>3, <2>1, <2>2 DEF Nth
<1>10. Line(p, n) = <<v>> \o Line(q, n)
  <2>1. Line(p, n) = [i \in 1 .. q.n + 1 |-> IF i = 1 THEN v ELSE Nth(q, n, i - 1)]
    BY <1>1, <1>3, <1>8, <1>9, LineNth
  <2>2. Line(q, n) = [i \in 1 .. q.n |-> Nth(q, n, i)] /\ Len(Line(q, n)) = q.n /\ q.n \in Nat
    BY <1>1, <1>2, <1>5, LineNth DEF Indices
  <2> QED BY <2>1, <2>2
<1> QED BY <1>8, <1>10 DEF n, p

\* An item that overwrites is the only one then.
LEMMA OverTheLine ==
    ASSUME NEW c \in Queue, NEW q, NEW v, Ring(q, Length[c]), Length[c] = 1
    PROVE  /\ Ring(AtFront(q, c, v, TRUE), Length[c])
           /\ Line(AtFront(q, c, v, TRUE), Length[c]) = <<v>>
<1> DEFINE p == AtFront(q, c, v, TRUE)
<1>1. Indices(q, 1) BY RingIndices
<1>2. p.r = (q.r - 1) % 1 BY <1>1 DEF AtFront, Indices
<1>3. /\ p.n = 1 /\ p.w = q.w
      /\ p.buf = [q.buf EXCEPT ![q.r] = v] /\ DOMAIN p = DOMAIN q
  BY <1>1 DEF AtFront, Indices
<1> HIDE DEF p
<1>4. p.r = 0 BY <1>2, <1>1, Back DEF Indices
<1>5. Indices(p, 1) BY <1>1, <1>3, <1>4 DEF Indices
<1>6. Ring(p, 1) BY <1>5, RingIndices
<1>7. Nth(p, 1, 1) = v BY <1>1, <1>3, <1>4 DEF Indices, Nth, Place
<1>8. Line(p, 1) = [i \in 1 .. p.n |-> Nth(p, 1, i)] /\ p.n = 1
  <2>1. 1 \in Nat \ {0} OBVIOUS
  <2> QED BY <1>3, <1>6, <2>1, LineNth
<1>9. Line(p, 1) = <<v>> BY <1>7, <1>8
<1> QED BY <1>6, <1>9 DEF p

\* The write index fits one item less behind the next read index.
LEMMA OneLess ==
    ASSUME NEW n \in Nat \ {0}, NEW a \in 1 .. n, NEW r \in 0 .. n - 1, NEW m,
           m = IF r + 1 < n THEN r + 1 ELSE 0
    PROVE  /\ a - 1 \in 0 .. n /\ m \in 0 .. n - 1
           /\ (IF m + (a - 1) + 1 < n THEN m + (a - 1) + 1
              ELSE IF m + (a - 1) + 1 < 2 * n THEN m + (a - 1) + 1 - n ELSE 0)
              = (IF r + a + 1 < n THEN r + a + 1
                 ELSE IF r + a + 1 < 2 * n THEN r + a + 1 - n ELSE 0)
OBVIOUS

\* prvCopyDataFromQueue: the first item leaves.
LEMMA HeadOfLine ==
    ASSUME NEW n \in Nat \ {0}, NEW q, Ring(q, n), q.n # 0,
           NEW p, DOMAIN p = DOMAIN q,
           p.n = q.n - 1, p.r = (q.r + 1) % n, p.w = q.w, p.buf = q.buf
    PROVE  /\ Ring(p, n)
           /\ Line(q, n) # <<>>
           /\ q.buf[(q.r + 1) % n] = Head(Line(q, n))
           /\ Line(p, n) = Tail(Line(q, n))
<1>1. Indices(q, n) BY RingIndices
<1> DEFINE j == (q.r + 1) % n
<1>2. p.r = j /\ j = IF q.r + 1 < n THEN q.r + 1 ELSE 0
  <2>1. q.r \in 0 .. n - 1 BY <1>1 DEF Indices
  <2> QED BY <2>1, Next1
<1> HIDE DEF j
<1>3. Indices(p, n)
  <2>1. /\ q.n \in 1 .. n /\ q.r \in 0 .. n - 1 /\ q.w \in 0 .. n - 1
        /\ q.w = IF q.r + q.n + 1 < n THEN q.r + q.n + 1
                 ELSE IF q.r + q.n + 1 < 2 * n THEN q.r + q.n + 1 - n ELSE 0
    BY <1>1 DEF Indices
  <2>2. /\ p.n \in 0 .. n /\ p.r \in 0 .. n - 1 /\ p.w \in 0 .. n - 1
        /\ p.w = IF p.r + p.n + 1 < n THEN p.r + p.n + 1
                 ELSE IF p.r + p.n + 1 < 2 * n THEN p.r + p.n + 1 - n ELSE 0
    <3>1. p.r = IF q.r + 1 < n THEN q.r + 1 ELSE 0 BY <1>2
    <3>2. PICK a \in 1 .. n, r \in 0 .. n - 1 : a = q.n /\ r = q.r BY <2>1
    <3>3. PICK m : m = IF r + 1 < n THEN r + 1 ELSE 0 OBVIOUS
    <3>4. p.n = a - 1 /\ p.r = m BY <3>1, <3>2, <3>3
    <3>5. p.w = IF r + a + 1 < n THEN r + a + 1
                ELSE IF r + a + 1 < 2 * n THEN r + a + 1 - n ELSE 0
      BY <2>1, <3>2
    <3>6. p.w \in 0 .. n - 1 BY <2>1
    <3>7. /\ a - 1 \in 0 .. n /\ m \in 0 .. n - 1
          /\ p.w = IF m + (a - 1) + 1 < n THEN m + (a - 1) + 1
                   ELSE IF m + (a - 1) + 1 < 2 * n THEN m + (a - 1) + 1 - n ELSE 0
      BY <3>3, <3>5, OneLess
    <3> QED BY <3>4, <3>6, <3>7
  <2>3. DOMAIN p.buf = DOMAIN q.buf OBVIOUS
  <2> QED BY <1>1, <2>2, <2>3 DEF Indices
<1>4. Ring(p, n) BY <1>3, RingIndices
<1>5. ASSUME NEW i \in 1 .. q.n - 1 PROVE Nth(p, n, i) = Nth(q, n, i + 1)
  <2>1. q.n \in 1 .. n /\ q.r \in 0 .. n - 1 BY <1>1 DEF Indices
  <2>2. Place(p.r, i, n) = Place(q.r, i + 1, n) BY <1>2, <2>1 DEF Place
  <2> QED BY <2>2 DEF Nth
<1>6. Line(q, n) = [i \in 1 .. q.n |-> Nth(q, n, i)] /\ Len(Line(q, n)) = q.n
      /\ q.n \in Nat \ {0}
  BY <1>1, LineNth DEF Indices
<1>7. Line(p, n) = [i \in 1 .. q.n - 1 |-> Nth(q, n, i + 1)]
  BY <1>4, <1>5, LineNth
<1>8. q.buf[j] = Nth(q, n, 1) BY <1>1, <1>2 DEF Indices, Nth, Place
<1> QED BY <1>4, <1>6, <1>7, <1>8 DEF j

----------------------------------------------------------------------------
(* The queues of a scenario, whose types are given by type.                *)

QueueFields == {"type", "n", "buf", "w", "r", "tx", "rx", "set", "holder", "depth"}
MembersOf(type) == {c \in Channels : type[c] = "queue"}

\* What a queue may hold: items, and a set the handles of its members.
MayHold(c, type) == IF type[c] = "queue" THEN Value ELSE MembersOf(type)

Locks == Nat \union {Unlocked}

\* What has no ring is counted, and a mutex that is not free has a holder.
CountSound(q, c, type) ==
    /\ q.n \in 0 .. Length[c]
    /\ type[c] = "mutex" => Length[c] = 1 /\ (q.holder = Null <=> q.n = 1)

\* The queue c is q: its ring is sound, or its count, and so is what it holds.
Sound(q, c, type) ==
    /\ DOMAIN q = QueueFields
    /\ q.type = type[c] /\ q.tx \in Locks /\ q.rx \in Locks
    /\ type[c] \notin {"queue", "set"} => CountSound(q, c, type)
    /\ type[c] \in {"queue", "set"} =>
          /\ Ring(q, Length[c])
          /\ \A i \in 1 .. q.n : Line(q, Length[c])[i] \in MayHold(c, type)
    /\ q.set # Null => c \in MembersOf(type) /\ q.set \in Channels /\ type[q.set] = "set"

\* The timer queue holds commands for the timers.
Commanding(q) ==
    /\ DOMAIN q = QueueFields /\ q.type = "queue" /\ Ring(q, Length[TimerQueue])
    /\ \A i \in 1 .. q.n : Line(q, Length[TimerQueue])[i].timer \in Timer
AllSound(qs, type) ==
    /\ DOMAIN qs = Queue
    /\ \A c \in Channels : Sound(qs[c], c, type)
    /\ Commanding(qs[TimerQueue])

\* What the users of a queue see of it, and of all of them.
Seen(q, c, type) == IF type[c] = "queue" THEN Line(q, Length[c]) ELSE <<>>
AllSeen(qs, type) == [c \in Channels |-> Seen(qs[c], c, type)]

\* Locks, and what else belongs to no ring, do not matter.
LEMMA SameRing ==
    ASSUME NEW type, NEW c \in Channels, NEW q, Sound(q, c, type),
           NEW p, DOMAIN p = DOMAIN q, p.type = q.type, p.n = q.n, p.r = q.r, p.w = q.w,
           p.buf = q.buf, p.set = q.set, p.holder = q.holder, p.tx \in Locks, p.rx \in Locks
    PROVE  Sound(p, c, type) /\ Seen(p, c, type) = Seen(q, c, type)
<1>1. Ring(p, Length[c]) <=> Ring(q, Length[c]) BY DEF Ring
<1>2. Line(p, Length[c]) = Line(q, Length[c]) BY DEF Line
<1>3. CountSound(p, c, type) <=> CountSound(q, c, type) BY DEF CountSound
<1> QED BY <1>1, <1>2, <1>3 DEF Sound, Seen

\* Nor does the number of a semaphore or a mutex, as long as it counts right.
LEMMA SameCount ==
    ASSUME NEW type, NEW c \in Channels, type[c] \notin {"queue", "set"},
           NEW q, Sound(q, c, type), NEW p, DOMAIN p = DOMAIN q, p.type = q.type, p.set = q.set,
           p.tx \in Locks, p.rx \in Locks, CountSound(p, c, type)
    PROVE  Sound(p, c, type) /\ Seen(p, c, type) = Seen(q, c, type)
BY DEF Sound, Seen

\* What may be used as a queue has a length.
LEMMA LengthType == ASSUME NEW c \in Channels PROVE c \in Queue /\ Length[c] \in Nat \ {0}
BY QueueConstants DEF Channels

\* What is put at the back of a sound queue or set joins its line last.
LEMMA SoundBack ==
    ASSUME NEW type, NEW c \in Channels, type[c] \in {"queue", "set"},
           NEW q, Sound(q, c, type), q.n # Length[c], NEW v \in MayHold(c, type)
    PROVE  /\ Sound(AtBack(q, c, v), c, type)
           /\ Seen(AtBack(q, c, v), c, type) =
                 IF type[c] = "queue" THEN Append(Seen(q, c, type), v) ELSE <<>>
<1> DEFINE p == AtBack(q, c, v)
<1>1. c \in Queue /\ Length[c] \in Nat \ {0} BY LengthType
<1>2. Ring(q, Length[c]) /\ q.n < Length[c] /\ q.n \in Nat BY <1>1 DEF Sound, Ring
<1>3. Ring(p, Length[c]) /\ Line(p, Length[c]) = Append(Line(q, Length[c]), v)
  BY <1>1, <1>2, BackOfLine
<1>4. DOMAIN p = QueueFields /\ p.type = q.type /\ p.tx = q.tx /\ p.rx = q.rx /\ p.set = q.set /\ p.n = q.n + 1
  BY DEF AtBack, Sound, QueueFields
<1>5. Line(q, Length[c]) = [i \in 1 .. q.n |-> Nth(q, Length[c], i)]
      /\ Len(Line(q, Length[c])) = q.n
  BY <1>1, <1>2, LineNth
<1> HIDE DEF p
<1>6. ASSUME NEW i \in 1 .. p.n PROVE Line(p, Length[c])[i] \in MayHold(c, type)
  <2>1. CASE i \in 1 .. q.n
    <3>1. Line(p, Length[c])[i] = Line(q, Length[c])[i] BY <1>2, <1>3, <1>5, <2>1
    <3> QED BY <2>1, <3>1 DEF Sound
  <2>2. CASE i = q.n + 1
    <3>1. Line(p, Length[c])[i] = v BY <1>2, <1>3, <1>5, <2>2
    <3> QED BY <3>1
  <2> QED BY <1>2, <1>4, <2>1, <2>2
<1>7. Sound(p, c, type) BY <1>3, <1>4, <1>6 DEF Sound
<1>8. Seen(p, c, type) = IF type[c] = "queue" THEN Append(Seen(q, c, type), v) ELSE <<>>
  BY <1>3 DEF Seen
<1> QED BY <1>7, <1>8 DEF p

\* What is put at the front of a sound queue joins its line first.
LEMMA SoundFront ==
    ASSUME NEW type, NEW c \in Channels, type[c] = "queue",
           NEW q, Sound(q, c, type), q.n # Length[c], NEW v \in Value
    PROVE  /\ Sound(AtFront(q, c, v, FALSE), c, type)
           /\ Seen(AtFront(q, c, v, FALSE), c, type) = <<v>> \o Seen(q, c, type)
<1> DEFINE p == AtFront(q, c, v, FALSE)
<1>1. c \in Queue /\ Length[c] \in Nat \ {0} BY LengthType
<1>2. Ring(q, Length[c]) /\ q.n < Length[c] /\ q.n \in Nat BY <1>1 DEF Sound, Ring
<1>3. Ring(p, Length[c]) /\ Line(p, Length[c]) = <<v>> \o Line(q, Length[c])
  BY <1>1, <1>2, FrontOfLine
<1>4. DOMAIN p = QueueFields /\ p.type = q.type /\ p.tx = q.tx /\ p.rx = q.rx /\ p.set = q.set /\ p.n = q.n + 1
  BY DEF AtFront, Sound, QueueFields
<1>5. Line(q, Length[c]) = [i \in 1 .. q.n |-> Nth(q, Length[c], i)]
      /\ Len(Line(q, Length[c])) = q.n
  BY <1>1, <1>2, LineNth
<1> HIDE DEF p
<1>6. ASSUME NEW i \in 1 .. p.n PROVE Line(p, Length[c])[i] \in Value
  <2>1. CASE i \in 2 .. p.n
    <3>1. i - 1 \in 1 .. q.n BY <1>2, <1>4, <2>1
    <3>2. Line(p, Length[c])[i] = Line(q, Length[c])[i - 1] BY <1>2, <1>3, <1>5, <2>1, <3>1
    <3> QED BY <3>1, <3>2 DEF Sound, MayHold
  <2>2. CASE i = 1
    <3>1. Line(p, Length[c])[i] = v BY <1>2, <1>3, <1>5, <2>2
    <3> QED BY <3>1
  <2> QED BY <1>2, <1>4, <2>1, <2>2
<1>7. Sound(p, c, type) BY <1>3, <1>4, <1>6 DEF Sound, MayHold
<1>8. Seen(p, c, type) = <<v>> \o Seen(q, c, type) BY <1>3 DEF Seen
<1> QED BY <1>7, <1>8 DEF p

\* What overwrites a mailbox is all that it holds.
LEMMA SoundOver ==
    ASSUME NEW type, NEW c \in Channels, type[c] = "queue", Length[c] = 1,
           NEW q, Sound(q, c, type), NEW v \in Value
    PROVE  /\ Sound(AtFront(q, c, v, TRUE), c, type)
           /\ Seen(AtFront(q, c, v, TRUE), c, type) = <<v>>
<1> DEFINE p == AtFront(q, c, v, TRUE)
<1>1. c \in Queue /\ Length[c] \in Nat \ {0} BY LengthType
<1>2. Ring(q, Length[c]) /\ q.n \in 0 .. 1 BY DEF Sound, Ring
<1>3. Ring(p, Length[c]) /\ Line(p, Length[c]) = <<v>> BY <1>1, <1>2, OverTheLine
<1>4. DOMAIN p = QueueFields /\ p.type = q.type /\ p.tx = q.tx /\ p.rx = q.rx /\ p.set = q.set /\ p.n = 1
  BY <1>2 DEF AtFront, Sound, QueueFields
<1> HIDE DEF p
<1>5. Sound(p, c, type) BY <1>3, <1>4 DEF Sound, MayHold
<1>6. Seen(p, c, type) = <<v>> BY <1>3 DEF Seen
<1> QED BY <1>5, <1>6 DEF p

\* A queue or set stays sound when its first item leaves.
LEMMA SoundTaken ==
    ASSUME NEW type, NEW c \in Channels, type[c] \in {"queue", "set"},
           NEW q, Sound(q, c, type), q.n # 0,
           NEW p, DOMAIN p = DOMAIN q, p.type = q.type, p.set = q.set,
           p.n = q.n - 1, p.r = (q.r + 1) % Length[c], p.w = q.w, p.buf = q.buf,
           p.tx \in Locks, p.rx \in Locks
    PROVE  /\ Sound(p, c, type)
           /\ q.buf[(q.r + 1) % Length[c]] \in MayHold(c, type)
           /\ type[c] = "queue" =>
                 /\ Seen(q, c, type) # <<>>
                 /\ q.buf[(q.r + 1) % Length[c]] = Head(Seen(q, c, type))
                 /\ Seen(p, c, type) = Tail(Seen(q, c, type))
<1> DEFINE n == Length[c]
           x == q.buf[(q.r + 1) % n]
<1>1. c \in Queue /\ n \in Nat \ {0} BY LengthType
<1>2. Ring(q, n) /\ q.n \in Nat \ {0} BY <1>1 DEF Sound, Ring
<1>3. /\ Ring(p, n) /\ Line(q, n) # <<>> /\ x = Head(Line(q, n)) /\ Line(p, n) = Tail(Line(q, n))
  BY <1>1, <1>2, HeadOfLine
<1>4. Line(q, n) = [i \in 1 .. q.n |-> Nth(q, n, i)] /\ Len(Line(q, n)) = q.n
  BY <1>1, <1>2, LineNth
<1>5. \A i \in 1 .. q.n : Line(q, n)[i] \in MayHold(c, type) BY DEF Sound
<1>6. DOMAIN p = QueueFields /\ p.type = type[c] /\ p.tx \in Locks /\ p.rx \in Locks
      /\ (p.set # Null => c \in MembersOf(type) /\ p.set \in Channels /\ type[p.set] = "set")
  BY DEF Sound
<1>7. Seen(q, c, type) = (IF type[c] = "queue" THEN Line(q, n) ELSE <<>>)
      /\ Seen(p, c, type) = (IF type[c] = "queue" THEN Line(p, n) ELSE <<>>)
  BY DEF Seen
<1>8. p.n = q.n - 1 OBVIOUS
<1> HIDE DEF n, x
<1>9. x \in MayHold(c, type)
  <2>1. 1 \in 1 .. q.n /\ Head(Line(q, n)) = Line(q, n)[1] BY <1>2, <1>4
  <2> QED BY <1>3, <1>5, <2>1
<1>10. ASSUME NEW i \in 1 .. p.n PROVE Line(p, n)[i] \in MayHold(c, type)
  <2>1. i + 1 \in 1 .. q.n BY <1>2, <1>8
  <2>2. Line(p, n)[i] = Line(q, n)[i + 1] BY <1>2, <1>3, <1>4, <1>8, <2>1
  <2> QED BY <1>5, <2>1, <2>2
<1>11. Sound(p, c, type) BY <1>3, <1>6, <1>10 DEF Sound, n
<1> QED BY <1>3, <1>7, <1>9, <1>11 DEF n, x

----------------------------------------------------------------------------
(* Who is told of an item.                                                 *)

\* Induction over the numbers of a set: no operator to instantiate.
LEMMA Induction ==
    ASSUME NEW T, 0 \in T, \A i \in Nat : i \in T => i + 1 \in T
    PROVE  Nat \subseteq T
<1> SUFFICES ASSUME Nat \ T # {} PROVE FALSE OBVIOUS
<1>1. PICK m \in Nat \ T : \A i \in Nat \ T : ~ (<<i, m>> \in OpToRel(<, Nat))
  BY NatLessThanWellFounded, WFMin
<1>2. m # 0 /\ m - 1 \in Nat /\ m - 1 < m OBVIOUS
<1>3. <<m - 1, m>> \in OpToRel(<, Nat) BY <1>2 DEF OpToRel
<1>4. m - 1 \in T BY <1>1, <1>2, <1>3
<1>5. (m - 1) + 1 \in T BY <1>2, <1>4
<1>6. (m - 1) + 1 = m OBVIOUS
<1> QED BY <1>5, <1>6

----------------------------------------------------------------------------
(* Loops.  The steps of the loops of the model, by name: the provers cannot  *)
(* take an operator as an argument.                                          *)

Stride(op, s, x, a, t) ==
    CASE op = "wake" -> Wakened(a, t)
      [] op = "move" -> YieldTo(Wakened(a, t), t)
      [] op = "visit" -> IF ConditionMet(x, s.evval[t]) THEN RemoveFromUnordered(a, t, x) ELSE a
      [] op = "tick" -> YieldLater(IncrementTick(a))
      [] op = "release" -> YieldLater(UnblockFirst(a, x))
      [] op = "tell" -> TellLater(a, x)
      [] op = "reload" -> Passed(a, x[1], x[2])
      [] op = "expire" -> IF a.tm.current = <<>> THEN a ELSE ProcessExpired(a, MaxDelay)
Course(f, op, s, x, list, n) ==
    f = [i \in 0 .. n |-> IF i = 0 THEN s ELSE Stride(op, s, x, f[i - 1], list[i])]

\* The recursion of a loop is well-founded.
LEMMA CourseExists ==
    ASSUME NEW n \in Nat, NEW op, NEW s, NEW x, NEW list
    PROVE  \E f : Course(f, op, s, x, list, n)
<1> DEFINE Step(a, i) == Stride(op, s, x, a, list[i])
           T == {m \in Nat : \E f : Course(f, op, s, x, list, m)}
<1>1. 0 \in T
  <2>1. Course([i \in 0 .. 0 |-> s], op, s, x, list, 0) BY DEF Course
  <2> QED BY <2>1
<1>2. ASSUME NEW m \in Nat, m \in T PROVE m + 1 \in T
  <2>1. PICK f : f = [i \in 0 .. m |-> IF i = 0 THEN s ELSE Step(f[i - 1], i)]
    BY <1>2 DEF Course
  <2> HIDE DEF Step
  <2> DEFINE g == [i \in 0 .. m + 1 |-> IF i = 0 THEN s ELSE Step(f[i - 1], i)]
  <2>2. ASSUME NEW i \in 1 .. m + 1 PROVE g[i - 1] = f[i - 1]
    <3>1. i - 1 \in 0 .. m /\ i - 1 \in 0 .. m + 1 BY <2>2
    <3>2. f[i - 1] = IF i - 1 = 0 THEN s ELSE Step(f[i - 1 - 1], i - 1) BY <2>1, <3>1
    <3> QED BY <3>1, <3>2
  <2>3. ASSUME NEW i \in 0 .. m + 1 PROVE g[i] = IF i = 0 THEN s ELSE Step(g[i - 1], i)
    <3>1. CASE i = 0 BY <3>1
    <3>2. CASE i # 0
      <4>1. i \in 1 .. m + 1 BY <3>2
      <4>2. g[i] = Step(f[i - 1], i) BY <3>2
      <4>3. g[i - 1] = f[i - 1] BY <2>2, <4>1
      <4> HIDE DEF g
      <4> QED BY <3>2, <4>2, <4>3
    <3> QED BY <3>1, <3>2
  <2>4. g = [i \in 0 .. m + 1 |-> g[i]] OBVIOUS
  <2> HIDE DEF g
  <2>5. g = [i \in 0 .. m + 1 |-> IF i = 0 THEN s ELSE Step(g[i - 1], i)] BY <2>3, <2>4
  <2>6. Course(g, op, s, x, list, m + 1) BY <2>5 DEF Course, Step
  <2> QED BY <2>6
<1>3. Nat \subseteq T
  <2> HIDE DEF T
  <2> QED BY <1>1, <1>2, Induction
<1> QED BY <1>3

\* A set is told of its member: nobody sees a change of a queue.
LEMMA ArrivedSound ==
    ASSUME NEW type, NEW kk, NEW qs, AllSound(qs, type), NEW c \in Channels
    PROVE  /\ AllSound(Arrived(kk, qs, c).queue, type)
           /\ AllSeen(Arrived(kk, qs, c).queue, type) = AllSeen(qs, type)
<1> DEFINE s == qs[c].set
<1>1. CASE s = Null
  <2>1. Arrived(kk, qs, c).queue = qs BY <1>1 DEF Arrived, Told
  <2> QED BY <2>1
<1>2. CASE s # Null
  <2>1. s \in Channels /\ type[s] = "set" /\ c \in MembersOf(type) /\ Sound(qs[s], s, type)
    BY <1>2 DEF AllSound, Sound
  <2>2. Arrived(kk, qs, c) = NotifySet(kk, qs, c, s) BY <1>2 DEF Arrived
  <2>3. CASE qs[s].n = Length[s]
    <3>1. NotifySet(kk, qs, c, s).queue = qs BY <2>3 DEF NotifySet, Untold
    <3> QED BY <2>2, <3>1
  <2>4. CASE qs[s].n # Length[s]
    <3> DEFINE a == AtBack(qs[s], s, c)
               p == [a EXCEPT !.tx = CountedIf(@)]
    <3>1. NotifySet(kk, qs, c, s).queue = [qs EXCEPT ![s] = p]
      <4> DEFINE u == IF qs[s].tx = Unlocked THEN UnblockFirst(kk, Rx(s))
                                             ELSE [k |-> kk, switch |-> FALSE]
      <4>1. NotifySet(kk, qs, c, s) =
              Told(u, [qs EXCEPT ![s] = p])
        BY <2>4, Zenon DEF NotifySet
      <4> HIDE DEF u, p
      <4> QED BY <4>1 DEF Told
    <3>2. Sound(a, s, type) /\ Seen(a, s, type) = <<>>
      BY <2>1, <2>4, SoundBack DEF MayHold
    <3>3. Sound(p, s, type)
      <4>1. DOMAIN p = DOMAIN a /\ p.type = a.type /\ p.n = a.n /\ p.r = a.r /\ p.w = a.w
            /\ p.buf = a.buf /\ p.set = a.set /\ p.holder = a.holder /\ p.tx = CountedIf(a.tx)
            /\ a.tx \in Locks /\ p.rx = a.rx /\ a.rx \in Locks
        BY <3>2 DEF Sound, QueueFields
      <4>2. p.tx \in Locks /\ p.rx \in Locks BY <4>1 DEF Locks, CountedIf, Counted
      <4> HIDE DEF a, p
      <4> QED BY <2>1, <3>2, <4>1, <4>2, SameRing
    <3> HIDE DEF p
    <3>4. AllSound([qs EXCEPT ![s] = p], type) BY <2>1, <3>3 DEF AllSound, Channels
    <3>5. AllSeen([qs EXCEPT ![s] = p], type) = AllSeen(qs, type)
      BY <2>1 DEF AllSeen, Seen, AllSound, Channels
    <3> QED BY <2>2, <3>1, <3>4, <3>5
  <2> QED BY <2>3, <2>4
<1> QED BY <1>1, <1>2

\* What ToldAll computes, item by item.
LEMMA ToldAllIs ==
    ASSUME NEW s, NEW c, NEW lock \in Nat
    PROVE  \E f : /\ f[0] = s /\ ToldAll(s, c, lock) = f[lock]
                  /\ \A i \in Nat : i < lock => f[i + 1] = TellLater(f[i], c)
<1> DEFINE Is(f) == f = [i \in 0 .. lock |-> IF i = 0 THEN s ELSE TellLater(f[i - 1], c)]
           g == CHOOSE f : Is(f)
<1>1. ToldAll(s, c, lock) = IF lock > 0 THEN g[lock] ELSE s BY Zenon DEF ToldAll
<1>2. \A f : Course(f, "tell", s, c, <<>>, lock) <=> Is(f) BY DEF Course, Stride
<1>3. \E f : Is(f) BY <1>2, CourseExists
<1>4. Is(g)
  <2> HIDE DEF Is
  <2> QED BY <1>3, Zenon
<1> HIDE DEF g
<1>5. g[0] = s /\ \A i \in Nat : i < lock => g[i + 1] = TellLater(g[i], c) BY <1>4
<1>6. ToldAll(s, c, lock) = g[lock] BY <1>1, <1>5
<1> QED BY <1>5, <1>6

\* Nobody sees a change of a queue when it is unlocked, whatever its lock has counted.
LEMMA ToldAllSound ==
    ASSUME NEW type, NEW s, AllSound(s.queue, type), NEW c \in Channels, NEW lock \in Locks
    PROVE  /\ AllSound(ToldAll(s, c, lock).queue, type)
           /\ AllSeen(ToldAll(s, c, lock).queue, type) = AllSeen(s.queue, type)
<1> DEFINE Same(a) == AllSound(a.queue, type) /\ AllSeen(a.queue, type) = AllSeen(s.queue, type)
<1>1. ASSUME NEW a, Same(a) PROVE Same(TellLater(a, c))
  <2>1. TellLater(a, c).queue = Arrived(a.k, a.queue, c).queue BY DEF TellLater, Noted, Untold
  <2> QED BY <1>1, <2>1, ArrivedSound
<1>2. CASE lock \in Nat
  <2>1. PICK f : /\ f[0] = s /\ ToldAll(s, c, lock) = f[lock]
                 /\ \A i \in Nat : i < lock => f[i + 1] = TellLater(f[i], c)
    BY <1>2, ToldAllIs
  <2> DEFINE T == {i \in Nat : i <= lock => Same(f[i])}
  <2>2. 0 \in T BY <2>1
  <2> HIDE DEF Same
  <2>3. ASSUME NEW i \in Nat, i \in T PROVE i + 1 \in T BY <1>1, <1>2, <2>1, <2>3
  <2>4. Nat \subseteq T
    <3> HIDE DEF T
    <3> QED BY <2>2, <2>3, Induction
  <2>5. Same(ToldAll(s, c, lock)) BY <1>2, <2>1, <2>4
  <2> QED BY <2>5 DEF Same
<1>3. CASE lock \notin Nat BY <1>3 DEF ToldAll, Locks, Unlocked
<1> QED BY <1>2, <1>3

----------------------------------------------------------------------------
(* The calls of the tasks: sc is their scenario.                           *)

ThreadFields == {"ip", "pc", "set", "at", "ovf", "wait", "inherited", "then", "yield",
                 "got", "last", "cmd", "cut"}
Caller == Task \ {Idle}

\* A task that receives from what it selected has selected a member.
Selected(c, r, sc) ==
    c.op = "receive" /\ c.q = "selected" => r.cmd \in MembersOf(sc.type)
Threads(ths, sc) ==
    /\ DOMAIN ths = Task
    /\ \A t \in Task : DOMAIN ths[t] = ThreadFields
    /\ \A t \in Caller :
          /\ ths[t].ip \in 1 .. Len(sc.prog[t])
          /\ Selected(sc.prog[t][ths[t].ip], ths[t], sc)
Gots(ths) == [t \in Task |-> ths[t].got]

\* What the queues and the calls of a legal scenario keep to.
QueuesInv ==
    /\ scn \in DOMAIN Scenario
    /\ AllSound(queue, Scenario[scn].type)
    /\ Threads(th, Scenario[scn])

\* A step that leaves the call, the result and the selection of each task alone.
LEMMA SameThreads ==
    ASSUME NEW sc, Threads(th, sc), DOMAIN th' = Task,
           \A u \in Task : /\ DOMAIN th'[u] = DOMAIN th[u] /\ th'[u].ip = th[u].ip
                           /\ th'[u].got = th[u].got /\ th'[u].cmd = th[u].cmd
    PROVE  Threads(th', sc) /\ Gots(th') = Gots(th)
BY DEF Threads, Selected, Gots, Caller

\* A step of t that changes its progress within the call.
LEMMA SameCall ==
    ASSUME NEW sc, Threads(th, sc), NEW t, NEW r, th' = [th EXCEPT ![t] = r],
           t \in Task => /\ DOMAIN r = ThreadFields /\ r.ip = th[t].ip /\ r.got = th[t].got
                         /\ r.cmd = th[t].cmd
    PROVE  Threads(th', sc) /\ Gots(th') = Gots(th)
<1>1. DOMAIN th' = Task BY DEF Threads
<1>2. ASSUME NEW u \in Task
      PROVE  /\ DOMAIN th'[u] = DOMAIN th[u] /\ th'[u].ip = th[u].ip
             /\ th'[u].got = th[u].got /\ th'[u].cmd = th[u].cmd
  BY DEF Threads
<1> QED BY <1>1, <1>2, SameThreads

\* What the assumption on the scenarios says of the call a task makes.
LEMMA CallIsLegal ==
    ASSUME scn \in DOMAIN Scenario, Threads(th, Scenario[scn]), NEW t \in Caller
    PROVE  /\ Len(Scenario[scn].prog[t]) \in Nat \ {0}
           /\ th[t].ip \in 1 .. Len(Scenario[scn].prog[t])
           /\ \/ Legal(Scenario[scn].type, Call(t))
              \/ /\ Call(t).op = "receive" /\ Call(t).q = "selected"
                 /\ th[t].cmd \in MembersOf(Scenario[scn].type)
<1> DEFINE sc == Scenario[scn]
           p == sc.prog[t]
<1>1. /\ Len(p) \in Nat \ {0}
      /\ \A i \in 1 .. Len(p) :
            \/ Legal(sc.type, p[i])
            \/ /\ p[i].op = "receive" /\ p[i].q = "selected"
               /\ i > 1 /\ p[i - 1].op = "select"
  BY ScenariosAreLegal DEF Caller
<1>2. th[t].ip \in 1 .. Len(p) /\ Selected(p[th[t].ip], th[t], sc) BY DEF Threads
<1>3. Call(t) = p[th[t].ip] BY DEF Call
<1> HIDE DEF p, sc
<1>4. \/ Legal(sc.type, Call(t))
      \/ Call(t).op = "receive" /\ Call(t).q = "selected" /\ th[t].cmd \in MembersOf(sc.type)
  BY <1>1, <1>2, <1>3 DEF Selected
<1> QED BY <1>1, <1>2, <1>4 DEF sc, p

\* A call that returns.
LEMMA Returns ==
    ASSUME QueuesInv, NEW t \in Caller, NEW res, NEW cmd, ReturnWith(t, res, cmd),
           Call(t).op = "select" /\ res # "failed" => cmd \in MembersOf(Scenario[scn].type)
    PROVE  /\ Threads(th', Scenario[scn])
           /\ Gots(th') = [Gots(th) EXCEPT ![t] = res]
<1> DEFINE sc == Scenario[scn]
           p == sc.prog[t]
           j == Following(t, res)
           r == [Start(j, res, th[t].last) EXCEPT !.cmd = cmd]
<1>1. th' = [th EXCEPT ![t] = r] BY DEF ReturnWith
<1>2. DOMAIN r = ThreadFields /\ r.ip = j /\ r.got = res /\ r.cmd = cmd BY DEF Start, ThreadFields
<1>3. Len(p) \in Nat \ {0} /\ th[t].ip \in 1 .. Len(p) BY CallIsLegal DEF QueuesInv
<1>4. t \in Task /\ DOMAIN th = Task BY DEF Caller, QueuesInv, Threads
<1>5. j = (IF Call(t).op \in {"take", "retake", "select"} /\ res = "failed" THEN 1
           ELSE (th[t].ip % Len(p)) + 1)
  BY DEF Following
<1>6. th[t].ip % Len(p) = IF th[t].ip < Len(p) THEN th[t].ip ELSE 0
  <2>1. PICK n \in Nat \ {0} : n = Len(p) BY <1>3
  <2>2. PICK i \in 0 .. n - 1 : i + 1 = th[t].ip BY <1>3, <2>1
  <2>3. (i + 1) % n = IF i + 1 < n THEN i + 1 ELSE 0 BY Next1
  <2> HIDE DEF p
  <2> QED BY <2>1, <2>2, <2>3
<1>7. Call(t) = p[th[t].ip] BY DEF Call
<1>8. \A i \in 1 .. Len(p) :
            \/ Legal(sc.type, p[i])
            \/ /\ p[i].op = "receive" /\ p[i].q = "selected"
               /\ i > 1 /\ p[i - 1].op = "select"
  BY ScenariosAreLegal DEF Caller, QueuesInv
<1>9. "selected" \notin Queue BY FreeRTOSConstants
<1>10. QueuesInv OBVIOUS
<1> HIDE DEF p, j, r
<1>11. j \in 1 .. Len(p) BY <1>3, <1>5, <1>6
<1>12. Selected(p[j], r, sc)
  <2> SUFFICES ASSUME p[j].op = "receive", p[j].q = "selected"
               PROVE  cmd \in MembersOf(sc.type)
    BY <1>2 DEF Selected
  <2>1. ~Legal(sc.type, p[j]) BY <1>9 DEF Legal, Channels
  <2>2. j > 1 /\ p[j - 1].op = "select" BY <1>8, <1>11, <2>1
  <2>3. j - 1 = th[t].ip BY <1>3, <1>5, <1>6, <2>2
  <2>4. Call(t).op = "select" /\ res # "failed" BY <1>5, <1>7, <2>2, <2>3
  <2> QED BY <2>4
<1>13. Threads(th', sc) BY <1>1, <1>2, <1>4, <1>10, <1>11, <1>12 DEF Threads, QueuesInv, p
<1>14. Gots(th') = [Gots(th) EXCEPT ![t] = res] BY <1>1, <1>2, <1>4 DEF Gots
<1> QED BY <1>13, <1>14

\* A call that cannot be served.
LEMMA BlockKeeps ==
    ASSUME QueuesInv, NEW t \in Caller, Block(t)
    PROVE  /\ Threads(th', Scenario[scn])
           /\ \/ Gots(th') = Gots(th)
              \/ Gots(th') = [Gots(th) EXCEPT ![t] = "failed"]
<1>1. CASE Return(t, "failed") BY <1>1, Returns DEF Return
<1>2. CASE th' = [th EXCEPT ![t].pc = "suspend"]
  <2> DEFINE r == [th[t] EXCEPT !.pc = "suspend"]
  <2>1. th' = [th EXCEPT ![t] = r] BY <1>2
  <2>2. DOMAIN th[t] = ThreadFields BY DEF QueuesInv, Threads, Caller
  <2>3. DOMAIN r = ThreadFields /\ r.ip = th[t].ip /\ r.got = th[t].got /\ r.cmd = th[t].cmd
    BY <2>2 DEF ThreadFields
  <2> HIDE DEF r
  <2> QED BY <2>1, <2>3, SameCall DEF QueuesInv
<1>3. CASE th' = [th EXCEPT ![t] = [@ EXCEPT !.pc = "suspend", !.set = TRUE,
                                       !.at = k.tick, !.ovf = k.ovf, !.wait = Call(t).wait]]
  <2> DEFINE r == [th[t] EXCEPT !.pc = "suspend", !.set = TRUE,
                                !.at = k.tick, !.ovf = k.ovf, !.wait = Call(t).wait]
  <2>1. th' = [th EXCEPT ![t] = r] BY <1>3
  <2>2. DOMAIN th[t] = ThreadFields BY DEF QueuesInv, Threads, Caller
  <2>3. DOMAIN r = ThreadFields /\ r.ip = th[t].ip /\ r.got = th[t].got /\ r.cmd = th[t].cmd
    BY <2>2 DEF ThreadFields
  <2> HIDE DEF r
  <2> QED BY <2>1, <2>3, SameCall DEF QueuesInv
<1> QED BY <1>1, <1>2, <1>3 DEF Block

----------------------------------------------------------------------------
(* Steps of the MessageQueue, in terms of what is seen of the queues.      *)

\* The refinement mapping is what is seen.
LEMMA Mapped ==
    ASSUME NEW type, AllSound(queue, type)
    PROVE  [c \in Channels |-> IF queue[c].type = "queue" THEN Contents(c) ELSE <<>>]
              = AllSeen(queue, type)
BY DEF AllSeen, Seen, AllSound, Sound, Contents, Line

\* ... and after a step.
LEMMA MappedNext ==
    ASSUME NEW type, AllSound(queue', type)
    PROVE  [c \in Channels |-> IF queue[c].type = "queue" THEN Contents(c) ELSE <<>>]'
              = AllSeen(queue', type)
BY DEF AllSeen, Seen, AllSound, Sound, Contents, Line

\* A step that puts an item where it belongs puts it in the MessageQueue.
LEMMA PutStep ==
    ASSUME NEW type, AllSound(queue, type), AllSound(queue', type),
           NEW c \in Channels, NEW v \in Value,
           Len(AllSeen(queue, type)[c]) < Length[c],
           AllSeen(queue', type) =
              [AllSeen(queue, type) EXCEPT ![c] = IF v \in Urgent THEN <<v>> \o @ ELSE Append(@, v)],
           \/ Gots(th') = Gots(th)
           \/ \E t \in Task : Gots(th') = [Gots(th) EXCEPT ![t] = "ok"]
    PROVE  Buffer!Next
<1>1. Buffer!Told("ok") BY DEF Buffer!Told, Gots
<1>2. Buffer!Put(c, v) BY <1>1, Mapped, MappedNext DEF Buffer!Put
<1> QED BY <1>2 DEF Buffer!Next

\* A mailbox that is overwritten is replaced in the MessageQueue.
LEMMA ReplaceStep ==
    ASSUME NEW type, AllSound(queue, type), AllSound(queue', type),
           NEW c \in Channels, NEW v \in Urgent, Length[c] = 1,
           AllSeen(queue', type) = [AllSeen(queue, type) EXCEPT ![c] = <<v>>],
           \/ Gots(th') = Gots(th)
           \/ \E t \in Task : Gots(th') = [Gots(th) EXCEPT ![t] = "ok"]
    PROVE  Buffer!Next
<1>1. Buffer!Told("ok") BY DEF Buffer!Told, Gots
<1>2. Buffer!Replace(c, v) BY <1>1, Mapped, MappedNext DEF Buffer!Replace
<1> QED BY <1>2 DEF Buffer!Next

\* The first item leaves, and who asked for it may be told of it at once.
LEMMA TakeStep ==
    ASSUME NEW type, AllSound(queue, type), AllSound(queue', type), NEW c \in Channels,
           AllSeen(queue, type)[c] # <<>>,
           AllSeen(queue', type) = [AllSeen(queue, type) EXCEPT ![c] = Tail(@)],
           \/ Gots(th') = Gots(th)
           \/ \E t \in Task :
                 Gots(th') = [Gots(th) EXCEPT ![t] = Head(AllSeen(queue, type)[c])]
    PROVE  Buffer!Next
<1>1. Buffer!Take(c) BY Mapped, MappedNext DEF Buffer!Take, Buffer!Told, Gots
<1> QED BY <1>1 DEF Buffer!Next

\* The first item is shown and stays.
LEMMA PeekStep ==
    ASSUME NEW type, AllSound(queue, type), AllSound(queue', type), NEW c \in Channels,
           AllSeen(queue, type)[c] # <<>>,
           AllSeen(queue', type) = AllSeen(queue, type),
           \E t \in Task : Gots(th') = [Gots(th) EXCEPT ![t] = Head(AllSeen(queue, type)[c])]
    PROVE  Buffer!Next
<1>1. Buffer!Peek(c) BY Mapped, MappedNext DEF Buffer!Peek, Buffer!Told, Gots
<1> QED BY <1>1 DEF Buffer!Next

\* A reset empties the queue.
LEMMA ClearStep ==
    ASSUME NEW type, AllSound(queue, type), AllSound(queue', type), NEW c \in Channels,
           AllSeen(queue', type) = [AllSeen(queue, type) EXCEPT ![c] = <<>>],
           \E t \in Task : Gots(th') = [Gots(th) EXCEPT ![t] = "ok"]
    PROVE  Buffer!Next
<1>1. Buffer!Told("ok") BY DEF Buffer!Told, Gots
<1>2. Buffer!Clear(c) BY <1>1, Mapped, MappedNext DEF Buffer!Clear
<1> QED BY <1>2 DEF Buffer!Next

\* No item moves: a call that has nothing to do with one returns, or none does.
LEMMA OtherStep ==
    ASSUME NEW type, AllSound(queue, type), AllSound(queue', type),
           AllSeen(queue', type) = AllSeen(queue, type),
           NEW t \in Task, NEW r \in {"ok", "failed"},
           \/ Gots(th') = Gots(th)
           \/ Gots(th') = [Gots(th) EXCEPT ![t] = r]
    PROVE  [Buffer!Next]_(Buffer!vars)
<1>1. UNCHANGED [c \in Channels |-> IF queue[c].type = "queue" THEN Contents(c) ELSE <<>>]
  BY Mapped, MappedNext
<1>2. r \notin Value BY FreeRTOSConstants
<1>3. CASE Gots(th') = Gots(th) BY <1>1, <1>3 DEF Buffer!vars, Gots
<1>4. CASE Gots(th') = [Gots(th) EXCEPT ![t] = r]
  <2>1. Buffer!Other(t, r) BY <1>1, <1>2, <1>4 DEF Buffer!Other, Gots
  <2> QED BY <2>1 DEF Buffer!Next
<1> QED BY <1>3, <1>4

\* A task that returns while another is created leaves every queue alone.
LEMMA JoinStep ==
    ASSUME NEW type, AllSound(queue, type), AllSound(queue', type),
           AllSeen(queue', type) = AllSeen(queue, type),
           NEW t \in Task, NEW u \in Task,
           Gots(th') = [Gots(th) EXCEPT ![t] = "ok", ![u] = "none"]
    PROVE  Buffer!Next
<1>1. UNCHANGED [c \in Channels |-> IF queue[c].type = "queue" THEN Contents(c) ELSE <<>>]
  BY Mapped, MappedNext
<1>2. Buffer!Join(t, u) BY <1>1 DEF Buffer!Join, Gots
<1> QED BY <1>2 DEF Buffer!Next

----------------------------------------------------------------------------
(* What the calls do to the queues.                                        *)

\* One queue changes.
LEMMA OneQueue ==
    ASSUME NEW type, NEW qs, AllSound(qs, type), NEW c \in Channels, NEW q, Sound(q, c, type)
    PROVE  /\ AllSound([qs EXCEPT ![c] = q], type)
           /\ AllSeen([qs EXCEPT ![c] = q], type)
                 = [AllSeen(qs, type) EXCEPT ![c] = Seen(q, c, type)]
<1> DEFINE p == [qs EXCEPT ![c] = q]
<1>1. DOMAIN qs = Queue /\ c \in Queue BY DEF AllSound, Channels
<1>2. DOMAIN p = Queue /\ p[c] = q /\ \A d \in Channels \ {c} : p[d] = qs[d]
  BY <1>1 DEF Channels
<1> HIDE DEF p
<1>3. AllSound(p, type)
  <2>1. p[TimerQueue] = qs[TimerQueue] BY <1>1, QueueConstants DEF p, Channels
  <2>2. \A d \in Channels : Sound(p[d], d, type) BY <1>2 DEF AllSound
  <2> QED BY <1>2, <2>1, <2>2 DEF AllSound
<1>4. AllSeen(p, type) = [AllSeen(qs, type) EXCEPT ![c] = Seen(q, c, type)]
  BY <1>2 DEF AllSeen
<1> QED BY <1>3, <1>4 DEF p

\* A queue that is replaced by one with the same line changes no line.
LEMMA OneQueueSame ==
    ASSUME NEW type, NEW qs, AllSound(qs, type), NEW c \in Channels, NEW q, Sound(q, c, type),
           Seen(q, c, type) = Seen(qs[c], c, type)
    PROVE  /\ AllSound([qs EXCEPT ![c] = q], type)
           /\ AllSeen([qs EXCEPT ![c] = q], type) = AllSeen(qs, type)
<1>1. AllSeen(qs, type)[c] = Seen(qs[c], c, type) BY DEF AllSeen
<1>2. AllSeen(qs, type) = [AllSeen(qs, type) EXCEPT ![c] = Seen(qs[c], c, type)]
  BY <1>1 DEF AllSeen
<1> QED BY <1>2, OneQueue

\* An item goes into a queue that has room for it, or over the only one in a mailbox;
\* what is given has no items.
ItemIn(a, c, v, pos, type) ==
    IF type[c] # "queue" THEN a
    ELSE [a EXCEPT ![c] = IF pos = "overwrite" THEN <<v>>
                          ELSE IF v \in Urgent THEN <<v>> \o @ ELSE Append(@, v)]

\* prvCopyDataToQueue keeps every queue sound, and moves no other item.
LEMMA Copied ==
    ASSUME NEW type, AllSound(queue, type), NEW c \in Channels, NEW v, NEW pos,
           type[c] \in {"queue", "semaphore", "mutex"},
           type[c] # "queue" => queue[c].n # Length[c],
           type[c] = "queue" => /\ pos \in {"send", "front", "overwrite"}
                                /\ v \in Value /\ (v \in Urgent <=> pos # "send")
                                /\ pos = "overwrite" => Length[c] = 1
                                /\ pos # "overwrite" => queue[c].n # Length[c]
    PROVE  /\ AllSound([queue EXCEPT ![c] = CopyTo(c, v, pos)], type)
           /\ AllSeen([queue EXCEPT ![c] = CopyTo(c, v, pos)], type)
                 = ItemIn(AllSeen(queue, type), c, v, pos, type)
<1> DEFINE q == queue[c]
           p == CopyTo(c, v, pos)
<1>1. Sound(q, c, type) /\ q.type = type[c] BY DEF AllSound, Sound
<1>2. CASE type[c] = "semaphore"
  <2>1. p = [q EXCEPT !.n = @ + 1]
    <3>1. queue[c].type = "semaphore" BY <1>1, <1>2
    <3>2. ~IsMutex(c) BY <3>1 DEF IsMutex
    <3> QED BY <3>1, <3>2 DEF CopyTo
  <2>2. DOMAIN p = DOMAIN q /\ p.type = q.type /\ p.set = q.set /\ p.tx = q.tx /\ q.tx \in Locks
        /\ p.rx = q.rx /\ q.rx \in Locks
    BY <1>1, <2>1 DEF Sound, QueueFields
  <2>3. CountSound(p, c, type)
    <3>1. CountSound(q, c, type) /\ q.n # Length[c] /\ Length[c] \in Nat
      BY <1>1, <1>2, LengthType DEF Sound
    <3>2. p.n = q.n + 1 BY <1>1, <2>1 DEF Sound, QueueFields
    <3> HIDE DEF p, q
    <3> QED BY <1>2, <3>1, <3>2 DEF CountSound
  <2> HIDE DEF p
  <2>4. Sound(p, c, type) /\ Seen(p, c, type) = Seen(q, c, type)
    BY <1>1, <1>2, <2>2, <2>3, SameCount
  <2>5. ItemIn(AllSeen(queue, type), c, v, pos, type) = AllSeen(queue, type)
    BY <1>2 DEF ItemIn
  <2> QED BY <2>4, <2>5, OneQueueSame DEF p
<1>3. CASE type[c] = "mutex"
  <2>1. p = [q EXCEPT !.n = @ + 1, !.holder = Null, !.depth = 0]
    <3>1. queue[c].type # "semaphore" /\ IsMutex(c) BY <1>1, <1>3 DEF IsMutex
    <3> QED BY <3>1 DEF CopyTo
  <2>2. DOMAIN p = DOMAIN q /\ p.type = q.type /\ p.set = q.set /\ p.tx = q.tx /\ q.tx \in Locks
        /\ p.rx = q.rx /\ q.rx \in Locks
    BY <1>1, <2>1 DEF Sound, QueueFields
  <2>3. CountSound(p, c, type)
    <3>1. CountSound(q, c, type) /\ q.n # Length[c] /\ Length[c] = 1
      BY <1>1, <1>3 DEF Sound, CountSound
    <3>2. p.n = q.n + 1 /\ p.holder = Null BY <1>1, <2>1 DEF Sound, QueueFields
    <3> HIDE DEF p, q
    <3> QED BY <3>1, <3>2 DEF CountSound
  <2> HIDE DEF p
  <2>4. Sound(p, c, type) /\ Seen(p, c, type) = Seen(q, c, type)
    BY <1>1, <1>3, <2>2, <2>3, SameCount
  <2>5. ItemIn(AllSeen(queue, type), c, v, pos, type) = AllSeen(queue, type)
    BY <1>3 DEF ItemIn
  <2> QED BY <2>4, <2>5, OneQueueSame DEF p
<1>4. CASE type[c] = "queue"
  <2>1. AllSeen(queue, type)[c] = Seen(q, c, type) /\ c \in DOMAIN AllSeen(queue, type)
    BY DEF AllSeen
  <2>2. CASE pos = "send"
    <3>1. p = AtBack(q, c, v) BY <1>1, <1>4, <2>2 DEF CopyTo, IsMutex
    <3>2. Sound(p, c, type) /\ Seen(p, c, type) = Append(Seen(q, c, type), v)
      BY <1>1, <1>4, <2>2, <3>1, SoundBack DEF MayHold
    <3> HIDE DEF p
    <3>3. ItemIn(AllSeen(queue, type), c, v, pos, type)
             = [AllSeen(queue, type) EXCEPT ![c] = Seen(p, c, type)]
      BY <1>4, <2>1, <2>2, <3>2, Zenon DEF ItemIn
    <3>4. /\ AllSound([queue EXCEPT ![c] = p], type)
          /\ AllSeen([queue EXCEPT ![c] = p], type)
                = [AllSeen(queue, type) EXCEPT ![c] = Seen(p, c, type)]
      BY <3>2, OneQueue
    <3> QED BY <3>3, <3>4 DEF p
  <2>3. CASE pos = "front"
    <3>1. p = AtFront(q, c, v, FALSE) BY <1>1, <1>4, <2>3 DEF CopyTo, IsMutex
    <3>2. Sound(p, c, type) /\ Seen(p, c, type) = <<v>> \o Seen(q, c, type)
      BY <1>1, <1>4, <2>3, <3>1, SoundFront
    <3> HIDE DEF p
    <3>3. ItemIn(AllSeen(queue, type), c, v, pos, type)
             = [AllSeen(queue, type) EXCEPT ![c] = Seen(p, c, type)]
      BY <1>4, <2>1, <2>3, <3>2, Zenon DEF ItemIn
    <3>4. /\ AllSound([queue EXCEPT ![c] = p], type)
          /\ AllSeen([queue EXCEPT ![c] = p], type)
                = [AllSeen(queue, type) EXCEPT ![c] = Seen(p, c, type)]
      <4>1. Sound(p, c, type) BY <3>2
      <4> QED BY <4>1, OneQueue
    <3> QED BY <3>3, <3>4 DEF p
  <2>4. CASE pos = "overwrite"
    <3>1. p = AtFront(q, c, v, TRUE) BY <1>1, <1>4, <2>4 DEF CopyTo, IsMutex
    <3>2. Length[c] = 1 /\ v \in Value BY <1>4, <2>4
    <3> DEFINE a == AtFront(q, c, v, TRUE)
    <3>3. Sound(a, c, type) /\ Seen(a, c, type) = <<v>>
      BY <1>1, <1>4, <3>2, SoundOver
    <3> HIDE DEF a
    <3>4. Sound(p, c, type) /\ Seen(p, c, type) = <<v>>
      BY <3>1, <3>3 DEF a
    <3> HIDE DEF p
    <3>5. ItemIn(AllSeen(queue, type), c, v, pos, type)
             = [AllSeen(queue, type) EXCEPT ![c] = Seen(p, c, type)]
      BY <1>4, <2>4, <3>4 DEF ItemIn
    <3>6. /\ AllSound([queue EXCEPT ![c] = p], type)
          /\ AllSeen([queue EXCEPT ![c] = p], type)
                = [AllSeen(queue, type) EXCEPT ![c] = Seen(p, c, type)]
      BY <3>4, OneQueue
    <3> QED BY <3>5, <3>6 DEF p
  <2> QED BY <1>4, <2>2, <2>3, <2>4
<1> QED BY <1>2, <1>3, <1>4

\* Whoever is told of it, the items stay.
LEMMA SentSound ==
    ASSUME NEW type, NEW g, NEW qs, AllSound(qs, type), NEW c \in Channels, NEW over
    PROVE  /\ AllSound(Sent(g, qs, c, over).queue, type)
           /\ AllSeen(Sent(g, qs, c, over).queue, type) = AllSeen(qs, type)
<1>1. \/ Sent(g, qs, c, over) = Untold(g.k, qs)
      \/ Sent(g, qs, c, over) = Arrived(g.k, qs, c)
      \/ Sent(g, qs, c, over) = Told(g, qs)
  BY DEF Sent
<1>2. Untold(g.k, qs).queue = qs /\ Told(g, qs).queue = qs BY DEF Untold, Told
<1> QED BY <1>1, <1>2, ArrivedSound

\* What an interrupt does after it has copied its item moves none.
LEMMA FromISRSound ==
    ASSUME NEW type, NEW qs, AllSound(qs, type), NEW c \in Channels, NEW told,
           FromISR(qs, c, told)
    PROVE  AllSound(queue', type) /\ AllSeen(queue', type) = AllSeen(qs, type)
<1>1. CASE queue' = qs BY <1>1
<1>2. CASE queue' = Arrived(k, qs, c).queue BY <1>2, ArrivedSound
<1>3. CASE queue' = [qs EXCEPT ![c].tx = Counted(@)]
  <2> DEFINE p == [qs[c] EXCEPT !.tx = Counted(qs[c].tx)]
  <2>1. queue' = [qs EXCEPT ![c] = p] BY <1>3
  <2>2. Sound(qs[c], c, type) BY DEF AllSound
  <2>3. DOMAIN p = DOMAIN qs[c] /\ p.type = qs[c].type /\ p.n = qs[c].n /\ p.r = qs[c].r
        /\ p.w = qs[c].w /\ p.buf = qs[c].buf /\ p.set = qs[c].set /\ p.holder = qs[c].holder
        /\ p.tx = Counted(qs[c].tx) /\ qs[c].tx \in Locks
        /\ p.rx = qs[c].rx /\ qs[c].rx \in Locks
    BY <2>2 DEF Sound, QueueFields
  <2>4. p.tx \in Locks /\ p.rx \in Locks BY <2>3 DEF Locks, Counted, Unlocked
  <2> HIDE DEF p
  <2>5. Sound(p, c, type) /\ Seen(p, c, type) = Seen(qs[c], c, type)
    BY <2>2, <2>3, <2>4, SameRing
  <2> QED BY <2>1, <2>5, OneQueueSame
<1> QED BY <1>1, <1>2, <1>3 DEF FromISR, Effect

\* The first item of a queue or a set leaves.
LEMMA Removed ==
    ASSUME NEW type, AllSound(queue, type), NEW c \in Channels, type[c] \in {"queue", "set"},
           queue[c].n # 0, NEW p,
           LET f == CopyFrom(c).rest
           IN  /\ DOMAIN p = DOMAIN f /\ p.type = f.type /\ p.set = f.set /\ p.n = f.n
               /\ p.r = f.r /\ p.w = f.w /\ p.buf = f.buf /\ p.tx = f.tx
               /\ p.rx \in {f.rx, CountedIf(f.rx)}
    PROVE  /\ AllSound([queue EXCEPT ![c] = p], type)
           /\ CopyFrom(c).item \in MayHold(c, type)
           /\ type[c] = "queue" =>
                 /\ AllSeen(queue, type)[c] # <<>>
                 /\ CopyFrom(c).item = Head(AllSeen(queue, type)[c])
                 /\ AllSeen([queue EXCEPT ![c] = p], type)
                       = [AllSeen(queue, type) EXCEPT ![c] = Tail(@)]
           /\ type[c] = "set" =>
                 AllSeen([queue EXCEPT ![c] = p], type) = AllSeen(queue, type)
<1> DEFINE q == queue[c]
           f == CopyFrom(c).rest
           i == (q.r + 1) % Length[c]
<1>1. Sound(q, c, type) BY DEF AllSound
<1>2. CopyFrom(c).item = q.buf[i] /\ f = [q EXCEPT !.n = @ - 1, !.r = i] BY DEF CopyFrom
<1>3. DOMAIN p = DOMAIN q /\ p.type = q.type /\ p.set = q.set /\ p.n = q.n - 1 /\ p.r = i
      /\ p.w = q.w /\ p.buf = q.buf /\ p.tx = q.tx /\ q.tx \in Locks /\ p.rx \in Locks
  <2>1. DOMAIN f = DOMAIN q /\ f.type = q.type /\ f.set = q.set /\ f.n = q.n - 1 /\ f.r = i
      /\ f.w = q.w /\ f.buf = q.buf /\ f.tx = q.tx /\ f.rx = q.rx /\ q.rx \in Locks
    <3> HIDE DEF i, f
    <3> QED BY <1>1, <1>2 DEF Sound, QueueFields
  <2>2. p.rx \in Locks BY <2>1 DEF Locks, CountedIf, Counted, Unlocked
  <2> QED BY <1>1, <2>1, <2>2 DEF Sound
<1>4. /\ Sound(p, c, type) /\ q.buf[i] \in MayHold(c, type)
      /\ type[c] = "queue" => /\ Seen(q, c, type) # <<>>
                              /\ q.buf[i] = Head(Seen(q, c, type))
                              /\ Seen(p, c, type) = Tail(Seen(q, c, type))
  BY <1>1, <1>3, SoundTaken
<1>5. AllSeen(queue, type)[c] = Seen(q, c, type) /\ c \in DOMAIN AllSeen(queue, type)
  BY DEF AllSeen
<1> HIDE DEF f, i
<1>6. /\ AllSound([queue EXCEPT ![c] = p], type)
      /\ AllSeen([queue EXCEPT ![c] = p], type)
            = [AllSeen(queue, type) EXCEPT ![c] = Seen(p, c, type)]
  BY <1>4, OneQueue
<1>7. CASE type[c] = "queue" BY <1>2, <1>4, <1>5, <1>6, <1>7
<1>8. CASE type[c] = "set"
  <2>1. Seen(p, c, type) = Seen(q, c, type) BY <1>8 DEF Seen
  <2> QED BY <1>2, <1>4, <1>6, <1>8, <2>1, OneQueueSame
<1> QED BY <1>7, <1>8

----------------------------------------------------------------------------
(* What every step keeps.                                                  *)

Kept == QueuesInv' /\ [Buffer!Next]_(Buffer!vars)

\* No item moves, and a call may return.
LEMMA SeenKept ==
    ASSUME QueuesInv, scn' = scn, NEW type, type = Scenario[scn].type,
           AllSound(queue', type), AllSeen(queue', type) = AllSeen(queue, type),
           Threads(th', Scenario[scn]), NEW t \in Task, NEW r \in {"ok", "failed"},
           Gots(th') = Gots(th) \/ Gots(th') = [Gots(th) EXCEPT ![t] = r]
    PROVE  Kept
<1>1. QueuesInv' BY DEF QueuesInv
<1>2. AllSound(queue, type) BY DEF QueuesInv
<1>3. [Buffer!Next]_(Buffer!vars) BY <1>2, OtherStep
<1> QED BY <1>1, <1>3 DEF Kept

\* A step that leaves the queues alone; a call may return.
LEMMA QueueKept ==
    ASSUME QueuesInv, scn' = scn, queue' = queue,
           Threads(th', Scenario[scn]), NEW t \in Task, NEW r \in {"ok", "failed"},
           Gots(th') = Gots(th) \/ Gots(th') = [Gots(th) EXCEPT ![t] = r]
    PROVE  Kept
<1> DEFINE type == Scenario[scn].type
<1>1. AllSound(queue', type) /\ AllSeen(queue', type) = AllSeen(queue, type) BY DEF QueuesInv
<1> HIDE DEF type
<1> QED BY <1>1, SeenKept DEF type

\* What the kernel asserts of an item that goes in.
FitsIn(c, v, pos, type) ==
    /\ c \in Channels /\ type[c] \in {"queue", "semaphore", "mutex"}
    /\ type[c] # "queue" => queue[c].n # Length[c]
    /\ type[c] = "queue" => /\ pos \in {"send", "front", "overwrite"}
                            /\ v \in Value /\ (v \in Urgent <=> pos # "send")
                            /\ pos = "overwrite" => Length[c] = 1
                            /\ pos # "overwrite" => queue[c].n # Length[c]

\* A step that puts an item in; a call may return.
LEMMA ItemKept ==
    ASSUME QueuesInv, scn' = scn, NEW type, type = Scenario[scn].type,
           NEW c, NEW v, NEW pos, FitsIn(c, v, pos, type),
           AllSound(queue', type),
           AllSeen(queue', type) = ItemIn(AllSeen(queue, type), c, v, pos, type),
           Threads(th', Scenario[scn]),
           \/ Gots(th') = Gots(th)
           \/ \E t \in Task : Gots(th') = [Gots(th) EXCEPT ![t] = "ok"]
    PROVE  Kept
<1>1. QueuesInv' BY DEF QueuesInv
<1>2. AllSound(queue, type) /\ c \in Channels BY DEF QueuesInv, FitsIn
<1>3. CASE type[c] # "queue"
  <2>1. AllSeen(queue', type) = AllSeen(queue, type) BY <1>3 DEF ItemIn
  <2>2. Idle \in Task BY KernelConstants
  <2>3. QueuesInv OBVIOUS
  <2>4. CASE Gots(th') = Gots(th) BY <2>1, <2>2, <2>3, <2>4, SeenKept
  <2>5. CASE \E t \in Task : Gots(th') = [Gots(th) EXCEPT ![t] = "ok"]
    BY <2>1, <2>3, <2>5, SeenKept
  <2> QED BY <2>4, <2>5
<1>4. CASE type[c] = "queue" /\ pos = "overwrite"
  <2>1. v \in Urgent /\ v \in Value /\ Length[c] = 1 BY <1>4 DEF FitsIn
  <2>2. AllSeen(queue', type) = [AllSeen(queue, type) EXCEPT ![c] = <<v>>] BY <1>4 DEF ItemIn
  <2>3. Buffer!Next BY <1>2, <2>1, <2>2, ReplaceStep
  <2> QED BY <1>1, <2>3 DEF Kept
<1>5. CASE type[c] = "queue" /\ pos # "overwrite"
  <2>1. v \in Value /\ queue[c].n # Length[c] BY <1>5 DEF FitsIn
  <2>2. AllSeen(queue', type) =
          [AllSeen(queue, type) EXCEPT ![c] = IF v \in Urgent THEN <<v>> \o @ ELSE Append(@, v)]
    BY <1>5, Zenon DEF ItemIn
  <2>3. Len(AllSeen(queue, type)[c]) < Length[c]
    <3>1. Sound(queue[c], c, type) /\ Length[c] \in Nat \ {0} BY <1>2, LengthType DEF AllSound
    <3>2. Ring(queue[c], Length[c]) BY <1>5, <3>1 DEF Sound
    <3>3. Len(Line(queue[c], Length[c])) = queue[c].n BY <3>1, <3>2, LineNth
    <3>4. queue[c].n \in 0 .. Length[c] BY <3>2 DEF Ring
    <3>5. AllSeen(queue, type)[c] = Line(queue[c], Length[c]) BY <1>2, <1>5 DEF AllSeen, Seen
    <3> QED BY <2>1, <3>1, <3>3, <3>4, <3>5
  <2>4. Buffer!Next BY <1>2, <2>1, <2>2, <2>3, PutStep
  <2> QED BY <1>1, <2>4 DEF Kept
<1> QED BY <1>3, <1>4, <1>5

\* The first item of a queue leaves.
LEMMA TakenKept ==
    ASSUME QueuesInv, scn' = scn, NEW type, type = Scenario[scn].type,
           NEW c \in Channels, type[c] = "queue",
           AllSound(queue', type), AllSeen(queue, type)[c] # <<>>,
           AllSeen(queue', type) = [AllSeen(queue, type) EXCEPT ![c] = Tail(@)],
           Threads(th', Scenario[scn]),
           \/ Gots(th') = Gots(th)
           \/ \E t \in Task :
                 Gots(th') = [Gots(th) EXCEPT ![t] = Head(AllSeen(queue, type)[c])]
    PROVE  Kept
<1>1. QueuesInv' BY DEF QueuesInv
<1>2. AllSound(queue, type) BY DEF QueuesInv
<1>3. Buffer!Next BY <1>2, TakeStep
<1> QED BY <1>1, <1>3 DEF Kept

----------------------------------------------------------------------------
(* The calls.                                                              *)

\* The task that makes a call, and what it is about.
LEMMA Making ==
    ASSUME QueuesInv, NEW where, NEW ops, At(where, ops)
    PROVE  /\ k.cur \in Caller /\ k.cur \in Task /\ Call(k.cur).op \in ops
           /\ DOMAIN th[k.cur] = ThreadFields
           /\ \/ Legal(Scenario[scn].type, Call(k.cur))
              \/ /\ Call(k.cur).op = "receive" /\ Call(k.cur).q = "selected"
                 /\ th[k.cur].cmd \in MembersOf(Scenario[scn].type)
<1>1. k.cur \in Caller /\ k.cur \in Task /\ Call(k.cur).op \in ops BY DEF At, Caller
<1> QED BY <1>1, CallIsLegal DEF QueuesInv, Threads

\* Its object; a receive may be from what was selected.
LEMMA Object ==
    ASSUME QueuesInv, NEW where, NEW ops, At(where, ops), ops \subseteq QueueOps \union {"reset", "join", "leave"}
    PROVE  LET type == Scenario[scn].type
               op == Call(k.cur).op
               c == Obj(k.cur)
           IN  /\ c \in Channels
               /\ op \in {"receive", "peek", "reset", "join", "leave", "send", "front", "overwrite"}
                     => type[c] = "queue"
               /\ op \in {"give", "take"} => type[c] \in {"semaphore", "mutex"}
               /\ op \in {"retake", "regive"} => type[c] = "mutex"
               /\ op = "select" => type[c] = "set"
               /\ op \in {"send", "front", "overwrite"} =>
                     /\ Call(k.cur).v \in Value
                     /\ Call(k.cur).v \in Urgent <=> op # "send"
               /\ op = "overwrite" => Length[c] = 1
               /\ op = "join" => Call(k.cur).to \in Channels /\ type[Call(k.cur).to] = "set"
<1> DEFINE type == Scenario[scn].type
           call == Call(k.cur)
           c == Obj(k.cur)
<1>1. /\ call.op \in ops
      /\ \/ Legal(type, call)
         \/ /\ call.op = "receive" /\ call.q = "selected" /\ th[k.cur].cmd \in MembersOf(type)
  BY Making
<1>2. c = IF call.q = "selected" THEN th[k.cur].cmd ELSE call.q BY DEF Obj
<1>3. "selected" \notin Queue BY FreeRTOSConstants
<1> HIDE DEF type, call, c
<1>4. CASE call.op = "receive" /\ call.q = "selected" /\ th[k.cur].cmd \in MembersOf(type)
  <2>1. c \in Channels /\ type[c] = "queue" BY <1>2, <1>4 DEF MembersOf
  <2> QED BY <1>4, <2>1 DEF type, call, c
<1>5. CASE Legal(type, call)
  <2>1. call.op \in QueueOps \union {"reset", "join", "leave"} BY <1>1
  <2>2. call.q \in Channels
    BY <1>5, <2>1 DEF Legal, Channels, QueueOps, Sending, Receiving
  <2>3. c = call.q BY <1>2, <1>3, <2>2 DEF Channels
  <2> QED BY <1>5, <2>2, <2>3 DEF Legal, Channels, type, call, c
<1> QED BY <1>1, <1>4, <1>5

\* A call that returns a result with no item.
LEMMA ReturnKept ==
    ASSUME QueuesInv, scn' = scn, NEW type, type = Scenario[scn].type,
           AllSound(queue', type), AllSeen(queue', type) = AllSeen(queue, type),
           NEW t \in Caller, NEW r \in {"ok", "failed"}, NEW cmd, ReturnWith(t, r, cmd),
           Call(t).op = "select" /\ r # "failed" => cmd \in MembersOf(Scenario[scn].type)
    PROVE  Kept
<1>1. Threads(th', Scenario[scn]) /\ Gots(th') = [Gots(th) EXCEPT ![t] = r] BY Returns
<1>2. t \in Task BY DEF Caller
<1> QED BY <1>1, <1>2, SeenKept

\* A call that blocks, or gives up.
LEMMA BlockKept ==
    ASSUME QueuesInv, scn' = scn, NEW t \in Caller, Block(t)
    PROVE  Kept
<1>1. Threads(th', Scenario[scn])
      /\ (Gots(th') = Gots(th) \/ Gots(th') = [Gots(th) EXCEPT ![t] = "failed"])
  BY BlockKeeps
<1>2. t \in Task /\ queue' = queue BY DEF Caller, Block
<1> QED BY <1>1, <1>2, QueueKept

\* The critical section of a send: the item is copied, or the task goes on to wait.
LEMMA TrySendKept == ASSUME QueuesInv, TrySend PROVE Kept
<1> DEFINE type == Scenario[scn].type
           t == k.cur
           c == Obj(t)
           op == Call(t).op
           v == Call(t).v
           over == op = "overwrite"
           qs == [queue EXCEPT ![c] = CopyTo(c, v, op)]
<1>1. At("try", Sending) /\ scn' = scn BY DEF TrySend
<1>2. t \in Caller /\ op \in Sending BY <1>1, Making
<1>3. CASE Block(t) BY <1>1, <1>2, <1>3, BlockKept
<1>4. CASE /\ ~(IsFull(c) /\ ~over)
           /\ Effect(Sent(Given(c), qs, c, over)) /\ Return(t, "ok")
  <2>1. Sending \subseteq QueueOps \union {"reset", "join", "leave"} BY DEF QueueOps
  <2>2. /\ c \in Channels
        /\ op \in {"send", "front", "overwrite"} => type[c] = "queue"
        /\ op = "give" => type[c] \in {"semaphore", "mutex"}
        /\ op = "regive" => type[c] = "mutex"
        /\ op \in {"send", "front", "overwrite"} => v \in Value /\ (v \in Urgent <=> op # "send")
        /\ op = "overwrite" => Length[c] = 1
    BY <1>1, <2>1, Object
  <2>3. op # "overwrite" => queue[c].n # Length[c] BY <1>4 DEF IsFull
  <2>4. QueuesInv /\ AllSound(queue, type) BY DEF QueuesInv
  <2>5. queue' = Sent(Given(c), qs, c, over).queue BY <1>4 DEF Effect
  <2>6. Threads(th', Scenario[scn]) /\ Gots(th') = [Gots(th) EXCEPT ![t] = "ok"]
    <3>1. ReturnWith(t, "ok", Null) BY <1>4 DEF Return
    <3>2. op # "select" BY <1>2 DEF Sending
    <3> QED BY <1>2, <2>4, <3>1, <3>2, Returns
  <2>7. t \in Task BY <1>2 DEF Caller
  <2>8. type = Scenario[scn].type OBVIOUS
  <2> HIDE DEF type, t, c, op, v, over
  <2>9. FitsIn(c, v, op, type) BY <1>2, <2>2, <2>3 DEF FitsIn, Sending
  <2>10. AllSound(qs, type) /\ AllSeen(qs, type) = ItemIn(AllSeen(queue, type), c, v, op, type)
    BY <2>4, <2>9, Copied DEF FitsIn
  <2> HIDE DEF qs
  <2>11. AllSound(queue', type)
         /\ AllSeen(queue', type) = ItemIn(AllSeen(queue, type), c, v, op, type)
    BY <2>2, <2>5, <2>10, SentSound
  <2> QED BY <1>1, <2>4, <2>6, <2>7, <2>8, <2>9, <2>11, ItemKept
<1> QED BY <1>3, <1>4 DEF TrySend

\* The critical section of a receive from a queue or a set.
LEMMA TryReceiveKept == ASSUME QueuesInv, TryReceive PROVE Kept
<1> DEFINE type == Scenario[scn].type
           t == k.cur
           c == Obj(t)
           op == Call(t).op
           f == CopyFrom(c)
<1>1. At("try", {"receive", "select"}) /\ scn' = scn BY DEF TryReceive
<1>2. t \in Caller /\ t \in Task /\ op \in {"receive", "select"} BY <1>1, Making
<1>3. CASE Block(t) BY <1>1, <1>2, <1>3, BlockKept
<1>4. CASE /\ ~IsEmpty(c) /\ queue' = [queue EXCEPT ![c] = f.rest]
           /\ IF op = "select" THEN ReturnWith(t, "ok", f.item) ELSE Return(t, f.item)
  <2>1. {"receive", "select"} \subseteq QueueOps \union {"reset", "join", "leave"}
    BY DEF QueueOps, Receiving
  <2>2. /\ c \in Channels
        /\ op = "receive" => type[c] = "queue"
        /\ op = "select" => type[c] = "set"
    BY <1>1, <2>1, Object
  <2>3. QueuesInv /\ AllSound(queue, type) /\ queue[c].n # 0 BY <1>4 DEF QueuesInv, IsEmpty
  <2>4. type = Scenario[scn].type OBVIOUS
  <2> HIDE DEF type
  <2>5. /\ AllSound([queue EXCEPT ![c] = f.rest], type)
        /\ f.item \in MayHold(c, type)
        /\ type[c] = "queue" =>
                 /\ AllSeen(queue, type)[c] # <<>>
                 /\ f.item = Head(AllSeen(queue, type)[c])
                 /\ AllSeen([queue EXCEPT ![c] = f.rest], type)
                       = [AllSeen(queue, type) EXCEPT ![c] = Tail(@)]
        /\ type[c] = "set" =>
                 AllSeen([queue EXCEPT ![c] = f.rest], type) = AllSeen(queue, type)
    BY <1>2, <2>2, <2>3, Removed
  <2> HIDE DEF f
  <2>6. CASE op = "receive"
    <3>1. ReturnWith(t, f.item, Null) /\ op # "select" BY <1>4, <2>6 DEF Return
    <3>2. Threads(th', Scenario[scn]) /\ Gots(th') = [Gots(th) EXCEPT ![t] = f.item]
      BY <1>2, <2>3, <3>1, Returns
    <3> HIDE DEF t, c, op
    <3>3. /\ type[c] = "queue" /\ AllSound(queue', type) /\ AllSeen(queue, type)[c] # <<>>
          /\ AllSeen(queue', type) = [AllSeen(queue, type) EXCEPT ![c] = Tail(@)]
          /\ Gots(th') = [Gots(th) EXCEPT ![t] = Head(AllSeen(queue, type)[c])]
      BY <1>4, <2>2, <2>5, <2>6, <3>2
    <3> QED BY <1>1, <1>2, <2>2, <2>3, <2>4, <3>2, <3>3, TakenKept
  <2>7. CASE op = "select"
    <3>1. ReturnWith(t, "ok", f.item) BY <1>4, <2>7
    <3>2. f.item \in MembersOf(type) BY <2>2, <2>5, <2>7 DEF MayHold
    <3>3. AllSound(queue', type) /\ AllSeen(queue', type) = AllSeen(queue, type)
      BY <1>4, <2>2, <2>5, <2>7
    <3> QED BY <1>1, <1>2, <2>3, <2>4, <3>1, <3>2, <3>3, ReturnKept
  <2> QED BY <1>2, <2>6, <2>7
<1> QED BY <1>3, <1>4 DEF TryReceive

\* The critical section of a take of a semaphore or mutex.
LEMMA TryTakeKept == ASSUME QueuesInv, TryTake PROVE Kept
<1> DEFINE type == Scenario[scn].type
           t == k.cur
           c == Obj(t)
           op == Call(t).op
           p == [queue[c] EXCEPT !.n = @ - 1, !.holder = IF IsMutex(c) THEN t ELSE @,
                                 !.depth = IF op = "retake" THEN @ + 1 ELSE @]
<1>1. At("try", {"take", "retake"}) /\ scn' = scn BY DEF TryTake
<1>2. t \in Caller /\ op \in {"take", "retake"} BY <1>1, Making
<1>3. CASE Block(t) BY <1>1, <1>2, <1>3, BlockKept
<1>4. CASE ~IsEmpty(c) /\ queue' = [queue EXCEPT ![c] = p] /\ Return(t, "ok")
  <2>1. {"take", "retake"} \subseteq QueueOps \union {"reset", "join", "leave"}
    BY DEF QueueOps, Receiving
  <2>2. c \in Channels /\ type[c] \in {"semaphore", "mutex"} BY <1>1, <1>2, <2>1, Object
  <2>3. QueuesInv /\ AllSound(queue, type) BY DEF QueuesInv
  <2>4. type = Scenario[scn].type OBVIOUS
  <2> HIDE DEF type
  <2>5. Sound(queue[c], c, type) BY <2>2, <2>3 DEF AllSound
  <2>6. DOMAIN p = DOMAIN queue[c] /\ p.type = queue[c].type /\ p.set = queue[c].set
        /\ p.tx = queue[c].tx /\ queue[c].tx \in Locks
        /\ p.rx = queue[c].rx /\ queue[c].rx \in Locks
    BY <2>5 DEF Sound, QueueFields
  <2>7. CountSound(p, c, type)
    <3>1. CountSound(queue[c], c, type) /\ queue[c].n # 0 /\ Length[c] \in Nat
      BY <1>4, <2>2, <2>5, LengthType DEF Sound, IsEmpty
    <3>2. p.n = queue[c].n - 1 BY <2>5 DEF Sound, QueueFields
    <3>3. type[c] = "mutex" => p.holder # Null
      <4>1. SUFFICES ASSUME type[c] = "mutex" PROVE p.holder # Null OBVIOUS
      <4>2. p.holder = t BY <2>5, <4>1 DEF Sound, QueueFields, IsMutex
      <4> QED BY <1>2, <4>2, FreeRTOSConstants DEF Caller
    <3> HIDE DEF p
    <3> QED BY <3>1, <3>2, <3>3 DEF CountSound
  <2> HIDE DEF p
  <2>8. Sound(p, c, type) /\ Seen(p, c, type) = Seen(queue[c], c, type)
    BY <2>2, <2>5, <2>6, <2>7, SameCount
  <2>9. AllSound(queue', type) /\ AllSeen(queue', type) = AllSeen(queue, type)
    BY <1>4, <2>2, <2>3, <2>8, OneQueueSame
  <2> QED BY <1>1, <1>2, <1>4, <2>3, <2>9, <2>4, ReturnKept DEF Return
<1> QED BY <1>3, <1>4, Zenon DEF TryTake

\* Something that belongs to no ring changes in one queue.
LEMMA FieldSound ==
    ASSUME NEW type, NEW qs, AllSound(qs, type), NEW c \in Channels,
           NEW p, DOMAIN p = DOMAIN qs[c], p.type = qs[c].type, p.n = qs[c].n, p.r = qs[c].r,
           p.w = qs[c].w, p.buf = qs[c].buf, p.set = qs[c].set, p.holder = qs[c].holder,
           p.tx \in Locks, p.rx \in Locks
    PROVE  /\ AllSound([qs EXCEPT ![c] = p], type)
           /\ AllSeen([qs EXCEPT ![c] = p], type) = AllSeen(qs, type)
<1>1. Sound(qs[c], c, type) BY DEF AllSound
<1>2. Sound(p, c, type) /\ Seen(p, c, type) = Seen(qs[c], c, type) BY <1>1, SameRing
<1> QED BY <1>2, OneQueueSame

\* A step within a call.
LEMMA ProgressKept ==
    ASSUME QueuesInv, scn' = scn, NEW type, type = Scenario[scn].type,
           AllSound(queue', type), AllSeen(queue', type) = AllSeen(queue, type),
           NEW t, NEW r, th' = [th EXCEPT ![t] = r],
           t \in Task => /\ DOMAIN r = ThreadFields /\ r.ip = th[t].ip /\ r.got = th[t].got
                         /\ r.cmd = th[t].cmd
    PROVE  Kept
<1>1. Threads(th, Scenario[scn]) /\ QueuesInv BY DEF QueuesInv
<1>2. Threads(th', Scenario[scn]) /\ Gots(th') = Gots(th) BY <1>1, SameCall
<1>3. Idle \in Task BY KernelConstants
<1> QED BY <1>1, <1>2, <1>3, SeenKept

\* A step of a task that goes on with the call it is in.
LEMMA ThreadKept ==
    ASSUME QueuesInv, scn' = scn, queue' = queue,
           NEW t, NEW r, th' = [th EXCEPT ![t] = r],
           t \in Task => /\ DOMAIN r = ThreadFields /\ r.ip = th[t].ip /\ r.got = th[t].got
                         /\ r.cmd = th[t].cmd
    PROVE  Kept
<1> DEFINE type == Scenario[scn].type
<1>1. AllSound(queue', type) /\ AllSeen(queue', type) = AllSeen(queue, type) BY DEF QueuesInv
<1> HIDE DEF type
<1> QED BY <1>1, ProgressKept DEF type

\* A call that returns nothing but its success.
LEMMA PlainReturnKept ==
    ASSUME QueuesInv, scn' = scn, queue' = queue,
           NEW t \in Caller, NEW r \in {"ok", "failed"}, Return(t, r),
           Call(t).op # "select" \/ r = "failed"
    PROVE  Kept
<1> DEFINE type == Scenario[scn].type
<1>1. AllSound(queue', type) /\ AllSeen(queue', type) = AllSeen(queue, type) BY DEF QueuesInv
<1>2. ReturnWith(t, r, Null) BY DEF Return
<1>3. Call(t).op = "select" /\ r # "failed" => Null \in MembersOf(Scenario[scn].type) OBVIOUS
<1> HIDE DEF type
<1> QED BY <1>1, <1>2, <1>3, ReturnKept DEF type

\* The critical section of a peek.
LEMMA TryPeekKept == ASSUME QueuesInv, TryPeek PROVE Kept
<1> DEFINE type == Scenario[scn].type
           t == k.cur
           c == Obj(t)
           f == CopyFrom(c)
<1>1. At("try", {"peek"}) /\ scn' = scn BY DEF TryPeek
<1>2. t \in Caller /\ t \in Task /\ Call(t).op = "peek" BY <1>1, Making
<1>3. CASE Block(t) BY <1>1, <1>2, <1>3, BlockKept
<1>4. CASE ~IsEmpty(c) /\ queue' = queue /\ Return(t, f.item)
  <2>1. {"peek"} \subseteq QueueOps \union {"reset", "join", "leave"} BY DEF QueueOps, Receiving
  <2>2. c \in Channels /\ type[c] = "queue" BY <1>1, <1>2, <2>1, Object
  <2>3. QueuesInv /\ AllSound(queue, type) /\ queue[c].n # 0 BY <1>4 DEF QueuesInv, IsEmpty
  <2>4. ReturnWith(t, f.item, Null) /\ Call(t).op # "select" BY <1>2, <1>4 DEF Return
  <2>5. Threads(th', Scenario[scn]) /\ Gots(th') = [Gots(th) EXCEPT ![t] = f.item]
    BY <1>2, <2>3, <2>4, Returns
  <2>6. QueuesInv' BY <1>1, <1>4, <2>3, <2>5 DEF QueuesInv
  <2> HIDE DEF type
  <2>7. AllSeen(queue, type)[c] # <<>> /\ f.item = Head(AllSeen(queue, type)[c])
    BY <2>2, <2>3, Removed
  <2> HIDE DEF f
  <2>8. AllSound(queue', type) /\ AllSeen(queue', type) = AllSeen(queue, type)
    BY <1>4, <2>3
  <2> HIDE DEF t, c
  <2>9. Gots(th') = [Gots(th) EXCEPT ![t] = Head(AllSeen(queue, type)[c])] BY <2>5, <2>7
  <2>10. Buffer!Next BY <1>2, <2>2, <2>3, <2>7, <2>8, <2>9, PeekStep
  <2> QED BY <2>6, <2>10 DEF Kept
<1> QED BY <1>3, <1>4 DEF TryPeek

\* A recursive mutex that its holder takes again.
LEMMA TakeAgainKept == ASSUME QueuesInv, TakeAgain PROVE Kept
<1> DEFINE type == Scenario[scn].type
           t == k.cur
           c == Obj(t)
           p == [queue[c] EXCEPT !.depth = @ + 1]
<1>1. At("try", {"retake"}) /\ scn' = scn BY DEF TakeAgain
<1>2. t \in Caller /\ Call(t).op = "retake" BY <1>1, Making
<1>3. {"retake"} \subseteq QueueOps \union {"reset", "join", "leave"} BY DEF QueueOps, Receiving
<1>4. c \in Channels BY <1>1, <1>3, Object
<1>5. QueuesInv /\ AllSound(queue, type) BY DEF QueuesInv
<1>6. queue' = [queue EXCEPT ![c] = p] /\ ReturnWith(t, "ok", Null) BY DEF TakeAgain, Return
<1>7. Sound(queue[c], c, type) BY <1>4, <1>5 DEF AllSound
<1>8. type = Scenario[scn].type OBVIOUS
<1> HIDE DEF type
<1>9. DOMAIN p = DOMAIN queue[c] /\ p.type = queue[c].type /\ p.n = queue[c].n
      /\ p.r = queue[c].r /\ p.w = queue[c].w /\ p.buf = queue[c].buf /\ p.set = queue[c].set
      /\ p.holder = queue[c].holder /\ p.tx \in Locks /\ p.rx \in Locks
  BY <1>7 DEF Sound, QueueFields
<1> HIDE DEF p
<1>10. AllSound(queue', type) /\ AllSeen(queue', type) = AllSeen(queue, type)
  BY <1>4, <1>5, <1>6, <1>9, FieldSound
<1> QED BY <1>1, <1>2, <1>5, <1>6, <1>8, <1>10, ReturnKept

\* A recursive mutex that is given back.
LEMMA GiveAgainKept == ASSUME QueuesInv, GiveAgain PROVE Kept
<1> DEFINE type == Scenario[scn].type
           t == k.cur
           c == Obj(t)
           p == [queue[c] EXCEPT !.depth = @ - 1]
           r == IF queue[c].holder = t THEN "ok" ELSE "failed"
<1>1. At("try", {"regive"}) /\ scn' = scn BY DEF GiveAgain
<1>2. t \in Caller /\ Call(t).op = "regive" BY <1>1, Making
<1>3. {"regive"} \subseteq QueueOps \union {"reset", "join", "leave"} BY DEF QueueOps, Sending
<1>4. c \in Channels BY <1>1, <1>3, Object
<1>5. QueuesInv /\ AllSound(queue, type) BY DEF QueuesInv
<1>6. (queue' = [queue EXCEPT ![c] = p] \/ queue' = queue) /\ ReturnWith(t, r, Null)
  BY DEF GiveAgain, Return
<1>7. Sound(queue[c], c, type) BY <1>4, <1>5 DEF AllSound
<1>8. type = Scenario[scn].type /\ r \in {"ok", "failed"} OBVIOUS
<1> HIDE DEF type, r
<1>9. DOMAIN p = DOMAIN queue[c] /\ p.type = queue[c].type /\ p.n = queue[c].n
      /\ p.r = queue[c].r /\ p.w = queue[c].w /\ p.buf = queue[c].buf /\ p.set = queue[c].set
      /\ p.holder = queue[c].holder /\ p.tx \in Locks /\ p.rx \in Locks
  BY <1>7 DEF Sound, QueueFields
<1> HIDE DEF p
<1>10. AllSound(queue', type) /\ AllSeen(queue', type) = AllSeen(queue, type)
  BY <1>4, <1>5, <1>6, <1>9, FieldSound
<1> QED BY <1>1, <1>2, <1>5, <1>6, <1>8, <1>10, ReturnKept

----------------------------------------------------------------------------
(* The way of a call that has to wait.                                     *)

\* A step that only moves a task on within its call.
OnlyMoves(t, fields) ==
    \E r : /\ th' = [th EXCEPT ![t] = r] /\ DOMAIN r = DOMAIN th[t]
           /\ \A f \in DOMAIN th[t] \ fields : r[f] = th[t][f]
Progress == {"pc", "set", "at", "ovf", "wait", "inherited", "then", "yield", "last", "cut"}

\* A step that moves a task within its call.
LEMMA MoveKept ==
    ASSUME QueuesInv, scn' = scn, queue' = queue, NEW t, OnlyMoves(t, Progress)
    PROVE  Kept
<1>1. PICK r : /\ th' = [th EXCEPT ![t] = r] /\ DOMAIN r = DOMAIN th[t]
               /\ \A f \in DOMAIN th[t] \ Progress : r[f] = th[t][f]
  BY DEF OnlyMoves
<1>2. ASSUME t \in Task
      PROVE  DOMAIN r = ThreadFields /\ r.ip = th[t].ip /\ r.got = th[t].got /\ r.cmd = th[t].cmd
  <2>1. DOMAIN th[t] = ThreadFields BY <1>2 DEF QueuesInv, Threads
  <2>2. {"ip", "got", "cmd"} \subseteq DOMAIN th[t] \ Progress BY <2>1 DEF ThreadFields, Progress
  <2> QED BY <1>1, <2>1, <2>2
<1> QED BY <1>1, <1>2, ThreadKept

\* The scheduler is suspended before a wait.
LEMMA SuspendKept == ASSUME QueuesInv, Suspend PROVE Kept
<1> DEFINE r == [th[k.cur] EXCEPT !.pc = "lock"]
<1>1. At("suspend", QueueOps) /\ scn' = scn /\ queue' = queue /\ th' = [th EXCEPT ![k.cur] = r]
  BY DEF Suspend
<1>2. DOMAIN r = DOMAIN th[k.cur] /\ \A f \in DOMAIN th[k.cur] \ Progress : r[f] = th[k.cur][f]
  BY DEF Progress
<1>3. OnlyMoves(k.cur, Progress) BY <1>1, <1>2 DEF OnlyMoves
<1> QED BY <1>1, <1>3, MoveKept

\* The queue is locked, and the time looked at.
LEMMA LockKept == ASSUME QueuesInv, Lock PROVE Kept
<1> DEFINE type == Scenario[scn].type
           t == k.cur
           c == Obj(t)
           x == CheckForTimeOut(k, th[t].at, th[t].ovf, th[t].wait)
           r == [th[t] EXCEPT !.at = x.at, !.ovf = x.ovf, !.wait = x.wait,
                                  !.pc = IF x.expired THEN "unlock" ELSE "test",
                                  !.then = IF ~x.expired THEN "try"
                                           ELSE IF Waits(t) THEN "recheck"
                                           ELSE "refused",
                                  !.cut = th[t].cut \/ t \in k.aborted]
           p == [queue[c] EXCEPT !.rx = IF @ = Unlocked THEN 0 ELSE @,
                                 !.tx = IF @ = Unlocked THEN 0 ELSE @]
<1>1. At("lock", QueueOps) /\ scn' = scn BY DEF Lock
<1>2. t \in Task /\ DOMAIN th[t] = ThreadFields BY <1>1, Making
<1>3. c \in Channels BY <1>1, Object
<1>4. QueuesInv /\ AllSound(queue, type) BY DEF QueuesInv
<1>5. queue' = [queue EXCEPT ![c].rx = IF @ = Unlocked THEN 0 ELSE @,
                             ![c].tx = IF @ = Unlocked THEN 0 ELSE @]
      /\ th' = [th EXCEPT ![t] = r]
  BY Zenon DEF Lock
<1>6. Sound(queue[c], c, type) /\ DOMAIN queue = Queue /\ c \in Queue
  BY <1>3, <1>4 DEF AllSound, Channels
<1>7. type = Scenario[scn].type OBVIOUS
<1> HIDE DEF type
<1>8. DOMAIN p = DOMAIN queue[c] /\ p.type = queue[c].type /\ p.n = queue[c].n
      /\ p.r = queue[c].r /\ p.w = queue[c].w /\ p.buf = queue[c].buf /\ p.set = queue[c].set
      /\ p.holder = queue[c].holder /\ p.tx \in Locks /\ p.rx \in Locks
  BY <1>6 DEF Sound, QueueFields, Locks
<1>9. queue' = [queue EXCEPT ![c] = p] BY <1>5, <1>6
<1>10. DOMAIN r = ThreadFields /\ r.ip = th[t].ip /\ r.got = th[t].got /\ r.cmd = th[t].cmd
  <2> HIDE DEF x
  <2> QED BY <1>2 DEF ThreadFields
<1> HIDE DEF p, r
<1>11. AllSound(queue', type) /\ AllSeen(queue', type) = AllSeen(queue, type)
  BY <1>3, <1>4, <1>9, <1>8, FieldSound
<1> QED BY <1>1, <1>4, <1>5, <1>7, <1>10, <1>11, ProgressKept

\* Still empty or full: the task is put in the list of the waiting.
LEMMA TestKept == ASSUME QueuesInv, Test PROVE Kept
<1> DEFINE t == k.cur
           c == Obj(t)
           h == IF IsMutex(c) THEN PriorityInherit(k, queue[c].holder)
                ELSE [k |-> k, inherited |-> FALSE]
           stuck == IF Waits(t) THEN IsEmpty(c) ELSE IsFull(c)
           r == [th[t] EXCEPT !.pc = "unlock", !.yield = stuck,
                              !.inherited = IF stuck THEN h.inherited ELSE th[t].inherited]
<1>1. scn' = scn /\ queue' = queue /\ th' = [th EXCEPT ![t] = r] BY Zenon DEF Test
<1> HIDE DEF h, stuck
<1>2. DOMAIN r = DOMAIN th[t] /\ \A f \in DOMAIN th[t] \ Progress : r[f] = th[t][f]
  BY DEF Progress
<1> HIDE DEF t, r
<1>3. OnlyMoves(t, Progress) BY <1>1, <1>2 DEF OnlyMoves
<1> QED BY <1>1, <1>3, MoveKept

\* prvUnlockQueue tells of the items that came meanwhile, and moves none but handles.
LEMMA UnlockKept == ASSUME QueuesInv, Unlock PROVE Kept
<1> DEFINE type == Scenario[scn].type
           t == k.cur
           c == Obj(t)
           s == [k |-> k, queue |-> queue]
           qs == ToldAll(s, c, queue[c].tx).queue
           p == [qs[c] EXCEPT !.tx = Unlocked, !.rx = Unlocked]
           r == [th[t] EXCEPT !.pc = "resume"]
<1>1. At("unlock", QueueOps) /\ scn' = scn BY DEF Unlock
<1>2. t \in Task /\ DOMAIN th[t] = ThreadFields BY <1>1, Making
<1>3. c \in Channels BY <1>1, Object
<1>4. QueuesInv /\ AllSound(queue, type) BY DEF QueuesInv
<1>5. queue' = [qs EXCEPT ![c].tx = Unlocked, ![c].rx = Unlocked] /\ th' = [th EXCEPT ![t] = r]
  BY DEF Unlock, Unlocking
<1>6. queue[c].tx \in Locks BY <1>3, <1>4 DEF AllSound, Sound
<1>7. s.queue = queue OBVIOUS
<1>8. type = Scenario[scn].type OBVIOUS
<1> HIDE DEF type, s
<1>9. AllSound(qs, type) /\ AllSeen(qs, type) = AllSeen(queue, type)
  BY <1>3, <1>4, <1>6, <1>7, ToldAllSound
<1> HIDE DEF qs
<1>10. Sound(qs[c], c, type) /\ DOMAIN qs = Queue /\ c \in Queue
  BY <1>3, <1>9 DEF AllSound, Channels
<1>11. DOMAIN p = DOMAIN qs[c] /\ p.type = qs[c].type /\ p.n = qs[c].n
      /\ p.r = qs[c].r /\ p.w = qs[c].w /\ p.buf = qs[c].buf /\ p.set = qs[c].set
      /\ p.holder = qs[c].holder /\ p.tx \in Locks /\ p.rx \in Locks
  BY <1>10 DEF Sound, QueueFields, Locks
<1>12. queue' = [qs EXCEPT ![c] = p] BY <1>5, <1>10
<1>13. DOMAIN r = ThreadFields /\ r.ip = th[t].ip /\ r.got = th[t].got /\ r.cmd = th[t].cmd
  BY <1>2 DEF ThreadFields
<1> HIDE DEF p, r
<1>14. AllSound(queue', type) /\ AllSeen(queue', type) = AllSeen(qs, type)
  BY <1>3, <1>9, <1>11, <1>12, FieldSound
<1> QED BY <1>1, <1>4, <1>5, <1>8, <1>9, <1>13, <1>14, ProgressKept

\* The scheduler is resumed.
LEMMA ResumeKept == ASSUME QueuesInv, Resume PROVE Kept
<1> DEFINE t == k.cur
           a == ResumeAll(k)
           r == [th[t] EXCEPT !.pc = IF th[t].yield /\ ~a.yielded THEN "yield" ELSE th[t].then,
                              !.yield = FALSE]
<1>1. scn' = scn /\ queue' = queue /\ th' = [th EXCEPT ![t] = r]
  BY Zenon DEF Resume, ResumeTo
<1> HIDE DEF a
<1>2. DOMAIN r = DOMAIN th[t] /\ \A f \in DOMAIN th[t] \ Progress : r[f] = th[t][f]
  BY DEF Progress
<1> HIDE DEF t, r
<1>3. OnlyMoves(t, Progress) BY <1>1, <1>2 DEF OnlyMoves
<1> QED BY <1>1, <1>3, MoveKept

\* The task yields.
LEMMA YieldKept == ASSUME QueuesInv, Yield PROVE Kept
<1> DEFINE r == [th[k.cur] EXCEPT !.pc = th[k.cur].then]
<1>1. scn' = scn /\ queue' = queue /\ th' = [th EXCEPT ![k.cur] = r] BY DEF Yield
<1>2. DOMAIN r = DOMAIN th[k.cur] /\ \A f \in DOMAIN th[k.cur] \ Progress : r[f] = th[k.cur][f]
  BY DEF Progress
<1> HIDE DEF r
<1>3. OnlyMoves(k.cur, Progress) BY <1>1, <1>2 DEF OnlyMoves
<1> QED BY <1>1, <1>3, MoveKept

\* A wait that is over ends with the failure of the call.
LEMMA RefusedKept == ASSUME QueuesInv, Refused PROVE Kept
<1>1. At("refused", Sending \union {"abort"}) /\ scn' = scn /\ queue' = queue
      /\ Return(k.cur, "failed")
  BY DEF Refused
<1>2. k.cur \in Caller BY <1>1, Making
<1> QED BY <1>1, <1>2, PlainReturnKept

\* A receive whose wait is over looks at the queue once more.
LEMMA RecheckKept == ASSUME QueuesInv, Recheck PROVE Kept
<1> DEFINE t == k.cur
           r == [th[t] EXCEPT !.pc = IF IsEmpty(Obj(t)) THEN "undo" ELSE "try"]
<1>1. At("recheck", Receiving) /\ scn' = scn /\ queue' = queue BY DEF Recheck
<1>2. t \in Caller BY <1>1, Making
<1>3. CASE Return(t, "failed") BY <1>1, <1>2, <1>3, PlainReturnKept
<1>4. CASE th' = [th EXCEPT ![t] = r]
  <2>1. DOMAIN r = DOMAIN th[t] /\ \A f \in DOMAIN th[t] \ Progress : r[f] = th[t][f]
    BY DEF Progress
  <2> HIDE DEF t, r
  <2>2. OnlyMoves(t, Progress) BY <1>1, <1>4, <2>1 DEF OnlyMoves
  <2> QED BY <1>1, <2>2, MoveKept
<1> QED BY <1>3, <1>4 DEF Recheck

\* The priority that was inherited is given back.
LEMMA UndoKept == ASSUME QueuesInv, Undo PROVE Kept
<1>1. At("undo", {"take", "retake"}) /\ scn' = scn /\ queue' = queue
      /\ Return(k.cur, "failed")
  BY DEF Undo
<1>2. k.cur \in Caller BY <1>1, Making
<1> QED BY <1>1, <1>2, PlainReturnKept

----------------------------------------------------------------------------
(* Calls that never wait, and interrupts.                                  *)

\* A reset leaves an empty queue.
LEMMA ResetKept == ASSUME QueuesInv, Reset PROVE Kept
<1> DEFINE type == Scenario[scn].type
           t == k.cur
           c == Obj(t)
           n == Length[c]
           p == Emptied(queue[c], c)
<1>1. At("try", {"reset"}) /\ scn' = scn BY DEF Reset
<1>2. t \in Caller /\ t \in Task /\ Call(t).op = "reset" BY <1>1, Making
<1>3. c \in Channels /\ type[c] = "queue" BY <1>1, <1>2, Object
<1>4. QueuesInv /\ AllSound(queue, type) BY DEF QueuesInv
<1>5. queue' = [queue EXCEPT ![c] = p] /\ ReturnWith(t, "ok", Null) BY DEF Reset, Return
<1>6. Threads(th', Scenario[scn]) /\ Gots(th') = [Gots(th) EXCEPT ![t] = "ok"]
  BY <1>2, <1>4, <1>5, Returns
<1>7. type = Scenario[scn].type OBVIOUS
<1> HIDE DEF type
<1>8. Sound(queue[c], c, type) /\ Ring(queue[c], n) /\ n \in Nat \ {0}
  BY <1>3, <1>4, LengthType DEF AllSound, Sound
<1>9. DOMAIN p = DOMAIN queue[c] /\ p.type = queue[c].type /\ p.n = 0
      /\ p.r = n - 1 /\ p.w = 0 /\ p.buf = queue[c].buf /\ p.set = queue[c].set
      /\ p.tx = Unlocked /\ p.rx = Unlocked
  BY <1>8 DEF Sound, QueueFields, Emptied
<1> HIDE DEF p, n
<1>10. Indices(p, n) BY <1>8, <1>9, RingIndices DEF Indices
<1>11. Ring(p, n) BY <1>8, <1>10, RingIndices
<1>12. Line(p, n) = <<>> BY <1>9 DEF Line
<1>13. Sound(p, c, type) /\ Seen(p, c, type) = <<>>
  BY <1>3, <1>8, <1>9, <1>11, <1>12 DEF Sound, Seen, Locks, n
<1>14. AllSound(queue', type) /\ AllSeen(queue', type) = [AllSeen(queue, type) EXCEPT ![c] = <<>>]
  <2>1. Sound(p, c, type) BY <1>13
  <2>2. /\ AllSound([queue EXCEPT ![c] = p], type)
        /\ AllSeen([queue EXCEPT ![c] = p], type)
              = [AllSeen(queue, type) EXCEPT ![c] = Seen(p, c, type)]
    BY <1>3, <1>4, <2>1, OneQueue
  <2> QED BY <1>5, <1>13, <2>2
<1>15. QueuesInv' BY <1>1, <1>4, <1>6, <1>7, <1>14 DEF QueuesInv
<1>16. Buffer!Next
  <2> HIDE DEF t, c
  <2> QED BY <1>2, <1>3, <1>4, <1>6, <1>14, ClearStep
<1> QED BY <1>15, <1>16 DEF Kept

\* A queue that joins a set keeps its line.
LEMMA AddToSetKept == ASSUME QueuesInv, AddToSet PROVE Kept
<1> DEFINE type == Scenario[scn].type
           t == k.cur
           c == Obj(t)
           to == Call(t).to
           ok == queue[c].set = Null /\ IsEmpty(c)
           p == [queue[c] EXCEPT !.set = to]
           r == IF ok THEN "ok" ELSE "failed"
<1>1. At("try", {"join"}) /\ scn' = scn BY DEF AddToSet
<1>2. t \in Caller /\ Call(t).op = "join" BY <1>1, Making
<1>3. c \in Channels /\ type[c] = "queue" /\ to \in Channels /\ type[to] = "set"
  BY <1>1, <1>2, Object
<1>4. QueuesInv /\ AllSound(queue, type) BY DEF QueuesInv
<1>5. (queue' = [queue EXCEPT ![c] = p] \/ queue' = queue) /\ ReturnWith(t, r, Null)
  BY DEF AddToSet, Return
<1>6. type = Scenario[scn].type /\ r \in {"ok", "failed"} OBVIOUS
<1> HIDE DEF type, r, ok, to
<1>7. Sound(queue[c], c, type) BY <1>3, <1>4 DEF AllSound
<1>8. DOMAIN p = DOMAIN queue[c] /\ p.type = queue[c].type /\ p.n = queue[c].n
      /\ p.r = queue[c].r /\ p.w = queue[c].w /\ p.buf = queue[c].buf /\ p.set = to
      /\ p.tx \in Locks /\ p.rx \in Locks
  BY <1>7 DEF Sound, QueueFields
<1> HIDE DEF p
<1>9. Sound(p, c, type) /\ Seen(p, c, type) = Seen(queue[c], c, type)
  <2>1. Ring(p, Length[c]) <=> Ring(queue[c], Length[c]) BY <1>8 DEF Ring
  <2>2. Line(p, Length[c]) = Line(queue[c], Length[c]) BY <1>8 DEF Line
  <2>3. c \in MembersOf(type) BY <1>3 DEF MembersOf
  <2> QED BY <1>3, <1>7, <1>8, <2>1, <2>2, <2>3 DEF Sound, Seen
<1>10. AllSound(queue', type) /\ AllSeen(queue', type) = AllSeen(queue, type)
  BY <1>3, <1>4, <1>5, <1>9, OneQueueSame
<1> QED BY <1>1, <1>2, <1>4, <1>5, <1>6, <1>10, ReturnKept

\* A queue may leave its set if it is empty ...
LEMMA LeaveSetKept == ASSUME QueuesInv, LeaveSet PROVE Kept
<1> DEFINE t == k.cur
           r == [th[t] EXCEPT !.pc = "leave"]
<1>1. At("try", {"leave"}) /\ scn' = scn /\ queue' = queue BY DEF LeaveSet
<1>2. t \in Caller BY <1>1, Making
<1>3. CASE Return(t, "failed") BY <1>1, <1>2, <1>3, PlainReturnKept
<1>4. CASE th' = [th EXCEPT ![t] = r]
  <2>1. DOMAIN r = DOMAIN th[t] /\ \A f \in DOMAIN th[t] \ Progress : r[f] = th[t][f]
    BY DEF Progress
  <2> HIDE DEF t, r
  <2>2. OnlyMoves(t, Progress) BY <1>1, <1>4, <2>1 DEF OnlyMoves
  <2> QED BY <1>1, <2>2, MoveKept
<1> QED BY <1>3, <1>4 DEF LeaveSet

\* ... and names no set then.
LEMMA LeftSetKept == ASSUME QueuesInv, LeftSet PROVE Kept
<1> DEFINE type == Scenario[scn].type
           t == k.cur
           c == Obj(t)
           p == [queue[c] EXCEPT !.set = Null]
<1>1. At("leave", {"leave"}) /\ scn' = scn BY DEF LeftSet
<1>2. t \in Caller /\ Call(t).op = "leave" BY <1>1, Making
<1>3. c \in Channels BY <1>1, Object
<1>4. QueuesInv /\ AllSound(queue, type) BY DEF QueuesInv
<1>5. queue' = [queue EXCEPT ![c] = p] /\ ReturnWith(t, "ok", Null)
  BY DEF LeftSet, Return
<1>6. type = Scenario[scn].type OBVIOUS
<1> HIDE DEF type
<1>7. Sound(queue[c], c, type) BY <1>3, <1>4 DEF AllSound
<1>8. DOMAIN p = DOMAIN queue[c] /\ p.type = queue[c].type /\ p.n = queue[c].n
      /\ p.r = queue[c].r /\ p.w = queue[c].w /\ p.buf = queue[c].buf /\ p.set = Null
      /\ p.holder = queue[c].holder /\ p.tx \in Locks /\ p.rx \in Locks
  BY <1>7 DEF Sound, QueueFields
<1> HIDE DEF p
<1>9. Sound(p, c, type) /\ Seen(p, c, type) = Seen(queue[c], c, type)
  BY <1>3, <1>7, <1>8 DEF Sound, CountSound, Seen, Ring, Line, MembersOf
<1>10. AllSound(queue', type) /\ AllSeen(queue', type) = AllSeen(queue, type)
  BY <1>3, <1>4, <1>5, <1>9, OneQueueSame
<1> QED BY <1>1, <1>2, <1>4, <1>5, <1>6, <1>10, ReturnKept

\* An interrupt sends, or receives, one item.
LEMMA InterruptKept == ASSUME QueuesInv, Interrupt PROVE Kept
<1> DEFINE type == Scenario[scn].type
<1>1. scn' = scn /\ th' = th BY DEF Interrupt
<1>2. QueuesInv /\ AllSound(queue, type) /\ Threads(th', Scenario[scn]) /\ Gots(th') = Gots(th)
      /\ scn \in DOMAIN Scenario
  BY <1>1 DEF QueuesInv
<1>3. PICK i \in Scenario[scn].isr : \/ QueueFromISR(i)
                                     \/ i.op = "notify" /\ NotifyISR(i.to, i.v)
                                     \/ i.op = "unpark" /\ UnparkFromISR(i.to)
  BY DEF Interrupt
<1>4. Legal(type, i) /\ (i.op = "give" => type[i.q] = "semaphore")
  BY <1>2, ScenariosAreLegal
<1>5. type = Scenario[scn].type /\ Idle \in Task BY KernelConstants
<1> HIDE DEF type
<1>6. CASE queue' = queue BY <1>1, <1>2, <1>5, <1>6, QueueKept
<1>7. CASE i.op \in {"send", "overwrite"} /\ SendFromISR(i.q, i.v, i.op)
  <2> DEFINE qs == [queue EXCEPT ![i.q] = CopyTo(i.q, i.v, i.op)]
             told == queue[i.q].set # Null /\ i.op = "overwrite" /\ ~IsEmpty(i.q)
  <2>1. FitsIn(i.q, i.v, i.op, type)
    BY <1>4, <1>7 DEF Legal, FitsIn, SendFromISR, IsFull, Channels
  <2>2. FromISR(qs, i.q, told) /\ i.q \in Channels BY <1>7, <2>1 DEF SendFromISR, FitsIn
  <2>3. AllSound(qs, type)
        /\ AllSeen(qs, type) = ItemIn(AllSeen(queue, type), i.q, i.v, i.op, type)
    BY <1>2, <2>1, Copied DEF FitsIn
  <2> HIDE DEF qs, told
  <2>4. AllSound(queue', type) /\ AllSeen(queue', type) = AllSeen(qs, type)
    BY <2>2, <2>3, FromISRSound
  <2> QED BY <1>1, <1>2, <1>5, <2>1, <2>3, <2>4, ItemKept
<1>8. CASE i.op = "give" /\ GiveFromISR(i.q)
  <2> DEFINE c == i.q
             p == [queue[c] EXCEPT !.n = @ + 1]
             qs == [queue EXCEPT ![c] = p]
  <2>1. c \in Channels /\ type[c] = "semaphore" BY <1>4, <1>8 DEF Legal
  <2>2. Sound(queue[c], c, type) /\ DOMAIN queue = Queue /\ c \in Queue
    BY <1>2, <2>1 DEF AllSound, Channels
  <2>3. DOMAIN p = DOMAIN queue[c] /\ p.type = queue[c].type /\ p.set = queue[c].set
        /\ p.tx \in Locks /\ p.rx \in Locks /\ p.n = queue[c].n + 1
    BY <2>2 DEF Sound, QueueFields
  <2>4. FromISR(qs, c, FALSE) /\ queue[c].n # Length[c]
    <3>1. [queue EXCEPT ![c].n = @ + 1] = qs BY <2>2
    <3>2. FromISR([queue EXCEPT ![c].n = @ + 1], c, FALSE) /\ ~IsFull(c)
      BY <1>8, Zenon DEF GiveFromISR
    <3> QED BY <3>1, <3>2 DEF IsFull
  <2> HIDE DEF p
  <2>5. CountSound(p, c, type)
    <3>1. CountSound(queue[c], c, type) /\ Length[c] \in Nat
      BY <2>1, <2>2, LengthType DEF Sound
    <3> QED BY <2>1, <2>3, <2>4, <3>1 DEF CountSound
  <2>6. Sound(p, c, type) /\ Seen(p, c, type) = Seen(queue[c], c, type)
    BY <2>1, <2>2, <2>3, <2>5, SameCount
  <2>7. AllSound(qs, type) /\ AllSeen(qs, type) = AllSeen(queue, type)
    BY <1>2, <2>1, <2>6, OneQueueSame
  <2> HIDE DEF qs
  <2>8. AllSound(queue', type) /\ AllSeen(queue', type) = AllSeen(qs, type)
    BY <2>1, <2>4, <2>7, FromISRSound
  <2> QED BY <1>1, <1>2, <1>5, <2>7, <2>8, SeenKept
<1>9. CASE i.op = "receive" /\ ReceiveFromISR(i.q)
  <2> DEFINE c == i.q
             f == CopyFrom(c).rest
             p == [f EXCEPT !.rx = CountedIf(@)]
  <2>1. c \in Channels /\ type[c] = "queue" BY <1>4, <1>9 DEF Legal, Channels
  <2>2. queue[c].n # 0 /\ queue' = [queue EXCEPT ![c] = p] BY <1>9 DEF ReceiveFromISR, IsEmpty
  <2>3. Sound(queue[c], c, type) BY <1>2, <2>1 DEF AllSound
  <2>4. DOMAIN f = QueueFields BY <2>3 DEF CopyFrom, Sound
  <2>5. DOMAIN p = DOMAIN f /\ p.type = f.type /\ p.set = f.set /\ p.n = f.n
        /\ p.r = f.r /\ p.w = f.w /\ p.buf = f.buf /\ p.tx = f.tx /\ p.rx = CountedIf(f.rx)
    <3> HIDE DEF f
    <3> QED BY <2>4 DEF QueueFields
  <2> HIDE DEF p
  <2>6. /\ AllSound([queue EXCEPT ![c] = p], type)
        /\ AllSeen(queue, type)[c] # <<>>
        /\ AllSeen([queue EXCEPT ![c] = p], type)
              = [AllSeen(queue, type) EXCEPT ![c] = Tail(@)]
    <3>1. type[c] \in {"queue", "set"} /\ queue[c].n # 0 /\ c \in Channels
          /\ AllSound(queue, type)
      BY <1>2, <2>1, <2>2
    <3> HIDE DEF c
    <3>2. LET g == CopyFrom(c).rest
          IN  /\ DOMAIN p = DOMAIN g /\ p.type = g.type /\ p.set = g.set /\ p.n = g.n
              /\ p.r = g.r /\ p.w = g.w /\ p.buf = g.buf /\ p.tx = g.tx
              /\ p.rx \in {g.rx, CountedIf(g.rx)}
      BY <2>5
    <3> HIDE DEF f
    <3>3. /\ AllSound([queue EXCEPT ![c] = p], type)
          /\ type[c] = "queue" =>
                 /\ AllSeen(queue, type)[c] # <<>>
                 /\ AllSeen([queue EXCEPT ![c] = p], type)
                       = [AllSeen(queue, type) EXCEPT ![c] = Tail(@)]
      BY <3>1, <3>2, Removed, SMTT(60)
    <3> QED BY <2>1, <3>3
  <2> QED BY <1>1, <1>2, <1>5, <2>1, <2>2, <2>6, TakenKept
<1>10. CASE NotifyISR(i.to, i.v) \/ UnparkFromISR(i.to)
  <2>1. queue' = queue BY <1>10 DEF NotifyISR, UnparkFromISR
  <2> QED BY <1>6, <2>1
<1> QED BY <1>3, <1>7, <1>8, <1>9, <1>10 DEF QueueFromISR

----------------------------------------------------------------------------
(* The calls of tasks.c, event groups and timers: no item of a user moves. *)

\* What a task goes on with: the call that follows, or the first of its program.
Going(r, t, sc) ==
    /\ DOMAIN r = ThreadFields
    /\ t \in Caller => /\ r.ip \in 1 .. Len(sc.prog[t])
                       /\ Selected(sc.prog[t][r.ip], r, sc)

\* One task goes on; the others stay where they are.
LEMMA OneThread ==
    ASSUME NEW sc, NEW ths, Threads(ths, sc), NEW t \in Task, NEW r, Going(r, t, sc)
    PROVE  /\ Threads([ths EXCEPT ![t] = r], sc)
           /\ Gots([ths EXCEPT ![t] = r]) = [Gots(ths) EXCEPT ![t] = r.got]
<1> DEFINE p == [ths EXCEPT ![t] = r]
<1>1. DOMAIN p = Task /\ p[t] = r /\ \A u \in Task \ {t} : p[u] = ths[u] BY DEF Threads
<1> HIDE DEF p
<1>2. Threads(p, sc) BY <1>1 DEF Threads, Going, Caller
<1>3. Gots(p) = [Gots(ths) EXCEPT ![t] = r.got] BY <1>1 DEF Gots
<1> QED BY <1>2, <1>3 DEF p

\* A task that returns from anything but a select has a legal call to make next.
LEMMA FollowingGoes ==
    ASSUME QueuesInv, NEW t \in Caller, NEW res, NEW last,
           Call(t).op # "select"
    PROVE  LET r == Start(Following(t, res), res, last)
           IN  Going(r, t, Scenario[scn]) /\ r.got = res
<1> DEFINE r == Start(Following(t, res), res, last)
           p == Scenario[scn].prog[t]
           ths == [th EXCEPT ![t] = r]
<1>1. Len(p) \in Nat \ {0} /\ th[t].ip \in 1 .. Len(p) BY CallIsLegal DEF QueuesInv
<1>2. \A i \in 1 .. Len(p) :
            \/ Legal(Scenario[scn].type, p[i])
            \/ /\ p[i].op = "receive" /\ p[i].q = "selected"
               /\ i > 1 /\ p[i - 1].op = "select"
  BY ScenariosAreLegal DEF Caller, QueuesInv
<1>3. DOMAIN r = ThreadFields /\ r.ip = Following(t, res) /\ r.got = res
  BY DEF Start, ThreadFields
<1>4. "selected" \notin Queue BY FreeRTOSConstants
<1>5. Following(t, res) = 1 \/ Following(t, res) = (th[t].ip % Len(p)) + 1 BY DEF Following
<1>6. th[t].ip % Len(p) = IF th[t].ip < Len(p) THEN th[t].ip ELSE 0
  <2>1. PICK n \in Nat \ {0} : n = Len(p) BY <1>1
  <2>2. PICK i \in 0 .. n - 1 : i + 1 = th[t].ip BY <1>1, <2>1
  <2>3. (i + 1) % n = IF i + 1 < n THEN i + 1 ELSE 0 BY Next1
  <2> HIDE DEF p
  <2> QED BY <2>1, <2>2, <2>3
<1>7. Call(t) = p[th[t].ip] BY DEF Call
<1> HIDE DEF p, r
<1>8. r.ip \in 1 .. Len(p) /\ (r.ip > 1 => r.ip - 1 = th[t].ip)
  BY <1>1, <1>3, <1>5, <1>6
<1>9. Selected(p[r.ip], r, Scenario[scn])
  <2> SUFFICES ASSUME p[r.ip].op = "receive", p[r.ip].q = "selected" PROVE FALSE
    BY DEF Selected
  <2>1. ~Legal(Scenario[scn].type, p[r.ip]) BY <1>4 DEF Legal, Channels
  <2>2. r.ip > 1 /\ p[r.ip - 1].op = "select" BY <1>2, <1>8, <2>1
  <2> QED BY <1>7, <1>8, <2>2
<1>10. Going(r, t, Scenario[scn]) BY <1>3, <1>8, <1>9 DEF Going, p
<1> QED BY <1>3, <1>10 DEF r

\* A task that is created starts with a legal call.
LEMMA FirstGoes ==
    ASSUME NEW s \in DOMAIN Scenario, NEW t
    PROVE  Going(Start(1, "none", 0), t, Scenario[s]) /\ Start(1, "none", 0).got = "none"
<1> DEFINE r == Start(1, "none", 0)
           p == Scenario[s].prog[t]
<1>1. DOMAIN r = ThreadFields /\ r.ip = 1 /\ r.got = "none" BY DEF Start, ThreadFields
<1> HIDE DEF r
<1>2. ASSUME t \in Caller PROVE 1 \in 1 .. Len(p) /\ Selected(p[1], r, Scenario[s])
  <2>1. Len(p) \in Nat \ {0}
        /\ \A i \in 1 .. Len(p) :
              \/ Legal(Scenario[s].type, p[i])
              \/ /\ p[i].op = "receive" /\ p[i].q = "selected"
                 /\ i > 1 /\ p[i - 1].op = "select"
    BY <1>2, ScenariosAreLegal DEF Caller
  <2> HIDE DEF p
  <2>2. 1 \in 1 .. Len(p) BY <2>1
  <2>3. Legal(Scenario[s].type, p[1]) BY <2>1, <2>2
  <2>4. ~(p[1].op = "receive" /\ p[1].q = "selected")
    BY <2>3, FreeRTOSConstants DEF Legal, Channels
  <2> QED BY <2>2, <2>4 DEF Selected
<1>3. Going(r, t, Scenario[s]) BY <1>1, <1>2 DEF Going
<1> QED BY <1>1, <1>3 DEF r

\* A task that something else happens to keeps its call.
LEMMA CutThreads ==
    ASSUME NEW sc, Threads(th, sc), NEW u
    PROVE  /\ Threads(Cut(u, th), sc) /\ Gots(Cut(u, th)) = Gots(th)
           /\ \A w \in Task : /\ DOMAIN Cut(u, th)[w] = ThreadFields
                              /\ Cut(u, th)[w].ip = th[w].ip
                              /\ Cut(u, th)[w].got = th[w].got
                              /\ Cut(u, th)[w].cmd = th[w].cmd
<1> DEFINE p == Cut(u, th)
<1>1. DOMAIN p = Task BY DEF Cut, Threads
<1>2. ASSUME NEW w \in Task
      PROVE  DOMAIN p[w] = ThreadFields /\ p[w].ip = th[w].ip /\ p[w].got = th[w].got
             /\ p[w].cmd = th[w].cmd
  <2>1. DOMAIN th[w] = ThreadFields /\ w \in DOMAIN th BY DEF Threads
  <2>2. p[w] = IF w = u THEN [th[w] EXCEPT !.cut = TRUE] ELSE th[w] BY <2>1 DEF Cut
  <2> HIDE DEF p
  <2> QED BY <2>1, <2>2 DEF ThreadFields
<1> HIDE DEF p
<1>3. Threads(p, sc) /\ Gots(p) = Gots(th) BY <1>1, <1>2 DEF Threads, Selected, Gots, Caller
<1> QED BY <1>2, <1>3 DEF p

\* A task whose wait is cut short by another stays within its call.
LEMMA CutKept ==
    ASSUME QueuesInv, scn' = scn, queue' = queue, NEW u, NEW t \in Task, NEW r,
           th' = [Cut(u, th) EXCEPT ![t] = r], DOMAIN r = ThreadFields,
           r.ip = th[t].ip, r.got = th[t].got, r.cmd = th[t].cmd
    PROVE  Kept
<1>1. /\ Threads(Cut(u, th), Scenario[scn]) /\ Gots(Cut(u, th)) = Gots(th)
      /\ Threads(th, Scenario[scn])
  BY CutThreads DEF QueuesInv
<1>2. Going(r, t, Scenario[scn]) BY <1>1 DEF Going, Threads, Selected
<1>3. /\ Threads(th', Scenario[scn])
      /\ Gots(th') = [Gots(th) EXCEPT ![t] = th[t].got]
  <2>1. Threads([Cut(u, th) EXCEPT ![t] = r], Scenario[scn]) BY <1>1, <1>2, OneThread
  <2>2. Gots([Cut(u, th) EXCEPT ![t] = r]) = [Gots(Cut(u, th)) EXCEPT ![t] = r.got]
    BY <1>1 DEF Gots, Threads
  <2> QED BY <1>1, <2>1, <2>2
<1>4. Gots(th') = Gots(th) BY <1>3 DEF Gots
<1>5. QueuesInv OBVIOUS
<1> QED BY <1>3, <1>4, <1>5, QueueKept

\* The commands for the timer service task are nobody's items.
LEMMA TimerQueueSound ==
    ASSUME NEW type, NEW qs, AllSound(qs, type), NEW p, Commanding(p)
    PROVE  /\ AllSound([qs EXCEPT ![TimerQueue] = p], type)
           /\ AllSeen([qs EXCEPT ![TimerQueue] = p], type) = AllSeen(qs, type)
BY QueueConstants DEF AllSound, AllSeen, Channels

\* A command for a timer is posted ...
LEMMA CommandPosted ==
    ASSUME Commanding(queue[TimerQueue]), ~IsFull(TimerQueue), NEW c, c.timer \in Timer
    PROVE  Commanding(CopyTo(TimerQueue, c, "send"))
<1> DEFINE q == queue[TimerQueue]
           n == Length[TimerQueue]
           p == AtBack(q, TimerQueue, c)
<1>1. TimerQueue \in Queue /\ n \in Nat \ {0} BY QueueConstants
<1>2. DOMAIN q = QueueFields /\ q.type = "queue" /\ Ring(q, n) BY DEF Commanding
<1>3. q.n \in Nat /\ q.n < n BY <1>1, <1>2 DEF Ring, IsFull
<1>4. CopyTo(TimerQueue, c, "send") = p BY <1>2 DEF CopyTo, IsMutex
<1>5. Ring(p, n) /\ Line(p, n) = Append(Line(q, n), c) BY <1>1, <1>2, <1>3, BackOfLine
<1>6. DOMAIN p = QueueFields /\ p.type = "queue" /\ p.n = q.n + 1
  BY <1>2 DEF AtBack, QueueFields
<1>7. Line(q, n) = [i \in 1 .. q.n |-> Nth(q, n, i)] /\ Len(Line(q, n)) = q.n
  BY <1>1, <1>2, LineNth
<1>8. \A i \in 1 .. q.n : Line(q, n)[i].timer \in Timer BY DEF Commanding
<1> HIDE DEF p, q, n
<1>9. ASSUME NEW i \in 1 .. p.n PROVE Line(p, n)[i].timer \in Timer
  <2>1. CASE i \in 1 .. q.n
    <3>1. Line(p, n)[i] = Line(q, n)[i] BY <1>3, <1>5, <1>7, <2>1
    <3> QED BY <1>8, <2>1, <3>1
  <2>2. CASE i = q.n + 1
    <3>1. Line(p, n)[i] = c BY <1>3, <1>5, <1>7, <2>2
    <3> QED BY <3>1
  <2> QED BY <1>3, <1>6, <2>1, <2>2
<1> QED BY <1>4, <1>5, <1>6, <1>9 DEF Commanding, n

\* ... and taken.
LEMMA CommandTaken ==
    ASSUME Commanding(queue[TimerQueue]), ~IsEmpty(TimerQueue)
    PROVE  /\ Commanding(CopyFrom(TimerQueue).rest)
           /\ CopyFrom(TimerQueue).item.timer \in Timer
<1> DEFINE q == queue[TimerQueue]
           n == Length[TimerQueue]
           x == (q.r + 1) % n
           p == [q EXCEPT !.n = @ - 1, !.r = x]
<1>1. n \in Nat \ {0} BY QueueConstants
<1>2. DOMAIN q = QueueFields /\ q.type = "queue" /\ Ring(q, n) BY DEF Commanding
<1>3. q.n \in Nat \ {0} BY <1>1, <1>2 DEF Ring, IsEmpty
<1>4. CopyFrom(TimerQueue).rest = p /\ CopyFrom(TimerQueue).item = q.buf[x] BY DEF CopyFrom
<1>5. DOMAIN p = QueueFields /\ p.type = "queue" /\ p.n = q.n - 1 /\ p.r = x /\ p.w = q.w
      /\ p.buf = q.buf
  <2> HIDE DEF x
  <2> QED BY <1>2 DEF QueueFields
<1> HIDE DEF p
<1>6. /\ Ring(p, n) /\ Line(q, n) # <<>> /\ q.buf[x] = Head(Line(q, n))
      /\ Line(p, n) = Tail(Line(q, n))
  BY <1>1, <1>2, <1>3, <1>5, HeadOfLine
<1>7. Line(q, n) = [i \in 1 .. q.n |-> Nth(q, n, i)] /\ Len(Line(q, n)) = q.n
  BY <1>1, <1>2, LineNth
<1>8. \A i \in 1 .. q.n : Line(q, n)[i].timer \in Timer BY DEF Commanding
<1> HIDE DEF q, n, x
<1>9. q.buf[x].timer \in Timer
  <2>1. 1 \in 1 .. q.n /\ Head(Line(q, n)) = Line(q, n)[1] BY <1>3, <1>7
  <2> QED BY <1>6, <1>8, <2>1
<1>10. ASSUME NEW i \in 1 .. p.n PROVE Line(p, n)[i].timer \in Timer
  <2>1. i + 1 \in 1 .. q.n BY <1>3, <1>5
  <2>2. Line(p, n)[i] = Line(q, n)[i + 1] BY <1>3, <1>5, <1>6, <1>7, <2>1
  <2> QED BY <1>8, <2>1, <2>2
<1> QED BY <1>4, <1>5, <1>6, <1>9, <1>10 DEF Commanding, n

\* The timer service task remembers a command.
LEMMA CommandKept ==
    ASSUME QueuesInv, scn' = scn, NEW type, type = Scenario[scn].type,
           AllSound(queue', type), AllSeen(queue', type) = AllSeen(queue, type),
           NEW t \in Caller, Call(t).op # "receive", NEW r, th' = [th EXCEPT ![t] = r],
           DOMAIN r = ThreadFields, r.ip = th[t].ip, r.got = th[t].got
    PROVE  Kept
<1>1. Threads(th, Scenario[scn]) /\ QueuesInv /\ t \in Task BY DEF QueuesInv, Caller
<1>2. Going(r, t, Scenario[scn]) BY <1>1 DEF Going, Threads, Selected, Call
<1>3. /\ Threads(th', Scenario[scn])
      /\ Gots(th') = [Gots(th) EXCEPT ![t] = th[t].got]
  <2>1. Threads([th EXCEPT ![t] = r], Scenario[scn]) BY <1>1, <1>2, OneThread
  <2>2. Gots([th EXCEPT ![t] = r]) = [Gots(th) EXCEPT ![t] = r.got]
    BY <1>1 DEF Gots, Threads
  <2> QED BY <1>1, <2>1, <2>2
<1>4. Gots(th') = Gots(th) BY <1>3 DEF Gots
<1> QED BY <1>1, <1>3, <1>4, SeenKept

\* A task that starts, made by t.
LEMMA StartKept ==
    ASSUME QueuesInv, scn' = scn, queue' = queue, NEW t \in Task, NEW u \in Task,
           Threads(th', Scenario[scn]), Gots(th') = [Gots(th) EXCEPT ![t] = "ok", ![u] = "none"]
    PROVE  Kept
<1> DEFINE type == Scenario[scn].type
<1>1. AllSound(queue, type) /\ AllSound(queue', type)
      /\ AllSeen(queue', type) = AllSeen(queue, type)
  BY DEF QueuesInv
<1>2. QueuesInv' BY <1>1 DEF QueuesInv
<1> HIDE DEF type
<1>3. Buffer!Next BY <1>1, JoinStep
<1> QED BY <1>2, <1>3 DEF Kept

\* Every call about tasks leaves the queues alone.
LEMMA TaskStepKept == ASSUME QueuesInv, TaskStep PROVE Kept
<1> DEFINE t == k.cur
<1>1. CASE Delay
  <2> DEFINE r == [th[t] EXCEPT !.pc = "resume", !.set = TRUE, !.yield = TRUE, !.then = "awake"]
  <2>1. scn' = scn /\ queue' = queue /\ th' = [th EXCEPT ![t] = r] BY <1>1 DEF Delay
  <2>2. DOMAIN r = DOMAIN th[t] /\ \A f \in DOMAIN th[t] \ Progress : r[f] = th[t][f]
    BY DEF Progress
  <2> HIDE DEF t, r
  <2>3. OnlyMoves(t, Progress) BY <2>1, <2>2 DEF OnlyMoves
  <2> QED BY <2>1, <2>3, MoveKept
<1>2. CASE DelayUntil
  <2> DEFINE w == (th[t].last + Call(t).wait) % TickMod
             r == [th[t] EXCEPT !.pc = "resume", !.set = TRUE, !.yield = TRUE, !.then = "awake",
                                !.last = w]
  <2>1. scn' = scn /\ queue' = queue /\ th' = [th EXCEPT ![t] = r] BY <1>2, Zenon DEF DelayUntil
  <2> HIDE DEF w
  <2>2. DOMAIN r = DOMAIN th[t] /\ \A f \in DOMAIN th[t] \ Progress : r[f] = th[t][f]
    BY DEF Progress
  <2> HIDE DEF t, r
  <2>3. OnlyMoves(t, Progress) BY <2>1, <2>2 DEF OnlyMoves
  <2> QED BY <2>1, <2>3, MoveKept
<1>3. CASE Awake
  <2>1. At("awake", {"delay", "until", "set", "sync", "wait", "park", "abort"})
        /\ scn' = scn /\ queue' = queue /\ Return(t, "ok")
    BY <1>3 DEF Awake
  <2>2. t \in Caller /\ Call(t).op # "select" BY <2>1, Making
  <2> QED BY <2>1, <2>2, PlainReturnKept
<1>4. CASE NotifyTake
  <2> DEFINE r == [th[t] EXCEPT !.pc = "taken", !.set = TRUE]
  <2>1. scn' = scn /\ queue' = queue /\ th' = [th EXCEPT ![t] = r] BY <1>4, Zenon DEF NotifyTake
  <2>2. DOMAIN r = DOMAIN th[t] /\ \A f \in DOMAIN th[t] \ Progress : r[f] = th[t][f]
    BY DEF Progress
  <2> HIDE DEF t, r
  <2>3. OnlyMoves(t, Progress) BY <2>1, <2>2 DEF OnlyMoves
  <2> QED BY <2>1, <2>3, MoveKept
<1>5. CASE NotifyTaken
  <2> DEFINE r == IF k.note[t] = Zero THEN "failed" ELSE "ok"
  <2>1. At("taken", {"notified"}) /\ scn' = scn /\ queue' = queue /\ Return(t, r)
        /\ r \in {"ok", "failed"}
    BY <1>5 DEF NotifyTaken
  <2>2. t \in Caller /\ Call(t).op # "select" BY <2>1, Making
  <2> HIDE DEF r
  <2> QED BY <2>1, <2>2, PlainReturnKept
<1>6. CASE NotifyTask
  <2>1. At("try", {"notify"}) /\ scn' = scn /\ queue' = queue /\ Return(t, "ok")
    BY <1>6 DEF NotifyTask
  <2>2. t \in Caller /\ Call(t).op # "select" BY <2>1, Making
  <2> QED BY <2>1, <2>2, PlainReturnKept
<1>7. CASE Park
  <2> DEFINE u == Call(t).to
             r == [Cut(u, th)[t] EXCEPT !.pc = "parked"]
  <2>1. At("try", {"park"}) /\ scn' = scn /\ queue' = queue /\ th' = [Cut(u, th) EXCEPT ![t] = r]
    BY <1>7 DEF Park
  <2>2. t \in Task BY <2>1, Making
  <2>3. DOMAIN Cut(u, th)[t] = ThreadFields /\ Cut(u, th)[t].ip = th[t].ip
        /\ Cut(u, th)[t].got = th[t].got /\ Cut(u, th)[t].cmd = th[t].cmd
    BY <2>2, CutThreads DEF QueuesInv
  <2>4. DOMAIN r = ThreadFields /\ r.ip = th[t].ip /\ r.got = th[t].got /\ r.cmd = th[t].cmd
    BY <2>3 DEF ThreadFields
  <2> HIDE DEF r, u
  <2> QED BY <2>1, <2>2, <2>4, CutKept
<1>8. CASE ParkDone
  <2> DEFINE p == IF Call(t).to = t THEN "yield" ELSE "awake"
             r == [th[t] EXCEPT !.pc = p, !.then = "awake"]
  <2>1. scn' = scn /\ queue' = queue /\ th' = [th EXCEPT ![t] = r] BY <1>8 DEF ParkDone
  <2>2. DOMAIN r = DOMAIN th[t] /\ \A f \in DOMAIN th[t] \ Progress : r[f] = th[t][f]
    BY DEF Progress
  <2> HIDE DEF t, r
  <2>3. OnlyMoves(t, Progress) BY <2>1, <2>2 DEF OnlyMoves
  <2> QED BY <2>1, <2>3, MoveKept
<1>9. CASE Unpark
  <2>1. At("try", {"unpark"}) /\ scn' = scn /\ queue' = queue /\ Return(t, "ok")
    BY <1>9, Zenon DEF Unpark
  <2>2. t \in Caller /\ Call(t).op # "select" BY <2>1, Making
  <2> QED BY <2>1, <2>2, PlainReturnKept
<1>10. CASE SetPriority
  <2>1. At("try", {"priority"}) /\ scn' = scn /\ queue' = queue /\ Return(t, "ok")
    BY <1>10, Zenon DEF SetPriority
  <2>2. t \in Caller /\ Call(t).op # "select" BY <2>1, Making
  <2> QED BY <2>1, <2>2, PlainReturnKept
<1>11. CASE Abort
  <2> DEFINE r == [th[t] EXCEPT !.pc = "look"]
  <2>1. scn' = scn /\ queue' = queue /\ th' = [th EXCEPT ![t] = r] BY <1>11 DEF Abort
  <2>2. DOMAIN r = DOMAIN th[t] /\ \A f \in DOMAIN th[t] \ Progress : r[f] = th[t][f]
    BY DEF Progress
  <2> HIDE DEF t, r
  <2>3. OnlyMoves(t, Progress) BY <2>1, <2>2 DEF OnlyMoves
  <2> QED BY <2>1, <2>3, MoveKept
<1>12. CASE AbortLook
  <2> DEFINE r == IF Blocked(Call(t).to) THEN [th[t] EXCEPT !.pc = "cut"]
                  ELSE [th[t] EXCEPT !.pc = "resume", !.then = "refused"]
  <2>1. scn' = scn /\ queue' = queue /\ th' = [th EXCEPT ![t] = r]
    BY <1>12, Zenon DEF AbortLook
  <2>2. DOMAIN r = DOMAIN th[t] /\ \A f \in DOMAIN th[t] \ Progress : r[f] = th[t][f]
    BY DEF Progress
  <2> HIDE DEF t, r
  <2>3. OnlyMoves(t, Progress) BY <2>1, <2>2 DEF OnlyMoves
  <2> QED BY <2>1, <2>3, MoveKept
<1>13. CASE AbortCut
  <2> DEFINE u == Call(t).to
             r == [Cut(u, th)[t] EXCEPT !.pc = "resume", !.then = "awake"]
  <2>1. At("cut", {"abort"}) /\ scn' = scn /\ queue' = queue
        /\ th' = [Cut(u, th) EXCEPT ![t] = r]
    BY <1>13, Zenon DEF AbortCut
  <2>2. t \in Task BY <2>1, Making
  <2>3. DOMAIN Cut(u, th)[t] = ThreadFields /\ Cut(u, th)[t].ip = th[t].ip
        /\ Cut(u, th)[t].got = th[t].got /\ Cut(u, th)[t].cmd = th[t].cmd
    BY <2>2, CutThreads DEF QueuesInv
  <2>4. DOMAIN r = ThreadFields /\ r.ip = th[t].ip /\ r.got = th[t].got /\ r.cmd = th[t].cmd
    BY <2>3 DEF ThreadFields
  <2> HIDE DEF r, u
  <2> QED BY <2>1, <2>2, <2>4, CutKept
<1>14. CASE Delete
  <2> DEFINE u == Call(t).to
             p == [Cut(u, th)[u] EXCEPT !.pc = "yield", !.then = "deleted"]
             r == Start(Following(t, "ok"), "ok", Cut(u, th)[t].last)
  <2>1. At("try", {"delete"}) /\ scn' = scn /\ queue' = queue BY <1>14, Zenon DEF Delete
  <2>2. t \in Caller /\ t \in Task /\ Call(t).op # "select" BY <2>1, Making
  <2>3. /\ Threads(Cut(u, th), Scenario[scn]) /\ Gots(Cut(u, th)) = Gots(th)
        /\ \A w \in Task : /\ DOMAIN Cut(u, th)[w] = ThreadFields
                           /\ Cut(u, th)[w].ip = th[w].ip
                           /\ Cut(u, th)[w].got = th[w].got
                           /\ Cut(u, th)[w].cmd = th[w].cmd
    BY CutThreads DEF QueuesInv
  <2>4. CASE Return(t, "failed") BY <2>1, <2>2, <2>4, PlainReturnKept
  <2>5. CASE u = t /\ th' = [Cut(u, th) EXCEPT ![u].pc = "yield", ![u].then = "deleted"]
    <3>1. u \in Task /\ DOMAIN Cut(u, th) = Task BY <2>2, <2>3, <2>5 DEF Threads
    <3>2. th' = [Cut(u, th) EXCEPT ![u] = p] BY <2>5, <3>1
    <3>3. DOMAIN p = ThreadFields /\ p.ip = th[u].ip /\ p.got = th[u].got /\ p.cmd = th[u].cmd
      BY <2>3, <3>1 DEF ThreadFields
    <3> HIDE DEF p, u
    <3> QED BY <2>1, <3>1, <3>2, <3>3, CutKept
  <2>6. CASE th' = [Cut(u, th) EXCEPT ![t] = r]
    <3>1. Going(r, t, Scenario[scn]) /\ r.got = "ok" BY <2>2, FollowingGoes
    <3> HIDE DEF r, u
    <3>2. Threads(th', Scenario[scn]) BY <2>2, <2>3, <2>6, <3>1, OneThread
    <3>3. Gots(th') = [Gots(th) EXCEPT ![t] = "ok"]
      BY <2>2, <2>3, <2>6, <3>1 DEF Gots, Threads
    <3> QED BY <2>1, <2>2, <3>2, <3>3, QueueKept
  <2> QED BY <1>14, <2>4, <2>5, <2>6, Zenon DEF Delete
<1>15. CASE Bury
  <2>1. scn' = scn /\ queue' = queue /\ th' = th BY <1>15 DEF Bury
  <2>2. Threads(th', Scenario[scn]) /\ Gots(th') = Gots(th) BY <2>1 DEF QueuesInv
  <2>3. Idle \in Task BY KernelConstants
  <2> QED BY <2>1, <2>2, <2>3, QueueKept
<1>16. CASE Create
  <2> DEFINE u == Call(t).to
             r == Start(Following(t, "ok"), "ok", th[t].last)
             p == Start(1, "none", 0)
             one == [th EXCEPT ![t] = r]
  <2>1. At("try", {"create"}) /\ scn' = scn /\ queue' = queue BY <1>16, Zenon DEF Create
  <2>2. t \in Caller /\ t \in Task /\ Call(t).op = "create" BY <2>1, Making
  <2>3. u \in Task
    <3>1. Legal(Scenario[scn].type, Call(t)) BY <2>1, <2>2, Making
    <3> QED BY <2>2, <3>1 DEF Legal, OnTask
  <2>4. CASE Return(t, "failed") BY <2>1, <2>2, <2>4, PlainReturnKept
  <2>5. CASE th' = [th EXCEPT ![t] = r, ![u] = p]
    <3>1. Going(r, t, Scenario[scn]) /\ r.got = "ok" BY <2>2, FollowingGoes
    <3>2. Going(p, u, Scenario[scn]) /\ p.got = "none" BY FirstGoes DEF QueuesInv
    <3>3. th' = [one EXCEPT ![u] = p] BY <2>5
    <3> HIDE DEF r, p, u
    <3>4. Threads(th, Scenario[scn]) BY DEF QueuesInv
    <3>5. Threads(one, Scenario[scn]) BY <2>2, <3>1, <3>4, OneThread
    <3>6. Gots(one) = [Gots(th) EXCEPT ![t] = "ok"] BY <2>2, <3>1, <3>4 DEF Gots, Threads
    <3> HIDE DEF one
    <3>7. Threads(th', Scenario[scn]) BY <2>3, <3>2, <3>3, <3>5, OneThread
    <3>8. Gots(th') = [Gots(one) EXCEPT ![u] = "none"]
      BY <2>3, <3>2, <3>3, <3>5 DEF Gots, Threads
    <3>9. Gots(th') = [Gots(th) EXCEPT ![t] = "ok", ![u] = "none"] BY <3>6, <3>8
    <3> QED BY <2>1, <2>2, <2>3, <3>7, <3>9, StartKept
  <2> QED BY <1>16, <2>4, <2>5, Zenon DEF Create
<1> QED BY <1>1, <1>2, <1>3, <1>4, <1>5, <1>6, <1>7, <1>8, <1>9, <1>10, <1>11, <1>12, <1>13,
           <1>14, <1>15, <1>16 DEF TaskStep

\* Every call about event groups leaves the queues alone.
LEMMA EventStepKept ==
    ASSUME QueuesInv, SetEvents \/ ClearEvents \/ WaitEvents \/ SyncEvents \/ EventsAwaited
    PROVE  Kept
<1> DEFINE t == k.cur
<1>1. CASE SetEvents
  <2> DEFINE r == [th[t] EXCEPT !.pc = "resume", !.then = "awake"]
  <2>1. scn' = scn /\ queue' = queue /\ th' = [th EXCEPT ![t] = r] BY <1>1, Zenon DEF SetEvents
  <2>2. DOMAIN r = DOMAIN th[t] /\ \A f \in DOMAIN th[t] \ Progress : r[f] = th[t][f]
    BY DEF Progress
  <2> HIDE DEF t, r
  <2>3. OnlyMoves(t, Progress) BY <2>1, <2>2 DEF OnlyMoves
  <2> QED BY <2>1, <2>3, MoveKept
<1>2. CASE ClearEvents
  <2>1. At("try", {"clear"}) /\ scn' = scn /\ queue' = queue /\ Return(t, "ok")
    BY <1>2 DEF ClearEvents
  <2>2. t \in Caller /\ Call(t).op # "select" BY <2>1, Making
  <2> QED BY <2>1, <2>2, PlainReturnKept
<1>3. ASSUME NEW sleep, scn' = scn, queue' = queue, WaitingFor(sleep) PROVE Kept
  <2> DEFINE then == IF sleep THEN "told" ELSE "awake"
             r == [th[t] EXCEPT !.pc = "resume", !.set = sleep, !.yield = sleep, !.then = then]
  <2>1. scn' = scn /\ queue' = queue /\ th' = [th EXCEPT ![t] = r]
    BY <1>3, Zenon DEF WaitingFor
  <2> HIDE DEF then
  <2>2. DOMAIN r = DOMAIN th[t] /\ \A f \in DOMAIN th[t] \ Progress : r[f] = th[t][f]
    BY DEF Progress
  <2> HIDE DEF t, r
  <2>3. OnlyMoves(t, Progress) BY <2>1, <2>2 DEF OnlyMoves
  <2> QED BY <2>1, <2>3, MoveKept
<1>4. CASE WaitEvents \/ SyncEvents
  <2>1. scn' = scn /\ queue' = queue /\ \E sleep : WaitingFor(sleep)
    BY <1>4, Zenon DEF WaitEvents, SyncEvents
  <2> QED BY <1>3, <2>1
<1>5. CASE EventsAwaited
  <2> DEFINE r == IF k.evval[t].use = "set" \/ ConditionMet(bits, Wanted(t))
                  THEN "ok" ELSE "failed"
  <2>1. At("told", {"wait", "sync"}) /\ scn' = scn /\ queue' = queue /\ Return(t, r)
    BY <1>5, Zenon DEF EventsAwaited
  <2>2. r \in {"ok", "failed"} OBVIOUS
  <2>3. t \in Caller /\ Call(t).op # "select" BY <2>1, Making
  <2> HIDE DEF r
  <2> QED BY <2>1, <2>2, <2>3, PlainReturnKept
<1> QED BY <1>1, <1>2, <1>4, <1>5

\* A command to the daemon moves no item of a queue the tasks use.
LEMMA CommandStepKept == ASSUME QueuesInv, Command \/ Post PROVE Kept
<1> DEFINE t == k.cur
           type == Scenario[scn].type
<1>1. CASE Command
  <2> DEFINE r == [th[t] EXCEPT !.pc = "post", !.at = k.tick]
  <2>1. At("try", {"command"}) /\ scn' = scn /\ queue' = queue
        /\ th' = [th EXCEPT ![t].pc = "post", ![t].at = k.tick]
    BY <1>1 DEF Command
  <2>2. t \in DOMAIN th BY <2>1, Making DEF QueuesInv, Threads
  <2>3. th' = [th EXCEPT ![t] = r] BY <2>1, <2>2
  <2>4. DOMAIN r = DOMAIN th[t] /\ \A f \in DOMAIN th[t] \ Progress : r[f] = th[t][f]
    BY DEF Progress
  <2> HIDE DEF t, r
  <2>5. OnlyMoves(t, Progress) BY <2>3, <2>4 DEF OnlyMoves
  <2> QED BY <2>1, <2>5, MoveKept
<1>2. CASE Post
  <2> DEFINE c == [cmd |-> Call(t).cmd, timer |-> Call(t).timer,
                   value |-> IF Call(t).cmd = "change" THEN Call(t).period ELSE th[t].at]
             p == CopyTo(TimerQueue, c, "send")
  <2>1. At("post", {"command"}) /\ scn' = scn BY <1>2 DEF Post
  <2>2. t \in Caller /\ Call(t).op # "select" BY <2>1, Making
  <2>3. QueuesInv /\ AllSound(queue, type) BY DEF QueuesInv
  <2>4. type = Scenario[scn].type OBVIOUS
  <2>5. CASE queue' = queue /\ Return(t, "failed") BY <2>1, <2>2, <2>5, PlainReturnKept
  <2>6. CASE queue' = [queue EXCEPT ![TimerQueue] = p] /\ Return(t, "ok") /\ ~IsFull(TimerQueue)
    <3>0. Commanding(p)
      <4>1. Call(t).timer \in Timer BY <2>1, Making DEF Legal
      <4>2. Commanding(queue[TimerQueue]) BY <2>3 DEF AllSound
      <4> QED BY <2>6, <4>1, <4>2, CommandPosted
    <3> HIDE DEF type, p
    <3>1. AllSound(queue', type) /\ AllSeen(queue', type) = AllSeen(queue, type)
      BY <2>3, <2>6, <3>0, TimerQueueSound
    <3> QED BY <2>1, <2>2, <2>3, <2>4, <2>6, <3>1, ReturnKept DEF Return
  <2> QED BY <1>2, <2>5, <2>6, Zenon DEF Post
<1> QED BY <1>1, <1>2

\* Every step of the timer daemon leaves the queues alone.
LEMMA DaemonStepKept ==
    ASSUME QueuesInv, DaemonLook \/ DaemonFire \/ DaemonReceive \/ DaemonObey
    PROVE  Kept
<1> DEFINE t == k.cur
           type == Scenario[scn].type
<1>1. QueuesInv /\ AllSound(queue, type) /\ type = Scenario[scn].type BY DEF QueuesInv
<1>2. CASE DaemonLook
  <2>1. scn' = scn /\ queue' = queue BY <1>2 DEF DaemonLook
  <2>2. ASSUME NEW a, LookAround(a) PROVE OnlyMoves(t, Progress)
    <3>1. \E y, s, n : th' = [th EXCEPT ![t] = [th[t] EXCEPT
              !.pc = "resume", !.at = k.tick, !.yield = y, !.set = s, !.then = n]]
      BY <2>2, Zenon DEF LookAround
    <3>2. PICK y, s, n : th' = [th EXCEPT ![t] = [th[t] EXCEPT
              !.pc = "resume", !.at = k.tick, !.yield = y, !.set = s, !.then = n]]
      BY <3>1
    <3> DEFINE r == [th[t] EXCEPT !.pc = "resume", !.at = k.tick, !.yield = y, !.set = s,
                                  !.then = n]
    <3>3. DOMAIN r = DOMAIN th[t] /\ \A f \in DOMAIN th[t] \ Progress : r[f] = th[t][f]
      BY DEF Progress
    <3>4. th' = [th EXCEPT ![t] = r] BY <3>2
    <3> HIDE DEF t, r
    <3> QED BY <3>3, <3>4 DEF OnlyMoves
  <2>3. OnlyMoves(t, Progress) BY <1>2, <2>2, Zenon DEF DaemonLook
  <2> QED BY <1>1, <2>1, <2>3, MoveKept
<1>3. CASE DaemonFire
  <2> DEFINE r == [th[t] EXCEPT !.pc = "commands"]
  <2>1. scn' = scn /\ queue' = queue /\ th' = [th EXCEPT ![t] = r]
    BY <1>3, Zenon DEF DaemonFire
  <2>2. DOMAIN r = DOMAIN th[t] /\ \A f \in DOMAIN th[t] \ Progress : r[f] = th[t][f]
    BY DEF Progress
  <2> HIDE DEF t, r
  <2>3. OnlyMoves(t, Progress) BY <2>1, <2>2 DEF OnlyMoves
  <2> QED BY <2>1, <2>3, MoveKept
<1>4. CASE DaemonReceive
  <2>1. At("commands", {"timers"}) /\ scn' = scn BY <1>4 DEF DaemonReceive
  <2>2. t \in Caller /\ t \in Task /\ Call(t).op # "receive" /\ DOMAIN th[t] = ThreadFields
    BY <2>1, Making
  <2>3. Threads(th, Scenario[scn]) BY DEF QueuesInv
  <2>4. CASE queue' = queue /\ th' = [th EXCEPT ![t] = Start(1, "none", 0)]
    <3> DEFINE p == Start(1, "none", 0)
    <3>1. Going(p, t, Scenario[scn]) /\ p.got = "none" BY FirstGoes DEF QueuesInv
    <3> HIDE DEF p
    <3>2. Threads([th EXCEPT ![t] = p], Scenario[scn]) BY <2>2, <2>3, <3>1, OneThread
    <3>3. Gots([th EXCEPT ![t] = p]) = [Gots(th) EXCEPT ![t] = "ok", ![t] = "none"]
      BY <2>2, <2>3, <3>1 DEF Gots, Threads
    <3> QED BY <1>1, <2>1, <2>2, <2>4, <3>2, <3>3, StartKept DEF p
  <2>5. ASSUME NEW p, NEW item, queue' = [queue EXCEPT ![TimerQueue] = p],
               th' = [th EXCEPT ![t].pc = "obey", ![t].cmd = item], Commanding(p)
        PROVE  Kept
    <3> DEFINE r == [th[t] EXCEPT !.pc = "obey", !.cmd = item]
    <3>1. th' = [th EXCEPT ![t] = r] BY <2>2, <2>3, <2>5 DEF Threads
    <3>2. DOMAIN r = ThreadFields /\ r.ip = th[t].ip /\ r.got = th[t].got
      BY <2>2 DEF ThreadFields
    <3> HIDE DEF r, type
    <3>3. AllSound(queue', type) /\ AllSeen(queue', type) = AllSeen(queue, type)
      BY <1>1, <2>5, TimerQueueSound
    <3> QED BY <1>1, <2>1, <2>2, <3>1, <3>2, <3>3, CommandKept
  <2>6. ~IsEmpty(TimerQueue) => Commanding(CopyFrom(TimerQueue).rest)
    BY <1>1, CommandTaken DEF AllSound
  <2> QED BY <1>4, <2>4, <2>5, <2>6, Zenon DEF DaemonReceive
<1>5. CASE DaemonObey
  <2> DEFINE r == [th[t] EXCEPT !.pc = "commands", !.cmd = Null]
  <2>1. At("obey", {"timers"}) /\ scn' = scn /\ queue' = queue
        /\ th' = [th EXCEPT ![t].pc = "commands", ![t].cmd = Null]
    BY <1>5, Zenon DEF DaemonObey
  <2>2. t \in Caller /\ t \in Task /\ Call(t).op # "receive" /\ DOMAIN th[t] = ThreadFields
    BY <2>1, Making
  <2>3. th' = [th EXCEPT ![t] = r] BY <2>1, <2>2 DEF QueuesInv, Threads
  <2>4. DOMAIN r = ThreadFields /\ r.ip = th[t].ip /\ r.got = th[t].got
    BY <2>2 DEF ThreadFields
  <2> HIDE DEF r, type
  <2>5. AllSound(queue', type) /\ AllSeen(queue', type) = AllSeen(queue, type)
    BY <1>1, <2>1
  <2> QED BY <1>1, <2>1, <2>2, <2>3, <2>4, <2>5, CommandKept
<1> QED BY <1>2, <1>3, <1>4, <1>5

\* Every step keeps the invariant, and is one of the MessageQueue or none.
LEMMA StepKept == ASSUME QueuesInv, [Next]_vars PROVE Kept
<1>1. CASE QueueStep
  BY <1>1, TrySendKept, TryReceiveKept, TryTakeKept, TryPeekKept, TakeAgainKept, GiveAgainKept,
     SuspendKept, LockKept, TestKept, UnlockKept, RefusedKept, RecheckKept, UndoKept,
     ResetKept, AddToSetKept, LeaveSetKept, LeftSetKept
     DEF QueueStep
<1>2. CASE TaskStep BY <1>2, TaskStepKept
<1>3. CASE Resume \/ Yield BY <1>3, ResumeKept, YieldKept
<1>4. CASE SetEvents \/ ClearEvents \/ WaitEvents \/ SyncEvents \/ EventsAwaited
  BY <1>4, EventStepKept
<1>5. CASE Command \/ Post BY <1>5, CommandStepKept
<1>6. CASE DaemonLook \/ DaemonFire \/ DaemonReceive \/ DaemonObey BY <1>6, DaemonStepKept
<1>7. CASE Interrupt BY <1>7, InterruptKept
<1>8. CASE Tick \/ UNCHANGED vars
  <2>1. scn' = scn /\ queue' = queue /\ th' = th BY <1>8 DEF Tick, vars
  <2>2. Threads(th', Scenario[scn]) /\ Gots(th') = Gots(th) BY <2>1 DEF QueuesInv
  <2>3. Idle \in Task BY KernelConstants
  <2> QED BY <2>1, <2>2, <2>3, QueueKept
<1> QED BY <1>1, <1>2, <1>3, <1>4, <1>5, <1>6, <1>7, <1>8 DEF Next

\* A queue as it is created.
LEMMA NewQueueSound ==
    ASSUME NEW type, NEW c \in Channels, type[c] = "mutex" => Length[c] = 1
    PROVE  Sound(NewQueue(c, type[c]), c, type) /\ Seen(NewQueue(c, type[c]), c, type) = <<>>
<1> DEFINE n == Length[c]
           p == NewQueue(c, type[c])
<1>1. n \in Nat \ {0} BY LengthType
<1>2. DOMAIN p = QueueFields /\ p.type = type[c] /\ p.tx = Unlocked /\ p.rx = Unlocked /\ p.set = Null
      /\ p.r = n - 1 /\ p.w = 0 /\ DOMAIN p.buf = 0 .. n - 1
      /\ p.n = (IF type[c] = "mutex" THEN 1 ELSE 0) /\ p.holder = Null
  BY DEF NewQueue, QueueFields
<1> HIDE DEF p, n
<1>3. CASE type[c] \in {"queue", "set"}
  <2>1. p.n = 0 BY <1>2, <1>3
  <2>2. Indices(p, n) BY <1>1, <1>2, <2>1 DEF Indices, QueueFields
  <2>3. Ring(p, n) BY <1>1, <2>2, RingIndices
  <2>4. Line(p, n) = <<>> BY <2>1 DEF Line
  <2> QED BY <1>2, <1>3, <2>1, <2>3, <2>4 DEF Sound, Seen, Locks, p, n
<1>4. CASE type[c] \notin {"queue", "set"}
  <2>1. CountSound(p, c, type) BY <1>1, <1>2, <1>4 DEF CountSound, n
  <2> QED BY <1>2, <1>4, <2>1 DEF Sound, Seen, Locks, p
<1> QED BY <1>3, <1>4

\* And so is the queue of the commands.
LEMMA NewCommands == Commanding(NewQueue(TimerQueue, "queue"))
<1> DEFINE n == Length[TimerQueue]
           p == NewQueue(TimerQueue, "queue")
<1>1. n \in Nat \ {0} BY QueueConstants
<1>2. DOMAIN p = QueueFields /\ p.type = "queue" /\ p.r = n - 1 /\ p.w = 0
      /\ DOMAIN p.buf = 0 .. n - 1 /\ p.n = 0
  BY DEF NewQueue, QueueFields
<1> HIDE DEF p, n
<1>3. Indices(p, n) BY <1>1, <1>2 DEF Indices, QueueFields
<1>4. Ring(p, n) BY <1>1, <1>3, RingIndices
<1> QED BY <1>2, <1>4 DEF Commanding, p, n

\* The kernel starts with empty queues, and every task with a legal call.
LEMMA InitKept == ASSUME Init PROVE QueuesInv /\ Buffer!Init
<1> DEFINE type == Scenario[scn].type
<1>1. scn \in DOMAIN Scenario /\ queue = [c \in Queue |-> NewQueue(c, type[c])]
      /\ th = [t \in Task |-> Start(1, "none", 0)]
  BY Zenon DEF Init
<1>2. Threads(th, Scenario[scn]) /\ Gots(th) = [t \in Task |-> "none"]
  <2> DEFINE p == Start(1, "none", 0)
  <2>1. \A t : Going(p, t, Scenario[scn]) /\ p.got = "none" BY <1>1, FirstGoes
  <2>2. th = [t \in Task |-> p] BY <1>1
  <2> HIDE DEF p
  <2> QED BY <2>1, <2>2 DEF Threads, Going, Gots, Caller
<1>3. \A c \in Channels : type[c] = "mutex" => Length[c] = 1
  BY <1>1, QueueConstants DEF Channels
<1> HIDE DEF type
<1>4. AllSound(queue, type)
  <2>1. \A c \in Channels : queue[c] = NewQueue(c, type[c]) BY <1>1 DEF Channels
  <2>2. type[TimerQueue] = "queue" BY <1>1, ScenariosAreLegal DEF type
  <2>3. TimerQueue \in Queue BY QueueConstants
  <2>4. queue[TimerQueue] = NewQueue(TimerQueue, "queue") BY <1>1, <2>2, <2>3
  <2>5. Commanding(queue[TimerQueue]) BY <2>4, NewCommands
  <2> QED BY <1>1, <1>3, <2>1, <2>5, NewQueueSound DEF AllSound
<1>5. AllSeen(queue, type) = [c \in Channels |-> <<>>]
  <2>1. \A c \in Channels : queue[c] = NewQueue(c, type[c]) BY <1>1 DEF Channels
  <2> QED BY <1>3, <2>1, NewQueueSound DEF AllSeen
<1>6. Buffer!Init BY <1>2, <1>4, <1>5, Mapped DEF Buffer!Init, Gots
<1> QED BY <1>1, <1>2, <1>4, <1>6 DEF QueuesInv, type

\* Whatever the tasks, their priorities, their calls and the interrupts: each item
\* that is sent to a queue of the kernel leaves it once, in the order of the sends
\* but for those to its front, and a call that is handed an item has taken or read
\* just that one.  The queues of queue.c implement the MessageQueue.
THEOREM QueuesAreFirstInFirstOut == Spec => FirstInFirstOut
<1>1. Init => QueuesInv /\ Buffer!Init BY InitKept
<1>2. QueuesInv /\ [Next]_vars => QueuesInv' /\ [Buffer!Next]_(Buffer!vars)
  BY StepKept DEF Kept
<1> QED BY <1>1, <1>2, PTL DEF Spec, FirstInFirstOut, Buffer!Spec

\* Whatever the tasks, their priorities, their calls and the interrupts: no queue,
\* set, semaphore or mutex ever counts more than its length, and a mutex is free
\* exactly when it has no holder, so that a task that takes one takes it from nobody.
THEOREM CountsAreRight == Spec => []CountsRight
<1>1. Init => QueuesInv BY InitKept
<1>2. QueuesInv /\ [Next]_vars => QueuesInv' BY StepKept DEF Kept
<1>3. QueuesInv => CountsRight
  <2> SUFFICES ASSUME QueuesInv, NEW c \in Channels
               PROVE  /\ queue[c].n \in 0 .. Length[c]
                      /\ IsMutex(c) => (queue[c].holder = Null <=> queue[c].n = 1)
    BY DEF CountsRight
  <2> DEFINE type == Scenario[scn].type
  <2>1. Sound(queue[c], c, type) BY DEF QueuesInv, AllSound
  <2> HIDE DEF type
  <2>2. CASE type[c] \in {"queue", "set"} BY <2>1, <2>2 DEF Sound, Ring, IsMutex
  <2>3. CASE type[c] \notin {"queue", "set"} BY <2>1, <2>3 DEF Sound, CountSound, IsMutex
  <2> QED BY <2>2, <2>3
<1> QED BY <1>1, <1>2, <1>3, PTL DEF Spec

----------------------------------------------------------------------------
(* Who holds a mutex.                                                      *)

SameHolders(a, b) == \A m \in Channels : b[m].holder = a[m].holder
Freeing(a, b) == \A m \in Channels : b[m].holder \in {a[m].holder, Null}
Hands ==
    \A m \in Channels : IsMutex(m) =>
        \/ queue'[m].holder \in {queue[m].holder, Null}
        \/ queue[m].holder = Null /\ queue'[m].holder = k.cur

\* A change of one queue changes the holder of no other.
LEMMA OneHolder ==
    ASSUME NEW qs, DOMAIN qs = Queue, NEW c \in Channels, NEW p
    PROVE  /\ p.holder = qs[c].holder => SameHolders(qs, [qs EXCEPT ![c] = p])
           /\ p.holder \in {qs[c].holder, Null} => Freeing(qs, [qs EXCEPT ![c] = p])
BY DEF SameHolders, Freeing, Channels

\* A set that is told of an item has no holder to change.
LEMMA ArrivedHolders ==
    ASSUME NEW type, NEW kk, NEW qs, AllSound(qs, type), NEW c \in Channels
    PROVE  SameHolders(qs, Arrived(kk, qs, c).queue)
<1> DEFINE s == qs[c].set
<1>1. CASE s = Null
  <2>1. Arrived(kk, qs, c).queue = qs BY <1>1 DEF Arrived, Told
  <2> QED BY <2>1 DEF SameHolders
<1>2. CASE s # Null
  <2> DEFINE a == AtBack(qs[s], s, c)
             p == [a EXCEPT !.tx = CountedIf(@)]
             u == IF qs[s].tx = Unlocked THEN UnblockFirst(kk, Rx(s))
                                         ELSE [k |-> kk, switch |-> FALSE]
  <2>1. s \in Channels /\ DOMAIN qs = Queue /\ DOMAIN qs[s] = QueueFields
    BY <1>2 DEF AllSound, Sound
  <2>2. Arrived(kk, qs, c) = NotifySet(kk, qs, c, s) BY <1>2 DEF Arrived
  <2>3. \/ NotifySet(kk, qs, c, s) = Untold(kk, qs)
        \/ NotifySet(kk, qs, c, s) = Told(u, [qs EXCEPT ![s] = p])
    <3>1. CASE qs[s].n = Length[s] BY <3>1 DEF NotifySet
    <3>2. CASE qs[s].n # Length[s] BY <3>2, Zenon DEF NotifySet
    <3> QED BY <3>1, <3>2
  <2>4. a.holder = qs[s].holder BY <2>1 DEF AtBack, QueueFields
  <2>5. p.holder = a.holder
    <3>1. DOMAIN a = QueueFields BY <2>1 DEF AtBack
    <3> HIDE DEF a
    <3> QED BY <3>1 DEF QueueFields
  <2> HIDE DEF a, p, u
  <2>6. \/ Arrived(kk, qs, c).queue = qs
        \/ Arrived(kk, qs, c).queue = [qs EXCEPT ![s] = p]
    <3>1. Untold(kk, qs).queue = qs BY DEF Untold
    <3>2. Told(u, [qs EXCEPT ![s] = p]).queue = [qs EXCEPT ![s] = p] BY DEF Told
    <3> QED BY <2>2, <2>3, <3>1, <3>2
  <2>7. SameHolders(qs, [qs EXCEPT ![s] = p]) BY <2>1, <2>4, <2>5, OneHolder
  <2> QED BY <2>6, <2>7 DEF SameHolders
<1> QED BY <1>1, <1>2

\* Nor does the unlocking of a queue change a holder.
LEMMA ToldAllHolders ==
    ASSUME NEW type, NEW s, AllSound(s.queue, type), NEW c \in Channels, NEW lock \in Locks
    PROVE  SameHolders(s.queue, ToldAll(s, c, lock).queue)
<1> DEFINE Same(a) == AllSound(a.queue, type) /\ SameHolders(s.queue, a.queue)
<1>1. ASSUME NEW a, Same(a) PROVE Same(TellLater(a, c))
  <2>1. TellLater(a, c).queue = Arrived(a.k, a.queue, c).queue BY DEF TellLater, Noted, Untold
  <2>2. AllSound(Arrived(a.k, a.queue, c).queue, type) BY <1>1, ArrivedSound
  <2>3. SameHolders(a.queue, Arrived(a.k, a.queue, c).queue) BY <1>1, ArrivedHolders
  <2> QED BY <1>1, <2>1, <2>2, <2>3 DEF SameHolders
<1>2. CASE lock \in Nat
  <2>1. PICK f : /\ f[0] = s /\ ToldAll(s, c, lock) = f[lock]
                 /\ \A i \in Nat : i < lock => f[i + 1] = TellLater(f[i], c)
    BY <1>2, ToldAllIs
  <2> DEFINE T == {i \in Nat : i <= lock => Same(f[i])}
  <2>2. 0 \in T BY <2>1 DEF SameHolders
  <2> HIDE DEF Same
  <2>3. ASSUME NEW i \in Nat, i \in T PROVE i + 1 \in T BY <1>1, <1>2, <2>1, <2>3
  <2>4. Nat \subseteq T
    <3> HIDE DEF T
    <3> QED BY <2>2, <2>3, Induction
  <2>5. Same(ToldAll(s, c, lock)) BY <1>2, <2>1, <2>4
  <2> QED BY <2>5 DEF Same
<1>3. CASE lock \notin Nat BY <1>3 DEF ToldAll, Locks, Unlocked, SameHolders
<1> QED BY <1>2, <1>3

\* An item that goes in, whoever is told of it, frees a mutex at most.
LEMMA CopiedHolders ==
    ASSUME NEW type, AllSound(queue, type), NEW c \in Channels, NEW v, NEW pos
    PROVE  CopyTo(c, v, pos).holder \in {queue[c].holder, Null}
<1>1. DOMAIN queue[c] = QueueFields BY DEF AllSound, Sound
<1> QED BY <1>1 DEF CopyTo, AtFront, AtBack, QueueFields

\* What is copied by a task and told of.
LEMMA SentHolders ==
    ASSUME NEW type, NEW g, NEW qs, AllSound(qs, type), NEW c \in Channels, NEW over
    PROVE  SameHolders(qs, Sent(g, qs, c, over).queue)
<1>1. \/ Sent(g, qs, c, over) = Untold(g.k, qs)
      \/ Sent(g, qs, c, over) = Arrived(g.k, qs, c)
      \/ Sent(g, qs, c, over) = Told(g, qs)
  BY DEF Sent
<1>2. Untold(g.k, qs).queue = qs /\ Told(g, qs).queue = qs BY DEF Untold, Told
<1> QED BY <1>1, <1>2, ArrivedHolders DEF SameHolders

\* What is copied by an interrupt and told of.
LEMMA FromISRHolders ==
    ASSUME NEW type, NEW qs, AllSound(qs, type), NEW c \in Channels, NEW told,
           FromISR(qs, c, told)
    PROVE  SameHolders(qs, queue')
<1>1. CASE queue' = qs BY <1>1 DEF SameHolders
<1>2. CASE queue' = Arrived(k, qs, c).queue BY <1>2, ArrivedHolders
<1>3. CASE queue' = [qs EXCEPT ![c].tx = Counted(@)]
  <2> DEFINE p == [qs[c] EXCEPT !.tx = Counted(qs[c].tx)]
  <2>1. queue' = [qs EXCEPT ![c] = p] BY <1>3
  <2>2. DOMAIN qs = Queue /\ DOMAIN qs[c] = QueueFields BY DEF AllSound, Sound
  <2>3. p.holder = qs[c].holder BY <2>2 DEF QueueFields
  <2> HIDE DEF p
  <2> QED BY <2>1, <2>2, <2>3, OneHolder
<1> QED BY <1>1, <1>2, <1>3 DEF FromISR, Effect

\* A step that changes one queue, and its holder only to none.
LEMMA OneFreed ==
    ASSUME QueuesInv, NEW c \in Channels, NEW p, queue' = [queue EXCEPT ![c] = p],
           p.holder \in {queue[c].holder, Null}
    PROVE  Hands
<1>1. DOMAIN queue = Queue BY DEF QueuesInv, AllSound
<1>2. Freeing(queue, queue') BY <1>1, OneHolder
<1> QED BY <1>2 DEF Freeing, Hands

\* A step that leaves the queues alone, or changes the commands of the timers.
LEMMA NoHands ==
    ASSUME QueuesInv, queue' = queue \/ \E p : queue' = [queue EXCEPT ![TimerQueue] = p]
    PROVE  Hands
<1>1. DOMAIN queue = Queue BY DEF QueuesInv, AllSound
<1>2. \A m \in Channels : queue'[m] = queue[m] BY <1>1 DEF Channels
<1> QED BY <1>2 DEF Hands

\* The fields of the queue a call is about.
LEMMA FieldsOf ==
    ASSUME QueuesInv, NEW c \in Channels PROVE DOMAIN queue[c] = QueueFields /\ c \in DOMAIN queue
BY DEF QueuesInv, AllSound, Sound, Channels

\* A task that takes a mutex takes it from nobody.
LEMMA TakeHands == ASSUME QueuesInv, TryTake PROVE Hands
<1> DEFINE type == Scenario[scn].type
           t == k.cur
           c == Obj(t)
           p == [queue[c] EXCEPT !.n = @ - 1, !.holder = IF IsMutex(c) THEN t ELSE @,
                                 !.depth = IF Call(t).op = "retake" THEN @ + 1 ELSE @]
<1>1. At("try", {"take", "retake"}) BY DEF TryTake
<1>2. {"take", "retake"} \subseteq QueueOps \union {"reset", "join", "leave"}
  BY DEF QueueOps, Receiving
<1>3. c \in Channels BY <1>1, <1>2, Object
<1>4. CASE Block(t) BY <1>4, NoHands DEF Block
<1>5. CASE ~IsEmpty(c) /\ queue' = [queue EXCEPT ![c] = p]
  <2>1. Sound(queue[c], c, type) /\ DOMAIN queue = Queue BY <1>3 DEF QueuesInv, AllSound
  <2>2. DOMAIN queue[c] = QueueFields /\ queue[c].type = type[c] BY <2>1 DEF Sound
  <2>3. CASE ~IsMutex(c)
    <3>1. p.holder = queue[c].holder BY <2>2, <2>3 DEF QueueFields
    <3> HIDE DEF p
    <3> QED BY <1>3, <1>5, <3>1, OneFreed
  <2>4. CASE IsMutex(c)
    <3>1. type[c] = "mutex" BY <2>2, <2>4 DEF IsMutex
    <3>2. queue[c].n \in 0 .. 1 /\ (queue[c].holder = Null <=> queue[c].n = 1)
      BY <2>1, <3>1 DEF Sound, CountSound
    <3>3. queue[c].holder = Null BY <1>5, <3>2 DEF IsEmpty
    <3>4. p.holder = t BY <2>2, <2>4 DEF QueueFields
    <3> HIDE DEF p, c
    <3>5. queue'[c] = p /\ \A m \in Channels \ {c} : queue'[m] = queue[m]
      BY <1>3, <1>5, <2>1 DEF Channels
    <3> QED BY <3>3, <3>4, <3>5 DEF Hands
  <2> QED BY <2>3, <2>4
<1> QED BY <1>4, <1>5, Zenon DEF TryTake

\* A send, or the gift of a mutex.
LEMMA SendHands == ASSUME QueuesInv, TrySend PROVE Hands
<1> DEFINE type == Scenario[scn].type
           t == k.cur
           c == Obj(t)
           op == Call(t).op
           v == Call(t).v
           over == op = "overwrite"
           qs == [queue EXCEPT ![c] = CopyTo(c, v, op)]
<1>1. At("try", Sending) BY DEF TrySend
<1>2. CASE Block(t) BY <1>2, NoHands DEF Block
<1>3. CASE ~(IsFull(c) /\ ~over) /\ Effect(Sent(Given(c), qs, c, over))
  <2>1. Sending \subseteq QueueOps \union {"reset", "join", "leave"} BY DEF QueueOps
  <2>2. /\ c \in Channels /\ op \in Sending
        /\ op \in {"send", "front", "overwrite"} => type[c] = "queue"
        /\ op = "give" => type[c] \in {"semaphore", "mutex"}
        /\ op = "regive" => type[c] = "mutex"
        /\ op \in {"send", "front", "overwrite"} => v \in Value /\ (v \in Urgent <=> op # "send")
        /\ op = "overwrite" => Length[c] = 1
    BY <1>1, <2>1, Object, Making
  <2>3. op # "overwrite" => queue[c].n # Length[c] BY <1>3 DEF IsFull
  <2>4. AllSound(queue, type) BY DEF QueuesInv
  <2>5. queue' = Sent(Given(c), qs, c, over).queue BY <1>3 DEF Effect
  <2> HIDE DEF type, t, c, op, v, over
  <2>6. FitsIn(c, v, op, type) BY <2>2, <2>3 DEF FitsIn, Sending
  <2>7. AllSound(qs, type) /\ AllSeen(qs, type) = ItemIn(AllSeen(queue, type), c, v, op, type)
    BY <2>4, <2>6, Copied DEF FitsIn
  <2>8. CopyTo(c, v, op).holder \in {queue[c].holder, Null} BY <2>2, <2>4, CopiedHolders
  <2>9. Freeing(queue, qs)
    <3>1. DOMAIN queue = Queue BY <2>4 DEF AllSound
    <3> QED BY <2>2, <2>8, <3>1, OneHolder
  <2> HIDE DEF qs
  <2>10. SameHolders(qs, queue') BY <2>2, <2>5, <2>7, SentHolders
  <2> QED BY <2>9, <2>10 DEF Freeing, SameHolders, Hands
<1> QED BY <1>2, <1>3 DEF TrySend

\* The other calls that change a queue: none of them changes a holder.
LEMMA CallHands ==
    ASSUME QueuesInv, TryReceive \/ TakeAgain \/ GiveAgain \/ Lock \/ Reset \/ AddToSet \/ LeftSet
    PROVE  Hands
<1> DEFINE t == k.cur
           c == Obj(t)
           q == queue[c]
<1> USE DEF QueueOps, Receiving, Sending
<1>1. ASSUME NEW where, NEW ops, At(where, ops),
             ops \subseteq QueueOps \union {"reset", "join", "leave"}
      PROVE  c \in Channels /\ DOMAIN q = QueueFields /\ c \in DOMAIN queue
  BY <1>1, Object, FieldsOf
<1>2. CASE TryReceive
  <2>1. CASE Block(t) BY <2>1, NoHands DEF Block
  <2>2. CASE queue' = [queue EXCEPT ![c] = CopyFrom(c).rest]
    <3>1. c \in Channels /\ DOMAIN q = QueueFields BY <1>1, <1>2 DEF TryReceive
    <3>2. CopyFrom(c).rest.holder = q.holder BY <3>1 DEF CopyFrom, QueueFields
    <3> QED BY <2>2, <3>1, <3>2, OneFreed
  <2> QED BY <1>2, <2>1, <2>2 DEF TryReceive
<1>3. CASE TakeAgain
  <2> DEFINE p == [q EXCEPT !.depth = @ + 1]
  <2>1. c \in Channels /\ DOMAIN q = QueueFields BY <1>1, <1>3 DEF TakeAgain
  <2>2. queue' = [queue EXCEPT ![c] = p] BY <1>3 DEF TakeAgain
  <2>3. p.holder = q.holder BY <2>1 DEF QueueFields
  <2> HIDE DEF p
  <2> QED BY <2>1, <2>2, <2>3, OneFreed
<1>4. CASE GiveAgain
  <2> DEFINE p == [q EXCEPT !.depth = @ - 1]
  <2>1. c \in Channels /\ DOMAIN q = QueueFields BY <1>1, <1>4 DEF GiveAgain
  <2>2. queue' = [queue EXCEPT ![c] = p] \/ queue' = queue BY <1>4 DEF GiveAgain
  <2>3. p.holder = q.holder BY <2>1 DEF QueueFields
  <2> HIDE DEF p
  <2> QED BY <2>1, <2>2, <2>3, OneFreed, NoHands
<1>5. CASE Lock
  <2> DEFINE p == [q EXCEPT !.rx = IF @ = Unlocked THEN 0 ELSE @,
                            !.tx = IF @ = Unlocked THEN 0 ELSE @]
  <2>1. c \in Channels /\ DOMAIN q = QueueFields /\ c \in DOMAIN queue
    BY <1>1, <1>5 DEF Lock
  <2>2. queue' = [queue EXCEPT ![c].rx = IF @ = Unlocked THEN 0 ELSE @,
                               ![c].tx = IF @ = Unlocked THEN 0 ELSE @]
    BY <1>5, Zenon DEF Lock
  <2>3. queue' = [queue EXCEPT ![c] = p] BY <2>1, <2>2
  <2>4. p.holder = q.holder BY <2>1 DEF QueueFields
  <2> HIDE DEF p
  <2> QED BY <2>1, <2>3, <2>4, OneFreed
<1>6. CASE Reset
  <2>1. c \in Channels /\ DOMAIN q = QueueFields BY <1>1, <1>6 DEF Reset
  <2>2. queue' = [queue EXCEPT ![c] = Emptied(q, c)] BY <1>6 DEF Reset
  <2>3. Emptied(q, c).holder = q.holder BY <2>1 DEF Emptied, QueueFields
  <2> QED BY <2>1, <2>2, <2>3, OneFreed
<1>7. CASE AddToSet
  <2> DEFINE p == [q EXCEPT !.set = Call(t).to]
  <2>1. c \in Channels /\ DOMAIN q = QueueFields BY <1>1, <1>7 DEF AddToSet
  <2>2. queue' = [queue EXCEPT ![c] = p] \/ queue' = queue BY <1>7 DEF AddToSet
  <2>3. p.holder = q.holder BY <2>1 DEF QueueFields
  <2> HIDE DEF p
  <2> QED BY <2>1, <2>2, <2>3, OneFreed, NoHands
<1>8. CASE LeftSet
  <2> DEFINE p == [q EXCEPT !.set = Null]
  <2>1. c \in Channels /\ DOMAIN q = QueueFields BY <1>1, <1>8 DEF LeftSet
  <2>2. queue' = [queue EXCEPT ![c] = p] BY <1>8 DEF LeftSet
  <2>3. p.holder = q.holder BY <2>1 DEF QueueFields
  <2> HIDE DEF p
  <2> QED BY <2>1, <2>2, <2>3, OneFreed
<1> QED BY <1>2, <1>3, <1>4, <1>5, <1>6, <1>7, <1>8

\* prvUnlockQueue.
LEMMA UnlockHands == ASSUME QueuesInv, Unlock PROVE Hands
<1> DEFINE type == Scenario[scn].type
           c == Obj(k.cur)
           s == [k |-> k, queue |-> queue]
           qs == ToldAll(s, c, queue[c].tx).queue
           p == [qs[c] EXCEPT !.tx = Unlocked, !.rx = Unlocked]
<1>1. At("unlock", QueueOps) BY DEF Unlock
<1>2. c \in Channels BY <1>1, Object
<1>3. AllSound(queue, type) /\ queue[c].tx \in Locks BY <1>2 DEF QueuesInv, AllSound, Sound
<1>4. queue' = [qs EXCEPT ![c].tx = Unlocked, ![c].rx = Unlocked] BY DEF Unlock, Unlocking
<1>5. s.queue = queue OBVIOUS
<1> HIDE DEF s, type
<1>6. AllSound(qs, type) /\ SameHolders(queue, qs)
  BY <1>2, <1>3, <1>5, ToldAllSound, ToldAllHolders
<1> HIDE DEF qs
<1>7. DOMAIN qs = Queue /\ DOMAIN qs[c] = QueueFields /\ c \in Queue
  BY <1>2, <1>6 DEF AllSound, Sound, Channels
<1>8. queue' = [qs EXCEPT ![c] = p] BY <1>4, <1>7
<1>9. p.holder = qs[c].holder BY <1>7 DEF QueueFields
<1> HIDE DEF p
<1>10. SameHolders(qs, queue') BY <1>2, <1>7, <1>8, <1>9, OneHolder
<1> QED BY <1>6, <1>10 DEF SameHolders, Hands

\* No interrupt takes a mutex.
LEMMA InterruptHands == ASSUME QueuesInv, Interrupt PROVE Hands
<1> DEFINE type == Scenario[scn].type
<1>1. AllSound(queue, type) /\ scn \in DOMAIN Scenario BY DEF QueuesInv
<1>2. PICK i \in Scenario[scn].isr : \/ QueueFromISR(i)
                                     \/ i.op = "notify" /\ NotifyISR(i.to, i.v)
                                     \/ i.op = "unpark" /\ UnparkFromISR(i.to)
  BY DEF Interrupt
<1>3. Legal(type, i) /\ (i.op = "give" => type[i.q] = "semaphore")
  BY <1>1, ScenariosAreLegal
<1> HIDE DEF type
<1>4. CASE i.op \in {"send", "overwrite"} /\ SendFromISR(i.q, i.v, i.op)
  <2> DEFINE qs == [queue EXCEPT ![i.q] = CopyTo(i.q, i.v, i.op)]
             told == queue[i.q].set # Null /\ i.op = "overwrite" /\ ~IsEmpty(i.q)
  <2>1. FitsIn(i.q, i.v, i.op, type)
    BY <1>3, <1>4 DEF Legal, FitsIn, SendFromISR, IsFull, Channels
  <2>2. FromISR(qs, i.q, told) /\ i.q \in Channels BY <1>4, <2>1 DEF SendFromISR, FitsIn
  <2>3. AllSound(qs, type)
        /\ AllSeen(qs, type) = ItemIn(AllSeen(queue, type), i.q, i.v, i.op, type)
    BY <1>1, <2>1, Copied DEF FitsIn
  <2>4. Freeing(queue, qs)
    <3>1. DOMAIN queue = Queue BY <1>1 DEF AllSound
    <3> QED BY <1>1, <2>2, <3>1, CopiedHolders, OneHolder
  <2> HIDE DEF qs, told
  <2>5. SameHolders(qs, queue') BY <2>2, <2>3, FromISRHolders
  <2> QED BY <2>4, <2>5 DEF Freeing, SameHolders, Hands
<1>5. CASE i.op = "give" /\ GiveFromISR(i.q)
  <2> DEFINE c == i.q
             p == [queue[c] EXCEPT !.n = @ + 1]
             qs == [queue EXCEPT ![c] = p]
  <2>1. c \in Channels /\ type[c] = "semaphore" BY <1>3, <1>5 DEF Legal
  <2>2. Sound(queue[c], c, type) /\ DOMAIN queue = Queue /\ c \in Queue
    BY <1>1, <2>1 DEF AllSound, Channels
  <2>3. DOMAIN p = DOMAIN queue[c] /\ p.type = queue[c].type /\ p.set = queue[c].set
        /\ p.tx \in Locks /\ p.rx \in Locks /\ p.n = queue[c].n + 1 /\ p.holder = queue[c].holder
    BY <2>2 DEF Sound, QueueFields
  <2>4. FromISR(qs, c, FALSE) /\ queue[c].n # Length[c]
    <3>1. [queue EXCEPT ![c].n = @ + 1] = qs BY <2>2
    <3>2. FromISR([queue EXCEPT ![c].n = @ + 1], c, FALSE) /\ ~IsFull(c)
      BY <1>5, Zenon DEF GiveFromISR
    <3> QED BY <3>1, <3>2 DEF IsFull
  <2> HIDE DEF p
  <2>5. CountSound(p, c, type)
    <3>1. CountSound(queue[c], c, type) /\ Length[c] \in Nat
      BY <2>1, <2>2, LengthType DEF Sound
    <3> QED BY <2>1, <2>3, <2>4, <3>1 DEF CountSound
  <2>6. Sound(p, c, type) /\ Seen(p, c, type) = Seen(queue[c], c, type)
    BY <2>1, <2>2, <2>3, <2>5, SameCount
  <2>7. AllSound(qs, type) BY <1>1, <2>1, <2>6, OneQueueSame
  <2>8. SameHolders(queue, qs) BY <2>1, <2>2, <2>3, OneHolder
  <2> HIDE DEF qs
  <2>9. SameHolders(qs, queue') BY <2>1, <2>4, <2>7, FromISRHolders
  <2> QED BY <2>8, <2>9 DEF SameHolders, Hands
<1>6. CASE i.op = "receive" /\ ReceiveFromISR(i.q)
  <2> DEFINE c == i.q
             f == CopyFrom(c).rest
             p == [f EXCEPT !.rx = CountedIf(@)]
  <2>1. c \in Channels BY <1>3, <1>6 DEF Legal
  <2>2. queue' = [queue EXCEPT ![c] = p] BY <1>6 DEF ReceiveFromISR
  <2>3. DOMAIN f = QueueFields /\ f.holder = queue[c].holder
    BY <2>1, FieldsOf DEF CopyFrom, QueueFields
  <2>4. p.holder = f.holder
    <3> HIDE DEF f
    <3> QED BY <2>3 DEF QueueFields
  <2> HIDE DEF p, f
  <2> QED BY <2>1, <2>2, <2>3, <2>4, OneFreed
<1>7. CASE NotifyISR(i.to, i.v) \/ UnparkFromISR(i.to)
  BY <1>7, NoHands DEF NotifyISR, UnparkFromISR
<1> QED BY <1>2, <1>4, <1>5, <1>6, <1>7 DEF QueueFromISR

\* No step of any kind hands a mutex from one holder to another.
LEMMA HandsStep == QueuesInv /\ [Next]_vars => Hands
<1> SUFFICES ASSUME QueuesInv, [Next]_vars PROVE Hands OBVIOUS
<1>1. CASE queue' = queue BY <1>1, NoHands
<1>2. CASE QueueStep
  <2>1. CASE TryPeek
    <3>1. queue' = queue BY <2>1 DEF TryPeek, Block
    <3> QED BY <1>1, <3>1
  <2>2. CASE Suspend \/ Test \/ Refused \/ Recheck \/ Undo \/ LeaveSet
    <3>1. queue' = queue BY <2>2 DEF Suspend, Test, Refused, Recheck, Undo, LeaveSet
    <3> QED BY <1>1, <3>1
  <2> QED BY <1>2, <2>1, <2>2, SendHands, TakeHands, CallHands, UnlockHands DEF QueueStep
<1>3. CASE TaskStep
  <2>1. queue' = queue
    BY <1>3 DEF TaskStep, Delay, DelayUntil, Awake, NotifyTake, NotifyTaken, NotifyTask, Park,
                ParkDone, Unpark, SetPriority, Abort, AbortLook, AbortCut, Delete, Bury, Create
  <2> QED BY <1>1, <2>1
<1>4. CASE Resume \/ Yield \/ SetEvents \/ ClearEvents \/ WaitEvents \/ SyncEvents
           \/ EventsAwaited \/ Command \/ DaemonLook \/ DaemonFire \/ DaemonObey \/ Tick
           \/ UNCHANGED vars
  <2>1. queue' = queue
    BY <1>4 DEF Resume, Yield, SetEvents, ClearEvents, WaitEvents, SyncEvents, EventsAwaited,
                Command, DaemonLook, DaemonFire, DaemonObey, Tick, vars
  <2> QED BY <1>1, <2>1
<1>5. CASE Post \/ DaemonReceive
  <2>1. queue' = queue \/ \E p : queue' = [queue EXCEPT ![TimerQueue] = p]
    BY <1>5 DEF Post, DaemonReceive
  <2> QED BY <2>1, NoHands
<1>6. CASE Interrupt BY <1>6, InterruptHands
<1> QED BY <1>2, <1>3, <1>4, <1>5, <1>6 DEF Next

\* Mutual exclusion, whatever the tasks, their priorities and their calls: a mutex
\* passes from one holder to another only by being free in between, and who gets
\* it is the task that runs.
THEOREM MutexesExclude ==
    Spec => [][\A m \in Channels : IsMutex(m) =>
                  \/ queue'[m].holder \in {queue[m].holder, Null}
                  \/ queue[m].holder = Null /\ queue'[m].holder = k.cur]_vars
<1>1. Init => QueuesInv BY InitKept
<1>2. QueuesInv /\ [Next]_vars => QueuesInv' BY StepKept DEF Kept
<1>3. QueuesInv /\ [Next]_vars =>
         [\A m \in Channels : IsMutex(m) =>
             \/ queue'[m].holder \in {queue[m].holder, Null}
             \/ queue[m].holder = Null /\ queue'[m].holder = k.cur]_vars
  BY HandsStep DEF Hands
<1> QED BY <1>1, <1>2, <1>3, PTL DEF Spec

(***************************************************************************)
(*                         The lists of the tasks                          *)
(***************************************************************************)

\* An item inserted into a sequence.
LEMMA Inserted ==
    ASSUME NEW S, NEW s \in Seq(S), NEW e \in S, NEW i \in 1 .. Len(s) + 1
    PROVE  /\ InsertAt(s, i, e) \in Seq(S) /\ Len(InsertAt(s, i, e)) = Len(s) + 1
           /\ \A j \in 1 .. Len(s) + 1 :
                 InsertAt(s, i, e)[j] = IF j < i THEN s[j] ELSE IF j = i THEN e ELSE s[j - 1]
<1> DEFINE a == SubSeq(s, 1, i - 1)
           c == SubSeq(s, i, Len(s))
<1>1. Len(s) \in Nat /\ \A j \in 1 .. Len(s) : s[j] \in S OBVIOUS
<1>2. a \in Seq(S) /\ Len(a) = i - 1 /\ \A j \in 1 .. i - 1 : a[j] = s[j]
  BY <1>1, SubSeqProperties
<1>3. c \in Seq(S) /\ Len(c) = Len(s) - i + 1 /\ \A j \in 1 .. Len(s) - i + 1 : c[j] = s[i + j - 1]
  BY <1>1, SubSeqProperties
<1>4. <<e>> \in Seq(S) /\ Len(<<e>>) = 1 /\ <<e>>[1] = e OBVIOUS
<1>5. InsertAt(s, i, e) = (a \o <<e>>) \o c BY DEF InsertAt
<1> HIDE DEF a, c
<1>6. a \o <<e>> \in Seq(S) /\ Len(a \o <<e>>) = i
      /\ \A j \in 1 .. i : (a \o <<e>>)[j] = IF j <= i - 1 THEN a[j] ELSE <<e>>[j - (i - 1)]
  BY <1>2, <1>4, ConcatProperties
<1> DEFINE b == a \o <<e>>
<1>7. b \in Seq(S) /\ Len(b) = i /\ \A j \in 1 .. i : b[j] = IF j < i THEN s[j] ELSE e
  BY <1>2, <1>4, <1>6
<1>8. InsertAt(s, i, e) = b \o c BY <1>5
<1> HIDE DEF b
<1>9. /\ b \o c \in Seq(S) /\ Len(b \o c) = Len(b) + Len(c)
      /\ \A j \in 1 .. Len(b) + Len(c) :
            (b \o c)[j] = IF j <= Len(b) THEN b[j] ELSE c[j - Len(b)]
  BY <1>3, <1>7, ConcatProperties
<1>10. Len(b) + Len(c) = Len(s) + 1 BY <1>1, <1>3, <1>7
<1> QED BY <1>1, <1>3, <1>7, <1>8, <1>9, <1>10

\* An item removed from a sequence.
LEMMA Taken ==
    ASSUME NEW S, NEW s \in Seq(S), NEW i \in 1 .. Len(s)
    PROVE  /\ RemoveAt(s, i) \in Seq(S) /\ Len(RemoveAt(s, i)) = Len(s) - 1
           /\ \A j \in 1 .. Len(s) - 1 :
                 RemoveAt(s, i)[j] = IF j < i THEN s[j] ELSE s[j + 1]
<1> DEFINE a == SubSeq(s, 1, i - 1)
           c == SubSeq(s, i + 1, Len(s))
<1>1. Len(s) \in Nat /\ \A j \in 1 .. Len(s) : s[j] \in S OBVIOUS
<1>2. a \in Seq(S) /\ Len(a) = i - 1 /\ \A j \in 1 .. i - 1 : a[j] = s[j]
  BY <1>1, SubSeqProperties
<1>3. c \in Seq(S) /\ Len(c) = Len(s) - i /\ \A j \in 1 .. Len(s) - i : c[j] = s[i + j]
  BY <1>1, SubSeqProperties
<1>4. RemoveAt(s, i) = a \o c BY DEF RemoveAt
<1> HIDE DEF a, c
<1>5. a \o c \in Seq(S) /\ Len(a \o c) = Len(a) + Len(c)
      /\ \A j \in 1 .. Len(a) + Len(c) :
            (a \o c)[j] = IF j <= Len(a) THEN a[j] ELSE c[j - Len(a)]
  BY <1>2, <1>3, ConcatProperties
<1>6. Len(a) + Len(c) = Len(s) - 1 BY <1>1, <1>2, <1>3
<1> QED BY <1>1, <1>2, <1>3, <1>4, <1>5, <1>6

\* The sequences of tasks in which no task is twice.
Lists == {s \in Seq(Task) : IsInjective(s)}

LEMMA ListInserted ==
    ASSUME NEW s \in Lists, NEW t \in Task, ~Contains(s, t), NEW i \in 1 .. Len(s) + 1
    PROVE  /\ InsertAt(s, i, t) \in Lists /\ Len(InsertAt(s, i, t)) = Len(s) + 1
           /\ \A u : Contains(InsertAt(s, i, t), u) <=> Contains(s, u) \/ u = t
<1> DEFINE r == InsertAt(s, i, t)
<1>1. Len(s) \in Nat /\ s \in Seq(Task) /\ DOMAIN s = 1 .. Len(s) BY DEF Lists
<1>0. /\ r \in Seq(Task) /\ Len(r) = Len(s) + 1
      /\ \A j \in 1 .. Len(s) + 1 : r[j] = IF j < i THEN s[j] ELSE IF j = i THEN t ELSE s[j - 1]
  <2>1. s \in Seq(Task) /\ t \in Task /\ i \in 1 .. Len(s) + 1 BY <1>1
  <2> HIDE DEF r
  <2>2. r = InsertAt(s, i, t) BY DEF r
  <2> QED BY <2>1, <2>2, Inserted, SMTT(60)
<1> HIDE DEF r
<1>2. /\ r \in Seq(Task) /\ Len(r) = Len(s) + 1 /\ DOMAIN r = 1 .. Len(s) + 1
      /\ \A j \in 1 .. Len(s) + 1 : r[j] = IF j < i THEN s[j] ELSE IF j = i THEN t ELSE s[j - 1]
  BY <1>0
<1>3. \A a, b \in 1 .. Len(s) : s[a] = s[b] => a = b BY <1>1 DEF Lists, IsInjective
<1>4. \A a \in 1 .. Len(s) : s[a] # t BY DEF Contains
<1>5. ASSUME NEW a \in 1 .. Len(s) + 1, NEW b \in 1 .. Len(s) + 1, r[a] = r[b] PROVE a = b
  BY <1>1, <1>2, <1>3, <1>4, <1>5
<1>6. IsInjective(r) BY <1>2, <1>5 DEF IsInjective
<1>7. ASSUME NEW u, Contains(s, u) PROVE Contains(r, u)
  <2>1. PICK j \in 1 .. Len(s) : s[j] = u BY <1>7 DEF Contains
  <2>2. CASE j < i
    <3>1. j \in 1 .. Len(r) /\ r[j] = u BY <1>1, <1>2, <2>1, <2>2
    <3> QED BY <3>1 DEF Contains
  <2>3. CASE ~(j < i)
    <3>1. j + 1 \in 1 .. Len(r) /\ r[j + 1] = u BY <1>1, <1>2, <2>1, <2>3
    <3> QED BY <3>1 DEF Contains
  <2> QED BY <2>2, <2>3
<1>8. ASSUME NEW u, Contains(r, u), u # t PROVE Contains(s, u)
  <2>1. PICK j \in 1 .. Len(s) + 1 : r[j] = u BY <1>2, <1>8 DEF Contains
  <2>2. CASE j < i
    <3>1. j \in 1 .. Len(s) /\ s[j] = u BY <1>1, <1>2, <2>1, <2>2
    <3> QED BY <3>1 DEF Contains
  <2>3. CASE ~(j < i)
    <3>1. j - 1 \in 1 .. Len(s) /\ s[j - 1] = u BY <1>1, <1>2, <1>8, <2>1, <2>3
    <3> QED BY <3>1 DEF Contains
  <2> QED BY <2>2, <2>3
<1>9. Contains(r, t)
  <2>1. i \in 1 .. Len(r) /\ r[i] = t BY <1>1, <1>2
  <2> QED BY <2>1 DEF Contains
<1> QED BY <1>2, <1>6, <1>7, <1>8, <1>9 DEF Lists, r

\* An item at the end.
LEMMA ListAppended ==
    ASSUME NEW s \in Lists, NEW t \in Task, ~Contains(s, t)
    PROVE  /\ Append(s, t) \in Lists /\ Len(Append(s, t)) = Len(s) + 1
           /\ \A u : Contains(Append(s, t), u) <=> Contains(s, u) \/ u = t
<1>1. Len(s) \in Nat /\ s \in Seq(Task) BY DEF Lists
<1>2. Append(s, t) = InsertAt(s, Len(s) + 1, t)
  <2> DEFINE r == InsertAt(s, Len(s) + 1, t)
  <2>1. /\ r \in Seq(Task) /\ Len(r) = Len(s) + 1
        /\ \A j \in 1 .. Len(s) + 1 : r[j] = IF j < Len(s) + 1 THEN s[j] ELSE t
    BY <1>1, Inserted
  <2>2. /\ Append(s, t) \in Seq(Task) /\ Len(Append(s, t)) = Len(s) + 1
        /\ \A j \in 1 .. Len(s) + 1 : Append(s, t)[j] = IF j < Len(s) + 1 THEN s[j] ELSE t
    BY <1>1
  <2> HIDE DEF r
  <2>3. \A j \in 1 .. Len(r) : r[j] = Append(s, t)[j] BY <2>1, <2>2
  <2>4. r = Append(s, t) BY <2>1, <2>2, <2>3, SeqEqual
  <2> QED BY <2>4 DEF r
<1> QED BY <1>1, <1>2, ListInserted

LEMMA ListRemoved ==
    ASSUME NEW s \in Lists, NEW t
    PROVE  /\ RemoveFirst(s, t) \in Lists
           /\ \A u : Contains(RemoveFirst(s, t), u) <=> Contains(s, u) /\ u # t
           /\ Contains(s, t) => Len(RemoveFirst(s, t)) = Len(s) - 1
           /\ ~Contains(s, t) => Len(RemoveFirst(s, t)) = Len(s)
<1>1. Len(s) \in Nat /\ s \in Seq(Task) /\ DOMAIN s = 1 .. Len(s) BY DEF Lists
<1>2. CASE ~Contains(s, t)
  <2>1. RemoveFirst(s, t) = s BY <1>2 DEF RemoveFirst, Contains
  <2> QED BY <1>2, <2>1
<1>3. CASE Contains(s, t)
  <2> DEFINE i == SelectInSeq(s, LAMBDA v : v = t)
             r == RemoveAt(s, i)
  <2>1. RemoveFirst(s, t) = r BY <1>3 DEF RemoveFirst, Contains
  <2>2. \A a, b \in 1 .. Len(s) : s[a] = s[b] => a = b BY <1>1 DEF Lists, IsInjective
  <2>3. i \in 1 .. Len(s) /\ s[i] = t
    <3>1. PICK j \in 1 .. Len(s) : s[j] = t BY <1>3 DEF Contains
    <3> DEFINE I == {a \in 1 .. Len(s) : s[a] = t}
    <3>2. I = {j} BY <2>2, <3>1
    <3>3. i = IF I # {} THEN Min(I) ELSE 0 BY DEF SelectInSeq
    <3> HIDE DEF I, i
    <3>4. Min({j}) = j BY <3>1 DEF Min
    <3> QED BY <3>1, <3>2, <3>3, <3>4
  <2>4. /\ r \in Seq(Task) /\ Len(r) = Len(s) - 1 /\ DOMAIN r = 1 .. Len(s) - 1
        /\ \A j \in 1 .. Len(s) - 1 : r[j] = IF j < i THEN s[j] ELSE s[j + 1]
    <3> HIDE DEF i
    <3>1. /\ r \in Seq(Task) /\ Len(r) = Len(s) - 1
          /\ \A j \in 1 .. Len(s) - 1 : r[j] = IF j < i THEN s[j] ELSE s[j + 1]
      BY <1>1, <2>3, Taken
    <3> QED BY <3>1
  <2> HIDE DEF r, i
  <2>5. IsInjective(r)
    <3>1. ASSUME NEW a \in 1 .. Len(s) - 1, NEW b \in 1 .. Len(s) - 1, r[a] = r[b] PROVE a = b
      BY <1>1, <2>2, <2>3, <2>4, <3>1
    <3> QED BY <2>4, <3>1 DEF IsInjective
  <2>6. ASSUME NEW u, Contains(s, u), u # t PROVE Contains(r, u)
    <3>1. PICK j \in 1 .. Len(s) : s[j] = u BY <2>6 DEF Contains
    <3>2. CASE j < i
      <4>1. j \in 1 .. Len(r) /\ r[j] = u BY <1>1, <2>3, <2>4, <3>1, <3>2
      <4> QED BY <4>1 DEF Contains
    <3>3. CASE ~(j < i)
      <4>1. j - 1 \in 1 .. Len(r) /\ r[j - 1] = u BY <1>1, <2>3, <2>4, <2>6, <3>1, <3>3
      <4> QED BY <4>1 DEF Contains
    <3> QED BY <3>2, <3>3
  <2>7. ASSUME NEW u, Contains(r, u) PROVE Contains(s, u) /\ u # t
    <3>1. PICK j \in 1 .. Len(s) - 1 : r[j] = u BY <2>4, <2>7 DEF Contains
    <3>2. PICK a \in 1 .. Len(s) : s[a] = u /\ a # i BY <1>1, <2>3, <2>4, <3>1
    <3> QED BY <2>2, <2>3, <3>2 DEF Contains
  <2> QED BY <1>3, <2>1, <2>4, <2>5, <2>6, <2>7 DEF Lists
<1> QED BY <1>2, <1>3

\* The start of a list.
LEMMA ListFront ==
    ASSUME NEW s \in Lists, NEW m \in 0 .. Len(s)
    PROVE  /\ SubSeq(s, 1, m) \in Lists /\ Len(SubSeq(s, 1, m)) = m
           /\ \A i \in 1 .. m : SubSeq(s, 1, m)[i] = s[i]
<1>1. Len(s) \in Nat /\ s \in Seq(Task) /\ DOMAIN s = 1 .. Len(s) BY DEF Lists
<1> DEFINE r == SubSeq(s, 1, m)
<1>2. r \in Seq(Task) /\ Len(r) = m /\ \A i \in 1 .. m : r[i] = s[i] BY <1>1, SubSeqProperties
<1>3. DOMAIN r = 1 .. m BY <1>2
<1> HIDE DEF r
<1>4. IsInjective(r) BY <1>1, <1>2, <1>3 DEF Lists, IsInjective
<1> QED BY <1>2, <1>4 DEF Lists, r

\* The first of a list.
LEMMA ListHead ==
    ASSUME NEW s \in Lists, s # <<>>
    PROVE  /\ Head(s) \in Task /\ Contains(s, Head(s))
           /\ Tail(s) \in Lists
           /\ \A u : Contains(Tail(s), u) <=> Contains(s, u) /\ u # Head(s)
<1>1. Len(s) \in Nat /\ s \in Seq(Task) /\ DOMAIN s = 1 .. Len(s) BY DEF Lists
<1>2. Len(s) > 0 /\ Head(s) = s[1] BY <1>1
<1> DEFINE r == Tail(s)
<1>3. r \in Seq(Task) /\ Len(r) = Len(s) - 1 /\ DOMAIN r = 1 .. Len(s) - 1
      /\ \A j \in 1 .. Len(s) - 1 : r[j] = s[j + 1]
  BY <1>1, <1>2
<1> HIDE DEF r
<1>4. \A a, b \in 1 .. Len(s) : s[a] = s[b] => a = b BY <1>1 DEF Lists, IsInjective
<1>5. IsInjective(r)
  <2>1. ASSUME NEW a \in 1 .. Len(s) - 1, NEW b \in 1 .. Len(s) - 1, r[a] = r[b] PROVE a = b
    BY <1>1, <1>3, <1>4, <2>1
  <2> QED BY <1>3, <2>1 DEF IsInjective
<1>6. 1 \in 1 .. Len(s) /\ s[1] \in Task BY <1>1, <1>2
<1>7. ASSUME NEW u, Contains(s, u), u # s[1] PROVE Contains(r, u)
  <2>1. PICK j \in 1 .. Len(s) : s[j] = u BY <1>7 DEF Contains
  <2>2. j - 1 \in 1 .. Len(r) /\ r[j - 1] = u BY <1>1, <1>3, <1>7, <2>1
  <2> QED BY <2>2 DEF Contains
<1>8. ASSUME NEW u, Contains(r, u) PROVE Contains(s, u) /\ u # s[1]
  <2>1. PICK j \in 1 .. Len(s) - 1 : r[j] = u BY <1>3, <1>8 DEF Contains
  <2>2. j + 1 \in 1 .. Len(s) /\ s[j + 1] = u /\ j + 1 # 1 BY <1>1, <1>3, <2>1
  <2> QED BY <1>4, <1>6, <2>2 DEF Contains
<1> QED BY <1>2, <1>3, <1>5, <1>6, <1>7, <1>8 DEF Lists, Contains, r

\* A set of numbers has a least one.
LEMMA LeastOf ==
    ASSUME NEW I \in SUBSET Nat, I # {} PROVE \E i \in I : \A j \in I : i <= j
<1>1. PICK i \in I : \A j \in I : ~ (<<j, i>> \in OpToRel(<, Nat))
  BY NatLessThanWellFounded, WFMin
<1>2. \A j \in I : i <= j
  <2> TAKE j \in I
  <2>1. ~(<<j, i>> \in OpToRel(<, Nat)) BY <1>1
  <2>2. i \in Nat /\ j \in Nat OBVIOUS
  <2>3. j < i => <<j, i>> \in OpToRel(<, Nat) BY <2>2 DEF OpToRel
  <2>4. ~(j < i) BY <2>1, <2>3, Zenon
  <2> QED BY <2>2, <2>4
<1> QED BY <1>2

\* Wherever an item belongs by its value, it is inserted once.
LEMMA ListSorted ==
    ASSUME NEW s \in Lists, NEW t \in Task, ~Contains(s, t), NEW kk,
           NEW r, r = ByWake(kk, s, t) \/ r = ByPrio(kk, s, t)
    PROVE  r \in Lists /\ \A u : Contains(r, u) <=> Contains(s, u) \/ u = t
<1>1. PICK i \in 0 .. Len(s) : r = IF i = 0 THEN Append(s, t) ELSE InsertAt(s, i, t)
  <2>1. Len(s) \in Nat BY DEF Lists
  <2>2. ASSUME NEW I \in SUBSET (1 .. Len(s)), I # {} PROVE Min(I) \in 1 .. Len(s)
    <3>1. I \in SUBSET Nat BY <2>1
    <3>2. \E i \in I : \A j \in I : i <= j BY <2>2, <3>1, LeastOf
    <3>3. Min(I) \in I BY <3>2 DEF Min
    <3> QED BY <3>3
  <2> DEFINE W == {j \in 1 .. Len(s) : kk.wake[t] < kk.wake[s[j]]}
             P == {j \in 1 .. Len(s) : kk.evprio[t] > kk.evprio[s[j]]}
  <2>3. CASE r = ByWake(kk, s, t)
    <3> DEFINE i == IF W # {} THEN Min(W) ELSE 0
    <3>1. r = IF i = 0 THEN Append(s, t) ELSE InsertAt(s, i, t)
      BY <2>3 DEF ByWake, InsertSorted, SelectInSeq
    <3>2. i \in 0 .. Len(s)
      <4>1. W \in SUBSET (1 .. Len(s)) /\ P \in SUBSET (1 .. Len(s)) OBVIOUS
      <4> HIDE DEF W, P
      <4> QED BY <2>1, <2>2, <4>1
    <3> HIDE DEF i
    <3> QED BY <3>1, <3>2
  <2>4. CASE r = ByPrio(kk, s, t)
    <3> DEFINE i == IF P # {} THEN Min(P) ELSE 0
    <3>1. r = IF i = 0 THEN Append(s, t) ELSE InsertAt(s, i, t)
      BY <2>4 DEF ByPrio, InsertSorted, SelectInSeq
    <3>2. i \in 0 .. Len(s)
      <4>1. W \in SUBSET (1 .. Len(s)) /\ P \in SUBSET (1 .. Len(s)) OBVIOUS
      <4> HIDE DEF W, P
      <4> QED BY <2>1, <2>2, <4>1
    <3> HIDE DEF i
    <3> QED BY <3>1, <3>2
  <2> QED BY <2>3, <2>4
<1>2. Len(s) \in Nat BY DEF Lists
<1>3. CASE i = 0 BY <1>1, <1>3, ListAppended
<1>4. CASE i # 0
  <2>1. i \in 1 .. Len(s) + 1 BY <1>2, <1>4
  <2> QED BY <1>1, <1>4, <2>1, ListInserted
<1> QED BY <1>3, <1>4

LEMMA WakeSorted ==
    ASSUME NEW s \in Lists, NEW t \in Task, ~Contains(s, t), NEW kk
    PROVE  /\ ByWake(kk, s, t) \in Lists
           /\ \A u : Contains(ByWake(kk, s, t), u) <=> Contains(s, u) \/ u = t
BY ListSorted
LEMMA PrioSorted ==
    ASSUME NEW s \in Lists, NEW t \in Task, ~Contains(s, t), NEW kk
    PROVE  /\ ByPrio(kk, s, t) \in Lists
           /\ \A u : Contains(ByPrio(kk, s, t), u) <=> Contains(s, u) \/ u = t
BY ListSorted

----------------------------------------------------------------------------
(* The state of the scheduler.                                             *)

KernelFields == {"cur", "top", "ready", "delayed", "overflow", "suspended", "wake", "ev",
                 "evprio", "evval", "prio", "base", "held", "nstate", "note", "tick", "ovf",
                 "unblock", "sus", "pended", "yp", "aborted", "dead", "gone"}
ReadyList == {l \in [q : Lists, at : Nat] : l.at <= Len(l.q)}
KernelTypes(kk) ==
    /\ DOMAIN kk = KernelFields
    /\ kk.cur \in Task /\ kk.top \in Prio
    /\ kk.ready \in [Prio -> ReadyList]
    /\ \A p \in Prio : kk.ready[p].q # <<>> => p <= kk.top
    /\ kk.delayed \in Lists /\ kk.overflow \in Lists /\ kk.dead \in Lists
    /\ kk.suspended \in SUBSET Task /\ kk.gone \in SUBSET Task
    /\ kk.prio \in [Task -> Prio] /\ kk.base \in [Task -> Prio] /\ kk.evprio \in [Task -> Prio]
    /\ kk.sus \in Nat /\ kk.pended \in Nat
    /\ kk.ev \in [EventList \union {Pend} -> Lists]
    /\ DOMAIN kk.nstate = Task

Alive(kk, t) == ~IsAt(kk, t, "dead") /\ ~IsAt(kk, t, "gone")
OnePlace(kk, t) == \E place \in Places : \A x \in Places : IsAt(kk, t, x) <=> x = place
ReadyAt(kk, t, p) == Contains(kk.ready[p].q, t)
InEvent(kk, t, l) == Contains(kk.ev[l], t)
Placed(kk) ==
    /\ \A t \in Task : OnePlace(kk, t)
    /\ \A t \in Task, p \in Prio : ReadyAt(kk, t, p) => p = kk.prio[t]
    /\ IsAt(kk, Idle, "ready")
Evented(kk) ==
    \A t \in Task, l \in EventList \union {Pend} : InEvent(kk, t, l) =>
        /\ Alive(kk, t)
        /\ l # Pend => ~IsAt(kk, t, "ready")
        /\ \A m \in EventList \union {Pend} : InEvent(kk, t, m) => m = l

KernelOk(kk) == KernelTypes(kk) /\ Placed(kk) /\ Evented(kk)

\* The fields outside F are the same.
SameBut(kk, k2, F) == DOMAIN k2 = KernelFields /\ \A f \in KernelFields \ F : k2[f] = kk[f]

LEMMA Priorities == Prio \subseteq Nat /\ \A t \in Task : BasePrio[t] \in Prio
BY KernelConstants DEF Prio

LEMMA IsAtPlace ==
    ASSUME NEW kk, NEW t
    PROVE  /\ IsAt(kk, t, "ready") <=> \E p \in Prio : ReadyAt(kk, t, p)
           /\ IsAt(kk, t, "delayed") <=> Contains(kk.delayed, t)
           /\ IsAt(kk, t, "overflow") <=> Contains(kk.overflow, t)
           /\ IsAt(kk, t, "suspended") <=> t \in kk.suspended
           /\ IsAt(kk, t, "dead") <=> Contains(kk.dead, t)
           /\ IsAt(kk, t, "gone") <=> t \in kk.gone
BY DEF IsAt, ReadyAt

\* Where tasks are is told by these fields.
LEMMA SamePlaces ==
    ASSUME NEW kk, NEW k2, \A p \in Prio : k2.ready[p].q = kk.ready[p].q,
           k2.delayed = kk.delayed, k2.overflow = kk.overflow,
           k2.suspended = kk.suspended, k2.dead = kk.dead, k2.gone = kk.gone
    PROVE  \A u, x : x \in Places => (IsAt(k2, u, x) <=> IsAt(kk, u, x))
<1> TAKE u, x
<1> HAVE x \in Places
<1>1. \A p \in Prio : ReadyAt(k2, u, p) <=> ReadyAt(kk, u, p) BY DEF ReadyAt
<1> QED BY <1>1, IsAtPlace DEF Places

LEMMA Dropped ==
    ASSUME NEW l \in ReadyList, NEW t
    PROVE  /\ Drop(l, t) \in ReadyList /\ Drop(l, t).q = RemoveFirst(l.q, t)
           /\ Drop(l, t).q # <<>> => l.q # <<>>
<1>1. l.q \in Lists /\ l.at \in Nat /\ l.at <= Len(l.q) /\ Len(l.q) \in Nat BY DEF ReadyList, Lists
<1> DEFINE r == RemoveFirst(l.q, t)
           a == IF \E i \in 1 .. l.at : l.q[i] = t THEN l.at - 1 ELSE l.at
<1>2. Drop(l, t) = [q |-> r, at |-> a] BY DEF Drop
<1> HIDE DEF a
<1>3. /\ r \in Lists
      /\ Contains(l.q, t) => Len(r) = Len(l.q) - 1
      /\ ~Contains(l.q, t) => Len(r) = Len(l.q)
  BY <1>1, ListRemoved
<1>4. a \in Nat /\ a <= Len(r)
  <2> HIDE DEF r
  <2>1. CASE \E i \in 1 .. l.at : l.q[i] = t
    <3>1. Contains(l.q, t) BY <1>1, <2>1 DEF Contains
    <3>2. a = l.at - 1 /\ l.at >= 1 BY <1>1, <2>1 DEF a
    <3>3. Len(r) = Len(l.q) - 1 BY <1>3, <3>1
    <3> QED BY <1>1, <3>2, <3>3
  <2>2. CASE ~\E i \in 1 .. l.at : l.q[i] = t
    <3>1. a = l.at BY <2>2 DEF a
    <3>2. CASE Contains(l.q, t)
      <4>1. PICK i \in 1 .. Len(l.q) : l.q[i] = t BY <3>2 DEF Contains
      <4>2. i > l.at BY <1>1, <2>2, <4>1
      <4>3. Len(r) = Len(l.q) - 1 BY <1>3, <3>2
      <4> QED BY <1>1, <3>1, <4>1, <4>2, <4>3
    <3>3. CASE ~Contains(l.q, t)
      <4>1. Len(r) = Len(l.q) BY <1>3, <3>3
      <4> QED BY <1>1, <3>1, <4>1
    <3> QED BY <3>2, <3>3
  <2> QED BY <2>1, <2>2
<1>5. r # <<>> => l.q # <<>>
  <2> SUFFICES ASSUME l.q = <<>> PROVE r = <<>> OBVIOUS
  <2>1. RemoveFirst(l.q, t) = <<>> BY DEF RemoveFirst
  <2> QED BY <2>1
<1> HIDE DEF r
<1>6. Drop(l, t) \in [q : Lists, at : Nat] BY <1>2, <1>3, <1>4
<1>7. Drop(l, t).q = r /\ Drop(l, t).at = a BY <1>2
<1> QED BY <1>4, <1>5, <1>6, <1>7 DEF ReadyList, r

LEMMA OutOfStateIs ==
    ASSUME NEW kk, KernelTypes(kk), NEW t
    PROVE  /\ KernelTypes(OutOfState(kk, t))
           /\ SameBut(kk, OutOfState(kk, t),
                      {"ready", "delayed", "overflow", "suspended", "wake"})
           /\ \A u, p : p \in Prio =>
                 (ReadyAt(OutOfState(kk, t), u, p) <=> ReadyAt(kk, u, p) /\ u # t)
           /\ \A u, x : x \in Places =>
                 (IsAt(OutOfState(kk, t), u, x) <=>
                    IsAt(kk, u, x) /\ (u # t \/ x \in {"dead", "gone"}))
<1> DEFINE k2 == OutOfState(kk, t)
<1>1. SameBut(kk, k2, {"ready", "delayed", "overflow", "suspended", "wake"})
  BY DEF OutOfState, SameBut, KernelTypes, KernelFields
<1>2. /\ k2.ready = [p \in Prio |-> Drop(kk.ready[p], t)]
      /\ k2.delayed = RemoveFirst(kk.delayed, t)
      /\ k2.overflow = RemoveFirst(kk.overflow, t)
      /\ k2.suspended = kk.suspended \ {t}
  BY DEF OutOfState, KernelTypes, KernelFields
<1> HIDE DEF k2
<1>3. /\ k2.cur = kk.cur /\ k2.top = kk.top /\ k2.dead = kk.dead /\ k2.gone = kk.gone
      /\ k2.prio = kk.prio /\ k2.base = kk.base /\ k2.evprio = kk.evprio /\ k2.sus = kk.sus
      /\ k2.pended = kk.pended /\ k2.ev = kk.ev /\ k2.nstate = kk.nstate
      /\ DOMAIN k2 = KernelFields
  BY <1>1 DEF SameBut, KernelFields
<1>4. ASSUME NEW p \in Prio
      PROVE  /\ k2.ready[p] \in ReadyList /\ k2.ready[p].q = RemoveFirst(kk.ready[p].q, t)
             /\ k2.ready[p].q # <<>> => kk.ready[p].q # <<>>
  <2>1. kk.ready[p] \in ReadyList BY DEF KernelTypes
  <2> QED BY <1>2, <2>1, Dropped
<1>5. k2.ready \in [Prio -> ReadyList] BY <1>2, <1>4
<1>6. /\ k2.delayed \in Lists /\ k2.overflow \in Lists
      /\ \A u : /\ Contains(k2.delayed, u) <=> Contains(kk.delayed, u) /\ u # t
                /\ Contains(k2.overflow, u) <=> Contains(kk.overflow, u) /\ u # t
  BY <1>2, ListRemoved DEF KernelTypes
<1>7. KernelTypes(k2)
  <2>1. k2.suspended \in SUBSET Task BY <1>2 DEF KernelTypes
  <2> QED BY <1>3, <1>4, <1>5, <1>6, <2>1 DEF KernelTypes
<1>8. ASSUME NEW u, NEW p, p \in Prio PROVE ReadyAt(k2, u, p) <=> ReadyAt(kk, u, p) /\ u # t
  <2>1. kk.ready[p].q \in Lists BY <1>8 DEF KernelTypes, ReadyList
  <2> QED BY <1>4, <1>8, <2>1, ListRemoved DEF ReadyAt
<1>9. ASSUME NEW u, NEW x, x \in Places
      PROVE  IsAt(k2, u, x) <=> IsAt(kk, u, x) /\ (u # t \/ x \in {"dead", "gone"})
  BY <1>2, <1>3, <1>6, <1>8, <1>9, IsAtPlace DEF Places
<1> QED BY <1>1, <1>7, <1>8, <1>9 DEF k2

LEMMA AddToReadyIs ==
    ASSUME NEW kk, KernelTypes(kk), NEW t \in Task, ~ReadyAt(kk, t, kk.prio[t])
    PROVE  /\ KernelTypes(AddToReady(kk, t))
           /\ SameBut(kk, AddToReady(kk, t), {"ready", "top"})
           /\ \A u, p : p \in Prio =>
                 (ReadyAt(AddToReady(kk, t), u, p) <=>
                    ReadyAt(kk, u, p) \/ (u = t /\ p = kk.prio[t]))
           /\ \A u, x : x \in Places =>
                 (IsAt(AddToReady(kk, t), u, x) <=> IsAt(kk, u, x) \/ (u = t /\ x = "ready"))
<1> DEFINE k2 == AddToReady(kk, t)
           r == kk.prio[t]
           l == kk.ready[r]
<1>1. SameBut(kk, k2, {"ready", "top"})
  BY DEF AddToReady, SameBut, KernelTypes, KernelFields
<1>2. /\ k2.ready = [kk.ready EXCEPT ![r] = InsertEnd(l, t)]
      /\ k2.top = IF r > kk.top THEN r ELSE kk.top
  BY DEF AddToReady, KernelTypes, KernelFields
<1> HIDE DEF k2
<1>3. /\ k2.cur = kk.cur /\ k2.delayed = kk.delayed /\ k2.overflow = kk.overflow
      /\ k2.suspended = kk.suspended /\ k2.dead = kk.dead /\ k2.gone = kk.gone
      /\ k2.prio = kk.prio /\ k2.base = kk.base /\ k2.evprio = kk.evprio /\ k2.sus = kk.sus
      /\ k2.pended = kk.pended /\ k2.ev = kk.ev /\ k2.nstate = kk.nstate
      /\ DOMAIN k2 = KernelFields
  BY <1>1 DEF SameBut, KernelFields
<1>4. r \in Prio /\ l \in ReadyList /\ DOMAIN kk.ready = Prio BY DEF KernelTypes
<1>5. l.q \in Lists /\ l.at \in Nat /\ l.at <= Len(l.q) /\ Len(l.q) \in Nat
      /\ l = [q |-> l.q, at |-> l.at]
  BY <1>4 DEF ReadyList, Lists
<1>6. ~Contains(l.q, t) BY DEF ReadyAt
<1> DEFINE e == InsertEnd(l, t)
<1>7. e \in ReadyList /\ \A u : Contains(e.q, u) <=> Contains(l.q, u) \/ u = t
  <2> HIDE DEF l
  <2>1. CASE l.at = 0
    <3>1. /\ Append(l.q, t) \in Lists /\ Len(Append(l.q, t)) = Len(l.q) + 1
          /\ \A u : Contains(Append(l.q, t), u) <=> Contains(l.q, u) \/ u = t
      BY <1>5, <1>6, ListAppended
    <3>2. e.q = Append(l.q, t) /\ e.at = 0 /\ e \in [q : Lists, at : Nat]
      BY <1>5, <2>1, <3>1 DEF InsertEnd
    <3> QED BY <1>5, <3>1, <3>2 DEF ReadyList
  <2>2. CASE l.at # 0
    <3>1. l.at \in 1 .. Len(l.q) + 1 BY <1>5, <2>2
    <3>2. /\ InsertAt(l.q, l.at, t) \in Lists /\ Len(InsertAt(l.q, l.at, t)) = Len(l.q) + 1
          /\ \A u : Contains(InsertAt(l.q, l.at, t), u) <=> Contains(l.q, u) \/ u = t
      BY <1>5, <1>6, <3>1, ListInserted
    <3>3. e.q = InsertAt(l.q, l.at, t) /\ e.at = l.at + 1 /\ e \in [q : Lists, at : Nat]
      BY <1>5, <2>2, <3>2 DEF InsertEnd
    <3> QED BY <1>5, <3>2, <3>3 DEF ReadyList
  <2> QED BY <2>1, <2>2
<1>8. k2.ready[r] = e /\ \A p \in Prio \ {r} : k2.ready[p] = kk.ready[p] BY <1>2, <1>4
<1> HIDE DEF e
<1>9. k2.ready \in [Prio -> ReadyList] BY <1>2, <1>4, <1>7, <1>8 DEF KernelTypes
<1>10. k2.top \in Prio /\ r <= k2.top /\ kk.top <= k2.top
  <2>1. r \in Nat /\ kk.top \in Nat /\ kk.top \in Prio BY <1>4, Priorities DEF KernelTypes
  <2> QED BY <1>2, <1>4, <2>1
<1>11. \A p \in Prio : k2.ready[p].q # <<>> => p <= k2.top
  <2> TAKE p \in Prio
  <2>1. CASE p = r BY <1>10, <2>1
  <2>2. CASE p # r
    <3>1. k2.ready[p].q # <<>> => p <= kk.top BY <1>8, <2>2 DEF KernelTypes
    <3>2. p \in Nat /\ kk.top \in Nat /\ k2.top \in Nat BY <1>10, Priorities DEF KernelTypes
    <3> QED BY <1>10, <3>1, <3>2
  <2> QED BY <2>1, <2>2
<1>12. KernelTypes(k2) BY <1>3, <1>9, <1>10, <1>11 DEF KernelTypes
<1>13. ASSUME NEW u, NEW p, p \in Prio
       PROVE  ReadyAt(k2, u, p) <=> ReadyAt(kk, u, p) \/ (u = t /\ p = r)
  <2>1. CASE p = r BY <1>7, <1>8, <2>1 DEF ReadyAt
  <2>2. CASE p # r
    <3>1. k2.ready[p] = kk.ready[p] BY <1>8, <1>13, <2>2
    <3>2. ReadyAt(k2, u, p) <=> ReadyAt(kk, u, p) BY <3>1 DEF ReadyAt
    <3> QED BY <2>2, <3>2
  <2> QED BY <2>1, <2>2
<1>14. ASSUME NEW u, NEW x, x \in Places
       PROVE  IsAt(k2, u, x) <=> IsAt(kk, u, x) \/ (u = t /\ x = "ready")
  BY <1>3, <1>4, <1>13, <1>14, IsAtPlace DEF Places
<1> QED BY <1>1, <1>12, <1>13, <1>14 DEF k2

LEMMA OutOfEventIs ==
    ASSUME NEW kk, KernelTypes(kk), NEW t
    PROVE  /\ KernelTypes(OutOfEvent(kk, t))
           /\ SameBut(kk, OutOfEvent(kk, t), {"ev"})
           /\ \A u, l : l \in EventList \union {Pend} =>
                 (InEvent(OutOfEvent(kk, t), u, l) <=> InEvent(kk, u, l) /\ u # t)
           /\ \A u, x : x \in Places => (IsAt(OutOfEvent(kk, t), u, x) <=> IsAt(kk, u, x))
           /\ \A u, p : ReadyAt(OutOfEvent(kk, t), u, p) <=> ReadyAt(kk, u, p)
<1> DEFINE k2 == OutOfEvent(kk, t)
<1>1. SameBut(kk, k2, {"ev"}) BY DEF OutOfEvent, SameBut, KernelTypes, KernelFields
<1>2. k2.ev = [l \in EventList \union {Pend} |-> RemoveFirst(kk.ev[l], t)]
  BY DEF OutOfEvent, KernelTypes, KernelFields
<1> HIDE DEF k2
<1>3. /\ k2.cur = kk.cur /\ k2.delayed = kk.delayed /\ k2.overflow = kk.overflow
      /\ k2.suspended = kk.suspended /\ k2.dead = kk.dead /\ k2.gone = kk.gone
      /\ k2.prio = kk.prio /\ k2.base = kk.base /\ k2.evprio = kk.evprio /\ k2.sus = kk.sus
      /\ k2.pended = kk.pended /\ k2.nstate = kk.nstate
      /\ k2.ready = kk.ready /\ k2.top = kk.top /\ DOMAIN k2 = KernelFields
  BY <1>1 DEF SameBut, KernelFields
<1>4. ASSUME NEW l \in EventList \union {Pend}
      PROVE  /\ k2.ev[l] \in Lists
             /\ \A u : Contains(k2.ev[l], u) <=> Contains(kk.ev[l], u) /\ u # t
  BY <1>2, ListRemoved DEF KernelTypes
<1>5. k2.ev \in [EventList \union {Pend} -> Lists] BY <1>2, <1>4
<1>6. KernelTypes(k2) BY <1>3, <1>5 DEF KernelTypes
<1>7. \A u, x : x \in Places => (IsAt(k2, u, x) <=> IsAt(kk, u, x)) BY <1>3, SamePlaces
<1>8. \A u, l : l \in EventList \union {Pend} => (InEvent(k2, u, l) <=> InEvent(kk, u, l) /\ u # t)
  BY <1>4 DEF InEvent
<1>9. \A u, p : ReadyAt(k2, u, p) <=> ReadyAt(kk, u, p) BY <1>3 DEF ReadyAt
<1> QED BY <1>1, <1>6, <1>7, <1>8, <1>9 DEF k2

\* The current task is neither suspended nor deleted, and waits for nothing.
Settled(kk) ==
    /\ ~IsAt(kk, kk.cur, "suspended") /\ Alive(kk, kk.cur)
    /\ \A l \in EventList \union {Pend} : ~InEvent(kk, kk.cur, l)
NonePending(kk) == \A u : ~InEvent(kk, u, Pend)

\* What the kernel does by itself: it deletes no task and lets none wait for a
\* notification or be pended, leaves a settled task settled, and gives the
\* processor to settled ones only, unless it is suspended.
Flow(kk, k2) ==
    /\ k2.sus = kk.sus
    /\ \A u, x : x \in {"dead", "gone"} => (IsAt(k2, u, x) <=> IsAt(kk, u, x))
    /\ \A u \in Task : k2.nstate[u] = "waiting" => kk.nstate[u] = "waiting"
    /\ kk.sus = 0 /\ NonePending(kk) => NonePending(k2)
    /\ Settled(kk) => Settled(k2)
    /\ k2.cur # kk.cur => kk.sus = 0 /\ Settled(k2)

LEMMA FlowOn ==
    ASSUME NEW kk, NEW k2, NEW k3, Flow(kk, k2), Flow(k2, k3) PROVE Flow(kk, k3)
BY DEF Flow
LEMMA FlowStays == ASSUME NEW kk PROVE Flow(kk, kk)
BY DEF Flow

\* Fields that no list depends on.
Minor == {"wake", "evval", "held", "note", "tick", "ovf", "unblock", "yp", "aborted", "base",
          "evprio", "pended", "nstate"}
LEMMA MinorChange ==
    ASSUME NEW kk, NEW k2, SameBut(kk, k2, Minor)
    PROVE  /\ \A u, x : x \in Places => (IsAt(k2, u, x) <=> IsAt(kk, u, x))
           /\ \A u, l : InEvent(k2, u, l) <=> InEvent(kk, u, l)
           /\ \A u, p : ReadyAt(k2, u, p) <=> ReadyAt(kk, u, p)
           /\ k2.cur = kk.cur /\ k2.prio = kk.prio /\ k2.sus = kk.sus /\ k2.ev = kk.ev
           /\ k2.ready = kk.ready
<1>1. /\ k2.cur = kk.cur /\ k2.delayed = kk.delayed /\ k2.overflow = kk.overflow
      /\ k2.suspended = kk.suspended /\ k2.dead = kk.dead /\ k2.gone = kk.gone
      /\ k2.prio = kk.prio /\ k2.sus = kk.sus /\ k2.ev = kk.ev /\ k2.ready = kk.ready
  BY DEF SameBut, KernelFields, Minor
<1> QED BY <1>1, SamePlaces DEF InEvent, ReadyAt

LEMMA MinorKeeps ==
    ASSUME NEW kk, KernelOk(kk), NEW k2, SameBut(kk, k2, Minor),
           k2.base \in [Task -> Prio], k2.evprio \in [Task -> Prio], k2.pended \in Nat,
           DOMAIN k2.nstate = Task
    PROVE  /\ KernelOk(k2)
           /\ (\A u \in Task : k2.nstate[u] = "waiting" => kk.nstate[u] = "waiting")
                => Flow(kk, k2)
           /\ Settled(kk) => Settled(k2)
<1>1. /\ k2.cur = kk.cur /\ k2.delayed = kk.delayed /\ k2.overflow = kk.overflow
      /\ k2.suspended = kk.suspended /\ k2.dead = kk.dead /\ k2.gone = kk.gone
      /\ k2.prio = kk.prio /\ k2.sus = kk.sus /\ k2.ev = kk.ev /\ k2.ready = kk.ready
      /\ k2.top = kk.top /\ DOMAIN k2 = KernelFields
  BY DEF SameBut, KernelFields, Minor
<1>2. KernelTypes(k2) BY <1>1 DEF KernelTypes, KernelOk
<1>3. /\ \A u, x : x \in Places => (IsAt(k2, u, x) <=> IsAt(kk, u, x))
      /\ \A u, l : InEvent(k2, u, l) <=> InEvent(kk, u, l)
      /\ \A u, p : ReadyAt(k2, u, p) <=> ReadyAt(kk, u, p)
  BY MinorChange
<1>4. {"dead", "gone", "ready", "suspended"} \subseteq Places BY DEF Places
<1>5. Placed(k2)
  <2>1. \A t \in Task : OnePlace(k2, t) BY <1>3 DEF KernelOk, Placed, OnePlace
  <2> QED BY <1>1, <1>3, <1>4, <2>1 DEF KernelOk, Placed
<1>6. Evented(k2) BY <1>3, <1>4 DEF KernelOk, Evented, Alive
<1>7. Settled(kk) => Settled(k2) BY <1>1, <1>3, <1>4 DEF Settled, Alive
<1> QED BY <1>1, <1>2, <1>3, <1>4, <1>5, <1>6, <1>7 DEF KernelOk, Flow, NonePending

\* A task that moves from one place to another, the others staying where they are.
OthersStay(kk, k2, t) ==
    \A u, x : u # t /\ x \in Places => (IsAt(k2, u, x) <=> IsAt(kk, u, x))
OnlyAt(kk, t, place) == place \in Places /\ \A x \in Places : IsAt(kk, t, x) <=> x = place
LEMMA OneMoves ==
    ASSUME NEW kk, Placed(kk), NEW k2, NEW t, NEW place,
           OthersStay(kk, k2, t), OnlyAt(k2, t, place)
    PROVE  \A u \in Task : OnePlace(k2, u)
<1> TAKE u \in Task
<1>1. CASE u = t BY <1>1 DEF OnePlace, OnlyAt
<1>2. CASE u # t
  <2>1. PICK p \in Places : \A x \in Places : IsAt(kk, u, x) <=> x = p BY DEF Placed, OnePlace
  <2> QED BY <1>2, <2>1 DEF OnePlace, OthersStay
<1> QED BY <1>1, <1>2

LEMMA Elsewhere ==
    ASSUME NEW kk, Placed(kk), NEW t \in Task, NEW x \in Places, NEW y \in Places,
           IsAt(kk, t, x), IsAt(kk, t, y)
    PROVE  x = y
BY DEF Placed, OnePlace

\* A task leaves the event lists.
LEMMA OutOfEventKeeps ==
    ASSUME NEW kk, KernelOk(kk), NEW t
    PROVE  KernelOk(OutOfEvent(kk, t)) /\ Flow(kk, OutOfEvent(kk, t))
<1> DEFINE k2 == OutOfEvent(kk, t)
           E == EventList \union {Pend}
<1>1. /\ KernelTypes(k2) /\ SameBut(kk, k2, {"ev"})
      /\ \A u, l : l \in E => (InEvent(k2, u, l) <=> InEvent(kk, u, l) /\ u # t)
      /\ \A u, x : x \in Places => (IsAt(k2, u, x) <=> IsAt(kk, u, x))
      /\ \A u, p : ReadyAt(k2, u, p) <=> ReadyAt(kk, u, p)
  BY OutOfEventIs DEF KernelOk
<1> HIDE DEF k2
<1>2. /\ k2.cur = kk.cur /\ k2.sus = kk.sus /\ k2.nstate = kk.nstate /\ k2.prio = kk.prio
  BY <1>1 DEF SameBut, KernelFields
<1>3. {"dead", "gone", "ready", "suspended"} \subseteq Places BY DEF Places
<1>4. Placed(k2)
  <2>1. \A u \in Task : OnePlace(k2, u) BY <1>1 DEF KernelOk, Placed, OnePlace
  <2> QED BY <1>1, <1>2, <1>3, <2>1 DEF KernelOk, Placed
<1>5. Evented(k2) BY <1>1, <1>3 DEF KernelOk, Evented, Alive
<1>6. Settled(kk) => Settled(k2) BY <1>1, <1>2, <1>3 DEF Settled, Alive
<1>7. Flow(kk, k2) BY <1>1, <1>2, <1>3, <1>6 DEF Flow, NonePending
<1> QED BY <1>1, <1>4, <1>5, <1>7 DEF KernelOk, k2

ReadyFields == {"ready", "top", "delayed", "overflow", "suspended", "wake"}
\* A task that waits in no event list goes to its ready list from wherever it is.
LEMMA ReadiedIs ==
    ASSUME NEW kk, KernelOk(kk), NEW t \in Task, Alive(kk, t),
           \A l \in EventList \ {Pend} : ~InEvent(kk, t, l),
           NEW k2, k2 = AddToReady(OutOfState(kk, t), t)
    PROVE  /\ KernelOk(k2) /\ Flow(kk, k2)
           /\ SameBut(kk, k2, ReadyFields)
           /\ OnlyAt(k2, t, "ready") /\ OthersStay(kk, k2, t)
<1> DEFINE b == OutOfState(kk, t)
           E == EventList \union {Pend}
<1>2. /\ KernelTypes(b)
      /\ SameBut(kk, b, {"ready", "delayed", "overflow", "suspended", "wake"})
      /\ \A u, p : p \in Prio => (ReadyAt(b, u, p) <=> ReadyAt(kk, u, p) /\ u # t)
      /\ \A u, x : x \in Places =>
            (IsAt(b, u, x) <=> IsAt(kk, u, x) /\ (u # t \/ x \in {"dead", "gone"}))
  BY OutOfStateIs DEF KernelOk
<1> HIDE DEF b
<1>3. b.prio = kk.prio /\ kk.prio[t] \in Prio
  BY <1>2 DEF SameBut, KernelFields, KernelOk, KernelTypes
<1>4. /\ KernelTypes(k2) /\ SameBut(b, k2, {"ready", "top"})
      /\ \A u, p : p \in Prio => (ReadyAt(k2, u, p) <=> ReadyAt(b, u, p) \/ (u = t /\ p = b.prio[t]))
      /\ \A u, x : x \in Places => (IsAt(k2, u, x) <=> IsAt(b, u, x) \/ (u = t /\ x = "ready"))
  BY <1>2, <1>3, AddToReadyIs DEF b
<1>5. SameBut(kk, k2, ReadyFields)
  BY <1>2, <1>4 DEF SameBut, KernelFields, ReadyFields
<1>6. /\ k2.cur = kk.cur /\ k2.sus = kk.sus /\ k2.nstate = kk.nstate /\ k2.prio = kk.prio
      /\ k2.ev = kk.ev
  BY <1>5 DEF SameBut, KernelFields, ReadyFields
<1>8. \A u, l : InEvent(k2, u, l) <=> InEvent(kk, u, l)
  BY <1>6 DEF InEvent
<1>10. {"dead", "gone", "ready", "suspended"} \subseteq Places BY DEF Places
<1>9. OthersStay(kk, k2, t) BY <1>2, <1>4 DEF OthersStay
<1>11. OnlyAt(k2, t, "ready")
  <2>1. ~IsAt(kk, t, "dead") /\ ~IsAt(kk, t, "gone") BY DEF Alive
  <2> QED BY <1>2, <1>4, <1>10, <2>1 DEF OnlyAt
<1>12. Placed(k2)
  <2>1. \A u \in Task : OnePlace(k2, u)
    <3>1. Placed(kk) BY DEF KernelOk
    <3> QED BY <3>1, <1>9, <1>11, OneMoves
  <2>2. \A u \in Task, p \in Prio : ReadyAt(k2, u, p) => p = k2.prio[u]
    BY <1>2, <1>3, <1>4, <1>6 DEF KernelOk, Placed
  <2>3. IsAt(k2, Idle, "ready") BY <1>9, <1>10, <1>11 DEF KernelOk, Placed, OnlyAt, OthersStay
  <2> QED BY <2>1, <2>2, <2>3 DEF Placed
<1>13. Evented(k2)
  BY <1>8, <1>9, <1>10, <1>11 DEF KernelOk, Evented, Alive, OnlyAt, OthersStay
<1>14. Settled(kk) => Settled(k2)
  BY <1>6, <1>8, <1>9, <1>10, <1>11 DEF Settled, Alive, OnlyAt, OthersStay
<1>15. Flow(kk, k2)
  <2>1. \A u, x : x \in {"dead", "gone"} => (IsAt(k2, u, x) <=> IsAt(kk, u, x))
    BY <1>9, <1>10, <1>11 DEF Alive, OnlyAt, OthersStay
  <2> QED BY <1>6, <1>8, <1>14, <2>1 DEF Flow, NonePending
<1> QED BY <1>4, <1>5, <1>9, <1>11, <1>12, <1>13, <1>15 DEF KernelOk

WakeFields == ReadyFields \union {"ev"}
LEMMA WakenedIs ==
    ASSUME NEW kk, KernelOk(kk), NEW t \in Task, Alive(kk, t)
    PROVE  /\ KernelOk(Wakened(kk, t)) /\ Flow(kk, Wakened(kk, t))
           /\ SameBut(kk, Wakened(kk, t), WakeFields)
           /\ \A u, l : l \in EventList \union {Pend} =>
                 (InEvent(Wakened(kk, t), u, l) <=> InEvent(kk, u, l) /\ u # t)
           /\ OnlyAt(Wakened(kk, t), t, "ready") /\ OthersStay(kk, Wakened(kk, t), t)
<1> DEFINE a == OutOfEvent(kk, t)
           k2 == AddToReady(OutOfState(a, t), t)
           E == EventList \union {Pend}
<1>1. Wakened(kk, t) = k2 BY DEF Wakened
<1>2. /\ SameBut(kk, a, {"ev"})
      /\ \A u, l : l \in E => (InEvent(a, u, l) <=> InEvent(kk, u, l) /\ u # t)
      /\ \A u, x : x \in Places => (IsAt(a, u, x) <=> IsAt(kk, u, x))
  BY OutOfEventIs DEF KernelOk
<1>3. KernelOk(a) /\ Flow(kk, a) BY OutOfEventKeeps
<1> HIDE DEF a
<1>4. Alive(a, t) BY <1>2 DEF Alive, Places
<1>5. /\ KernelOk(k2) /\ Flow(a, k2) /\ SameBut(a, k2, ReadyFields)
      /\ OnlyAt(k2, t, "ready") /\ OthersStay(a, k2, t)
  BY <1>2, <1>3, <1>4, ReadiedIs
<1> HIDE DEF k2
<1>6. SameBut(kk, k2, WakeFields)
  BY <1>2, <1>5 DEF SameBut, KernelFields, WakeFields, ReadyFields
<1>7. k2.ev = a.ev BY <1>5 DEF SameBut, KernelFields, ReadyFields
<1>8. \A u, l : l \in E => (InEvent(k2, u, l) <=> InEvent(kk, u, l) /\ u # t)
  BY <1>2, <1>7 DEF InEvent
<1>9. OthersStay(kk, k2, t) BY <1>2, <1>5 DEF OthersStay
<1>10. Flow(kk, k2) BY <1>3, <1>5, FlowOn
<1> QED BY <1>1, <1>5, <1>6, <1>8, <1>9, <1>10

\* The switch to the next task.
LEMMA SwitchIs ==
    ASSUME NEW kk, KernelOk(kk), kk.sus = 0 => NonePending(kk)
    PROVE  /\ KernelOk(Switch(kk)) /\ Flow(kk, Switch(kk))
           /\ kk.sus = 0 => Settled(Switch(kk))
<1>1. CASE kk.sus > 0
  <2> DEFINE k2 == [kk EXCEPT !.yp = TRUE]
  <2>1. Switch(kk) = k2 BY <1>1 DEF Switch
  <2>2. SameBut(kk, k2, Minor) /\ k2.base = kk.base /\ k2.evprio = kk.evprio
        /\ k2.pended = kk.pended /\ k2.nstate = kk.nstate
    BY DEF SameBut, Minor, KernelFields, KernelOk, KernelTypes
  <2> HIDE DEF k2
  <2>3. kk.base \in [Task -> Prio] /\ kk.evprio \in [Task -> Prio] /\ kk.pended \in Nat
        /\ DOMAIN kk.nstate = Task
    BY DEF KernelOk, KernelTypes
  <2>4. KernelOk(k2) /\ Flow(kk, k2) BY <2>2, <2>3, MinorKeeps
  <2> QED BY <1>1, <2>1, <2>4
<1>2. CASE ~(kk.sus > 0)
  <2> DEFINE P == {r \in Prio : r <= kk.top /\ kk.ready[r].q # <<>>}
             p == Max(P)
             i == (kk.ready[p].at % Len(kk.ready[p].q)) + 1
             k2 == [kk EXCEPT !.yp = FALSE, !.top = p, !.ready[p].at = i,
                              !.cur = kk.ready[p].q[i]]
  <2>0. Switch(kk) = k2 BY <1>2 DEF Switch
  <2>1. kk.sus = 0 BY <1>2 DEF KernelOk, KernelTypes
  <2>2. p \in P /\ \A r \in P : r <= p
    <3>1. kk.top \in Nat /\ \A r \in P : r \in Nat /\ r <= kk.top
      BY Priorities DEF KernelOk, KernelTypes
    <3>2. P # {}
      <4>1. PICK r \in Prio : ReadyAt(kk, Idle, r) BY IsAtPlace DEF KernelOk, Placed
      <4>2. kk.ready[r].q # <<>> BY <4>1 DEF ReadyAt, Contains
      <4> QED BY <4>2 DEF KernelOk, KernelTypes
    <3> HIDE DEF P
    <3> DEFINE D == {kk.top - r : r \in P}
    <3>3. PICK d \in D : \A e \in D : d <= e
      <4>1. D \in SUBSET Nat /\ D # {} BY <3>1, <3>2
      <4> HIDE DEF D
      <4> QED BY <4>1, LeastOf
    <3>4. \E m \in P : \A r \in P : r <= m
      <4>1. PICK m \in P : d = kk.top - m OBVIOUS
      <4>2. ASSUME NEW r \in P PROVE r <= m
        <5>1. kk.top - r \in D OBVIOUS
        <5>2. d <= kk.top - r BY <3>3, <5>1
        <5> QED BY <3>1, <4>1, <5>2
      <4> QED BY <4>2
    <3> QED BY <3>4 DEF Max
  <2>3. p \in Prio /\ kk.ready[p] \in ReadyList /\ kk.ready[p].q # <<>>
    <3> HIDE DEF p
    <3> QED BY <2>2 DEF KernelOk, KernelTypes
  <2> DEFINE l == kk.ready[p]
  <2>4. l.q \in Lists /\ l.q # <<>> /\ l.at \in Nat /\ Len(l.q) \in Nat \ {0}
        /\ l \in [q : Lists, at : Nat]
    <3> HIDE DEF p
    <3> QED BY <2>3 DEF ReadyList, Lists
  <2>5. i \in 1 .. Len(l.q)
    <3>1. i = (l.at % Len(l.q)) + 1 OBVIOUS
    <3> HIDE DEF l, i
    <3>2. l.at % Len(l.q) \in 0 .. Len(l.q) - 1 BY <2>4
    <3> QED BY <3>1, <3>2, <2>4
  <2>6. l.q[i] \in Task /\ Contains(l.q, l.q[i])
    <3>1. l.q \in Seq(Task) BY <2>4 DEF Lists
    <3> HIDE DEF l, i
    <3> QED BY <2>5, <3>1 DEF Contains
  <2> DEFINE l2 == [l EXCEPT !.at = i]
  <2>7. l2 \in ReadyList /\ l2.q = l.q
    <3> HIDE DEF l, i
    <3> QED BY <2>4, <2>5 DEF ReadyList
  <2>8. /\ k2.ready = [kk.ready EXCEPT ![p] = l2]
        /\ k2.top = p /\ k2.cur = l.q[i]
        /\ SameBut(kk, k2, {"yp", "top", "ready", "cur"})
    <3> HIDE DEF p
    <3> QED BY DEF SameBut, KernelFields, KernelOk, KernelTypes
  <2> HIDE DEF k2
  <2> HIDE DEF l2, p, i
  <2>9. DOMAIN kk.ready = Prio /\ \A r \in Prio : k2.ready[r].q = kk.ready[r].q
        /\ k2.ready[r] \in ReadyList
    BY <2>3, <2>7, <2>8 DEF KernelOk, KernelTypes
  <2>10. /\ k2.delayed = kk.delayed /\ k2.overflow = kk.overflow
         /\ k2.suspended = kk.suspended /\ k2.dead = kk.dead /\ k2.gone = kk.gone
         /\ k2.prio = kk.prio /\ k2.base = kk.base /\ k2.evprio = kk.evprio /\ k2.sus = kk.sus
         /\ k2.pended = kk.pended /\ k2.ev = kk.ev /\ k2.nstate = kk.nstate
         /\ DOMAIN k2 = KernelFields
    BY <2>8 DEF SameBut, KernelFields
  <2>11. \A u, x : x \in Places => (IsAt(k2, u, x) <=> IsAt(kk, u, x))
    BY <2>9, <2>10, SamePlaces
  <2>12. k2.ready \in [Prio -> ReadyList] BY <2>8, <2>9
  <2>13. \A r \in Prio : k2.ready[r].q # <<>> => r <= k2.top
    BY <2>2, <2>8, <2>9 DEF KernelOk, KernelTypes
  <2>14. KernelTypes(k2)
    BY <2>3, <2>6, <2>8, <2>10, <2>12, <2>13 DEF KernelOk, KernelTypes
  <2>15. /\ \A u, m : InEvent(k2, u, m) <=> InEvent(kk, u, m)
         /\ \A u, r : r \in Prio => (ReadyAt(k2, u, r) <=> ReadyAt(kk, u, r))
    BY <2>9, <2>10 DEF InEvent, ReadyAt
  <2>16. {"dead", "gone", "ready", "suspended"} \subseteq Places BY DEF Places
  <2>17. Placed(k2)
    <3>1. \A t \in Task : OnePlace(k2, t) BY <2>11 DEF KernelOk, Placed, OnePlace
    <3> QED BY <2>10, <2>11, <2>15, <2>16, <3>1 DEF KernelOk, Placed
  <2>18. Evented(k2) BY <2>11, <2>15, <2>16 DEF KernelOk, Evented, Alive
  <2>19. k2.cur \in Task /\ IsAt(k2, k2.cur, "ready")
    <3>1. ReadyAt(kk, k2.cur, p) BY <2>6, <2>8 DEF ReadyAt
    <3> QED BY <2>3, <2>6, <2>8, <2>11, <2>16, <3>1, IsAtPlace
  <2>20. Settled(k2)
    <3>1. ~IsAt(k2, k2.cur, "suspended") /\ Alive(k2, k2.cur)
      BY <2>16, <2>17, <2>19, Elsewhere DEF Alive
    <3>2. \A m \in EventList \union {Pend} : InEvent(k2, k2.cur, m) => m = Pend
      BY <2>18, <2>19 DEF Evented
    <3>3. ~InEvent(k2, k2.cur, Pend) BY <2>1, <2>15 DEF NonePending
    <3> QED BY <3>1, <3>2, <3>3 DEF Settled
  <2>21. Flow(kk, k2)
    BY <2>1, <2>10, <2>11, <2>15, <2>16, <2>20 DEF Flow, NonePending
  <2> QED BY <2>0, <2>14, <2>17, <2>18, <2>20, <2>21 DEF KernelOk
<1> QED BY <1>1, <1>2

\* The lists of a kernel whose current task is about to sleep: it may be in an
\* event list although it is still ready.
Bedtime(kk) ==
    /\ KernelTypes(kk) /\ Placed(kk)
    /\ \A t \in Task, l \in EventList \union {Pend} : InEvent(kk, t, l) =>
          /\ Alive(kk, t)
          /\ l # Pend /\ t # kk.cur => ~IsAt(kk, t, "ready")
          /\ \A m \in EventList \union {Pend} : InEvent(kk, t, m) => m = l
    /\ kk.cur # Idle /\ Alive(kk, kk.cur)

\* What putting the current task to sleep leaves alone.
Slept(kk, k2) ==
    /\ k2.cur = kk.cur /\ k2.sus = kk.sus /\ k2.nstate = kk.nstate
    /\ \A u, x : x \in {"dead", "gone"} => (IsAt(k2, u, x) <=> IsAt(kk, u, x))
    /\ \A u : InEvent(k2, u, Pend) <=> InEvent(kk, u, Pend)

LEMMA SleepIs ==
    ASSUME NEW kk, Bedtime(kk), NEW ticks, NEW forEver \in BOOLEAN
    PROVE  /\ KernelOk(AddCurrentToDelayed(kk, ticks, forEver))
           /\ Slept(kk, AddCurrentToDelayed(kk, ticks, forEver))
<1> DEFINE t == kk.cur
           w == (kk.tick + ticks) % TickMod
           o == OutOfState(kk, t)
           a == [o EXCEPT !.aborted = @ \ {t}]
           b == [a EXCEPT !.wake[t] = w]
           k2 == AddCurrentToDelayed(kk, ticks, forEver)
           E == EventList \union {Pend}
           S == {"ready", "delayed", "overflow", "suspended", "wake", "aborted", "unblock"}
<1>1. t \in Task /\ t # Idle /\ Alive(kk, t) /\ KernelTypes(kk) BY DEF Bedtime, KernelTypes
<1>2. /\ KernelTypes(o)
      /\ SameBut(kk, o, {"ready", "delayed", "overflow", "suspended", "wake"})
      /\ \A u, p : p \in Prio => (ReadyAt(o, u, p) <=> ReadyAt(kk, u, p) /\ u # t)
      /\ \A u, x : x \in Places =>
            (IsAt(o, u, x) <=> IsAt(kk, u, x) /\ (u # t \/ x \in {"dead", "gone"}))
  BY <1>1, OutOfStateIs
<1> HIDE DEF o
<1>3. ~Contains(o.delayed, t) /\ ~Contains(o.overflow, t) /\ o.delayed \in Lists /\ o.overflow \in Lists
  BY <1>2, IsAtPlace DEF Places, KernelTypes
<1>4. PICK d \in Lists, v \in Lists, s \in SUBSET Task :
         /\ SameBut(kk, k2, S) /\ k2.ready = o.ready
         /\ k2.delayed = d /\ k2.overflow = v /\ k2.suspended = s
         /\ \A u : u # t => /\ Contains(d, u) <=> Contains(o.delayed, u)
                            /\ Contains(v, u) <=> Contains(o.overflow, u)
                            /\ u \in s <=> u \in o.suspended
         /\ \/ Contains(d, t) /\ ~Contains(v, t) /\ t \notin s
            \/ ~Contains(d, t) /\ Contains(v, t) /\ t \notin s
            \/ ~Contains(d, t) /\ ~Contains(v, t) /\ t \in s
  <2> DEFINE F == KernelFields
  <2>1. /\ DOMAIN a = F /\ a.ready = o.ready /\ a.delayed = o.delayed /\ a.overflow = o.overflow
        /\ a.suspended = o.suspended /\ SameBut(kk, a, S)
    BY <1>2 DEF SameBut, KernelFields
  <2>2. /\ DOMAIN b = F /\ b.ready = o.ready /\ b.delayed = o.delayed /\ b.overflow = o.overflow
        /\ b.suspended = o.suspended /\ SameBut(kk, b, S)
    BY <2>1 DEF SameBut, KernelFields
  <2>3. t \notin o.suspended /\ o.suspended \in SUBSET Task
    BY <1>2, IsAtPlace DEF Places, KernelTypes
  <2>4. CASE ticks = MaxDelay /\ forEver
    <3> DEFINE c == [a EXCEPT !.suspended = @ \union {t}]
    <3>1. k2 = c BY <2>4 DEF AddCurrentToDelayed, o
    <3> HIDE DEF a, k2
    <3>2. /\ c.suspended = o.suspended \union {t} /\ c.delayed = o.delayed
          /\ c.overflow = o.overflow /\ c.ready = o.ready /\ SameBut(kk, c, S)
      BY <2>1 DEF SameBut, KernelFields
    <3> HIDE DEF c
    <3>3. o.suspended \union {t} \in SUBSET Task BY <1>1, <2>3
    <3> QED BY <1>3, <3>1, <3>2, <3>3
  <2>5. CASE ~(ticks = MaxDelay /\ forEver) /\ w < kk.tick
    <3> DEFINE r == ByWake(b, b.overflow, t)
               c == [b EXCEPT !.overflow = ByWake(b, @, t)]
    <3>1. k2 = c BY <2>5 DEF AddCurrentToDelayed, o
    <3>2. r \in Lists /\ \A u : Contains(r, u) <=> Contains(o.overflow, u) \/ u = t
      <4> HIDE DEF b
      <4> QED BY <1>1, <1>3, <2>2, WakeSorted
    <3> HIDE DEF b, k2
    <3>3. /\ c.suspended = o.suspended /\ c.delayed = o.delayed
          /\ c.overflow = r /\ c.ready = o.ready /\ SameBut(kk, c, S)
      BY <2>2 DEF SameBut, KernelFields
    <3> HIDE DEF c, r
    <3> QED BY <1>3, <2>3, <3>1, <3>2, <3>3
  <2>6. CASE ~(ticks = MaxDelay /\ forEver) /\ ~(w < kk.tick)
    <3> DEFINE r == ByWake(b, b.delayed, t)
               c == [b EXCEPT !.delayed = ByWake(b, @, t), !.unblock = IF w < @ THEN w ELSE @]
    <3>1. k2 = c BY <2>6 DEF AddCurrentToDelayed, o
    <3>2. r \in Lists /\ \A u : Contains(r, u) <=> Contains(o.delayed, u) \/ u = t
      <4> HIDE DEF b
      <4> QED BY <1>1, <1>3, <2>2, WakeSorted
    <3> HIDE DEF b, k2
    <3>3. /\ c.suspended = o.suspended /\ c.delayed = r
          /\ c.overflow = o.overflow /\ c.ready = o.ready /\ SameBut(kk, c, S)
      BY <2>2 DEF SameBut, KernelFields
    <3> HIDE DEF c, r
    <3> QED BY <1>3, <2>3, <3>1, <3>2, <3>3
  <2> QED BY <2>4, <2>5, <2>6
<1> HIDE DEF k2
<1>5. /\ k2.cur = kk.cur /\ k2.top = kk.top /\ k2.dead = kk.dead /\ k2.gone = kk.gone
      /\ k2.prio = kk.prio /\ k2.base = kk.base /\ k2.evprio = kk.evprio /\ k2.sus = kk.sus
      /\ k2.pended = kk.pended /\ k2.ev = kk.ev /\ k2.nstate = kk.nstate
      /\ DOMAIN k2 = KernelFields
  BY <1>4 DEF SameBut, KernelFields
<1>6. /\ o.top = kk.top /\ o.dead = kk.dead /\ o.gone = kk.gone
  BY <1>2 DEF SameBut, KernelFields
<1>7. KernelTypes(k2) BY <1>1, <1>2, <1>4, <1>5, <1>6 DEF KernelTypes
<1>8. {"dead", "gone", "ready", "suspended", "delayed", "overflow"} = Places BY DEF Places
<1>9. \A u, p : p \in Prio => (ReadyAt(k2, u, p) <=> ReadyAt(kk, u, p) /\ u # t)
  BY <1>2, <1>4 DEF ReadyAt
<1>10. OthersStay(kk, k2, t)
  <2> SUFFICES ASSUME NEW u, NEW x, u # t, x \in Places PROVE IsAt(k2, u, x) <=> IsAt(o, u, x)
    BY <1>2 DEF OthersStay
  <2>1. IsAt(k2, u, "ready") <=> IsAt(o, u, "ready") BY <1>4, IsAtPlace DEF ReadyAt
  <2> QED BY <1>4, <1>5, <1>6, <1>8, <2>1, IsAtPlace
<1>11. \E place \in {"delayed", "overflow", "suspended"} : OnlyAt(k2, t, place)
  <2>1. ~IsAt(k2, t, "ready") BY <1>9, IsAtPlace
  <2>2. ~IsAt(k2, t, "dead") /\ ~IsAt(k2, t, "gone") BY <1>1, <1>5, IsAtPlace DEF Alive
  <2> QED BY <1>4, <1>8, <2>1, <2>2, IsAtPlace DEF OnlyAt
<1>12. Placed(k2)
  <2>1. \A u \in Task : OnePlace(k2, u) BY <1>10, <1>11, OneMoves DEF Bedtime
  <2>2. \A u \in Task, p \in Prio : ReadyAt(k2, u, p) => p = k2.prio[u]
    BY <1>5, <1>9 DEF Bedtime, Placed
  <2>3. IsAt(k2, Idle, "ready") BY <1>1, <1>8, <1>10 DEF Bedtime, Placed, OthersStay
  <2> QED BY <2>1, <2>2, <2>3 DEF Placed
<1>13. \A u, l : InEvent(k2, u, l) <=> InEvent(kk, u, l) BY <1>5 DEF InEvent
<1>14. \A u, x : x \in {"dead", "gone"} => (IsAt(k2, u, x) <=> IsAt(kk, u, x))
  BY <1>5, IsAtPlace
<1>15. Evented(k2)
  <2> SUFFICES ASSUME NEW u \in Task, NEW l \in E, InEvent(kk, u, l)
               PROVE  /\ Alive(k2, u)
                      /\ l # Pend => ~IsAt(k2, u, "ready")
                      /\ \A m \in E : InEvent(kk, u, m) => m = l
    BY <1>13 DEF Evented
  <2>1. Alive(kk, u) /\ (l # Pend /\ u # t => ~IsAt(kk, u, "ready"))
        /\ \A m \in E : InEvent(kk, u, m) => m = l
    BY DEF Bedtime
  <2>2. Alive(k2, u) BY <1>14, <2>1 DEF Alive
  <2>3. u = t => ~IsAt(k2, u, "ready") BY <1>9, IsAtPlace
  <2>4. u # t => (IsAt(k2, u, "ready") <=> IsAt(kk, u, "ready")) BY <1>8, <1>10 DEF OthersStay
  <2> QED BY <2>1, <2>2, <2>3, <2>4
<1>16. Slept(kk, k2) BY <1>5, <1>13, <1>14 DEF Slept
<1> QED BY <1>7, <1>12, <1>15, <1>16 DEF KernelOk, k2

\* The current task goes onto an event list.
LEMMA Enlisted ==
    ASSUME NEW kk, KernelOk(kk), Settled(kk), kk.cur # Idle, NEW l \in EventList, l # Pend,
           NEW r, r \in Lists, \A u : Contains(r, u) <=> Contains(kk.ev[l], u) \/ u = kk.cur,
           NEW k2, SameBut(kk, k2, {"ev", "evval"}), k2.ev = [kk.ev EXCEPT ![l] = r]
    PROVE  Bedtime(k2) /\ Slept(kk, k2)
<1> DEFINE E == EventList \union {Pend}
<1>1. /\ k2.cur = kk.cur /\ k2.delayed = kk.delayed /\ k2.overflow = kk.overflow
      /\ k2.suspended = kk.suspended /\ k2.dead = kk.dead /\ k2.gone = kk.gone
      /\ k2.prio = kk.prio /\ k2.base = kk.base /\ k2.evprio = kk.evprio /\ k2.sus = kk.sus
      /\ k2.pended = kk.pended /\ k2.nstate = kk.nstate
      /\ k2.ready = kk.ready /\ k2.top = kk.top /\ DOMAIN k2 = KernelFields
  BY DEF SameBut, KernelFields
<1>2. kk.ev \in [E -> Lists] /\ l \in E BY DEF KernelOk, KernelTypes
<1>3. k2.ev \in [E -> Lists] /\ k2.ev[l] = r /\ \A m \in E \ {l} : k2.ev[m] = kk.ev[m] BY <1>2
<1>4. KernelTypes(k2) BY <1>1, <1>3 DEF KernelOk, KernelTypes
<1>5. /\ \A u, x : x \in Places => (IsAt(k2, u, x) <=> IsAt(kk, u, x))
      /\ \A u, p : ReadyAt(k2, u, p) <=> ReadyAt(kk, u, p)
  BY <1>1, SamePlaces DEF ReadyAt
<1>6. \A u, m : m \in E => (InEvent(k2, u, m) <=> InEvent(kk, u, m) \/ (u = kk.cur /\ m = l))
  <2> TAKE u, m
  <2> HAVE m \in E
  <2>1. CASE m = l BY <1>3, <2>1 DEF InEvent
  <2>2. CASE m # l
    <3>1. k2.ev[m] = kk.ev[m] BY <1>3, <2>2
    <3> QED BY <2>2, <3>1 DEF InEvent
  <2> QED BY <2>1, <2>2
<1>7. {"dead", "gone", "ready", "suspended"} \subseteq Places BY DEF Places
<1>8. Placed(k2)
  <2>1. \A u \in Task : OnePlace(k2, u) BY <1>5 DEF KernelOk, Placed, OnePlace
  <2> QED BY <1>1, <1>5, <1>7, <2>1 DEF KernelOk, Placed
<1>9. Alive(k2, kk.cur) /\ \A m \in E : ~InEvent(kk, kk.cur, m)
  BY <1>5, <1>7 DEF Settled, Alive
<1>10. ASSUME NEW t \in Task, NEW m \in E, InEvent(k2, t, m)
       PROVE  /\ Alive(k2, t)
              /\ m # Pend /\ t # k2.cur => ~IsAt(k2, t, "ready")
              /\ \A n \in E : InEvent(k2, t, n) => n = m
  <2>1. CASE t = kk.cur BY <1>1, <1>6, <1>9, <1>10, <2>1
  <2>2. CASE t # kk.cur
    <3>1. InEvent(kk, t, m) BY <1>6, <1>10, <2>2
    <3>2. /\ Alive(kk, t)
          /\ m # Pend => ~IsAt(kk, t, "ready")
          /\ \A n \in E : InEvent(kk, t, n) => n = m
      BY <3>1 DEF KernelOk, Evented
    <3>3. Alive(k2, t) BY <1>5, <1>7, <3>2 DEF Alive
    <3>4. m # Pend => ~IsAt(k2, t, "ready") BY <1>5, <1>7, <3>2
    <3>5. \A n \in E : InEvent(k2, t, n) => n = m BY <1>6, <2>2, <3>2
    <3> QED BY <3>3, <3>4, <3>5
  <2> QED BY <2>1, <2>2
<1>11. Bedtime(k2) BY <1>1, <1>4, <1>8, <1>9, <1>10 DEF Bedtime
<1>12. Slept(kk, k2) BY <1>1, <1>5, <1>6, <1>7 DEF Slept
<1> QED BY <1>11, <1>12

LEMMA SleptOn ==
    ASSUME NEW kk, NEW k2, NEW k3, Slept(kk, k2), Slept(k2, k3) PROVE Slept(kk, k3)
BY DEF Slept

\* A settled task may sleep without an event.
LEMMA SettledSleeps == ASSUME NEW kk, KernelOk(kk), Settled(kk), kk.cur # Idle PROVE Bedtime(kk)
BY DEF KernelOk, Settled, Evented, Bedtime, KernelTypes

LEMMA PlaceIs ==
    ASSUME NEW kk, KernelOk(kk), Settled(kk), kk.cur # Idle, NEW l \in EventList, l # Pend,
           NEW ticks
    PROVE  KernelOk(PlaceOnEventList(kk, l, ticks)) /\ Slept(kk, PlaceOnEventList(kk, l, ticks))
<1> DEFINE r == ByPrio(kk, kk.ev[l], kk.cur)
           a == [kk EXCEPT !.ev[l] = ByPrio(kk, @, kk.cur)]
<1>1. kk.ev[l] \in Lists /\ kk.cur \in Task /\ ~Contains(kk.ev[l], kk.cur)
  BY DEF KernelOk, KernelTypes, Settled, InEvent
<1>2. r \in Lists /\ \A u : Contains(r, u) <=> Contains(kk.ev[l], u) \/ u = kk.cur
  BY <1>1, PrioSorted
<1>3. SameBut(kk, a, {"ev", "evval"}) /\ a.ev = [kk.ev EXCEPT ![l] = r]
  BY DEF SameBut, KernelFields, KernelOk, KernelTypes
<1> HIDE DEF a, r
<1>4. Bedtime(a) /\ Slept(kk, a) BY <1>2, <1>3, Enlisted
<1>5. PlaceOnEventList(kk, l, ticks) = AddCurrentToDelayed(a, ticks, TRUE)
  BY DEF PlaceOnEventList, a, r
<1> QED BY <1>4, <1>5, SleepIs, SleptOn

LEMMA UnorderedIs ==
    ASSUME NEW kk, KernelOk(kk), Settled(kk), kk.cur # Idle, Waiters \in EventList, NEW w, NEW ticks
    PROVE  KernelOk(PlaceOnUnordered(kk, w, ticks)) /\ Slept(kk, PlaceOnUnordered(kk, w, ticks))
<1> DEFINE r == Append(kk.ev[Waiters], kk.cur)
           a == [kk EXCEPT !.evval[kk.cur] = w, !.ev[Waiters] = Append(@, kk.cur)]
<1>1. kk.ev[Waiters] \in Lists /\ kk.cur \in Task /\ ~Contains(kk.ev[Waiters], kk.cur)
  BY DEF KernelOk, KernelTypes, Settled, InEvent
<1>2. r \in Lists /\ \A u : Contains(r, u) <=> Contains(kk.ev[Waiters], u) \/ u = kk.cur
  BY <1>1, ListAppended
<1>3. SameBut(kk, a, {"ev", "evval"}) /\ a.ev = [kk.ev EXCEPT ![Waiters] = r]
  BY DEF SameBut, KernelFields, KernelOk, KernelTypes
<1>4. Waiters # Pend BY DEF Waiters, Pend
<1> HIDE DEF a, r
<1>5. Bedtime(a) /\ Slept(kk, a) BY <1>2, <1>3, <1>4, Enlisted
<1>6. PlaceOnUnordered(kk, w, ticks) = AddCurrentToDelayed(a, ticks, TRUE)
  BY DEF PlaceOnUnordered, a, r
<1> QED BY <1>5, <1>6, SleepIs, SleptOn

Plain == {"wake", "evval", "held", "note", "tick", "ovf", "unblock", "yp", "aborted"}
LEMMA PlainChange ==
    ASSUME NEW kk, KernelOk(kk), NEW k2, SameBut(kk, k2, Plain)
    PROVE  /\ KernelOk(k2) /\ Flow(kk, k2)
           /\ \A u, x : x \in Places => (IsAt(k2, u, x) <=> IsAt(kk, u, x))
           /\ \A u, l : InEvent(k2, u, l) <=> InEvent(kk, u, l)
           /\ k2.cur = kk.cur /\ k2.prio = kk.prio /\ k2.sus = kk.sus /\ k2.ev = kk.ev
<1>1. /\ SameBut(kk, k2, Minor) /\ k2.base = kk.base /\ k2.evprio = kk.evprio
      /\ k2.pended = kk.pended /\ k2.nstate = kk.nstate
  BY DEF SameBut, Minor, Plain, KernelFields
<1>2. k2.base \in [Task -> Prio] /\ k2.evprio \in [Task -> Prio] /\ k2.pended \in Nat
      /\ DOMAIN k2.nstate = Task
  BY <1>1 DEF KernelOk, KernelTypes
<1>3. \A u \in Task : k2.nstate[u] = "waiting" => kk.nstate[u] = "waiting" BY <1>1
<1> QED BY <1>1, <1>2, <1>3, MinorKeeps, MinorChange

LEMMA YieldIs ==
    ASSUME NEW kk, KernelOk(kk), NEW v
    PROVE  SameBut(kk, [kk EXCEPT !.yp = v], Plain)
BY DEF SameBut, Plain, KernelFields, KernelOk, KernelTypes

LEMMA ResetIs ==
    ASSUME NEW kk, KernelOk(kk)
    PROVE  SameBut(kk, ResetUnblock(kk), Plain)
<1> DEFINE v == IF kk.delayed = <<>> THEN MaxDelay ELSE kk.wake[Head(kk.delayed)]
           k2 == [kk EXCEPT !.unblock = v]
<1>1. ResetUnblock(kk) = k2 BY DEF ResetUnblock
<1> HIDE DEF v
<1>2. SameBut(kk, k2, Plain) BY DEF SameBut, Plain, KernelFields, KernelOk, KernelTypes
<1> QED BY <1>1, <1>2

\* A task that is in no event list is pended, while the scheduler is suspended.
LEMMA PendedIs ==
    ASSUME NEW o, KernelOk(o), NEW t \in Task, Alive(o, t), o.sus # 0,
           \A l \in EventList \union {Pend} : ~InEvent(o, t, l),
           NEW kk, Flow(kk, o), kk.cur = o.cur, Settled(kk) => t # kk.cur,
           NEW k2, SameBut(o, k2, {"ev"}), k2.ev = [o.ev EXCEPT ![Pend] = Append(@, t)]
    PROVE  KernelOk(k2) /\ Flow(kk, k2)
<1> DEFINE E == EventList \union {Pend}
           r == Append(o.ev[Pend], t)
<1>1. o.ev \in [E -> Lists] /\ Pend \in E BY DEF KernelOk, KernelTypes
<1>2. r \in Lists /\ \A u : Contains(r, u) <=> Contains(o.ev[Pend], u) \/ u = t
  <2>1. o.ev[Pend] \in Lists /\ ~Contains(o.ev[Pend], t) BY <1>1 DEF InEvent
  <2> QED BY <2>1, ListAppended
<1>3. k2.ev = [o.ev EXCEPT ![Pend] = r] OBVIOUS
<1> HIDE DEF r
<1>4. /\ k2.cur = o.cur /\ k2.delayed = o.delayed /\ k2.overflow = o.overflow
      /\ k2.suspended = o.suspended /\ k2.dead = o.dead /\ k2.gone = o.gone
      /\ k2.prio = o.prio /\ k2.base = o.base /\ k2.evprio = o.evprio /\ k2.sus = o.sus
      /\ k2.pended = o.pended /\ k2.nstate = o.nstate
      /\ k2.ready = o.ready /\ k2.top = o.top /\ DOMAIN k2 = KernelFields
  BY DEF SameBut, KernelFields
<1>5. k2.ev \in [E -> Lists] /\ k2.ev[Pend] = r /\ \A m \in E \ {Pend} : k2.ev[m] = o.ev[m]
  BY <1>1, <1>2, <1>3
<1>6. KernelTypes(k2) BY <1>4, <1>5 DEF KernelOk, KernelTypes
<1>7. /\ \A u, x : x \in Places => (IsAt(k2, u, x) <=> IsAt(o, u, x))
      /\ \A u, p : ReadyAt(k2, u, p) <=> ReadyAt(o, u, p)
  BY <1>4, SamePlaces DEF ReadyAt
<1>8. \A u, m : m \in E => (InEvent(k2, u, m) <=> InEvent(o, u, m) \/ (u = t /\ m = Pend))
  <2> TAKE u, m
  <2> HAVE m \in E
  <2>1. CASE m = Pend BY <1>2, <1>5, <2>1 DEF InEvent
  <2>2. CASE m # Pend
    <3>1. k2.ev[m] = o.ev[m] BY <1>5, <2>2
    <3> QED BY <2>2, <3>1 DEF InEvent
  <2> QED BY <2>1, <2>2
<1>9. {"dead", "gone", "ready", "suspended"} \subseteq Places BY DEF Places
<1>10. Placed(k2)
  <2>1. \A u \in Task : OnePlace(k2, u) BY <1>7 DEF KernelOk, Placed, OnePlace
  <2> QED BY <1>4, <1>7, <1>9, <2>1 DEF KernelOk, Placed
<1>11. Alive(k2, t) BY <1>7, <1>9 DEF Alive
<1>12. Evented(k2)
  <2> SUFFICES ASSUME NEW u \in Task, NEW l \in E, InEvent(k2, u, l)
               PROVE  /\ Alive(k2, u)
                      /\ l # Pend => ~IsAt(k2, u, "ready")
                      /\ \A m \in E : InEvent(k2, u, m) => m = l
    BY DEF Evented
  <2>1. CASE u = t
    <3>1. l = Pend /\ \A m \in E : InEvent(k2, t, m) => m = Pend BY <1>8, <2>1
    <3> QED BY <1>11, <2>1, <3>1
  <2>2. CASE u # t
    <3>1. InEvent(o, u, l) BY <1>8, <2>2
    <3>2. /\ Alive(o, u)
          /\ l # Pend => ~IsAt(o, u, "ready")
          /\ \A m \in E : InEvent(o, u, m) => m = l
      BY <3>1 DEF KernelOk, Evented
    <3>3. Alive(k2, u) BY <1>7, <1>9, <3>2 DEF Alive
    <3>4. l # Pend => ~IsAt(k2, u, "ready") BY <1>7, <1>9, <3>2
    <3>5. \A m \in E : InEvent(k2, u, m) => m = l BY <1>8, <2>2, <3>2
    <3> QED BY <3>3, <3>4, <3>5
  <2> QED BY <2>1, <2>2
<1>13. Settled(kk) => Settled(k2)
  <2> SUFFICES ASSUME Settled(kk) PROVE Settled(k2) OBVIOUS
  <2>0. Settled(o) /\ t # o.cur BY DEF Flow
  <2>1. \A m \in E : ~InEvent(k2, k2.cur, m) BY <1>4, <1>8, <2>0 DEF Settled
  <2> QED BY <1>4, <1>7, <1>9, <2>0, <2>1 DEF Settled, Alive
<1>14. Flow(kk, k2)
  <2>1. \A u, x : x \in {"dead", "gone"} => (IsAt(k2, u, x) <=> IsAt(o, u, x)) BY <1>7, <1>9
  <2> QED BY <1>4, <1>13, <2>1 DEF Flow
<1> QED BY <1>6, <1>10, <1>12, <1>14 DEF KernelOk

\* A task taken off its event list is readied, or pended.
LEMMA UnblockIs ==
    ASSUME NEW kk, KernelOk(kk), NEW t \in Task, Alive(kk, t),
           Settled(kk) /\ kk.sus # 0 => t # kk.cur
    PROVE  KernelOk(Unblock(kk, t)) /\ Flow(kk, Unblock(kk, t))
<1> DEFINE a == IF kk.sus = 0 THEN Wakened(kk, t)
                ELSE [OutOfEvent(kk, t) EXCEPT !.ev[Pend] = Append(@, t)]
           E == EventList \union {Pend}
<1>1. Unblock(kk, t) = [a EXCEPT !.yp = @ \/ HigherThanCurrent(a, t)] BY DEF Unblock, YieldTo
<1>2. KernelOk(a) /\ Flow(kk, a)
  <2>1. CASE kk.sus = 0
    <3>1. a = Wakened(kk, t) BY <2>1
    <3> HIDE DEF a
    <3> QED BY <3>1, WakenedIs
  <2>2. CASE kk.sus # 0
    <3> DEFINE o == OutOfEvent(kk, t)
    <3>1. a = [o EXCEPT !.ev[Pend] = Append(@, t)] BY <2>2
    <3>2. KernelOk(o) /\ Flow(kk, o) BY OutOfEventKeeps
    <3>3. /\ SameBut(kk, o, {"ev"})
          /\ \A u, l : l \in E => (InEvent(o, u, l) <=> InEvent(kk, u, l) /\ u # t)
          /\ \A u, x : x \in Places => (IsAt(o, u, x) <=> IsAt(kk, u, x))
      BY OutOfEventIs DEF KernelOk
    <3> HIDE DEF o, a
    <3>4. o.cur = kk.cur /\ o.sus = kk.sus BY <3>3 DEF SameBut, KernelFields
    <3>5. Alive(o, t) /\ \A l \in E : ~InEvent(o, t, l) BY <3>3 DEF Alive, Places
    <3>6. SameBut(o, a, {"ev"}) /\ a.ev = [o.ev EXCEPT ![Pend] = Append(@, t)]
      BY <3>1, <3>2 DEF SameBut, KernelFields, KernelOk, KernelTypes
    <3> QED BY <2>2, <3>2, <3>4, <3>5, <3>6, PendedIs
  <2> QED BY <2>1, <2>2
<1> HIDE DEF a
<1> DEFINE v == a.yp \/ HigherThanCurrent(a, t)
<1>3. Unblock(kk, t) = [a EXCEPT !.yp = v] BY <1>1
<1> HIDE DEF v
<1>4. KernelOk([a EXCEPT !.yp = v]) /\ Flow(a, [a EXCEPT !.yp = v])
  BY <1>2, YieldIs, PlainChange
<1> QED BY <1>2, <1>3, <1>4, FlowOn

LEMMA UnblockFirstIs ==
    ASSUME NEW kk, KernelOk(kk), NEW l \in EventList \union {Pend}
    PROVE  KernelOk(UnblockFirst(kk, l).k) /\ Flow(kk, UnblockFirst(kk, l).k)
<1>1. CASE kk.ev[l] = <<>>
  <2>1. UnblockFirst(kk, l).k = kk BY <1>1 DEF UnblockFirst
  <2> QED BY <2>1, FlowStays
<1>2. CASE kk.ev[l] # <<>>
  <2> DEFINE t == Head(kk.ev[l])
  <2>1. UnblockFirst(kk, l).k = Unblock(kk, t) BY <1>2 DEF UnblockFirst
  <2>2. kk.ev[l] \in Lists BY DEF KernelOk, KernelTypes
  <2>3. t \in Task /\ InEvent(kk, t, l) BY <1>2, <2>2, ListHead DEF InEvent
  <2> HIDE DEF t
  <2>4. Alive(kk, t) BY <2>3 DEF KernelOk, Evented
  <2>5. Settled(kk) => t # kk.cur BY <2>3 DEF Settled
  <2> QED BY <2>1, <2>3, <2>4, <2>5, UnblockIs
<1> QED BY <1>1, <1>2

\* The scheduler is not suspended while tasks are pended.
Calm(kk) == KernelOk(kk) /\ (kk.sus = 0 => NonePending(kk))
LEMMA FlowCalm == ASSUME NEW kk, NEW k2, Calm(kk), KernelOk(k2), Flow(kk, k2) PROVE Calm(k2)
BY DEF Calm, Flow

LEMMA SwitchIfIs ==
    ASSUME NEW kk, NEW k2, Calm(kk), KernelOk(k2), Flow(kk, k2), NEW b
    PROVE  Calm(SwitchIf(b, k2)) /\ Flow(kk, SwitchIf(b, k2))
<1>1. Calm(k2) BY FlowCalm
<1>2. CASE b
  <2>1. SwitchIf(b, k2) = Switch(k2) BY <1>2 DEF SwitchIf
  <2>2. KernelOk(Switch(k2)) /\ Flow(k2, Switch(k2)) BY <1>1, SwitchIs DEF Calm
  <2> QED BY <1>1, <2>1, <2>2, FlowOn, FlowCalm
<1>3. CASE ~b BY <1>1, <1>3 DEF SwitchIf
<1> QED BY <1>2, <1>3

\* A switch that is owed leaves a calm kernel calm; one that is noted changes little.
LEMMA YieldNowIs ==
    ASSUME NEW kk, NEW u, Calm(kk), KernelOk(u.k), Flow(kk, u.k)
    PROVE  Calm(YieldNow(u)) /\ Flow(kk, YieldNow(u))
BY SwitchIfIs DEF YieldNow

LEMMA YieldLaterIs ==
    ASSUME NEW kk, NEW u, KernelOk(u.k), Flow(kk, u.k)
    PROVE  KernelOk(YieldLater(u)) /\ Flow(kk, YieldLater(u))
<1> DEFINE v == u.k.yp \/ u.switch
<1>1. YieldLater(u) = [u.k EXCEPT !.yp = v] BY DEF YieldLater
<1> HIDE DEF v
<1>2. KernelOk([u.k EXCEPT !.yp = v]) /\ Flow(u.k, [u.k EXCEPT !.yp = v]) BY YieldIs, PlainChange
<1> QED BY <1>1, <1>2, FlowOn

LEMMA YieldToIs ==
    ASSUME NEW kk, NEW a, KernelOk(a), Flow(kk, a), NEW t
    PROVE  /\ KernelOk(YieldTo(a, t)) /\ Flow(kk, YieldTo(a, t))
           /\ SameBut(a, YieldTo(a, t), Plain)
<1> DEFINE v == a.yp \/ HigherThanCurrent(a, t)
<1>1. YieldTo(a, t) = [a EXCEPT !.yp = v] BY DEF YieldTo
<1> HIDE DEF v
<1>2. SameBut(a, [a EXCEPT !.yp = v], Plain) BY YieldIs
<1>3. KernelOk([a EXCEPT !.yp = v]) /\ Flow(a, [a EXCEPT !.yp = v]) BY <1>2, PlainChange
<1> QED BY <1>1, <1>2, <1>3, FlowOn

\* A notification is stored.
Received(kk, t, v) == [kk EXCEPT !.nstate[t] = "received", !.note[t] = v]
LEMMA NotedIs ==
    ASSUME NEW kk, KernelOk(kk), NEW t \in Task, NEW v
    PROVE  LET a == Received(kk, t, v)
           IN  /\ KernelOk(a) /\ Flow(kk, a) /\ a.cur = kk.cur /\ a.sus = kk.sus
               /\ Alive(kk, t) => Alive(a, t)
<1> DEFINE a == Received(kk, t, v)
<1>1. SameBut(kk, a, Minor) BY DEF SameBut, Minor, KernelFields, KernelOk, KernelTypes, Received
<1>2. /\ a.base = kk.base /\ a.evprio = kk.evprio /\ a.pended = kk.pended
      /\ a.nstate = [kk.nstate EXCEPT ![t] = "received"]
  BY DEF KernelFields, KernelOk, KernelTypes, Received
<1> HIDE DEF a
<1>3. /\ kk.base \in [Task -> Prio] /\ kk.evprio \in [Task -> Prio] /\ kk.pended \in Nat
      /\ DOMAIN kk.nstate = Task
  BY DEF KernelOk, KernelTypes
<1>4. \A u \in Task : a.nstate[u] = "waiting" => kk.nstate[u] = "waiting" BY <1>2, <1>3
<1>5. DOMAIN a.nstate = Task BY <1>2, <1>3
<1>6. KernelOk(a) /\ Flow(kk, a) BY <1>1, <1>2, <1>3, <1>4, <1>5, MinorKeeps
<1>7. a.cur = kk.cur /\ a.sus = kk.sus BY <1>1, MinorChange
<1> QED BY <1>6, <1>7 DEF Flow, Alive, a

LEMMA NotifyIs ==
    ASSUME NEW kk, KernelOk(kk), NEW t \in Task, Alive(kk, t), NEW v
    PROVE  KernelOk(Notify(kk, t, v).k) /\ Flow(kk, Notify(kk, t, v).k)
<1> DEFINE a == Received(kk, t, v)
<1>1. Notify(kk, t, v).k \in {a, Wakened(a, t)} BY DEF Notify, Received
<1>2. KernelOk(a) /\ Flow(kk, a) /\ Alive(a, t) BY NotedIs
<1> HIDE DEF a
<1>3. KernelOk(Wakened(a, t)) /\ Flow(a, Wakened(a, t)) BY <1>2, WakenedIs
<1> QED BY <1>1, <1>2, <1>3, FlowOn

LEMMA NotifyFromISRIs ==
    ASSUME NEW kk, KernelOk(kk), NEW t \in Task, Alive(kk, t), NEW v,
           kk.sus # 0 /\ kk.nstate[t] = "waiting" => t # kk.cur
    PROVE  KernelOk(NotifyFromISR(kk, t, v).k) /\ Flow(kk, NotifyFromISR(kk, t, v).k)
<1> DEFINE a == Received(kk, t, v)
<1>1. KernelOk(a) /\ Flow(kk, a) /\ Alive(a, t) /\ a.cur = kk.cur /\ a.sus = kk.sus BY NotedIs
<1>2. CASE kk.nstate[t] = "waiting"
  <2>1. NotifyFromISR(kk, t, v).k = Unblock(a, t) BY <1>2 DEF NotifyFromISR, Received
  <2> HIDE DEF a
  <2>2. KernelOk(Unblock(a, t)) /\ Flow(a, Unblock(a, t)) BY <1>1, <1>2, UnblockIs
  <2> QED BY <1>1, <2>1, <2>2, FlowOn
<1>3. CASE kk.nstate[t] # "waiting"
  <2>1. NotifyFromISR(kk, t, v).k = a BY <1>3 DEF NotifyFromISR, Received
  <2> QED BY <1>1, <2>1
<1> QED BY <1>2, <1>3

\* A task has another priority, and is in the ready list of that one if it is ready.
LEMMA ReprioritiseIs ==
    ASSUME NEW kk, KernelOk(kk), NEW t \in Task, NEW p \in Prio
    PROVE  /\ KernelOk(Reprioritise(kk, t, p)) /\ Flow(kk, Reprioritise(kk, t, p))
<1> DEFINE e == IF kk.evval[t] = NotInUse THEN p ELSE kk.evprio[t]
           a == [kk EXCEPT !.prio[t] = p, !.evprio[t] = e]
           E == EventList \union {Pend}
<1>1. e \in Prio BY DEF KernelOk, KernelTypes
<1>2. /\ a.prio = [kk.prio EXCEPT ![t] = p] /\ a.evprio = [kk.evprio EXCEPT ![t] = e]
      /\ SameBut(kk, a, {"prio", "evprio"})
  <2> HIDE DEF e
  <2> QED BY DEF SameBut, KernelFields, KernelOk, KernelTypes
<1>3. a.prio \in [Task -> Prio] /\ a.evprio \in [Task -> Prio] /\ a.prio[t] = p
      /\ \A u \in Task \ {t} : a.prio[u] = kk.prio[u]
  BY <1>1, <1>2 DEF KernelOk, KernelTypes
<1>4. {"dead", "gone", "ready", "suspended"} \subseteq Places BY DEF Places
<1>5. CASE ~IsReady(kk, t)
  <2>1. Reprioritise(kk, t, p) = a BY <1>5 DEF Reprioritise, IsReady
  <2> HIDE DEF a
  <2>2. /\ a.cur = kk.cur /\ a.delayed = kk.delayed /\ a.overflow = kk.overflow
        /\ a.suspended = kk.suspended /\ a.dead = kk.dead /\ a.gone = kk.gone
        /\ a.base = kk.base /\ a.sus = kk.sus /\ a.pended = kk.pended /\ a.nstate = kk.nstate
        /\ a.ready = kk.ready /\ a.top = kk.top /\ a.ev = kk.ev /\ DOMAIN a = KernelFields
    BY <1>2 DEF SameBut, KernelFields
  <2>3. KernelTypes(a) BY <1>3, <2>2 DEF KernelOk, KernelTypes
  <2>4. /\ \A u, x : x \in Places => (IsAt(a, u, x) <=> IsAt(kk, u, x))
        /\ \A u, q : ReadyAt(a, u, q) <=> ReadyAt(kk, u, q)
        /\ \A u, l : InEvent(a, u, l) <=> InEvent(kk, u, l)
    BY <2>2, SamePlaces DEF ReadyAt, InEvent
  <2>5. \A u \in Task, q \in Prio : ReadyAt(a, u, q) => q = a.prio[u]
    <3> TAKE u \in Task, q \in Prio
    <3> HAVE ReadyAt(a, u, q)
    <3>1. ReadyAt(kk, u, q) /\ q = kk.prio[u] BY <2>4 DEF KernelOk, Placed
    <3>2. u # t BY <1>5, <3>1 DEF IsReady, ReadyAt
    <3> QED BY <1>3, <3>1, <3>2
  <2>6. \A u \in Task : OnePlace(a, u) BY <2>4 DEF KernelOk, Placed, OnePlace
  <2>7. Placed(a) BY <1>4, <2>4, <2>5, <2>6 DEF KernelOk, Placed
  <2>8. Evented(a) BY <1>4, <2>4 DEF KernelOk, Evented, Alive
  <2>9. Flow(kk, a) BY <1>4, <2>2, <2>4 DEF Flow, NonePending, Settled, Alive
  <2> QED BY <2>1, <2>3, <2>7, <2>8, <2>9 DEF KernelOk
<1>6. CASE IsReady(kk, t)
  <2> DEFINE o == OutOfState(kk, t)
             b == [o EXCEPT !.prio = a.prio, !.evprio = a.evprio]
             k2 == AddToReady(b, t)
  <2>1. Reprioritise(kk, t, p) = k2 BY <1>6 DEF Reprioritise
  <2>2. /\ KernelTypes(o)
        /\ SameBut(kk, o, {"ready", "delayed", "overflow", "suspended", "wake"})
        /\ \A u, q : q \in Prio => (ReadyAt(o, u, q) <=> ReadyAt(kk, u, q) /\ u # t)
        /\ \A u, x : x \in Places =>
              (IsAt(o, u, x) <=> IsAt(kk, u, x) /\ (u # t \/ x \in {"dead", "gone"}))
    BY OutOfStateIs DEF KernelOk
  <2> HIDE DEF o
  <2>3. SameBut(o, b, {"prio", "evprio"}) /\ b.prio = a.prio /\ b.evprio = a.evprio
    BY <2>2 DEF SameBut, KernelFields
  <2> HIDE DEF a, b
  <2>4. /\ b.cur = o.cur /\ b.delayed = o.delayed /\ b.overflow = o.overflow
        /\ b.suspended = o.suspended /\ b.dead = o.dead /\ b.gone = o.gone
        /\ b.base = o.base /\ b.sus = o.sus /\ b.pended = o.pended /\ b.nstate = o.nstate
        /\ b.ready = o.ready /\ b.top = o.top /\ b.ev = o.ev /\ DOMAIN b = KernelFields
    BY <2>3 DEF SameBut, KernelFields
  <2>5. KernelTypes(b) BY <1>3, <2>2, <2>3, <2>4 DEF KernelTypes
  <2>6. /\ \A u, x : x \in Places => (IsAt(b, u, x) <=> IsAt(o, u, x))
        /\ \A u, q : ReadyAt(b, u, q) <=> ReadyAt(o, u, q)
    BY <2>4, SamePlaces DEF ReadyAt
  <2>7. b.prio[t] = p BY <1>3, <2>3
  <2>8. ~ReadyAt(b, t, b.prio[t]) BY <2>2, <2>6, <2>7
  <2>9. /\ KernelTypes(k2) /\ SameBut(b, k2, {"ready", "top"})
        /\ \A u, q : q \in Prio => (ReadyAt(k2, u, q) <=> ReadyAt(b, u, q) \/ (u = t /\ q = p))
        /\ \A u, x : x \in Places => (IsAt(k2, u, x) <=> IsAt(b, u, x) \/ (u = t /\ x = "ready"))
    BY <2>5, <2>7, <2>8, AddToReadyIs
  <2> HIDE DEF k2
  <2>10. /\ k2.cur = kk.cur /\ k2.sus = kk.sus /\ k2.nstate = kk.nstate /\ k2.prio = a.prio
         /\ k2.ev = kk.ev
    <3>1. k2.cur = b.cur /\ k2.sus = b.sus /\ k2.nstate = b.nstate /\ k2.prio = b.prio /\ k2.ev = b.ev
      BY <2>9 DEF SameBut, KernelFields
    <3>2. o.cur = kk.cur /\ o.sus = kk.sus /\ o.nstate = kk.nstate /\ o.ev = kk.ev
      BY <2>2 DEF SameBut, KernelFields
    <3> QED BY <2>3, <2>4, <3>1, <3>2
  <2>11. \A u, l : InEvent(k2, u, l) <=> InEvent(kk, u, l) BY <2>10 DEF InEvent
  <2>12. OthersStay(kk, k2, t) BY <2>2, <2>6, <2>9 DEF OthersStay
  <2>13. OnlyAt(kk, t, "ready")
    <3>1. kk.prio[t] \in Prio /\ ReadyAt(kk, t, kk.prio[t])
      BY <1>6 DEF IsReady, ReadyAt, KernelOk, KernelTypes
    <3>2. IsAt(kk, t, "ready") BY <3>1, IsAtPlace
    <3> QED BY <1>4, <3>2, Elsewhere DEF OnlyAt, KernelOk
  <2>14. OnlyAt(k2, t, "ready") BY <1>4, <2>2, <2>6, <2>9, <2>13 DEF OnlyAt
  <2>15. \A u, x : x \in Places => (IsAt(k2, u, x) <=> IsAt(kk, u, x))
    BY <2>12, <2>13, <2>14 DEF OnlyAt, OthersStay
  <2>16. \A u \in Task, q \in Prio : ReadyAt(k2, u, q) => q = k2.prio[u]
    <3> TAKE u \in Task, q \in Prio
    <3> HAVE ReadyAt(k2, u, q)
    <3>1. CASE u = t
      <4>1. ~ReadyAt(b, t, q) BY <2>2, <2>6
      <4>2. q = p BY <2>9, <3>1, <4>1
      <4> QED BY <2>3, <2>7, <2>10, <3>1, <4>2
    <3>2. CASE u # t
      <4>1. ReadyAt(kk, u, q) BY <2>2, <2>6, <2>9, <3>2
      <4>2. q = kk.prio[u] BY <4>1 DEF KernelOk, Placed
      <4> QED BY <1>3, <2>10, <3>2, <4>2
    <3> QED BY <3>1, <3>2
  <2>17. Placed(k2)
    <3>1. \A u \in Task : OnePlace(k2, u) BY <2>15 DEF KernelOk, Placed, OnePlace
    <3> QED BY <1>4, <2>15, <2>16, <3>1 DEF KernelOk, Placed
  <2>18. Evented(k2) BY <1>4, <2>11, <2>15 DEF KernelOk, Evented, Alive
  <2>19. Flow(kk, k2) BY <1>4, <2>10, <2>11, <2>15 DEF Flow, NonePending, Settled, Alive
  <2> QED BY <2>1, <2>9, <2>17, <2>18, <2>19 DEF KernelOk
<1> QED BY <1>5, <1>6

\* The holder of a mutex inherits the priority of the current task, ...
LEMMA InheritIs ==
    ASSUME NEW kk, KernelOk(kk), NEW h
    PROVE  KernelOk(PriorityInherit(kk, h).k) /\ Flow(kk, PriorityInherit(kk, h).k)
<1>1. CASE h \in Task
  <2>1. kk.prio[kk.cur] \in Prio BY DEF KernelOk, KernelTypes
  <2>2. PriorityInherit(kk, h).k \in {kk, Reprioritise(kk, h, kk.prio[kk.cur])}
    BY <1>1 DEF PriorityInherit
  <2> QED BY <1>1, <2>1, <2>2, ReprioritiseIs, FlowStays
<1>2. CASE h \notin Task
  <2>1. PriorityInherit(kk, h).k = kk BY <1>2 DEF PriorityInherit
  <2> QED BY <2>1, FlowStays
<1> QED BY <1>1, <1>2

\* ... falls back to its own when it gives the mutex, ...
LEMMA DisinheritIs ==
    ASSUME NEW kk, KernelOk(kk)
    PROVE  KernelOk(PriorityDisinherit(kk).k) /\ Flow(kk, PriorityDisinherit(kk).k)
<1> DEFINE a == [kk EXCEPT !.held[kk.cur] = @ - 1]
<1>1. PriorityDisinherit(kk).k \in {a, Reprioritise(a, kk.cur, kk.base[kk.cur])}
  BY DEF PriorityDisinherit
<1>2. SameBut(kk, a, Plain) BY DEF SameBut, Plain, KernelFields, KernelOk, KernelTypes
<1> HIDE DEF a
<1>3. KernelOk(a) /\ Flow(kk, a) BY <1>2, PlainChange
<1>4. kk.cur \in Task /\ kk.base[kk.cur] \in Prio BY DEF KernelOk, KernelTypes
<1>5. KernelOk(Reprioritise(a, kk.cur, kk.base[kk.cur]))
      /\ Flow(a, Reprioritise(a, kk.cur, kk.base[kk.cur]))
  BY <1>3, <1>4, ReprioritiseIs
<1> QED BY <1>1, <1>3, <1>5, FlowOn

\* ... or when one that waited for it gives up.
LEMMA DisinheritAfterIs ==
    ASSUME NEW kk, KernelOk(kk), NEW h, NEW w \in Prio
    PROVE  KernelOk(DisinheritAfterTimeout(kk, h, w)) /\ Flow(kk, DisinheritAfterTimeout(kk, h, w))
<1> DEFINE p == IF kk.base[h] < w THEN w ELSE kk.base[h]
<1>1. CASE h \in Task
  <2>1. p \in Prio BY <1>1 DEF KernelOk, KernelTypes
  <2>2. DisinheritAfterTimeout(kk, h, w) \in {kk, Reprioritise(kk, h, p)}
    BY <1>1 DEF DisinheritAfterTimeout
  <2> HIDE DEF p
  <2> QED BY <1>1, <2>1, <2>2, ReprioritiseIs, FlowStays
<1>2. CASE h \notin Task
  <2>1. DisinheritAfterTimeout(kk, h, w) = kk BY <1>2 DEF DisinheritAfterTimeout
  <2> QED BY <2>1, FlowStays
<1> QED BY <1>1, <1>2

\* A task leaves all lists for the suspended or the deleted ones.
Left(kk, k2, t, place) ==
    /\ k2.cur = kk.cur /\ k2.sus = kk.sus
    /\ OthersStay(kk, k2, t) /\ OnlyAt(k2, t, place)
    /\ NonePending(kk) => NonePending(k2)
    /\ Settled(kk) /\ t # kk.cur => Settled(k2)
LEMMA LeavesIs ==
    ASSUME NEW kk, KernelOk(kk), NEW t \in Task, t # Idle,
           NEW place \in {"suspended", "dead", "gone"},
           NEW b, b = OutOfState(OutOfEvent(kk, t), t),
           NEW k2, SameBut(b, k2, {"suspended", "dead", "gone", "nstate", "unblock"}),
           DOMAIN k2.nstate = Task,
           k2.suspended \in SUBSET Task, k2.dead \in Lists, k2.gone \in SUBSET Task,
           \A u : u # t => /\ u \in k2.suspended <=> u \in b.suspended
                           /\ Contains(k2.dead, u) <=> Contains(b.dead, u)
                           /\ u \in k2.gone <=> u \in b.gone,
           t \in k2.suspended <=> place = "suspended",
           Contains(k2.dead, t) <=> place = "dead",
           t \in k2.gone <=> place = "gone"
    PROVE  KernelOk(k2) /\ Left(kk, k2, t, place)
<1> DEFINE a == OutOfEvent(kk, t)
           o == OutOfState(a, t)
           E == EventList \union {Pend}
<1>1. KernelOk(a) /\ Flow(kk, a) BY OutOfEventKeeps
<1>2. /\ SameBut(kk, a, {"ev"})
      /\ \A u, l : l \in E => (InEvent(a, u, l) <=> InEvent(kk, u, l) /\ u # t)
      /\ \A u, x : x \in Places => (IsAt(a, u, x) <=> IsAt(kk, u, x))
  BY OutOfEventIs DEF KernelOk
<1> HIDE DEF a
<1>3. /\ KernelTypes(o)
      /\ SameBut(a, o, {"ready", "delayed", "overflow", "suspended", "wake"})
      /\ \A u, p : p \in Prio => (ReadyAt(o, u, p) <=> ReadyAt(a, u, p) /\ u # t)
      /\ \A u, x : x \in Places =>
            (IsAt(o, u, x) <=> IsAt(a, u, x) /\ (u # t \/ x \in {"dead", "gone"}))
  BY <1>1, OutOfStateIs DEF KernelOk
<1>4. b = o BY DEF a
<1> HIDE DEF o
<1>5. /\ k2.cur = o.cur /\ k2.delayed = o.delayed /\ k2.overflow = o.overflow
      /\ k2.prio = o.prio /\ k2.base = o.base /\ k2.evprio = o.evprio /\ k2.sus = o.sus
      /\ k2.pended = o.pended /\ k2.ready = o.ready /\ k2.top = o.top /\ k2.ev = o.ev
      /\ DOMAIN k2 = KernelFields
  BY <1>4 DEF SameBut, KernelFields
<1>6. KernelTypes(k2) BY <1>3, <1>5 DEF KernelTypes
<1>7. o.cur = kk.cur /\ o.sus = kk.sus /\ o.ev = a.ev /\ o.prio = kk.prio
  BY <1>2, <1>3 DEF SameBut, KernelFields
<1>8. \A u, l : l \in E => (InEvent(k2, u, l) <=> InEvent(kk, u, l) /\ u # t)
  BY <1>2, <1>5, <1>7 DEF InEvent
<1>9. \A u, p : ReadyAt(k2, u, p) <=> ReadyAt(o, u, p) BY <1>5 DEF ReadyAt
<1>10. {"dead", "gone", "ready", "suspended", "delayed", "overflow"} = Places BY DEF Places
<1>11. OthersStay(kk, k2, t)
  <2> SUFFICES ASSUME NEW u, NEW x, u # t, x \in Places PROVE IsAt(k2, u, x) <=> IsAt(o, u, x)
    BY <1>2, <1>3 DEF OthersStay
  <2>1. IsAt(k2, u, "ready") <=> IsAt(o, u, "ready") BY <1>9, IsAtPlace
  <2>2. /\ IsAt(k2, u, "suspended") <=> IsAt(o, u, "suspended")
        /\ IsAt(k2, u, "dead") <=> IsAt(o, u, "dead")
        /\ IsAt(k2, u, "gone") <=> IsAt(o, u, "gone")
    BY <1>4, IsAtPlace
  <2>3. /\ IsAt(k2, u, "delayed") <=> IsAt(o, u, "delayed")
        /\ IsAt(k2, u, "overflow") <=> IsAt(o, u, "overflow")
    BY <1>5, IsAtPlace
  <2> QED BY <1>10, <2>1, <2>2, <2>3
<1>12. OnlyAt(k2, t, place)
  <2>1. ~IsAt(k2, t, "ready")
    <3>1. \A p \in Prio : ~ReadyAt(k2, t, p) BY <1>3, <1>9
    <3> QED BY <3>1, IsAtPlace
  <2>2. ~IsAt(k2, t, "delayed") /\ ~IsAt(k2, t, "overflow")
    <3>1. ~IsAt(o, t, "delayed") /\ ~IsAt(o, t, "overflow") BY <1>3, <1>10
    <3> QED BY <1>5, <3>1, IsAtPlace
  <2>3. IsAt(k2, t, "suspended") <=> place = "suspended" BY IsAtPlace
  <2>4. IsAt(k2, t, "dead") <=> place = "dead" BY IsAtPlace
  <2>5. IsAt(k2, t, "gone") <=> place = "gone" BY IsAtPlace
  <2>6. \A x \in Places : IsAt(k2, t, x) <=> x = place
    BY <1>10, <2>1, <2>2, <2>3, <2>4, <2>5
  <2> QED BY <1>10, <2>6 DEF OnlyAt
<1>13. Placed(k2)
  <2>1. \A u \in Task : OnePlace(k2, u) BY <1>11, <1>12, OneMoves DEF KernelOk
  <2>2. \A u \in Task, p \in Prio : ReadyAt(k2, u, p) => p = k2.prio[u]
    <3> TAKE u \in Task, p \in Prio
    <3> HAVE ReadyAt(k2, u, p)
    <3>1. ReadyAt(a, u, p) BY <1>3, <1>9
    <3>2. p = a.prio[u] BY <1>1, <3>1 DEF KernelOk, Placed
    <3>3. a.prio = kk.prio BY <1>2 DEF SameBut, KernelFields
    <3> QED BY <1>5, <1>7, <3>2, <3>3
  <2>3. IsAt(k2, Idle, "ready") BY <1>10, <1>11 DEF OthersStay, KernelOk, Placed
  <2> QED BY <2>1, <2>2, <2>3 DEF Placed
<1>14. Evented(k2)
  <2> SUFFICES ASSUME NEW u \in Task, NEW l \in E, InEvent(k2, u, l)
               PROVE  /\ Alive(k2, u)
                      /\ l # Pend => ~IsAt(k2, u, "ready")
                      /\ \A m \in E : InEvent(k2, u, m) => m = l
    BY DEF Evented
  <2>1. u # t /\ InEvent(kk, u, l) BY <1>8
  <2>2. /\ Alive(kk, u)
        /\ l # Pend => ~IsAt(kk, u, "ready")
        /\ \A m \in E : InEvent(kk, u, m) => m = l
    BY <2>1 DEF KernelOk, Evented
  <2> QED BY <1>8, <1>10, <1>11, <2>1, <2>2 DEF OthersStay, Alive
<1>15. Settled(kk) /\ t # kk.cur => Settled(k2)
  BY <1>5, <1>7, <1>8, <1>10, <1>11 DEF Settled, OthersStay, Alive
<1>16. NonePending(kk) => NonePending(k2) BY <1>8 DEF NonePending
<1> QED BY <1>5, <1>6, <1>7, <1>11, <1>12, <1>13, <1>14, <1>15, <1>16 DEF KernelOk, Left

\* The state of a task that is out of every list, and which lists that is about.
LEMMA OutIs ==
    ASSUME NEW kk, KernelOk(kk), NEW t \in Task, Alive(kk, t),
           NEW b, b = OutOfState(OutOfEvent(kk, t), t)
    PROVE  /\ DOMAIN b = KernelFields /\ b.nstate = kk.nstate /\ b.delayed \in Lists
           /\ b.suspended \in SUBSET Task /\ b.dead \in Lists /\ b.gone \in SUBSET Task
           /\ t \notin b.suspended /\ ~Contains(b.dead, t) /\ t \notin b.gone
           /\ DOMAIN b.nstate = Task /\ b.dead = kk.dead /\ b.gone = kk.gone
<1> DEFINE a == OutOfEvent(kk, t)
           o == OutOfState(a, t)
<1>1. KernelOk(a) BY OutOfEventKeeps
<1>2. SameBut(kk, a, {"ev"}) BY OutOfEventIs DEF KernelOk
<1> HIDE DEF a
<1>3. /\ KernelTypes(o)
      /\ SameBut(a, o, {"ready", "delayed", "overflow", "suspended", "wake"})
      /\ \A u, x : x \in Places =>
            (IsAt(o, u, x) <=> IsAt(a, u, x) /\ (u # t \/ x \in {"dead", "gone"}))
  BY <1>1, OutOfStateIs DEF KernelOk
<1>4. b = o BY DEF a
<1> HIDE DEF o
<1>5. b.nstate = kk.nstate /\ b.dead = kk.dead /\ b.gone = kk.gone /\ DOMAIN b = KernelFields
  BY <1>2, <1>3, <1>4 DEF SameBut, KernelFields
<1>6. t \notin b.suspended
  <2>1. ~IsAt(o, t, "suspended") BY <1>3 DEF Places
  <2> QED BY <1>4, <2>1, IsAtPlace
<1>7. ~Contains(b.dead, t) /\ t \notin b.gone BY <1>5, IsAtPlace DEF Alive
<1> QED BY <1>3, <1>4, <1>5, <1>6, <1>7 DEF KernelTypes

\* A task is suspended.
LEMMA ParkedIs ==
    ASSUME KernelOk(k), NEW t \in Task, t # Idle, Alive(k, t)
    PROVE  /\ KernelOk(Parked(t)) /\ Left(k, Parked(t), t, "suspended")
           /\ \A u \in Task : Parked(t).nstate[u] = "waiting" => k.nstate[u] = "waiting"
<1> DEFINE b == OutOfState(OutOfEvent(k, t), t)
           v == IF b.nstate[t] = "waiting" THEN "none" ELSE b.nstate[t]
           k2 == [b EXCEPT !.suspended = @ \union {t}, !.nstate[t] = v]
<1>1. Parked(t) = k2 BY DEF Parked
<1>2. /\ DOMAIN b = KernelFields /\ b.nstate = k.nstate
      /\ b.suspended \in SUBSET Task /\ b.dead \in Lists /\ b.gone \in SUBSET Task
      /\ t \notin b.suspended /\ ~Contains(b.dead, t) /\ t \notin b.gone
      /\ DOMAIN b.nstate = Task
  BY OutIs
<1>3. b = OutOfState(OutOfEvent(k, t), t) OBVIOUS
<1> HIDE DEF b
<1>4. /\ k2.suspended = b.suspended \union {t} /\ k2.nstate = [b.nstate EXCEPT ![t] = v]
      /\ k2.dead = b.dead /\ k2.gone = b.gone
      /\ SameBut(b, k2, {"suspended", "dead", "gone", "nstate", "unblock"})
  <2> HIDE DEF v
  <2> QED BY <1>2 DEF SameBut, KernelFields
<1> HIDE DEF k2
<1>5. KernelOk(k2) /\ Left(k, k2, t, "suspended")
  <2>1. DOMAIN k2.nstate = Task BY <1>2, <1>4
  <2>2. \A u : u # t => /\ u \in k2.suspended <=> u \in b.suspended
                        /\ Contains(k2.dead, u) <=> Contains(b.dead, u)
                        /\ u \in k2.gone <=> u \in b.gone
    BY <1>4
  <2>3. k2.suspended \in SUBSET Task /\ t \in k2.suspended BY <1>2, <1>4
  <2> QED BY <1>2, <1>3, <1>4, <2>1, <2>2, <2>3, LeavesIs
<1>6. \A u \in Task : k2.nstate[u] = "waiting" => k.nstate[u] = "waiting"
  BY <1>2, <1>4 DEF v
<1> QED BY <1>1, <1>5, <1>6

\* A task deletes itself, ...
LEMMA DeadIs ==
    ASSUME KernelOk(k), NEW t \in Task, t # Idle, Alive(k, t), NEW k2,
           k2 = [OutOfState(OutOfEvent(k, t), t) EXCEPT !.dead = Append(@, t)]
    PROVE  /\ KernelOk(k2) /\ Left(k, k2, t, "dead") /\ k2.nstate = k.nstate
<1> DEFINE b == OutOfState(OutOfEvent(k, t), t)
           r == Append(b.dead, t)
<1>1. /\ DOMAIN b = KernelFields /\ b.nstate = k.nstate
      /\ b.suspended \in SUBSET Task /\ b.dead \in Lists /\ b.gone \in SUBSET Task
      /\ t \notin b.suspended /\ ~Contains(b.dead, t) /\ t \notin b.gone
      /\ DOMAIN b.nstate = Task
  BY OutIs
<1>2. b = OutOfState(OutOfEvent(k, t), t) /\ k2 = [b EXCEPT !.dead = r] OBVIOUS
<1>3. r \in Lists /\ \A u : Contains(r, u) <=> Contains(b.dead, u) \/ u = t
  <2> HIDE DEF b
  <2> QED BY <1>1, ListAppended
<1> HIDE DEF b, r
<1>4. /\ k2.suspended = b.suspended /\ k2.nstate = b.nstate /\ k2.dead = r /\ k2.gone = b.gone
      /\ SameBut(b, k2, {"suspended", "dead", "gone", "nstate", "unblock"})
  <2>1. k2 = [b EXCEPT !.dead = r] BY <1>2
  <2> QED BY <1>1, <2>1 DEF SameBut, KernelFields
<1>5. \A u : u # t => /\ u \in k2.suspended <=> u \in b.suspended
                      /\ Contains(k2.dead, u) <=> Contains(b.dead, u)
                      /\ u \in k2.gone <=> u \in b.gone
  BY <1>3, <1>4
<1>6. Contains(k2.dead, t) BY <1>3, <1>4
<1> QED BY <1>1, <1>2, <1>3, <1>4, <1>5, <1>6, LeavesIs

\* ... or is deleted by another.
LEMMA GoneIs ==
    ASSUME KernelOk(k), NEW t \in Task, t # Idle, Alive(k, t), NEW k2,
           k2 = ResetUnblock([OutOfState(OutOfEvent(k, t), t) EXCEPT !.gone = @ \union {t}])
    PROVE  /\ KernelOk(k2) /\ Left(k, k2, t, "gone") /\ k2.nstate = k.nstate
<1> DEFINE b == OutOfState(OutOfEvent(k, t), t)
           c == [b EXCEPT !.gone = @ \union {t}]
           v == IF c.delayed = <<>> THEN MaxDelay ELSE c.wake[Head(c.delayed)]
<1>1. /\ DOMAIN b = KernelFields /\ b.nstate = k.nstate
      /\ b.suspended \in SUBSET Task /\ b.dead \in Lists /\ b.gone \in SUBSET Task
      /\ t \notin b.suspended /\ ~Contains(b.dead, t) /\ t \notin b.gone
      /\ DOMAIN b.nstate = Task
  BY OutIs
<1>2. b = OutOfState(OutOfEvent(k, t), t) /\ k2 = [c EXCEPT !.unblock = v] BY DEF ResetUnblock
<1> HIDE DEF b, v
<1>4. /\ k2.suspended = b.suspended /\ k2.nstate = b.nstate /\ k2.dead = b.dead
      /\ k2.gone = b.gone \union {t}
      /\ SameBut(b, k2, {"suspended", "dead", "gone", "nstate", "unblock"})
  <2>1. k2 = [c EXCEPT !.unblock = v] BY <1>2
  <2> QED BY <1>1, <2>1 DEF SameBut, KernelFields
<1> HIDE DEF c
<1>5. \A u : u # t => /\ u \in k2.suspended <=> u \in b.suspended
                      /\ Contains(k2.dead, u) <=> Contains(b.dead, u)
                      /\ u \in k2.gone <=> u \in b.gone
  BY <1>4
<1>6. k2.gone \in SUBSET Task /\ t \in k2.gone BY <1>1, <1>4
<1> QED BY <1>1, <1>2, <1>4, <1>5, <1>6, LeavesIs

\* The scheduler is suspended, or a suspension ends.
LEMMA SusIs ==
    ASSUME NEW kk, KernelOk(kk), NEW v \in Nat
    PROVE  LET k2 == [kk EXCEPT !.sus = v]
           IN  /\ KernelOk(k2) /\ k2.sus = v /\ k2.cur = kk.cur /\ k2.nstate = kk.nstate
               /\ k2.ev = kk.ev /\ k2.pended = kk.pended
               /\ \A u, x : x \in Places => (IsAt(k2, u, x) <=> IsAt(kk, u, x))
               /\ \A u, l : InEvent(k2, u, l) <=> InEvent(kk, u, l)
               /\ Settled(k2) <=> Settled(kk)
<1> DEFINE k2 == [kk EXCEPT !.sus = v]
<1>1. /\ k2.cur = kk.cur /\ k2.delayed = kk.delayed /\ k2.overflow = kk.overflow
      /\ k2.suspended = kk.suspended /\ k2.dead = kk.dead /\ k2.gone = kk.gone
      /\ k2.prio = kk.prio /\ k2.base = kk.base /\ k2.evprio = kk.evprio /\ k2.ev = kk.ev
      /\ k2.pended = kk.pended /\ k2.nstate = kk.nstate
      /\ k2.ready = kk.ready /\ k2.top = kk.top /\ DOMAIN k2 = KernelFields /\ k2.sus = v
  BY DEF KernelFields, KernelOk, KernelTypes
<1> HIDE DEF k2
<1>2. KernelTypes(k2) BY <1>1 DEF KernelOk, KernelTypes
<1>3. /\ \A u, x : x \in Places => (IsAt(k2, u, x) <=> IsAt(kk, u, x))
      /\ \A u, p : ReadyAt(k2, u, p) <=> ReadyAt(kk, u, p)
      /\ \A u, l : InEvent(k2, u, l) <=> InEvent(kk, u, l)
  BY <1>1, SamePlaces DEF ReadyAt, InEvent
<1>4. {"dead", "gone", "ready", "suspended"} \subseteq Places BY DEF Places
<1>5. Placed(k2)
  <2>1. \A u \in Task : OnePlace(k2, u) BY <1>3 DEF KernelOk, Placed, OnePlace
  <2> QED BY <1>1, <1>3, <1>4, <2>1 DEF KernelOk, Placed
<1>6. Evented(k2) BY <1>3, <1>4 DEF KernelOk, Evented, Alive
<1>7. Settled(k2) <=> Settled(kk) BY <1>1, <1>3, <1>4 DEF Settled, Alive
<1> QED BY <1>1, <1>2, <1>3, <1>5, <1>6, <1>7 DEF KernelOk, k2

LEMMA SuspendAllIs ==
    ASSUME NEW kk, KernelOk(kk)
    PROVE  LET k2 == SuspendAll(kk)
           IN  /\ KernelOk(k2) /\ k2.sus = kk.sus + 1 /\ k2.cur = kk.cur /\ k2.nstate = kk.nstate
               /\ k2.ev = kk.ev /\ k2.pended = kk.pended
               /\ \A u, x : x \in Places => (IsAt(k2, u, x) <=> IsAt(kk, u, x))
               /\ \A u, l : InEvent(k2, u, l) <=> InEvent(kk, u, l)
               /\ Settled(k2) <=> Settled(kk)
<1>1. kk.sus + 1 \in Nat BY DEF KernelOk, KernelTypes
<1>2. SuspendAll(kk) = [kk EXCEPT !.sus = kk.sus + 1] BY DEF SuspendAll
<1> QED BY <1>1, <1>2, SusIs

\* The idle task frees what is left of a task that deleted itself.
LEMMA BuriedIs ==
    ASSUME NEW kk, KernelOk(kk), kk.dead # <<>>,
           NEW k2, k2 = [kk EXCEPT !.dead = Tail(@), !.gone = @ \union {Head(kk.dead)}]
    PROVE  /\ KernelOk(k2) /\ k2.cur = kk.cur /\ k2.sus = kk.sus /\ k2.nstate = kk.nstate
           /\ \A u : Alive(k2, u) <=> Alive(kk, u)
           /\ Settled(kk) => Settled(k2)
           /\ NonePending(kk) => NonePending(k2)
<1> DEFINE h == Head(kk.dead)
           r == Tail(kk.dead)
<1>1. /\ k2.cur = kk.cur /\ k2.delayed = kk.delayed /\ k2.overflow = kk.overflow
      /\ k2.suspended = kk.suspended /\ k2.dead = r /\ k2.gone = kk.gone \union {h}
      /\ k2.prio = kk.prio /\ k2.base = kk.base /\ k2.evprio = kk.evprio /\ k2.ev = kk.ev
      /\ k2.pended = kk.pended /\ k2.nstate = kk.nstate /\ k2.sus = kk.sus
      /\ k2.ready = kk.ready /\ k2.top = kk.top /\ DOMAIN k2 = KernelFields
  <2> HIDE DEF h, r
  <2>1. k2 = [kk EXCEPT !.dead = r, !.gone = @ \union {h}] BY DEF h, r
  <2> QED BY <2>1 DEF KernelFields, KernelOk, KernelTypes
<1>2. /\ h \in Task /\ Contains(kk.dead, h) /\ r \in Lists
      /\ \A u : Contains(r, u) <=> Contains(kk.dead, u) /\ u # h
  BY ListHead DEF KernelOk, KernelTypes
<1> HIDE DEF h, r
<1>3. KernelTypes(k2)
  <2>1. k2.gone \in SUBSET Task BY <1>1, <1>2 DEF KernelOk, KernelTypes
  <2>2. KernelTypes(kk) BY DEF KernelOk
  <2> QED BY <1>1, <1>2, <2>1, <2>2 DEF KernelTypes
<1>4. /\ \A u, p : ReadyAt(k2, u, p) <=> ReadyAt(kk, u, p)
      /\ \A u, l : InEvent(k2, u, l) <=> InEvent(kk, u, l)
  BY <1>1 DEF ReadyAt, InEvent
<1>5. {"dead", "gone", "ready", "suspended", "delayed", "overflow"} = Places BY DEF Places
<1>6. /\ \A u : IsAt(k2, u, "dead") <=> IsAt(kk, u, "dead") /\ u # h
      /\ \A u : IsAt(k2, u, "gone") <=> IsAt(kk, u, "gone") \/ u = h
      /\ \A u, x : x \in Places \ {"dead", "gone"} => (IsAt(k2, u, x) <=> IsAt(kk, u, x))
  <2>1. \A u : IsAt(k2, u, "dead") <=> IsAt(kk, u, "dead") /\ u # h BY <1>1, <1>2, IsAtPlace
  <2>2. \A u : IsAt(k2, u, "gone") <=> IsAt(kk, u, "gone") \/ u = h BY <1>1, IsAtPlace
  <2>3. \A u : IsAt(k2, u, "ready") <=> IsAt(kk, u, "ready") BY <1>4, IsAtPlace
  <2>4. \A u : /\ IsAt(k2, u, "suspended") <=> IsAt(kk, u, "suspended")
               /\ IsAt(k2, u, "delayed") <=> IsAt(kk, u, "delayed")
               /\ IsAt(k2, u, "overflow") <=> IsAt(kk, u, "overflow")
    BY <1>1, IsAtPlace
  <2> QED BY <1>5, <2>1, <2>2, <2>3, <2>4
<1>7. OnlyAt(kk, h, "dead")
  <2>1. IsAt(kk, h, "dead") BY <1>2, IsAtPlace
  <2> QED BY <1>2, <1>5, <2>1, Elsewhere DEF OnlyAt, KernelOk
<1>8. OnlyAt(k2, h, "gone") BY <1>5, <1>6, <1>7 DEF OnlyAt
<1>9. OthersStay(kk, k2, h) BY <1>5, <1>6 DEF OthersStay
<1>10. \A u : Alive(k2, u) <=> Alive(kk, u)
  <2>1. IsAt(kk, h, "dead") BY <1>5, <1>7 DEF OnlyAt
  <2> QED BY <1>6, <2>1 DEF Alive
<1>11. Placed(k2)
  <2>1. \A u \in Task : OnePlace(k2, u) BY <1>8, <1>9, OneMoves DEF KernelOk
  <2>2. IsAt(k2, Idle, "ready") BY <1>5, <1>6 DEF KernelOk, Placed
  <2> QED BY <1>1, <1>4, <2>1, <2>2 DEF KernelOk, Placed
<1>12. Evented(k2) BY <1>4, <1>5, <1>6, <1>10 DEF KernelOk, Evented
<1>13. Settled(kk) => Settled(k2) BY <1>1, <1>4, <1>5, <1>6, <1>10 DEF Settled
<1>14. NonePending(kk) => NonePending(k2) BY <1>4 DEF NonePending
<1> QED BY <1>1, <1>3, <1>10, <1>11, <1>12, <1>13, <1>14 DEF KernelOk

\* A task is made.
LEMMA CreatedIs ==
    ASSUME KernelOk(k), NEW t \in Task, t \in k.gone,
           NEW k2, k2 = AddToReady(NewTask(t), t)
    PROVE  /\ KernelOk(k2) /\ Left(k, k2, t, "ready")
           /\ k2.nstate = [k.nstate EXCEPT ![t] = "none"]
<1> DEFINE n == NewTask(t)
           p == BasePrio[t]
           E == EventList \union {Pend}
<1>1. /\ n.cur = k.cur /\ n.delayed = k.delayed /\ n.overflow = k.overflow
      /\ n.suspended = k.suspended /\ n.dead = k.dead /\ n.gone = k.gone \ {t}
      /\ n.prio = [k.prio EXCEPT ![t] = p] /\ n.base = [k.base EXCEPT ![t] = p]
      /\ n.evprio = [k.evprio EXCEPT ![t] = p] /\ n.ev = k.ev
      /\ n.pended = k.pended /\ n.nstate = [k.nstate EXCEPT ![t] = "none"] /\ n.sus = k.sus
      /\ n.ready = k.ready /\ n.top = k.top /\ DOMAIN n = KernelFields
  <2> HIDE DEF p
  <2>1. n = [k EXCEPT !.gone = @ \ {t}, !.prio[t] = p, !.base[t] = p,
              !.evprio[t] = p, !.evval[t] = NotInUse, !.held[t] = 0,
              !.nstate[t] = "none", !.note[t] = Zero, !.aborted = @ \ {t}]
    BY DEF NewTask, p
  <2> HIDE DEF n
  <2> QED BY <2>1 DEF KernelFields, KernelOk, KernelTypes
<1> HIDE DEF n
<1>2. p \in Prio BY Priorities
<1> HIDE DEF p
<1>3. n.prio[t] = p /\ \A u \in Task \ {t} : n.prio[u] = k.prio[u]
  BY <1>1 DEF KernelOk, KernelTypes
<1>4. KernelTypes(n) BY <1>1, <1>2 DEF KernelOk, KernelTypes
<1>5. {"dead", "gone", "ready", "suspended", "delayed", "overflow"} = Places BY DEF Places
<1>6. /\ \A u, q : ReadyAt(n, u, q) <=> ReadyAt(k, u, q)
      /\ \A u, l : InEvent(n, u, l) <=> InEvent(k, u, l)
  BY <1>1 DEF ReadyAt, InEvent
<1>7. /\ \A u : IsAt(n, u, "gone") <=> IsAt(k, u, "gone") /\ u # t
      /\ \A u, x : x \in Places \ {"gone"} => (IsAt(n, u, x) <=> IsAt(k, u, x))
  <2>1. \A u : IsAt(n, u, "gone") <=> IsAt(k, u, "gone") /\ u # t BY <1>1, IsAtPlace
  <2>2. \A u : IsAt(n, u, "ready") <=> IsAt(k, u, "ready") BY <1>6, IsAtPlace
  <2>3. \A u : /\ IsAt(n, u, "suspended") <=> IsAt(k, u, "suspended")
               /\ IsAt(n, u, "dead") <=> IsAt(k, u, "dead")
               /\ IsAt(n, u, "delayed") <=> IsAt(k, u, "delayed")
               /\ IsAt(n, u, "overflow") <=> IsAt(k, u, "overflow")
    BY <1>1, IsAtPlace
  <2> QED BY <1>5, <2>1, <2>2, <2>3
<1>8. OnlyAt(k, t, "gone")
  <2>1. IsAt(k, t, "gone") BY IsAtPlace
  <2> QED BY <1>5, <2>1, Elsewhere DEF OnlyAt, KernelOk
<1>9. \A q \in Prio : ~ReadyAt(n, t, q)
  <2>1. ~IsAt(k, t, "ready") BY <1>5, <1>8 DEF OnlyAt
  <2> QED BY <1>6, <2>1, IsAtPlace
<1>10. /\ KernelTypes(k2) /\ SameBut(n, k2, {"ready", "top"})
       /\ \A u, q : q \in Prio => (ReadyAt(k2, u, q) <=> ReadyAt(n, u, q) \/ (u = t /\ q = p))
       /\ \A u, x : x \in Places => (IsAt(k2, u, x) <=> IsAt(n, u, x) \/ (u = t /\ x = "ready"))
  <2>1. ~ReadyAt(n, t, n.prio[t]) BY <1>2, <1>3, <1>9
  <2>2. k2 = AddToReady(n, t) BY DEF n
  <2> QED BY <1>3, <1>4, <2>1, <2>2, AddToReadyIs
<1>11. /\ k2.cur = k.cur /\ k2.sus = k.sus /\ k2.ev = k.ev /\ k2.prio = n.prio
       /\ k2.nstate = [k.nstate EXCEPT ![t] = "none"]
  BY <1>1, <1>10 DEF SameBut, KernelFields
<1>12. \A u, l : InEvent(k2, u, l) <=> InEvent(k, u, l) BY <1>11 DEF InEvent
<1>13. OthersStay(k, k2, t) BY <1>5, <1>7, <1>10 DEF OthersStay
<1>14. OnlyAt(k2, t, "ready") BY <1>5, <1>7, <1>8, <1>10 DEF OnlyAt
<1>15. Placed(k2)
  <2>1. \A u \in Task : OnePlace(k2, u) BY <1>13, <1>14, OneMoves DEF KernelOk
  <2>2. \A u \in Task, q \in Prio : ReadyAt(k2, u, q) => q = k2.prio[u]
    <3> TAKE u \in Task, q \in Prio
    <3> HAVE ReadyAt(k2, u, q)
    <3>1. CASE u = t BY <1>3, <1>9, <1>10, <1>11, <3>1
    <3>2. CASE u # t
      <4>1. ReadyAt(k, u, q) BY <1>6, <1>10, <3>2
      <4>2. q = k.prio[u] BY <4>1 DEF KernelOk, Placed
      <4> QED BY <1>3, <1>11, <3>2, <4>2
    <3> QED BY <3>1, <3>2
  <2>3. IsAt(k2, Idle, "ready") BY <1>5, <1>13, <1>14 DEF KernelOk, Placed, OthersStay, OnlyAt
  <2> QED BY <2>1, <2>2, <2>3 DEF Placed
<1>16. \A l \in E : ~InEvent(k, t, l)
  <2>1. ~Alive(k, t) BY <1>5, <1>8 DEF OnlyAt, Alive
  <2> QED BY <2>1 DEF KernelOk, Evented
<1>17. Evented(k2) BY <1>5, <1>12, <1>13, <1>16 DEF KernelOk, Evented, Alive, OthersStay
<1>18. Settled(k) => Settled(k2)
  <2> SUFFICES ASSUME Settled(k) PROVE Settled(k2) OBVIOUS
  <2>1. t # k.cur BY <1>5, <1>8 DEF Settled, Alive, OnlyAt
  <2> QED BY <1>5, <1>11, <1>12, <1>13, <2>1 DEF Settled, OthersStay, Alive
<1>19. NonePending(k) => NonePending(k2) BY <1>12 DEF NonePending
<1> QED BY <1>10, <1>11, <1>13, <1>14, <1>15, <1>17, <1>18, <1>19 DEF KernelOk, Left

\* A priority is set.
LEMMA RebasedIs ==
    ASSUME KernelOk(k), NEW t \in Task, NEW p \in Prio, NEW inherits
    PROVE  KernelOk(Rebased(t, p, inherits)) /\ Flow(k, Rebased(t, p, inherits))
<1> DEFINE q == IF inherits THEN k.prio[t] ELSE p
           a == Reprioritise(k, t, q)
           e == IF k.evval[t] = NotInUse THEN p ELSE a.evprio[t]
           k2 == [a EXCEPT !.base[t] = p, !.evprio[t] = e]
<1>1. Rebased(t, p, inherits) = k2 BY DEF Rebased
<1>2. KernelOk(a) /\ Flow(k, a)
  <2>1. q \in Prio BY DEF KernelOk, KernelTypes
  <2> HIDE DEF q
  <2> QED BY <2>1, ReprioritiseIs
<1> HIDE DEF a
<1>3. e \in Prio BY <1>2 DEF KernelOk, KernelTypes
<1> HIDE DEF e
<1>4. /\ SameBut(a, k2, Minor) /\ k2.base = [a.base EXCEPT ![t] = p]
      /\ k2.evprio = [a.evprio EXCEPT ![t] = e]
      /\ k2.pended = a.pended /\ k2.nstate = a.nstate
  BY <1>2 DEF SameBut, Minor, KernelFields, KernelOk, KernelTypes
<1> HIDE DEF k2
<1>5. /\ k2.base \in [Task -> Prio] /\ k2.evprio \in [Task -> Prio] /\ k2.pended \in Nat
      /\ DOMAIN k2.nstate = Task
  BY <1>2, <1>3, <1>4 DEF KernelOk, KernelTypes
<1>6. KernelOk(k2) /\ Flow(a, k2) BY <1>2, <1>4, <1>5, MinorKeeps
<1> QED BY <1>1, <1>2, <1>6, FlowOn

\* An event item is sorted by the priority of its task again.
LEMMA ResetEventIs ==
    ASSUME NEW kk, KernelOk(kk)
    PROVE  KernelOk(ResetEventValue(kk)) /\ Flow(kk, ResetEventValue(kk))
<1> DEFINE k2 == ResetEventValue(kk)
<1>1. /\ SameBut(kk, k2, Minor) /\ k2.base = kk.base
      /\ k2.evprio = [kk.evprio EXCEPT ![kk.cur] = kk.prio[kk.cur]]
      /\ k2.pended = kk.pended /\ k2.nstate = kk.nstate
  BY DEF SameBut, Minor, KernelFields, KernelOk, KernelTypes, ResetEventValue
<1> HIDE DEF k2
<1>2. /\ k2.base \in [Task -> Prio] /\ k2.evprio \in [Task -> Prio] /\ k2.pended \in Nat
      /\ DOMAIN k2.nstate = Task
  BY <1>1 DEF KernelOk, KernelTypes
<1>3. KernelOk(k2) /\ Flow(kk, k2) BY <1>1, <1>2, MinorKeeps
<1> QED BY <1>3 DEF k2

\* What each step of a loop keeps.
Carries(op, kk, x, list, n) ==
    \A i \in 1 .. n : \A a : KernelOk(a) /\ Flow(kk, a) =>
        /\ KernelOk(Stride(op, kk, x, a, list[i]))
        /\ Flow(kk, Stride(op, kk, x, a, list[i]))
LEMMA CourseOk ==
    ASSUME NEW n \in Nat, NEW op, NEW kk, NEW x, NEW list, KernelOk(kk),
           Carries(op, kk, x, list, n), NEW f, Course(f, op, kk, x, list, n)
    PROVE  \A i \in 0 .. n : KernelOk(f[i]) /\ Flow(kk, f[i])
<1> DEFINE Step(a, i) == Stride(op, kk, x, a, list[i])
           Good(a) == KernelOk(a) /\ Flow(kk, a)
           T == {i \in Nat : i <= n => Good(f[i])}
<1>1. f = [i \in 0 .. n |-> IF i = 0 THEN kk ELSE Step(f[i - 1], i)] BY DEF Course
<1>2. \A i \in 1 .. n : \A a : Good(a) => Good(Step(a, i)) BY DEF Carries
<1>3. Good(kk) BY FlowStays
<1> HIDE DEF Step, Good
<1>4. 0 \in T BY <1>1, <1>3
<1>5. ASSUME NEW i \in Nat, i \in T PROVE i + 1 \in T
  <2> SUFFICES ASSUME i + 1 <= n PROVE Good(f[i + 1]) OBVIOUS
  <2>1. f[i + 1] = Step(f[i], i + 1) BY <1>1
  <2>2. Good(f[i]) /\ i + 1 \in 1 .. n BY <1>5
  <2> QED BY <1>2, <2>1, <2>2
<1>6. Nat \subseteq T
  <2> HIDE DEF T
  <2> QED BY <1>4, <1>5, Induction
<1> QED BY <1>6 DEF Good

\* Every task of a list is woken.
LEMMA FlowAlive ==
    ASSUME NEW kk, NEW a, Flow(kk, a), NEW t PROVE Alive(a, t) <=> Alive(kk, t)
BY DEF Flow, Alive
AllAlive(kk, list) == \A i \in 1 .. Len(list) : list[i] \in Task /\ Alive(kk, list[i])

LEMMA EachWoken ==
    ASSUME NEW kk, KernelOk(kk), NEW list, Len(list) \in Nat, AllAlive(kk, list)
    PROVE  KernelOk(ForEach(Wakened, kk, list)) /\ Flow(kk, ForEach(Wakened, kk, list))
<1> DEFINE n == Len(list)
           Is(f) == f = [i \in 0 .. n |-> IF i = 0 THEN kk ELSE Wakened(f[i - 1], list[i])]
           g == CHOOSE f : Is(f)
<1>1. ForEach(Wakened, kk, list) = g[n] BY Zenon DEF ForEach
<1>2. \A f : Course(f, "wake", kk, 0, list, n) <=> Is(f) BY DEF Course, Stride
<1>3. \E f : Is(f) BY <1>2, CourseExists
<1> HIDE DEF Is
<1>4. Is(g) BY <1>3, Zenon
<1> HIDE DEF g
<1>5. Course(g, "wake", kk, 0, list, n) BY <1>2, <1>4
<1>6. ASSUME NEW i \in 1 .. n, NEW a, KernelOk(a), Flow(kk, a)
      PROVE  KernelOk(Wakened(a, list[i])) /\ Flow(kk, Wakened(a, list[i]))
  <2>1. list[i] \in Task /\ Alive(a, list[i]) BY <1>6, FlowAlive DEF AllAlive
  <2> QED BY <1>6, <2>1, WakenedIs, FlowOn
<1>7. Carries("wake", kk, 0, list, n) BY <1>6 DEF Carries, Stride
<1> QED BY <1>1, <1>5, <1>7, CourseOk

\* The tasks whose time has come are in the delayed list.
LEMMA DueAlive ==
    ASSUME NEW kk, KernelOk(kk)
    PROVE  Len(Due(kk)) \in Nat /\ AllAlive(kk, Due(kk))
<1> DEFINE s == kk.delayed
           W == {i \in 1 .. Len(s) : kk.wake[s[i]] > kk.tick}
           late == IF W # {} THEN Min(W) ELSE 0
<1>1. Due(kk) = IF kk.tick < kk.unblock THEN <<>>
                ELSE IF late = 0 THEN s ELSE SubSeq(s, 1, late - 1)
  BY DEF Due, SelectInSeq
<1>2. s \in Lists /\ s \in Seq(Task) /\ Len(s) \in Nat BY DEF KernelOk, KernelTypes, Lists
<1>3. late \in 0 .. Len(s)
  <2>1. CASE W = {} BY <1>2, <2>1
  <2>2. CASE W # {}
    <3>1. W \in SUBSET Nat /\ W \subseteq 1 .. Len(s) BY <1>2
    <3> HIDE DEF W
    <3>2. \E i \in W : \A j \in W : i <= j BY <2>2, <3>1, LeastOf
    <3>3. Min(W) \in W BY <3>2 DEF Min
    <3>4. late = Min(W) BY <2>2
    <3> HIDE DEF late
    <3>5. late \in 1 .. Len(s) BY <3>1, <3>3, <3>4
    <3> QED BY <1>2, <3>5
  <2> QED BY <2>1, <2>2
<1> HIDE DEF late
<1>5. Len(Due(kk)) \in 0 .. Len(s) /\ \A i \in 1 .. Len(Due(kk)) : Due(kk)[i] = s[i]
  <2>1. CASE Due(kk) = s BY <1>2, <2>1
  <2>2. CASE Due(kk) = <<>> BY <1>2, <2>2
  <2>3. CASE late # 0 /\ Due(kk) = SubSeq(s, 1, late - 1)
    <3>1. late - 1 \in 0 .. Len(s) BY <1>2, <1>3, <2>3
    <3>2. Len(SubSeq(s, 1, late - 1)) = late - 1
          /\ \A i \in 1 .. late - 1 : SubSeq(s, 1, late - 1)[i] = s[i]
      BY <1>2, <3>1, ListFront
    <3> QED BY <2>3, <3>1, <3>2
  <2> QED BY <1>1, <2>1, <2>2, <2>3
<1>6. ASSUME NEW i \in 1 .. Len(Due(kk)) PROVE Due(kk)[i] \in Task /\ Alive(kk, Due(kk)[i])
  <2>1. i \in 1 .. Len(s) /\ Due(kk)[i] = s[i] BY <1>2, <1>5
  <2>2. s[i] \in Task /\ Contains(s, s[i]) BY <1>2, <2>1 DEF Contains
  <2>3. IsAt(kk, s[i], "delayed") BY <2>2, IsAtPlace
  <2>4. Alive(kk, s[i]) BY <2>2, <2>3, Elsewhere DEF KernelOk, Alive, Places
  <2> QED BY <2>1, <2>2, <2>4
<1> QED BY <1>5, <1>6 DEF AllAlive

LEMMA WakeDueIs ==
    ASSUME NEW kk, KernelOk(kk)
    PROVE  KernelOk(WakeDue(kk).k) /\ Flow(kk, WakeDue(kk).k)
<1> DEFINE e == ForEach(Wakened, kk, Due(kk))
<1>1. WakeDue(kk).k \in {kk, ResetUnblock(e)} BY DEF WakeDue, Ticked
<1>2. KernelOk(e) /\ Flow(kk, e) BY DueAlive, EachWoken
<1> HIDE DEF e
<1>3. KernelOk(ResetUnblock(e)) /\ Flow(e, ResetUnblock(e)) BY <1>2, ResetIs, PlainChange
<1> QED BY <1>1, <1>2, <1>3, FlowOn, FlowStays

\* The delayed lists are exchanged.
LEMMA SwapIs ==
    ASSUME NEW kk, KernelOk(kk)
    PROVE  KernelOk(SwapDelayedLists(kk)) /\ Flow(kk, SwapDelayedLists(kk))
<1> DEFINE k2 == [kk EXCEPT !.delayed = kk.overflow, !.overflow = kk.delayed,
                            !.ovf = (@ + 1) % OvfMod]
<1>1. SwapDelayedLists(kk) = ResetUnblock(k2) BY DEF SwapDelayedLists
<1>2. /\ k2.cur = kk.cur /\ k2.delayed = kk.overflow /\ k2.overflow = kk.delayed
      /\ k2.suspended = kk.suspended /\ k2.dead = kk.dead /\ k2.gone = kk.gone
      /\ k2.prio = kk.prio /\ k2.base = kk.base /\ k2.evprio = kk.evprio /\ k2.ev = kk.ev
      /\ k2.pended = kk.pended /\ k2.nstate = kk.nstate /\ k2.sus = kk.sus
      /\ k2.ready = kk.ready /\ k2.top = kk.top /\ DOMAIN k2 = KernelFields
  BY DEF KernelFields, KernelOk, KernelTypes
<1> HIDE DEF k2
<1>3. KernelTypes(k2) BY <1>2 DEF KernelOk, KernelTypes
<1>4. /\ \A u, p : ReadyAt(k2, u, p) <=> ReadyAt(kk, u, p)
      /\ \A u, l : InEvent(k2, u, l) <=> InEvent(kk, u, l)
  BY <1>2 DEF ReadyAt, InEvent
<1>5. {"dead", "gone", "ready", "suspended", "delayed", "overflow"} = Places BY DEF Places
<1>6. /\ \A u : IsAt(k2, u, "delayed") <=> IsAt(kk, u, "overflow")
      /\ \A u : IsAt(k2, u, "overflow") <=> IsAt(kk, u, "delayed")
      /\ \A u, x : x \in Places \ {"delayed", "overflow"} => (IsAt(k2, u, x) <=> IsAt(kk, u, x))
  <2>1. \A u : IsAt(k2, u, "ready") <=> IsAt(kk, u, "ready") BY <1>4, IsAtPlace
  <2>2. \A u : /\ IsAt(k2, u, "suspended") <=> IsAt(kk, u, "suspended")
               /\ IsAt(k2, u, "dead") <=> IsAt(kk, u, "dead")
               /\ IsAt(k2, u, "gone") <=> IsAt(kk, u, "gone")
    BY <1>2, IsAtPlace
  <2>3. \A u : IsAt(k2, u, "delayed") <=> IsAt(kk, u, "overflow") BY <1>2, IsAtPlace
  <2>4. \A u : IsAt(k2, u, "overflow") <=> IsAt(kk, u, "delayed") BY <1>2, IsAtPlace
  <2> QED BY <1>5, <2>1, <2>2, <2>3, <2>4
<1>7. ASSUME NEW u \in Task PROVE OnePlace(k2, u)
  <2>1. PICK p \in Places : \A x \in Places : IsAt(kk, u, x) <=> x = p
    BY DEF KernelOk, Placed, OnePlace
  <2> DEFINE q == IF p = "delayed" THEN "overflow" ELSE IF p = "overflow" THEN "delayed" ELSE p
  <2>2. q \in Places /\ \A x \in Places : IsAt(k2, u, x) <=> x = q BY <1>5, <1>6, <2>1
  <2> HIDE DEF q
  <2> QED BY <2>2 DEF OnePlace
<1>8. Placed(k2) BY <1>2, <1>4, <1>5, <1>6, <1>7 DEF KernelOk, Placed
<1>9. \A u, x : x \in {"dead", "gone", "ready", "suspended"} => (IsAt(k2, u, x) <=> IsAt(kk, u, x))
  BY <1>5, <1>6
<1>10. Evented(k2) BY <1>4, <1>9 DEF KernelOk, Evented, Alive
<1>11. Settled(kk) => Settled(k2) BY <1>2, <1>4, <1>9 DEF Settled, Alive
<1>12. KernelOk(k2) /\ Flow(kk, k2)
  BY <1>2, <1>3, <1>4, <1>8, <1>9, <1>10, <1>11 DEF KernelOk, Flow, NonePending
<1>13. KernelOk(ResetUnblock(k2)) /\ Flow(k2, ResetUnblock(k2)) BY <1>12, ResetIs, PlainChange
<1> QED BY <1>1, <1>12, <1>13, FlowOn

LEMMA TickIs ==
    ASSUME NEW kk, KernelOk(kk)
    PROVE  KernelOk(IncrementTick(kk).k) /\ Flow(kk, IncrementTick(kk).k)
<1>1. CASE kk.sus > 0
  <2> DEFINE k2 == [kk EXCEPT !.pended = @ + 1]
  <2>1. IncrementTick(kk).k = k2 BY <1>1 DEF IncrementTick
  <2>2. /\ SameBut(kk, k2, Minor) /\ k2.base = kk.base /\ k2.evprio = kk.evprio
        /\ k2.pended = kk.pended + 1 /\ k2.nstate = kk.nstate
    BY DEF SameBut, Minor, KernelFields, KernelOk, KernelTypes
  <2> HIDE DEF k2
  <2>3. /\ k2.base \in [Task -> Prio] /\ k2.evprio \in [Task -> Prio] /\ k2.pended \in Nat
        /\ DOMAIN k2.nstate = Task
    BY <2>2 DEF KernelOk, KernelTypes
  <2> QED BY <2>1, <2>2, <2>3, MinorKeeps
<1>2. CASE ~(kk.sus > 0)
  <2> DEFINE a == [kk EXCEPT !.tick = (@ + 1) % TickMod]
             b == IF a.tick = 0 THEN SwapDelayedLists(a) ELSE a
  <2>1. IncrementTick(kk) = WakeDue(b) BY <1>2 DEF IncrementTick
  <2>2. SameBut(kk, a, Plain) BY DEF SameBut, Plain, KernelFields, KernelOk, KernelTypes
  <2> HIDE DEF a
  <2>3. KernelOk(a) /\ Flow(kk, a) BY <2>2, PlainChange
  <2>4. KernelOk(b) /\ Flow(kk, b) BY <2>3, SwapIs, FlowOn
  <2> HIDE DEF b
  <2> QED BY <2>1, <2>4, WakeDueIs, FlowOn
<1> QED BY <1>1, <1>2

\* The waiters of an event list live.
LEMMA WaitersAlive ==
    ASSUME NEW kk, KernelOk(kk), NEW l \in EventList \union {Pend}
    PROVE  Len(kk.ev[l]) \in Nat /\ AllAlive(kk, kk.ev[l])
<1>1. kk.ev[l] \in Seq(Task) BY DEF KernelOk, KernelTypes, Lists
<1>2. ASSUME NEW i \in 1 .. Len(kk.ev[l])
      PROVE  kk.ev[l][i] \in Task /\ Alive(kk, kk.ev[l][i])
  <2>1. kk.ev[l][i] \in Task BY <1>1
  <2>2. InEvent(kk, kk.ev[l][i], l) BY DEF InEvent, Contains
  <2> QED BY <2>1, <2>2 DEF KernelOk, Evented
<1> QED BY <1>1, <1>2 DEF AllAlive

\* The pended tasks are readied: none is left.
LEMMA ReadyPendedIs ==
    ASSUME NEW kk, KernelOk(kk)
    PROVE  /\ KernelOk(ReadyPended(kk)) /\ Flow(kk, ReadyPended(kk))
           /\ NonePending(ReadyPended(kk))
<1> DEFINE list == kk.ev[Pend]
           n == Len(list)
           Move(a, t) == YieldTo(Wakened(a, t), t)
           Is(f) == f = [i \in 0 .. n |-> IF i = 0 THEN kk ELSE Move(f[i - 1], list[i])]
           g == CHOOSE f : Is(f)
<1>1. ReadyPended(kk) = IF list = <<>> THEN kk ELSE ResetUnblock(g[n])
  BY Zenon DEF ReadyPended, ForEach
<1>2. \A f : Course(f, "move", kk, 0, list, n) <=> Is(f) BY DEF Course, Stride
<1>3. n \in Nat /\ AllAlive(kk, list) BY WaitersAlive
<1>4. \E f : Is(f) BY <1>2, <1>3, CourseExists
<1>5. Is(g)
  <2> HIDE DEF Is
  <2> QED BY <1>4, Zenon
<1> HIDE DEF g
<1>6. Course(g, "move", kk, 0, list, n) BY <1>2, <1>5
<1>7. ASSUME NEW i \in 1 .. n, NEW a, KernelOk(a), Flow(kk, a)
      PROVE  /\ KernelOk(Move(a, list[i])) /\ Flow(kk, Move(a, list[i]))
             /\ \A u : InEvent(Move(a, list[i]), u, Pend) => InEvent(a, u, Pend) /\ u # list[i]
  <2> DEFINE t == list[i]
             w == Wakened(a, t)
  <2>1. t \in Task /\ Alive(a, t) BY <1>3, <1>7, FlowAlive DEF AllAlive
  <2> HIDE DEF t
  <2>2. /\ KernelOk(w) /\ Flow(a, w)
        /\ \A u : InEvent(w, u, Pend) <=> InEvent(a, u, Pend) /\ u # t
    BY <1>7, <2>1, WakenedIs
  <2> HIDE DEF w
  <2>3. Flow(kk, w) BY <1>7, <2>2, FlowOn
  <2>4. KernelOk(YieldTo(w, t)) /\ Flow(kk, YieldTo(w, t)) /\ SameBut(w, YieldTo(w, t), Plain)
    BY <2>2, <2>3, YieldToIs
  <2>5. \A u : InEvent(YieldTo(w, t), u, Pend) <=> InEvent(w, u, Pend)
    BY <2>2, <2>4, PlainChange
  <2> QED BY <2>2, <2>4, <2>5 DEF w, t
<1>8. Carries("move", kk, 0, list, n) BY <1>7 DEF Carries, Stride
<1>9. \A i \in 0 .. n : KernelOk(g[i]) /\ Flow(kk, g[i]) BY <1>3, <1>6, <1>8, CourseOk
<1> DEFINE Gone(i) == \A u : InEvent(g[i], u, Pend) =>
                          InEvent(kk, u, Pend) /\ \A j \in 1 .. i : u # list[j]
           T == {i \in Nat : i <= n => Gone(i)}
<1>10. 0 \in T BY <1>3, <1>5
<1>11. ASSUME NEW i \in Nat, i \in T PROVE i + 1 \in T
  <2> SUFFICES ASSUME i + 1 <= n PROVE Gone(i + 1) OBVIOUS
  <2>1. g[i + 1] = Move(g[i], list[i + 1]) BY <1>3, <1>5
  <2>2. Gone(i) /\ i + 1 \in 1 .. n /\ i \in 0 .. n BY <1>3, <1>11
  <2> HIDE DEF Move
  <2>3. \A u : InEvent(g[i + 1], u, Pend) => InEvent(g[i], u, Pend) /\ u # list[i + 1]
    BY <1>7, <1>9, <2>1, <2>2
  <2>4. \A j \in 1 .. i + 1 : j \in 1 .. i \/ j = i + 1 BY <1>11
  <2> QED BY <2>2, <2>3, <2>4
<1>12. Nat \subseteq T
  <2> HIDE DEF T
  <2> QED BY <1>10, <1>11, Induction
<1>13. NonePending(g[n])
  <2>1. Gone(n)
    <3> HIDE DEF Gone, n
    <3>1. n \in T /\ n <= n BY <1>3, <1>12
    <3> QED BY <3>1
  <2>2. \A u : InEvent(kk, u, Pend) => \E j \in 1 .. n : u = list[j] BY DEF InEvent, Contains
  <2> QED BY <2>1, <2>2 DEF NonePending
<1>14. KernelOk(g[n]) /\ Flow(kk, g[n]) BY <1>3, <1>9
<1>15. CASE list = <<>>
  <2>1. NonePending(kk) BY <1>15 DEF NonePending, InEvent, Contains
  <2> QED BY <1>1, <1>15, <2>1, FlowStays
<1>16. CASE list # <<>>
  <2> DEFINE r == ResetUnblock(g[n])
  <2>1. KernelOk(r) /\ Flow(g[n], r) /\ \A u, l : InEvent(r, u, l) <=> InEvent(g[n], u, l)
    BY <1>14, ResetIs, PlainChange
  <2>2. ReadyPended(kk) = r BY <1>1, <1>16
  <2> HIDE DEF r
  <2>3. NonePending(r) BY <1>13, <2>1 DEF NonePending
  <2> QED BY <1>14, <2>1, <2>2, <2>3, FlowOn
<1> QED BY <1>15, <1>16

LEMMA UnwindTicksIs ==
    ASSUME NEW kk, KernelOk(kk)
    PROVE  KernelOk(UnwindTicks(kk)) /\ Flow(kk, UnwindTicks(kk))
<1> DEFINE n == kk.pended
           Is(f) == f = [i \in 0 .. n |-> IF i = 0 THEN kk ELSE YieldLater(IncrementTick(f[i - 1]))]
           g == CHOOSE f : Is(f)
           k2 == [g[n] EXCEPT !.pended = 0]
<1>1. UnwindTicks(kk) = k2 BY Zenon DEF UnwindTicks
<1>2. \A f : Course(f, "tick", kk, 0, <<>>, n) <=> Is(f) BY DEF Course, Stride
<1>3. n \in Nat BY DEF KernelOk, KernelTypes
<1>4. \E f : Is(f) BY <1>2, <1>3, CourseExists
<1>5. Is(g)
  <2> HIDE DEF Is
  <2> QED BY <1>4, Zenon
<1> HIDE DEF g
<1>6. Course(g, "tick", kk, 0, <<>>, n) BY <1>2, <1>5
<1>7. ASSUME NEW a, KernelOk(a), Flow(kk, a)
      PROVE  KernelOk(YieldLater(IncrementTick(a))) /\ Flow(kk, YieldLater(IncrementTick(a)))
  <2>1. KernelOk(IncrementTick(a).k) /\ Flow(kk, IncrementTick(a).k) BY <1>7, TickIs, FlowOn
  <2> QED BY <2>1, YieldLaterIs
<1>8. Carries("tick", kk, 0, <<>>, n) BY <1>7 DEF Carries, Stride
<1>9. KernelOk(g[n]) /\ Flow(kk, g[n]) BY <1>3, <1>6, <1>8, CourseOk
<1> HIDE DEF n
<1>10. /\ SameBut(g[n], k2, Minor) /\ k2.base = g[n].base /\ k2.evprio = g[n].evprio
       /\ k2.pended = 0 /\ k2.nstate = g[n].nstate
  BY <1>9 DEF SameBut, Minor, KernelFields, KernelOk, KernelTypes
<1> HIDE DEF k2
<1>11. /\ k2.base \in [Task -> Prio] /\ k2.evprio \in [Task -> Prio] /\ k2.pended \in Nat
       /\ DOMAIN k2.nstate = Task
  BY <1>9, <1>10 DEF KernelOk, KernelTypes
<1>12. KernelOk(k2) /\ Flow(g[n], k2) BY <1>9, <1>10, <1>11, MinorKeeps
<1> QED BY <1>1, <1>9, <1>12, FlowOn

\* The end of a suspension of the scheduler.
LEMMA ResumeAllIs ==
    ASSUME NEW kk, KernelOk(kk), kk.sus = 1
    PROVE  /\ Calm(ResumeAll(kk).k) /\ Flow([kk EXCEPT !.sus = 0], ResumeAll(kk).k)
           /\ ResumeAll(kk).yielded => Settled(ResumeAll(kk).k)
<1> DEFINE a == [kk EXCEPT !.sus = 0]
           b == ReadyPended(a)
           c == UnwindTicks(b)
<1>1. KernelOk(a) /\ a.sus = 0 BY SusIs
<1>2. ResumeAll(kk).k = SwitchIf(c.yp, c) /\ ResumeAll(kk).yielded = c.yp
  <2>1. [kk EXCEPT !.sus = @ - 1] = a OBVIOUS
  <2>2. ~(a.sus > 0) BY <1>1
  <2>3. ResumeAll(kk) = Yielded(c) BY <2>1, <2>2 DEF ResumeAll
  <2> QED BY <2>3 DEF Yielded
<1> HIDE DEF a
<1>3. KernelOk(b) /\ Flow(a, b) /\ NonePending(b) BY <1>1, ReadyPendedIs
<1> HIDE DEF b
<1>4. KernelOk(c) /\ Flow(b, c) BY <1>3, UnwindTicksIs
<1> HIDE DEF c
<1>5. c.sus = 0 /\ NonePending(c) /\ Flow(a, c) BY <1>1, <1>3, <1>4, FlowOn DEF Flow
<1>6. Calm(SwitchIf(c.yp, c)) /\ Flow(c, SwitchIf(c.yp, c))
  BY <1>4, <1>5, SwitchIfIs, FlowStays DEF Calm
<1>7. c.yp => Settled(SwitchIf(c.yp, c)) BY <1>4, <1>5, SwitchIs DEF SwitchIf
<1> QED BY <1>2, <1>5, <1>6, <1>7, FlowOn DEF a

\* A sender is unblocked for each item that left a locked queue.
LEMMA ReleasedIs ==
    ASSUME NEW kk, KernelOk(kk), NEW l \in EventList \union {Pend}, NEW lock \in Nat \union {Unlocked}
    PROVE  KernelOk(Released(kk, l, lock)) /\ Flow(kk, Released(kk, l, lock))
<1> DEFINE Is(f) == f = [i \in 0 .. lock |-> IF i = 0 THEN kk
                                             ELSE YieldLater(UnblockFirst(f[i - 1], l))]
           g == CHOOSE f : Is(f)
<1>1. Released(kk, l, lock) = IF lock > 0 THEN g[lock] ELSE kk BY Zenon DEF Released
<1>2. \A f : Course(f, "release", kk, l, <<>>, lock) <=> Is(f) BY DEF Course, Stride
<1>3. CASE ~(lock > 0) BY <1>1, <1>3, FlowStays
<1>4. CASE lock > 0
  <2>1. lock \in Nat BY <1>4 DEF Unlocked
  <2>2. \E f : Is(f) BY <1>2, <2>1, CourseExists
  <2>3. Is(g)
    <3> HIDE DEF Is
    <3> QED BY <2>2, Zenon
  <2> HIDE DEF g
  <2>4. Course(g, "release", kk, l, <<>>, lock) BY <1>2, <2>3
  <2>5. ASSUME NEW a, KernelOk(a), Flow(kk, a)
        PROVE  KernelOk(YieldLater(UnblockFirst(a, l))) /\ Flow(kk, YieldLater(UnblockFirst(a, l)))
    <3>1. KernelOk(UnblockFirst(a, l).k) /\ Flow(kk, UnblockFirst(a, l).k)
      BY <2>5, UnblockFirstIs, FlowOn
    <3> QED BY <3>1, YieldLaterIs
  <2>6. Carries("release", kk, l, <<>>, lock) BY <2>5 DEF Carries, Stride
  <2>7. KernelOk(g[lock]) /\ Flow(kk, g[lock]) BY <2>1, <2>4, <2>6, CourseOk
  <2> QED BY <1>1, <1>4, <2>7
<1> QED BY <1>3, <1>4

\* The waiters whose bits are set are readied.
LEMMA UnorderedGoes ==
    ASSUME NEW kk, KernelOk(kk), NEW t \in Task, Alive(kk, t), NEW b
    PROVE  KernelOk(RemoveFromUnordered(kk, t, b)) /\ Flow(kk, RemoveFromUnordered(kk, t, b))
<1> DEFINE e == [NotInUse EXCEPT !.use = "set", !.bits = b]
           a == [kk EXCEPT !.evval[t] = e]
           w == Wakened(a, t)
           v == w.yp \/ HigherThanCurrent(kk, t)
<1>1. RemoveFromUnordered(kk, t, b) = [w EXCEPT !.yp = v] BY DEF RemoveFromUnordered
<1> HIDE DEF e
<1>2. SameBut(kk, a, Plain) BY DEF SameBut, Plain, KernelFields, KernelOk, KernelTypes
<1> HIDE DEF a
<1>3. KernelOk(a) /\ Flow(kk, a) BY <1>2, PlainChange
<1>4. KernelOk(w) /\ Flow(a, w) BY <1>3, FlowAlive, WakenedIs
<1> HIDE DEF w, v
<1>5. KernelOk([w EXCEPT !.yp = v]) /\ Flow(w, [w EXCEPT !.yp = v]) BY <1>4, YieldIs, PlainChange
<1> QED BY <1>1, <1>3, <1>4, <1>5, FlowOn

LEMMA SetBitsIs ==
    ASSUME NEW kk, KernelOk(kk), Waiters \in EventList, NEW b, NEW new
    PROVE  KernelOk(SetBits(kk, b, new).k) /\ Flow(kk, SetBits(kk, b, new).k)
<1> DEFINE list == kk.ev[Waiters]
           n == Len(list)
           all == b \union new
           Visit(a, t) == IF ConditionMet(all, kk.evval[t]) THEN RemoveFromUnordered(a, t, all) ELSE a
           Is(f) == f = [i \in 0 .. n |-> IF i = 0 THEN kk ELSE Visit(f[i - 1], list[i])]
           g == CHOOSE f : Is(f)
<1>1. SetBits(kk, b, new).k = g[n]
  <2>1. SetBits(kk, b, new).k = ForEach(Visit, kk, list) BY DEF SetBits
  <2>2. ForEach(Visit, kk, list) = g[n] BY Zenon DEF ForEach
  <2> QED BY <2>1, <2>2
<1>2. \A f : Course(f, "visit", kk, all, list, n) <=> Is(f) BY DEF Course, Stride
<1>3. n \in Nat /\ AllAlive(kk, list) BY WaitersAlive
<1>4. \E f : Is(f) BY <1>2, <1>3, CourseExists
<1>5. Is(g)
  <2> HIDE DEF Is
  <2> QED BY <1>4, Zenon
<1> HIDE DEF g
<1>6. Course(g, "visit", kk, all, list, n) BY <1>2, <1>5
<1>7. ASSUME NEW i \in 1 .. n, NEW a, KernelOk(a), Flow(kk, a)
      PROVE  KernelOk(Visit(a, list[i])) /\ Flow(kk, Visit(a, list[i]))
  <2>1. list[i] \in Task /\ Alive(a, list[i]) BY <1>3, <1>7, FlowAlive DEF AllAlive
  <2>2. Visit(a, list[i]) \in {a, RemoveFromUnordered(a, list[i], all)} OBVIOUS
  <2> QED BY <1>7, <2>1, <2>2, UnorderedGoes, FlowOn
<1>8. Carries("visit", kk, all, list, n) BY <1>7 DEF Carries, Stride
<1> QED BY <1>1, <1>3, <1>6, <1>8, CourseOk

----------------------------------------------------------------------------
(* What the queues do to the lists of the kernel.                          *)

\* The event lists of the objects.
LEMMA Handles ==
    /\ Waiters \in EventList /\ Waiters # Pend
    /\ \A c \in Queue : /\ Rx(c) \in EventList /\ Rx(c) # Pend
                        /\ Tx(c) \in EventList /\ Tx(c) # Pend
<1>1. Waiters \in EventList /\ Waiters # Pend BY QueueConstants DEF Waiters, Pend
<1>2. ASSUME NEW c \in Queue
      PROVE  Rx(c) \in EventList /\ Rx(c) # Pend /\ Tx(c) \in EventList /\ Tx(c) # Pend
  BY QueueConstants DEF Rx, Tx, Pend
<1> QED BY <1>1, <1>2

\* Whoever is told of an item is woken.
LEMMA ArrivedIs ==
    ASSUME NEW qs, NEW c \in Channels, qs[c].set \in Channels \union {Null},
           NEW kk, KernelOk(kk)
    PROVE  KernelOk(Arrived(kk, qs, c).k) /\ Flow(kk, Arrived(kk, qs, c).k)
<1> DEFINE s == qs[c].set
<1>1. CASE s = Null
  <2>1. Arrived(kk, qs, c).k = UnblockFirst(kk, Rx(c)).k BY <1>1 DEF Arrived, Told
  <2>2. Rx(c) \in EventList \union {Pend} BY Handles DEF Channels
  <2> QED BY <2>1, <2>2, UnblockFirstIs
<1>2. CASE s # Null
  <2>1. s \in Channels BY <1>2
  <2>2. Rx(s) \in EventList \union {Pend} BY <2>1, Handles DEF Channels
  <2>3. Arrived(kk, qs, c).k \in {kk, UnblockFirst(kk, Rx(s)).k}
    <3>1. Arrived(kk, qs, c) = NotifySet(kk, qs, c, s) BY <1>2 DEF Arrived
    <3>2. NotifySet(kk, qs, c, s).k \in {kk, UnblockFirst(kk, Rx(s)).k}
      BY DEF NotifySet, Untold, Told
    <3> QED BY <3>1, <3>2
  <2> QED BY <2>2, <2>3, UnblockFirstIs, FlowStays
<1> QED BY <1>1, <1>2

LEMMA SentIs ==
    ASSUME NEW qs, NEW c \in Channels, qs[c].set \in Channels \union {Null}, NEW kk, NEW g,
           KernelOk(g.k), Flow(kk, g.k), NEW over
    PROVE  KernelOk(Sent(g, qs, c, over).k) /\ Flow(kk, Sent(g, qs, c, over).k)
<1>1. Sent(g, qs, c, over).k \in {g.k, Arrived(g.k, qs, c).k} BY DEF Sent, Untold, Told
<1>2. KernelOk(Arrived(g.k, qs, c).k) /\ Flow(g.k, Arrived(g.k, qs, c).k) BY ArrivedIs
<1> QED BY <1>1, <1>2, FlowOn

LEMMA GivenIs ==
    ASSUME KernelOk(k), NEW c PROVE KernelOk(Given(c).k) /\ Flow(k, Given(c).k)
<1>1. Given(c).k \in {k, PriorityDisinherit(k).k} BY DEF Given
<1> QED BY <1>1, DisinheritIs, FlowStays

\* The queue is unlocked.
LEMMA ToldAllRuns ==
    ASSUME NEW type, NEW s, AllSound(s.queue, type), KernelOk(s.k), NEW c \in Channels,
           NEW lock \in Locks
    PROVE  KernelOk(ToldAll(s, c, lock).k) /\ Flow(s.k, ToldAll(s, c, lock).k)
<1> DEFINE Good(a) == AllSound(a.queue, type) /\ KernelOk(a.k) /\ Flow(s.k, a.k)
<1>1. ASSUME NEW a, Good(a) PROVE Good(TellLater(a, c))
  <2> DEFINE u == Arrived(a.k, a.queue, c)
  <2>1. KernelOk(u.k) /\ Flow(a.k, u.k)
    <3>1. a.queue[c].set \in Channels \union {Null} BY <1>1 DEF AllSound, Sound
    <3> QED BY <1>1, <3>1, ArrivedIs
  <2>2. TellLater(a, c).queue = u.queue /\ TellLater(a, c).k = YieldLater(u)
    BY DEF TellLater, Noted, Untold
  <2>3. AllSound(u.queue, type) BY <1>1, ArrivedSound
  <2> HIDE DEF u
  <2>4. KernelOk(YieldLater(u)) /\ Flow(a.k, YieldLater(u)) BY <2>1, YieldLaterIs
  <2> QED BY <1>1, <2>2, <2>3, <2>4, FlowOn
<1>2. CASE lock \in Nat
  <2>1. PICK f : /\ f[0] = s /\ ToldAll(s, c, lock) = f[lock]
                 /\ \A i \in Nat : i < lock => f[i + 1] = TellLater(f[i], c)
    BY <1>2, ToldAllIs
  <2> DEFINE T == {i \in Nat : i <= lock => Good(f[i])}
  <2>2. 0 \in T BY <2>1, FlowStays
  <2> HIDE DEF Good
  <2>3. ASSUME NEW i \in Nat, i \in T PROVE i + 1 \in T BY <1>1, <1>2, <2>1, <2>3
  <2>4. Nat \subseteq T
    <3> HIDE DEF T
    <3> QED BY <2>2, <2>3, Induction
  <2>5. Good(ToldAll(s, c, lock)) BY <1>2, <2>1, <2>4
  <2> QED BY <2>5 DEF Good
<1>3. CASE lock \notin Nat
  <2>1. ToldAll(s, c, lock) = s BY <1>3 DEF ToldAll, Locks, Unlocked
  <2> QED BY <2>1, FlowStays
<1> QED BY <1>2, <1>3

\* A place is freed, or a receiver told, and the caller yields if it must.
LEMMA FreedIs ==
    ASSUME NEW kk, NEW k1, Calm(kk), KernelOk(k1), Flow(kk, k1),
           NEW l \in EventList \union {Pend}
    PROVE  /\ Calm(YieldNow(UnblockFirst(k1, l)))
           /\ Flow(kk, YieldNow(UnblockFirst(k1, l)))
<1>1. KernelOk(UnblockFirst(k1, l).k) /\ Flow(kk, UnblockFirst(k1, l).k)
  BY UnblockFirstIs, FlowOn
<1> QED BY <1>1, YieldNowIs

----------------------------------------------------------------------------
(* What tasks and interrupts do to other tasks.                            *)

\* A suspended task that waits for nothing lives.
LEMMA SuspendedAlive ==
    ASSUME NEW kk, KernelOk(kk), NEW t \in Task, IsAt(kk, t, "suspended")
    PROVE  Alive(kk, t)
BY Elsewhere DEF KernelOk, Alive, Places

\* A resumed task is readied.
LEMMA ResumedIs ==
    ASSUME NEW kk, KernelOk(kk), NEW t \in Task, t \in kk.suspended,
           ~InEventList(kk, t)
    PROVE  /\ KernelOk(AddToReady(OutOfState(kk, t), t))
           /\ Flow(kk, AddToReady(OutOfState(kk, t), t))
<1>1. Alive(kk, t) BY SuspendedAlive, IsAtPlace
<1>2. DOMAIN kk.ev = EventList \union {Pend} BY DEF KernelOk, KernelTypes
<1>3. \A l \in EventList \ {Pend} : ~InEvent(kk, t, l) BY <1>2 DEF InEventList, InEvent
<1> QED BY <1>1, <1>3, ReadiedIs

\* vTaskResume.
LEMMA UnparkIs ==
    ASSUME Calm(k), NEW t \in Task, IsSuspended(t), NEW b
    PROVE  /\ Calm(SwitchIf(b, AddToReady(OutOfState(k, t), t)))
           /\ Flow(k, SwitchIf(b, AddToReady(OutOfState(k, t), t)))
BY ResumedIs, SwitchIfIs DEF IsSuspended, Calm

\* xTaskResumeFromISR.
LEMMA UnparkISRIs ==
    ASSUME Calm(k), NEW t \in Task, UnparkFromISR(t) PROVE Calm(k') /\ Flow(k, k')
<1>1. CASE ~IsSuspended(t) BY <1>1, FlowStays DEF UnparkFromISR
<1>2. CASE IsSuspended(t) /\ k.sus = 0
  <2> DEFINE a == YieldTo(k, t)
             b == AddToReady(OutOfState(a, t), t)
  <2>1. k' = SwitchIf(HigherThanCurrent(k, t), b) BY <1>2 DEF UnparkFromISR
  <2>2. KernelOk(a) /\ Flow(k, a) /\ SameBut(k, a, Plain) BY YieldToIs, FlowStays DEF Calm
  <2>3. a.suspended = k.suspended /\ a.ev = k.ev BY <2>2 DEF SameBut, Plain, KernelFields
  <2> HIDE DEF a
  <2>4. t \in a.suspended /\ ~InEventList(a, t) BY <1>2, <2>3 DEF IsSuspended, InEventList
  <2>5. KernelOk(b) /\ Flow(a, b) BY <2>2, <2>4, ResumedIs
  <2> HIDE DEF b
  <2>6. Flow(k, b) BY <2>2, <2>5, FlowOn
  <2> QED BY <2>1, <2>5, <2>6, SwitchIfIs
<1>3. CASE IsSuspended(t) /\ k.sus # 0
  <2>1. k' = [k EXCEPT !.ev[Pend] = Append(@, t)] BY <1>3 DEF UnparkFromISR
  <2>2. KernelOk(k) /\ DOMAIN k = KernelFields /\ DOMAIN k.ev = EventList \union {Pend}
    BY DEF Calm, KernelOk, KernelTypes
  <2>3. SameBut(k, k', {"ev"}) /\ k'.ev = [k.ev EXCEPT ![Pend] = Append(@, t)]
    BY <2>1, <2>2 DEF SameBut, KernelFields
  <2>4. Alive(k, t) /\ IsAt(k, t, "suspended")
    BY <1>3, <2>2, SuspendedAlive, IsAtPlace DEF IsSuspended
  <2>5. \A l \in EventList \union {Pend} : ~InEvent(k, t, l)
    BY <1>3, <2>2 DEF IsSuspended, InEventList, InEvent
  <2>6. Settled(k) => t # k.cur BY <2>4 DEF Settled
  <2>7. KernelOk(k') /\ Flow(k, k')
    BY <1>3, <2>2, <2>3, <2>4, <2>5, <2>6, FlowStays, PendedIs
  <2> QED BY <2>7, FlowCalm
<1> QED BY <1>1, <1>2, <1>3

\* xTaskAbortDelay.
LEMMA CutIs ==
    ASSUME KernelOk(k), NEW t \in Task, Alive(k, t), NEW a,
           a = k \/ SameBut(k, a, Plain)
    PROVE  KernelOk(YieldTo(Wakened(a, t), t)) /\ Flow(k, YieldTo(Wakened(a, t), t))
<1>1. KernelOk(a) /\ Flow(k, a) BY PlainChange, FlowStays
<1>2. Alive(a, t) BY <1>1, FlowAlive
<1>3. KernelOk(Wakened(a, t)) /\ Flow(k, Wakened(a, t)) BY <1>1, <1>2, WakenedIs, FlowOn
<1> QED BY <1>3, YieldToIs

----------------------------------------------------------------------------
(* The timers.                                                             *)

\* The least of a set of numbers is one of them.
LEMMA LeastIn ==
    ASSUME NEW n \in Nat, NEW I \in SUBSET (1 .. n), I # {} PROVE Min(I) \in I
<1>1. I \in SUBSET Nat OBVIOUS
<1>2. \E i \in I : \A j \in I : i <= j BY <1>1, LeastOf
<1> QED BY <1>2 DEF Min

\* A timer that is inserted, or removed, leaves a list of timers.
LEMMA TimerInserted ==
    ASSUME NEW s \in Seq(Timer), NEW x \in Timer, NEW m PROVE ByExpiry(m, s, x) \in Seq(Timer)
<1> DEFINE W == {j \in 1 .. Len(s) : m.value[x] < m.value[s[j]]}
           i == IF W # {} THEN Min(W) ELSE 0
<1>1. ByExpiry(m, s, x) = IF i = 0 THEN Append(s, x) ELSE InsertAt(s, i, x)
  BY DEF ByExpiry, InsertSorted, SelectInSeq
<1>2. i \in 0 .. Len(s)
  <2>1. W \in SUBSET (1 .. Len(s)) /\ Len(s) \in Nat OBVIOUS
  <2> HIDE DEF W
  <2>2. CASE W # {}
    <3>1. Min(W) \in W BY <2>1, <2>2, LeastIn
    <3>2. Min(W) \in 1 .. Len(s) BY <2>1, <3>1
    <3> QED BY <2>1, <2>2, <3>2
  <2>3. CASE W = {} BY <2>1, <2>3
  <2> QED BY <2>2, <2>3
<1> HIDE DEF i
<1>3. CASE i = 0 BY <1>1, <1>3
<1>4. CASE i # 0
  <2>1. i \in 1 .. Len(s) + 1 BY <1>2, <1>4
  <2> QED BY <1>1, <1>4, <2>1, Inserted
<1> QED BY <1>3, <1>4

LEMMA TimerRemoved ==
    ASSUME NEW s \in Seq(Timer), NEW x PROVE RemoveFirst(s, x) \in Seq(Timer)
<1>1. CASE ~ \E i \in 1 .. Len(s) : s[i] = x BY <1>1 DEF RemoveFirst
<1>2. CASE \E i \in 1 .. Len(s) : s[i] = x
  <2> DEFINE I == {a \in 1 .. Len(s) : s[a] = x}
             i == SelectInSeq(s, LAMBDA v : v = x)
  <2>1. RemoveFirst(s, x) = RemoveAt(s, i) BY <1>2 DEF RemoveFirst
  <2>2. i = IF I # {} THEN Min(I) ELSE 0 BY DEF SelectInSeq
  <2>3. I # {} /\ I \in SUBSET (1 .. Len(s)) /\ Len(s) \in Nat BY <1>2
  <2> HIDE DEF I, i
  <2>4. i \in 1 .. Len(s) BY <2>2, <2>3, LeastIn
  <2> QED BY <2>1, <2>4, Taken
<1> QED BY <1>1, <1>2

\* The running timers.
TimerFields == {"current", "overflow", "value", "period", "active", "last", "due"}
TimersOk(m) ==
    DOMAIN m = TimerFields /\ m.current \in Seq(Timer) /\ m.overflow \in Seq(Timer)
LEMMA SameTimers ==
    ASSUME NEW m, TimersOk(m), NEW m2, DOMAIN m2 = TimerFields,
           m2.current = m.current, m2.overflow = m.overflow
    PROVE  TimersOk(m2)
BY DEF TimersOk

LEMMA OutOfListsIs ==
    ASSUME NEW m, TimersOk(m), NEW x PROVE TimersOk(OutOfLists(m, x))
<1> DEFINE m2 == OutOfLists(m, x)
<1>1. DOMAIN m2 = TimerFields /\ m2.current = RemoveFirst(m.current, x)
      /\ m2.overflow = RemoveFirst(m.overflow, x)
  BY DEF TimersOk, TimerFields, OutOfLists
<1> HIDE DEF m2
<1> QED BY <1>1, TimerRemoved DEF TimersOk, m2

LEMMA InsertTimerIs ==
    ASSUME NEW m, TimersOk(m), NEW x \in Timer, NEW next, NEW now
    PROVE  TimersOk(InsertTimer(m, x, next, now))
<1> DEFINE a == [m EXCEPT !.value[x] = next]
           m2 == InsertTimer(m, x, next, now)
<1>1. DOMAIN a = TimerFields /\ a.current = m.current /\ a.overflow = m.overflow
  BY DEF TimersOk, TimerFields
<1>2. m2 = IF next <= now THEN [a EXCEPT !.overflow = ByExpiry(a, a.overflow, x)]
           ELSE [a EXCEPT !.current = ByExpiry(a, a.current, x)]
  BY DEF InsertTimer
<1> HIDE DEF a, m2
<1>3. /\ ByExpiry(a, a.overflow, x) \in Seq(Timer) /\ ByExpiry(a, a.current, x) \in Seq(Timer)
  BY <1>1, TimerInserted DEF TimersOk
<1>4. DOMAIN m2 = TimerFields BY <1>1, <1>2
<1>5. m2.current \in {a.current, ByExpiry(a, a.current, x)}
      /\ m2.overflow \in {a.overflow, ByExpiry(a, a.overflow, x)}
  BY <1>1, <1>2 DEF TimerFields
<1> QED BY <1>1, <1>3, <1>4, <1>5 DEF TimersOk, m2

\* The tasks that the callbacks notify live, and no step of the timers changes
\* that: a is what becomes of the kernel kk and the timers.
ClientsLive(kk) == \A x \in Timer : Alive(kk, Client[x])
Serving(kk, a) ==
    DOMAIN a = {"k", "tm"} /\ Calm(a.k) /\ Flow(kk, a.k) /\ TimersOk(a.tm)
LEMMA ServingOn ==
    ASSUME NEW kk, NEW a, Serving(kk, a), NEW b, b.k = a.k, DOMAIN b = {"k", "tm"},
           TimersOk(b.tm)
    PROVE  Serving(kk, b)
BY DEF Serving

LEMMA CallbackIs ==
    ASSUME NEW kk, ClientsLive(kk), NEW a, Serving(kk, a), NEW x \in Timer
    PROVE  Serving(kk, Callback(a, x))
<1> DEFINE b == Callback(a, x)
           u == Notify(a.k, Client[x], Notice)
<1>1. Client[x] \in Task BY TimerConstants
<1>2. Alive(a.k, Client[x]) BY FlowAlive DEF Serving, ClientsLive
<1>3. KernelOk(u.k) /\ Flow(a.k, u.k) BY <1>1, <1>2, NotifyIs DEF Serving, Calm
<1>4. Calm(YieldNow(u)) /\ Flow(a.k, YieldNow(u)) BY <1>3, YieldNowIs DEF Serving
<1>5. DOMAIN b = {"k", "tm"} /\ b.k = YieldNow(u)
      /\ b.tm = [a.tm EXCEPT !.due[x] = @ + a.tm.period[x]]
  BY DEF Callback
<1>6. DOMAIN b.tm = TimerFields /\ b.tm.current = a.tm.current
      /\ b.tm.overflow = a.tm.overflow
  <2> HIDE DEF b
  <2> QED BY <1>5 DEF Serving, TimersOk, TimerFields
<1> HIDE DEF b, u
<1>7. TimersOk(b.tm) BY <1>6, SameTimers DEF Serving
<1>8. Flow(kk, b.k) BY <1>4, <1>5, FlowOn DEF Serving
<1> QED BY <1>4, <1>5, <1>7, <1>8 DEF Serving, b

\* A timer is reloaded, however many periods have passed.
LEMMA ReloadIs ==
    ASSUME NEW kk, ClientsLive(kk), NEW a, Serving(kk, a), NEW x \in Timer, NEW at, NEW now
    PROVE  Serving(kk, Reload(a, x, at, now))
<1> DEFINE start == [s |-> a, at |-> at]
           n == TickMod
           Is(f) == f = [i \in 0 .. n |-> IF i = 0 THEN start ELSE Passed(f[i - 1], x, now)]
           g == CHOOSE f : Is(f)
           end == g[n]
           m == InsertTimer(end.s.tm, x, (end.at + end.s.tm.period[x]) % TickMod, now)
           b == [end.s EXCEPT !.tm = m]
<1>1. Reload(a, x, at, now) = b BY Zenon DEF Reload
<1>2. n \in Nat BY KernelConstants
<1>3. \A f : Course(f, "reload", start, <<x, now>>, <<>>, n) <=> Is(f)
  <2>1. <<x, now>>[1] = x /\ <<x, now>>[2] = now OBVIOUS
  <2> QED BY <2>1, Zenon DEF Course, Stride
<1>4. \E f : Is(f) BY <1>2, <1>3, CourseExists
<1>5. Is(g)
  <2> HIDE DEF Is
  <2> QED BY <1>4, Zenon
<1> HIDE DEF g
<1>6. g[0] = start /\ \A i \in Nat : i < n => g[i + 1] = Passed(g[i], x, now)
  BY <1>2, <1>5
<1> DEFINE Good(c) == Serving(kk, c.s)
<1>7. ASSUME NEW c, Good(c) PROVE Good(Passed(c, x, now))
  <2>1. Passed(c, x, now) = c \/ Passed(c, x, now).s = Callback(c.s, x) BY DEF Passed
  <2>2. Serving(kk, Callback(c.s, x)) BY <1>7, CallbackIs
  <2> QED BY <1>7, <2>1, <2>2
<1>8. Good(start) OBVIOUS
<1> DEFINE T == {i \in Nat : i <= n => Good(g[i])}
<1> HIDE DEF n, Good, start
<1>9. 0 \in T BY <1>6, <1>8
<1>10. ASSUME NEW i \in Nat, i \in T PROVE i + 1 \in T BY <1>2, <1>6, <1>7, <1>10
<1>11. Nat \subseteq T
  <2> HIDE DEF T
  <2> QED BY <1>9, <1>10, Induction
<1>12. Serving(kk, end.s) BY <1>2, <1>11 DEF Good
<1> HIDE DEF T, end, m
<1>13. TimersOk(m) BY <1>12, InsertTimerIs DEF Serving, m
<1>14. DOMAIN b = {"k", "tm"} /\ b.k = end.s.k /\ b.tm = m BY <1>12 DEF Serving
<1> HIDE DEF b
<1> QED BY <1>1, <1>12, <1>13, <1>14, ServingOn

\* A timer has expired.
LEMMA ExpireIs ==
    ASSUME NEW kk, ClientsLive(kk), NEW a, Serving(kk, a), NEW x \in Timer, NEW at, NEW now
    PROVE  Serving(kk, Expire(a, x, at, now))
<1> DEFINE b == [a EXCEPT !.tm.active = @ \ {x}]
<1>1. DOMAIN b = {"k", "tm"} /\ b.k = a.k /\ DOMAIN b.tm = TimerFields
      /\ b.tm.current = a.tm.current /\ b.tm.overflow = a.tm.overflow
  BY DEF Serving, TimersOk, TimerFields
<1>2. Expire(a, x, at, now) \in {Callback(b, x), Callback(Reload(a, x, at, now), x)}
  BY DEF Expire
<1> HIDE DEF b
<1>3. TimersOk(b.tm) BY <1>1, SameTimers DEF Serving
<1>4. Serving(kk, b) BY <1>1, <1>3, ServingOn
<1>5. Serving(kk, Reload(a, x, at, now)) BY ReloadIs
<1> QED BY <1>2, <1>4, <1>5, CallbackIs

LEMMA ProcessExpiredIs ==
    ASSUME NEW kk, ClientsLive(kk), NEW a, Serving(kk, a), a.tm.current # <<>>, NEW now
    PROVE  Serving(kk, ProcessExpired(a, now))
<1> DEFINE x == Head(a.tm.current)
           b == [a EXCEPT !.tm = OutOfLists(@, x)]
<1>1. x \in Timer BY DEF Serving, TimersOk
<1>2. TimersOk(OutOfLists(a.tm, x)) BY OutOfListsIs DEF Serving
<1>3. DOMAIN b = {"k", "tm"} /\ b.k = a.k /\ b.tm = OutOfLists(a.tm, x) BY DEF Serving
<1>4. ProcessExpired(a, now) = Expire(b, x, a.tm.value[x], now) BY DEF ProcessExpired
<1> HIDE DEF b, x
<1>5. Serving(kk, b) BY <1>2, <1>3, ServingOn
<1> QED BY <1>1, <1>4, <1>5, ExpireIs

\* The tick count has wrapped: all timers of the current list have expired.
LEMMA SwitchTimersIs ==
    ASSUME NEW kk, ClientsLive(kk), NEW a, Serving(kk, a)
    PROVE  Serving(kk, SwitchTimerLists(a))
<1> DEFINE First(c, x) == IF c.tm.current = <<>> THEN c ELSE ProcessExpired(c, MaxDelay)
           list == a.tm.current
           n == Len(list)
           Is(f) == f = [i \in 0 .. n |-> IF i = 0 THEN a ELSE First(f[i - 1], list[i])]
           g == CHOOSE f : Is(f)
           c == g[n]
           b == [c EXCEPT !.tm.current = c.tm.overflow, !.tm.overflow = c.tm.current]
<1>1. SwitchTimerLists(a) = b
  <2>1. SwitchTimerLists(a) = SwapTimerLists(ForEach(First, a, list)) BY Zenon DEF SwitchTimerLists
  <2>2. ForEach(First, a, list) = c BY Zenon DEF ForEach
  <2> HIDE DEF c
  <2> QED BY <2>1, <2>2 DEF SwapTimerLists
<1>2. n \in Nat BY DEF Serving, TimersOk
<1>3. \A f : Course(f, "expire", a, 0, list, n) <=> Is(f) BY DEF Course, Stride
<1>4. \E f : Is(f) BY <1>2, <1>3, CourseExists
<1>5. Is(g)
  <2> HIDE DEF Is
  <2> QED BY <1>4, Zenon
<1> HIDE DEF g
<1>6. g[0] = a /\ \A i \in Nat : i < n => g[i + 1] = First(g[i], list[i + 1])
  BY <1>2, <1>5
<1>7. ASSUME NEW d, Serving(kk, d), NEW x PROVE Serving(kk, First(d, x))
  BY <1>7, ProcessExpiredIs
<1> DEFINE T == {i \in Nat : i <= n => Serving(kk, g[i])}
<1> HIDE DEF n, First, list
<1>8. 0 \in T BY <1>6
<1>9. ASSUME NEW i \in Nat, i \in T PROVE i + 1 \in T BY <1>2, <1>6, <1>7, <1>9
<1>10. Nat \subseteq T
  <2> HIDE DEF T
  <2> QED BY <1>8, <1>9, Induction
<1>11. Serving(kk, c) BY <1>2, <1>10
<1> HIDE DEF T, c
<1>12. DOMAIN b = {"k", "tm"} /\ b.k = c.k /\ DOMAIN b.tm = TimerFields
       /\ b.tm.current = c.tm.overflow /\ b.tm.overflow = c.tm.current
  BY <1>11 DEF Serving, TimersOk, TimerFields
<1> HIDE DEF b
<1>13. TimersOk(b.tm) BY <1>11, <1>12 DEF Serving, TimersOk
<1> QED BY <1>1, <1>11, <1>12, <1>13, ServingOn

\* The time is sampled.
LEMMA SampleIs ==
    ASSUME NEW kk, ClientsLive(kk), NEW a, Serving(kk, a)
    PROVE  /\ Serving(kk, SampleTimeNow(a).s)
           /\ ~SampleTimeNow(a).switched =>
                 /\ SampleTimeNow(a).s.k = a.k
                 /\ SampleTimeNow(a).s.tm.current = a.tm.current
<1> DEFINE w == a.k.tick < a.tm.last
           b == IF w THEN SwitchTimerLists(a) ELSE a
           c == [b EXCEPT !.tm.last = a.k.tick]
<1>1. SampleTimeNow(a).s = c /\ SampleTimeNow(a).switched = w BY DEF SampleTimeNow
<1>2. Serving(kk, b) BY SwitchTimersIs
<1>3. ~w => b = a OBVIOUS
<1> HIDE DEF b, w
<1>4. DOMAIN c = {"k", "tm"} /\ c.k = b.k /\ DOMAIN c.tm = TimerFields
      /\ c.tm.current = b.tm.current /\ c.tm.overflow = b.tm.overflow
  BY <1>2 DEF Serving, TimersOk, TimerFields
<1> HIDE DEF c
<1>5. TimersOk(c.tm) BY <1>2, <1>4, SameTimers DEF Serving
<1> QED BY <1>1, <1>2, <1>3, <1>4, <1>5, ServingOn

\* A command is obeyed.
LEMMA StartTimerIs ==
    ASSUME NEW kk, ClientsLive(kk), NEW a, Serving(kk, a), NEW x \in Timer, NEW at
    PROVE  Serving(kk, StartTimer(a, x, at))
<1> DEFINE now == a.k.tick
           next == (at + a.tm.period[x]) % TickMod
           b == [a EXCEPT !.tm.active = @ \union {x},
                          !.tm.due[x] = a.tm.period[x] - ((now - at) % TickMod)]
           c == [b EXCEPT !.tm = InsertTimer(@, x, next, now)]
<1>1. StartTimer(a, x, at) \in {Expire(b, x, next, now), c} BY DEF StartTimer
<1> HIDE DEF next, now
<1>2. DOMAIN b = {"k", "tm"} /\ b.k = a.k /\ DOMAIN b.tm = TimerFields
      /\ b.tm.current = a.tm.current /\ b.tm.overflow = a.tm.overflow
  BY DEF Serving, TimersOk, TimerFields
<1> HIDE DEF b
<1>3. TimersOk(b.tm) BY <1>2, SameTimers DEF Serving
<1>4. Serving(kk, b) BY <1>2, <1>3, ServingOn
<1>5. DOMAIN c = {"k", "tm"} /\ c.k = b.k /\ c.tm = InsertTimer(b.tm, x, next, now)
  BY <1>2
<1> HIDE DEF c
<1>6. Serving(kk, c) BY <1>3, <1>4, <1>5, InsertTimerIs, ServingOn
<1> QED BY <1>1, <1>4, <1>6, ExpireIs

LEMMA ChangePeriodIs ==
    ASSUME NEW kk, NEW a, Serving(kk, a), NEW x \in Timer, NEW period
    PROVE  Serving(kk, ChangePeriod(a, x, period))
<1> DEFINE m == [a.tm EXCEPT !.active = @ \union {x}, !.period[x] = period, !.due[x] = period]
           r == InsertTimer(m, x, (a.k.tick + period) % TickMod, a.k.tick)
           b == [a EXCEPT !.tm = r]
<1>1. ChangePeriod(a, x, period) = b BY DEF ChangePeriod
<1>2. DOMAIN m = TimerFields /\ m.current = a.tm.current /\ m.overflow = a.tm.overflow
  BY DEF Serving, TimersOk, TimerFields
<1> HIDE DEF m
<1>3. TimersOk(m) BY <1>2, SameTimers DEF Serving
<1>4. TimersOk(r) BY <1>3, InsertTimerIs
<1> HIDE DEF r
<1>5. DOMAIN b = {"k", "tm"} /\ b.k = a.k /\ b.tm = r BY DEF Serving
<1> HIDE DEF b
<1> QED BY <1>1, <1>4, <1>5, ServingOn

LEMMA ObeyIs ==
    ASSUME NEW kk, ClientsLive(kk), NEW a, Serving(kk, a), NEW c, c.timer \in Timer
    PROVE  Serving(kk, Obey(a, c))
<1> DEFINE o == [a EXCEPT !.tm = OutOfLists(@, c.timer)]
           b == SampleTimeNow(o).s
           x == c.timer
           d == [b EXCEPT !.tm.active = @ \ {c.timer}, !.tm.due[c.timer] = 0]
<1>1. DOMAIN o = {"k", "tm"} /\ o.k = a.k /\ o.tm = OutOfLists(a.tm, x) BY DEF Serving
<1>2. Obey(a, c) = Obeyed(b, c) BY DEF Obey
<1> HIDE DEF o
<1>3. TimersOk(o.tm) BY <1>1, OutOfListsIs DEF Serving
<1>4. Serving(kk, o) BY <1>1, <1>3, ServingOn
<1>5. Serving(kk, b) BY <1>4, SampleIs
<1> HIDE DEF b
<1>6. Obeyed(b, c) \in {StartTimer(b, x, c.value), ChangePeriod(b, x, c.value), d, b}
  BY DEF Obeyed
<1>7. DOMAIN d = {"k", "tm"} /\ d.k = b.k /\ DOMAIN d.tm = TimerFields
      /\ d.tm.current = b.tm.current /\ d.tm.overflow = b.tm.overflow
  BY <1>5 DEF Serving, TimersOk, TimerFields
<1> HIDE DEF d
<1>8. TimersOk(d.tm) BY <1>5, <1>7, SameTimers DEF Serving
<1>9. Serving(kk, d) BY <1>5, <1>7, <1>8, ServingOn
<1>10. Serving(kk, StartTimer(b, x, c.value)) BY <1>5, StartTimerIs
<1>11. Serving(kk, ChangePeriod(b, x, c.value)) BY <1>5, ChangePeriodIs
<1> QED BY <1>2, <1>5, <1>6, <1>9, <1>10, <1>11

----------------------------------------------------------------------------
(* The control of the tasks.                                               *)

\* Where a task is in a call while it has the scheduler suspended, and where it may
\* go on when it resumes it or has yielded.
Held == {"lock", "test", "unlock", "resume", "look", "cut"}
Afters == {"try", "recheck", "refused", "awake", "told", "fire", "commands", "deleted"}

\* A task that has put itself to sleep, suspended or deleted itself, and has the
\* processor until it yields.
CallAt(sc, t, r) == sc.prog[t][r.ip]
Leaving(sc, t, r) ==
    \/ r.pc = "yield"
    \/ r.pc = "parked" /\ CallAt(sc, t, r).to = t
    \/ r.pc \in {"unlock", "resume"} /\ r.yield
Firing(r) ==
    \/ r.pc = "fire"
    \/ r.pc \in {"test", "unlock", "resume", "yield"} /\ r.then = "fire"

\* Only the current task holds the scheduler, ...
HeldByCurrent(kk, ths) ==
    /\ \A t \in Task : ths[t].pc \in Held => t = kk.cur
    /\ kk.sus = IF ths[kk.cur].pc \in Held THEN 1 ELSE 0
\* ... a task that waits for a notification is in that call, ...
WaitsInCall(kk, ths) ==
    /\ \A t \in Task : ths[t].then \in Afters
    /\ \A t \in Task : kk.nstate[t] = "waiting" => ths[t].pc = "taken"
\* ... the current task runs, or is about to yield, ...
CurrentRuns(kk, ths, sc) == Settled(kk) \/ Leaving(sc, kk.cur, ths[kk.cur])
\* ... only tasks that may be deleted are, ...
MortalsDie(kk, sc) == \A t \in Task : Alive(kk, t) \/ t \in Mortal(sc)
\* ... and the timer service task has a timer to fire and to obey a command for.
DaemonReady(ths, m, sc) ==
    \A t \in Caller :
        /\ ths[t].pc = "obey" => ths[t].cmd.timer \in Timer
        /\ Firing(ths[t]) => CallAt(sc, t, ths[t]).op = "timers" /\ m.current # <<>>
Control(kk, ths, m, sc) ==
    /\ HeldByCurrent(kk, ths) /\ WaitsInCall(kk, ths) /\ CurrentRuns(kk, ths, sc)
    /\ MortalsDie(kk, sc) /\ DaemonReady(ths, m, sc)

\* What another task's step leaves of a task, unless it makes it.
Untouched(r, r2) ==
    /\ r2.pc = r.pc /\ r2.then = r.then /\ r2.yield = r.yield /\ r2.ip = r.ip
    /\ r2.cmd = r.cmd
Begun(r) == r.pc = "try" /\ r.then = "try"

\* A step of the task t.
LEMMA Steps ==
    ASSUME NEW kk, NEW ths, NEW m, NEW sc, Control(kk, ths, m, sc),
           NEW t, t = kk.cur, NEW k2, k2.cur \in Task, NEW th2, NEW m2,
           \A u \in Task \ {t} :
              \/ Untouched(ths[u], th2[u]) /\ (k2.nstate[u] = "waiting" => kk.nstate[u] = "waiting")
              \/ Begun(th2[u]) /\ k2.nstate[u] # "waiting",
           th2[t].then \in Afters,
           k2.cur = t => k2.sus = IF th2[t].pc \in Held THEN 1 ELSE 0,
           k2.cur # t => th2[t].pc \notin Held /\ k2.sus = 0 /\ Settled(k2),
           k2.nstate[t] = "waiting" => th2[t].pc = "taken",
           k2.cur = t => Settled(k2) \/ Leaving(sc, t, th2[t]),
           MortalsDie(k2, sc),
           t \in Caller => /\ th2[t].pc = "obey" => th2[t].cmd.timer \in Timer
                           /\ Firing(th2[t]) => CallAt(sc, t, th2[t]).op = "timers"
                                                /\ m2.current # <<>>,
           \/ m2.current = m.current
           \/ \A u \in Caller \ {t} : ~Firing(ths[u])
    PROVE  Control(k2, th2, m2, sc)
<1> USE DEF Control
<1>1. HeldByCurrent(k2, th2)
  <2>1. \A u \in Task \ {t} : th2[u].pc \notin Held
    BY DEF HeldByCurrent, Untouched, Begun, Held
  <2> QED BY <2>1 DEF HeldByCurrent
<1>2. WaitsInCall(k2, th2) BY DEF WaitsInCall, Untouched, Begun, Afters
<1>3. CurrentRuns(k2, th2, sc) BY DEF CurrentRuns
<1>4. DaemonReady(th2, m2, sc)
  <2>1. ASSUME NEW u \in Caller, u # t
        PROVE  /\ th2[u].pc = "obey" => th2[u].cmd.timer \in Timer
               /\ Firing(th2[u]) => CallAt(sc, u, th2[u]).op = "timers" /\ m2.current # <<>>
    <3>1. u \in Task \ {t} BY <2>1 DEF Caller
    <3>2. CASE Untouched(ths[u], th2[u])
      <4>1. Firing(th2[u]) <=> Firing(ths[u]) BY <3>2 DEF Firing, Untouched
      <4>2. CallAt(sc, u, th2[u]) = CallAt(sc, u, ths[u]) BY <3>2 DEF CallAt, Untouched
      <4> QED BY <2>1, <3>2, <4>1, <4>2 DEF DaemonReady, Untouched
    <3>3. CASE Begun(th2[u]) BY <3>3 DEF Begun, Firing
    <3> QED BY <3>1, <3>2, <3>3
  <2> QED BY <2>1 DEF DaemonReady
<1> QED BY <1>1, <1>2, <1>3, <1>4

\* The invariant.
Running == Calm(k) /\ TimersOk(tm) /\ Control(k, th, tm, Scenario[scn])
SchedulerInv == QueuesInv /\ Running

LEMMA CurIsTask == ASSUME NEW kk, KernelOk(kk) PROVE kk.cur \in Task
BY DEF KernelOk, KernelTypes

LEMMA FlowMortals ==
    ASSUME NEW kk, NEW sc, MortalsDie(kk, sc), NEW k2, Flow(kk, k2) PROVE MortalsDie(k2, sc)
BY FlowAlive DEF MortalsDie

\* A step that is no task's: the tasks stand still.
LEMMA StandStill ==
    ASSUME SchedulerInv, scn' = scn, \A u \in Task : Untouched(th[u], th'[u]),
           Calm(k'), Flow(k, k'), TimersOk(tm'), tm'.current = tm.current
    PROVE  Running'
<1> DEFINE sc == Scenario[scn]
           t == k.cur
<1>1. t \in Task /\ k'.cur \in Task BY CurIsTask DEF SchedulerInv, Running, Calm
<1>2. /\ Calm(k) /\ Control(k, th, tm, sc) BY DEF SchedulerInv, Running
<1>3. Untouched(th[t], th'[t]) BY <1>1
<1>4. HeldByCurrent(k, th) /\ WaitsInCall(k, th) /\ CurrentRuns(k, th, sc) /\ MortalsDie(k, sc)
      /\ DaemonReady(th, tm, sc)
  BY <1>2 DEF Control
<1> HIDE DEF sc
<1>5. Leaving(sc, t, th'[t]) <=> Leaving(sc, t, th[t])
  BY <1>3 DEF Leaving, Untouched, CallAt
<1>6. /\ th'[t].then \in Afters
      /\ k'.cur = t => k'.sus = IF th'[t].pc \in Held THEN 1 ELSE 0
      /\ k'.cur # t => th'[t].pc \notin Held /\ k'.sus = 0 /\ Settled(k')
      /\ k'.nstate[t] = "waiting" => th'[t].pc = "taken"
  BY <1>1, <1>3, <1>4 DEF HeldByCurrent, WaitsInCall, Untouched, Flow
<1>7. k'.cur = t => Settled(k') \/ Leaving(sc, t, th'[t])
  BY <1>4, <1>5 DEF CurrentRuns, Flow
<1>8. MortalsDie(k', sc) BY <1>4, FlowMortals
<1>9. t \in Caller => /\ th'[t].pc = "obey" => th'[t].cmd.timer \in Timer
                      /\ Firing(th'[t]) => CallAt(sc, t, th'[t]).op = "timers"
                                           /\ tm'.current # <<>>
  BY <1>3, <1>4 DEF DaemonReady, Untouched, Firing, CallAt
<1>10. \A u \in Task \ {t} :
         Untouched(th[u], th'[u]) /\ (k'.nstate[u] = "waiting" => k.nstate[u] = "waiting")
  BY DEF Flow
<1> HIDE DEF t
<1>11. Control(k', th', tm', sc)
  BY <1>1, <1>2, <1>6, <1>7, <1>8, <1>9, <1>10, Steps DEF t
<1> QED BY <1>11 DEF Running, sc

\* A step of the current task that changes its own progress.
LEMMA Move ==
    ASSUME SchedulerInv, scn' = scn, NEW t, t = k.cur, NEW r, th' = [th EXCEPT ![t] = r],
           Calm(k'), TimersOk(tm'),
           \A u \in Task \ {t} : k'.nstate[u] = "waiting" => k.nstate[u] = "waiting",
           r.then \in Afters,
           k'.cur = t => k'.sus = IF r.pc \in Held THEN 1 ELSE 0,
           k'.cur # t => r.pc \notin Held /\ k'.sus = 0 /\ Settled(k'),
           k'.nstate[t] = "waiting" => r.pc = "taken",
           k'.cur = t => Settled(k') \/ Leaving(Scenario[scn], t, r),
           MortalsDie(k', Scenario[scn]),
           t \in Caller => /\ r.pc = "obey" => r.cmd.timer \in Timer
                           /\ Firing(r) => CallAt(Scenario[scn], t, r).op = "timers"
                                           /\ tm'.current # <<>>,
           \/ tm'.current = tm.current
           \/ \A u \in Caller \ {t} : ~Firing(th[u])
    PROVE  Running'
<1> DEFINE sc == Scenario[scn]
<1>1. t \in Task /\ k'.cur \in Task BY CurIsTask DEF SchedulerInv, Running, Calm
<1>2. DOMAIN th = Task BY DEF SchedulerInv, QueuesInv, Threads
<1>3. th'[t] = r /\ \A u \in Task \ {t} : Untouched(th[u], th'[u]) BY <1>1, <1>2 DEF Untouched
<1>4. Control(k, th, tm, sc) BY DEF SchedulerInv, Running
<1>5. \A u \in Task \ {t} :
         \/ Untouched(th[u], th'[u]) /\ (k'.nstate[u] = "waiting" => k.nstate[u] = "waiting")
         \/ Begun(th'[u]) /\ k'.nstate[u] # "waiting"
  BY <1>3
<1>6. /\ th'[t].then \in Afters
      /\ k'.cur = t => k'.sus = IF th'[t].pc \in Held THEN 1 ELSE 0
      /\ k'.cur # t => th'[t].pc \notin Held /\ k'.sus = 0 /\ Settled(k')
      /\ k'.nstate[t] = "waiting" => th'[t].pc = "taken"
      /\ k'.cur = t => Settled(k') \/ Leaving(sc, t, th'[t])
      /\ MortalsDie(k', sc)
      /\ t \in Caller => /\ th'[t].pc = "obey" => th'[t].cmd.timer \in Timer
                         /\ Firing(th'[t]) => CallAt(sc, t, th'[t]).op = "timers"
                                              /\ tm'.current # <<>>
  BY <1>3
<1>7. \/ tm'.current = tm.current
      \/ \A u \in Caller \ {t} : ~Firing(th[u])
  OBVIOUS
<1> HIDE DEF sc
<1>8. Control(k', th', tm', sc) BY ONLY <1>1, <1>4, <1>5, <1>6, <1>7, Steps, t = k.cur
<1> QED BY <1>8 DEF Running, sc

\* What is known of the kernel where the current task is.
LEMMA AtFree ==
    ASSUME SchedulerInv, NEW t, t = k.cur, th[t].pc \notin Held \union {"yield", "parked"}
    PROVE  /\ t \in Task /\ k.sus = 0 /\ Settled(k) /\ KernelOk(k) /\ Calm(k) /\ NonePending(k)
           /\ k.nstate[t] = "waiting" => th[t].pc = "taken"
<1>1. KernelOk(k) /\ Calm(k) BY DEF SchedulerInv, Running, Calm
<1>2. t \in Task BY <1>1, CurIsTask
<1>3. k.sus = 0 BY DEF SchedulerInv, Running, Control, HeldByCurrent
<1>4. Settled(k) BY DEF SchedulerInv, Running, Control, CurrentRuns, Leaving, Held
<1>5. k.nstate[t] = "waiting" => th[t].pc = "taken"
  BY <1>2 DEF SchedulerInv, Running, Control, WaitsInCall
<1> QED BY <1>1, <1>2, <1>3, <1>4, <1>5 DEF Calm

LEMMA AtHeld ==
    ASSUME SchedulerInv, NEW t, t = k.cur, th[t].pc \in Held
    PROVE  /\ t \in Task /\ k.sus = 1 /\ KernelOk(k) /\ Calm(k)
           /\ k.nstate[t] # "waiting" /\ th[t].then \in Afters
           /\ Settled(k) \/ (th[t].pc \in {"unlock", "resume"} /\ th[t].yield)
<1>1. KernelOk(k) /\ Calm(k) BY DEF SchedulerInv, Running, Calm
<1>2. t \in Task BY <1>1, CurIsTask
<1>3. k.sus = 1 BY DEF SchedulerInv, Running, Control, HeldByCurrent
<1>4. Settled(k) \/ (th[t].pc \in {"unlock", "resume"} /\ th[t].yield)
  BY DEF SchedulerInv, Running, Control, CurrentRuns, Leaving, Held
<1>5. k.nstate[t] # "waiting" /\ th[t].then \in Afters
  BY <1>2 DEF SchedulerInv, Running, Control, WaitsInCall, Held
<1> QED BY <1>1, <1>2, <1>3, <1>4, <1>5

\* The task goes on with the scheduler running, or returns.
Resting(r) == r.pc \notin Held \union {"obey", "fire", "yield"} /\ r.then \in Afters
LEMMA FreeMove ==
    ASSUME SchedulerInv, scn' = scn, NEW t, t = k.cur, NEW r, th' = [th EXCEPT ![t] = r],
           th[t].pc \notin Held \union {"yield", "parked", "taken"}, Resting(r),
           Calm(k'), Flow(k, k'), TimersOk(tm'), tm'.current = tm.current
    PROVE  Running'
<1>1. k.sus = 0 /\ Settled(k) /\ k.nstate[t] # "waiting" /\ t \in Task BY AtFree
<1>2. MortalsDie(k', Scenario[scn]) BY FlowMortals DEF SchedulerInv, Running, Control
<1>3. ~Firing(r) BY DEF Resting, Firing, Held
<1>4. /\ r.then \in Afters /\ r.pc \notin Held /\ r.pc # "obey" BY DEF Resting
<1>5. /\ \A u \in Task \ {t} : k'.nstate[u] = "waiting" => k.nstate[u] = "waiting"
      /\ k'.sus = 0 /\ k'.nstate[t] # "waiting" /\ Settled(k')
  BY <1>1 DEF Flow
<1> QED BY <1>2, <1>3, <1>4, <1>5, Move

\* The task goes on with the scheduler suspended.
LEMMA HoldMove ==
    ASSUME SchedulerInv, scn' = scn, NEW t, t = k.cur, NEW r, th' = [th EXCEPT ![t] = r],
           k.nstate[t] # "waiting", r.pc \in Held, r.then \in Afters,
           KernelOk(k'), k'.cur = t, k'.sus = 1,
           \A u \in Task : k'.nstate[u] = "waiting" => k.nstate[u] = "waiting",
           \A u \in Task : Alive(k, u) => Alive(k', u),
           Settled(k') \/ (r.pc \in {"unlock", "resume"} /\ r.yield),
           Firing(r) => Firing(th[t]) /\ r.ip = th[t].ip,
           TimersOk(tm'), tm'.current = tm.current
    PROVE  Running'
<1>1. t \in Task BY CurIsTask DEF SchedulerInv, Running, Calm
<1>2. Calm(k') BY DEF Calm
<1>3. MortalsDie(k', Scenario[scn]) BY DEF SchedulerInv, Running, Control, MortalsDie
<1>4. Settled(k') \/ Leaving(Scenario[scn], t, r) BY DEF Leaving
<1>5. t \in Caller => /\ r.pc = "obey" => r.cmd.timer \in Timer
                      /\ Firing(r) => CallAt(Scenario[scn], t, r).op = "timers"
                                      /\ tm'.current # <<>>
  BY DEF SchedulerInv, Running, Control, DaemonReady, CallAt, Held
<1> QED BY <1>1, <1>2, <1>3, <1>4, <1>5, Move

\* A call returns.
LEMMA Returned ==
    ASSUME SchedulerInv, scn' = scn, NEW t, t = k.cur, NEW res, NEW cmd, ReturnWith(t, res, cmd),
           th[t].pc \notin Held \union {"yield", "parked", "taken"},
           Calm(k'), Flow(k, k'), TimersOk(tm'), tm'.current = tm.current
    PROVE  Running'
<1> DEFINE r == [Start(Following(t, res), res, th[t].last) EXCEPT !.cmd = cmd]
<1>1. th' = [th EXCEPT ![t] = r] BY DEF ReturnWith
<1>2. r.pc = "try" /\ r.then = "try" BY DEF Start
<1> HIDE DEF r
<1>3. Resting(r) BY <1>2 DEF Resting, Held, Afters
<1> QED BY <1>1, <1>3, FreeMove

\* A call cannot be served.
LEMMA Blocked1 ==
    ASSUME SchedulerInv, scn' = scn, NEW t, t = k.cur, t \in Caller, Block(t),
           th[t].pc \notin Held \union {"yield", "parked", "taken"}, tm' = tm
    PROVE  Running'
<1>1. k' = k BY DEF Block
<1>2. Calm(k') /\ Flow(k, k') /\ TimersOk(tm')
  BY <1>1, FlowStays DEF SchedulerInv, Running
<1>3. CASE Return(t, "failed") BY <1>2, <1>3, Returned DEF Return
<1>4. DOMAIN th[t] = ThreadFields /\ th[t].then \in Afters
  BY DEF SchedulerInv, QueuesInv, Threads, Running, Control, WaitsInCall, Caller
<1>5. CASE th' = [th EXCEPT ![t].pc = "suspend"]
  <2> DEFINE r == [th[t] EXCEPT !.pc = "suspend"]
  <2>1. th' = [th EXCEPT ![t] = r] BY <1>5
  <2>2. r.pc = "suspend" /\ r.then = th[t].then BY <1>4 DEF ThreadFields
  <2> HIDE DEF r
  <2>3. Resting(r) BY <1>4, <2>2 DEF Resting, Held
  <2> QED BY <1>2, <2>1, <2>3, FreeMove
<1>6. CASE th' = [th EXCEPT ![t] = [@ EXCEPT !.pc = "suspend", !.set = TRUE,
                                       !.at = k.tick, !.ovf = k.ovf, !.wait = Call(t).wait]]
  <2> DEFINE r == [th[t] EXCEPT !.pc = "suspend", !.set = TRUE,
                                !.at = k.tick, !.ovf = k.ovf, !.wait = Call(t).wait]
  <2>1. th' = [th EXCEPT ![t] = r] BY <1>6
  <2>2. r.pc = "suspend" /\ r.then = th[t].then BY <1>4 DEF ThreadFields
  <2> HIDE DEF r
  <2>3. Resting(r) BY <1>4, <2>2 DEF Resting, Held
  <2> QED BY <1>2, <2>1, <2>3, FreeMove
<1> QED BY <1>3, <1>5, <1>6 DEF Block

----------------------------------------------------------------------------
(* The calls of the queues.                                                *)

\* The sets that queues are members of.
LEMMA MemberOf ==
    ASSUME QueuesInv, NEW c \in Channels
    PROVE  /\ DOMAIN queue = Queue /\ c \in Queue /\ DOMAIN queue[c] = QueueFields
           /\ queue[c].set \in Channels \union {Null}
           /\ queue[c].tx \in Locks /\ queue[c].rx \in Locks
BY DEF QueuesInv, AllSound, Sound, Channels

LEMMA CopiedSet ==
    ASSUME QueuesInv, NEW c \in Channels, NEW v, NEW pos
    PROVE  [queue EXCEPT ![c] = CopyTo(c, v, pos)][c].set \in Channels \union {Null}
<1>1. DOMAIN queue = Queue /\ c \in Queue /\ DOMAIN queue[c] = QueueFields
      /\ queue[c].set \in Channels \union {Null}
  BY MemberOf
<1>2. CopyTo(c, v, pos).set = queue[c].set BY <1>1 DEF CopyTo, AtFront, AtBack, QueueFields
<1> QED BY <1>1, <1>2

\* Where a call starts, the scheduler runs, and so does the task.
LEMMA AtStart ==
    ASSUME SchedulerInv, NEW where, NEW ops, At(where, ops),
           where \notin Held \union {"yield", "parked"}
    PROVE  /\ QueuesInv /\ k.cur \in Caller /\ k.cur \in Task /\ th[k.cur].pc = where
           /\ DOMAIN th[k.cur] = ThreadFields /\ Call(k.cur).op \in ops
           /\ k.sus = 0 /\ Settled(k) /\ Calm(k) /\ KernelOk(k) /\ NonePending(k)
           /\ TimersOk(tm) /\ Flow(k, k)
           /\ k.nstate[k.cur] = "waiting" => where = "taken"
<1>1. QueuesInv /\ TimersOk(tm) BY DEF SchedulerInv, Running
<1>2. th[k.cur].pc = where BY DEF At
<1>3. /\ k.cur \in Caller /\ k.cur \in Task /\ DOMAIN th[k.cur] = ThreadFields
      /\ Call(k.cur).op \in ops
  BY <1>1, Making
<1> QED BY <1>1, <1>2, <1>3, AtFree, FlowStays

\* A call that returns at once, whatever it does to the lists.
LEMMA Done ==
    ASSUME SchedulerInv, scn' = scn, tm' = tm, NEW where, NEW ops, At(where, ops),
           where \notin Held \union {"yield", "parked", "taken"},
           NEW res, NEW cmd, ReturnWith(k.cur, res, cmd), Calm(k'), Flow(k, k')
    PROVE  Running'
<1>1. th[k.cur].pc = where /\ TimersOk(tm') BY AtStart DEF SchedulerInv, Running
<1> QED BY <1>1, Returned

LEMMA Waiting ==
    ASSUME SchedulerInv, scn' = scn, tm' = tm, NEW ops, At("try", ops), Block(k.cur)
    PROVE  Running'
<1>1. th[k.cur].pc = "try" /\ k.cur \in Caller BY AtStart DEF Held
<1> QED BY <1>1, Blocked1 DEF Held

LEMMA TrySendRuns == ASSUME SchedulerInv, TrySend PROVE Running'
<1> DEFINE t == k.cur
           c == Obj(t)
           over == Call(t).op = "overwrite"
           qs == [queue EXCEPT ![c] = CopyTo(c, Call(t).v, Call(t).op)]
           u == Sent(Given(c), qs, c, over)
<1>1. At("try", Sending) /\ scn' = scn /\ tm' = tm BY DEF TrySend
<1>2. QueuesInv /\ Calm(k) /\ KernelOk(k) /\ t \in Task BY <1>1, AtStart DEF Held
<1>3. c \in Channels BY <1>1, <1>2, Object DEF QueueOps
<1>4. CASE Block(t) BY <1>1, <1>4, Waiting
<1>5. CASE Effect(u) /\ Return(t, "ok")
  <2>1. KernelOk(Given(c).k) /\ Flow(k, Given(c).k) BY <1>2, GivenIs
  <2>2. qs[c].set \in Channels \union {Null} BY <1>2, <1>3, CopiedSet
  <2> HIDE DEF qs
  <2>3. KernelOk(u.k) /\ Flow(k, u.k) BY <1>3, <2>1, <2>2, SentIs
  <2>4. k' = YieldNow(u) BY <1>5 DEF Effect
  <2> HIDE DEF u
  <2>5. Calm(k') /\ Flow(k, k') BY <1>2, <2>3, <2>4, YieldNowIs
  <2> QED BY <1>1, <1>5, <2>5, Done DEF Held, Return
<1> QED BY <1>4, <1>5 DEF TrySend

\* A call frees a place, or shows an item, and returns.
LEMMA FreedDone ==
    ASSUME SchedulerInv, scn' = scn, tm' = tm, NEW ops, At("try", ops),
           NEW k1, KernelOk(k1), Flow(k, k1), NEW l \in EventList \union {Pend},
           k' = YieldNow(UnblockFirst(k1, l)), NEW res, NEW cmd, ReturnWith(k.cur, res, cmd)
    PROVE  Running'
<1>1. Calm(k) BY DEF SchedulerInv, Running
<1>2. Calm(k') /\ Flow(k, k') BY <1>1, FreedIs
<1> QED BY <1>2, Done DEF Held

LEMMA TryReceiveRuns == ASSUME SchedulerInv, TryReceive PROVE Running'
<1> DEFINE t == k.cur
           c == Obj(t)
<1>1. At("try", {"receive", "select"}) /\ scn' = scn /\ tm' = tm BY DEF TryReceive
<1>2. QueuesInv /\ KernelOk(k) /\ Flow(k, k) BY <1>1, AtStart DEF Held
<1>3. c \in Queue BY <1>1, <1>2, Object DEF QueueOps, Receiving, Channels
<1>4. CASE Block(t) BY <1>1, <1>4, Waiting
<1>5. CASE Freed(k, c) /\ (ReturnWith(t, "ok", CopyFrom(c).item) \/ Return(t, CopyFrom(c).item))
  <2>1. Tx(c) \in EventList \union {Pend} BY <1>3, Handles
  <2>2. k' = YieldNow(UnblockFirst(k, Tx(c))) BY <1>5 DEF Freed
  <2>3. CASE ReturnWith(t, "ok", CopyFrom(c).item) BY <1>1, <1>2, <2>1, <2>2, <2>3, FreedDone
  <2>4. CASE ReturnWith(t, CopyFrom(c).item, Null) BY <1>1, <1>2, <2>1, <2>2, <2>4, FreedDone
  <2> QED BY <1>5, <2>3, <2>4 DEF Return
<1> QED BY <1>4, <1>5 DEF TryReceive

LEMMA TryTakeRuns == ASSUME SchedulerInv, TryTake PROVE Running'
<1> DEFINE t == k.cur
           c == Obj(t)
           k1 == [k EXCEPT !.held[t] = @ + 1]
<1>1. At("try", {"take", "retake"}) /\ scn' = scn /\ tm' = tm BY DEF TryTake
<1>2. QueuesInv /\ KernelOk(k) /\ Flow(k, k) BY <1>1, AtStart DEF Held
<1>3. c \in Queue BY <1>1, <1>2, Object DEF QueueOps, Receiving, Channels
<1>4. CASE Block(t) BY <1>1, <1>4, Waiting
<1>5. CASE Freed(IF IsMutex(c) THEN k1 ELSE k, c) /\ Return(t, "ok")
  <2>1. Tx(c) \in EventList \union {Pend} BY <1>3, Handles
  <2>2. SameBut(k, k1, Plain) BY <1>2 DEF KernelOk, KernelTypes, KernelFields, SameBut, Plain
  <2> HIDE DEF k1
  <2>3. KernelOk(k1) /\ Flow(k, k1) BY <1>2, <2>2, PlainChange
  <2> DEFINE k2 == IF IsMutex(c) THEN k1 ELSE k
  <2>4. k' = YieldNow(UnblockFirst(k2, Tx(c))) BY <1>5 DEF Freed
  <2>5. KernelOk(k2) /\ Flow(k, k2) BY <1>2, <2>3
  <2>6. ReturnWith(t, "ok", Null) BY <1>5 DEF Return
  <2> HIDE DEF k2
  <2> QED BY <1>1, <2>1, <2>4, <2>5, <2>6, FreedDone
<1> QED BY <1>4, <1>5 DEF TryTake

LEMMA TryPeekRuns == ASSUME SchedulerInv, TryPeek PROVE Running'
<1> DEFINE c == Obj(k.cur)
<1>1. At("try", {"peek"}) /\ scn' = scn /\ tm' = tm BY DEF TryPeek
<1>2. QueuesInv /\ KernelOk(k) /\ Flow(k, k) BY <1>1, AtStart DEF Held
<1>3. c \in Queue BY <1>1, <1>2, Object DEF QueueOps, Receiving, Channels
<1>4. CASE Block(k.cur) BY <1>1, <1>4, Waiting
<1>5. CASE k' = YieldNow(UnblockFirst(k, Rx(c))) /\ Return(k.cur, CopyFrom(c).item)
  <2>1. Rx(c) \in EventList \union {Pend} BY <1>3, Handles
  <2> QED BY <1>1, <1>2, <1>5, <2>1, FreedDone DEF Return
<1> QED BY <1>4, <1>5 DEF TryPeek

\* A call that changes no list returns.
LEMMA OnlyReturns ==
    ASSUME SchedulerInv, UNCHANGED <<k, tm, scn>>, NEW where, NEW ops, At(where, ops),
           where \notin Held \union {"yield", "parked", "taken"},
           NEW res, Return(k.cur, res)
    PROVE  Running'
<1>1. Calm(k') /\ Flow(k, k') BY FlowStays DEF SchedulerInv, Running
<1> QED BY <1>1, Done DEF Return

LEMMA SimpleCalls ==
    ASSUME SchedulerInv,
           TakeAgain \/ GiveAgain \/ Refused \/ AddToSet \/ LeftSet \/ Awake \/ ClearEvents
    PROVE  Running'
<1>1. CASE TakeAgain BY <1>1, OnlyReturns DEF TakeAgain, Held
<1>2. CASE GiveAgain
  <2>1. PICK res : Return(k.cur, res) BY <1>2 DEF GiveAgain
  <2>2. At("try", {"regive"}) /\ UNCHANGED <<k, tm, scn>> BY <1>2 DEF GiveAgain
  <2> QED BY <2>1, <2>2, OnlyReturns DEF Held
<1>3. CASE Refused BY <1>3, OnlyReturns DEF Refused, Held
<1>4. CASE AddToSet
  <2>1. PICK res : Return(k.cur, res) BY <1>4 DEF AddToSet
  <2>2. At("try", {"join"}) /\ UNCHANGED <<k, tm, scn>> BY <1>4 DEF AddToSet
  <2> QED BY <2>1, <2>2, OnlyReturns DEF Held
<1>5. CASE LeftSet BY <1>5, OnlyReturns DEF LeftSet, Held
<1>6. CASE Awake BY <1>6, OnlyReturns DEF Awake, Held
<1>7. CASE ClearEvents BY <1>7, OnlyReturns DEF ClearEvents, Held
<1> QED BY <1>1, <1>2, <1>3, <1>4, <1>5, <1>6, <1>7

\* A call that changes no list goes on.
LEMMA GoesOnly ==
    ASSUME SchedulerInv, k' = k, tm' = tm, scn' = scn, NEW where, NEW ops, At(where, ops),
           where \notin Held \union {"yield", "parked", "taken"},
           NEW r, th' = [th EXCEPT ![k.cur] = r], r.then = th[k.cur].then,
           r.pc \notin Held \union {"obey", "fire", "yield"}
    PROVE  Running'
<1>1. Calm(k') /\ Flow(k, k') /\ TimersOk(tm') /\ tm'.current = tm.current /\ scn' = scn
  BY FlowStays DEF SchedulerInv, Running
<1>2. th[k.cur].pc = where /\ k.cur \in Task BY AtStart
<1>3. th[k.cur].then \in Afters BY <1>2 DEF SchedulerInv, Running, Control, WaitsInCall
<1>4. Resting(r) BY <1>3 DEF Resting
<1>5. th[k.cur].pc \notin Held \union {"yield", "parked", "taken"} BY <1>2
<1>6. th' = [th EXCEPT ![k.cur] = r] OBVIOUS
<1>7. Running' BY ONLY SchedulerInv, <1>1, <1>4, <1>5, <1>6, FreeMove
<1> QED BY <1>7

\* Where such a call goes on.
LEMMA GoesOn ==
    /\ {"try", "undo", "leave", "post", "suspend"} \cap (Held \union {"obey", "fire", "yield"}) = {}
    /\ {"try", "recheck"} \cap (Held \union {"yield", "parked", "taken"}) = {}
BY DEF Held

LEMMA OtherCalls == ASSUME SchedulerInv, Recheck \/ LeaveSet \/ Command PROVE Running'
<1>1. CASE Recheck
  <2> DEFINE t == k.cur
             r == [th[t] EXCEPT !.pc = IF IsEmpty(Obj(t)) THEN "undo" ELSE "try"]
  <2>1. At("recheck", Receiving) /\ k' = k /\ tm' = tm /\ scn' = scn
    BY <1>1 DEF Recheck
  <2>2. DOMAIN th[t] = ThreadFields BY <2>1, AtStart DEF Held
  <2>3. CASE Return(t, "failed") BY <2>1, <2>3, OnlyReturns DEF Held
  <2>4. CASE th' = [th EXCEPT ![t] = r]
    <3>1. r.pc \in {"undo", "try"} /\ r.then = th[t].then BY <2>2 DEF ThreadFields
    <3> HIDE DEF r
    <3>2. r.pc \notin Held \union {"obey", "fire", "yield"} BY <3>1, GoesOn
    <3>3. "recheck" \notin Held \union {"yield", "parked", "taken"} BY GoesOn
    <3>4. Running' BY ONLY SchedulerInv, <2>1, <2>4, <3>1, <3>2, <3>3, GoesOnly
    <3> QED BY <3>4
  <2> QED BY <1>1, <2>3, <2>4 DEF Recheck
<1>2. CASE LeaveSet
  <2> DEFINE t == k.cur
             r == [th[t] EXCEPT !.pc = "leave"]
  <2>1. At("try", {"leave"}) /\ k' = k /\ tm' = tm /\ scn' = scn BY <1>2 DEF LeaveSet
  <2>2. DOMAIN th[t] = ThreadFields BY <2>1, AtStart DEF Held
  <2>3. CASE Return(t, "failed") BY <2>1, <2>3, OnlyReturns DEF Held
  <2>4. CASE th' = [th EXCEPT ![t] = r]
    <3>1. r.pc = "leave" /\ r.then = th[t].then BY <2>2 DEF ThreadFields
    <3> HIDE DEF r
    <3>2. r.pc \notin Held \union {"obey", "fire", "yield"} BY <3>1, GoesOn
    <3>3. "try" \notin Held \union {"yield", "parked", "taken"} BY GoesOn
    <3>4. Running' BY ONLY SchedulerInv, <2>1, <2>4, <3>1, <3>2, <3>3, GoesOnly
    <3> QED BY <3>4
  <2> QED BY <1>2, <2>3, <2>4 DEF LeaveSet
<1>3. CASE Command
  <2> DEFINE r == [th[k.cur] EXCEPT !.pc = "post", !.at = k.tick]
  <2>1. At("try", {"command"}) /\ k' = k /\ tm' = tm /\ scn' = scn
    BY <1>3 DEF Command
  <2>2. DOMAIN th[k.cur] = ThreadFields BY <2>1, AtStart DEF Held
  <2>3. th' = [th EXCEPT ![k.cur] = r] BY <1>3 DEF Command
  <2>4. r.pc = "post" /\ r.then = th[k.cur].then BY <2>2 DEF ThreadFields
  <2> HIDE DEF r
  <2>5. r.pc \notin Held \union {"obey", "fire", "yield"} BY <2>4, GoesOn
  <2>6. "try" \notin Held \union {"yield", "parked", "taken"} BY GoesOn
  <2>7. Running' BY ONLY SchedulerInv, <2>1, <2>3, <2>4, <2>5, <2>6, GoesOnly
  <2> QED BY <2>7
<1> QED BY <1>1, <1>2, <1>3

----------------------------------------------------------------------------
(* The way of a call that waits.                                           *)

\* A task in a call that has the scheduler suspended.
LEMMA AtHold ==
    ASSUME SchedulerInv, NEW where \in Held, NEW ops, At(where, ops)
    PROVE  /\ QueuesInv /\ k.cur \in Caller /\ k.cur \in Task /\ k.cur # Idle
           /\ th[k.cur].pc = where /\ th[k.cur].pc \in Held /\ th[k.cur].then \in Afters
           /\ DOMAIN th[k.cur] = ThreadFields /\ Call(k.cur).op \in ops
           /\ k.sus = 1 /\ Calm(k) /\ KernelOk(k) /\ TimersOk(tm) /\ Flow(k, k)
           /\ k.nstate[k.cur] # "waiting"
           /\ Settled(k) \/ (where \in {"unlock", "resume"} /\ th[k.cur].yield)
<1>1. QueuesInv /\ TimersOk(tm) BY DEF SchedulerInv, Running
<1>2. th[k.cur].pc = where BY DEF At
<1>3. /\ k.cur \in Caller /\ k.cur \in Task /\ DOMAIN th[k.cur] = ThreadFields
      /\ Call(k.cur).op \in ops
  BY <1>1, Making
<1>4. k.cur # Idle BY <1>3 DEF Caller
<1>5. th[k.cur].pc \in Held BY <1>2
<1>6. /\ k.sus = 1 /\ KernelOk(k) /\ Calm(k) /\ k.nstate[k.cur] # "waiting"
      /\ th[k.cur].then \in Afters
      /\ Settled(k) \/ (th[k.cur].pc \in {"unlock", "resume"} /\ th[k.cur].yield)
  BY <1>5, AtHeld
<1> QED BY <1>1, <1>2, <1>3, <1>4, <1>5, <1>6, FlowStays

\* What flows while the scheduler is suspended.
LEMMA FlowHeld ==
    ASSUME NEW kk, NEW k2, kk.sus = 1, Flow(kk, k2)
    PROVE  /\ k2.sus = 1 /\ k2.cur = kk.cur
           /\ \A u \in Task : k2.nstate[u] = "waiting" => kk.nstate[u] = "waiting"
           /\ \A u \in Task : Alive(kk, u) => Alive(k2, u)
           /\ Settled(kk) => Settled(k2)
<1>1. k2.cur = kk.cur BY DEF Flow
<1>2. \A u \in Task : Alive(kk, u) => Alive(k2, u) BY FlowAlive
<1> QED BY <1>1, <1>2 DEF Flow

LEMMA HoldFlow ==
    ASSUME SchedulerInv, scn' = scn, NEW t, t = k.cur, NEW r, th' = [th EXCEPT ![t] = r],
           k.sus = 1, k.nstate[t] # "waiting", r.pc \in Held, r.then \in Afters,
           KernelOk(k'), Flow(k, k'),
           Settled(k) \/ (r.pc \in {"unlock", "resume"} /\ r.yield),
           Firing(r) => Firing(th[t]) /\ r.ip = th[t].ip,
           TimersOk(tm'), tm'.current = tm.current
    PROVE  Running'
<1>1. /\ k'.sus = 1 /\ k'.cur = t
      /\ \A u \in Task : k'.nstate[u] = "waiting" => k.nstate[u] = "waiting"
      /\ \A u \in Task : Alive(k, u) => Alive(k', u)
      /\ Settled(k) => Settled(k')
  BY FlowHeld
<1>2. Settled(k') \/ (r.pc \in {"unlock", "resume"} /\ r.yield) BY <1>1
<1> QED BY <1>1, <1>2, HoldMove

LEMMA SuspendRuns == ASSUME SchedulerInv, Suspend PROVE Running'
<1> DEFINE t == k.cur
           r == [th[t] EXCEPT !.pc = "lock"]
<1>1. /\ At("suspend", QueueOps) /\ scn' = scn /\ tm' = tm /\ k' = SuspendAll(k)
      /\ th' = [th EXCEPT ![t] = r]
  BY DEF Suspend
<1>2. /\ t \in Task /\ DOMAIN th[t] = ThreadFields /\ KernelOk(k) /\ k.sus = 0 /\ Settled(k)
      /\ k.nstate[t] # "waiting" /\ TimersOk(tm)
  BY <1>1, AtStart DEF Held
<1>3. th[t].then \in Afters BY <1>2 DEF SchedulerInv, Running, Control, WaitsInCall
<1>4. r.pc = "lock" /\ r.then \in Afters BY <1>2, <1>3 DEF ThreadFields
<1> HIDE DEF r
<1>5. r.pc \in Held /\ ~Firing(r) BY <1>4 DEF Held, Firing
<1>6. /\ KernelOk(k') /\ k'.sus = 1 /\ k'.cur = t /\ k'.nstate = k.nstate /\ Settled(k')
      /\ \A u, x : x \in Places => (IsAt(k', u, x) <=> IsAt(k, u, x))
  BY <1>1, <1>2, SuspendAllIs
<1>7. \A u \in Task : Alive(k, u) => Alive(k', u) BY <1>6 DEF Alive, Places
<1>8. \A u \in Task : k'.nstate[u] = "waiting" => k.nstate[u] = "waiting" BY <1>6
<1>9. TimersOk(tm') /\ tm'.current = tm.current BY <1>1, <1>2
<1>10. Running' BY <1>1, <1>2, <1>4, <1>5, <1>6, <1>7, <1>8, <1>9, HoldMove
<1> QED BY <1>10

LEMMA LockRuns == ASSUME SchedulerInv, Lock PROVE Running'
<1> DEFINE t == k.cur
           x == CheckForTimeOut(k, th[t].at, th[t].ovf, th[t].wait)
           r == [th[t] EXCEPT !.at = x.at, !.ovf = x.ovf, !.wait = x.wait,
                              !.pc = IF x.expired THEN "unlock" ELSE "test",
                              !.then = IF ~x.expired THEN "try"
                                       ELSE IF Waits(t) THEN "recheck"
                                       ELSE "refused",
                              !.cut = th[t].cut \/ t \in k.aborted]
<1>1. /\ At("lock", QueueOps) /\ scn' = scn /\ tm' = tm
      /\ k' = [k EXCEPT !.aborted = @ \ {t}]
      /\ th' = [th EXCEPT ![t] = r]
  BY DEF Lock
<1>2. "lock" \in Held BY DEF Held
<1>3. /\ t \in Task /\ DOMAIN th[t] = ThreadFields /\ KernelOk(k) /\ k.sus = 1 /\ Settled(k)
      /\ k.nstate[t] # "waiting" /\ TimersOk(tm)
  BY <1>1, <1>2, AtHold
<1> HIDE DEF x
<1>4. r.pc \in {"unlock", "test"} /\ r.then \in {"try", "recheck", "refused"}
  BY <1>3 DEF ThreadFields
<1> HIDE DEF r
<1>5. r.pc \in Held /\ ~Firing(r) /\ r.then \in Afters BY <1>4 DEF Held, Firing, Afters
<1>6. SameBut(k, k', Plain) BY <1>1, <1>3 DEF SameBut, Plain, KernelOk, KernelTypes, KernelFields
<1>7. KernelOk(k') /\ Flow(k, k') BY <1>3, <1>6, PlainChange
<1>8. TimersOk(tm') /\ tm'.current = tm.current BY <1>1, <1>3
<1>9. Running' BY <1>1, <1>3, <1>5, <1>7, <1>8, HoldFlow
<1> QED BY <1>9

LEMMA TestRuns == ASSUME SchedulerInv, Test PROVE Running'
<1> DEFINE t == k.cur
           c == Obj(t)
           h == IF IsMutex(c) THEN PriorityInherit(k, queue[c].holder)
                ELSE [k |-> k, inherited |-> FALSE]
           stuck == IF Waits(t) THEN IsEmpty(c) ELSE IsFull(c)
           l == IF Waits(t) THEN Rx(c) ELSE Tx(c)
           r == [th[t] EXCEPT !.pc = "unlock", !.yield = stuck,
                              !.inherited = IF stuck THEN h.inherited ELSE th[t].inherited]
<1>1. /\ At("test", QueueOps) /\ scn' = scn /\ tm' = tm
      /\ k' = IF stuck THEN PlaceOnEventList(h.k, l, th[t].wait) ELSE k
      /\ th' = [th EXCEPT ![t] = r]
  BY DEF Test
<1>2. "test" \in Held BY DEF Held
<1>3. /\ QueuesInv /\ t \in Task /\ t # Idle /\ DOMAIN th[t] = ThreadFields /\ KernelOk(k)
      /\ k.sus = 1 /\ Settled(k) /\ k.nstate[t] # "waiting" /\ TimersOk(tm) /\ Flow(k, k)
      /\ th[t].then \in Afters /\ th[t].pc = "test"
  BY <1>1, <1>2, AtHold
<1>4. c \in Queue BY <1>1, <1>3, Object DEF Channels
<1>5. l \in EventList /\ l # Pend BY <1>4, Handles
<1>6. KernelOk(h.k) /\ Flow(k, h.k) BY <1>3, InheritIs
<1> HIDE DEF h, l, stuck, c
<1>7. r.pc = "unlock" /\ r.yield = stuck /\ r.then = th[t].then /\ r.ip = th[t].ip
  BY <1>3 DEF ThreadFields
<1> HIDE DEF r
<1>8. r.pc \in Held /\ r.then \in Afters /\ (Firing(r) => Firing(th[t]))
  BY <1>3, <1>7 DEF Held, Firing
<1>9. TimersOk(tm') /\ tm'.current = tm.current BY <1>1, <1>3
<1>10. CASE stuck
  <2>1. /\ h.k.sus = 1 /\ h.k.cur = t /\ Settled(h.k)
        /\ \A u \in Task : h.k.nstate[u] = "waiting" => k.nstate[u] = "waiting"
        /\ \A u \in Task : Alive(k, u) => Alive(h.k, u)
    BY <1>3, <1>6, FlowHeld
  <2> DEFINE k1 == h.k
  <2>2. k' = PlaceOnEventList(k1, l, th[t].wait) BY <1>1, <1>10
  <2>3. KernelOk(k1) /\ Settled(k1) /\ k1.cur # Idle BY <1>3, <1>6, <2>1
  <2> HIDE DEF k1
  <2>4. KernelOk(k') /\ Slept(k1, k') BY <1>5, <2>2, <2>3, PlaceIs
  <2>5. k'.cur = k1.cur /\ k'.sus = k1.sus /\ k'.nstate = k1.nstate BY <2>4 DEF Slept
  <2>6. \A u \in Task : Alive(k1, u) => Alive(k', u) BY <2>4 DEF Slept, Alive
  <2>7. k'.cur = t /\ k'.sus = 1 BY <2>1, <2>5 DEF k1
  <2>8. /\ \A u \in Task : k'.nstate[u] = "waiting" => k.nstate[u] = "waiting"
        /\ \A u \in Task : Alive(k, u) => Alive(k', u)
    BY <2>1, <2>5, <2>6 DEF k1
  <2>9. r.pc \in {"unlock", "resume"} /\ r.yield BY <1>7, <1>10
  <2>10. Running' BY <1>1, <1>3, <1>7, <1>8, <1>9, <2>4, <2>7, <2>8, <2>9, HoldMove
  <2> QED BY <2>10
<1>11. CASE ~stuck
  <2>1. KernelOk(k') /\ Flow(k, k') BY <1>1, <1>3, <1>11
  <2>2. Running' BY <1>1, <1>3, <1>7, <1>8, <1>9, <2>1, HoldFlow
  <2> QED BY <2>2
<1> QED BY <1>10, <1>11

LEMMA UnlockRuns == ASSUME SchedulerInv, Unlock PROVE Running'
<1> DEFINE t == k.cur
           c == Obj(t)
           s0 == [k |-> k, queue |-> queue]
           s == ToldAll(s0, c, queue[c].tx)
           r == [th[t] EXCEPT !.pc = "resume"]
<1>1. /\ At("unlock", QueueOps) /\ scn' = scn /\ tm' = tm
      /\ k' = Released(s.k, Tx(c), queue[c].rx)
      /\ th' = [th EXCEPT ![t] = r]
  BY DEF Unlock, Unlocking
<1>2. "unlock" \in Held BY DEF Held
<1>3. /\ QueuesInv /\ t \in Task /\ DOMAIN th[t] = ThreadFields /\ KernelOk(k)
      /\ k.sus = 1 /\ k.nstate[t] # "waiting" /\ TimersOk(tm)
      /\ th[t].then \in Afters /\ th[t].pc = "unlock"
      /\ Settled(k) \/ th[t].yield
  BY <1>1, <1>2, AtHold
<1>4. c \in Channels BY <1>1, <1>3, Object
<1>5. queue[c].tx \in Locks /\ queue[c].rx \in Locks BY <1>3, <1>4, MemberOf
<1>6. KernelOk(s.k) /\ Flow(k, s.k)
  <2>1. AllSound(s0.queue, Scenario[scn].type) /\ KernelOk(s0.k) BY <1>3 DEF QueuesInv
  <2>2. s0.k = k OBVIOUS
  <2> HIDE DEF s0
  <2> QED BY <1>4, <1>5, <2>1, <2>2, ToldAllRuns
<1>7. Tx(c) \in EventList BY <1>4, Handles DEF Channels
<1> HIDE DEF s, c
<1> DEFINE k1 == s.k
           lock == queue[c].rx
<1>8. k' = Released(k1, Tx(c), lock) /\ KernelOk(k1) /\ Flow(k, k1) BY <1>1, <1>6
<1>9. lock \in Nat \union {Unlocked} BY <1>5 DEF Locks
<1> HIDE DEF k1, lock
<1>10. KernelOk(k') /\ Flow(k1, k') BY <1>7, <1>8, <1>9, ReleasedIs
<1>11. Flow(k, k') BY <1>8, <1>10, FlowOn
<1>12. r.pc = "resume" /\ r.yield = th[t].yield /\ r.then = th[t].then /\ r.ip = th[t].ip
  BY <1>3 DEF ThreadFields
<1> HIDE DEF r
<1>13. r.pc \in Held /\ r.then \in Afters /\ (Firing(r) => Firing(th[t]))
  BY <1>3, <1>12 DEF Held, Firing
<1>14. TimersOk(tm') /\ tm'.current = tm.current BY <1>1, <1>3
<1>15. Settled(k) \/ (r.pc \in {"unlock", "resume"} /\ r.yield) BY <1>3, <1>12
<1>16. Running' BY <1>1, <1>3, <1>10, <1>11, <1>12, <1>13, <1>14, <1>15, HoldFlow
<1> QED BY <1>16

\* Where a task is after a suspension.
LEMMA AftersAreFree ==
    ASSUME NEW p \in Afters \union {"yield"}
    PROVE  p \notin Held /\ p # "obey" /\ p # "taken" /\ (p = "fire" \/ p \notin {"fire"})
BY DEF Afters, Held

LEMMA ResumeRuns == ASSUME SchedulerInv, Resume PROVE Running'
<1> DEFINE t == k.cur
           a == ResumeAll(k)
           r == [th[t] EXCEPT !.pc = IF th[t].yield /\ ~a.yielded THEN "yield" ELSE th[t].then,
                              !.yield = FALSE]
           k0 == [k EXCEPT !.sus = 0]
<1>1. /\ scn' = scn /\ tm' = tm /\ k' = a.k /\ th' = [th EXCEPT ![t] = r]
      /\ th[t].pc = "resume" /\ t \in Task \ {Idle}
  BY DEF Resume, ResumeTo
<1>2. th[t].pc \in Held BY <1>1 DEF Held
<1>3. /\ k.sus = 1 /\ KernelOk(k) /\ k.nstate[t] # "waiting" /\ th[t].then \in Afters
      /\ Settled(k) \/ th[t].yield
  BY <1>2, AtHeld
<1>4. DOMAIN th[t] = ThreadFields /\ TimersOk(tm)
  BY <1>1 DEF SchedulerInv, Running, QueuesInv, Threads
<1>5. Calm(k') /\ Flow(k0, k') /\ (a.yielded => Settled(k')) BY <1>1, <1>3, ResumeAllIs
<1>6. /\ k0.sus = 0 /\ k0.cur = t /\ k0.nstate = k.nstate
      /\ \A u, x : x \in Places => (IsAt(k0, u, x) <=> IsAt(k, u, x))
      /\ Settled(k0) <=> Settled(k)
  BY <1>3, SusIs
<1> HIDE DEF a, k0
<1>7. /\ r.pc = (IF th[t].yield /\ ~a.yielded THEN "yield" ELSE th[t].then)
      /\ r.then = th[t].then /\ r.ip = th[t].ip
  BY <1>4 DEF ThreadFields
<1> HIDE DEF r
<1>8. r.pc \in Afters \union {"yield"} BY <1>3, <1>7
<1>9. r.pc \notin Held /\ r.pc # "obey" BY <1>8, AftersAreFree
<1>10. k'.sus = 0 /\ (k'.cur # t => Settled(k'))
       /\ \A u \in Task : k'.nstate[u] = "waiting" => k.nstate[u] = "waiting"
  BY <1>5, <1>6 DEF Flow
<1>11. MortalsDie(k', Scenario[scn])
  <2>1. \A u \in Task : Alive(k0, u) <=> Alive(k, u) BY <1>6 DEF Alive, Places
  <2>2. MortalsDie(k0, Scenario[scn])
    BY <2>1 DEF SchedulerInv, Running, Control, MortalsDie
  <2> QED BY <1>5, <2>2, FlowMortals
<1>12. k'.cur = t => Settled(k') \/ Leaving(Scenario[scn], t, r)
  <2>1. CASE r.pc = "yield" BY <2>1 DEF Leaving
  <2>2. CASE r.pc # "yield"
    <3>1. a.yielded \/ ~th[t].yield BY <1>7, <2>2
    <3>2. CASE a.yielded BY <1>5, <3>2
    <3>3. CASE ~th[t].yield BY <1>3, <1>5, <1>6, <3>3 DEF Flow
    <3> QED BY <3>1, <3>2, <3>3
  <2> QED BY <2>1, <2>2
<1>13. t \in Caller => /\ r.pc = "obey" => r.cmd.timer \in Timer
                       /\ Firing(r) => CallAt(Scenario[scn], t, r).op = "timers"
                                       /\ tm'.current # <<>>
  <2>1. Firing(r) => Firing(th[t])
    <3>1. Firing(r) => r.then = "fire" BY <1>7 DEF Firing
    <3> QED BY <1>1, <1>7, <3>1 DEF Firing
  <2>2. CallAt(Scenario[scn], t, r) = CallAt(Scenario[scn], t, th[t]) BY <1>7 DEF CallAt
  <2>3. DaemonReady(th, tm, Scenario[scn]) BY DEF SchedulerInv, Running, Control
  <2> QED BY <1>1, <1>9, <2>1, <2>2, <2>3 DEF DaemonReady
<1>14. /\ r.then \in Afters
       /\ k'.cur = t => k'.sus = IF r.pc \in Held THEN 1 ELSE 0
       /\ k'.cur # t => r.pc \notin Held /\ k'.sus = 0 /\ Settled(k')
       /\ k'.nstate[t] = "waiting" => r.pc = "taken"
       /\ \A u \in Task \ {t} : k'.nstate[u] = "waiting" => k.nstate[u] = "waiting"
       /\ TimersOk(tm') /\ tm'.current = tm.current
  BY <1>1, <1>3, <1>4, <1>7, <1>9, <1>10
<1>15. Running' BY <1>1, <1>5, <1>11, <1>12, <1>13, <1>14, Move
<1> QED BY <1>15

LEMMA YieldRuns == ASSUME SchedulerInv, Yield PROVE Running'
<1> DEFINE t == k.cur
           r == [th[t] EXCEPT !.pc = th[t].then]
<1>1. /\ scn' = scn /\ tm' = tm /\ k' = Switch(k) /\ th' = [th EXCEPT ![t] = r]
      /\ th[t].pc = "yield" /\ t \in Task \ {Idle}
  BY DEF Yield
<1>2. DOMAIN th[t] = ThreadFields /\ TimersOk(tm) /\ Calm(k) /\ KernelOk(k)
  BY <1>1 DEF SchedulerInv, Running, QueuesInv, Threads, Calm
<1>3. k.sus = 0 /\ th[t].then \in Afters /\ k.nstate[t] # "waiting"
  <2>1. th[t].pc \notin Held /\ th[t].pc # "taken" BY <1>1 DEF Held
  <2> QED BY <1>1, <2>1 DEF SchedulerInv, Running, Control, HeldByCurrent, WaitsInCall
<1>4. KernelOk(k') /\ Flow(k, k') /\ Settled(k') BY <1>1, <1>2, <1>3, SwitchIs DEF Calm
<1>5. Calm(k') BY <1>2, <1>4, FlowCalm
<1>6. r.pc = th[t].then /\ r.then = th[t].then /\ r.ip = th[t].ip BY <1>2 DEF ThreadFields
<1> HIDE DEF r
<1>7. r.pc \in Afters \union {"yield"} BY <1>3, <1>6
<1>8. r.pc \notin Held /\ r.pc # "obey" BY <1>7, AftersAreFree
<1>9. k'.sus = 0 /\ \A u \in Task : k'.nstate[u] = "waiting" => k.nstate[u] = "waiting"
  BY <1>3, <1>4 DEF Flow
<1>10. MortalsDie(k', Scenario[scn]) BY <1>4, FlowMortals DEF SchedulerInv, Running, Control
<1>11. t \in Caller => /\ r.pc = "obey" => r.cmd.timer \in Timer
                       /\ Firing(r) => CallAt(Scenario[scn], t, r).op = "timers"
                                       /\ tm'.current # <<>>
  <2>1. Firing(r) => Firing(th[t])
    <3>1. Firing(r) => r.then = "fire" BY <1>6 DEF Firing
    <3> QED BY <1>1, <1>6, <3>1 DEF Firing
  <2>2. CallAt(Scenario[scn], t, r) = CallAt(Scenario[scn], t, th[t]) BY <1>6 DEF CallAt
  <2>3. DaemonReady(th, tm, Scenario[scn]) BY DEF SchedulerInv, Running, Control
  <2> QED BY <1>1, <1>8, <2>1, <2>2, <2>3 DEF DaemonReady
<1>12. /\ r.then \in Afters
       /\ k'.cur = t => k'.sus = IF r.pc \in Held THEN 1 ELSE 0
       /\ k'.cur # t => r.pc \notin Held /\ k'.sus = 0 /\ Settled(k')
       /\ k'.nstate[t] = "waiting" => r.pc = "taken"
       /\ k'.cur = t => Settled(k') \/ Leaving(Scenario[scn], t, r)
       /\ \A u \in Task \ {t} : k'.nstate[u] = "waiting" => k.nstate[u] = "waiting"
       /\ TimersOk(tm') /\ tm'.current = tm.current
  BY <1>1, <1>2, <1>3, <1>4, <1>6, <1>8, <1>9
<1>13. Running' BY <1>1, <1>5, <1>10, <1>11, <1>12, Move
<1> QED BY <1>13

LEMMA UndoRuns == ASSUME SchedulerInv, Undo PROVE Running'
<1> DEFINE c == Obj(k.cur)
           w == HighestWaiter(c)
<1>1. /\ At("undo", {"take", "retake"}) /\ scn' = scn /\ tm' = tm
      /\ k' = DisinheritAfterTimeout(k, queue[c].holder, w) /\ ReturnWith(k.cur, "failed", Null)
  BY DEF Undo, Return
<1>2. QueuesInv /\ KernelOk(k) /\ Calm(k) BY <1>1, AtStart DEF Held
<1>3. c \in Queue BY <1>1, <1>2, Object DEF Channels, QueueOps, Receiving
<1>4. Rx(c) \in EventList \union {Pend} BY <1>3, Handles
<1>5. w \in Prio
  <2>1. CASE k.ev[Rx(c)] = <<>>
    <3>1. w = 0 BY <2>1 DEF HighestWaiter
    <3>2. BasePrio[Idle] = 0 /\ Idle \in Task BY KernelConstants
    <3> QED BY <3>1, <3>2 DEF Prio
  <2>2. CASE k.ev[Rx(c)] # <<>>
    <3> DEFINE s == k.ev[Rx(c)]
    <3>1. s \in Lists /\ s # <<>> BY <1>2, <1>4, <2>2 DEF KernelOk, KernelTypes
    <3>2. w = k.evprio[Head(s)] BY <2>2 DEF HighestWaiter
    <3> HIDE DEF s, w
    <3>3. Head(s) \in Task BY <3>1, ListHead
    <3> QED BY <1>2, <3>2, <3>3 DEF KernelOk, KernelTypes
  <2> QED BY <2>1, <2>2
<1> HIDE DEF w, c
<1>6. KernelOk(k') /\ Flow(k, k') BY <1>1, <1>2, <1>5, DisinheritAfterIs
<1>7. Calm(k') BY <1>2, <1>6, FlowCalm
<1>8. "undo" \notin Held \union {"yield", "parked", "taken"} BY DEF Held
<1>9. Running' BY <1>1, <1>6, <1>7, <1>8, Done
<1> QED BY <1>9

LEMMA ResetRuns == ASSUME SchedulerInv, Reset PROVE Running'
<1> DEFINE c == Obj(k.cur)
<1>1. /\ At("try", {"reset"}) /\ scn' = scn /\ tm' = tm
      /\ k' = YieldNow(UnblockFirst(k, Tx(c))) /\ ReturnWith(k.cur, "ok", Null)
  BY DEF Reset, Freed, Return
<1>2. QueuesInv /\ KernelOk(k) /\ Flow(k, k) BY <1>1, AtStart DEF Held
<1>3. c \in Queue BY <1>1, <1>2, Object DEF Channels, QueueOps
<1>4. Tx(c) \in EventList \union {Pend} BY <1>3, Handles
<1> HIDE DEF c
<1>5. Running' BY <1>1, <1>2, <1>4, FreedDone
<1> QED BY <1>5

LEMMA QueueStepRuns == ASSUME SchedulerInv, QueueStep PROVE Running'
BY TrySendRuns, TryReceiveRuns, TryTakeRuns, TryPeekRuns, SimpleCalls, OtherCalls, SuspendRuns,
   LockRuns, TestRuns, UnlockRuns, UndoRuns, ResetRuns DEF QueueStep

----------------------------------------------------------------------------
(* The calls that concern tasks.                                           *)

\* The task that a call names.
LEMMA Named ==
    ASSUME SchedulerInv, NEW where, NEW ops, At(where, ops), ops \subseteq OnTask
    PROVE  LET i == Call(k.cur)
           IN  /\ i.to \in Task
               /\ i.op \in Using => Alive(k, i.to)
               /\ i.op \in {"delete", "park"} => i.to # Idle
               /\ i.op = "priority" => i.prio \in Prio
               /\ i.op = "delete" => i.to \in Mortal(Scenario[scn])
<1> DEFINE i == Call(k.cur)
           sc == Scenario[scn]
           t == k.cur
<1>1. QueuesInv /\ MortalsDie(k, sc) BY DEF SchedulerInv, Running, Control
<1>2. /\ t \in Caller /\ i.op \in ops
      /\ Legal(sc.type, i) \/ i.op = "receive"
  BY <1>1, Making
<1>3. i.op \in OnTask /\ i.op # "receive" BY <1>2 DEF OnTask
<1>4. Legal(sc.type, i) BY <1>2, <1>3
<1>5. i.to \in Task /\ (i.op \in {"delete", "park"} => i.to # Idle)
      /\ (i.op = "priority" => i.prio \in Prio)
  BY <1>3, <1>4 DEF Legal
<1>6. i \in CallsOf(sc)
  <2>1. th[t].ip \in 1 .. Len(sc.prog[t]) BY <1>1, <1>2 DEF QueuesInv, Threads
  <2>2. i = sc.prog[t][th[t].ip] BY DEF Call
  <2> HIDE DEF i, sc
  <2> QED BY <1>2, <2>1, <2>2 DEF CallsOf, Caller
<1>7. i.op \in Using => i.to \notin Mortal(sc)
  <2>1. scn \in DOMAIN Scenario BY <1>1 DEF QueuesInv
  <2> HIDE DEF i
  <2> QED BY <1>6, <2>1, ScenariosAreLegal
<1>8. i.op = "delete" => i.to \in Mortal(sc)
  <2> HIDE DEF i, sc
  <2> QED BY <1>6 DEF Mortal
<1> HIDE DEF i, sc, t
<1>9. i.op \in Using => Alive(k, i.to) BY <1>1, <1>5, <1>7 DEF MortalsDie
<1> QED BY <1>5, <1>8, <1>9 DEF i, sc, t

\* A task suspends the scheduler.
LEMMA Suspended ==
    ASSUME KernelOk(k), Settled(k), k.sus = 0, NEW s, s = SuspendAll(k)
    PROVE  /\ KernelOk(s) /\ Settled(s) /\ s.sus = 1 /\ s.cur = k.cur /\ s.nstate = k.nstate
           /\ \A u \in Task : Alive(s, u) <=> Alive(k, u)
           /\ k.cur # Idle => Bedtime(s)
<1>1. /\ KernelOk(s) /\ Settled(s) /\ s.sus = 1 /\ s.cur = k.cur /\ s.nstate = k.nstate
      /\ \A u, x : x \in Places => (IsAt(s, u, x) <=> IsAt(k, u, x))
  BY SuspendAllIs
<1>2. \A u \in Task : Alive(s, u) <=> Alive(k, u) BY <1>1 DEF Alive, Places
<1> QED BY <1>1, <1>2, SettledSleeps

\* It may sleep then, and resumes the scheduler.
LEMMA ThenResumes ==
    ASSUME SchedulerInv, scn' = scn, NEW t, t = k.cur, NEW r, th' = [th EXCEPT ![t] = r],
           k.nstate[t] # "waiting",
           NEW a, a.cur = t, a.sus = 1,
           \A u \in Task : a.nstate[u] = "waiting" => k.nstate[u] = "waiting",
           \A u \in Task : Alive(k, u) => Alive(a, u),
           KernelOk(k'), (k' = a /\ Settled(a)) \/ (Slept(a, k') /\ r.yield),
           r.pc = "resume", r.then \in Afters, r.then # "fire",
           TimersOk(tm'), tm'.current = tm.current
    PROVE  Running'
<1>1. k'.cur = t /\ k'.sus = 1 /\ k'.nstate = a.nstate BY DEF Slept
<1>2. \A u \in Task : Alive(a, u) => Alive(k', u) BY DEF Slept, Alive
<1>3. /\ \A u \in Task : k'.nstate[u] = "waiting" => k.nstate[u] = "waiting"
      /\ \A u \in Task : Alive(k, u) => Alive(k', u)
  BY <1>1, <1>2
<1>4. r.pc \in Held /\ ~Firing(r) BY DEF Held, Firing
<1>5. Settled(k') \/ (r.pc \in {"unlock", "resume"} /\ r.yield) OBVIOUS
<1>6. Running' BY <1>1, <1>3, <1>4, <1>5, HoldMove
<1> QED BY <1>6

LEMMA DelayRuns == ASSUME SchedulerInv, Delay PROVE Running'
<1> DEFINE t == k.cur
           s == SuspendAll(k)
           r == [th[t] EXCEPT !.pc = "resume", !.set = TRUE, !.yield = TRUE, !.then = "awake"]
<1>1. /\ At("try", {"delay"}) /\ scn' = scn /\ tm' = tm
      /\ k' = AddCurrentToDelayed(s, Call(t).wait, FALSE) /\ th' = [th EXCEPT ![t] = r]
  BY DEF Delay
<1>2. /\ t \in Task /\ t # Idle /\ DOMAIN th[t] = ThreadFields /\ KernelOk(k) /\ k.sus = 0
      /\ Settled(k) /\ k.nstate[t] # "waiting" /\ TimersOk(tm)
  BY <1>1, AtStart DEF Held, Caller
<1>3. /\ KernelOk(s) /\ s.sus = 1 /\ s.cur = t /\ s.nstate = k.nstate /\ Bedtime(s)
      /\ \A u \in Task : Alive(s, u) <=> Alive(k, u)
  BY <1>2, Suspended
<1>4. r.pc = "resume" /\ r.yield /\ r.then = "awake" BY <1>2 DEF ThreadFields
<1> HIDE DEF s, r
<1>5. KernelOk(k') /\ Slept(s, k') BY <1>1, <1>3, SleepIs
<1>6. r.then \in Afters /\ r.then # "fire" BY <1>4 DEF Afters
<1>7. TimersOk(tm') /\ tm'.current = tm.current BY <1>1, <1>2
<1>8. Running' BY <1>1, <1>2, <1>3, <1>4, <1>5, <1>6, <1>7, ThenResumes
<1> QED BY <1>8

LEMMA DelayUntilRuns == ASSUME SchedulerInv, DelayUntil PROVE Running'
<1> DEFINE t == k.cur
           s == SuspendAll(k)
           w == (th[t].last + Call(t).wait) % TickMod
           d == (w - k.tick) % TickMod
           r == [th[t] EXCEPT !.pc = "resume", !.set = TRUE, !.yield = TRUE, !.then = "awake",
                              !.last = w]
<1>1. /\ At("try", {"until"}) /\ scn' = scn /\ tm' = tm
      /\ k' = AddCurrentToDelayed(s, d, FALSE) \/ k' = s
      /\ th' = [th EXCEPT ![t] = r]
  BY DEF DelayUntil
<1>2. /\ t \in Task /\ t # Idle /\ DOMAIN th[t] = ThreadFields /\ KernelOk(k) /\ k.sus = 0
      /\ Settled(k) /\ k.nstate[t] # "waiting" /\ TimersOk(tm)
  BY <1>1, AtStart DEF Held, Caller
<1>3. /\ KernelOk(s) /\ s.sus = 1 /\ s.cur = t /\ s.nstate = k.nstate /\ Bedtime(s) /\ Settled(s)
      /\ \A u \in Task : Alive(s, u) <=> Alive(k, u)
  BY <1>2, Suspended
<1>4. r.pc = "resume" /\ r.yield /\ r.then = "awake" BY <1>2 DEF ThreadFields
<1> HIDE DEF s, r, d
<1>5. KernelOk(k') /\ (k' = s \/ Slept(s, k')) BY <1>1, <1>3, SleepIs
<1>6. r.then \in Afters /\ r.then # "fire" BY <1>4 DEF Afters
<1>7. TimersOk(tm') /\ tm'.current = tm.current BY <1>1, <1>2
<1>8. (k' = s /\ Settled(s)) \/ (Slept(s, k') /\ r.yield) BY <1>3, <1>4, <1>5
<1>9. Running' BY <1>1, <1>2, <1>3, <1>4, <1>5, <1>6, <1>7, <1>8, ThenResumes
<1> QED BY <1>9

LEMMA AbortRuns == ASSUME SchedulerInv, Abort PROVE Running'
<1> DEFINE t == k.cur
           s == SuspendAll(k)
           r == [th[t] EXCEPT !.pc = "look"]
<1>1. /\ At("try", {"abort"}) /\ scn' = scn /\ tm' = tm /\ k' = s /\ th' = [th EXCEPT ![t] = r]
  BY DEF Abort
<1>2. /\ t \in Task /\ DOMAIN th[t] = ThreadFields /\ KernelOk(k) /\ k.sus = 0
      /\ Settled(k) /\ k.nstate[t] # "waiting" /\ TimersOk(tm)
  BY <1>1, AtStart DEF Held
<1>3. th[t].then \in Afters BY <1>2 DEF SchedulerInv, Running, Control, WaitsInCall
<1>4. /\ KernelOk(s) /\ s.sus = 1 /\ s.cur = t /\ s.nstate = k.nstate /\ Settled(s)
      /\ \A u \in Task : Alive(s, u) <=> Alive(k, u)
  BY <1>2, Suspended
<1>5. r.pc = "look" /\ r.then = th[t].then BY <1>2 DEF ThreadFields
<1> HIDE DEF s, r
<1>6. r.pc \in Held /\ ~Firing(r) BY <1>5 DEF Held, Firing
<1>7. /\ KernelOk(k') /\ k'.sus = 1 /\ k'.cur = t /\ Settled(k')
      /\ \A u \in Task : k'.nstate[u] = "waiting" => k.nstate[u] = "waiting"
      /\ \A u \in Task : Alive(k, u) => Alive(k', u)
      /\ TimersOk(tm') /\ tm'.current = tm.current
  BY <1>1, <1>2, <1>4
<1>8. Running' BY <1>1, <1>2, <1>3, <1>5, <1>6, <1>7, HoldMove
<1> QED BY <1>8

LEMMA AbortLookRuns == ASSUME SchedulerInv, AbortLook PROVE Running'
<1> DEFINE t == k.cur
           r == IF Blocked(Call(t).to) THEN [th[t] EXCEPT !.pc = "cut"]
                ELSE [th[t] EXCEPT !.pc = "resume", !.then = "refused"]
<1>1. At("look", {"abort"}) /\ scn' = scn /\ tm' = tm /\ k' = k /\ th' = [th EXCEPT ![t] = r]
  BY DEF AbortLook
<1>2. "look" \in Held BY DEF Held
<1>3. /\ t \in Task /\ DOMAIN th[t] = ThreadFields /\ KernelOk(k) /\ k.sus = 1 /\ Settled(k)
      /\ k.nstate[t] # "waiting" /\ TimersOk(tm) /\ Flow(k, k) /\ th[t].then \in Afters
  BY <1>1, <1>2, AtHold
<1>4. (r.pc = "cut" /\ r.then = th[t].then) \/ (r.pc = "resume" /\ r.then = "refused")
  BY <1>3 DEF ThreadFields
<1> HIDE DEF r
<1>5. r.pc \in Held /\ ~Firing(r) /\ r.then \in Afters BY <1>3, <1>4 DEF Held, Firing, Afters
<1>6. KernelOk(k') /\ Flow(k, k') /\ TimersOk(tm') /\ tm'.current = tm.current BY <1>1, <1>3
<1>7. Running' BY <1>1, <1>3, <1>5, <1>6, HoldFlow
<1> QED BY <1>7

\* A step of the current task that may touch others.
LEMMA MoveOn ==
    ASSUME SchedulerInv, scn' = scn, NEW t, t = k.cur, Calm(k'), TimersOk(tm'),
           \A u \in Task \ {t} :
              \/ Untouched(th[u], th'[u]) /\ (k'.nstate[u] = "waiting" => k.nstate[u] = "waiting")
              \/ Begun(th'[u]) /\ k'.nstate[u] # "waiting",
           th'[t].then \in Afters,
           k'.cur = t => k'.sus = IF th'[t].pc \in Held THEN 1 ELSE 0,
           k'.cur # t => th'[t].pc \notin Held /\ k'.sus = 0 /\ Settled(k'),
           k'.nstate[t] = "waiting" => th'[t].pc = "taken",
           k'.cur = t => Settled(k') \/ Leaving(Scenario[scn], t, th'[t]),
           MortalsDie(k', Scenario[scn]),
           t \in Caller => th'[t].pc # "obey" /\ ~Firing(th'[t]),
           tm'.current = tm.current
    PROVE  Running'
<1> DEFINE sc == Scenario[scn]
<1>1. t \in Task /\ k'.cur \in Task BY CurIsTask DEF SchedulerInv, Running, Calm
<1>2. Control(k, th, tm, sc) BY DEF SchedulerInv, Running
<1>3. \A u \in Task \ {t} :
         \/ Untouched(th[u], th'[u]) /\ (k'.nstate[u] = "waiting" => k.nstate[u] = "waiting")
         \/ Begun(th'[u]) /\ k'.nstate[u] # "waiting"
  OBVIOUS
<1>4. /\ th'[t].then \in Afters
      /\ k'.cur = t => k'.sus = IF th'[t].pc \in Held THEN 1 ELSE 0
      /\ k'.cur # t => th'[t].pc \notin Held /\ k'.sus = 0 /\ Settled(k')
      /\ k'.nstate[t] = "waiting" => th'[t].pc = "taken"
      /\ k'.cur = t => Settled(k') \/ Leaving(sc, t, th'[t])
      /\ MortalsDie(k', sc)
      /\ t \in Caller => /\ th'[t].pc = "obey" => th'[t].cmd.timer \in Timer
                         /\ Firing(th'[t]) => CallAt(sc, t, th'[t]).op = "timers"
                                              /\ tm'.current # <<>>
  OBVIOUS
<1>5. tm'.current = tm.current OBVIOUS
<1> HIDE DEF sc
<1>6. Control(k', th', tm', sc) BY ONLY <1>1, <1>2, <1>3, <1>4, <1>5, Steps, t = k.cur
<1> QED BY <1>6 DEF Running, sc

LEMMA NotifyTakeRuns == ASSUME SchedulerInv, NotifyTake PROVE Running'
<1> DEFINE t == k.cur
           wait == Call(t).wait
           a == [k EXCEPT !.nstate[t] = "waiting"]
           b == AddCurrentToDelayed(a, wait, TRUE)
           r == [th[t] EXCEPT !.pc = "taken", !.set = TRUE]
<1>1. /\ At("try", {"notified"}) /\ scn' = scn /\ tm' = tm
      /\ k' = k \/ k' = a \/ k' = Switch(b)
      /\ th' = [th EXCEPT ![t] = r]
  BY DEF NotifyTake
<1>2. /\ t \in Task /\ t # Idle /\ DOMAIN th[t] = ThreadFields /\ KernelOk(k) /\ k.sus = 0
      /\ Settled(k) /\ Calm(k) /\ NonePending(k) /\ TimersOk(tm) /\ Flow(k, k)
  BY <1>1, AtStart DEF Held, Caller
<1>3. th[t].then \in Afters /\ MortalsDie(k, Scenario[scn])
  BY <1>2 DEF SchedulerInv, Running, Control, WaitsInCall
<1>4. r.pc = "taken" /\ r.then = th[t].then BY <1>2 DEF ThreadFields
<1>5. /\ KernelOk(a) /\ Settled(a) /\ NonePending(a) /\ a.sus = 0 /\ a.cur = t
      /\ \A u \in Task \ {t} : a.nstate[u] = k.nstate[u]
      /\ \A u \in Task : Alive(a, u) <=> Alive(k, u)
  <2>1. DOMAIN k = KernelFields /\ DOMAIN k.nstate = Task BY <1>2 DEF KernelOk, KernelTypes
  <2>2. /\ SameBut(k, a, Minor) /\ DOMAIN a.nstate = Task
        /\ a.base = k.base /\ a.evprio = k.evprio /\ a.pended = k.pended
    BY <2>1 DEF SameBut, Minor, KernelFields
  <2>3. \A u \in Task \ {t} : a.nstate[u] = k.nstate[u] BY <2>1 DEF KernelFields
  <2> HIDE DEF a
  <2>4. KernelOk(a) /\ Settled(a)
    BY <1>2, <2>2, MinorKeeps DEF KernelOk, KernelTypes
  <2>5. /\ \A u, x : x \in Places => (IsAt(a, u, x) <=> IsAt(k, u, x))
        /\ \A u, l : InEvent(a, u, l) <=> InEvent(k, u, l)
        /\ a.cur = k.cur /\ a.sus = k.sus
    BY <2>2, MinorChange
  <2> QED BY <1>2, <2>3, <2>4, <2>5 DEF NonePending, Alive, Places
<1> HIDE DEF r, a
<1>6. /\ Calm(k') /\ k'.sus = 0 /\ Settled(k')
      /\ \A u \in Task \ {t} : k'.nstate[u] = "waiting" => k.nstate[u] = "waiting"
      /\ \A u \in Task : Alive(k', u) <=> Alive(k, u)
  <2>1. CASE k' = k BY <1>2, <2>1
  <2>2. CASE k' = a BY <1>5, <2>2 DEF Calm
  <2>3. CASE k' = Switch(b)
    <3>1. Bedtime(a) BY <1>2, <1>5, SettledSleeps
    <3>2. KernelOk(b) /\ Slept(a, b) BY <3>1, SleepIs
    <3> HIDE DEF b
    <3>3. b.sus = 0 /\ NonePending(b) /\ b.nstate = a.nstate
      BY <1>5, <3>2 DEF Slept, NonePending
    <3>4. \A u \in Task : Alive(b, u) <=> Alive(a, u) BY <3>2 DEF Slept, Alive
    <3>5. KernelOk(k') /\ Flow(b, k') /\ Settled(k') BY <2>3, <3>2, <3>3, SwitchIs
    <3>6. Calm(k') BY <3>2, <3>3, <3>5, FlowCalm DEF Calm
    <3>7. \A u \in Task : Alive(k', u) <=> Alive(b, u) BY <3>5, FlowAlive
    <3>8. k'.sus = 0 /\ \A u \in Task : k'.nstate[u] = "waiting" => b.nstate[u] = "waiting"
      BY <3>3, <3>5 DEF Flow
    <3> QED BY <1>5, <3>3, <3>4, <3>5, <3>6, <3>7, <3>8
  <2> QED BY <1>1, <2>1, <2>2, <2>3
<1>7. MortalsDie(k', Scenario[scn]) BY <1>3, <1>6 DEF MortalsDie
<1>8. r.pc \notin Held /\ r.pc # "obey" /\ ~Firing(r) BY <1>4 DEF Held, Firing
<1>9. TimersOk(tm') /\ tm'.current = tm.current BY <1>1, <1>2
<1>10. /\ r.then \in Afters
       /\ k'.cur = t => k'.sus = IF r.pc \in Held THEN 1 ELSE 0
       /\ k'.cur # t => r.pc \notin Held /\ k'.sus = 0 /\ Settled(k')
       /\ k'.nstate[t] = "waiting" => r.pc = "taken"
       /\ k'.cur = t => Settled(k') \/ Leaving(Scenario[scn], t, r)
       /\ t \in Caller => /\ r.pc = "obey" => r.cmd.timer \in Timer
                          /\ Firing(r) => CallAt(Scenario[scn], t, r).op = "timers"
                                          /\ tm'.current # <<>>
  BY <1>3, <1>4, <1>6, <1>8
<1>11. Running' BY <1>1, <1>6, <1>7, <1>9, <1>10, Move
<1> QED BY <1>11

LEMMA NotifyTakenRuns == ASSUME SchedulerInv, NotifyTaken PROVE Running'
<1> DEFINE t == k.cur
           res == IF k.note[t] = Zero THEN "failed" ELSE "ok"
           r == [Start(Following(t, res), res, th[t].last) EXCEPT !.cmd = Null]
<1>1. /\ At("taken", {"notified"}) /\ scn' = scn /\ tm' = tm
      /\ k' = [k EXCEPT !.note[t] = Zero, !.nstate[t] = "none"]
      /\ th' = [th EXCEPT ![t] = r]
  BY DEF NotifyTaken, Return, ReturnWith
<1>2. /\ t \in Task /\ KernelOk(k) /\ k.sus = 0 /\ Settled(k) /\ Calm(k) /\ TimersOk(tm)
  BY <1>1, AtStart DEF Held
<1>3. MortalsDie(k, Scenario[scn]) BY DEF SchedulerInv, Running, Control
<1>4. KernelOk(k') /\ Flow(k, k') /\ k'.nstate[t] = "none"
  <2>1. DOMAIN k = KernelFields /\ DOMAIN k.nstate = Task BY <1>2 DEF KernelOk, KernelTypes
  <2>2. /\ SameBut(k, k', Minor) /\ DOMAIN k'.nstate = Task
        /\ k'.base = k.base /\ k'.evprio = k.evprio /\ k'.pended = k.pended
    BY <1>1, <2>1 DEF SameBut, Minor, KernelFields
  <2>3. k'.nstate = [k.nstate EXCEPT ![t] = "none"] BY <1>1, <2>1 DEF KernelFields
  <2>4. \A u \in Task : k'.nstate[u] = "waiting" => k.nstate[u] = "waiting" BY <2>1, <2>3
  <2>5. k'.base \in [Task -> Prio] /\ k'.evprio \in [Task -> Prio] /\ k'.pended \in Nat
    BY <1>2, <2>2 DEF KernelOk, KernelTypes
  <2>6. KernelOk(k') /\ Flow(k, k') BY <1>2, <2>2, <2>4, <2>5, MinorKeeps
  <2> QED BY <1>2, <2>1, <2>3, <2>6
<1>5. Calm(k') BY <1>2, <1>4, FlowCalm
<1>6. r.pc = "try" /\ r.then = "try" BY DEF Start
<1> HIDE DEF r
<1>7. r.pc \notin Held /\ r.pc # "obey" /\ ~Firing(r) /\ r.then \in Afters
  BY <1>6 DEF Held, Firing, Afters
<1>8. MortalsDie(k', Scenario[scn]) BY <1>3, <1>4, FlowMortals
<1>9. k'.sus = 0 /\ Settled(k')
      /\ \A u \in Task \ {t} : k'.nstate[u] = "waiting" => k.nstate[u] = "waiting"
  BY <1>2, <1>4 DEF Flow
<1>10. /\ r.then \in Afters
       /\ k'.cur = t => k'.sus = IF r.pc \in Held THEN 1 ELSE 0
       /\ k'.cur # t => r.pc \notin Held /\ k'.sus = 0 /\ Settled(k')
       /\ k'.nstate[t] = "waiting" => r.pc = "taken"
       /\ k'.cur = t => Settled(k') \/ Leaving(Scenario[scn], t, r)
       /\ t \in Caller => /\ r.pc = "obey" => r.cmd.timer \in Timer
                          /\ Firing(r) => CallAt(Scenario[scn], t, r).op = "timers"
                                          /\ tm'.current # <<>>
  BY <1>4, <1>7, <1>9
<1>11. TimersOk(tm') /\ tm'.current = tm.current BY <1>1, <1>2
<1>12. Running' BY <1>1, <1>5, <1>8, <1>9, <1>10, <1>11, Move
<1> QED BY <1>12

\* The calls that return at once.
LEMMA ReturningCalls ==
    ASSUME SchedulerInv, NotifyTask \/ Unpark \/ SetPriority PROVE Running'
<1> DEFINE u == Call(k.cur).to
<1>1. "try" \notin Held \union {"yield", "parked", "taken"} BY GoesOn
<1>2. CASE NotifyTask
  <2>1. /\ At("try", {"notify"}) /\ scn' = scn /\ tm' = tm
        /\ k' = YieldNow(Notify(k, u, Call(k.cur).v)) /\ ReturnWith(k.cur, "ok", Null)
    BY <1>2 DEF NotifyTask, Return
  <2>2. Calm(k) /\ KernelOk(k) /\ Call(k.cur).op = "notify" BY <2>1, AtStart DEF Held
  <2>3. u \in Task /\ Alive(k, u) BY <2>1, <2>2, Named DEF OnTask, Using
  <2> HIDE DEF u
  <2> DEFINE n == Notify(k, u, Call(k.cur).v)
  <2>4. KernelOk(n.k) /\ Flow(k, n.k) BY <2>2, <2>3, NotifyIs
  <2>5. k' = YieldNow(n) BY <2>1
  <2> HIDE DEF n
  <2>6. Calm(k') /\ Flow(k, k') BY <2>2, <2>4, <2>5, YieldNowIs
  <2>7. Running' BY <1>1, <2>1, <2>6, Done
  <2> QED BY <2>7
<1>3. CASE Unpark
  <2>1. /\ At("try", {"unpark"}) /\ scn' = scn /\ tm' = tm
        /\ \/ /\ IsSuspended(u)
              /\ k' = SwitchIf(HigherThanCurrent(k, u), AddToReady(OutOfState(k, u), u))
           \/ k' = k
        /\ ReturnWith(k.cur, "ok", Null)
    BY <1>3 DEF Unpark, Return
  <2>2. Calm(k) /\ Flow(k, k) BY <2>1, AtStart DEF Held
  <2>3. u \in Task BY <2>1, Named DEF OnTask
  <2> HIDE DEF u
  <2>4. Calm(k') /\ Flow(k, k') BY <2>1, <2>2, <2>3, UnparkIs
  <2>5. Running' BY <1>1, <2>1, <2>4, Done
  <2> QED BY <2>5
<1>4. CASE SetPriority
  <2> DEFINE p == Call(k.cur).prio
             yield == IF p > k.base[u] THEN u # k.cur /\ p > k.prio[k.cur] ELSE u = k.cur
             k1 == Rebased(u, p, k.base[u] # k.prio[u])
  <2>1. /\ At("try", {"priority"}) /\ scn' = scn /\ tm' = tm
        /\ k' = k \/ k' = SwitchIf(yield, k1)
        /\ ReturnWith(k.cur, "ok", Null)
    BY <1>4 DEF SetPriority, Return
  <2>2. Calm(k) /\ KernelOk(k) /\ Flow(k, k) /\ Call(k.cur).op = "priority"
    BY <2>1, AtStart DEF Held
  <2>3. u \in Task /\ p \in Prio BY <2>1, <2>2, Named DEF OnTask
  <2> HIDE DEF u, p, yield
  <2>4. KernelOk(k1) /\ Flow(k, k1) BY <2>2, <2>3, RebasedIs
  <2> HIDE DEF k1
  <2>5. Calm(k') /\ Flow(k, k') BY <2>1, <2>2, <2>4, SwitchIfIs
  <2>6. Running' BY <1>1, <2>1, <2>5, Done
  <2> QED BY <2>6
<1> QED BY <1>2, <1>3, <1>4

LEMMA ParkRuns == ASSUME SchedulerInv, Park PROVE Running'
<1> DEFINE t == k.cur
           u == Call(t).to
           sc == Scenario[scn]
<1>1. /\ At("try", {"park"}) /\ scn' = scn /\ tm' = tm /\ k' = Parked(u)
      /\ th' = [Cut(u, th) EXCEPT ![t].pc = "parked"]
  BY DEF Park
<1>2. /\ t \in Task /\ DOMAIN th[t] = ThreadFields /\ KernelOk(k) /\ k.sus = 0 /\ Settled(k)
      /\ NonePending(k) /\ Calm(k) /\ k.nstate[t] # "waiting" /\ TimersOk(tm)
      /\ QueuesInv /\ Call(t).op = "park"
  BY <1>1, AtStart DEF Held
<1>3. u \in Task /\ u # Idle /\ Alive(k, u) BY <1>1, <1>2, Named DEF OnTask, Using
<1>4. th[t].then \in Afters /\ MortalsDie(k, sc)
  BY <1>2 DEF SchedulerInv, Running, Control, WaitsInCall
<1>5. DOMAIN th = Task /\ \A v \in Task : DOMAIN th[v] = ThreadFields
  BY <1>2 DEF QueuesInv, Threads
<1>6. /\ th'[t].pc = "parked" /\ th'[t].then = th[t].then /\ th'[t].ip = th[t].ip
      /\ \A v \in Task \ {t} : Untouched(th[v], th'[v])
  <2> HIDE DEF u
  <2> QED BY <1>1, <1>2, <1>3, <1>5 DEF Cut, Untouched, ThreadFields
<1>7. CallAt(sc, t, th'[t]).to = u BY <1>6 DEF CallAt, Call
<1> HIDE DEF u, sc
<1>8. /\ KernelOk(k') /\ Left(k, k', u, "suspended")
      /\ \A v \in Task : k'.nstate[v] = "waiting" => k.nstate[v] = "waiting"
  BY <1>1, <1>2, <1>3, ParkedIs
<1>9. k'.cur = t /\ k'.sus = 0 /\ NonePending(k') /\ (u # t => Settled(k'))
  BY <1>2, <1>8 DEF Left
<1>10. MortalsDie(k', sc)
  <2>1. \A v \in Task : Alive(k, v) => Alive(k', v)
    BY <1>8 DEF Left, OthersStay, OnlyAt, Alive, Places
  <2> QED BY <1>4, <2>1 DEF MortalsDie
<1>11. Settled(k') \/ Leaving(sc, t, th'[t]) BY <1>6, <1>7, <1>9 DEF Leaving
<1>12. th'[t].pc \notin Held /\ th'[t].pc # "obey" /\ ~Firing(th'[t]) BY <1>6 DEF Held, Firing
<1>13. Calm(k') BY <1>8, <1>9 DEF Calm
<1>14. /\ \A v \in Task \ {t} :
            \/ Untouched(th[v], th'[v]) /\ (k'.nstate[v] = "waiting" => k.nstate[v] = "waiting")
            \/ Begun(th'[v]) /\ k'.nstate[v] # "waiting"
       /\ th'[t].then \in Afters
       /\ k'.cur = t => k'.sus = IF th'[t].pc \in Held THEN 1 ELSE 0
       /\ k'.cur # t => th'[t].pc \notin Held /\ k'.sus = 0 /\ Settled(k')
       /\ k'.nstate[t] = "waiting" => th'[t].pc = "taken"
       /\ TimersOk(tm') /\ tm'.current = tm.current
  BY <1>1, <1>2, <1>4, <1>6, <1>8, <1>9, <1>12
<1>15. Running' BY <1>1, <1>10, <1>11, <1>12, <1>13, <1>14, MoveOn DEF sc
<1> QED BY <1>15

LEMMA ParkDoneRuns == ASSUME SchedulerInv, ParkDone PROVE Running'
<1> DEFINE t == k.cur
           u == Call(t).to
           sc == Scenario[scn]
           r == [th[t] EXCEPT !.pc = IF u = t THEN "yield" ELSE "awake", !.then = "awake"]
<1>1. /\ At("parked", {"park"}) /\ scn' = scn /\ tm' = tm /\ k' = ResetUnblock(k)
      /\ th' = [th EXCEPT ![t] = r]
  BY DEF ParkDone
<1>2. QueuesInv /\ Calm(k) /\ KernelOk(k) /\ TimersOk(tm) /\ Control(k, th, tm, sc)
  BY DEF SchedulerInv, Running, Calm
<1>3. t \in Task /\ DOMAIN th[t] = ThreadFields /\ th[t].pc = "parked"
  BY <1>1, <1>2, Making DEF At
<1>4. k.sus = 0 /\ MortalsDie(k, sc) /\ k.nstate[t] # "waiting" /\ (u # t => Settled(k))
  <2>1. k.sus = 0 BY <1>2, <1>3 DEF Control, HeldByCurrent, Held
  <2>2. CallAt(sc, t, th[t]) = Call(t) BY DEF CallAt, Call
  <2>3. u # t => Settled(k) BY <1>2, <1>3, <2>2 DEF Control, CurrentRuns, Leaving
  <2> QED BY <1>2, <1>3, <2>1, <2>3 DEF Control, WaitsInCall
<1>5. r.pc = (IF u = t THEN "yield" ELSE "awake") /\ r.then = "awake" BY <1>3 DEF ThreadFields
<1> HIDE DEF r, u, sc
<1>6. SameBut(k, k', Plain) BY <1>1, <1>2, ResetIs
<1>7. KernelOk(k') /\ Flow(k, k') /\ k'.cur = t BY <1>2, <1>6, PlainChange
<1>8. Calm(k') /\ MortalsDie(k', sc) BY <1>2, <1>4, <1>7, FlowCalm, FlowMortals
<1>9. k'.sus = 0 /\ (u # t => Settled(k'))
      /\ \A v \in Task : k'.nstate[v] = "waiting" => k.nstate[v] = "waiting"
  BY <1>4, <1>7 DEF Flow
<1>10. r.pc \notin Held /\ r.pc # "obey" /\ ~Firing(r) /\ r.then \in Afters
  BY <1>5 DEF Held, Firing, Afters
<1>11. Settled(k') \/ Leaving(sc, t, r) BY <1>5, <1>9 DEF Leaving
<1>12. /\ \A v \in Task \ {t} : k'.nstate[v] = "waiting" => k.nstate[v] = "waiting"
       /\ r.then \in Afters
       /\ k'.cur = t => k'.sus = IF r.pc \in Held THEN 1 ELSE 0
       /\ k'.cur # t => r.pc \notin Held /\ k'.sus = 0 /\ Settled(k')
       /\ k'.nstate[t] = "waiting" => r.pc = "taken"
       /\ k'.cur = t => Settled(k') \/ Leaving(sc, t, r)
       /\ t \in Caller => /\ r.pc = "obey" => r.cmd.timer \in Timer
                          /\ Firing(r) => CallAt(sc, t, r).op = "timers"
                                          /\ tm'.current # <<>>
       /\ TimersOk(tm') /\ tm'.current = tm.current
  BY <1>1, <1>2, <1>3, <1>4, <1>7, <1>9, <1>10, <1>11
<1>13. Running' BY <1>1, <1>8, <1>12, Move DEF sc
<1> QED BY <1>13

LEMMA AbortCutRuns == ASSUME SchedulerInv, AbortCut PROVE Running'
<1> DEFINE t == k.cur
           u == Call(t).to
           sc == Scenario[scn]
           a == IF InEventList(k, u) THEN [k EXCEPT !.aborted = @ \union {u}] ELSE k
<1>1. /\ At("cut", {"abort"}) /\ scn' = scn /\ tm' = tm /\ k' = YieldTo(Wakened(a, u), u)
      /\ th' = [Cut(u, th) EXCEPT ![t] = [@ EXCEPT !.pc = "resume", !.then = "awake"]]
  BY DEF AbortCut
<1>2. "cut" \in Held BY DEF Held
<1>3. /\ QueuesInv /\ t \in Task /\ DOMAIN th[t] = ThreadFields /\ KernelOk(k) /\ k.sus = 1
      /\ Settled(k) /\ k.nstate[t] # "waiting" /\ TimersOk(tm) /\ Call(t).op = "abort"
  BY <1>1, <1>2, AtHold
<1>4. u \in Task /\ Alive(k, u) BY <1>1, <1>3, Named DEF OnTask, Using
<1>5. DOMAIN th = Task /\ \A v \in Task : DOMAIN th[v] = ThreadFields
  BY <1>3 DEF QueuesInv, Threads
<1> HIDE DEF u
<1>6. /\ th'[t].pc = "resume" /\ th'[t].then = "awake"
      /\ \A v \in Task \ {t} : Untouched(th[v], th'[v])
  BY <1>1, <1>3, <1>4, <1>5 DEF Cut, Untouched, ThreadFields
<1>7. a = k \/ SameBut(k, a, Plain)
  BY <1>3 DEF SameBut, Plain, KernelOk, KernelTypes, KernelFields
<1> HIDE DEF a, sc
<1>8. KernelOk(k') /\ Flow(k, k') BY <1>1, <1>3, <1>4, <1>7, CutIs
<1>9. /\ k'.sus = 1 /\ k'.cur = t /\ Settled(k')
      /\ \A v \in Task : k'.nstate[v] = "waiting" => k.nstate[v] = "waiting"
  BY <1>3, <1>8, FlowHeld
<1>10. Calm(k') /\ MortalsDie(k', Scenario[scn])
  BY <1>8, <1>9, FlowMortals DEF Calm, SchedulerInv, Running, Control
<1>11. th'[t].pc \in Held /\ th'[t].pc # "obey" /\ ~Firing(th'[t]) /\ th'[t].then \in Afters
  BY <1>6 DEF Held, Firing, Afters
<1>12. /\ \A v \in Task \ {t} :
            \/ Untouched(th[v], th'[v]) /\ (k'.nstate[v] = "waiting" => k.nstate[v] = "waiting")
            \/ Begun(th'[v]) /\ k'.nstate[v] # "waiting"
       /\ k'.cur = t => k'.sus = IF th'[t].pc \in Held THEN 1 ELSE 0
       /\ k'.cur # t => th'[t].pc \notin Held /\ k'.sus = 0 /\ Settled(k')
       /\ k'.nstate[t] = "waiting" => th'[t].pc = "taken"
       /\ k'.cur = t => Settled(k') \/ Leaving(Scenario[scn], t, th'[t])
       /\ TimersOk(tm') /\ tm'.current = tm.current
  BY <1>1, <1>3, <1>6, <1>9, <1>11
<1>13. Running' BY <1>1, <1>10, <1>11, <1>12, MoveOn
<1> QED BY <1>13

LEMMA BuryRuns == ASSUME SchedulerInv, Bury PROVE Running'
<1> DEFINE t == k.cur
           sc == Scenario[scn]
<1>1. /\ t = Idle /\ k.dead # <<>> /\ scn' = scn /\ tm' = tm /\ th' = th
      /\ k' = [k EXCEPT !.dead = Tail(@), !.gone = @ \union {Head(k.dead)}]
  BY DEF Bury
<1>2. Calm(k) /\ KernelOk(k) /\ TimersOk(tm) /\ Control(k, th, tm, sc)
  BY DEF SchedulerInv, Running, Calm
<1>3. t \in Task BY <1>2, CurIsTask
<1>4. /\ KernelOk(k') /\ k'.cur = t /\ k'.sus = k.sus /\ k'.nstate = k.nstate
      /\ \A u : Alive(k', u) <=> Alive(k, u)
      /\ Settled(k) => Settled(k')
      /\ NonePending(k) => NonePending(k')
  BY <1>1, <1>2, BuriedIs
<1> HIDE DEF sc
<1>5. Calm(k') BY <1>2, <1>4 DEF Calm
<1>6. MortalsDie(k', sc) BY <1>2, <1>4 DEF Control, MortalsDie
<1>7. Settled(k') \/ Leaving(sc, t, th'[t]) BY <1>1, <1>2, <1>4 DEF Control, CurrentRuns
<1>8. /\ \A v \in Task \ {t} :
            \/ Untouched(th[v], th'[v]) /\ (k'.nstate[v] = "waiting" => k.nstate[v] = "waiting")
            \/ Begun(th'[v]) /\ k'.nstate[v] # "waiting"
      /\ th'[t].then \in Afters
      /\ k'.cur = t => k'.sus = IF th'[t].pc \in Held THEN 1 ELSE 0
      /\ k'.cur # t => th'[t].pc \notin Held /\ k'.sus = 0 /\ Settled(k')
      /\ k'.nstate[t] = "waiting" => th'[t].pc = "taken"
      /\ TimersOk(tm') /\ tm'.current = tm.current
  BY <1>1, <1>2, <1>3, <1>4 DEF Control, HeldByCurrent, WaitsInCall, Untouched
<1>9. t \notin Caller BY <1>1 DEF Caller
<1>10. Running' BY <1>1, <1>5, <1>6, <1>7, <1>8, <1>9, MoveOn DEF sc
<1> QED BY <1>10

LEMMA ListSet == ASSUME NEW s \in Lists, NEW e PROVE e \in ToSet(s) <=> Contains(s, e)
<1>1. s \in Seq(Task) BY DEF Lists
<1>2. DOMAIN s = 1 .. Len(s) BY <1>1
<1> QED BY <1>2 DEF ToSet, Contains

LEMMA StillLives ==
    ASSUME NEW kk, KernelOk(kk), NEW t, t \notin kk.gone \union ToSet(kk.dead)
    PROVE  Alive(kk, t)
<1>1. kk.dead \in Lists BY DEF KernelOk, KernelTypes
<1>2. ~Contains(kk.dead, t) BY <1>1, ListSet
<1> QED BY <1>2, IsAtPlace DEF Alive

LEMMA DeleteRuns == ASSUME SchedulerInv, Delete PROVE Running'
<1> DEFINE t == k.cur
           u == Call(t).to
           sc == Scenario[scn]
           new == Start(Following(t, "ok"), "ok", Cut(u, th)[t].last)
           k1 == [OutOfState(OutOfEvent(k, u), u) EXCEPT !.dead = Append(@, u)]
           k2 == ResetUnblock([OutOfState(OutOfEvent(k, u), u) EXCEPT !.gone = @ \union {u}])
<1>1. /\ At("try", {"delete"}) /\ scn' = scn /\ tm' = tm
      /\ \/ u \in k.gone \union ToSet(k.dead) /\ k' = k /\ ReturnWith(t, "failed", Null)
         \/ /\ u \notin k.gone \union ToSet(k.dead) /\ u = t /\ k' = k1
            /\ th' = [Cut(u, th) EXCEPT ![u].pc = "yield", ![u].then = "deleted"]
         \/ /\ u \notin k.gone \union ToSet(k.dead) /\ u # t /\ k' = k2
            /\ th' = [Cut(u, th) EXCEPT ![t] = new]
  BY DEF Delete, Return
<1>2. /\ t \in Task /\ DOMAIN th[t] = ThreadFields /\ KernelOk(k) /\ k.sus = 0 /\ Settled(k)
      /\ NonePending(k) /\ Calm(k) /\ k.nstate[t] # "waiting" /\ TimersOk(tm) /\ Flow(k, k)
      /\ QueuesInv /\ Call(t).op = "delete"
  BY <1>1, AtStart DEF Held
<1>3. u \in Task /\ u # Idle /\ u \in Mortal(sc) BY <1>1, <1>2, Named DEF OnTask
<1>4. MortalsDie(k, sc) BY DEF SchedulerInv, Running, Control
<1>5. DOMAIN th = Task /\ \A v \in Task : DOMAIN th[v] = ThreadFields
  BY <1>2 DEF QueuesInv, Threads
<1>6. new.pc = "try" /\ new.then = "try" BY DEF Start
<1>7. TimersOk(tm') /\ tm'.current = tm.current BY <1>1, <1>2
<1> HIDE DEF new, k1, k2, u, sc
<1>8. CASE k' = k /\ ReturnWith(t, "failed", Null)
  <2>1. "try" \notin Held \union {"yield", "parked", "taken"} BY GoesOn
  <2>2. Calm(k') /\ Flow(k, k') BY <1>2, <1>8
  <2>3. Running' BY <1>1, <1>8, <2>1, <2>2, Done
  <2> QED BY <2>3
<1>9. CASE u \notin k.gone \union ToSet(k.dead) /\ u = t /\ k' = k1
           /\ th' = [Cut(u, th) EXCEPT ![u].pc = "yield", ![u].then = "deleted"]
  <2>1. Alive(k, u) BY <1>2, <1>9, StillLives
  <2>2. KernelOk(k') /\ Left(k, k', u, "dead") /\ k'.nstate = k.nstate
    BY <1>2, <1>3, <1>9, <2>1, DeadIs DEF k1
  <2>3. /\ th'[t].pc = "yield" /\ th'[t].then = "deleted"
        /\ \A v \in Task \ {t} : Untouched(th[v], th'[v])
    BY <1>2, <1>5, <1>9 DEF Cut, Untouched, ThreadFields
  <2>4. k'.cur = t /\ k'.sus = 0 /\ NonePending(k') BY <1>2, <2>2 DEF Left
  <2>5. Calm(k') BY <2>2, <2>4 DEF Calm
  <2>6. \A v \in Task : v # u => (Alive(k, v) => Alive(k', v))
    BY <2>2 DEF Left, OthersStay, Alive, Places
  <2>7. MortalsDie(k', sc) BY <1>3, <1>4, <2>6 DEF MortalsDie
  <2>8. Leaving(sc, t, th'[t]) BY <2>3 DEF Leaving
  <2>9. /\ th'[t].pc \notin Held /\ th'[t].pc # "obey" /\ ~Firing(th'[t])
        /\ th'[t].then \in Afters
    BY <2>3 DEF Held, Firing, Afters
  <2>10. /\ \A v \in Task \ {t} :
              \/ Untouched(th[v], th'[v]) /\ (k'.nstate[v] = "waiting" => k.nstate[v] = "waiting")
              \/ Begun(th'[v]) /\ k'.nstate[v] # "waiting"
         /\ k'.cur = t => k'.sus = IF th'[t].pc \in Held THEN 1 ELSE 0
         /\ k'.cur # t => th'[t].pc \notin Held /\ k'.sus = 0 /\ Settled(k')
         /\ k'.nstate[t] = "waiting" => th'[t].pc = "taken"
         /\ k'.cur = t => Settled(k') \/ Leaving(sc, t, th'[t])
    BY <1>2, <2>2, <2>3, <2>4, <2>8, <2>9
  <2>11. Running' BY <1>1, <1>7, <2>5, <2>7, <2>9, <2>10, MoveOn DEF sc
  <2> QED BY <2>11
<1>10. CASE u \notin k.gone \union ToSet(k.dead) /\ u # t /\ k' = k2
            /\ th' = [Cut(u, th) EXCEPT ![t] = new]
  <2>1. Alive(k, u) BY <1>2, <1>10, StillLives
  <2>2. KernelOk(k') /\ Left(k, k', u, "gone") /\ k'.nstate = k.nstate
    BY <1>2, <1>3, <1>10, <2>1, GoneIs DEF k2
  <2>3. th'[t] = new /\ \A v \in Task \ {t} : Untouched(th[v], th'[v])
    BY <1>2, <1>5, <1>10 DEF Cut, Untouched, ThreadFields
  <2>4. k'.cur = t /\ k'.sus = 0 /\ NonePending(k') /\ Settled(k')
    BY <1>2, <1>10, <2>2 DEF Left
  <2>5. Calm(k') BY <2>2, <2>4 DEF Calm
  <2>6. \A v \in Task : v # u => (Alive(k, v) => Alive(k', v))
    BY <2>2 DEF Left, OthersStay, Alive, Places
  <2>7. MortalsDie(k', sc) BY <1>3, <1>4, <2>6 DEF MortalsDie
  <2>8. /\ th'[t].pc \notin Held /\ th'[t].pc # "obey" /\ ~Firing(th'[t])
        /\ th'[t].then \in Afters
    BY <1>6, <2>3 DEF Held, Firing, Afters
  <2>9. /\ \A v \in Task \ {t} :
             \/ Untouched(th[v], th'[v]) /\ (k'.nstate[v] = "waiting" => k.nstate[v] = "waiting")
             \/ Begun(th'[v]) /\ k'.nstate[v] # "waiting"
        /\ k'.cur = t => k'.sus = IF th'[t].pc \in Held THEN 1 ELSE 0
        /\ k'.cur # t => th'[t].pc \notin Held /\ k'.sus = 0 /\ Settled(k')
        /\ k'.nstate[t] = "waiting" => th'[t].pc = "taken"
        /\ k'.cur = t => Settled(k') \/ Leaving(sc, t, th'[t])
    BY <1>2, <2>2, <2>3, <2>4, <2>8
  <2>10. Running' BY <1>1, <1>7, <2>5, <2>7, <2>8, <2>9, MoveOn DEF sc
  <2> QED BY <2>10
<1> QED BY <1>1, <1>8, <1>9, <1>10

LEMMA CreateRuns == ASSUME SchedulerInv, Create PROVE Running'
<1> DEFINE t == k.cur
           u == Call(t).to
           sc == Scenario[scn]
           r == Start(Following(t, "ok"), "ok", th[t].last)
           new == Start(1, "none", 0)
           k1 == AddToReady(NewTask(u), u)
           b == BasePrio[u] > k.prio[t]
<1>1. /\ At("try", {"create"}) /\ scn' = scn /\ tm' = tm
      /\ \/ u \notin k.gone /\ k' = k /\ ReturnWith(t, "failed", Null)
         \/ /\ u \in k.gone /\ k' = SwitchIf(b, k1)
            /\ th' = [th EXCEPT ![t] = r, ![u] = new]
  BY DEF Create, Return
<1>2. /\ t \in Task /\ KernelOk(k) /\ k.sus = 0 /\ Settled(k) /\ QueuesInv
      /\ NonePending(k) /\ Calm(k) /\ k.nstate[t] # "waiting" /\ TimersOk(tm) /\ Flow(k, k)
  BY <1>1, AtStart DEF Held
<1>3. u \in Task BY <1>1, Named DEF OnTask
<1>4. MortalsDie(k, sc) BY DEF SchedulerInv, Running, Control
<1>5. DOMAIN th = Task BY <1>2 DEF QueuesInv, Threads
<1>6. r.pc = "try" /\ r.then = "try" /\ Begun(new) BY DEF Start, Begun
<1>7. TimersOk(tm') /\ tm'.current = tm.current BY <1>1, <1>2
<1> HIDE DEF r, new, k1, b, u, sc
<1>8. CASE k' = k /\ ReturnWith(t, "failed", Null)
  <2>1. "try" \notin Held \union {"yield", "parked", "taken"} BY GoesOn
  <2>2. Calm(k') /\ Flow(k, k') BY <1>2, <1>8
  <2>3. Running' BY <1>1, <1>8, <2>1, <2>2, Done
  <2> QED BY <2>3
<1>9. CASE u \in k.gone /\ k' = SwitchIf(b, k1) /\ th' = [th EXCEPT ![t] = r, ![u] = new]
  <2>1. u # t BY <1>2, <1>9, IsAtPlace DEF Settled, Alive
  <2>2. /\ KernelOk(k1) /\ Left(k, k1, u, "ready")
        /\ k1.nstate = [k.nstate EXCEPT ![u] = "none"]
    BY <1>2, <1>3, <1>9, CreatedIs DEF k1
  <2>3. th'[t] = r /\ th'[u] = new /\ \A v \in Task \ {t, u} : th'[v] = th[v]
    BY <1>2, <1>3, <1>5, <1>9, <2>1
  <2>4. k1.cur = t /\ k1.sus = 0 /\ NonePending(k1) /\ Settled(k1)
    BY <1>2, <2>1, <2>2 DEF Left
  <2>5. Calm(k1) /\ Flow(k1, k1) BY <2>2, <2>4, FlowStays DEF Calm
  <2>6. Calm(k') /\ Flow(k1, k') BY <1>9, <2>2, <2>5, SwitchIfIs
  <2>7. /\ k'.sus = 0 /\ Settled(k')
        /\ \A v \in Task : k'.nstate[v] = "waiting" => k1.nstate[v] = "waiting"
    BY <2>4, <2>6 DEF Flow
  <2>8. /\ k1.nstate[u] # "waiting" /\ \A v \in Task \ {u} : k1.nstate[v] = k.nstate[v]
    BY <1>2, <1>3, <2>2 DEF KernelOk, KernelTypes
  <2>9. MortalsDie(k', sc)
    <3>1. \A v \in Task : v # u => (Alive(k, v) => Alive(k1, v))
      BY <2>2 DEF Left, OthersStay, Alive, Places
    <3>2. Alive(k1, u) BY <2>2 DEF Left, OnlyAt, Alive, Places
    <3>3. MortalsDie(k1, sc) BY <1>4, <3>1, <3>2 DEF MortalsDie
    <3> QED BY <2>6, <3>3, FlowMortals
  <2>10. /\ th'[t].pc \notin Held /\ th'[t].pc # "obey" /\ ~Firing(th'[t])
         /\ th'[t].then \in Afters
    BY <1>6, <2>3 DEF Held, Firing, Afters
  <2>11. \A v \in Task \ {t} :
           \/ Untouched(th[v], th'[v]) /\ (k'.nstate[v] = "waiting" => k.nstate[v] = "waiting")
           \/ Begun(th'[v]) /\ k'.nstate[v] # "waiting"
    BY <1>3, <1>6, <2>3, <2>7, <2>8 DEF Untouched
  <2>12. /\ k'.cur = t => k'.sus = IF th'[t].pc \in Held THEN 1 ELSE 0
         /\ k'.cur # t => th'[t].pc \notin Held /\ k'.sus = 0 /\ Settled(k')
         /\ k'.nstate[t] = "waiting" => th'[t].pc = "taken"
         /\ k'.cur = t => Settled(k') \/ Leaving(sc, t, th'[t])
    BY <1>2, <2>1, <2>7, <2>8, <2>10
  <2>13. Running' BY <1>1, <1>7, <2>6, <2>9, <2>10, <2>11, <2>12, MoveOn DEF sc
  <2> QED BY <2>13
<1> QED BY <1>1, <1>8, <1>9

LEMMA TaskStepRuns == ASSUME SchedulerInv, TaskStep PROVE Running'
BY DelayRuns, DelayUntilRuns, SimpleCalls, NotifyTakeRuns, NotifyTakenRuns, ReturningCalls,
   ParkRuns, ParkDoneRuns, AbortRuns, AbortLookRuns, AbortCutRuns, DeleteRuns, BuryRuns,
   CreateRuns DEF TaskStep

----------------------------------------------------------------------------
(* The calls of the event groups, and the commands to timers.              *)

LEMMA SetEventsRuns == ASSUME SchedulerInv, SetEvents PROVE Running'
<1> DEFINE t == k.cur
           s0 == SuspendAll(k)
           a == SetBits(s0, bits, Call(t).new).k
           r == [th[t] EXCEPT !.pc = "resume", !.then = "awake"]
<1>1. At("try", {"set"}) /\ scn' = scn /\ tm' = tm /\ k' = a /\ th' = [th EXCEPT ![t] = r]
  BY DEF SetEvents
<1>2. /\ t \in Task /\ DOMAIN th[t] = ThreadFields /\ KernelOk(k) /\ k.sus = 0
      /\ Settled(k) /\ k.nstate[t] # "waiting" /\ TimersOk(tm)
  BY <1>1, AtStart DEF Held
<1>3. /\ KernelOk(s0) /\ Settled(s0) /\ s0.sus = 1 /\ s0.cur = t /\ s0.nstate = k.nstate
      /\ \A u \in Task : Alive(s0, u) <=> Alive(k, u)
  BY <1>2, Suspended
<1>4. r.pc = "resume" /\ r.then = "awake" BY <1>2 DEF ThreadFields
<1> HIDE DEF s0, r
<1>5. KernelOk(a) /\ Flow(s0, a) BY <1>3, Handles, SetBitsIs
<1> HIDE DEF a
<1>6. /\ a.sus = 1 /\ a.cur = t /\ Settled(a)
      /\ \A u \in Task : a.nstate[u] = "waiting" => s0.nstate[u] = "waiting"
      /\ \A u \in Task : Alive(s0, u) => Alive(a, u)
  BY <1>3, <1>5, FlowHeld
<1>7. /\ \A u \in Task : a.nstate[u] = "waiting" => k.nstate[u] = "waiting"
      /\ \A u \in Task : Alive(k, u) => Alive(a, u)
  BY <1>3, <1>6
<1>8. r.then \in Afters /\ r.then # "fire" BY <1>4 DEF Afters
<1>9. KernelOk(k') /\ TimersOk(tm') /\ tm'.current = tm.current BY <1>1, <1>2, <1>5
<1>10. (k' = a /\ Settled(a)) \/ (Slept(a, k') /\ r.yield) BY <1>1, <1>6
<1>11. Running' BY <1>1, <1>2, <1>4, <1>6, <1>7, <1>8, <1>9, <1>10, ThenResumes
<1> QED BY <1>11

LEMMA WaitEventsRuns == ASSUME SchedulerInv, WaitEvents PROVE Running'
<1> DEFINE t == k.cur
           a == SuspendAll(k)
           w == Wanted(t)
           ticks == Call(t).wait
           sleep == ~ConditionMet(bits, w) /\ ticks # 0
           r == [th[t] EXCEPT !.pc = "resume", !.set = sleep, !.yield = sleep,
                              !.then = IF sleep THEN "told" ELSE "awake"]
<1>1. /\ At("try", {"wait"}) /\ scn' = scn /\ tm' = tm
      /\ k' = (IF sleep THEN PlaceOnUnordered(a, w, ticks) ELSE a)
      /\ th' = [th EXCEPT ![t] = r]
  BY DEF WaitEvents, WaitingFor
<1>2. /\ t \in Task /\ t # Idle /\ DOMAIN th[t] = ThreadFields /\ KernelOk(k) /\ k.sus = 0
      /\ Settled(k) /\ k.nstate[t] # "waiting" /\ TimersOk(tm)
  BY <1>1, AtStart DEF Held, Caller
<1>3. /\ KernelOk(a) /\ Settled(a) /\ a.sus = 1 /\ a.cur = t /\ a.nstate = k.nstate
      /\ \A u \in Task : Alive(a, u) <=> Alive(k, u)
  BY <1>2, Suspended
<1> HIDE DEF a, sleep, w, ticks
<1>4. /\ r.pc = "resume" /\ r.yield = sleep
      /\ r.then = (IF sleep THEN "told" ELSE "awake")
  BY <1>2 DEF ThreadFields
<1> HIDE DEF r
<1>5. r.then \in Afters /\ r.then # "fire" BY <1>4 DEF Afters
<1>6. KernelOk(k') /\ ((k' = a /\ Settled(a)) \/ (Slept(a, k') /\ r.yield))
  <2>1. CASE sleep
    <3>1. k' = PlaceOnUnordered(a, w, ticks) BY <1>1, <2>1
    <3>2. KernelOk(k') /\ Slept(a, k') BY <1>2, <1>3, <3>1, Handles, UnorderedIs
    <3> QED BY <1>4, <2>1, <3>2
  <2>2. CASE ~sleep BY <1>1, <1>3, <2>2
  <2> QED BY <2>1, <2>2
<1>7. TimersOk(tm') /\ tm'.current = tm.current BY <1>1, <1>2
<1>8. Running' BY <1>1, <1>2, <1>3, <1>4, <1>5, <1>6, <1>7, ThenResumes
<1> QED BY <1>8

LEMMA SyncEventsRuns == ASSUME SchedulerInv, SyncEvents PROVE Running'
<1> DEFINE t == k.cur
           s0 == SuspendAll(k)
           a == SetBits(s0, bits, Call(t).new).k
           w == Wanted(t)
           ticks == Call(t).wait
           sleep == ~ConditionMet(bits \union Call(t).new, w) /\ ticks # 0
           r == [th[t] EXCEPT !.pc = "resume", !.set = sleep, !.yield = sleep,
                              !.then = IF sleep THEN "told" ELSE "awake"]
<1>1. /\ At("try", {"sync"}) /\ scn' = scn /\ tm' = tm
      /\ k' = (IF sleep THEN PlaceOnUnordered(a, w, ticks) ELSE a)
      /\ th' = [th EXCEPT ![t] = r]
  BY DEF SyncEvents, WaitingFor
<1>2. /\ t \in Task /\ t # Idle /\ DOMAIN th[t] = ThreadFields /\ KernelOk(k) /\ k.sus = 0
      /\ Settled(k) /\ k.nstate[t] # "waiting" /\ TimersOk(tm)
  BY <1>1, AtStart DEF Held, Caller
<1>3. /\ KernelOk(s0) /\ Settled(s0) /\ s0.sus = 1 /\ s0.cur = t /\ s0.nstate = k.nstate
      /\ \A u \in Task : Alive(s0, u) <=> Alive(k, u)
  BY <1>2, Suspended
<1> HIDE DEF s0, sleep, w, ticks
<1>4. /\ r.pc = "resume" /\ r.yield = sleep
      /\ r.then = (IF sleep THEN "told" ELSE "awake")
  BY <1>2 DEF ThreadFields
<1> HIDE DEF r
<1>5. r.then \in Afters /\ r.then # "fire" BY <1>4 DEF Afters
<1>6. KernelOk(a) /\ Flow(s0, a) BY <1>3, Handles, SetBitsIs
<1> HIDE DEF a
<1>7. /\ a.sus = 1 /\ a.cur = t /\ Settled(a)
      /\ \A u \in Task : a.nstate[u] = "waiting" => s0.nstate[u] = "waiting"
      /\ \A u \in Task : Alive(s0, u) => Alive(a, u)
  BY <1>3, <1>6, FlowHeld
<1>8. /\ \A u \in Task : a.nstate[u] = "waiting" => k.nstate[u] = "waiting"
      /\ \A u \in Task : Alive(k, u) => Alive(a, u)
  BY <1>3, <1>7
<1>9. KernelOk(k') /\ ((k' = a /\ Settled(a)) \/ (Slept(a, k') /\ r.yield))
  <2>1. CASE sleep
    <3>1. k' = PlaceOnUnordered(a, w, ticks) BY <1>1, <2>1
    <3>2. KernelOk(k') /\ Slept(a, k') BY <1>2, <1>6, <1>7, <3>1, Handles, UnorderedIs
    <3> QED BY <1>4, <2>1, <3>2
  <2>2. CASE ~sleep BY <1>1, <1>6, <1>7, <2>2
  <2> QED BY <2>1, <2>2
<1>10. TimersOk(tm') /\ tm'.current = tm.current BY <1>1, <1>2
<1>11. Running' BY <1>1, <1>2, <1>4, <1>5, <1>7, <1>8, <1>9, <1>10, ThenResumes
<1> QED BY <1>11

LEMMA EventsAwaitedRuns == ASSUME SchedulerInv, EventsAwaited PROVE Running'
<1>1. /\ At("told", {"wait", "sync"}) /\ scn' = scn /\ tm' = tm /\ k' = ResetEventValue(k)
      /\ \E res : ReturnWith(k.cur, res, Null)
  BY DEF EventsAwaited, Return
<1>2. PICK res : ReturnWith(k.cur, res, Null) BY <1>1
<1>3. KernelOk(k) /\ Calm(k) BY <1>1, AtStart DEF Held
<1>4. KernelOk(k') /\ Flow(k, k') BY <1>1, <1>3, ResetEventIs
<1>5. Calm(k') BY <1>3, <1>4, FlowCalm
<1>6. "told" \notin Held \union {"yield", "parked", "taken"} BY DEF Held
<1>7. Running' BY <1>1, <1>2, <1>4, <1>5, <1>6, Done
<1> QED BY <1>7

LEMMA PostRuns == ASSUME SchedulerInv, Post PROVE Running'
<1> DEFINE u == UnblockFirst(k, Rx(TimerQueue))
<1>1. /\ At("post", {"command"}) /\ scn' = scn /\ tm' = tm
      /\ \/ k' = k /\ ReturnWith(k.cur, "failed", Null)
         \/ k' = YieldNow(u) /\ ReturnWith(k.cur, "ok", Null)
  BY DEF Post, Return
<1>2. KernelOk(k) /\ Calm(k) /\ Flow(k, k) BY <1>1, AtStart DEF Held
<1>3. TimerQueue \in Queue BY QueueConstants
<1>4. Rx(TimerQueue) \in EventList \union {Pend} BY <1>3, Handles
<1>5. Calm(k') /\ Flow(k, k') BY <1>1, <1>2, <1>4, FreedIs
<1>6. "post" \notin Held \union {"yield", "parked", "taken"} BY DEF Held
<1>7. PICK res : ReturnWith(k.cur, res, Null) BY <1>1
<1>8. Running' BY <1>1, <1>5, <1>6, <1>7, Done
<1> QED BY <1>8

----------------------------------------------------------------------------
(* The timer service task.                                                 *)

\* It is the only one, and the tasks that the callbacks notify are not deleted.
LEMMA ServesAlone ==
    ASSUME SchedulerInv, NEW where, At(where, {"timers"})
    PROVE  /\ ClientsLive(k)
           /\ \A u \in Caller \ {k.cur} : ~Firing(th[u])
<1> DEFINE t == k.cur
           sc == Scenario[scn]
<1>1. /\ QueuesInv /\ MortalsDie(k, sc) /\ DaemonReady(th, tm, sc)
  BY DEF SchedulerInv, Running, Control
<1>2. t \in Caller /\ Call(t).op = "timers" BY <1>1, Making
<1>3. scn \in DOMAIN Scenario BY <1>1 DEF QueuesInv
<1>4. \A u \in Caller : CallAt(sc, u, th[u]).op = "timers" => Serves(sc, u)
  BY <1>1 DEF QueuesInv, Threads, CallAt, Serves
<1>5. Serves(sc, t) BY <1>2, <1>4 DEF Call, CallAt
<1>6. /\ \A u \in Task \ {Idle} : Serves(sc, u) => u = t
      /\ \A x \in Timer : Client[x] \notin Mortal(sc)
  BY <1>2, <1>3, <1>5, ScenariosAreLegal DEF Caller
<1> HIDE DEF sc
<1>7. ClientsLive(k) BY <1>1, <1>6, TimerConstants DEF ClientsLive, MortalsDie
<1>8. \A u \in Caller \ {t} : ~Firing(th[u]) BY <1>1, <1>4, <1>6 DEF DaemonReady, Caller
<1> QED BY <1>7, <1>8

LEMMA DaemonLookRuns == ASSUME SchedulerInv, DaemonLook PROVE Running'
<1> DEFINE t == k.cur
           s0 == SuspendAll(k)
           b == [k |-> s0, tm |-> tm]
           a == SampleTimeNow(b)
           none == tm.current = <<>>
           next == IF none THEN 0 ELSE tm.value[Head(tm.current)]
           expired == ~a.switched /\ ~none /\ next <= k.tick
           sleep == ~a.switched /\ ~expired /\ IsEmpty(TimerQueue)
           forever == none /\ tm.overflow = <<>>
           wait == (next - k.tick) % TickMod
           r == [th[t] EXCEPT !.pc = "resume", !.at = k.tick,
                              !.yield = ~a.switched /\ ~expired,
                              !.set = sleep /\ ~forever,
                              !.then = IF expired THEN "fire" ELSE "commands"]
<1>1. /\ At("try", {"timers"}) /\ scn' = scn /\ tm' = a.s.tm
      /\ k' = (IF sleep THEN WaitRestricted(a.s.k, wait, forever) ELSE a.s.k)
      /\ th' = [th EXCEPT ![t] = r]
  BY DEF DaemonLook, LookAround
<1>2. /\ t \in Task /\ t # Idle /\ DOMAIN th[t] = ThreadFields /\ KernelOk(k) /\ k.sus = 0
      /\ Settled(k) /\ k.nstate[t] # "waiting" /\ TimersOk(tm) /\ Call(t).op = "timers"
  BY <1>1, AtStart DEF Held, Caller
<1>3. /\ KernelOk(s0) /\ Settled(s0) /\ s0.sus = 1 /\ s0.cur = t /\ s0.nstate = k.nstate
      /\ \A u \in Task : Alive(s0, u) <=> Alive(k, u)
  BY <1>2, Suspended
<1>4. ClientsLive(k) /\ \A u \in Caller \ {t} : ~Firing(th[u]) BY <1>1, ServesAlone
<1>5. forever \in BOOLEAN OBVIOUS
<1> HIDE DEF s0, forever, next
<1>6. ClientsLive(s0) BY <1>3, <1>4, TimerConstants DEF ClientsLive
<1>7. Serving(s0, b) BY <1>2, <1>3, FlowStays DEF Serving, Calm
<1>8. b.k = s0 /\ b.tm = tm OBVIOUS
<1> HIDE DEF b
<1>9. /\ Serving(s0, a.s)
      /\ ~a.switched => a.s.k = s0 /\ a.s.tm.current = tm.current
  BY <1>6, <1>7, <1>8, SampleIs
<1>10. /\ r.pc = "resume" /\ r.yield = (~a.switched /\ ~expired)
       /\ r.then = (IF expired THEN "fire" ELSE "commands") /\ r.ip = th[t].ip
  BY <1>2 DEF ThreadFields
<1> HIDE DEF a, r, none, wait
<1> DEFINE ka == a.s.k
<1>11. Calm(ka) /\ KernelOk(ka) /\ Flow(s0, ka) /\ TimersOk(tm')
  BY <1>1, <1>9 DEF Serving, Calm
<1>12. /\ ka.sus = 1 /\ ka.cur = t /\ Settled(ka)
       /\ \A u \in Task : ka.nstate[u] = "waiting" => s0.nstate[u] = "waiting"
       /\ \A u \in Task : Alive(s0, u) => Alive(ka, u)
  BY <1>3, <1>11, FlowHeld
<1>13. KernelOk(k') /\ ((k' = ka /\ Settled(ka)) \/ (Slept(ka, k') /\ r.yield))
  <2>1. CASE ~sleep
    <3>1. k' = ka BY <1>1, <2>1
    <3> HIDE DEF ka, sleep
    <3> QED BY <1>11, <1>12, <3>1
  <2>2. CASE sleep
    <3>1. r.yield BY <1>10, <2>2
    <3> HIDE DEF ka, expired, sleep
    <3> DEFINE l == Rx(TimerQueue)
               q == Append(ka.ev[l], t)
               k1 == [ka EXCEPT !.ev[l] = Append(@, t)]
               ticks == IF forever THEN MaxDelay ELSE wait
    <3>2. k' = AddCurrentToDelayed([ka EXCEPT !.ev[l] = Append(@, k.cur)], ticks, forever)
      BY <1>1, <2>2 DEF WaitRestricted, ka
    <3>3. l \in EventList /\ l # Pend BY Handles, QueueConstants
    <3>4. ka.ev[l] \in Lists /\ ~Contains(ka.ev[l], t) /\ DOMAIN ka = KernelFields
      BY <1>11, <1>12, <3>3 DEF KernelOk, KernelTypes, Settled, InEvent
    <3>5. q \in Lists /\ \A u : Contains(q, u) <=> Contains(ka.ev[l], u) \/ u = t
      BY <1>2, <3>4, ListAppended
    <3> HIDE DEF l
    <3>6. SameBut(ka, k1, {"ev", "evval"}) /\ k1.ev = [ka.ev EXCEPT ![l] = q]
      BY <3>4 DEF SameBut, KernelFields
    <3> HIDE DEF q, ticks
    <3>7. k' = AddCurrentToDelayed(k1, ticks, forever) BY <3>2
    <3> HIDE DEF k1
    <3>8. Bedtime(k1) /\ Slept(ka, k1)
      BY <1>2, <1>11, <1>12, <3>3, <3>5, <3>6, Enlisted
    <3>9. KernelOk(k') /\ Slept(k1, k') BY <1>5, <3>7, <3>8, SleepIs
    <3>10. Slept(ka, k') BY <3>8, <3>9, SleptOn
    <3> QED BY <3>1, <3>9, <3>10
  <2> QED BY <2>1, <2>2
<1> HIDE DEF ka, sleep
<1>14. k'.cur = t /\ k'.sus = 1 /\ k'.nstate = ka.nstate BY <1>12, <1>13 DEF Slept
<1>15. \A u \in Task : Alive(ka, u) => Alive(k', u) BY <1>13 DEF Slept, Alive
<1>16. Calm(k') BY <1>13, <1>14 DEF Calm
<1>17. MortalsDie(k', Scenario[scn])
  <2>1. \A u \in Task : Alive(k, u) => Alive(k', u) BY <1>3, <1>12, <1>15
  <2> QED BY <2>1 DEF SchedulerInv, Running, Control, MortalsDie
<1>18. \A u \in Task : k'.nstate[u] = "waiting" => k.nstate[u] = "waiting"
  BY <1>3, <1>12, <1>14
<1>19. r.pc \in Held /\ r.pc # "obey" /\ r.then \in Afters BY <1>10 DEF Held, Afters
<1>20. Settled(k') \/ Leaving(Scenario[scn], t, r) BY <1>10, <1>12, <1>13 DEF Leaving
<1>21. Firing(r) => CallAt(Scenario[scn], t, r).op = "timers" /\ tm'.current # <<>>
  <2>1. CallAt(Scenario[scn], t, r) = Call(t) BY <1>10 DEF CallAt, Call
  <2>2. Firing(r) => expired BY <1>10 DEF Firing
  <2>3. expired => tm.current # <<>> /\ tm'.current = tm.current BY <1>1, <1>9 DEF none
  <2> QED BY <1>2, <2>1, <2>2, <2>3
<1>22. /\ k'.cur = t => k'.sus = IF r.pc \in Held THEN 1 ELSE 0
       /\ k'.cur # t => r.pc \notin Held /\ k'.sus = 0 /\ Settled(k')
       /\ k'.nstate[t] = "waiting" => r.pc = "taken"
       /\ t \in Caller => /\ r.pc = "obey" => r.cmd.timer \in Timer
                          /\ Firing(r) => CallAt(Scenario[scn], t, r).op = "timers"
                                          /\ tm'.current # <<>>
  BY <1>2, <1>14, <1>18, <1>19, <1>21
<1>23. Running'
  BY <1>1, <1>4, <1>11, <1>16, <1>17, <1>18, <1>19, <1>20, <1>22, Move
<1> QED BY <1>23

\* A step of the timer service task, with the scheduler running.
LEMMA ServiceMove ==
    ASSUME SchedulerInv, scn' = scn, NEW where, At(where, {"timers"}),
           where \notin Held \union {"yield", "parked", "taken"},
           NEW r, th' = [th EXCEPT ![k.cur] = r],
           Calm(k'), Flow(k, k'), TimersOk(tm'),
           r.pc \notin Held \union {"yield", "fire"}, r.then \in Afters,
           r.pc = "obey" => r.cmd.timer \in Timer
    PROVE  Running'
<1> DEFINE t == k.cur
<1>1. /\ t \in Task /\ k.sus = 0 /\ Settled(k) /\ k.nstate[t] # "waiting" BY AtStart
<1>2. \A u \in Caller \ {t} : ~Firing(th[u]) BY ServesAlone
<1>3. MortalsDie(k', Scenario[scn]) BY FlowMortals DEF SchedulerInv, Running, Control
<1>4. ~Firing(r) /\ r.pc \notin Held BY DEF Firing, Held
<1>5. /\ \A u \in Task : k'.nstate[u] = "waiting" => k.nstate[u] = "waiting"
      /\ k'.sus = 0 /\ Settled(k')
  BY <1>1 DEF Flow
<1>6. /\ r.then \in Afters
      /\ k'.cur = t => k'.sus = IF r.pc \in Held THEN 1 ELSE 0
      /\ k'.cur # t => r.pc \notin Held /\ k'.sus = 0 /\ Settled(k')
      /\ k'.nstate[t] = "waiting" => r.pc = "taken"
      /\ k'.cur = t => Settled(k') \/ Leaving(Scenario[scn], t, r)
      /\ t \in Caller => /\ r.pc = "obey" => r.cmd.timer \in Timer
                         /\ Firing(r) => CallAt(Scenario[scn], t, r).op = "timers"
                                         /\ tm'.current # <<>>
  BY <1>1, <1>4, <1>5
<1>7. \A u \in Task \ {t} : k'.nstate[u] = "waiting" => k.nstate[u] = "waiting" BY <1>5
<1>8. Calm(k') /\ TimersOk(tm') /\ th' = [th EXCEPT ![t] = r] /\ scn' = scn OBVIOUS
<1>9. Running' BY ONLY SchedulerInv, <1>2, <1>3, <1>6, <1>7, <1>8, Move
<1> QED BY <1>9

\* Where it is in its loop.
LEMMA InService ==
    /\ {"fire", "commands", "obey"} \cap (Held \union {"yield", "parked", "taken"}) = {}
    /\ {"commands", "obey", "try"} \cap (Held \union {"yield", "fire"}) = {}
BY DEF Held

LEMMA DaemonFireRuns == ASSUME SchedulerInv, DaemonFire PROVE Running'
<1> DEFINE t == k.cur
           b == [k |-> k, tm |-> tm]
           a == ProcessExpired(b, th[t].at)
           r == [th[t] EXCEPT !.pc = "commands"]
<1>1. /\ At("fire", {"timers"}) /\ scn' = scn /\ k' = a.k /\ tm' = a.tm
      /\ th' = [th EXCEPT ![t] = r]
  BY DEF DaemonFire
<1>2. /\ t \in Task /\ t \in Caller /\ DOMAIN th[t] = ThreadFields /\ Calm(k) /\ TimersOk(tm)
      /\ th[t].pc = "fire"
  BY <1>1, AtStart DEF Held
<1>3. th[t].then \in Afters /\ tm.current # <<>>
  BY <1>2 DEF SchedulerInv, Running, Control, WaitsInCall, DaemonReady, Firing
<1>4. r.pc = "commands" /\ r.then = th[t].then BY <1>2 DEF ThreadFields
<1> HIDE DEF r
<1>5. ClientsLive(k) BY <1>1, ServesAlone
<1>6. Serving(k, b) /\ b.tm.current # <<>> BY <1>2, <1>3, FlowStays DEF Serving
<1> HIDE DEF b
<1>7. Serving(k, a) BY <1>5, <1>6, ProcessExpiredIs
<1> HIDE DEF a
<1>8. Calm(k') /\ Flow(k, k') /\ TimersOk(tm') BY <1>1, <1>7 DEF Serving
<1>9. /\ r.pc \notin Held \union {"yield", "fire"} /\ r.then \in Afters /\ r.pc # "obey"
      /\ "fire" \notin Held \union {"yield", "parked", "taken"}
  BY <1>3, <1>4, InService
<1>10. Running' BY <1>1, <1>8, <1>9, ServiceMove
<1> QED BY <1>10

LEMMA DaemonReceiveRuns == ASSUME SchedulerInv, DaemonReceive PROVE Running'
<1> DEFINE t == k.cur
           item == CopyFrom(TimerQueue).item
           r1 == Start(1, "none", 0)
           r2 == [th[t] EXCEPT !.pc = "obey", !.cmd = item]
<1>1. /\ At("commands", {"timers"}) /\ scn' = scn /\ tm' = tm
      /\ \/ k' = k /\ th' = [th EXCEPT ![t] = r1]
         \/ /\ ~IsEmpty(TimerQueue) /\ k' = YieldNow(UnblockFirst(k, Tx(TimerQueue)))
            /\ th' = [th EXCEPT ![t].pc = "obey", ![t].cmd = item]
  BY DEF DaemonReceive
<1>2. /\ QueuesInv /\ t \in Task /\ DOMAIN th[t] = ThreadFields /\ Calm(k) /\ KernelOk(k)
      /\ TimersOk(tm) /\ Flow(k, k)
  BY <1>1, AtStart DEF Held
<1>3. th[t].then \in Afters BY <1>2 DEF SchedulerInv, Running, Control, WaitsInCall
<1>4. ~IsEmpty(TimerQueue) => item.timer \in Timer
  BY <1>2, CommandTaken DEF QueuesInv, AllSound
<1>5. DOMAIN th = Task BY <1>2 DEF QueuesInv, Threads
<1>6. TimerQueue \in Queue BY QueueConstants
<1>7. Tx(TimerQueue) \in EventList \union {Pend} BY <1>6, Handles
<1> HIDE DEF item
<1>8. Calm(k') /\ Flow(k, k') /\ TimersOk(tm') BY <1>1, <1>2, <1>7, FreedIs
<1>9. "commands" \notin Held \union {"yield", "parked", "taken"} BY InService
<1>10. CASE th' = [th EXCEPT ![t] = r1]
  <2>1. r1.pc = "try" /\ r1.then = "try" BY DEF Start
  <2> HIDE DEF r1
  <2>2. r1.pc \notin Held \union {"yield", "fire"} /\ r1.then \in Afters /\ r1.pc # "obey"
    BY <2>1, InService DEF Afters
  <2>3. Running' BY <1>1, <1>8, <1>9, <1>10, <2>2, ServiceMove
  <2> QED BY <2>3
<1>11. CASE ~IsEmpty(TimerQueue) /\ th' = [th EXCEPT ![t].pc = "obey", ![t].cmd = item]
  <2>1. r2.pc = "obey" /\ r2.then = th[t].then /\ r2.cmd = item BY <1>2 DEF ThreadFields
  <2>2. th' = [th EXCEPT ![t] = r2] BY <1>2, <1>5, <1>11
  <2> HIDE DEF r2
  <2>3. r2.pc \notin Held \union {"yield", "fire"} /\ r2.then \in Afters
    BY <1>3, <2>1, InService
  <2>4. r2.cmd.timer \in Timer BY <1>4, <1>11, <2>1
  <2>5. Running' BY <1>1, <1>8, <1>9, <2>2, <2>3, <2>4, ServiceMove
  <2> QED BY <2>5
<1> QED BY <1>1, <1>10, <1>11

LEMMA DaemonObeyRuns == ASSUME SchedulerInv, DaemonObey PROVE Running'
<1> DEFINE t == k.cur
           b == [k |-> k, tm |-> tm]
           c == th[t].cmd
           a == Obey(b, c)
           r == [th[t] EXCEPT !.pc = "commands", !.cmd = Null]
<1>1. /\ At("obey", {"timers"}) /\ scn' = scn /\ k' = a.k /\ tm' = a.tm
      /\ th' = [th EXCEPT ![t].pc = "commands", ![t].cmd = Null]
  BY DEF DaemonObey
<1>2. /\ QueuesInv /\ t \in Task /\ t \in Caller /\ DOMAIN th[t] = ThreadFields /\ Calm(k)
      /\ TimersOk(tm) /\ th[t].pc = "obey"
  BY <1>1, AtStart DEF Held
<1>3. th[t].then \in Afters /\ c.timer \in Timer
  BY <1>2 DEF SchedulerInv, Running, Control, WaitsInCall, DaemonReady
<1>4. DOMAIN th = Task BY <1>2 DEF QueuesInv, Threads
<1>5. th' = [th EXCEPT ![t] = r] BY <1>1, <1>2, <1>4
<1>6. r.pc = "commands" /\ r.then = th[t].then BY <1>2 DEF ThreadFields
<1> HIDE DEF r, c
<1>7. ClientsLive(k) BY <1>1, ServesAlone
<1>8. Serving(k, b) BY <1>2, FlowStays DEF Serving
<1> HIDE DEF b
<1>9. Serving(k, a) BY <1>3, <1>7, <1>8, ObeyIs
<1> HIDE DEF a
<1>10. Calm(k') /\ Flow(k, k') /\ TimersOk(tm') BY <1>1, <1>9 DEF Serving
<1>11. /\ r.pc \notin Held \union {"yield", "fire"} /\ r.then \in Afters /\ r.pc # "obey"
       /\ "obey" \notin Held \union {"yield", "parked", "taken"}
  BY <1>3, <1>6, InService
<1>12. Running' BY <1>1, <1>5, <1>10, <1>11, ServiceMove
<1> QED BY <1>12

----------------------------------------------------------------------------
(* Interrupts and the tick.                                                *)

LEMMA FromISRRuns ==
    ASSUME Calm(k), NEW qs, NEW c \in Channels, qs[c].set \in Channels \union {Null},
           NEW told, FromISR(qs, c, told)
    PROVE  Calm(k') /\ Flow(k, k')
<1> DEFINE a == Arrived(k, qs, c)
<1>1. KernelOk(k) /\ Flow(k, k) BY FlowStays DEF Calm
<1>2. KernelOk(a.k) /\ Flow(k, a.k) BY <1>1, ArrivedIs
<1>3. k' = k \/ k' = YieldNow(a) BY DEF FromISR, Effect
<1> HIDE DEF a
<1> QED BY <1>1, <1>2, <1>3, YieldNowIs

\* The current task is not the one that an interrupt notifies while it waits.
LEMMA OthersWait ==
    ASSUME SchedulerInv, NEW t \in Task, k.sus # 0, k.nstate[t] = "waiting"
    PROVE  t # k.cur
<1>1. th[k.cur].pc \in Held BY DEF SchedulerInv, Running, Control, HeldByCurrent
<1>2. th[t].pc = "taken" BY DEF SchedulerInv, Running, Control, WaitsInCall
<1> QED BY <1>1, <1>2 DEF Held

LEMMA InterruptRuns == ASSUME SchedulerInv, Interrupt PROVE Running'
<1> DEFINE sc == Scenario[scn]
<1>1. scn' = scn /\ th' = th /\ tm' = tm BY DEF Interrupt
<1>2. PICK i \in sc.isr : \/ QueueFromISR(i)
                          \/ i.op = "notify" /\ NotifyISR(i.to, i.v)
                          \/ i.op = "unpark" /\ UnparkFromISR(i.to)
  BY DEF Interrupt
<1>3. QueuesInv /\ Calm(k) /\ KernelOk(k) /\ TimersOk(tm) /\ MortalsDie(k, sc)
  BY DEF SchedulerInv, Running, Calm, Control
<1>4. /\ scn \in DOMAIN Scenario /\ Legal(sc.type, i)
      /\ i.op \in Using => i.to \notin Mortal(sc)
  BY <1>3, ScenariosAreLegal DEF QueuesInv
<1> HIDE DEF sc
<1>5. Calm(k') /\ Flow(k, k')
  <2>1. CASE i.op \in {"send", "overwrite"} /\ SendFromISR(i.q, i.v, i.op)
    <3> DEFINE qs == [queue EXCEPT ![i.q] = CopyTo(i.q, i.v, i.op)]
               told == queue[i.q].set # Null /\ i.op = "overwrite" /\ ~IsEmpty(i.q)
    <3>1. i.q \in Channels BY <1>4, <2>1 DEF Legal
    <3>2. FromISR(qs, i.q, told) BY <2>1 DEF SendFromISR
    <3>3. qs[i.q].set \in Channels \union {Null} BY <1>3, <3>1, CopiedSet
    <3> HIDE DEF qs, told
    <3> QED BY <1>3, <3>1, <3>2, <3>3, FromISRRuns
  <2>2. CASE i.op = "give" /\ GiveFromISR(i.q)
    <3> DEFINE c == i.q
               qs == [queue EXCEPT ![c].n = @ + 1]
    <3>1. c \in Channels BY <1>4, <2>2 DEF Legal
    <3>2. FromISR(qs, c, FALSE) BY <2>2 DEF GiveFromISR
    <3>3. qs[c].set \in Channels \union {Null} BY <1>3, <3>1, MemberOf DEF QueueFields
    <3> HIDE DEF qs, c
    <3> QED BY <1>3, <3>1, <3>2, <3>3, FromISRRuns
  <2>3. CASE i.op = "receive" /\ ReceiveFromISR(i.q)
    <3>1. i.q \in Queue BY <1>4, <2>3 DEF Legal, Channels
    <3>2. Tx(i.q) \in EventList \union {Pend} BY <3>1, Handles
    <3>3. k' = YieldNow(UnblockFirst(k, Tx(i.q))) \/ k' = k BY <2>3 DEF ReceiveFromISR, Freed
    <3> QED BY <1>3, <3>2, <3>3, FreedIs, FlowStays
  <2>4. CASE i.op = "notify" /\ NotifyISR(i.to, i.v)
    <3>1. i.to \in Task /\ Alive(k, i.to)
      BY <1>3, <1>4, <2>4 DEF Legal, OnTask, Using, MortalsDie
    <3>2. k.sus # 0 /\ k.nstate[i.to] = "waiting" => i.to # k.cur BY <3>1, OthersWait
    <3> DEFINE n == NotifyFromISR(k, i.to, i.v)
    <3>3. KernelOk(n.k) /\ Flow(k, n.k) BY <1>3, <3>1, <3>2, NotifyFromISRIs
    <3>4. k' = YieldNow(n) BY <2>4 DEF NotifyISR
    <3> HIDE DEF n
    <3> QED BY <1>3, <3>3, <3>4, YieldNowIs
  <2>5. CASE i.op = "unpark" /\ UnparkFromISR(i.to)
    <3>1. i.to \in Task BY <1>4, <2>5 DEF Legal, OnTask
    <3> QED BY <1>3, <2>5, <3>1, UnparkISRIs
  <2> QED BY <1>2, <2>1, <2>2, <2>3, <2>4, <2>5 DEF QueueFromISR
<1>6. \A u \in Task : Untouched(th[u], th'[u]) BY <1>1 DEF Untouched
<1>7. TimersOk(tm') /\ tm'.current = tm.current BY <1>1, <1>3
<1> QED BY <1>1, <1>5, <1>6, <1>7, StandStill

LEMMA TickRuns == ASSUME SchedulerInv, Tick PROVE Running'
<1> DEFINE n == IncrementTick(k)
           due == [x \in Timer |-> IF x \in tm.active THEN tm.due[x] - 1 ELSE tm.due[x]]
<1>1. scn' = scn /\ th' = th /\ k' = YieldNow(n) /\ tm' = [tm EXCEPT !.due = due] BY DEF Tick
<1>2. Calm(k) /\ KernelOk(k) /\ TimersOk(tm) BY DEF SchedulerInv, Running, Calm
<1>3. KernelOk(n.k) /\ Flow(k, n.k) BY <1>2, TickIs
<1> HIDE DEF n, due
<1>4. Calm(k') /\ Flow(k, k') BY <1>1, <1>2, <1>3, YieldNowIs
<1>5. TimersOk(tm') /\ tm'.current = tm.current BY <1>1, <1>2 DEF TimersOk, TimerFields
<1>6. \A u \in Task : Untouched(th[u], th'[u]) BY <1>1 DEF Untouched
<1> QED BY <1>1, <1>4, <1>5, <1>6, StandStill

LEMMA IdleRuns == ASSUME SchedulerInv, UNCHANGED vars PROVE Running'
<1>1. scn' = scn /\ th' = th /\ k' = k /\ tm' = tm BY DEF vars
<1>2. Calm(k) /\ TimersOk(tm) /\ Flow(k, k) BY FlowStays DEF SchedulerInv, Running
<1>3. \A u \in Task : Untouched(th[u], th'[u]) BY <1>1 DEF Untouched
<1> QED BY <1>1, <1>2, <1>3, StandStill

LEMMA StepRuns == ASSUME SchedulerInv, [Next]_vars PROVE SchedulerInv'
<1>1. QueuesInv' BY StepKept DEF SchedulerInv, Kept
<1>2. Running'
  BY QueueStepRuns, TaskStepRuns, ResumeRuns, YieldRuns, SetEventsRuns, SimpleCalls,
     WaitEventsRuns, SyncEventsRuns, EventsAwaitedRuns, OtherCalls, PostRuns, DaemonLookRuns,
     DaemonFireRuns, DaemonReceiveRuns, DaemonObeyRuns, InterruptRuns, TickRuns, IdleRuns
     DEF Next
<1> QED BY <1>1, <1>2 DEF SchedulerInv

----------------------------------------------------------------------------
(* The first state.                                                        *)

\* A sequence of the members of a finite set has each of them once.
LEMMA Listed ==
    ASSUME NEW S, IsFiniteSet(S)
    PROVE  /\ SetToSeq(S) \in Seq(S) /\ IsInjective(SetToSeq(S))
           /\ \A t : Contains(SetToSeq(S), t) <=> t \in S
<1> DEFINE n == Cardinality(S)
           s == SetToSeq(S)
<1>1. n \in Nat /\ ExistsBijection(1 .. n, S) BY FS_CardinalityType
<1>2. PICK f \in [1 .. n -> S] : IsInjective(f) /\ \A x \in S : \E i \in 1 .. n : f[i] = x
  BY <1>1 DEF ExistsBijection, Bijection, Injection, Surjection, IsInjective
<1>3. s \in [1 .. n -> S] /\ IsInjective(s)
  BY <1>2, Zenon DEF SetToSeq
<1> HIDE DEF s
<1>4. s \in Seq(S) /\ Len(s) = n BY <1>1, <1>3
<1>5. s \in Injection(1 .. n, S) BY <1>3 DEF Injection, IsInjective
<1>6. IsFiniteSet(1 .. n) /\ Cardinality(1 .. n) = n
  BY <1>1, FS_Interval
<1>7. s \in Surjection(1 .. n, S)
  BY <1>5, <1>6, FS_Injection DEF Surjection
<1>8. \A x \in S : \E i \in 1 .. n : s[i] = x BY <1>7 DEF Surjection
<1>9. \A t : Contains(s, t) <=> t \in S BY <1>3, <1>4, <1>8 DEF Contains
<1> QED BY <1>3, <1>4, <1>9 DEF s

\* A finite set of numbers has a largest one: else take the smallest of its
\* parts that have none.
LEMMA LargestOf ==
    ASSUME NEW S \in SUBSET Nat, IsFiniteSet(S), S # {}
    PROVE  Max(S) \in S /\ \A y \in S : Max(S) >= y
<1> DEFINE Bad(T) == T # {} /\ ~\E x \in T : \A y \in T : x >= y
           N == {n \in Nat : \E T \in SUBSET S : Bad(T) /\ Cardinality(T) = n}
<1>1. \A T \in SUBSET S : IsFiniteSet(T) /\ Cardinality(T) \in Nat
  BY FS_Subset, FS_CardinalityType
<1>2. N = {}
  <2> SUFFICES ASSUME N # {} PROVE FALSE OBVIOUS
  <2>1. PICK n \in N : \A m \in N : n <= m BY LeastOf
  <2>2. PICK T \in SUBSET S : Bad(T) /\ Cardinality(T) = n BY <2>1
  <2>3. PICK x \in T : TRUE BY <2>2
  <2> DEFINE R == T \ {x}
  <2>4. R \in SUBSET S /\ Cardinality(R) = n - 1 BY <1>1, <2>2, <2>3, FS_RemoveElement
  <2>5. ~Bad(R)
    <3>1. SUFFICES ASSUME Bad(R) PROVE FALSE OBVIOUS
    <3>2. n - 1 \in Nat BY <1>1, <2>4
    <3>3. n - 1 \in N BY <2>4, <3>1, <3>2
    <3> QED BY <2>1, <3>2, <3>3
  <2>6. \A y \in T : y \in Nat BY <2>2
  <2>7. CASE R = {} BY <2>2, <2>3, <2>6, <2>7
  <2>8. CASE R # {}
    <3>1. PICK z \in R : \A y \in R : z >= y BY <2>5, <2>8
    <3>2. CASE x >= z BY <2>2, <2>3, <2>6, <3>1, <3>2
    <3>3. CASE ~(x >= z) BY <2>2, <2>3, <2>6, <3>1, <3>3
    <3> QED BY <3>2, <3>3
  <2> QED BY <2>7, <2>8
<1>3. ~Bad(S)
  <2> SUFFICES ASSUME Bad(S) PROVE FALSE OBVIOUS
  <2>1. Cardinality(S) \in N BY <1>1
  <2> QED BY <1>2, <2>1
<1>4. \E x \in S : \A y \in S : x >= y BY <1>3
<1> QED BY <1>4, Zenon DEF Max

\* The tasks of a priority.
LEMMA CreatedAt ==
    ASSUME NEW p
    PROVE  /\ Created(p) \in Lists
           /\ \A t : Contains(Created(p), t) <=> t \in Task /\ BasePrio[t] = p
<1> DEFINE S == {t \in Task : BasePrio[t] = p}
<1>1. S \in SUBSET Task /\ IsFiniteSet(S) BY KernelConstants, FS_Subset
<1>2. /\ SetToSeq(S) \in Seq(S) /\ IsInjective(SetToSeq(S))
      /\ \A t : Contains(SetToSeq(S), t) <=> t \in S
  BY <1>1, Listed
<1>3. Created(p) = SetToSeq(S) BY Zenon DEF Created
<1>4. \A t : t \in S <=> t \in Task /\ BasePrio[t] = p OBVIOUS
<1> DEFINE c == SetToSeq(S)
<1> HIDE DEF S
<1>5. c \in Seq(Task) 
  <2> HIDE DEF c
  <2>1. c \in Seq(S) BY <1>2 DEF c
  <2> QED BY <1>1, <2>1
<1> QED BY <1>2, <1>3, <1>4, <1>5 DEF Lists

LEMMA HighestPriority ==
    /\ Max(Prio) \in Prio /\ \A p \in Prio : p <= Max(Prio)
<1>1. Prio \subseteq Nat /\ Idle \in Task /\ IsFiniteSet(Task) BY Priorities, KernelConstants
<1>2. BasePrio \in Surjection(Task, Prio)
  BY KernelConstants DEF Prio, Surjection
<1>3. IsFiniteSet(Prio) BY <1>1, <1>2, FS_Surjection
<1>4. BasePrio[Idle] \in Prio BY <1>1 DEF Prio
<1>5. Max(Prio) \in Prio /\ \A p \in Prio : Max(Prio) >= p
  BY <1>1, <1>3, <1>4, LargestOf
<1> QED BY <1>1, <1>5

LEMMA KernelStarts ==
    ASSUME k = KernelInit
    PROVE  /\ Calm(k) /\ Settled(k) /\ k.sus = 0
           /\ \A t \in Task : Alive(k, t) /\ k.nstate[t] = "none"
<1> DEFINE E == EventList \union {Pend}
           m == Max(Prio)
<1>1. DOMAIN k = KernelFields BY DEF KernelInit, KernelFields
<1>2. /\ k.cur = Last(Created(m)) /\ k.top = m
      /\ k.ready = [p \in Prio |-> [q |-> Created(p), at |-> 0]]
      /\ k.delayed = <<>> /\ k.overflow = <<>> /\ k.suspended = {}
      /\ k.dead = <<>> /\ k.gone = {}
  BY DEF KernelInit
<1>3. /\ k.ev = [l \in E |-> <<>>] /\ k.evprio = BasePrio /\ k.prio = BasePrio
      /\ k.base = BasePrio /\ k.nstate = [t \in Task |-> "none"] /\ k.sus = 0 /\ k.pended = 0
  BY DEF KernelInit
<1>4. m \in Prio /\ \A p \in Prio : p <= m BY HighestPriority
<1> HIDE DEF m, E
<1>5. BasePrio \in [Task -> Prio] /\ Prio \subseteq Nat /\ Idle \in Task
  BY KernelConstants, Priorities
<1>6. k.cur \in Task
  <2> DEFINE c == Created(m)
  <2>1. PICK t \in Task : BasePrio[t] = m BY <1>4 DEF Prio
  <2>2. c \in Lists /\ Contains(c, t) BY <2>1, CreatedAt
  <2>3. k.cur = c[Len(c)] BY <1>2 DEF Last
  <2> HIDE DEF c
  <2>4. c \in Seq(Task) /\ Len(c) \in Nat /\ Len(c) # 0 BY <2>2 DEF Lists, Contains
  <2> QED BY <2>3, <2>4
<1>7. <<>> \in Lists /\ \A t : ~Contains(<<>>, t) BY DEF Lists, IsInjective, Contains
<1>8. \A p \in Prio : k.ready[p] \in ReadyList /\ k.ready[p].q = Created(p)
  <2> TAKE p \in Prio
  <2> DEFINE l == [q |-> Created(p), at |-> 0]
  <2>1. k.ready[p] = l BY <1>2
  <2>2. Created(p) \in Lists BY CreatedAt
  <2>3. Len(Created(p)) \in Nat BY <2>2 DEF Lists
  <2> QED BY <2>1, <2>2, <2>3 DEF ReadyList
<1>9. KernelTypes(k)
  <2>1. k.ready \in [Prio -> ReadyList] BY <1>2, <1>8
  <2>2. k.ev \in [E -> Lists] BY <1>3, <1>7
  <2>3. \A p \in Prio : k.ready[p].q # <<>> => p <= k.top BY <1>2, <1>4
  <2> QED BY <1>1, <1>2, <1>3, <1>4, <1>5, <1>6, <1>7, <2>1, <2>2, <2>3 DEF KernelTypes, E
<1>10. \A t \in Task, p \in Prio : ReadyAt(k, t, p) <=> p = BasePrio[t]
  BY <1>8, CreatedAt DEF ReadyAt
<1>11. \A t \in Task, x \in Places : IsAt(k, t, x) <=> x = "ready"
  <2> TAKE t \in Task, x \in Places
  <2>1. BasePrio[t] \in Prio BY <1>5
  <2>2. IsAt(k, t, "ready") BY <1>10, <2>1, IsAtPlace
  <2>3. ~IsAt(k, t, "delayed") BY <1>2, <1>7, IsAtPlace
  <2>4. ~IsAt(k, t, "overflow") BY <1>2, <1>7, IsAtPlace
  <2>5. ~IsAt(k, t, "suspended") BY <1>2, IsAtPlace
  <2>6. ~IsAt(k, t, "dead") BY <1>2, <1>7, IsAtPlace
  <2>7. ~IsAt(k, t, "gone") BY <1>2, IsAtPlace
  <2> QED BY <2>2, <2>3, <2>4, <2>5, <2>6, <2>7 DEF Places
<1>12. "ready" \in Places /\ "suspended" \in Places /\ "dead" \in Places /\ "gone" \in Places
  BY DEF Places
<1>13. Placed(k)
  BY <1>3, <1>5, <1>10, <1>11, <1>12 DEF Placed, OnePlace
<1>14. \A t : \A l \in E : ~InEvent(k, t, l) BY <1>3, <1>7 DEF InEvent
<1>15. Evented(k) BY <1>14 DEF Evented, E
<1>16. \A t \in Task : Alive(k, t) BY <1>11, <1>12 DEF Alive
<1>17. Settled(k) BY <1>6, <1>11, <1>12, <1>14, <1>16 DEF Settled, E
<1>18. NonePending(k) BY <1>14 DEF NonePending, E
<1> QED BY <1>3, <1>9, <1>13, <1>15, <1>16, <1>17, <1>18 DEF Calm, KernelOk

LEMMA InitRuns == ASSUME Init PROVE SchedulerInv
<1> DEFINE p == Start(1, "none", 0)
           sc == Scenario[scn]
<1>1. k = KernelInit /\ tm = InitTimers /\ th = [t \in Task |-> p] BY DEF Init
<1>2. p.pc = "try" /\ p.then = "try" BY DEF Start
<1> HIDE DEF p, sc
<1>3. \A t \in Task : th[t].pc = "try" /\ th[t].then = "try" BY <1>1, <1>2
<1>4. /\ Calm(k) /\ Settled(k) /\ k.sus = 0
      /\ \A t \in Task : Alive(k, t) /\ k.nstate[t] = "none"
  BY <1>1, KernelStarts
<1>5. k.cur \in Task BY <1>4, CurIsTask DEF Calm
<1>6. TimersOk(tm) BY <1>1 DEF TimersOk, TimerFields, InitTimers
<1>7. HeldByCurrent(k, th) BY <1>3, <1>4, <1>5 DEF HeldByCurrent, Held
<1>8. WaitsInCall(k, th) BY <1>3, <1>4 DEF WaitsInCall, Afters
<1>9. CurrentRuns(k, th, sc) BY <1>4 DEF CurrentRuns
<1>10. MortalsDie(k, sc) BY <1>4 DEF MortalsDie
<1>11. DaemonReady(th, tm, sc) BY <1>3 DEF DaemonReady, Firing, Caller
<1>12. Control(k, th, tm, sc) BY <1>7, <1>8, <1>9, <1>10, <1>11 DEF Control
<1>13. Running BY <1>4, <1>6, <1>12 DEF Running, sc
<1> QED BY <1>13, InitKept DEF SchedulerInv

LEMMA SchedulerListsAgree == ASSUME SchedulerInv PROVE ListsAgree
<1> DEFINE E == EventList \union {Pend}
<1>1. KernelOk(k) BY DEF SchedulerInv, Running, Calm
<1>2. KernelTypes(k) /\ Placed(k) /\ Evented(k) BY <1>1 DEF KernelOk
<1>3. \A s \in StateLists \union EventLists : IsInjective(s)
  <2>1. \A p \in Prio : k.ready[p].q \in Lists BY <1>2 DEF KernelTypes, ReadyList
  <2>2. k.delayed \in Lists /\ k.overflow \in Lists /\ k.dead \in Lists BY <1>2 DEF KernelTypes
  <2>3. \A l \in DOMAIN k.ev : k.ev[l] \in Lists BY <1>2 DEF KernelTypes
  <2>4. \A s \in StateLists \union EventLists : s \in Lists
    BY <2>1, <2>2, <2>3 DEF StateLists, EventLists
  <2> QED BY <2>4 DEF Lists
<1>4. DOMAIN k.ev = E BY <1>2 DEF KernelTypes
<1>5. \A t \in Task, l \in DOMAIN k.ev : InEvent(k, t, l) =>
          /\ Alive(k, t)
          /\ l # Pend => ~IsAt(k, t, "ready")
          /\ \A m \in DOMAIN k.ev : InEvent(k, t, m) => m = l
  BY <1>2, <1>4 DEF Evented
<1> SUFFICES ASSUME NEW t \in Task
             PROVE  /\ Cardinality({place \in Places : IsAt(k, t, place)}) = 1
                    /\ \A p \in Prio : Contains(k.ready[p].q, t) => p = k.prio[t]
                    /\ Cardinality({l \in DOMAIN k.ev : Contains(k.ev[l], t)}) <= 1
                    /\ \A l \in DOMAIN k.ev \ {Pend} :
                          Contains(k.ev[l], t) => ~IsReady(k, t) /\ t \notin Deleted
  BY <1>3 DEF ListsAgree
<1>6. Cardinality({place \in Places : IsAt(k, t, place)}) = 1
  <2>1. PICK place \in Places : \A x \in Places : IsAt(k, t, x) <=> x = place
    BY <1>2 DEF Placed, OnePlace
  <2>2. {x \in Places : IsAt(k, t, x)} = {place} BY <2>1
  <2> QED BY <2>2, FS_Singleton
<1>7. \A p \in Prio : Contains(k.ready[p].q, t) => p = k.prio[t]
  BY <1>2 DEF Placed, ReadyAt
<1>8. Cardinality({l \in DOMAIN k.ev : Contains(k.ev[l], t)}) <= 1
  <2> DEFINE In == {l \in DOMAIN k.ev : Contains(k.ev[l], t)}
  <2>1. \A l, m \in In : l = m BY <1>5 DEF InEvent
  <2> HIDE DEF In
  <2>2. CASE In = {} BY <2>2, FS_EmptySet DEF In
  <2>3. CASE In # {}
    <3>1. PICK l : In = {l} BY <2>1, <2>3
    <3>2. Cardinality(In) = 1 BY <3>1, FS_Singleton
    <3> QED BY <3>2 DEF In
  <2> QED BY <2>2, <2>3
<1>9. ASSUME NEW l \in DOMAIN k.ev \ {Pend}, Contains(k.ev[l], t)
      PROVE  ~IsReady(k, t) /\ t \notin Deleted
  <2>1. Alive(k, t) /\ ~IsAt(k, t, "ready") BY <1>5, <1>9 DEF InEvent
  <2>2. k.prio[t] \in Prio BY <1>2 DEF KernelTypes
  <2>3. ~IsReady(k, t) BY <2>1, <2>2, IsAtPlace DEF ReadyAt, IsReady
  <2>4. ~Contains(k.dead, t) /\ t \notin k.gone BY <2>1, IsAtPlace DEF Alive
  <2>5. k.dead \in Seq(Task) BY <1>2 DEF KernelTypes, Lists
  <2>6. t \notin ToSet(k.dead) BY <2>4, <2>5 DEF ToSet, Contains
  <2> QED BY <2>3, <2>4, <2>6 DEF Deleted
<1> QED BY <1>6, <1>7, <1>8, <1>9

\* Whatever the tasks, their priorities, their calls, the timers and the interrupts: a
\* task is in exactly one state list, once, at its current priority if it is ready, and in
\* at most one event list, in which it waits for an object only if it is neither
\* ready nor deleted. No path of the kernel forgets one of the two lists of a task.
THEOREM ListsStayRight == Spec => []ListsAgree
<1>1. Init => SchedulerInv BY InitRuns
<1>2. SchedulerInv /\ [Next]_vars => SchedulerInv' BY StepRuns
<1>3. SchedulerInv => ListsAgree BY SchedulerListsAgree
<1> QED BY <1>1, <1>2, <1>3, PTL DEF Spec
=============================================================================
