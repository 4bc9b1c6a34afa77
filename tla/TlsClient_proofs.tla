-------------------------- MODULE TlsClient_proofs --------------------------
(***************************************************************************)
(* Theorems about the TLS connection, for any number of addresses, of      *)
(* attempts, of late answers and of bytes, and any size of the stream      *)
(* buffer: what is allocated is known, what is said to be connected is so, *)
(* and the bytes stay in order.                                            *)
(***************************************************************************)
EXTENDS TlsClient, SequenceTheorems, TLAPS

(* The part of TypeOK that the argument needs. *)
Shape == /\ cell \in [Cells -> {"unused", "live", "freed"}]
         /\ pcb \in [Cells -> {"none", "idle", "connecting", "open"}]
         /\ complete \in [Cells -> BOOLEAN]
         /\ connected \in [Cells -> BOOLEAN]
         /\ state \in Cells \cup {Null}
         /\ task \in {"apart", "close", "free", "wifi", "wait", "judge",
                      "session", "write", "writing", "writeFailed"}
         /\ goal \in {"apart", "wifi"}

Established == {"session", "write", "writing", "writeFailed"}

(* The task has an object exactly while it is at one. *)
Held == /\ state # Null => Live(state)
        /\ task \in {"apart", "wifi"} => state = Null
        /\ task \in Established \cup {"free", "wait", "judge"} => state # Null

(* A pcb that waits for its connection is not given up, one that had a     *)
(* connection does not get another, and what is being closed stays         *)
(* complete, which is what a late answer looks at.                         *)
Closing == /\ \A a \in Cells : pcb[a] = "connecting" => ~complete[a]
           /\ task \in Established => pcb[state] \in {"open", "none"}
           /\ task = "free" => pcb[state] = "none" /\ complete[state]
           /\ task = "writeFailed" => complete[state]

IInv == Shape /\ NothingLeaks /\ ConnectedIsOpen /\ Held /\ Closing

(* Nothing is allocated at power-up. *)
LEMMA InitIInv == Init => IInv
BY CellsAssumption
   DEF Init, IInv, Shape, NothingLeaks, ConnectedIsOpen, Held, Closing,
       Established, Live

(* What the lock protects: closing the object of the task. *)
LEMMA CloseKeeps ==
    ASSUME IInv, NEW a \in Cells, Live(a), tls_client_close(a),
           UNCHANGED <<cell, state, task, goal>>
    PROVE  IInv'
BY DEF IInv, Shape, NothingLeaks, ConnectedIsOpen, Held, Closing,
       Established, Live, tls_client_close

(* The task opens, waits and closes. *)
LEMMA AttemptKeeps == ASSUME IInv, StartAttempt \/ GiveUp \/ Attempt PROVE IInv'
<1> USE CellsAssumption
    DEF IInv, Shape, NothingLeaks, ConnectedIsOpen, Held, Closing,
        Established, Live, object
<1>1. ASSUME StartAttempt \/ GiveUp PROVE IInv'
  BY <1>1 DEF StartAttempt, GiveUp
<1>2. ASSUME CloseLocked PROVE IInv'
  <2>1. CASE state = Null
    BY <1>2, <2>1 DEF CloseLocked
  <2>2. CASE state # Null
    BY <1>2, <2>2 DEF CloseLocked, tls_client_close
  <2> QED BY <2>1, <2>2
<1>3. ASSUME FreeState PROVE IInv'
  BY <1>3 DEF FreeState
<1>4. ASSUME WifiFails \/ WaitEnds \/ TimesOut \/ Judge PROVE IInv'
  BY <1>4 DEF WifiFails, WaitEnds, TimesOut, Judge
<1>5. ASSUME Open PROVE IInv'
  <2>1. state = Null /\ \A a \in Cells : ~Live(a) /\ pcb[a] = "none"
    BY <1>5 DEF Open
  <2>2. PICK a \in Cells : /\ cell' = [cell EXCEPT ![a] = "live"]
                           /\ connected' = [connected EXCEPT ![a] = FALSE]
                           /\ state' = a
                           /\ OpenOn(a)
    BY <1>5 DEF Open
  <2>3. goal' = "apart"
    BY <1>5 DEF Open
  <2> QED BY <2>1, <2>2, <2>3 DEF OpenOn
<1> QED BY <1>1, <1>2, <1>3, <1>4, <1>5 DEF Attempt

(* The task reads and writes. *)
LEMMA UseKeeps ==
    ASSUME IInv,
           ReadBytes \/ WriteBegins \/ WriteCalls \/ WriteReturns
             \/ CloseUnlocked
    PROVE  IInv'
<1> USE CellsAssumption
    DEF IInv, Shape, NothingLeaks, ConnectedIsOpen, Held, Closing,
        Established, Live, object
<1>1. ASSUME ReadBytes \/ WriteBegins \/ WriteCalls PROVE IInv'
  BY <1>1 DEF ReadBytes, WriteBegins, WriteCalls
<1>2. ASSUME WriteReturns PROVE IInv'
  BY <1>2 DEF WriteReturns
<1>3. ASSUME CloseUnlocked PROVE IInv'
  BY <1>3 DEF CloseUnlocked
<1> QED BY <1>1, <1>2, <1>3

(* The callbacks, with whatever address they get. *)
LEMMA ThreadKeeps == ASSUME IInv, Thread PROVE IInv'
<1> USE DEF IInv, Shape, NothingLeaks, ConnectedIsOpen, Held, Closing,
            Established, Live, object
<1>1. ASSUME Collision \/ Store PROVE IInv'
  BY <1>1 DEF Collision, Store
<1>2. ASSUME NEW a \in Cells, tls_client_dns_found(a) PROVE IInv'
  <2>1. CASE ~Live(a) \/ complete[a]
    BY <1>2, <2>1 DEF tls_client_dns_found
  <2>2. CASE Live(a) /\ ~complete[a]
    <3>1. /\ tls_client_connect_to_server_ip(a) \/ tls_client_close(a)
          /\ UNCHANGED <<cell, state, task, goal>>
      BY <1>2, <2>2 DEF tls_client_dns_found
    <3>2. CASE tls_client_close(a)
      BY <2>2, <3>1, <3>2, CloseKeeps
    <3>3. CASE pcb[a] = "idle" /\ pcb' = [pcb EXCEPT ![a] = "connecting"]
                 /\ UNCHANGED <<complete, connected>>
      BY <2>2, <3>1, <3>3
    <3> QED BY <3>1, <3>2, <3>3 DEF tls_client_connect_to_server_ip
  <2> QED BY <2>1, <2>2
<1>3. ASSUME NEW a \in Cells, tls_client_connected(a) PROVE IInv'
  <2>1. Live(a) /\ UNCHANGED <<cell, state, task, goal>>
    BY <1>3 DEF tls_client_connected
  <2>2. CASE tls_client_close(a)
    BY <2>1, <2>2, CloseKeeps
  <2>3. CASE /\ pcb' = [pcb EXCEPT ![a] = "open"]
             /\ connected' = [connected EXCEPT ![a] = TRUE]
             /\ UNCHANGED complete
    BY <1>3, <2>1, <2>3 DEF tls_client_connected
  <2> QED BY <1>3, <2>2, <2>3 DEF tls_client_connected
<1>4. ASSUME NEW a \in Cells, tls_client_err(a) \/ RecvEnd(a) PROVE IInv'
  <2>1. /\ Live(a) /\ tls_client_close(a)
        /\ UNCHANGED <<cell, state, task, goal>>
    BY <1>4 DEF tls_client_err, RecvEnd
  <2> QED BY <2>1, CloseKeeps
<1>5. ASSUME NEW a \in Cells, RecvData(a) PROVE IInv'
  BY <1>5 DEF RecvData
<1> QED BY <1>1, <1>2, <1>3, <1>4, <1>5 DEF Thread

LEMMA Stutters == ASSUME IInv, UNCHANGED vars PROVE IInv'
BY DEF IInv, Shape, NothingLeaks, ConnectedIsOpen, Held, Closing,
       Established, Live, vars, object

LEMMA Inductive == Spec => []IInv
<1>1. IInv /\ [Next]_vars => IInv'
  BY AttemptKeeps, UseKeeps, ThreadKeeps, Stutters DEF Next, Network
<1> QED BY <1>1, InitIInv, PTL DEF Spec

(* Every path out of tls_connect, tls_close and the callbacks, in any      *)
(* order, gives back what it allocated but for the one object the task     *)
(* knows.                                                                  *)
THEOREM NoLeak == Spec => []NothingLeaks
<1>1. IInv => NothingLeaks
  BY DEF IInv
<1> QED BY <1>1, Inductive, PTL

(* A connection that tls_client_is_connected reports has an open pcb, is   *)
(* not complete and is the task's own, although the task writes and closes *)
(* without the lock and lookups answer late.                               *)
THEOREM ConnectedMeansOpen == Spec => []ConnectedIsOpen
<1>1. IInv => ConnectedIsOpen
  BY DEF IInv
<1> QED BY <1>1, Inductive, PTL

-----------------------------------------------------------------------------
(* Bytes: <<connection, number>>.                                          *)
Byte == (1 .. MaxConnects) \X (1 .. MaxBytes)

(* InOrder, for any sequence of bytes q, connection o, next byte x and     *)
(* number s of bytes sent.                                                 *)
InLine(q, o, x, s) ==
    \E old \in 0 .. Len(q) :
       /\ x + (Len(q) - old) = s + 1
       /\ \A i \in 1 .. old : q[i][1] # o
       /\ \A i \in old + 1 .. Len(q) : q[i] = <<o, x + (i - old) - 1>>

LEMMA InOrderInLine ==
    InOrder <=> (~dropped => InLine(stream \o incoming, opened, next, sent))
BY DEF InOrder, InLine

(* r is what the first n bytes of q leave.                                 *)
Rest(r, q, n) == /\ r \in Seq(Byte) /\ n \in 1 .. Len(q)
                 /\ Len(r) = Len(q) - n
                 /\ \A i \in 1 .. Len(r) : r[i] = q[n + i]

(* Reading the first n bytes, r being the rest.                            *)
LEMMA ReadInLine ==
    ASSUME NEW q \in Seq(Byte), NEW n, NEW r, Rest(r, q, n),
           NEW o, NEW x \in Nat, NEW s \in Nat, InLine(q, o, x, s)
    PROVE  InLine(r, o, IF q[n][1] = o THEN q[n][2] + 1 ELSE x, s)
<1> DEFINE l == Len(q)
           m == Len(r)
<1>1. PICK old \in 0 .. l :
         /\ x + (l - old) = s + 1
         /\ \A i \in 1 .. old : q[i][1] # o
         /\ \A i \in old + 1 .. l : q[i] = <<o, x + (i - old) - 1>>
  BY DEF InLine
<1>2. l \in Nat /\ m \in Nat /\ m = l - n /\ n \in 1 .. l /\ old \in 0 .. l
  BY LenProperties DEF Rest
<1>3. \A i \in 1 .. m : r[i] = q[n + i]
  BY DEF Rest
<1> HIDE DEF l, m
<1>4. CASE n <= old
  <2>1. q[n][1] # o
    BY <1>1, <1>2, <1>4
  <2>2. old - n \in 0 .. m
    BY <1>2, <1>4
  <2>3. x + (m - (old - n)) = s + 1
    BY <1>1, <1>2, <1>4
  <2>4. ASSUME NEW i \in 1 .. old - n
        PROVE  r[i][1] # o
    <3>1. i \in 1 .. m /\ n + i \in 1 .. old
      BY <1>2, <1>4, <2>4
    <3>2. r[i] = q[n + i]
      BY <1>3, <3>1
    <3>3. q[n + i][1] # o
      BY <1>1, <3>1
    <3> QED
      BY <3>2, <3>3
  <2>5. ASSUME NEW i \in old - n + 1 .. m
        PROVE  r[i] = <<o, x + (i - (old - n)) - 1>>
    <3>1. i \in 1 .. m /\ n + i \in old + 1 .. l
      BY <1>2, <1>4, <2>5
    <3>2. r[i] = q[n + i]
      BY <1>3, <3>1
    <3> DEFINE p == n + i
    <3>3. p \in old + 1 .. l
      BY <3>1
    <3>4. x + (p - old) - 1 = x + (i - (old - n)) - 1
      BY <1>2, <3>1
    <3> HIDE DEF p
    <3>5. q[p] = <<o, x + (p - old) - 1>>
      BY <1>1, <3>3
    <3> QED
      BY <3>2, <3>4, <3>5 DEF p
  <2> QED
    BY <2>1, <2>2, <2>3, <2>4, <2>5 DEF InLine, m
<1>5. CASE n > old
  <2>1. q[n] = <<o, x + (n - old) - 1>>
    BY <1>1, <1>2, <1>5
  <2> DEFINE y == x + (n - old)
  <2>2. q[n][1] = o /\ q[n][2] + 1 = y
    BY <1>2, <2>1
  <2>3. y + (m - 0) = s + 1
    BY <1>1, <1>2
  <2>4. ASSUME NEW i \in 0 + 1 .. m
        PROVE  r[i] = <<o, y + (i - 0) - 1>>
    <3>1. i \in 1 .. m /\ n + i \in old + 1 .. l
      BY <1>2, <1>5, <2>4
    <3> DEFINE p == n + i
    <3>2. r[i] = q[p]
      BY <1>3, <3>1
    <3>3. x + (p - old) - 1 = y + (i - 0) - 1
      BY <1>2, <3>1
    <3>4. p \in old + 1 .. l
      BY <3>1
    <3> HIDE DEF p, y
    <3> QED
      BY <1>1, <3>2, <3>3, <3>4
  <2>5. 0 \in 0 .. m
    BY <1>2
  <2>6. InLine(r, o, y, s)
    <3> HIDE DEF y
    <3>1. \A i \in 1 .. 0 : r[i][1] # o
      OBVIOUS
    <3>2. \E k \in 0 .. m : /\ y + (m - k) = s + 1
                            /\ \A i \in 1 .. k : r[i][1] # o
                            /\ \A i \in k + 1 .. m :
                                  r[i] = <<o, y + (i - k) - 1>>
      BY <2>3, <2>4, <2>5, <3>1, Zenon
    <3> QED
      BY <3>2, Zenon DEF InLine, m
  <2> HIDE DEF y
  <2> QED
    BY <2>2, <2>6
<1> QED
  BY <1>2, <1>4, <1>5

(* The bytes s + 1 .. s + k of the connection o come after q.              *)
LEMMA ReceiveInLine ==
    ASSUME NEW q \in Seq(Byte), NEW k \in Nat, NEW r \in Seq(Byte),
           NEW o, NEW x \in Nat, NEW s \in Nat,
           Len(r) = Len(q) + k, \A i \in 1 .. Len(q) : r[i] = q[i],
           \A i \in 1 .. k : r[Len(q) + i] = <<o, s + i>>,
           InLine(q, o, x, s)
    PROVE  InLine(r, o, x, s + k)
<1> DEFINE l == Len(q)
           m == Len(r)
<1>1. PICK old \in 0 .. l :
         /\ x + (l - old) = s + 1
         /\ \A i \in 1 .. old : q[i][1] # o
         /\ \A i \in old + 1 .. l : q[i] = <<o, x + (i - old) - 1>>
  BY DEF InLine
<1>2. l \in Nat /\ m \in Nat /\ m = l + k /\ old \in 0 .. l
  BY LenProperties
<1>3. /\ \A i \in 1 .. l : r[i] = q[i]
      /\ \A i \in 1 .. k : r[l + i] = <<o, s + i>>
  OBVIOUS
<1> HIDE DEF l, m
<1>4. x + (m - old) = s + k + 1 /\ old \in 0 .. m
  BY <1>1, <1>2
<1>5. \A i \in 1 .. old : r[i][1] # o
  BY <1>3, <1>1, <1>2
<1>6. ASSUME NEW i \in old + 1 .. m
      PROVE  r[i] = <<o, x + (i - old) - 1>>
  <2>1. CASE i <= l
    BY <1>3, <1>1, <1>2, <2>1
  <2>2. CASE i > l
    <3>1. i - l \in 1 .. k /\ l + (i - l) = i
      BY <1>2, <1>6, <2>2
    <3>2. r[i] = <<o, s + (i - l)>>
      BY <1>3, <3>1
    <3>3. s + (i - l) = x + (i - old) - 1
      BY <1>1, <1>2, <1>6
    <3> QED
      BY <3>2, <3>3
  <2> QED
    BY <1>2, <2>1, <2>2
<1> QED
  BY <1>4, <1>5, <1>6 DEF InLine, m

(* After a new connection all bytes are old ones.                          *)
LEMMA OpenInLine ==
    ASSUME NEW q \in Seq(Byte), NEW o, \A i \in 1 .. Len(q) : q[i][1] # o
    PROVE  InLine(q, o, 1, 0)
<1>1. Len(q) \in Nat
  BY LenProperties
<1>2. Len(q) \in 0 .. Len(q) /\ 1 + (Len(q) - Len(q)) = 0 + 1
  BY <1>1
<1>3. \A i \in Len(q) + 1 .. Len(q) : q[i] = <<o, 1 + (i - Len(q)) - 1>>
  BY <1>1
<1> QED
  BY <1>2, <1>3 DEF InLine

-----------------------------------------------------------------------------
(* What is counted: lookups and connections.                               *)
Counted == /\ lookups \in [Cells -> Nat]
           /\ \A a \in Cells : lookups[a] <= opened
           /\ opened \in 0 .. MaxConnects
           /\ state # Null => opened > 0
           /\ halted \in BOOLEAN

LEMMA BoundsAreNat == MaxConnects \in Nat /\ MaxBytes \in Nat
BY SizesAssumption

LEMMA InitCounted == Init => Counted
<1>1. Init => halted \in BOOLEAN
  BY Zenon DEF Init
<1> QED
  BY <1>1, BoundsAreNat DEF Init, Counted

(* A lookup is begun by an attempt only, which counts as a connection.     *)
LEMMA CountedKeeps == ASSUME IInv, Counted, [Next]_vars PROVE Counted'
<1> USE CellsAssumption, SizesAssumption DEF Counted, IInv, Shape
<1>1. ASSUME StartAttempt \/ GiveUp \/ WifiFails \/ WaitEnds \/ TimesOut
               \/ Judge \/ ReadBytes \/ WriteBegins \/ WriteCalls
               \/ WriteReturns \/ CloseUnlocked \/ CloseLocked \/ FreeState
               \/ Collision \/ Store
      PROVE  Counted'
  <2>1. /\ UNCHANGED <<lookups, opened>>
        /\ state' \in {state, Null}
        /\ halted' \in BOOLEAN
    BY <1>1 DEF StartAttempt, GiveUp, WifiFails, WaitEnds, TimesOut, Judge,
                ReadBytes, WriteBegins, WriteCalls, WriteReturns,
                CloseUnlocked, CloseLocked, FreeState, Collision, Store,
                object
  <2> QED
    BY <2>1
<1>2. ASSUME Open PROVE Counted'
  <2>1. PICK a \in Cells : state' = a /\ OpenOn(a)
    BY <1>2 DEF Open
  <2>2. opened < MaxConnects /\ opened' = opened + 1
    BY <1>2 DEF Open
  <2>3. \/ lookups' = lookups
        \/ lookups' = [lookups EXCEPT ![a] = @ + 1]
    BY <2>1 DEF OpenOn
  <2>4. halted' \in BOOLEAN
    BY <2>1 DEF OpenOn
  <2> QED
    BY <2>1, <2>2, <2>3, <2>4
<1>3. ASSUME NEW a \in Cells, tls_client_dns_found(a) PROVE Counted'
  <2>1. /\ lookups[a] > 0
        /\ lookups' = [lookups EXCEPT ![a] = @ - 1]
        /\ UNCHANGED <<state, opened>>
    BY <1>3 DEF tls_client_dns_found
  <2>2. halted' \in BOOLEAN
    BY <1>3 DEF tls_client_dns_found
  <2> QED
    BY <2>1, <2>2
<1>4. ASSUME NEW a \in Cells,
             tls_client_connected(a) \/ tls_client_err(a) \/ RecvEnd(a)
               \/ RecvData(a)
      PROVE  Counted'
  BY <1>4 DEF tls_client_connected, tls_client_err, RecvEnd, RecvData
<1>5. ASSUME UNCHANGED vars PROVE Counted'
  BY <1>5 DEF vars
<1> QED
  BY <1>1, <1>2, <1>3, <1>4, <1>5 DEF Next, Network, Attempt, Thread

-----------------------------------------------------------------------------
(* The bytes on their way; none is of a connection still to come.          *)
Bytes == /\ stream \in Seq(Byte) /\ incoming \in Seq(Byte)
         /\ Len(stream) <= StreamSize
         /\ sent \in 0 .. MaxBytes
         /\ next \in 1 .. MaxBytes + 1
         /\ dropped \in BOOLEAN
         /\ \A i \in 1 .. Len(stream) : stream[i][1] <= opened
         /\ \A i \in 1 .. Len(incoming) : incoming[i][1] <= opened

LEMMA InitBytes == Init => Bytes /\ InOrder
<1> SUFFICES ASSUME Init PROVE Bytes /\ InOrder
  OBVIOUS
<1>1. << >> \in Seq(Byte) /\ Len(<< >>) = 0
  OBVIOUS
<1>2. Bytes
  <2>1. dropped \in BOOLEAN
    BY Zenon DEF Init
  <2>2. StreamSize \in Nat
    BY SizesAssumption
  <2> QED
    BY <1>1, <2>1, <2>2, BoundsAreNat DEF Init, Bytes
<1>3. stream \o incoming = << >>
  BY DEF Init
<1>4. \A i \in 1 .. Len(<< >>) : << >>[i][1] # opened
  BY <1>1
<1>5. InLine(<< >>, opened, 1, 0)
  BY <1>1, <1>4, OpenInLine
<1> QED
  BY <1>2, <1>3, <1>5, InOrderInLine DEF Init

(* Two sequences of bytes, one after the other.                            *)
LEMMA Joined ==
    ASSUME NEW u \in Seq(Byte), NEW v \in Seq(Byte)
    PROVE  /\ u \o v \in Seq(Byte) /\ Len(u) \in Nat /\ Len(v) \in Nat
           /\ Len(u \o v) = Len(u) + Len(v)
           /\ \A i \in 1 .. Len(u) : (u \o v)[i] = u[i]
           /\ \A i \in 1 .. Len(v) : (u \o v)[Len(u) + i] = v[i]
<1>1. /\ u \o v \in Seq(Byte) /\ Len(u \o v) = Len(u) + Len(v)
      /\ \A i \in 1 .. Len(u) + Len(v) :
            (u \o v)[i] = IF i <= Len(u) THEN u[i] ELSE v[i - Len(u)]
  BY ConcatProperties
<1>2. Len(u) \in Nat /\ Len(v) \in Nat
  BY LenProperties
<1> DEFINE k == Len(u)
           l == Len(v)
           q == u \o v
<1>3. /\ k \in Nat /\ l \in Nat
      /\ \A i \in 1 .. k + l : q[i] = IF i <= k THEN u[i] ELSE v[i - k]
  BY <1>1, <1>2
<1> HIDE DEF k, l, q
<1>4. \A i \in 1 .. k : i \in 1 .. k + l /\ i <= k
  BY <1>3
<1>5. \A i \in 1 .. l : k + i \in 1 .. k + l /\ ~(k + i <= k) /\ k + i - k = i
  BY <1>3
<1>6. \A i \in 1 .. k : q[i] = u[i]
  BY <1>3, <1>4
<1>7. \A i \in 1 .. l : q[k + i] = v[i]
  BY <1>3, <1>5
<1> QED
  BY <1>1, <1>2, <1>6, <1>7 DEF k, l, q

(* What a read of the stream buffer leaves in it.                          *)
LEMMA RestOfSubSeq ==
    ASSUME NEW u \in Seq(Byte), NEW n \in 1 .. Len(u)
    PROVE  Rest(SubSeq(u, n + 1, Len(u)), u, n)
<1> DEFINE k == Len(u)
           w == SubSeq(u, n + 1, k)
<1>1. k \in Nat /\ n \in 1 .. k /\ n \in Nat
  BY LenProperties
<1>2. \A i \in n + 1 .. k : u[i] \in Byte
  BY <1>1, ElementOfSeq
<1>3. /\ w \in Seq(Byte)
      /\ Len(w) = IF n + 1 <= k THEN k - (n + 1) + 1 ELSE 0
      /\ \A i \in 1 .. k - (n + 1) + 1 : w[i] = u[n + 1 + i - 1]
  BY <1>1, <1>2, SubSeqProperties
<1> HIDE DEF w
<1>4. /\ Len(w) = k - n
      /\ k - (n + 1) + 1 = k - n
      /\ \A i \in 1 .. k - n : n + 1 + i - 1 = n + i
  BY <1>1, <1>3
<1>5. \A i \in 1 .. Len(w) : w[i] = u[n + i]
  BY <1>3, <1>4
<1> QED
  BY <1>1, <1>3, <1>4, <1>5 DEF Rest, w

(* The same with other bytes after it.                                     *)
LEMMA RestOfJoined ==
    ASSUME NEW u \in Seq(Byte), NEW v \in Seq(Byte), NEW n, NEW w,
           Rest(w, u, n)
    PROVE  Rest(w \o v, u \o v, n) /\ (u \o v)[n] = u[n]
<1> DEFINE k == Len(u)
           l == Len(v)
           m == Len(w)
           q == u \o v
           r == w \o v
<1>1. /\ w \in Seq(Byte) /\ n \in 1 .. k /\ m = k - n
      /\ \A i \in 1 .. m : w[i] = u[n + i]
  BY DEF Rest
<1>2. /\ k \in Nat /\ l \in Nat /\ Len(q) = k + l
      /\ \A i \in 1 .. k : q[i] = u[i]
      /\ \A i \in 1 .. l : q[k + i] = v[i]
  BY Joined
<1>3. /\ r \in Seq(Byte) /\ m \in Nat /\ Len(r) = m + l
      /\ \A i \in 1 .. m : r[i] = w[i]
      /\ \A i \in 1 .. l : r[m + i] = v[i]
  BY <1>1, Joined
<1> HIDE DEF k, l, m, q, r
<1>4. n \in 1 .. k + l /\ m + l = k + l - n /\ n \in Nat
  BY <1>1, <1>2
<1>5. ASSUME NEW i \in 1 .. m + l PROVE r[i] = q[n + i]
  <2>1. CASE i <= m
    <3>1. i \in 1 .. m /\ n + i \in 1 .. k
      BY <1>1, <1>2, <1>3, <2>1
    <3> QED
      BY <1>1, <1>2, <1>3, <3>1
  <2>2. CASE i > m
    <3> DEFINE j == i - m
    <3>1. j \in 1 .. l /\ i = m + j /\ n + i = k + j
      BY <1>1, <1>2, <1>3, <2>2
    <3> HIDE DEF j
    <3>2. r[m + j] = v[j] /\ q[k + j] = v[j]
      BY <1>2, <1>3, <3>1
    <3> QED
      BY <3>1, <3>2
  <2> QED
    BY <1>3, <2>1, <2>2
<1>6. Rest(r, q, n)
  BY <1>2, <1>3, <1>4, <1>5 DEF Rest
<1> QED
  BY <1>1, <1>2, <1>6 DEF q, r

(* Reading takes bytes from the front.                                     *)
LEMMA ReadKeepsBytes ==
    ASSUME Counted, Bytes, InOrder, ReadBytes PROVE Bytes' /\ InOrder'
<1>1. /\ stream \in Seq(Byte) /\ incoming \in Seq(Byte)
      /\ opened \in Nat /\ sent \in Nat /\ next \in Nat /\ StreamSize \in Nat
  BY BoundsAreNat, SizesAssumption DEF Counted, Bytes
<1>2. PICK n \in 1 .. Len(stream) :
         /\ stream' = SubSeq(stream, n + 1, Len(stream))
         /\ next' = IF stream[n][1] = opened THEN stream[n][2] + 1 ELSE next
  BY DEF ReadBytes
<1>3. UNCHANGED <<incoming, sent, dropped, opened>>
  BY DEF ReadBytes
<1>4. next' \in 1 .. MaxBytes + 1
  <2>1. stream[n] \in Byte
    BY <1>1, ElementOfSeq
  <2>2. stream[n][2] \in 1 .. MaxBytes
    BY <2>1 DEF Byte
  <2>3. stream[n][2] + 1 \in 1 .. MaxBytes + 1
    BY <2>2, BoundsAreNat
  <2> QED
    BY <1>2, <2>3 DEF Bytes
<1> DEFINE q == stream \o incoming
           r == stream' \o incoming
<1>5. Rest(stream', stream, n) /\ Rest(r, q, n) /\ q[n] = stream[n]
  BY <1>1, <1>2, RestOfSubSeq, RestOfJoined
<1>6. /\ Len(stream') <= StreamSize
      /\ \A i \in 1 .. Len(stream') : stream'[i][1] <= opened
  <2>1. Len(stream) \in Nat /\ n \in Nat /\ n >= 1
    BY <1>1, LenProperties
  <2>2. Len(stream') <= StreamSize
    BY <1>1, <1>5, <2>1 DEF Bytes, Rest
  <2>3. ASSUME NEW i \in 1 .. Len(stream')
        PROVE  stream'[i][1] <= opened
    <3>1. n + i \in 1 .. Len(stream)
      BY <1>5, <2>1 DEF Rest
    <3> QED
      BY <1>5, <3>1 DEF Bytes, Rest
  <2> QED
    BY <2>2, <2>3
<1>7. Bytes'
  BY <1>3, <1>4, <1>5, <1>6 DEF Bytes, Rest
<1>8. InLine(q, opened, next, sent) => InLine(r, opened, next', sent)
  <2>1. q \in Seq(Byte)
    BY <1>1, Joined
  <2> HIDE DEF q, r
  <2>2. InLine(q, opened, next, sent)
          => InLine(r, opened,
                    IF q[n][1] = opened THEN q[n][2] + 1 ELSE next, sent)
    BY <1>1, <1>5, <2>1, ReadInLine
  <2> QED
    BY <1>2, <1>5, <2>2
<1>9. InOrder' <=> (~dropped' => InLine(r, opened, next', sent))
  BY <1>3 DEF InOrder, InLine
<1> QED
  BY <1>3, <1>7, <1>8, <1>9, InOrderInLine

(* Storing moves bytes from one queue to the other, or drops them.         *)
LEMMA StoreKeepsBytes ==
    ASSUME Counted, Bytes, InOrder, Store PROVE Bytes' /\ InOrder'
<1>1. /\ stream \in Seq(Byte) /\ incoming \in Seq(Byte)
      /\ opened \in Nat /\ StreamSize \in Nat
      /\ Len(stream) \in Nat /\ Len(incoming) \in Nat
  <2>1. stream \in Seq(Byte) /\ incoming \in Seq(Byte)
    BY DEF Bytes
  <2>2. Len(stream) \in Nat /\ Len(incoming) \in Nat
    BY <2>1, LenProperties
  <2> QED
    BY <2>1, <2>2, BoundsAreNat, SizesAssumption DEF Counted
<1>2. UNCHANGED <<sent, next, opened>>
  BY DEF Store
<1>3. incoming # << >> /\ Len(incoming) # 0
  BY <1>1, EmptySeq DEF Store
<1> DEFINE n == Least(Len(incoming), StreamSize - Len(stream))
<1>4. /\ n \in 0 .. Len(incoming)
      /\ Len(stream) + n <= StreamSize
  BY <1>1 DEF Bytes, Least
<1>5. CASE n = 0
  <2>1. dropped' = TRUE /\ incoming' = << >> /\ UNCHANGED stream
    BY <1>5 DEF Store
  <2>2. << >> \in Seq(Byte) /\ \A i \in 1 .. Len(<< >>) : << >>[i][1] <= opened
    OBVIOUS
  <2>3. dropped' \in BOOLEAN
    BY <2>1, Zenon
  <2>4. Bytes'
    BY <1>2, <2>1, <2>2, <2>3 DEF Bytes
  <2> QED
    BY <2>1, <2>4 DEF InOrder
<1>6. CASE n # 0
  <2>1. /\ stream' = stream \o SubSeq(incoming, 1, n)
        /\ incoming' = SubSeq(incoming, n + 1, Len(incoming))
        /\ UNCHANGED dropped
    BY <1>6 DEF Store
  <2> HIDE DEF n
  <2> DEFINE h == SubSeq(incoming, 1, n)
             t == SubSeq(incoming, n + 1, Len(incoming))
  <2>2. n \in 1 .. Len(incoming) /\ n \in Nat
    BY <1>1, <1>4, <1>6
  <2>3. /\ h \in Seq(Byte) /\ Len(h) = n
        /\ \A i \in 1 .. n : h[i] = incoming[i]
    <3>1. \A i \in 1 .. n : incoming[i] \in Byte
      BY <1>1, <2>2, ElementOfSeq
    <3>2. /\ h \in Seq(Byte)
          /\ Len(h) = IF 1 <= n THEN n - 1 + 1 ELSE 0
          /\ \A i \in 1 .. n - 1 + 1 : h[i] = incoming[1 + i - 1]
      BY <2>2, <3>1, SubSeqProperties
    <3>3. /\ 1 <= n /\ n - 1 + 1 = n
          /\ \A i \in 1 .. n : 1 + i - 1 = i
      BY <2>2
    <3> HIDE DEF h
    <3> QED
      BY <3>2, <3>3
  <2>4. Rest(t, incoming, n)
    BY <1>1, <2>2, RestOfSubSeq
  <2>5. h \o t = incoming
    <3>1. h \o t = SubSeq(incoming, 1, Len(incoming))
      BY <1>1, <1>3, <2>2, ConcatAdjacentSubSeq
    <3> QED
      BY <1>1, <3>1, SubSeqFull
  <2>6. (stream \o h) \o t = stream \o (h \o t)
    <3>1. h \in Seq(Byte) /\ t \in Seq(Byte)
      BY <2>3, <2>4 DEF Rest
    <3> HIDE DEF h, t
    <3> QED
      BY <1>1, <3>1, ConcatAssociative
  <2> HIDE DEF h, t
  <2>7. stream' \o incoming' = stream \o incoming
    BY <2>1, <2>5, <2>6 DEF h, t
  <2>8. /\ stream' \in Seq(Byte) /\ Len(stream') = Len(stream) + n
        /\ \A i \in 1 .. Len(stream) : stream'[i] = stream[i]
        /\ \A i \in 1 .. n : stream'[Len(stream) + i] = incoming[i]
    <3>1. /\ stream \o h \in Seq(Byte)
          /\ Len(stream \o h) = Len(stream) + Len(h)
          /\ \A i \in 1 .. Len(stream) : (stream \o h)[i] = stream[i]
          /\ \A i \in 1 .. Len(h) : (stream \o h)[Len(stream) + i] = h[i]
      BY <1>1, <2>3, Joined
    <3>2. stream' = stream \o h
      BY <2>1 DEF h
    <3> QED
      BY <2>3, <3>1, <3>2
  <2>9. ASSUME NEW i \in 1 .. Len(stream')
        PROVE  stream'[i][1] <= opened
    <3>1. CASE i <= Len(stream)
      BY <1>1, <2>8, <3>1 DEF Bytes
    <3>2. CASE i > Len(stream)
      <4> DEFINE j == i - Len(stream)
      <4>1. /\ j \in 1 .. n /\ j \in 1 .. Len(incoming)
            /\ i = Len(stream) + j
        BY <1>1, <2>2, <2>8, <3>2
      <4> HIDE DEF j
      <4>2. stream'[i] = incoming[j]
        BY <2>8, <4>1
      <4> QED
        BY <4>1, <4>2 DEF Bytes
    <3> QED
      BY <1>1, <2>2, <2>8, <3>1, <3>2
  <2>10. ASSUME NEW i \in 1 .. Len(incoming')
         PROVE  incoming'[i][1] <= opened
    <3>1. incoming' = t
      BY <2>1 DEF t
    <3>2. n + i \in 1 .. Len(incoming) /\ incoming'[i] = incoming[n + i]
      BY <1>1, <2>2, <2>4, <3>1 DEF Rest
    <3> QED
      BY <3>2 DEF Bytes
  <2>11. incoming' \in Seq(Byte)
    BY <2>1, <2>4 DEF Rest, t
  <2>12. Len(stream') <= StreamSize
    BY <1>4, <2>8
  <2>13. Bytes'
    BY <1>2, <2>1, <2>8, <2>9, <2>10, <2>11, <2>12 DEF Bytes
  <2>14. InOrder' <=> (~dropped' => InLine(stream \o incoming, opened,
                                           next, sent))
    BY <1>2, <2>7 DEF InOrder, InLine
  <2> QED
    BY <2>1, <2>13, <2>14, InOrderInLine
<1> QED
  BY <1>5, <1>6

(* What lwIP has received follows everything that is on its way.           *)
LEMMA ReceiveKeepsBytes ==
    ASSUME IInv, Counted, Bytes, InOrder, NEW a \in Cells, RecvData(a)
    PROVE  Bytes' /\ InOrder'
<1>1. /\ stream \in Seq(Byte) /\ incoming = << >> /\ << >> \in Seq(Byte)
      /\ opened \in Nat /\ sent \in Nat /\ next \in Nat
      /\ Len(stream) \in Nat
  <2>1. stream \in Seq(Byte)
    BY DEF Bytes
  <2>2. incoming = << >>
    BY DEF RecvData, LockFree
  <2> QED
    BY <2>1, <2>2, LenProperties, BoundsAreNat DEF Bytes, Counted
<1>2. opened \in 1 .. MaxConnects
  <2>1. state # Null
    BY CellsAssumption DEF RecvData, IInv, NothingLeaks, Live
  <2> QED
    BY <2>1, BoundsAreNat DEF Counted
<1>3. PICK m \in sent + 1 .. MaxBytes :
         /\ incoming' = [i \in 1 .. m - sent |-> <<opened, sent + i>>]
         /\ sent' = m
  BY DEF RecvData
<1>4. UNCHANGED <<stream, next, dropped, opened>>
  BY DEF RecvData
<1> DEFINE k == m - sent
<1>5. k \in Nat /\ sent + k = m /\ m \in 0 .. MaxBytes
  BY <1>1, BoundsAreNat
<1>6. \A i \in 1 .. k : <<opened, sent + i>> \in Byte
  <2>1. \A i \in 1 .. k : sent + i \in 1 .. MaxBytes
    BY <1>1, BoundsAreNat
  <2> QED
    BY <1>2, <2>1 DEF Byte
<1> HIDE DEF k
<1>7. /\ incoming' \in Seq(Byte) /\ Len(incoming') = k
      /\ \A i \in 1 .. k : incoming'[i] = <<opened, sent + i>>
  BY <1>3, <1>5, <1>6 DEF k
<1>8. \A i \in 1 .. Len(incoming') : incoming'[i][1] <= opened
  BY <1>1, <1>7
<1>9. Bytes'
  BY <1>3, <1>4, <1>5, <1>7, <1>8 DEF Bytes
<1> DEFINE q == stream \o incoming
           r == stream \o incoming'
<1>10. q = stream
  BY <1>1, ConcatEmptySeq
<1>11. /\ r \in Seq(Byte) /\ Len(r) = Len(stream) + k
       /\ \A i \in 1 .. Len(stream) : r[i] = stream[i]
       /\ \A i \in 1 .. k : r[Len(stream) + i] = <<opened, sent + i>>
  <2>1. /\ r \in Seq(Byte) /\ Len(r) = Len(stream) + Len(incoming')
        /\ \A i \in 1 .. Len(stream) : r[i] = stream[i]
        /\ \A i \in 1 .. Len(incoming') : r[Len(stream) + i] = incoming'[i]
    BY <1>1, <1>7, Joined
  <2> HIDE DEF r
  <2> QED
    BY <1>7, <2>1
<1> HIDE DEF q, r
<1>12. InLine(q, opened, next, sent) => InLine(r, opened, next, sent + k)
  BY <1>1, <1>5, <1>10, <1>11, ReceiveInLine
<1>13. InOrder' <=> (~dropped => InLine(r, opened, next, sent + k))
  BY <1>3, <1>4, <1>5 DEF InOrder, InLine, r
<1>14. InOrder <=> (~dropped => InLine(q, opened, next, sent))
  BY InOrderInLine DEF q
<1> QED
  BY <1>9, <1>12, <1>13, <1>14

(* A new connection starts where everything on its way is old.             *)
LEMMA OpenKeepsBytes ==
    ASSUME Counted, Bytes, Open PROVE Bytes' /\ InOrder'
<1>1. /\ stream \in Seq(Byte) /\ incoming = << >> /\ << >> \in Seq(Byte)
      /\ opened \in Nat
  BY BoundsAreNat DEF Bytes, Counted, Open, LockFree
<1>2. /\ opened' = opened + 1 /\ sent' = 0 /\ next' = 1 /\ dropped' = FALSE
      /\ UNCHANGED <<incoming, stream>>
  BY DEF Open
<1>3. \A i \in 1 .. Len(stream) : /\ stream[i][1] <= opened
                                  /\ stream[i][1] \in Nat
  <2>1. \A i \in 1 .. Len(stream) : stream[i] \in Byte
    BY <1>1, ElementOfSeq
  <2> QED
    BY <2>1, BoundsAreNat DEF Bytes, Byte
<1>4. \A i \in 1 .. Len(stream) : /\ stream[i][1] <= opened'
                                  /\ stream[i][1] # opened'
  BY <1>1, <1>2, <1>3
<1>5. dropped' \in BOOLEAN
  BY <1>2, Zenon
<1>6. Bytes'
  BY <1>1, <1>2, <1>4, <1>5, BoundsAreNat DEF Bytes
<1>7. stream \o << >> = stream
  BY <1>1, ConcatEmptySeq
<1>8. InLine(stream, opened', 1, 0)
  BY <1>1, <1>4, OpenInLine
<1> QED
  BY <1>1, <1>2, <1>6, <1>7, <1>8 DEF InOrder, InLine

(* No other step touches them.                                             *)
LEMMA BytesKeep ==
    ASSUME IInv, Counted, Bytes, InOrder, [Next]_vars
    PROVE  Bytes' /\ InOrder'
<1>1. ASSUME UNCHANGED <<bytes, opened>> PROVE Bytes' /\ InOrder'
  BY <1>1 DEF bytes, Bytes, InOrder
<1>2. ASSUME StartAttempt \/ GiveUp \/ WifiFails \/ WaitEnds \/ TimesOut
               \/ Judge \/ WriteBegins \/ WriteCalls \/ WriteReturns
               \/ CloseUnlocked \/ CloseLocked \/ FreeState \/ Collision
      PROVE  UNCHANGED <<bytes, opened>>
  BY <1>2 DEF StartAttempt, GiveUp, WifiFails, WaitEnds, TimesOut, Judge,
              WriteBegins, WriteCalls, WriteReturns, CloseUnlocked,
              CloseLocked, FreeState, Collision
<1>3. ASSUME NEW a \in Cells,
             tls_client_dns_found(a) \/ tls_client_connected(a)
               \/ tls_client_err(a) \/ RecvEnd(a)
      PROVE  UNCHANGED <<bytes, opened>>
  BY <1>3 DEF tls_client_dns_found, tls_client_connected, tls_client_err,
              RecvEnd
<1>4. UNCHANGED vars => UNCHANGED <<bytes, opened>>
  BY DEF vars
<1> QED
  BY <1>1, <1>2, <1>3, <1>4, ReadKeepsBytes, StoreKeepsBytes,
     ReceiveKeepsBytes, OpenKeepsBytes DEF Next, Network, Attempt, Thread

LEMMA BytesInvariant == Spec => [](IInv /\ Counted /\ Bytes /\ InOrder)
<1> DEFINE J == IInv /\ Counted /\ Bytes /\ InOrder
<1>1. Init => J
  BY InitIInv, InitCounted, InitBytes
<1>2. J /\ [Next]_vars => J'
  <2>1. IInv /\ [Next]_vars => IInv'
    BY AttemptKeeps, UseKeeps, ThreadKeeps, Stutters DEF Next, Network
  <2> QED
    BY <2>1, CountedKeeps, BytesKeep
<1> QED
  BY <1>1, <1>2, PTL DEF Spec

(* Whatever is opened, sent, stored and read, and in whatever order, the   *)
(* variables stay in their sets; and no lookup is answered that was not    *)
(* begun.                                                                  *)
THEOREM TypeCorrect == Spec => []TypeOK
<1>1. IInv /\ Counted /\ Bytes => TypeOK
  <2> SUFFICES ASSUME IInv, Counted, Bytes PROVE TypeOK
    OBVIOUS
  <2>1. lookups \in [Cells -> 0 .. MaxConnects]
    BY BoundsAreNat DEF Counted
  <2>2. \A q \in {incoming, stream} :
           q \in Seq((1 .. MaxConnects) \X (1 .. MaxBytes))
    BY DEF Bytes, Byte
  <2>3. {dropped, halted} \subseteq BOOLEAN
    BY Zenon DEF Bytes, Counted
  <2> QED
    BY <2>1, <2>2, <2>3 DEF TypeOK, IInv, Shape, Counted, Bytes
<1> QED
  BY <1>1, BytesInvariant, PTL

(* The bytes of a connection are read in the order in which lwIP received  *)
(* them, each once and none left out, until tls_received drops some,       *)
(* however large the stream buffer is and however the bytes are cut on     *)
(* their way through it; those of an earlier connection come first.        *)
THEOREM BytesInOrder == Spec => []InOrder
<1>1. IInv /\ Counted /\ Bytes /\ InOrder => InOrder
  OBVIOUS
<1> QED
  BY <1>1, BytesInvariant, PTL
=============================================================================
