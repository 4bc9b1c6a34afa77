------------------------- MODULE Connection_proofs -------------------------
(***************************************************************************)
(* Theorems about the UI task and the Network task together, for any       *)
(* number of passwords and of link losses and whether or not scans fail.   *)
(***************************************************************************)
EXTENDS Connection, SequenceTheorems, TLAPS

(* What the scan relies on besides ScanOwned: while the UI searches it is  *)
(* going nowhere, the steps in the middle of a pass belong to their        *)
(* screens, and Network acts on bits only it clears.                       *)
Aimed == /\ Searching => next = "AVAILABLE_NETWORKS"
         /\ ui = "bad password" => current = "CONNECTING_WIFI"
         /\ ui \in {"send", "sent"} => current = "ENTER_PASS"
         /\ net = "start scan" => START_SCAN \in bits
         /\ net = "deliver" => SCAN_DONE \in bits

IInv == ScanOwned /\ Aimed

(* ScanOwned, place by place. *)
Apart == /\ ~(START_SCAN \in bits /\ net = "scanning")
         /\ ~(START_SCAN \in bits /\ SCAN_DONE \in bits)
         /\ ~(START_SCAN \in bits /\ results)
         /\ ~(net = "scanning" /\ SCAN_DONE \in bits)
         /\ ~(net = "scanning" /\ results)
         /\ ~(SCAN_DONE \in bits /\ results)

UnderWay == \/ START_SCAN \in bits
            \/ net = "scanning"
            \/ SCAN_DONE \in bits
            \/ results

(* A scan found nowhere twice, place by place. *)
LEMMA PlaceByPlace == ScanOwned <=> Apart /\ (UnderWay => Searching)
BY DEF ScanOwned, Apart, UnderWay, ScanAt, Places

(* The same in the next state. *)
LEMMA PlaceByPlaceNext == ScanOwned' <=> Apart' /\ (UnderWay' => Searching')
BY DEF ScanOwned, Apart, UnderWay, ScanAt, Places

(* No scan is under way at power-up. *)
LEMMA InitIInv == Init => IInv
BY PlaceByPlace
   DEF Init, SharedInit, UIInit, NetInit, IInv, Aimed, Searching, Apart,
       UnderWay, START_SCAN, SCAN_DONE

(* The UI keeps it: only Settle asks for a scan, only TakeScan ends one. *)
LEMMA UIKeeps == ASSUME IInv, results \in BOOLEAN, UI PROVE IInv'
<1> USE DEF IInv, Aimed, Searching, Apart, UnderWay, shared, uiVars, screen,
            netVars, session, START_SCAN, SCAN_DONE, CONNECTING, BAD_AUTH
<1>0. Apart /\ (UnderWay => Searching)
  BY PlaceByPlace
<1>1. ASSUME Snapshot, UNCHANGED netVars PROVE IInv'
  BY <1>0, <1>1, PlaceByPlaceNext DEF Snapshot
<1>2. ASSUME BadPassword, UNCHANGED netVars PROVE IInv'
  BY <1>0, <1>2, PlaceByPlaceNext DEF BadPassword, ClearBits, NavigateTo
<1>3. ASSUME TakeScan, UNCHANGED netVars PROVE IInv'
  BY <1>0, <1>3, PlaceByPlaceNext DEF TakeScan
<1>4. ASSUME NoEvent, UNCHANGED netVars PROVE IInv'
  BY <1>0, <1>4, PlaceByPlaceNext DEF NoEvent
<1>5. ASSUME Tap, UNCHANGED netVars PROVE IInv'
  <2>1. ~Searching
    BY <1>5 DEF Tap, HasWidgets
  <2> QED
    BY <1>0, <1>5, <2>1, PlaceByPlaceNext DEF Tap
<1>6. ASSUME PressBack, UNCHANGED netVars PROVE IInv'
  BY <1>0, <1>6, PlaceByPlaceNext DEF PressBack, HasBack, HasWidgets
<1>7. ASSUME Ready, UNCHANGED netVars PROVE IInv'
  BY <1>0, <1>7, PlaceByPlaceNext DEF Ready, SetBit
<1>8. ASSUME SendCredentials, UNCHANGED netVars PROVE IInv'
  BY <1>0, <1>8, PlaceByPlaceNext DEF SendCredentials
<1>9. ASSUME SendGivesUp, UNCHANGED netVars PROVE IInv'
  BY <1>0, <1>9, PlaceByPlaceNext DEF SendGivesUp
<1>10. ASSUME AfterSend, UNCHANGED netVars PROVE IInv'
  BY <1>0, <1>10, PlaceByPlaceNext DEF AfterSend
<1>11. ASSUME Settle, UNCHANGED netVars PROVE IInv'
  <2>1. CASE next' = current
    <3>1. bits' = bits /\ current' = current /\ (loaded' <=> loaded)
      BY <1>11, <2>1 DEF Settle, Show
    <3> QED
      BY <1>0, <1>11, <2>1, <3>1, PlaceByPlaceNext DEF Settle
  <2>2. CASE next' # current
    <3>1. ~Searching
      BY <1>11, <2>2 DEF Settle, NavigateTo
    <3>2. ~UnderWay
      BY <1>0, <3>1
    <3>3. /\ current' = next' /\ results' = results /\ ui' = "top"
          /\ UNCHANGED netVars
      BY <1>11 DEF Settle, Show
    <3>4. CASE next' = "AVAILABLE_NETWORKS"
      <4>1. bits' = bits \cup {START_SCAN} /\ ~loaded'
        BY <1>11, <2>2, <3>4 DEF Settle, Show, SetBit
      <4> QED
        BY <3>2, <3>3, <3>4, <4>1, PlaceByPlaceNext
    <3>5. CASE next' # "AVAILABLE_NETWORKS"
      <4>1. bits' = bits
        BY <1>11, <2>2, <3>5 DEF Settle, Show
      <4> QED
        BY <3>2, <3>3, <3>5, <4>1, PlaceByPlaceNext
    <3> QED
      BY <3>4, <3>5
  <2> QED
    BY <2>1, <2>2
<1> QED
  BY <1>1, <1>2, <1>3, <1>4, <1>5, <1>6, <1>7, <1>8, <1>9, <1>10, <1>11
     DEF UI, UserEvent, Routine

(* A step of Network that is not about scanning. *)
LEMMA QuietStep ==
    ASSUME IInv,
           UNCHANGED uiVars,
           results' = results,
           START_SCAN \in bits' <=> START_SCAN \in bits,
           SCAN_DONE \in bits' <=> SCAN_DONE \in bits,
           net # "scanning",
           net' # "scanning",
           net' = "start scan" => START_SCAN \in bits,
           net' = "deliver" => SCAN_DONE \in bits
    PROVE  IInv'
<1>1. Apart /\ (UnderWay => Searching)
  BY PlaceByPlace DEF IInv
<1>2. /\ Searching' <=> Searching
      /\ results' <=> results
      /\ UNCHANGED <<current, next, ui>>
  BY DEF Searching, uiVars, screen
<1>3. Apart'
  BY <1>1, <1>2 DEF Apart
<1>4. UnderWay' => Searching'
  BY <1>1, <1>2 DEF UnderWay
<1>5. Aimed'
  BY <1>2 DEF IInv, Aimed
<1> QED
  BY <1>3, <1>4, <1>5, PlaceByPlaceNext DEF IInv

(* Network keeps it: it moves the scan from one place to the next. *)
LEMMA NetKeeps ==
    ASSUME IInv, UNCHANGED uiVars, Loop \/ Check \/ LinkLost
    PROVE  IInv'
<1> USE DEF Aimed, Searching, Apart, UnderWay, shared, uiVars, screen,
            session, START_SCAN, SCAN_DONE, CONNECTING, CONNECTED,
            BAD_AUTH, SetBit, ClearBits, AfterScan, AfterResult, AfterRequest
<1>0. Apart /\ (UnderWay => Searching) /\ Aimed
  BY PlaceByPlace DEF IInv
<1>1. CASE ReadBits
  BY <1>1, QuietStep DEF ReadBits
<1>2. CASE StartScan
  BY <1>0, <1>2, PlaceByPlaceNext DEF StartScan, IInv
<1>3. CASE ScanRefused
  BY <1>0, <1>3, PlaceByPlaceNext DEF ScanRefused, IInv
<1>4. CASE ScanEnds
  BY <1>0, <1>4, PlaceByPlaceNext DEF ScanEnds, IInv
<1>5. CASE ReadBitsAgain
  BY <1>5, QuietStep DEF ReadBitsAgain
<1>6. CASE Deliver
  BY <1>0, <1>6, PlaceByPlaceNext DEF Deliver, IInv
<1>7. CASE Begin
  BY <1>7, QuietStep DEF Begin
<1>8. CASE TakeCredentials
  BY <1>8, QuietStep DEF TakeCredentials
<1>9. CASE WaitEnds
  BY <1>9, QuietStep DEF WaitEnds
<1>10. CASE Finish
  BY <1>10, QuietStep DEF Finish
<1>11. CASE Accepted
  BY <1>11, QuietStep DEF Accepted
<1>12. CASE Refused
  BY <1>12, QuietStep DEF Refused
<1>13. CASE Failed
  BY <1>13, QuietStep DEF Failed
<1>14. CASE NotDue
  BY <1>14, QuietStep DEF NotDue
<1>15. CASE Check
  BY <1>15, QuietStep DEF Check
<1>16. CASE Drop
  BY <1>16, QuietStep DEF Drop
<1>17. CASE Raise
  BY <1>17, QuietStep DEF Raise
<1>18. CASE Reconnected
  BY <1>18, QuietStep DEF Reconnected
<1>19. CASE LinkLost
  BY <1>0, <1>19, PlaceByPlaceNext DEF LinkLost, IInv
<1> QED
  BY <1>1, <1>2, <1>3, <1>4, <1>5, <1>6, <1>7, <1>8, <1>9, <1>10, <1>11,
     <1>12, <1>13, <1>14, <1>15, <1>16, <1>17, <1>18, <1>19 DEF Loop
-----------------------------------------------------------------------------
(* Power-up is well typed. *)
LEMMA InitType == Init => TypeOK
<1> SUFFICES ASSUME Init PROVE TypeOK
  OBVIOUS
<1>1. SharedTypeOK
  BY DEF Init, SharedInit, SharedTypeOK
<1>2. UITypeOK
  <2>1. history \in Seq(AllScreens) /\ Len(history) = 0
    BY EmptySeq DEF Init, UIInit
  <2>2. Len(history) <= HistorySize
    BY <2>1 DEF HistorySize
  <2>3. current \in AllScreens /\ next \in AllScreens
    BY DEF Init, UIInit, AllScreens
  <2>4. ui = "top" /\ seen = {} /\ loaded = FALSE /\ typed = Nobody
    BY DEF Init, UIInit
  <2> QED
    BY <2>1, <2>2, <2>3, <2>4, Zenon DEF UITypeOK
<1>3. NetTypeOK
  <2>1. 0 \in 0 .. MaxLosses
    BY MaxLossesAssumption
  <2> QED
    BY <2>1 DEF Init, NetInit, NetTypeOK
<1> QED
  BY <1>1, <1>2, <1>3 DEF TypeOK

(* Setting and clearing bits leaves a set of bits. *)
LEMMA BitsType ==
    ASSUME SharedTypeOK
    PROVE  /\ \A b \in EventBits : SetBit(b) => bits' \in SUBSET EventBits
           /\ \A B \in SUBSET EventBits :
                 ClearBits(B) => bits' \in SUBSET EventBits
BY DEF SharedTypeOK, SetBit, ClearBits

(* Taking the last element off a sequence. *)
LEMMA Pop ==
    ASSUME NEW S, NEW h \in Seq(S), h # <<>>
    PROVE  /\ h[Len(h)] \in S
           /\ SubSeq(h, 1, Len(h) - 1) \in Seq(S)
           /\ Len(SubSeq(h, 1, Len(h) - 1)) = Len(h) - 1
<1>1. Len(h) \in Nat \ {0}
  BY EmptySeq
<1> DEFINE n == Len(h) - 1
<1>2. n \in Nat
  BY <1>1
<1>3. \A i \in 1 .. n : h[i] \in S
  BY <1>1, ElementOfSeq
<1>4. h[Len(h)] \in S
  BY <1>1, ElementOfSeq
<1> HIDE DEF n
<1>5. SubSeq(h, 1, n) \in Seq(S) /\ Len(SubSeq(h, 1, n)) = n
  BY <1>2, <1>3, SubSeqProperties
<1> QED
  BY <1>4, <1>5 DEF n

(* Navigation keeps the history within its array. *)
LEMMA NavigationType ==
    ASSUME UITypeOK
    PROVE  /\ \A s \in AllScreens : NavigateTo(s) =>
                 /\ next' \in AllScreens
                 /\ history' \in Seq(AllScreens)
                 /\ Len(history') <= HistorySize
           /\ NavigateBack =>
                 /\ next' \in AllScreens
                 /\ history' \in Seq(AllScreens)
                 /\ Len(history') <= HistorySize
<1>0. /\ next \in AllScreens /\ current \in AllScreens
      /\ history \in Seq(AllScreens)
      /\ Len(history) \in Nat /\ Len(history) <= 5
  BY LenProperties DEF UITypeOK, HistorySize
<1>1. ASSUME NEW s \in AllScreens, NavigateTo(s)
      PROVE  /\ next' \in AllScreens
             /\ history' \in Seq(AllScreens)
             /\ Len(history') <= 5
  <2>1. /\ Append(history, current) \in Seq(AllScreens)
        /\ Len(Append(history, current)) = Len(history) + 1
    BY <1>0, AppendProperties
  <2> QED
    BY <1>0, <1>1, <2>1 DEF NavigateTo, HistorySize
<1>2. ASSUME NavigateBack
      PROVE  /\ next' \in AllScreens
             /\ history' \in Seq(AllScreens)
             /\ Len(history') <= 5
  <2>1. CASE history = <<>>
    BY <1>0, <1>2, <2>1 DEF NavigateBack, AllScreens
  <2>2. CASE history # <<>>
    BY <1>0, <1>2, <2>2, Pop DEF NavigateBack
  <2> QED
    BY <2>1, <2>2
<1> QED
  BY <1>1, <1>2 DEF HistorySize

(* Counting stays within the bounds. *)
LEMMA NextEntry ==
    ASSUME NEW n \in Entries \cup {Nobody}, n < MaxEntries
    PROVE  n + 1 \in Entries \cup {Nobody}
BY MaxEntriesAssumption DEF Entries, Nobody

(* One more loss stays within the bound. *)
LEMMA NextLoss ==
    ASSUME NEW n \in 0 .. MaxLosses, n < MaxLosses
    PROVE  n + 1 \in 0 .. MaxLosses
BY MaxLossesAssumption

(* The UI keeps the types. *)
LEMMA UIType == ASSUME TypeOK, UI PROVE TypeOK'
<1> USE DEF TypeOK, UITypeOK, NetTypeOK, shared, screen, uiVars, netVars,
            session, EventBits, CONNECTING, CONNECTED, START_SCAN, SCAN_DONE,
            BAD_AUTH
<1>0. NetTypeOK'
  BY DEF UI
<1>1. ASSUME Snapshot PROVE SharedTypeOK' /\ UITypeOK'
  BY <1>1 DEF Snapshot, SharedTypeOK
<1>2. ASSUME BadPassword PROVE SharedTypeOK' /\ UITypeOK'
  <2>1. "MAIN" \in AllScreens
    BY DEF AllScreens
  <2>2. SharedTypeOK'
    BY <1>2, BitsType DEF BadPassword, SharedTypeOK
  <2> QED
    BY <1>2, <2>1, <2>2, NavigationType DEF BadPassword
<1>3. ASSUME TakeScan PROVE SharedTypeOK' /\ UITypeOK'
  BY <1>3 DEF TakeScan, SharedTypeOK
<1>4. ASSUME NoEvent PROVE SharedTypeOK' /\ UITypeOK'
  BY <1>4 DEF NoEvent, SharedTypeOK
<1>5. ASSUME Tap PROVE SharedTypeOK' /\ UITypeOK'
  BY <1>5, NavigationType DEF Tap, SharedTypeOK
<1>6. ASSUME PressBack PROVE SharedTypeOK' /\ UITypeOK'
  BY <1>6, NavigationType DEF PressBack, SharedTypeOK
<1>7. ASSUME Ready PROVE SharedTypeOK' /\ UITypeOK'
  <2>1. SharedTypeOK'
    BY <1>7, BitsType DEF Ready, SharedTypeOK
  <2>2. typed' \in Entries \cup {Nobody}
    BY <1>7, NextEntry DEF Ready
  <2> QED
    BY <1>7, <2>1, <2>2 DEF Ready
<1>8. ASSUME SendCredentials PROVE SharedTypeOK' /\ UITypeOK'
  BY <1>8 DEF SendCredentials, SharedTypeOK
<1>9. ASSUME SendGivesUp PROVE SharedTypeOK' /\ UITypeOK'
  BY <1>9 DEF SendGivesUp, SharedTypeOK
<1>10. ASSUME AfterSend PROVE SharedTypeOK' /\ UITypeOK'
  <2>1. {"MAIN", "CONNECTING_WIFI"} \subseteq AllScreens
    BY DEF AllScreens
  <2> QED
    BY <1>10, <2>1, NavigationType DEF AfterSend, SharedTypeOK
<1>11. ASSUME Settle PROVE SharedTypeOK' /\ UITypeOK'
  <2>1. "MAIN" \in AllScreens
    BY DEF AllScreens
  <2>2. /\ next' \in AllScreens
        /\ history' \in Seq(AllScreens)
        /\ Len(history') <= HistorySize
    BY <1>11, <2>1, NavigationType DEF Settle
  <2>3. current' = next' /\ loaded' \in BOOLEAN
    BY <1>11 DEF Settle, Show
  <2>4. bits' \in SUBSET EventBits
    BY <1>11, BitsType DEF Settle, Show, SharedTypeOK
  <2> QED
    BY <1>11, <2>2, <2>3, <2>4 DEF Settle, SharedTypeOK
<1> QED
  BY <1>0, <1>1, <1>2, <1>3, <1>4, <1>5, <1>6, <1>7, <1>8, <1>9, <1>10,
     <1>11 DEF UI, UserEvent, Routine

(* Network and the radio keep the types. *)
LEMMA NetType ==
    ASSUME TypeOK, UNCHANGED uiVars, Loop \/ Check \/ LinkLost
    PROVE  TypeOK'
<1> USE DEF TypeOK, NetTypeOK, UITypeOK, shared, screen, uiVars, session,
            EventBits, AfterScan, AfterResult, AfterRequest
<1>0. UITypeOK'
  OBVIOUS
<1>1. ASSUME ReadBits \/ ReadBitsAgain PROVE SharedTypeOK' /\ NetTypeOK'
  BY <1>1 DEF ReadBits, ReadBitsAgain, SharedTypeOK
<1>2. ASSUME StartScan \/ ScanRefused PROVE SharedTypeOK' /\ NetTypeOK'
  BY <1>2, BitsType DEF StartScan, ScanRefused, SharedTypeOK
<1>3. ASSUME ScanEnds PROVE SharedTypeOK' /\ NetTypeOK'
  BY <1>3, BitsType DEF ScanEnds, SharedTypeOK
<1>4. ASSUME Deliver PROVE SharedTypeOK' /\ NetTypeOK'
  BY <1>4, BitsType DEF Deliver, SharedTypeOK
<1>5. ASSUME Begin PROVE SharedTypeOK' /\ NetTypeOK'
  BY <1>5, BitsType DEF Begin, SharedTypeOK
<1>6. ASSUME TakeCredentials PROVE SharedTypeOK' /\ NetTypeOK'
  BY <1>6 DEF TakeCredentials, SharedTypeOK
<1>7. ASSUME WaitEnds \/ Failed PROVE SharedTypeOK' /\ NetTypeOK'
  BY <1>7 DEF WaitEnds, Failed, SharedTypeOK
<1>8. ASSUME Finish PROVE SharedTypeOK' /\ NetTypeOK'
  BY <1>8, BitsType DEF Finish, SharedTypeOK
<1>9. ASSUME Accepted PROVE SharedTypeOK' /\ NetTypeOK'
  BY <1>9, BitsType DEF Accepted, SharedTypeOK
<1>10. ASSUME Refused PROVE SharedTypeOK' /\ NetTypeOK'
  BY <1>10, BitsType DEF Refused, SharedTypeOK
<1>11. ASSUME NotDue \/ Check PROVE SharedTypeOK' /\ NetTypeOK'
  BY <1>11 DEF NotDue, Check, SharedTypeOK
<1>12. ASSUME Drop \/ Reconnected PROVE SharedTypeOK' /\ NetTypeOK'
  BY <1>12, BitsType DEF Drop, Reconnected, SharedTypeOK
<1>13. ASSUME Raise PROVE SharedTypeOK' /\ NetTypeOK'
  BY <1>13, BitsType DEF Raise, SharedTypeOK
<1>14. ASSUME LinkLost PROVE SharedTypeOK' /\ NetTypeOK'
  <2>1. losses' \in 0 .. MaxLosses
    BY <1>14, NextLoss DEF LinkLost
  <2> QED
    BY <1>14, <2>1 DEF LinkLost, SharedTypeOK
<1> QED
  BY <1>0, <1>1, <1>2, <1>3, <1>4, <1>5, <1>6, <1>7, <1>8, <1>9, <1>10,
     <1>11, <1>12, <1>13, <1>14 DEF Loop
-----------------------------------------------------------------------------
(* Every variable keeps its type: the history never leaves its array and   *)
(* the event group holds its bits only.                                    *)
THEOREM TypeCorrect == Spec => []TypeOK
<1>1. TypeOK /\ [Next]_vars => TypeOK'
  <2> SUFFICES ASSUME TypeOK, [Next]_vars PROVE TypeOK'
    OBVIOUS
  <2>1. CASE UNCHANGED vars
    <3>1. SharedTypeOK'
      BY <2>1 DEF vars, shared, TypeOK, SharedTypeOK
    <3>2. UITypeOK'
      BY <2>1 DEF vars, uiVars, screen, TypeOK, UITypeOK
    <3>3. NetTypeOK'
      BY <2>1 DEF vars, netVars, session, TypeOK, NetTypeOK
    <3> QED
      BY <3>1, <3>2, <3>3 DEF TypeOK
  <2>2. CASE Next
    BY <2>2, UIType, NetType DEF Next, Net
  <2> QED
    BY <2>1, <2>2
<1> QED
  BY InitType, <1>1, PTL DEF Spec

(* The steps of both keep what the scan relies on.                         *)
LEMMA Inductive == Spec => []IInv
<1>1. TypeOK /\ IInv /\ [Next]_vars => IInv'
  <2> SUFFICES ASSUME TypeOK, IInv, [Next]_vars PROVE IInv'
    OBVIOUS
  <2>1. CASE UNCHANGED vars
    BY <2>1 DEF vars, shared, uiVars, screen, netVars, session, IInv, Aimed,
                Searching, ScanOwned, ScanAt
  <2>2. CASE Next
    BY <2>2, UIKeeps, NetKeeps DEF Next, Net, TypeOK, SharedTypeOK
  <2> QED
    BY <2>1, <2>2
<1> QED
  BY InitIInv, TypeCorrect, <1>1, PTL DEF Spec

(* A scan is in one place at a time and finds the screen that asked for it *)
(* still waiting, whatever the user, the driver and the radio do.          *)
THEOREM ScanFindsItsScreen == Spec => []ScanOwned
<1>1. IInv => ScanOwned
  BY DEF IInv
<1> QED
  BY Inductive, <1>1, PTL
-----------------------------------------------------------------------------
(* Only the screen shown is pushed, and the history is empty only on the   *)
(* main screen and the spinner, or when Back has just emptied it.          *)
Rooted == /\ history # <<>> => history[1] \in Ends
          /\ history = <<>> => next \in Ends
          /\ history = <<>> /\ ui # "settle" => current \in Ends

LEMMA InitRooted == Init => Rooted
BY DEF Init, UIInit, Rooted, Ends

(* A screen that may stand at the bottom, or that does not, is pushed.     *)
LEMMA PushRooted ==
    ASSUME UITypeOK, Rooted, NEW s \in AllScreens, NavigateTo(s),
           history = <<>> => current \in Ends
    PROVE  history' # <<>> /\ history'[1] \in Ends
<1>1. /\ history \in Seq(AllScreens) /\ current \in AllScreens
      /\ Len(history) \in Nat
  BY LenProperties DEF UITypeOK
<1>2. CASE Len(history) < HistorySize
  <2>1. /\ history' = Append(history, current)
        /\ Len(history') = Len(history) + 1
        /\ \A i \in 1 .. Len(history) : history'[i] = history[i]
        /\ history'[Len(history) + 1] = current
    BY <1>1, <1>2, AppendProperties DEF NavigateTo
  <2>2. history' # <<>>
    BY <1>1, <2>1, EmptySeq
  <2>3. CASE history = <<>>
    BY <2>1, <2>2, <2>3, EmptySeq
  <2>4. CASE history # <<>>
    BY <1>1, <2>1, <2>2, <2>4, EmptySeq DEF Rooted
  <2> QED
    BY <2>3, <2>4
<1>3. CASE ~(Len(history) < HistorySize)
  BY <1>1, <1>3, EmptySeq DEF NavigateTo, Rooted, HistorySize
<1> QED
  BY <1>2, <1>3

(* Back leaves the bottom alone, or shows it.                              *)
LEMMA PopRooted ==
    ASSUME UITypeOK, Rooted, NavigateBack
    PROVE  /\ history' # <<>> => history'[1] \in Ends
           /\ history' = <<>> => next' \in Ends
<1>1. history \in Seq(AllScreens) /\ Len(history) \in Nat
  BY LenProperties DEF UITypeOK
<1>2. CASE history = <<>>
  BY <1>2 DEF NavigateBack, Ends
<1>3. CASE history # <<>>
  <2> DEFINE n == Len(history) - 1
  <2>1. n \in Nat /\ n + 1 = Len(history)
    BY <1>1, <1>3, EmptySeq
  <2>2. next' = history[n + 1] /\ history' = SubSeq(history, 1, n)
    BY <1>3, <2>1 DEF NavigateBack
  <2>3. \A i \in 1 .. n : history[i] \in AllScreens
    BY <1>1, <2>1, ElementOfSeq
  <2> HIDE DEF n
  <2>4. /\ history' \in Seq(AllScreens) /\ Len(history') = n
        /\ \A i \in 1 .. n : history'[i] = history[i]
    BY <2>1, <2>2, <2>3, SubSeqProperties
  <2>5. CASE n = 0
    BY <1>3, <2>2, <2>4, <2>5, EmptySeq DEF Rooted
  <2>6. CASE n # 0
    BY <1>3, <2>1, <2>4, <2>6, EmptySeq DEF Rooted
  <2> QED
    BY <2>5, <2>6
<1> QED
  BY <1>2, <1>3

(* The UI keeps it; Network does not touch the screens.                    *)
LEMMA UIRooted == ASSUME TypeOK, Aimed, Rooted, UI PROVE Rooted'
<1> USE DEF screen
<1>0. UITypeOK
  BY DEF TypeOK
<1>1. CASE Snapshot \/ TakeScan \/ NoEvent \/ Ready \/ SendCredentials
             \/ SendGivesUp
  BY <1>1 DEF Snapshot, TakeScan, NoEvent, Ready, SendCredentials,
              SendGivesUp, Rooted
<1>2. CASE BadPassword
  <2>1. current \in Ends
    BY <1>2 DEF BadPassword, Aimed, Ends
  <2>2. history' # <<>> /\ history'[1] \in Ends
    BY <1>0, <1>2, <2>1, PushRooted DEF BadPassword, AllScreens
  <2> QED
    BY <2>2 DEF Rooted
<1>3. CASE Tap
  <2>1. history = <<>> => current \in Ends
    BY <1>3 DEF Tap, Rooted
  <2>2. history' # <<>> /\ history'[1] \in Ends
    BY <1>0, <1>3, <2>1, PushRooted DEF Tap
  <2> QED
    BY <2>2 DEF Rooted
<1>4. CASE PressBack
  BY <1>0, <1>4, PopRooted DEF PressBack, Rooted
<1>5. CASE AfterSend
  <2>1. history = <<>> => current \in Ends
    BY <1>5 DEF AfterSend, Rooted
  <2>2. history' # <<>> /\ history'[1] \in Ends
    BY <1>0, <1>5, <2>1, PushRooted DEF AfterSend, AllScreens
  <2> QED
    BY <2>2 DEF Rooted
<1>6. CASE Settle
  <2>1. current' = next'
    BY <1>6 DEF Settle, Show
  <2>2. CASE current = "CONNECTING_WIFI" /\ NavigateTo("MAIN")
    <3>1. history' # <<>> /\ history'[1] \in Ends
      BY <1>0, <2>2, PushRooted DEF AllScreens, Ends
    <3> QED
      BY <3>1 DEF Rooted
  <2>3. CASE UNCHANGED <<history, next>>
    BY <2>1, <2>3 DEF Rooted
  <2> QED
    BY <1>6, <2>2, <2>3 DEF Settle
<1> QED
  BY <1>1, <1>2, <1>3, <1>4, <1>5, <1>6 DEF UI, UserEvent, Routine

(* Back leads to the main screen or to the spinner, however many screens   *)
(* navigate_to could not keep in the five places of the history.           *)
THEOREM BackLeadsHome == Spec => []WayHome
<1>1. TypeOK /\ IInv /\ Rooted /\ [Next]_vars => Rooted'
  <2> SUFFICES ASSUME TypeOK, IInv, Rooted, [Next]_vars PROVE Rooted'
    OBVIOUS
  <2>1. CASE UNCHANGED uiVars
    BY <2>1 DEF uiVars, screen, Rooted
  <2>2. CASE UI
    BY <2>2, UIRooted DEF IInv
  <2> QED
    BY <2>1, <2>2 DEF Next, Net, vars
<1>2. TypeOK /\ Rooted => WayHome
  <2> SUFFICES ASSUME TypeOK, Rooted PROVE WayHome
    OBVIOUS
  <2>1. /\ history \in Seq(AllScreens) /\ next \in AllScreens
        /\ Len(history) \in Nat
    BY LenProperties DEF TypeOK, UITypeOK
  <2>2. /\ \A i \in 1 .. Len(history) : Append(history, next)[i] = history[i]
        /\ Append(history, next)[Len(history) + 1] = next
    BY <2>1, AppendProperties
  <2>3. CASE history = <<>>
    BY <2>2, <2>3, EmptySeq DEF Rooted, WayHome
  <2>4. CASE history # <<>>
    BY <2>1, <2>2, <2>4, EmptySeq DEF Rooted, WayHome
  <2> QED
    BY <2>3, <2>4
<1> QED
  BY InitRooted, TypeCorrect, Inductive, <1>1, <1>2, PTL DEF Spec
=============================================================================
