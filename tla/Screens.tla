------------------------------ MODULE Screens ------------------------------
(***************************************************************************)
(* The UI task as a navigator (src/Task_UI/UI.cpp): which screen is shown, *)
(* the history navigate_to and navigate_back keep, and the part the UI     *)
(* plays in scanning and connecting.  One pass of the loop of task_impl    *)
(* is Snapshot, BadPassword, TakeScan, one user event or none, and Settle; *)
(* Network runs between any two of them.  The user confirming a password   *)
(* is three steps, for the UI may wait in the middle of it.                *)
(*                                                                         *)
(* A widget callback only raises menu_selected or rh_val_saved and the     *)
(* loop navigates right after lv_timer_handler returns; nobody else sees   *)
(* the flags, so the two are one step here.  What becomes of a saved       *)
(* target is the subject of TargetRh; drawing is left out.                 *)
(***************************************************************************)
EXTENDS Shared, Sequences

VARIABLES ui,           \* where the task is in its loop
          seen,         \* the local variable bits
          current,      \* current_screen
          next,         \* next_screen
          history,      \* screen_history[0 .. screen_depth - 1]
          loaded,       \* networks_loaded
          typed         \* the member credentials

screen == <<current, next, history, loaded>>
uiVars == <<ui, seen, screen, typed>>

HistorySize == 5

AllScreens == {"MAIN", "SET_RH", "PRESET_SELECT", "NETWORK", "STATISTICS",
               "AVAILABLE_NETWORKS", "ENTER_PASS", "CONNECTING_WIFI",
               "MEASUREMENT_CHART", "LOG_HISTORY"}

(* Which screen has a widget that opens which.                             *)
Links == ({"MAIN"} \X {"SET_RH", "NETWORK", "STATISTICS"})
    \cup ({"STATISTICS"} \X {"MEASUREMENT_CHART", "LOG_HISTORY"})
    \cup {<<"SET_RH", "PRESET_SELECT">>, <<"NETWORK", "AVAILABLE_NETWORKS">>,
          <<"AVAILABLE_NETWORKS", "ENTER_PASS">>}

(* "Searching for networks..." has no widget: the list and the back button *)
(* come with the result.                                                   *)
HasWidgets == current = "AVAILABLE_NETWORKS" => loaded

(* Mutant: the screen has its back button while it searches.               *)
HasBackAlways == current # "MAIN"

(* Back buttons, SAVE on the two target screens, and the cancel key of the *)
(* keyboard all navigate back.                                             *)
HasBack == current # "MAIN" /\ HasWidgets

UITypeOK == /\ ui \in {"top", "bad password", "scan", "event", "send",
                       "sent", "settle"}
            /\ seen \in SUBSET EventBits
            /\ current \in AllScreens
            /\ next \in AllScreens
            /\ history \in Seq(AllScreens)
            /\ Len(history) <= HistorySize
            /\ loaded \in BOOLEAN
            /\ typed \in Entries \cup {Nobody}

UIInit == /\ ui = "top"
          /\ seen = {}
          /\ current = "MAIN" /\ next = "MAIN" /\ history = <<>>
          /\ loaded = FALSE
          /\ typed = Nobody

(* Mutant: the new screen is pushed, not the old one. *)
NavigateToPushesNew(s) == /\ history' = IF Len(history) < HistorySize
                                          THEN Append(history, s)
                                          ELSE history
                          /\ next' = s

NavigateTo(s) == /\ history' = IF Len(history) < HistorySize
                                 THEN Append(history, current)
                                 ELSE history
                 /\ next' = s

NavigateBack ==
  IF history = <<>>
    THEN next' = "MAIN" /\ UNCHANGED history
    ELSE /\ next' = history[Len(history)]
         /\ history' = SubSeq(history, 1, Len(history) - 1)
-----------------------------------------------------------------------------
(* The bits the whole pass goes by, BAD_AUTH and CONNECTING among them.    *)
Snapshot ==
  /\ ui = "top"
  /\ seen' = bits \cap {CONNECTING, BAD_AUTH}
  /\ ui' = IF BAD_AUTH \in bits /\ current = "CONNECTING_WIFI"
             THEN "bad password" ELSE "scan"
  /\ UNCHANGED <<shared, screen, typed>>

(* The password was wrong: "Bad wi-fi credentials" goes to the log.        *)
BadPassword ==
  /\ ui = "bad password"
  /\ ClearBits({BAD_AUTH, CONNECTING})
  /\ NavigateTo("MAIN")
  /\ ui' = "scan"
  /\ UNCHANGED <<creds, results, seen, current, loaded, typed>>

TakeScan ==
  /\ ui = "scan"
  /\ loaded' = (loaded \/ (results /\ current = "AVAILABLE_NETWORKS"))
  /\ results' = FALSE
  /\ ui' = "event"
  /\ UNCHANGED <<bits, creds, seen, current, next, history, typed>>

(* lv_timer_handler with nothing to report.                                *)
NoEvent == /\ ui = "event"
           /\ ui' = "settle"
           /\ UNCHANGED <<shared, seen, screen, typed>>

Tap == /\ ui = "event"
       /\ HasWidgets
       /\ \E s \in AllScreens : <<current, s>> \in Links /\ NavigateTo(s)
       /\ ui' = "settle"
       /\ UNCHANGED <<shared, seen, current, loaded, typed>>

PressBack == /\ ui = "event"
             /\ HasBack
             /\ NavigateBack
             /\ ui' = "settle"
             /\ UNCHANGED <<shared, seen, current, loaded, typed>>

(* keyboard_cb on LV_EVENT_READY.                                          *)
Ready == /\ ui = "event"
         /\ current = "ENTER_PASS"
         /\ typed < MaxEntries
         /\ typed' = typed + 1
         /\ SetBit(CONNECTING)
         /\ ui' = "send"
         /\ UNCHANGED <<creds, results, seen, screen>>

SendCredentials == /\ ui = "send"
                   /\ creds = Nobody
                   /\ creds' = typed
                   /\ ui' = "sent"
                   /\ UNCHANGED <<bits, results, seen, screen, typed>>

(* pdMS_TO_TICKS(portMAX_DELAY) wraps to 4294966 ticks: the UI stands      *)
(* still for 71 minutes and goes on without having sent.                   *)
SendGivesUp == /\ ui = "send"
               /\ creds # Nobody
               /\ ui' = "sent"
               /\ UNCHANGED <<shared, seen, screen, typed>>

AfterSend ==
  /\ ui = "sent"
  /\ NavigateTo(IF CONNECTING \in bits THEN "CONNECTING_WIFI" ELSE "MAIN")
  /\ ui' = "settle"
  /\ UNCHANGED <<shared, seen, current, loaded, typed>>

(* The end of the pass: leave the spinner when the snapshot showed no      *)
(* connection attempt, then build the next screen.  The one with the list  *)
(* of networks starts a scan.                                              *)
Show(s) ==
  LET changed == s # current
  IN  /\ current' = s
      /\ loaded' = (loaded /\ ~(changed /\ s \in {"NETWORK",
                                                  "AVAILABLE_NETWORKS"}))
      /\ IF changed /\ s = "AVAILABLE_NETWORKS" THEN SetBit(START_SCAN)
                                                ELSE UNCHANGED bits

Settle ==
  /\ ui = "settle"
  /\ IF current = "CONNECTING_WIFI" /\ CONNECTING \notin seen
       THEN NavigateTo("MAIN")
       ELSE UNCHANGED <<history, next>>
  /\ Show(next')
  /\ ui' = "top"
  /\ UNCHANGED <<creds, results, seen, typed>>

UserEvent == Tap \/ PressBack \/ Ready
Routine   == \/ Snapshot \/ BadPassword \/ TakeScan \/ NoEvent
             \/ SendCredentials \/ SendGivesUp \/ AfterSend \/ Settle
=============================================================================
