----------------------------- MODULE Connection -----------------------------
(***************************************************************************)
(* The UI task and the Network task together: from the menu of the main    *)
(* screen to a scan, a password, a connection, its loss and the attempt to *)
(* restore it.  Any interleaving of their steps is possible: the UI has    *)
(* the higher priority but waits in every pass.                            *)
(***************************************************************************)
EXTENDS Screens, Network

vars == <<shared, uiVars, netVars>>

TypeOK == SharedTypeOK /\ UITypeOK /\ NetTypeOK

Init == SharedInit /\ UIInit /\ NetInit

UI   == (UserEvent \/ Routine) /\ UNCHANGED netVars
Net  == (Loop \/ Check) /\ UNCHANGED uiVars
Next == UI \/ Net \/ (LinkLost /\ UNCHANGED uiVars)

Spec == Init /\ [][Next]_vars

(* Both loops go on: every wait in them has a timeout, and the driver      *)
(* reports the end of a scan and of an attempt.  A loop that serves the    *)
(* connection again and again sees the 15 s pass.  Nothing is assumed of   *)
(* the user, and of the radio only that it loses the link finitely often.  *)
FairSpec == /\ Spec
            /\ WF_vars(Routine /\ UNCHANGED netVars)
            /\ WF_vars(Loop /\ UNCHANGED uiVars)
            /\ SF_vars(Check /\ UNCHANGED uiVars)
-----------------------------------------------------------------------------
(* Where a scan can be: asked for, running, done, or its result queued.    *)
Places == {"asked", "running", "done", "queued"}

ScanAt(p) == \/ p = "asked"   /\ START_SCAN \in bits
             \/ p = "running" /\ net = "scanning"
             \/ p = "done"    /\ SCAN_DONE \in bits
             \/ p = "queued"  /\ results

Searching == current = "AVAILABLE_NETWORKS" /\ ~loaded

(* A scan is in one place at a time, and while it is under way the screen  *)
(* that asked for it (UI.cpp:176) still waits for it: the answer of an     *)
(* earlier scan never lands on a screen opened later, and the one-element  *)
(* queue always has room for it.                                           *)
ScanOwned == /\ \A p, q \in Places : ScanAt(p) /\ ScanAt(q) => p = q
             /\ \A p \in Places : ScanAt(p) => Searching

(* Back leads home, whatever the history has lost: at its bottom, or shown *)
(* with no history, is the main screen or the one with the spinner, which  *)
(* gives way to it (SpinnerEnds).  It takes eight passwords until the      *)
(* screens that a full history has lost let the spinner sink to the bottom.*)
Ends == {"MAIN", "CONNECTING_WIFI"}

WayHome == Append(history, next)[1] \in Ends

(* The spinner is left whatever becomes of the attempt, also when it was a *)
(* reconnection that the user's request ran into.                          *)
SpinnerEnds == current = "CONNECTING_WIFI" ~> current # "CONNECTING_WIFI"

(* "Searching for networks...", which has no back button, gives way to the *)
(* list once the driver has accepted the scan.                             *)
ScanShown == net = "scanning" ~> ~Searching

(* The NETWORK_CONNECTED bit does not stay behind a dead link: the check   *)
(* of check_and_reconnect comes round.                                     *)
DropNoticed == CONNECTED \in bits /\ ~link ~> CONNECTED \notin bits \/ link

(* navigate_to always finds room in the history (the assertion of          *)
(* UI.cpp:638): next_screen changes only together with the history.        *)
HistoryFits == [][next' # next => history' # history]_vars
=============================================================================
