------------------------------ MODULE Network ------------------------------
(***************************************************************************)
(* The Network task (src/Task_Network/Network.cpp) as far as the           *)
(* connection goes: scanning, connecting with the credentials the UI       *)
(* sends, and the periodic check that reconnects.  IPStack and MQTTService *)
(* appear as the outcome of an attempt: accepted, password refused, or     *)
(* failed in another way.  The radio may lose the link at any time.        *)
(*                                                                         *)
(* What the connected block does with measurements and targets is the      *)
(* subject of TargetRh.                                                    *)
(***************************************************************************)
EXTENDS Shared

CONSTANT MaxLosses      \* bound on the times the radio loses the link

ASSUME MaxLossesAssumption == MaxLosses \in Nat

VARIABLES net,          \* where the task is in its loop
          got,          \* the local variable bits
          using,        \* the locals ssid and pwd
          joined,       \* the members wifi_connected and mqtt_connected
          link,         \* whether Wi-Fi and the MQTT session are up
          losses        \* losses of the link so far

session == <<using, joined, link, losses>>
netVars == <<net, got, session>>

NetTypeOK == /\ net \in {"top", "start scan", "scanning", "scanned",
                         "deliver", "begin", "wait", "attempt", "finish",
                         "serve", "drop", "raise", "reconnect",
                         "reconnected"}
             /\ got \in SUBSET EventBits
             /\ using \in Entries \cup {Nobody}
             /\ joined \in BOOLEAN
             /\ link \in BOOLEAN
             /\ losses \in 0 .. MaxLosses

NetInit == /\ net = "top"
           /\ got = {}
           /\ using = Nobody
           /\ joined = FALSE /\ link = FALSE
           /\ losses = 0

(* The blocks of the loop follow one another, each behind its bit.         *)
AfterRequest(b) == IF CONNECTED \in b THEN "serve" ELSE "top"
AfterResult(b)  == IF CONNECTING \in b THEN "begin" ELSE AfterRequest(b)
AfterScan(b)    == IF SCAN_DONE \in b THEN "deliver" ELSE AfterResult(b)
-----------------------------------------------------------------------------
ReadBits ==
  /\ net = "top"
  /\ got' = bits
  /\ net' = IF START_SCAN \in bits THEN "start scan" ELSE AfterScan(bits)
  /\ UNCHANGED <<shared, session>>

StartScan == /\ net = "start scan"
             /\ ClearBits({START_SCAN})
             /\ net' = "scanning"
             /\ UNCHANGED <<creds, results, got, session>>

(* The driver refuses; do_scan returns and tells nobody.                   *)
ScanRefused == /\ net = "start scan"
               /\ ClearBits({START_SCAN})
               /\ net' = "scanned"
               /\ UNCHANGED <<creds, results, got, session>>

(* Mutant: SCAN_DONE is not set.                                           *)
ScanEndsUnannounced == /\ net = "scanning"
                       /\ net' = "scanned"
                       /\ UNCHANGED <<shared, got, session>>

ScanEnds == /\ net = "scanning"
            /\ SetBit(SCAN_DONE)
            /\ net' = "scanned"
            /\ UNCHANGED <<creds, results, got, session>>

ReadBitsAgain == /\ net = "scanned"
                 /\ got' = bits
                 /\ net' = AfterScan(bits)
                 /\ UNCHANGED <<shared, session>>

(* The send waits 10 ms for a full queue, then drops the result.           *)
Deliver == /\ net = "deliver"
           /\ ClearBits({SCAN_DONE})
           /\ results' = TRUE
           /\ net' = AfterResult(got)
           /\ UNCHANGED <<creds, got, session>>

Begin == /\ net = "begin"
         /\ ClearBits({CONNECTED})
         /\ net' = "wait"
         /\ UNCHANGED <<creds, results, got, session>>

(* connect_internet closes whatever was open before it tries.              *)
TakeCredentials == /\ net = "wait"
                   /\ creds # Nobody
                   /\ using' = creds
                   /\ creds' = Nobody
                   /\ joined' = FALSE
                   /\ link' = FALSE
                   /\ net' = "attempt"
                   /\ UNCHANGED <<bits, results, got, losses>>

(* No credentials within 100 ms.                                           *)
WaitEnds == /\ net = "wait"
            /\ creds = Nobody
            /\ net' = "finish"
            /\ UNCHANGED <<shared, got, session>>

(* Mutant: CONNECTING_NETWORK stays set.                                   *)
FinishKeepsBit == /\ net = "finish"
                  /\ net' = AfterRequest(got)
                  /\ UNCHANGED <<shared, got, session>>

Finish == /\ net = "finish"
          /\ ClearBits({CONNECTING})
          /\ net' = AfterRequest(got)
          /\ UNCHANGED <<creds, results, got, session>>

Accepted == /\ net \in {"attempt", "reconnect"}
            /\ SetBit(CONNECTED)
            /\ joined' = TRUE
            /\ link' = TRUE
            /\ net' = IF net = "attempt" THEN "wait" ELSE "reconnected"
            /\ UNCHANGED <<creds, results, got, using, losses>>

Refused == /\ net \in {"attempt", "reconnect"}
           /\ SetBit(BAD_AUTH)
           /\ net' = IF net = "attempt" THEN "wait" ELSE "top"
           /\ UNCHANGED <<creds, results, got, session>>

Failed == /\ net \in {"attempt", "reconnect"}
          /\ net' = IF net = "attempt" THEN "wait" ELSE "top"
          /\ UNCHANGED <<shared, got, session>>

(* Fewer than 15 s since the last check.                                   *)
NotDue == /\ net = "serve"
          /\ net' = "top"
          /\ UNCHANGED <<shared, got, session>>

Check == /\ net = "serve"
         /\ net' = IF link THEN "top" ELSE "drop"
         /\ UNCHANGED <<shared, got, session>>

(* Mutant: NETWORK_CONNECTED stays set.                                    *)
DropKeepsBit == /\ net = "drop"
                /\ net' = "raise"
                /\ UNCHANGED <<shared, got, session>>

Drop == /\ net = "drop"
        /\ ClearBits({CONNECTED})
        /\ net' = "raise"
        /\ UNCHANGED <<creds, results, got, session>>

Raise == /\ net = "raise"
         /\ SetBit(CONNECTING)
         /\ joined' = FALSE
         /\ link' = FALSE
         /\ net' = "reconnect"
         /\ UNCHANGED <<creds, results, got, using, losses>>

Reconnected == /\ net = "reconnected"
               /\ ClearBits({CONNECTING})
               /\ net' = "top"
               /\ UNCHANGED <<creds, results, got, session>>

LinkLost == /\ link
            /\ losses < MaxLosses
            /\ losses' = losses + 1
            /\ link' = FALSE
            /\ UNCHANGED <<shared, net, got, using, joined>>

(* One pass of the loop, but for the check, which the clock decides.       *)
Loop == \/ ReadBits \/ StartScan \/ ScanRefused \/ ScanEnds \/ ReadBitsAgain
        \/ Deliver \/ Begin \/ TakeCredentials \/ WaitEnds
        \/ Finish \/ Accepted \/ Refused \/ Failed \/ NotDue \/ Drop \/ Raise
        \/ Reconnected
=============================================================================
