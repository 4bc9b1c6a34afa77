------------------------------- MODULE Shared -------------------------------
(***************************************************************************)
(* What the UI task and the Network task share about the connection: the   *)
(* event group of main.cpp and the two queues of length 1 between them.    *)
(* Each call on the event group or a queue is atomic; nothing else is.     *)
(*                                                                         *)
(* A set of credentials is known by its serial number: the n-th time the   *)
(* user confirmed a password.                                              *)
(***************************************************************************)
EXTENDS Naturals

CONSTANT MaxEntries     \* bound on the passwords the user confirms

ASSUME MaxEntriesAssumption == MaxEntries \in Nat

VARIABLES bits,         \* event_group
          creds,        \* credentials_to_network: a serial number, or Nobody
          results       \* whether scan_results_queue holds a result

shared == <<bits, creds, results>>

CONNECTING == "CONNECTING_NETWORK"
CONNECTED  == "NETWORK_CONNECTED"
START_SCAN == "START_SCAN"
SCAN_DONE  == "SCAN_DONE"
BAD_AUTH   == "BAD_AUTH"

EventBits == {CONNECTING, CONNECTED, START_SCAN, SCAN_DONE, BAD_AUTH}
Nobody    == 0
Entries   == 1 .. MaxEntries

SharedTypeOK == /\ bits \in SUBSET EventBits
                /\ creds \in Entries \cup {Nobody}
                /\ results \in BOOLEAN

SharedInit == bits = {} /\ creds = Nobody /\ results = FALSE

SetBit(b)    == bits' = bits \cup {b}
ClearBits(B) == bits' = bits \ B
=============================================================================
