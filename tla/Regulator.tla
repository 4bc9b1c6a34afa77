----------------------------- MODULE Regulator -----------------------------
(***************************************************************************)
(* What the Control task promises about humidity: a two-sided hysteresis   *)
(* regulator.  A reading more than Band away from the target starts a      *)
(* device; once started, a correction runs until the target itself is      *)
(* reached, not merely the edge of the band.  Alarms may stop the devices  *)
(* at any moment, and the target may be replaced at any moment.            *)
(*                                                                         *)
(* No integer here has a width: the module Control, which works in uint8   *)
(* arithmetic, is shown to implement this one for every target that the    *)
(* arithmetic can carry.                                                   *)
(***************************************************************************)
EXTENDS Integers

CONSTANTS Targets,      \* the relative humidities that can be asked for
          Readings,     \* the relative humidities the sensor can report
          Band          \* the tolerated distance from the target

VARIABLES target,       \* what is asked for
          mode,         \* which correction is under way
          on            \* the devices that are running

vars == <<target, mode, on>>

Modes == {"idle", "humidify", "dehumidify"}

(* The lowest and the highest reading at which each mode is satisfied. *)
Low  == [idle |-> target - Band, humidify |-> target,
         dehumidify |-> target - 2 * Band]
High == [idle |-> target + Band, humidify |-> target + 2 * Band,
         dehumidify |-> target]

Init == /\ target \in Targets
        /\ mode = "idle"
        /\ on = {}

Satisfied(r) == /\ Low[mode] <= r /\ r <= High[mode]
                /\ mode' = "idle"
                /\ on' = {}
                /\ UNCHANGED target

TooDry(r) == /\ r < Low[mode]
             /\ mode' = "humidify"
             /\ on' = {"humidifier", "fan"}
             /\ UNCHANGED target

TooHumid(r) == /\ r > High[mode]
               /\ mode' = "dehumidify"
               /\ on' = {"dehumidifier"}
               /\ UNCHANGED target

(* The mist is given in bursts; the fan goes on between them. *)
BurstEnds == /\ on' = on \ {"humidifier"}
             /\ UNCHANGED <<target, mode>>

Trip == /\ on' = {}
        /\ UNCHANGED <<target, mode>>

Retarget(t) == /\ target' = t
               /\ mode' = "idle"
               /\ UNCHANGED on

Next == \/ \E r \in Readings : Satisfied(r) \/ TooDry(r) \/ TooHumid(r)
        \/ BurstEnds
        \/ Trip
        \/ \E t \in Targets : Retarget(t)

Spec == Init /\ [][Next]_vars
=============================================================================
