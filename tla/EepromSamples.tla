--------------------------- MODULE EepromSamples ---------------------------
(***************************************************************************)
(* The measurement history in the EEPROM (writeSample and readAllSamples   *)
(* of src/EEPROM/EEPROM.cpp): a ring of SAMPLE_COUNT slots, the index of   *)
(* the next slot and the number of slots in use.  The Control task writes  *)
(* it and the UI task reads it for the chart; the bus mutex covers single  *)
(* transactions only, so the two interleave between them, the supply may   *)
(* fail between them, and a transaction may fail.                          *)
(*                                                                         *)
(* Samples are known by their serial number.                               *)
(*                                                                         *)
(* The chip is deaf for up to 5 ms after a write.  The writer waits them   *)
(* out with the bus released, so the reader may call in between.           *)
(***************************************************************************)
EXTENDS Integers, Sequences, FiniteSets

CONSTANTS N,            \* SAMPLE_COUNT: 50 in the code
          MaxSamples,   \* bound on the samples taken
          MaxCrashes,   \* bound on the power failures
          MaxFaults     \* bound on the I2C transactions that fail

Erased == 65535         \* a word that was never written

ASSUME NAssumption == N \in 1 .. 255
ASSUME BoundsAssumption == /\ MaxSamples \in Nat
                           /\ MaxCrashes \in Nat
                           /\ MaxFaults \in Nat

VARIABLES idx,          \* the word at SAMPLE_IDX_ADDR
          total,        \* the word at SAMPLE_COUNT_ADDR
          slot,         \* the slots at SAMPLE_DATA_ADDR
          wpc,          \* where the writer is in writeSample
          curr,         \* its curr_idx
          taken,        \* samples taken before the one being written
          rpc,          \* where the reader is in readAllSamples
          from,         \* its start
          left,         \* its total - i
          chart,        \* the samples it has collected
          raced,        \* a sample was begun while this chart was being read
          missed,       \* a read for this chart found the chip deaf
          cycle,        \* the writer waits for the chip after a write
          crashes, faults

ring    == <<idx, total, slot>>
writer  == <<wpc, curr, taken>>
reader  == <<rpc, from, left, chart, missed>>
vars    == <<ring, writer, reader, raced, cycle, crashes, faults>>

(* What the two floats of a slot hold.  The call in the Control task hands *)
(* over the temperature first; writeSample stores its first argument where *)
(* readAllSamples finds the humidity.                                      *)
Entry(k) == [serial |-> k, rh |-> "temperature", temp |-> "humidity"]

Valid   == [serial : Nat, rh : {"temperature"}, temp : {"humidity"}]
Broken  == [serial |-> -1, rh |-> "none", temp |-> "none"]  \* its CRC fails

TypeOK == /\ idx \in 0 .. N - 1 \cup {Erased}
          /\ total \in 0 .. N \cup {Erased}
          /\ slot \in [0 .. N - 1 -> Valid \cup {Broken}]
          /\ wpc \in {"idle", "count", "data", "index"}
          /\ curr \in 0 .. N - 1
          /\ taken \in Nat
          /\ rpc \in {"idle", "total", "slots", "shown"}
          /\ from \in 0 .. N - 1
          /\ left \in 0 .. N
          /\ chart \in Seq(Valid)
          /\ raced \in BOOLEAN
          /\ missed \in BOOLEAN
          /\ cycle \in BOOLEAN
          /\ crashes \in 0 .. MaxCrashes
          /\ faults \in 0 .. MaxFaults

(* An erased chip: all ones, which is no valid sample. *)
Init == /\ idx = Erased
        /\ total = Erased
        /\ slot = [i \in 0 .. N - 1 |-> Broken]
        /\ wpc = "idle"
        /\ curr = 0
        /\ taken = 0
        /\ rpc = "idle"
        /\ from = 0
        /\ left = 0
        /\ chart = << >>
        /\ raced = FALSE
        /\ missed = FALSE
        /\ cycle = FALSE
        /\ crashes = 0
        /\ faults = 0

(* One transaction on a chip that listens: it succeeds or, within the      *)
(* bound, fails.                                                           *)
Transaction(ok) == /\ ~cycle
                   /\ \/ ok /\ UNCHANGED faults
                      \/ ~ok /\ faults < MaxFaults /\ faults' = faults + 1

(* The same for a read of the chart, which may also find the chip deaf.    *)
ChartRead(ok) == \/ Transaction(ok) /\ UNCHANGED missed
                 \/ cycle /\ ~ok /\ missed' = TRUE /\ UNCHANGED faults

CycleEnds == /\ cycle
             /\ cycle' = FALSE
             /\ UNCHANGED <<ring, writer, reader, raced, crashes, faults>>

-----------------------------------------------------------------------------
(* writeSample.  A variable whose read fails keeps its initial 0.          *)

(* A sample is stored every 90 s, longer than any readAllSamples takes.    *)
ReadIndex == /\ wpc = "idle"
             /\ taken < MaxSamples
             /\ ~raced
             /\ \E ok \in BOOLEAN :
                   /\ Transaction(ok)
                   /\ curr' = IF ok /\ idx < N THEN idx ELSE 0
             /\ wpc' = "count"
             /\ raced' = (rpc \in {"total", "slots"})
             /\ UNCHANGED <<ring, taken, reader, cycle, crashes>>

InUse(t) == IF t = Erased THEN 0 ELSE t

CountUp == /\ wpc = "count"
           /\ \E read, written \in BOOLEAN :
                 /\ Transaction(read /\ written)
                 /\ LET t == IF read THEN InUse(total) ELSE 0
                    IN  /\ total' = IF t < N /\ written THEN t + 1 ELSE total
                        /\ cycle' = (t < N /\ written)
           /\ wpc' = "data"
           /\ UNCHANGED <<idx, slot, curr, taken, reader, raced, crashes>>

WriteData == /\ wpc = "data"
             /\ \E ok \in BOOLEAN :
                   /\ Transaction(ok)
                   /\ cycle' = ok
                   /\ IF ok
                      THEN /\ slot' = [slot EXCEPT ![curr] = Entry(taken)]
                           /\ wpc' = "index"
                           /\ UNCHANGED taken
                      ELSE /\ wpc' = "idle"
                           /\ taken' = taken + 1
                           /\ UNCHANGED slot
             /\ UNCHANGED <<idx, total, curr, reader, raced, crashes>>

WriteIndex == /\ wpc = "index"
              /\ \E ok \in BOOLEAN :
                    /\ Transaction(ok)
                    /\ cycle' = ok
                    /\ idx' = IF ok THEN (curr + 1) % N ELSE idx
              /\ wpc' = "idle"
              /\ taken' = taken + 1
              /\ UNCHANGED <<total, slot, curr, reader, raced, crashes>>

Writer == ReadIndex \/ CountUp \/ WriteData \/ WriteIndex

-----------------------------------------------------------------------------
(* readAllSamples, for the chart screen.                                   *)

ClampOff(t) == t          \* mutant: the count read is trusted

Clamp(t) == IF t > N THEN N ELSE t

StartAtZero(i, t) == 0    \* mutant: the ring is read from its first slot

StartLate(i, t) == (i + N - Clamp(t) + 1) % N      \* mutant: off by one

Start(i, t) == (i + N - Clamp(t)) % N

(* from holds write_idx until the total is known. *)
OpenChart == /\ rpc = "idle"
             /\ \E ok \in BOOLEAN :
                   /\ ChartRead(ok)
                   /\ from' = IF ok THEN idx % N ELSE 0
             /\ rpc' = "total"
             /\ raced' = (wpc # "idle" \/ cycle)
             /\ UNCHANGED <<ring, writer, left, chart, cycle, crashes>>

ReadTotal == /\ rpc = "total"
             /\ \E ok \in BOOLEAN :
                   /\ ChartRead(ok)
                   /\ LET t == IF ok THEN total ELSE 0
                      IN  /\ from' = Start(from, t)
                          /\ left' = Clamp(t)
             /\ chart' = << >>
             /\ rpc' = "slots"
             /\ UNCHANGED <<ring, writer, raced, cycle, crashes>>

ReadSlot == /\ rpc = "slots"
            /\ left > 0
            /\ \E ok \in BOOLEAN :
                  /\ ChartRead(ok)
                  /\ chart' = IF ok /\ slot[from] # Broken
                              THEN Append(chart, slot[from]) ELSE chart
            /\ from' = (from + 1) % N
            /\ left' = left - 1
            /\ UNCHANGED <<ring, writer, rpc, raced, cycle, crashes>>

ShowChart == /\ rpc = "slots"
             /\ left = 0
             /\ rpc' = "shown"
             /\ raced' = FALSE
             /\ UNCHANGED <<ring, writer, from, left, chart, missed, cycle, crashes,
                            faults>>

LeaveChart == /\ rpc = "shown"
              /\ rpc' = "idle"
              /\ chart' = << >>
              /\ missed' = FALSE
              /\ UNCHANGED <<ring, writer, from, left, raced, cycle, crashes,
                             faults>>

Reader == OpenChart \/ ReadTotal \/ ReadSlot \/ ShowChart \/ LeaveChart

-----------------------------------------------------------------------------
(* The supply fails: only the EEPROM survives.  A slot being programmed    *)
(* may be left half written.                                               *)
Crash == /\ crashes < MaxCrashes
         /\ crashes' = crashes + 1
         /\ slot' \in {slot} \cup
               {[slot EXCEPT ![curr] = Broken] : s \in {"data"} \cap {wpc}}
         /\ wpc' = "idle"
         /\ curr' = 0
         /\ taken' = IF wpc = "idle" THEN taken ELSE taken + 1
         /\ rpc' = "idle"
         /\ from' = 0
         /\ left' = 0
         /\ chart' = << >>
         /\ raced' = FALSE
         /\ missed' = FALSE
         /\ cycle' = FALSE
         /\ UNCHANGED <<idx, total, faults>>

Next == Writer \/ Reader \/ CycleEnds \/ Crash

Spec == Init /\ [][Next]_vars

-----------------------------------------------------------------------------
(* Properties.                                                             *)

(* How many of the samples taken the ring can hold. *)
Kept == IF taken < N THEN taken ELSE N

(* Between two samples, if nothing failed, the slots that readAllSamples   *)
(* visits hold exactly the last samples taken, oldest first.               *)
ExactHistory ==
    wpc = "idle" /\ crashes = 0 /\ faults = 0 =>
        /\ InUse(total) = Kept
        /\ \A i \in 0 .. Kept - 1 :
              slot[(Start(idx % N, InUse(total)) + i) % N]
                  = Entry(taken - Kept + i)

Serials == [i \in DOMAIN chart |-> chart[i].serial]

(* Whatever crash, race or bus fault came before, no sample is drawn twice. *)
NoSampleTwice ==
    \A i, j \in DOMAIN chart : i # j => Serials[i] # Serials[j]

(* Power failures and a racing writer can displace the first point of a    *)
(* chart only: after it, time runs forward, if the chip heard every read;  *)
(* and no sample is drawn twice.                                           *)
TimeRunsForward ==
    /\ NoSampleTwice
    /\ ~missed /\ faults = 0 =>
          \A i \in 2 .. Len(chart) - 1 : Serials[i] < Serials[i + 1]

(* The serial numbers in the slots that readAllSamples would visit now.    *)
Visible == {slot[(Start(idx % N, total) + i) % N].serial :
               i \in 0 .. Clamp(total) - 1}

(* A power failure costs the sample being written and no other.            *)
OneLostPerCrash ==
    wpc = "idle" /\ faults = 0 =>
        Cardinality((taken - Kept .. taken - 1) \ Visible) <= crashes

(* "bool writeSample(float rh, float temp)": the field that the chart     *)
(* draws as humidity holds the humidity.                                   *)
FieldsAsDeclared ==
    \A i \in DOMAIN chart :
        chart[i].rh = "humidity" /\ chart[i].temp = "temperature"
=============================================================================
