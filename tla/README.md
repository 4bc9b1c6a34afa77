# HUMIBOX: a verification of the firmware's control, storage and connection logic

HUMIBOX (`src/`) is a humidity-controlled box: a Raspberry Pi Pico W runs three
FreeRTOS tasks that regulate the humidity, drive a touch screen, and talk to a
ThingSpeak channel over MQTT. The kernel they run on is in the repository too
(`FreeRTOS-KernelV10.6.2/`) and is modelled with them. This directory holds TLA+ models of the parts in
which the order of events matters, TLC configurations that check them on small
instances, and proofs of what holds for every instance. Source paths below are
relative to the repository (`src/Task_UI/UI.cpp` is the file of that name in the
repository's own `src` directory).

Contents: 1 the system, 2 the models, 3 the runs, 4 fairness, 5 assumptions about the platform,
6 what is proved, 7 where the code and its own words disagree, 8 what is not
modelled, 9 the plan.


## 1. The system

### Components, their state and their operations

| component | state it keeps | operations |
|---|---|---|
| Control task (`Task_Control/Control.cpp`) | `set_rh`, `in_range_rh` (bytes), the alarms of the iteration, a counter of readings; the outputs of humidifier, dehumidifier and fan | boot; read water and bits; on a timer tick read the sensor, send the reading, start or stop a device, count and store; two alarm blocks; empty `to_Control`; sleep |
| UI task (`Task_UI/UI.cpp`) | current and next screen, `screen_history[5]`, `networks_loaded`, `set_rh_value`, `sensor_data.target_rh`, the typed credentials | one pass: look at the bits, receive from `to_UI`, receive scan results, LVGL callbacks, navigation |
| Network task (`Task_Network/Network.cpp`) | `wifi_connected`, `mqtt_connected`, a snapshot of the bits, the credentials in use | one pass: scan, deliver a result, connect on request, publish, check and reconnect, forward a target from the channel, `mqtt.loop` |
| EEPROM (`EEPROM/EEPROM.cpp`) | reboot status, target, touch calibration, 10 log slots and their pointer, a ring of 50 samples with index and count | `writeLog`, `deleteLogs`, `getAllLogs`, `writeSample`, `readAllSamples`, single reads and writes |
| I2C driver (`i2c/PicoI2C.cpp`) | counters of bytes to write and read, the task to notify, the interrupt mask; the two FIFOs of the controller | `transaction` by a task under `Fmutex`, `isr` |
| TLS client (`mqtt/tls/*`) | one `TLS_CLIENT_T` per attempt (pcb, `complete`, `connected`), a stream buffer | `tls_connect`, `tls_close`, `read_bytes`, `write_bytes` by Network; lookup, connected, error and receive callbacks by the TCP/IP thread |
| MQTT service (`mqtt/mqttService`) | one slot for a received message | connect and subscribe, publish, loop |
| IP stack (`mqtt/ipstack/IPStack.cpp`) | `wifi_connected`, the TLS client | join an access point with three attempts, link status |
| Web dashboard (`mqtt_web`) | none but the session | sets the target field of the channel |
| Display, touch, SPI, UART, PWM, GPIO | registers | drivers of one task each |
| Kernel: scheduler (`tasks.c`, `list.c`) | ready lists with their index, two delayed lists, suspended and pending lists, tick count and its overflows, depth of suspension, pended ticks, priorities, notification of each task | tick, switch, suspend and resume the scheduler, delay, time-out, put on and take off event lists, inherit and disinherit, notify; suspend, resume, abort, re-prioritise, delete and create a task |
| Kernel: queues, semaphores, mutexes (`queue.c`) | ring, two event lists, two locks, the set it belongs to, the holder and depth of a mutex | send to the back, to the front and over, receive, peek, take, give, reset; join, leave and select from a set; send, overwrite, give and receive by interrupts |
| Kernel: event groups, software timers (`event_groups.c`, `timers.c`) | bits and waiters; two timer lists, the command queue, the time last sampled | set, clear, wait, sync; start, stop, change, the timer service task |
| Kernel: stream buffers (`stream_buffer.c`) | ring, head, tail, the task registered on either side | send, receive |
| Kernel: heap (`portable/MemMang/heap_4.c`) | headers of the blocks, list of the free ones, bytes left | malloc, free |

### How they interact

```
            to_Control (Message, 10)             to_UI (Message, 10)
   UI  ------------------------------> Control ----------------------> UI
   UI  --to_Network (Message, 10)----> Network <--to_Network---------- Control
   UI  --credentials_to_network (1)--> Network --scan_results (1)----> UI
   Network --to_Control, to_UI (targets of the channel)--> Control, UI
   event group: CONNECTING_NETWORK NETWORK_CONNECTED START_SCAN SCAN_DONE
                BAD_AUTH and the two water alarms, set and cleared by all three
   timer callback --task notification--> Control <--task notification-- I2C isr
   Control, UI --Fmutex--> PicoI2C --> EEPROM, sensor
   Network --lwIP lock--> lwIP callbacks --stream buffer--> Network
```

### Behaviours that are hard

* Three loops that work from a *snapshot* of the event bits and act on it much
  later; two of them set and clear the same bits.
* Sends that wait for ever, 100 ms, 10 ms, or 71 minutes, at queues whose
  readers may stand still.
* One task notification used for two purposes: the timer tick and the end of an
  I2C transaction.
* An EEPROM shared transaction by transaction: both tasks interleave between the
  transactions of one logical operation, the chip is deaf for up to 5 ms after a
  write, a transaction may fail unnoticed, and the supply may go at any point.
* Late answers: a name lookup cannot be taken back, and its callback holds the
  address of an object that may be freed.
* Bytes: targets above 250 and below 5 wrap the tolerated band.
* Updates of the target that cross: user, web page and the echo of the channel.
* In the kernel: a tick count that wraps after 49.7 days, under every wait and timer; interrupts
  between the look at a queue and the entry into its list; time-outs that race what they wait for;
  priorities that change while a task is in a list sorted by them; a ring copied without a lock.

### What makes each component correct

* *Control*: never two corrections at once; mist only inside its burst; an alarm
  stops everything, is shown and is logged; the band follows the target, and what runs
  is judged by the band of its own side; it regulates with hysteresis as the documentation says.
* *Sample ring*: what is read is the last samples in order; a power failure costs
  one sample; no chart shows a sample twice.
* *Event log*: what was reported as written is there until the log is deleted.
* *UI and Network*: Back leads home; the spinner and "Searching..." end; a scan's
  result finds the screen that asked for it; a dead link does not pass for a live one.
* *Target*: device, screen and EEPROM agree when an update has settled, and with the channel when
  its echo has come and nothing was lost; a save ends.
* *TLS client*: nothing leaks; connected means open; bytes arrive in order; an
  attempt ends.
* *Kernel*: the ready task of highest priority runs; nobody sleeps through what it waits for, or wakes
  before its time; queues and stream buffers are first in, first out; a mutex raises its holder as far as
  its waiters need and no further; each byte of the heap has one owner and the free ones are all found.
* *I2C driver*: a transfer is well formed on the wire and complete when it is
  reported complete; a completion reaches its own transaction; callers return.


## 2. The models

| module | models | built on |
|---|---|---|
| `Regulator` | abstract: a hysteresis regulator with integers of no width | |
| `Control` | the Control task, the timer, the environment | refines `Regulator` |
| `EepromSamples` | `writeSample` and `readAllSamples`, power failures, failing transactions | |
| `EepromLog` | `writeLog` and `deleteLogs`, called by two tasks | |
| `Shared` | the event bits and the two one-element queues between UI and Network | |
| `Screens` | the UI as a navigator, with its part in scans and connections | `Shared` |
| `Network` | the Network task's scans, attempts and checks | `Shared` |
| `Connection` | `Screens` and `Network` interleaved | both |
| `TargetRh` | the target humidity in Control, UI, Network, EEPROM and channel | |
| `TlsClient` | `TlsClient.cpp` and `tls_common.c`: task, callbacks, stream buffer | |
| `I2CBus` | tasks, driver, interrupt handler, controller and chip | |
| `Kernel` | the scheduler as operators on one record: lists, tick, switch, inheritance, notifications | |
| `EventGroup`, `Timers` | the operations of event groups and of the timer service task, as operators | `Kernel` |
| `Queues` | the calls of `queue.c`, one critical section at a time, by tasks and by interrupts | `Kernel`, `EventGroup`, `Timers` |
| `Tasks` | the calls of `tasks.c`: delays, notifications, and what a task does to another | `Queues` |
| `FreeRTOS` | the calls of event groups and timers, ticks and interrupts, the whole and its properties | `Tasks`; refines `MessageQueue` |
| `MessageQueue` | abstract: a bounded buffer, each item once and in order, the urgent ones first | |
| `StreamBuffer` | one writer and one reader of a stream buffer, byte by byte | refines `BytePipe` |
| `BytePipe` | abstract: a bounded pipe of bytes | |
| `Heap` | `heap_4.c`, loop iteration by iteration | refines `Allocator` |
| `Allocator` | abstract: memory given to one owner at a time, first come | |
| `MC*` | values for TLC | the module of that name |
| `*_proofs` | theorems, see section 6 | the module of that name; `Kernel_proofs`: `Heap`, `StreamBuffer`, the arithmetic of time in `Kernel` and `Timers`, and `TargetRh` |

A `pc` (also `ui`, `net`, `task`, `at`, `wpc`, `rpc`) stops where a task can block or be
held up with an effect that another actor could see; everything between two stops is
one action. `PROJECT.json` ("map") names the lines of every definition. Definitions whose
comment begins with "Mutant" are deliberate bugs, not part of any specification: each property is
shown to fail when one of them takes the place of the definition it follows.

**Control.** `pc` runs once through `boot` and then round `top` (water sensors and bits read),
`sense` (timer tick taken or not), `burst` (3 s of mist), `record` (every sixth reading),
`overflow`, `empty` (the alarm blocks), `drain` (`to_Control`) and `sleep`.
`inRange` is `in_range_rh`, in arithmetic modulo 256. `on` is the set of outputs
that are driven. `AfterI2C` is the notification that an I2C transaction swallows
or leaves behind. `to_UI` and `to_Network` are counters, as their contents do not
matter here. The environment moves the water, the link, the timer and the queues at any time.

**EepromSamples.** `idx`, `total`, `slot` are the words of the chip; `wpc`, `curr` the
writer in Control; `rpc`, `from`, `left`, `chart` the reader in the UI; `cycle` the 5 ms
of deafness. `CountUp` reads and writes the count in one action, as nobody else
writes it and the reader reads it once. Samples are serial numbers, `taken` of them
so far; a blank or torn slot is `Broken`, one whose CRC fails.

**EepromLog.** `pointer` and `cell` are the chip, in blocks of 64 bytes, the three blocks below
the log included, because that is where an unnoticed failed read leads.
`ReadPointer`, `Search`, `WriteSlot`, `WritePointer` are `writeLog`; `WipeSlot` and
`WipePointer` are `deleteLogs`, which `writeLog` calls too when the log is full. `acked` are the messages reported as written. `raced` is history: a task
used the log while the other was in a call.

**Shared, Screens, Network, Connection.** `seen` and `got` are the local snapshots
of the bits. The UI's pass is `Snapshot`, `BadPassword`, `TakeScan`, one event,
`Settle`; confirming a password is `Ready`, `SendCredentials` or `SendGivesUp`,
`AfterSend`. `NavigateTo` leaves a full history alone, which is what the code does when
`configASSERT` is compiled out, so that what follows can still be explored. The blocks of Network's pass are `net`; an attempt
has the outcomes accepted, password refused, failed. Credentials are known by the number of the confirmation.

**TargetRh.** Five copies of one number (`setRh`, `shown`, `stored`, `slider`,
`channel`) and the queues between them; Control's readings take slots of `to_UI` and of `to_Network` too. An
iteration of Control is `Measure` or `NoReading`, `ReadingToUI`, `ReadingToNetwork` (by `linkSeen`, its snapshot of the bits) and `drain`; a send with a
time-out finds room or drops (`Offer`, `ForwardToControl`, `ForwardToUI`), one without waits for `Room`. `inbox` is the
one-slot buffer of `MQTTService`, `down` the updates the channel has sent back; `AsByte` is the cast at Network.cpp:119. `astray`
and `lost` are history: the last update crossed another or was cut short, or what was read at power-up was no target; some
update did not arrive at all.

**TlsClient.** `cell`, `pcb`, `complete`, `connected` describe the objects at
the addresses malloc gives out again and again; `lookups` counts the late answers an
address will get. The lock of lwIP is implicit in actions that are atomic, and explicit
(`LockFree`) while a callback waits inside `tls_received`; `tls_client_write` and the
`tls_client_close` behind it run without it and are therefore several actions. Where C gives no meaning
(freed memory is read, a callback meets a half-closed pcb) the program may
halt (`halted`) or go on.

**I2CBus.** `at` is where each task is in `transaction`; `wctr`, `rctr`, `rcnt`, `restart`,
`mask` are the driver's; `tx`, `rx`, `stopDet` the controller's. `issued` is the history of commands
of this transaction, `stored` the bytes put into the caller's buffer; a byte is
known by its position. The chip executes a command, refuses one or holds the clock.

**Kernel, EventGroup, Timers, Queues, Tasks, FreeRTOS.** The configuration is that of `FreeRTOSConfig.h`: one core, preemption, time slicing,
generic task selection, mutexes and queue sets compiled in, no tickless idle. `k` holds all of `tasks.c`, one field per variable or list; an
operator takes a kernel and returns the next one, so that a critical section that calls several functions is their composition.
Each task runs a program, a sequence of calls (a *scenario* of `MCFreeRTOS`), with its progress in `th`: one action is one critical section of
the call, and interrupts and the tick come between any two. Stretches no interrupt can tell from one section are merged: the lock of a
queue with the check of the time-out, the second look with inheritance and the entry into the list, both halves of the unlock, and for delays, event groups and the timer
task, which no interrupt touches, the suspension of the scheduler with what follows it. `left` and `tm.due` are history: the true time
to a deadline, counted without wrap, against which the wrapped arithmetic is held. A handler ends with `portYIELD_FROM_ISR`. What is read no more is reset (the wake
time of a ready task, the entry time of an endless wait). A task whose take is refused starts its program again, since it must not give what it does not hold.
`cut` marks a call that another task suspended, aborted or deleted, which then owes nothing to its deadline. A set is a queue of handles: the model's `NotifySet` puts the member's name into it.
A task that timed out and is notified before it runs may be in a ready list and in the pending list at once; that is what the code does, and harmless.

**StreamBuffer.** `head`, `tail`, `buf` and the two registrations are the fields of the object, `nstate` the notification of
the two tasks. `memcpy` goes byte by byte, as the other side runs meanwhile. A wait is none, some (it may end at any moment) or for ever.
`eNoAction` notifications are tokens: one that comes late stays behind as `received`, and the next wait clears it first.

**Heap.** `size` and `next` are the headers at their addresses, `used` those with the mark of an allocated block. The
two loops (first fit; where to insert) go block by block; the scheduler is suspended, so that only `FreeMark`, the one step of `vPortFree` that
comes before the suspension, interleaves with other calls.


## 3. The runs

Ten runs pass and two show a disagreement (section 7). All finish within three minutes
on two cores; none uses symmetry.

| run | checks | bounds and why they are enough |
|---|---|---|
| `control` | OneCorrectionAtATime, AlarmHandled, BandCentre, RunsTowardsBand, Regulates, BadWaterStopsDevices, TargetAdopted | targets 45 and 50, whose bands overlap; readings on, just inside and just outside every edge of both; one slot per queue, so that full and empty both occur; every reading is stored (`SampleEvery` is 1; the reading that is not is covered by the proofs). Targets whose band wraps are left to the proof |
| `samples` | ExactHistory, TimeRunsForward, OneLostPerCrash | 3 slots, 9 samples (three laps), 2 power failures, 1 failed transaction |
| `log` | ExactLog, SurvivesCrashes | 2 slots, 5 messages of two tasks (it fills up, is cleared and fills up again), deletions by the user at any time, a power failure |
| `connection` | ScanOwned, WayHome, SpinnerEnds, ScanShown, DropNoticed | 2 passwords, the second typed while the first is tried; one lost link; scans and navigation unbounded. Safety was also explored with up to 8 passwords, and is proved for every number |
| `target` | Agreement, EchoHeals, SaveEnds | a stored 35 or 255, a user who saves the default 50 or 40 once, a web page that sends 60 once, queues of one slot, so that a reading fills them, one mishap: a dead link or a failed transaction. By hand: all properties with two slots, and safety with two saves |
| `tls` | NothingLeaks, ConnectedIsOpen, InOrder, AttemptEnds | 2 addresses, 4 attempts (so that an address is used again under a late lookup), a stream buffer of 3 and 4 bytes from the server (chunks longer than the room) |
| `i2c` | Faithful, FullReadIsRead, ToldOnce, EveryoneReturns | FIFOs of 2; a write of 3, a read of 4 after a write of 1, a read that fits; 3 transactions of 2 tasks, 2 ticks, 2 refusals or hangs |
| `kernel` | ListsAgree, RunsHighest, WakesOnTime, Inheritance, NothingMissed, NeverEarly, FirstInFirstOut | three tasks of different priority and the idle task; eighteen scenarios. As the application has them: two producers and a consumer, the UART interrupt as sender and as receiver, the bus mutex with two waiters, notifications by task, interrupt and timer, an event group, a rendezvous, and two timers: a periodic one that is started, changed and stopped, and one that runs once and is stopped in a rush. The rest of the calls: a mailbox that is overwritten, looked into and emptied; an item that overtakes; a counting semaphore; a recursive mutex; two queues in a set, one of which leaves and joins again; tasks suspended by themselves, by others and resumed by an interrupt, in the middle of a wait; waits cut short; priorities that change under ready, sleeping and waiting tasks; tasks that delete themselves and others and are created anew. The tick count wraps at 4 (so that every wait and period of 1 or 2 crosses the wrap from every side), the overflow count at 2; one tick pended per suspension (`MaxPended`); a task is kept from its deadline by at most one tick (`MaxLate`) |
| `stream` | NoSleeperForgotten, ImplementsPipe, SendEnds | a ring of 3 (room for 2 bytes); chunks of one byte, of as many as fit and of one more; reads of 1 and 2; every kind of wait. The proofs cover every size |
| `heap` | FreeListExact, GivesEachByteOnce | 24 bytes in units of 2, headers of 2: up to six blocks, free ones merging on either side, both or none; requests for 0, for sizes that split a block, fit it exactly or with a rest too small to split, exceed the heap, set the top bit of the size or overflow it |
| `connection_history`, `kernel_mutexes` | HistoryFits, RunsHighest | each finds its counterexample |

What the less obvious properties say:

* `Regulates` (refinement): with `mode` read off `in_range_rh`, every step of Control
  is a step of `Regulator`: a correction, once begun, runs until the
  target itself is reached, not merely the edge of the band, whatever alarms and new targets come in between.
* `AlarmHandled`: by the end of an iteration an alarm read at its top has stopped all
  devices, set exactly its own bit and been logged, though up to 3.2 s of mist and sends lie in between.
* `RunsTowardsBand`: a device that runs is never judged by the band of the opposite correction: a mist or a dehumidifier that goes on over alarms, new targets and
  readings has `in_range_rh` at the target or on its own side. Otherwise it would run to the wrong edge, and with the humidity beyond it for ever.
* `TimeRunsForward`: what a chart shows when a sample is stored while it is read, a transaction
  fails or the supply goes: no sample twice, and only the first point may be out of order.
* `OneLostPerCrash`: the count and the index may disagree after a power failure, for the
  rest of a lap, and still only the sample being written is missing.
* `ExactLog`, `SurvivesCrashes`: as long as no call of one task meets one of the other half way, the log is the messages since the last deletion, and a message
  reported as written stays through power failures, except one in the middle of a deletion and if no transaction failed. What overlapping calls do is in section 7.
* `ScanOwned`: a scan is in one place at a time (asked for, running, done, queued) and its screen waits
  for it; so an old answer cannot land on a new screen and the one-element queue always has room.
* `WayHome`: although a full history loses screens, its bottom stays the main screen or the spinner, which gives way to the main screen (`SpinnerEnds`). That the
  spinner can sink there, after eight passwords, was found by the proof (section 7).
* `SpinnerEnds`, `ScanShown`, `DropNoticed`: liveness over two loops that share bits.
* `Agreement`: once an update that neither crossed another nor was cut short has settled, Control, EEPROM and screen hold the same byte, whichever side it
  came from and whatever came before: a byte in the EEPROM that is no target, updates that crossed or were dropped. It says nothing of the channel, and nothing of the time before the first such
  update, when screen and Control may differ (section 7). `EchoHeals`: when nothing is lost, crossing updates are made to agree, with the channel too, by what comes back from it.
* `SaveEnds`: a save waits without limit for room in `to_Control`, which Control empties, while Control may be waiting for room in `to_UI`, which only the UI empties; the 100 ms of
  Control's send are what breaks the circle (without them the run finds both waiting for ever). The second half, the wait for `to_Network`, holds while the connection does; that the UI stands still when it goes is in section 7.
* `NothingLeaks`, `ConnectedIsOpen`: of all objects ever made only the task's own exists, and what
  reports itself as connected is open, under late lookups and the unlocked write.
* `FullReadIsRead`: a read reported as full has every byte in its place, whatever ticks,
  refusals and left-over stops came in between. This is what keeps garbage from passing for EEPROM data.
* `Faithful`: what the chip sees of a transfer is its commands in order, with the restart and the stop where they belong, and no FIFO overruns.
* `ToldOnce`: for a task that gets no ticks, no completion is left over that would end the next transaction.

* `ListsAgree`: every task is in exactly one state list, once, and in at most one event list, where it waits for an object only while it is neither ready nor deleted, at every moment an interrupt can see. No path
  (time-out, abort, suspension, deletion, inheritance, a wake-up that meets a suspended scheduler) may forget one of the two items of a task.
* `RunsHighest`: every path that readies a task also switches to it when it must: ticks pended during a suspension, interrupts that meet a locked queue, time-outs,
  timers, priorities handed back. It holds when tasks hold one mutex at a time and waits for it are of two ticks or more, as in the application; see section 7 for two.
* `WakesOnTime`: the delayed lists are sorted, the wake time of a sleeper and the list it is in agree with the true time left, on either side of the wrap and with ticks pended; no timer's
  callback comes before its time, and the service task never sleeps past the time the next one has to come. A timer works only if the
  service task samples the tick at least once per wrap, that is, if its period and the lateness of the task together stay below 2^32 ticks: with a period of 3 and a
  lateness of 1 in a wrap of 4 the model finds a whole wrap missed.
* `NeverEarly`: no wait reports a time-out, and no delay ends, before its time.
* `NothingMissed`: a task sleeps on a queue it could be served by only while each item is already promised to a woken task or counted in the lock; nobody
  sleeps with a notification pending or with its bits set; what a task awaits of an event group survives a change of its priority; a set holds the handle of a
  member once for each item of that member, but for those counted in the lock of the member or selected and about to be received.
* `Inheritance`: the holder of a mutex is at least as high as every waiter, and raised only while it holds one.
* `FirstInFirstOut`, `ImplementsPipe`, `GivesEachByteOnce` (refinements): queues implement `MessageQueue`, the stream buffer `BytePipe`, the heap `Allocator`, which
  refuses a request only when no gap between the pieces given out is long enough.
* `NoSleeperForgotten`: a reader or writer is asleep although it could be served only while the other side is on its way to wake it.

`CHECK_DEADLOCK FALSE` stands where the bounds let the model stop: all samples, messages,
connections or transactions have been used up (`samples`, `log`, `tls`, `i2c`).


## 4. Fairness

* *Control*: weak fairness of the iteration (every wait has a time-out); strong fairness of
  `DrainTimesOut`: targets come from a finger and a web page and do not for ever arrive faster
  than the 10 ms the loop waits for the next.
* *Connection*: weak fairness of both loops; strong fairness of `Check`, which comes round
  every 15 s of serving; finitely many link losses (`MaxLosses`); the user owes nothing.
* *TargetRh*: weak fairness of the three loops: nothing is assumed of any one step of Control; strong fairness of `TellNetwork`,
  which has no time limit and competes with a reading every 15 s for room in the queue, which Network empties at every pass. Connection, user, web page and sensor owe nothing.
* *TlsClient*: strong fairness of the attempt (the lock of lwIP is a mutex that a waiting task gets) and
  weak fairness of `Store`. No answer, connection or byte is owed by the network.
* *I2CBus*: the handler runs when it is pending, a bus that moves goes on moving, tasks go on, and the mutex
  serves those who wait (strong fairness of `Begin`).
* *StreamBuffer*: a call goes on once it is made, and the Network task reads again and again, which the MQTT client's loop does; the writer owes nothing.
* *FreeRTOS*, *Heap*: safety only. Time is bounded by guards (`MaxLate`), which would make any fairness of the tick a claim about the scenarios, not about the kernel.


## 5. Assumptions about the platform

* In the models of the application a call on a queue, the event group or the notification is atomic, which is what `FirstInFirstOut` and `NothingMissed`
  say of the kernel (the TLS model has a stream buffer of its own, cut to what it needs); so is the programming of one word of the EEPROM. A
  slot, which is longer, may be left torn by a power failure.
* The chip may be deaf for the 5 ms after a write that `eepromWrite` waits out with the bus released.
* Samples are stored 90 s apart (`eeprom_val_write_counter`), longer than a chart takes to
  read, so at most one is begun while a chart is read (`raced` in `EepromSamples`).
* All interrupts have one priority and a byte takes 90 us at 100 kHz, so the handler and the loops that fill the
  FIFO are single steps. The controller raises TX_EMPTY only when the last command is done. The code relies on both.
* Whether disabling the controller forgets a stop it has seen is left open (`Begin` in `I2CBus`).
* Interrupts that call the kernel are masked by its critical sections, the tick among them. All pointers of the kernel are valid and its assertions compiled in.
* lwIP, mbedTLS, the MQTT client, the Bosch driver, LVGL and the SDK are submodules that are not in the repository. They
  appear as the outcomes their callers distinguish.
* The web page sends targets from 30 to 70 only: the dashboard checks them (mqtt_web/dashboard.js:44); the device itself does not (Network.cpp:119): a payload that is no number, which `std::stoi` throws on, is not a case of the models.
* The sensor never reports more than 100 % or less than 0 %; readings are cut to bytes as the code does.


## 6. What is proved

TLAPS checks the following for every value of the constants that the named assumptions allow.

| module | theorem | statement |
|---|---|---|
| `Control_proofs` | `TypeCorrect`, `Exclusion`, `AlarmsHandled`, `BandStaysCentred`, `BandOnItsSide` | the invariants of the run, for all bytes as targets and readings and all queue lengths |
| `Control_proofs` | `Refinement` | Control implements `Regulator` if all targets lie in 5..250 (`SafeTargets`); the bound is needed, as 3 and 255 wrap |
| `EepromSamples_proofs` | `TypeCorrect`, `HistoryExact` | types; the ring holds exactly the last samples, for every number of slots up to 255 and of samples |
| `EepromSamples_proofs` | `CrashCostsOne`, `ChartRunsForward` | `OneLostPerCrash` and `TimeRunsForward` for every number of slots, power failures and failing transactions, at any point of a write and of a chart |
| `EepromLog_proofs` | `TypeCorrect`, `LogIsExact`, `ReportedSurvives` | types, `ExactLog` and `SurvivesCrashes` for every number of slots up to 1000, one writer or two, and any number of messages, deletions, power failures and failing transactions |
| `Connection_proofs` | `TypeCorrect`, `ScanFindsItsScreen`, `BackLeadsHome` | types, so the history never leaves its five places; `ScanOwned`; `WayHome`; for any number of passwords and link losses |
| `Kernel_proofs` | `TypeCorrect`, `PlacesAgree`, `EchoMends` | types, `Agreement` (device, screen and EEPROM) and `EchoHeals` (those and the channel) for every byte stored before, all targets from 30 to 70, every queue length, and any number of saves, of targets of the web page and of failures |
| `Kernel_proofs` | `FreeListIsExact`, `HeapImplements` | `FreeListExact`, and the heap implements `Allocator` (`GivesEachByteOnce`), for every place, size and alignment of the memory, every size of a header and every set of sizes asked for, any number of calls and any interleaving of `vPortFree` |
| `Kernel_proofs` | `StreamTypes`, `NoneForgotten`, `Implementation` | for every length, trigger level, set of chunks and size of read: indices stay in the ring, no wake-up is missed, and the stream buffer implements `BytePipe` |
| `FreeRTOS_proofs` | `QueuesAreFirstInFirstOut` | the queues implement `MessageQueue` (`FirstInFirstOut`), for every set of tasks and interrupts, of priorities, queue lengths, sets and scenarios of legal calls, and any number of ticks |
| `FreeRTOS_proofs` | `CountsAreRight`, `MutexesExclude` | under the same assumptions: `CountsRight` (the first part of `Inheritance`), and a mutex passes from one holder to another only by being free in between, to the task that runs |
| `FreeRTOS_proofs` | `ListsStayRight` | under the same assumptions, and for any timers and event groups: `ListsAgree`, every task is in exactly one state list, once, at its current priority if it is ready, and in at most one event list, where it waits for an object only while it is neither ready nor deleted |
| `Kernel_proofs` | `TimeoutsAreExact`, `PeriodsAreExact`, `TimersAreExact` | `xTaskCheckForTimeOut`, `xTaskDelayUntil` and `prvInsertTimerInActiveList` are exact across every wrap of the tick count, for every modulus, wait and period, while less than one full turn has passed (2^32 ticks in the code) |
| `TlsClient_proofs` | `TypeCorrect`, `NoLeak`, `ConnectedMeansOpen`, `BytesInOrder` | types, and the three invariants of the run, for any number of addresses, attempts, late lookups and bytes, and every size of the stream buffer |
| `I2CBus_proofs` | `TypeCorrect`, `TransfersAreFaithful`, `FullReadsAreReads`, `EndsAreToldOnce` | types, `Faithful`, `FullReadIsRead` and `ToldOnce` for every set of tasks and of transfers of at least one byte, every depth of the FIFOs from 2, and any number of ticks, refusals and hangs |

The assumptions are those the modules name, which TLC evaluates in the runs: sizes and bounds are natural numbers, a ring has a slot, a FIFO two places, a queue a slot and a transfer a byte,
the calls of tasks and interrupts are those the asserts of `queue.c` allow (`ScenariosAreLegal`; a mailbox is overwritten only if its length is 1, a mutex is not sent to, an interrupt gives semaphores only) and the handles they are given allow: the idle task is neither suspended nor deleted, a task
that may have been deleted is not suspended, aborted or notified, by another, an interrupt or a timer (its control block is free memory then), and one task serves the timers. No item is called
"ok" or "failed",
the heap has room for a block and is smaller than the sizes a header can hold without its mark (`Total <= SizeMax \div 2`),
"nobody" is no task, and targets are bytes (for `Refinement` within 5..250; in `TargetRh` what the slider and the preset buttons can give, `min_set_rh` to `max_set_rh`).

The inductive invariants, each also checked with TLC before it was proved:

* *Control*, `IInv`: TypeOK, `Outputs` (only four output patterns exist, and mist belongs to the burst), `AlarmProgress`
  (which of the alarms are already handled at each `pc`), AlarmHandled, BandCentre, RunsTowardsBand. `AlarmHandled` alone speaks of the end of the iteration only; `AlarmProgress`
  carries it there through the alarm blocks. The refinement uses `BandCentre` to read the mode off `in_range_rh`.
* *EepromSamples*, `RInv`: where the next sample goes (`Place`), what every slot holds in
  terms of it (`RingHolds`), and how count, index and slot follow one another while a sample is being written. `ExactHistory` follows by arithmetic modulo N.
* *EepromSamples*, `LInv` (power failures): in terms of the `Age` of a slot, which is how many places before the next one it lies, no sample is younger than its age, and the count
  covers it. Of the last N samples those whose slot is neither torn nor overdue are visible, and a power failure adds at most one, the sample being written, to the rest (`Lost`).
* *EepromSamples*, `SInv` and `CInv`: no two slots hold one sample, and the slots a chart has still to visit are the `left` ones before its `Base`, the index it read
  first, so that what it has collected is in none of them. `OInv` and `FInv`: going back from the place, slots hold older and older samples, except the place itself; a chart opened on the
  place visits that slot first or not at all, and the one sample that may be stored meanwhile goes there.
* *EepromLog*, `Below`: what was reported lies below the pointer, no slot below it is empty, the calls under way have read the pointer as it is, and during a deletion nothing counts as
  reported. `Progress`: what the slots hold at every step of a call that nothing disturbs. Both say nothing once calls have met half way (`raced`), which is the excuse in the properties.
* *Connection*, `ScanOwned` and `Aimed`: while the UI searches it is going nowhere else, the middle of a pass belongs to its screen, and Network
  acts on bits that only it clears. `Rooted`: only the screen on display is pushed, so an empty history means that an end of the way back is shown.
* *TargetRh*, `Agree` and `Echo`: `Final(q, e)` is what a receiver that holds `e` will hold once it has emptied the queue `q`, and `EndsWith` says the same of a queue that holds readings too. At every stage of an update the final values of Control and UI (`Agree`), and of these and the
  channel (`Echo`), are related; settling makes them the values themselves. `Agreement` says nothing of the way there, so it is not inductive.
* *StreamBuffer*: the types; what a registered, sleeping or notified task implies of the other side's `pc`; that the bytes copied so far lie beyond the head and before the tail,
  so that the copy of one side never touches what the other may read; and the arithmetic of indices that wrap once (`BytesInBuffer + SpacesAvailable = RingLength - 1`). The
  refinement has one step per action: only `SendCommit` and `ReceiveCommit` move the pipe.
* *Heap*, `HeapInv`: the blocks, whoever has them, tile the memory at every step of a call (`Tiled`); the list leads from each free block to the next free one (`Linked`), no
  two free blocks are neighbours (`Apart`), a search has passed only blocks that are too small and the block to insert lies behind the one the search for its place has reached
  (`Calls`), and `xFreeBytesRemaining` is the number of bytes in no block given out (`BytesCounted`). `FreeListExact` speaks of the time between calls only. In the refinement `Malloc` asks, `Give`
  gives, `Look` or `NoneFits` refuses, and the `Link` of a freed block takes it back; everything else stutters. That a refusal is right needs `Apart` (a gap is one block) and, for the
  refusal at once, `BytesCounted` (a gap has no more bytes than are free); that a block is given whole needs `Tiled`.
* *Queues*, `QueuesInv`: the read index, the write index and the count of a ring agree (`Ring`); a queue holds items, a set the handles of
  queues, a semaphore nothing (`Sound`); each task is at a call of its program, and one that receives from "selected" has got a queue from the set (`Threads`). Nothing of the
  scheduler is in it, but for the counts (`CountSound`: a mutex is full exactly when nobody holds it): who runs next, and who is told of an item, cannot reorder items. `Line` reads the items off the ring. The one recursion that touches queues, `ToldAll` (an unlock
  tells of each item counted meanwhile, which moves handles in sets), is handled by a least counterexample (`Induction`).
* *Scheduler*, `SchedulerInv`: `QueuesInv`; `KernelOk`, in which `ListsAgree` is stated task by task (`Placed`, `Evented`) and the idle task is always ready; no task is pended while
  the scheduler runs (`Calm`); and `Control`, which ties the lists to the programs: only the current task holds the scheduler; one that awaits a notification is in that call; the current task is
  `Settled` (neither suspended nor deleted nor in an event list) unless it is on its way to yield; only tasks that may be deleted are; the timer service task has a timer to fire. Without `Control` `ListsAgree` is
  not inductive: a task that did not settle would be put into a second list. Every operator of `Kernel` keeps `KernelOk` and `Flow` (what the kernel does to tasks by itself: it deletes none, and gives the processor to settled
  ones only), so a critical section that composes them does. The walks over lists (`ForEach`, the waiters of an event group, pended ticks, counted items, missed periods of a timer) are recursive functions, handled
  by a least counterexample as well.
* *TlsClient*, `Shape`, `Held` and `Closing`: when the task holds an object, a pcb being connected is not complete, an
  established one is open or gone, and what is about to be freed is closed. `InOrder` is inductive together with `Counted` and `Bytes`: no byte on its way is of a connection still
  to come, so the bytes of the present one are the last in the buffer and at lwIP and go on counting where the reads stopped.
* *I2CBus*: `Bytes` (what arrived, and room for what is under way), `Given` (the driver's counters say which commands it has issued), `Wire` (the chip saw a front of them), `Ends` and
  `Told` (which completions are still owed to whom), `Undisturbed` and `Counted` (a count that is full stays full, whatever notification ends the wait).

Only model-checked:

* liveness (`BadWaterStopsDevices`, `TargetAdopted`, `SpinnerEnds`, `ScanShown`, `DropNoticed`, `SaveEnds`, `AttemptEnds`, `EveryoneReturns`, `SendEnds`): fairness and ENABLED are beyond the prover;
* of the scheduler `RunsHighest`, `WakesOnTime`, `NothingMissed`, `NeverEarly`, and of `Inheritance` what `CountsRight` does not say. `RunsHighest` does not hold for every scenario (section 7,
  `kernel_mutexes`), nor does the rule of `Inheritance` for priorities that change under a mutex, so a theorem would first need to say which scenarios are meant; the others need, on top of
  `SchedulerInv`, that the lists are sorted and what each `pc` implies of the time left.

The proofs changed the model where it was loose: `CopyTo` had a CASE with overlapping branches, which are tried in order now, as in the code; `ScenariosAreLegal` did not say that nobody suspends, aborts or
notifies a task that may have been deleted.


## 7. Where the code and its own words disagree

With a run (listed under "findings"):

* `connection_history`: `configASSERT(screen_depth < 5)` (UI.cpp:638) is broken by a menu selection after a connection made on the device.
* `kernel_mutexes`: a task that gives back its last mutex falls to its own priority, but yields only if nobody waits for that mutex (queue.c:963), although
  tasks.c:4276 promises a switch "whether a task is waiting on it or not". With a waiter of lower priority on the list the task runs on although one that
  outranks it is ready, and a tick does not repair it, since `xTaskIncrementTick` compares only equal priorities. The same happens with a single mutex when the high waiter gives up
  after a wait of one tick, and is ready but has not run, when the holder gives to a lower one. The application's waits for its one mutex are endless.

Seen in the kernel, in calls the application does not make; the scenarios stay clear of them:

* An abort leaves `ucDelayAborted` set if the task was woken from something other than a queue (tasks.c:2736); the flag then ends the task's next wait on a queue at once (tasks.c:3382). `cut` in the model excuses that wait.
* `vTaskResume` readies a task that blocks for ever on a notification, though it was never suspended (tasks.c:1805-1813 looks at the event item only).
* `vTaskPrioritySet` on a task with an inherited priority sorts its event item by the new base (tasks.c:1632), so that it waits behind tasks it outranks.
* `xQueueGenericReset` readies one of several blocked senders though all places are free (queue.c:320-325); a task deleted between its wakening and its run takes the item's wakening with it.
* `xQueueRemoveFromSet` looks at the queue before its critical section (queue.c:3035-3048): an item an interrupt sends in between leaves a handle behind in the set, and the queue may leave all the same.

Definitions that are false of the code, to be seen by adding them as an INVARIANT to the configuration of their module:

* `EepromSamples!FieldsAsDeclared`: `writeSample(temp, rh)` (Control.cpp:137) against `writeSample(float rh, float temp)` (EEPROM.h:62): the chart's humidity is the temperature.
* `EepromLog!WrittenStays`: "Log written successfully" (EEPROM.cpp:188) for a message the other task then overwrites or deletes, as `readLogAddress`, the slot and the address are separate transactions and Control and UI both use the log.
* `TargetRh!RegulatesInRange`: an erased EEPROM shows 50 and regulates to 255 (UI.cpp:213-216, Control.cpp:65; README.md:5 promises 30 to 70).

Met while reading or seen in the models, without a run of their own:

* *Alarm polarity*: one alarm negates the sensor and the other does not (Control.cpp:83-84); the comments at Control.cpp:144 and WaterSensor.h:54 say otherwise. The
  wiring, which decides, is not in the repository; the models take the code's word.
* A scan the driver refuses (Network.cpp:213) is reported to nobody; the UI stays on "Searching...", which has no back button.
* One failed reconnection ends the periodic check (Network.cpp:183, :114), as the bit that makes it run has been cleared.
* With two sets of credentials queued one after the other, NETWORK_CONNECTED set for the first stays set while the second fails (Network.cpp:77-91).
* BAD_AUTH has no owner: it may be shown for credentials that were right (UI.cpp:70, IPStack.cpp:45). Credentials queued just before CONNECTING_NETWORK
  is cleared (Network.cpp:93, :186) stay untried.
* `pdMS_TO_TICKS(portMAX_DELAY)` (UI.cpp:527) is 71 minutes; the send to Network at UI.cpp:137 has no limit, and the UI stands still if the connection goes while it waits.
* A deletion of the log cut short by a power failure (EEPROM.cpp:231) leaves the pointer in the middle of cleared slots: what is logged later is lost earlier than it should be.
* `readLogAddress` returns 0 for a failed read (EEPROM.cpp:127), which passes for an address: the entry then overwrites reboot status and target.
* A chart opened within 5 ms of a write starts at slot 0 (EEPROM.cpp:41, :272-281).
* A write the chip refuses counts as full when it fits into the FIFO (PicoI2C.cpp:163-167); `BME680_wrapper.cpp:13` and `:24` ignore results altogether.
* `tls_client_write` takes no lock although tls_common.c:199 asks for it around calls of lwIP from outside its thread (TlsClient.cpp:117), and after a failed write it returns the
  `ERR_OK` of `tls_client_close` (tls_common.c:293-297), so `write_bytes` reports success.
* `tls_client_close` is handed a pcb where it takes a state (tls_common.c:214); a late lookup reads a freed state (tls_common.c:156-158); the stream buffer keeps
  bytes of the previous connection (the comment at :257 speaks of clearing the old one).
* With assertions compiled out (a release build), eight passwords in one session let the spinner sink to the bottom of the history: a push on a full history is lost, but Back still takes a
  screen off (UI.cpp:638, :645-651). Back then ends at the spinner instead of the main screen. The proof of `WayHome` showed it.
* SAVE stores the slider's last value, not the target shown, when neither slider nor preset was touched (UI.cpp:130).
* Crossing targets of user and web page leave device and screen with different numbers until an echo comes; a late echo may undo a newer save.


## 8. What is not modelled

* Drawing, fonts, charts as pictures, touch calibration, SPI, UART, PWM and GPIO registers: code of one task without states worth exploring.
* Layout of strings and CRCs: a slot is valid or not. `getAllLogs` only reads and shows the slots.
* The four presets and their names: members of the set of choices.
* The submodules named in section 5.
* Of the kernel, calls the application never makes: the notification actions but for the one it uses, peeking by interrupts, message buffers, the stream buffer calls of interrupts, event
  groups from interrupts, deletion of queues, timers and event groups, pended functions, static creation, the queue registry; and what prints, counts or
  names tasks. Context switches themselves, the tickless idle (off) and the second core (unused) of the RP2040 port.
* Of the repository's lines, most are not part of the program: the memory protection wrappers (7,600 lines, no such unit on this chip), co-routines, four of the five heaps, and the
  kernel's headers, which are documentation and macros. That is why "map" names about a sixth of all lines, and a third of the application's: the rest of the application is
  drawing (`UI.cpp`, `display`), register set-up and data tables.
* The dashboard beyond the target it sends.
* The blocks the EEPROM reserves for SSID and password: no task reads or writes them.
* Real time: time-outs are choices that may be taken whenever what they wait for has not come; only the durations in section 5 matter.


## 9. The plan

Written in this order, the most important behaviour first: `Control` with `Regulator`, `EepromSamples`, `EepromLog`, `Connection`, `TargetRh`, `TlsClient`, `I2CBus`; then
the platform underneath: `Kernel`, `EventGroup`, `Timers`, `Queues`, `Tasks`, `FreeRTOS`, `StreamBuffer`, `Heap`. What is next:

1. *Abstract log*: a specification of the event log as a bounded sequence of messages that is emptied when it overflows or on request, and `EepromLog` with
   one writer shown to implement it; `Progress` of `EepromLog_proofs` is most of the invariant that takes.
2. *Composition*: `EepromLog` or `EepromSamples` over the interface of `I2CBus` (full, short, nothing) in place of the assumed outcomes of a transaction; the Control task's
   queue calls over `FreeRTOS` in place of atomic ones.
3. *Restart*: what the EEPROM keeps over a power failure together with `TargetRh`, so that a restart in the middle of a save is covered.
4. *Proofs*: `WakesOnTime` and the rest of `Inheritance` from `SchedulerInv`; the first needs that the delayed lists are sorted and the true time left of each sleeper, the second a
   restriction of the scenarios to tasks that hold one mutex at a time.
5. *More of the kernel*: what section 8 lists, if the application comes to use it.
