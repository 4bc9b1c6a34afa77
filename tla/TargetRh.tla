------------------------------ MODULE TargetRh ------------------------------
(***************************************************************************)
(* One number in five places: the target humidity as Control regulates to  *)
(* it, as the UI shows it, as the EEPROM keeps it, as the slider last had  *)
(* it and as the channel of the broker has it.  The user and the web page  *)
(* set it; it travels through the three Message queues, two of which it    *)
(* shares with Control's readings, and comes back from the channel, which  *)
(* sends every update of the field to its subscribers, this device among   *)
(* them.                                                                   *)
(***************************************************************************)
EXTENDS Integers, Sequences

CONSTANTS Offered,      \* what slider and presets offer: within 30 .. 70
          WebTargets,   \* what the web page sends
          StoredFirst,  \* what the EEPROM may hold at power-up: any byte
          QueueLength,  \* slots of every Message queue: 10 in the code
          MaxSaves,     \* bound on the presses of SAVE
          MaxWeb,       \* bound on the targets of the web page
          MaxMishaps    \* bound on the checks that find the link dead and the
                        \* EEPROM transactions that fail, together

MinSetRh  == 30
MaxSetRh  == 70
DefaultRh == 50
InRange(t) == MinSetRh <= t /\ t <= MaxSetRh

ASSUME OfferedAssumption ==
    /\ Offered \subseteq MinSetRh .. MaxSetRh
    /\ WebTargets \subseteq MinSetRh .. MaxSetRh
    /\ StoredFirst \subseteq 0 .. 255
ASSUME BoundsAssumption ==
    /\ QueueLength \in Nat \ {0}
    /\ {MaxSaves, MaxWeb, MaxMishaps} \subseteq Nat

VARIABLES stored,       \* the byte at RH_SET_ADDR
          setRh,        \* set_rh of Control
          shown,        \* sensor_data.target_rh of the UI
          slider,       \* its set_rh_value
          ui,           \* where the UI is in its loop
          uiLinked,     \* NETWORK_CONNECTED in the bits of this pass, while used
          control,      \* where Control is in its loop
          linkSeen,     \* NETWORK_CONNECTED in the bits of this iteration
          net,          \* where Network is in its loop
          linked,       \* NETWORK_CONNECTED
          toControl, toUI, toNetwork,           \* the Message queues
          inbox,        \* the payload MQTTService keeps, or Nothing
          channel,      \* field 3 of the channel, or Nothing
          down,         \* updates on their way from the channel to the device
          astray,       \* the last update crossed another or a part was lost;
                        \* at power-up, what was read is no target
          lost,         \* some target did not reach the channel or the device
          saves, web, losses, faults

userSide == <<shown, slider, ui, uiLinked, saves>>
device   == <<setRh, control, linkSeen>>
netSide  == <<net, linked, inbox, losses>>
broker   == <<channel, down, web>>
queues   == <<toControl, toUI, toNetwork>>
ghosts   == <<astray, lost>>
vars     == <<stored, userSide, device, netSide, broker, queues, ghosts, faults>>

Nothing == -1           \* no target
Reading == -2           \* a temperature and humidity message
Bytes   == Offered \cup WebTargets \cup StoredFirst \cup {DefaultRh}

TypeOK ==
    /\ {stored, setRh, shown, slider} \subseteq Bytes
    /\ ui \in {"boot", "top", "receive", "event", "control", "network"}
    /\ control \in {"boot", "top", "toUI", "toNetwork", "drain"}
    /\ net \in {"top", "publish", "offline", "message", "toUI", "yield"}
    /\ {uiLinked, linkSeen, linked, astray, lost} \subseteq BOOLEAN
    /\ toControl \in Seq(Bytes)
    /\ toUI \in Seq(Bytes \cup {Reading})
    /\ toNetwork \in Seq(Bytes \cup {Reading})
    /\ \A q \in {toControl, toUI, toNetwork} : Len(q) <= QueueLength
    /\ inbox \in Bytes \cup {Nothing}
    /\ channel \in Bytes \cup {Nothing}
    /\ down \in Seq(Bytes)
    /\ saves \in 0 .. MaxSaves
    /\ web \in 0 .. MaxWeb
    /\ losses \in 0 .. MaxMishaps
    /\ faults \in 0 .. MaxMishaps - losses

Init == /\ stored \in StoredFirst
        /\ setRh \in StoredFirst
        /\ shown \in StoredFirst
        /\ slider = DefaultRh
        /\ ui = "boot"
        /\ control = "boot"
        /\ net = "top"
        /\ uiLinked = FALSE
        /\ linkSeen = FALSE
        /\ linked = FALSE
        /\ toControl = << >>
        /\ toUI = << >>
        /\ toNetwork = << >>
        /\ inbox = Nothing
        /\ channel = Nothing
        /\ down = << >>
        /\ astray = FALSE
        /\ lost = FALSE
        /\ saves = 0
        /\ web = 0
        /\ losses = 0
        /\ faults = 0

Room(q) == Len(q) < QueueLength

OnlyReadings(q) == q \in Seq({Reading})

(* A transaction with the EEPROM; nobody looks at its result. *)
Transaction(ok) == \/ ok /\ UNCHANGED faults
                   \/ ~ok /\ losses + faults < MaxMishaps /\ faults' = faults + 1

-----------------------------------------------------------------------------
(* The UI.                                                                 *)

(* What Control gets is the byte as read; what is shown is put in range.   *)
(* A failed read leaves the member uninitialised.                          *)
UIBoot == /\ ui = "boot"
          /\ Room(toControl)
          /\ \E ok \in BOOLEAN :
                /\ Transaction(ok)
                /\ astray' = ~(ok /\ InRange(stored))
                /\ LET t == IF ok THEN stored ELSE shown
                   IN  /\ toControl' = Append(toControl, t)
                       /\ shown' = IF InRange(t) THEN t ELSE DefaultRh
          /\ ui' = "top"
          /\ UNCHANGED <<stored, slider, uiLinked, saves, device, netSide,
                         broker, toUI, toNetwork, lost>>

LookAtBits == /\ ui = "top"
              /\ uiLinked' = linked
              /\ ui' = "receive"
              /\ UNCHANGED <<stored, shown, slider, saves, device, netSide,
                             broker, queues, ghosts, faults>>

TakeReading == /\ ui = "receive"
               /\ toUI # << >> /\ Head(toUI) = Reading
               /\ toUI' = Tail(toUI)
               /\ UNCHANGED <<stored, userSide, device, netSide, broker,
                              toControl, toNetwork, ghosts, faults>>

(* Mutant: a target that arrives is shown and not stored. *)
TakeTargetUnstored ==
              /\ ui = "receive"
              /\ toUI # << >> /\ Head(toUI) # Reading
              /\ toUI' = Tail(toUI)
              /\ shown' = Head(toUI)
              /\ UNCHANGED <<stored, slider, ui, uiLinked, saves, device,
                             netSide, broker, toControl, toNetwork, ghosts,
                             faults>>

TakeTarget == /\ ui = "receive"
              /\ toUI # << >> /\ Head(toUI) # Reading
              /\ toUI' = Tail(toUI)
              /\ shown' = Head(toUI)
              /\ \E ok \in BOOLEAN :
                    /\ Transaction(ok)
                    /\ stored' = IF ok THEN Head(toUI) ELSE stored
                    /\ astray' = (astray \/ ~ok)
              /\ UNCHANGED <<slider, ui, uiLinked, saves, device, netSide,
                             broker, toControl, toNetwork, lost>>

NoMoreMessages == /\ ui = "receive"
                  /\ toUI = << >>
                  /\ ui' = "event"
                  /\ UNCHANGED <<stored, shown, slider, uiLinked, saves,
                                 device, netSide, broker, queues, ghosts,
                                 faults>>

(* Slider and presets only set set_rh_value; a touch takes no pass.        *)
Choose == /\ ui = "event"
          /\ saves < MaxSaves
          /\ slider' \in Offered \ {slider}
          /\ UNCHANGED <<stored, shown, ui, uiLinked, saves, device,
                         netSide, broker, queues, ghosts, faults>>

(* A target of the broker that one of Control and the UI has and the other *)
(* has not.                                                                *)
HalfDelivered == net = "toUI" \/ ~OnlyReadings(toUI)

(* SAVE: what set_rh_value holds, whether it was moved on this screen or   *)
(* not.                                                                    *)
Save == /\ ui = "event"
        /\ saves < MaxSaves
        /\ saves' = saves + 1
        /\ shown' = slider
        /\ \E ok \in BOOLEAN :
              /\ Transaction(ok)
              /\ stored' = IF ok THEN slider ELSE stored
              /\ astray' = (HalfDelivered \/ ~ok)
        /\ lost' = (lost \/ ~uiLinked)
        /\ ui' = "control"
        /\ UNCHANGED <<slider, uiLinked, device, netSide, broker, queues>>

TellControl == /\ ui = "control"
               /\ Room(toControl)
               /\ toControl' = Append(toControl, shown)
               /\ ui' = IF uiLinked THEN "network" ELSE "top"
               /\ uiLinked' = FALSE
               /\ UNCHANGED <<stored, shown, slider, saves, device, netSide,
                              broker, toUI, toNetwork, ghosts, faults>>

(* No time limit either. *)
TellNetwork == /\ ui = "network"
               /\ Room(toNetwork)
               /\ toNetwork' = Append(toNetwork, shown)
               /\ ui' = "top"
               /\ UNCHANGED <<stored, shown, slider, uiLinked, saves,
                              device, netSide, broker, toControl, toUI,
                              ghosts, faults>>

NoSave == /\ ui = "event"
          /\ ui' = "top"
          /\ uiLinked' = FALSE
          /\ UNCHANGED <<stored, shown, slider, saves, device, netSide,
                         broker, queues, ghosts, faults>>

UI == \/ UIBoot \/ LookAtBits \/ TakeReading \/ TakeTarget
      \/ NoMoreMessages \/ Save \/ TellControl \/ TellNetwork \/ NoSave

-----------------------------------------------------------------------------
(* Control, as far as targets and the room in the queues go.               *)

ControlBoot == /\ control = "boot"
               /\ \E ok \in BOOLEAN :
                     /\ Transaction(ok)
                     /\ setRh' = IF ok THEN stored ELSE setRh
               /\ control' = "top"
               /\ UNCHANGED <<stored, userSide, linkSeen, netSide, broker,
                              queues, ghosts>>

(* The bits are read before the sensor, and used after two sends.          *)
Measure == /\ control = "top"
           /\ linkSeen' = linked
           /\ control' = "toUI"
           /\ UNCHANGED <<stored, userSide, setRh, netSide, broker, queues,
                          ghosts, faults>>

(* The timer has not ticked, or the sensor does not answer. *)
NoReading == /\ control = "top"
             /\ control' = "drain"
             /\ UNCHANGED <<stored, userSide, setRh, linkSeen, netSide,
                            broker, queues, ghosts, faults>>

(* What finds no room is dropped after 100 ms. *)
Offer(q) == IF Room(q) THEN Append(q, Reading) ELSE q

(* Mutant: the reading waits for room in the queue without a limit, as the *)
(* UI's messages do.                                                       *)
ReadingWaitsForUI ==
    /\ control = "toUI"
    /\ Room(toUI)
    /\ toUI' = Append(toUI, Reading)
    /\ control' = IF linkSeen THEN "toNetwork" ELSE "drain"
    /\ linkSeen' = FALSE
    /\ UNCHANGED <<stored, userSide, setRh, netSide, broker, toControl,
                   toNetwork, ghosts, faults>>

ReadingToUI ==
    /\ control = "toUI"
    /\ toUI' = Offer(toUI)
    /\ control' = IF linkSeen THEN "toNetwork" ELSE "drain"
    /\ linkSeen' = FALSE
    /\ UNCHANGED <<stored, userSide, setRh, netSide, broker, toControl,
                   toNetwork, ghosts, faults>>

ReadingToNetwork ==
    /\ control = "toNetwork"
    /\ toNetwork' = Offer(toNetwork)
    /\ control' = "drain"
    /\ UNCHANGED <<stored, userSide, setRh, linkSeen, netSide, broker,
                   toControl, toUI, ghosts, faults>>

Adopt == /\ control = "drain"
         /\ toControl # << >>
         /\ setRh' = Head(toControl)
         /\ toControl' = Tail(toControl)
         /\ UNCHANGED <<stored, userSide, control, linkSeen, netSide, broker,
                        toUI, toNetwork, ghosts, faults>>

Drained == /\ control = "drain"
           /\ toControl = << >>
           /\ control' = "top"
           /\ UNCHANGED <<stored, userSide, setRh, linkSeen, netSide, broker,
                          queues, ghosts, faults>>

Control == \/ ControlBoot \/ Measure \/ NoReading \/ ReadingToUI
           \/ ReadingToNetwork \/ Adopt \/ Drained

-----------------------------------------------------------------------------
(* Network, as far as the target goes.                                     *)

(* How the connection is made is the matter of module Connection; the user *)
(* has to ask for it.                                                      *)
Join == /\ net = "top"
        /\ ui # "boot"
        /\ ~linked
        /\ linked' = TRUE
        /\ UNCHANGED <<stored, userSide, device, net, inbox, losses, broker,
                       queues, ghosts, faults>>

Pass == /\ net = "top"
        /\ linked
        /\ net' = "publish"
        /\ UNCHANGED <<stored, userSide, device, linked, inbox, losses,
                       broker, queues, ghosts, faults>>

(* The channel takes an update and sends it on, unless either is lost: the *)
(* quality of service is 0.                                                *)
Update(t) == \/ linked /\ channel' = t /\ down' = Append(down, t) /\ UNCHANGED lost
             \/ channel' = t /\ UNCHANGED down /\ lost' = TRUE

Publish == /\ net = "publish"
           /\ toNetwork # << >>
           /\ toNetwork' = Tail(toNetwork)
           /\ IF Head(toNetwork) = Reading
              THEN UNCHANGED <<channel, down, lost>>
              ELSE \/ Update(Head(toNetwork))
                   \/ lost' = TRUE /\ UNCHANGED <<channel, down>>
           /\ UNCHANGED <<stored, userSide, device, netSide, web, toControl,
                          toUI, astray, faults>>

LinkGood == /\ net = "publish"
            /\ toNetwork = << >>
            /\ net' = "message"
            /\ UNCHANGED <<stored, userSide, device, linked, inbox, losses,
                           broker, queues, ghosts, faults>>

(* The session is a clean one: what was on its way is gone. *)
LinkDead == /\ net = "publish"
            /\ toNetwork = << >>
            /\ losses + faults < MaxMishaps
            /\ losses' = losses + 1
            /\ linked' = FALSE
            /\ down' = << >>
            /\ lost' = TRUE
            /\ net' = "offline"
            /\ UNCHANGED <<stored, userSide, device, inbox, channel, web,
                           queues, astray, faults>>

(* The one attempt to reconnect ends, one way or the other. *)
Reconnect == /\ net = "offline"
             /\ linked' \in BOOLEAN
             /\ net' = "message"
             /\ UNCHANGED <<stored, userSide, device, inbox, losses, broker,
                            queues, ghosts, faults>>

NoMessage == /\ net = "message"
             /\ inbox = Nothing
             /\ net' = "yield"
             /\ UNCHANGED <<stored, userSide, device, linked, inbox, losses,
                            broker, queues, ghosts, faults>>

(* The payload is a number of the web page; what is sent of it is a byte.  *)
AsByte(p) == p % 256

(* A target from the channel goes to Control, then to the UI; each send    *)
(* gives up after 10 ms at a full queue.                                   *)
ForwardToControl ==
    /\ net = "message"
    /\ inbox # Nothing
    /\ IF Room(toControl)
       THEN /\ toControl' = Append(toControl, AsByte(inbox))
            /\ astray' = (ui = "control")
            /\ UNCHANGED lost
       ELSE /\ astray' = TRUE
            /\ lost' = TRUE
            /\ UNCHANGED toControl
    /\ net' = "toUI"
    /\ UNCHANGED <<stored, userSide, device, linked, inbox, losses, broker,
                   toUI, toNetwork, faults>>

(* Mutant: the UI is left out. *)
ForwardToNobody ==
    /\ net = "toUI"
    /\ inbox' = Nothing
    /\ net' = "yield"
    /\ UNCHANGED <<stored, userSide, device, linked, losses, broker, queues,
                   ghosts, faults>>

ForwardToUI ==
    /\ net = "toUI"
    /\ IF Room(toUI)
       THEN /\ toUI' = Append(toUI, AsByte(inbox))
            /\ UNCHANGED ghosts
       ELSE /\ astray' = TRUE
            /\ lost' = TRUE
            /\ UNCHANGED toUI
    /\ inbox' = Nothing
    /\ net' = "yield"
    /\ UNCHANGED <<stored, userSide, device, linked, losses, broker,
                   toControl, toNetwork, faults>>

(* One slot: a second message within one yield replaces the first. *)
Arrive == /\ net = "yield"
          /\ down # << >>
          /\ inbox' = Head(down)
          /\ down' = Tail(down)
          /\ UNCHANGED <<stored, userSide, device, net, linked, losses,
                         channel, web, queues, ghosts, faults>>

YieldEnds == /\ net = "yield"
             /\ net' = "top"
             /\ UNCHANGED <<stored, userSide, device, linked, inbox, losses,
                            broker, queues, ghosts, faults>>

Network == \/ Pass \/ Publish \/ LinkGood \/ LinkDead \/ Reconnect
           \/ NoMessage \/ ForwardToControl \/ ForwardToUI \/ Arrive
           \/ YieldEnds

(* The script of the web page has checked the number; the server that      *)
(* sends it on checks nothing.                                             *)
WebSets == /\ web < MaxWeb
           /\ web' = web + 1
           /\ \E t \in WebTargets : Update(t)
           /\ UNCHANGED <<stored, userSide, device, netSide, queues, astray,
                          faults>>

Next == UI \/ Choose \/ Control \/ Network \/ Join \/ WebSets

Spec == Init /\ [][Next]_vars

(* The three loops go on: their waits end or are guards.  A sender that    *)
(* waits at a full to_Network is served when there is room, as readings    *)
(* come 15 s apart.  Nothing is owed by the user, the web page, the sensor *)
(* or the connection.                                                      *)
FairSpec == Spec /\ WF_vars(UI) /\ SF_vars(TellNetwork)
                 /\ WF_vars(Control) /\ WF_vars(Network)

-----------------------------------------------------------------------------
(* Properties.                                                             *)

(* No target is between its sender and the last of its receivers. *)
Settled == /\ toControl = << >> /\ OnlyReadings(toUI)
           /\ ui \notin {"boot", "control"}
           /\ control # "boot"
           /\ net # "toUI"

(* Once an update that neither crossed another nor was cut short has       *)
(* settled, Control regulates to what the EEPROM keeps and the screen      *)
(* shows, whichever side it came from and whatever came before: crossing   *)
(* updates, lost ones, or a byte in the EEPROM that is no target.          *)
Agreement == Settled /\ ~astray => {setRh, shown} = {stored}

(* As long as nothing is lost on the way, updates may cross as they like:  *)
(* what comes back from the channel makes all the places agree with it.    *)
EchoHeals ==
    /\ Settled
    /\ channel # Nothing
    /\ inbox = Nothing /\ down = << >>
    /\ ui # "network" /\ OnlyReadings(toNetwork)
    /\ ~lost /\ faults = 0
    => {setRh, shown, stored} = {channel}

(* A save waits for Control and for Network without a limit.  Control may  *)
(* at that time itself wait for the UI, with the queue in between full:    *)
(* the save goes on all the same, and if the connection stays, through     *)
(* to_Network too.                                                         *)
SaveEnds == /\ ui = "control" ~> ui # "control"
            /\ ui = "network" ~> ui # "network" \/ ~linked

(* "Humidity regulation (30% - 70 % relative humidity range)": what the    *)
(* device regulates to, once the UI has told it, is in that range.         *)
RegulatesInRange ==
    control # "boot" /\ ui # "boot" /\ toControl = << >> => InRange(setRh)
=============================================================================
