------------------------------ MODULE IodMqtt ------------------------------
(***************************************************************************)
(* iod on the box's broker (events.rs, mqtt/*.rs, the configuration         *)
(* handler): a change of state goes from the mirror onto a bus that drops   *)
(* what a slow reader missed, from there to the client's bounded channel    *)
(* by one task, and to the broker by another that also greets it after      *)
(* every connection.  A supervisor restarts both, and mosquitto, whenever   *)
(* the settings page saves.                                                 *)
(*                                                                          *)
(* A path's value counts its changes.  mosquitto keeps retained topics in   *)
(* RAM; a lost connection takes what was queued with it.                    *)
(***************************************************************************)
EXTENDS Naturals, Sequences, SequencesExt

CONSTANTS
    Paths,          \* paths of the state mirror
    Roots,       \* topic roots the settings may name
    First,          \* the prefix iod.json starts with
    BusDepth,       \* messages the bus keeps for a reader
    Capacity,       \* requests the client's channel holds
    MaxChanges,     \* bound: changes of one path
    MaxUpsets,      \* bound: connections broken, restarts of the broker and of iod
    MaxSaves        \* bound: saves on the settings page

None == MaxChanges + 1
Settings == [prefix : Roots, bridge : BOOLEAN]
Fresh == [p \in Paths |-> None]

VARIABLES
    mirror,         \* State: path to value
    bus, lagged,    \* what the republisher has not received; it missed some
    todo,           \* what is left of its republishing of everything
    greeting,       \* what the ConnAck handler waits to publish
    channel,        \* requests the poll has not sent
    link,           \* "down", "live", or "cut" and not noticed yet
    broker,         \* mosquitto is up
    retained, status, \* what it keeps, by topic root
    memory, disk,   \* settings in iod and in iod.json
    told, news,     \* the watch channel, and a value not seen yet
    running,        \* what the client was started with
    phase,          \* the supervisor: take, restart, run
    conf, loaded,   \* the bridge's stanza on disk and in mosquitto
    upsets, saves

client == <<bus, lagged, todo, greeting, channel, link>>
kept == <<broker, retained, status, loaded>>
settings == <<memory, disk, told, news>>
bounds == <<upsets, saves>>
vars == <<mirror, client, kept, settings, running, phase, conf, bounds>>

TypeOK ==
    /\ mirror \in [Paths -> 0..MaxChanges]
    /\ Len(bus) <= BusDepth /\ Len(channel) <= Capacity
    /\ link \in {"down", "live", "cut"} /\ phase \in {"take", "restart", "run"}
    /\ retained \in [Roots -> [Paths -> 0..None]]
    /\ {memory, disk, told, running} \subseteq Settings

-----------------------------------------------------------------------------
Message(p, v) == [path |-> p, value |-> v]
entries == LET order == SetToSeq(Paths) IN
           [i \in 1..Len(order) |-> Message(order[i], mirror[order[i]])]

(* Bus::set: recorded, then sent; the oldest a reader has not taken goes.  *)
send(m) ==
    IF phase # "run" THEN bus' = bus /\ lagged' = lagged
    ELSE /\ bus' = IF Len(bus) = BusDepth THEN Append(Tail(bus), m) ELSE Append(bus, m)
         /\ lagged' = (lagged \/ Len(bus) = BusDepth)

set(p) ==
    /\ mirror[p] < MaxChanges
    /\ mirror' = [mirror EXCEPT ![p] = @ + 1] /\ send(Message(p, mirror[p] + 1))
    /\ UNCHANGED <<todo, greeting, channel, link, kept, settings, running, phase, conf, bounds>>

(* A command the broker delivers is dispatched by the polling task itself;  *)
(* what it changes is set like any other change.                            *)
dispatch(p) == link = "live" /\ broker /\ greeting = <<>> /\ status[running.prefix] = "online" /\ set(p)

publish(r) == Len(channel) < Capacity /\ channel' = Append(channel, r)

(* The republisher.  Having missed messages it publishes the whole mirror.  *)
(* Mutant: it only goes on with what the bus still has.                     *)
MutantMissed == <<>>
Missed == entries
Lagged ==
    /\ phase = "run" /\ todo = <<>> /\ lagged /\ lagged' = FALSE /\ todo' = Missed
    /\ UNCHANGED <<mirror, bus, greeting, channel, link, kept, settings, running, phase, conf, bounds>>
Republish ==
    /\ phase = "run" /\ todo # <<>> /\ publish(Head(todo)) /\ todo' = Tail(todo)
    /\ UNCHANGED <<mirror, bus, lagged, greeting, link, kept, settings, running, phase, conf, bounds>>
Forward ==
    /\ phase = "run" /\ todo = <<>> /\ ~lagged /\ bus # <<>>
    /\ publish(Head(bus)) /\ bus' = Tail(bus)
    /\ UNCHANGED <<mirror, lagged, todo, greeting, link, kept, settings, running, phase, conf, bounds>>

-----------------------------------------------------------------------------
(* The polling task.  After ConnAck: online, the subscription, the whole    *)
(* mirror.  A publish with room in the channel does not yield, so these go  *)
(* in together; one without room waits for this very task to send.          *)
Online == Message("status", 0)
Connect ==
    LET all == <<Online>> \o entries
        room == IF Capacity - Len(channel) < Len(all) THEN Capacity - Len(channel) ELSE Len(all) IN
    /\ phase = "run" /\ link = "down" /\ broker /\ greeting = <<>>
    /\ link' = "live"
    /\ channel' = channel \o SubSeq(all, 1, room) /\ greeting' = SubSeq(all, room + 1, Len(all))
    /\ UNCHANGED <<mirror, bus, lagged, todo, kept, settings, running, phase, conf, bounds>>
Send ==
    LET r == Head(channel) IN
    /\ phase = "run" /\ link = "live" /\ greeting = <<>> /\ channel # <<>>
    /\ channel' = Tail(channel)
    /\ IF r.path = "status" THEN status' = [status EXCEPT ![running.prefix] = "online"] /\ retained' = retained
       ELSE retained' = [retained EXCEPT ![running.prefix][r.path] = r.value] /\ status' = status
    /\ UNCHANGED <<mirror, bus, lagged, todo, greeting, link, broker, loaded, settings, running, phase, conf, bounds>>
Noticed ==
    /\ phase = "run" /\ link = "cut" /\ greeting = <<>>
    /\ link' = "down" /\ channel' = <<>>
    /\ UNCHANGED <<mirror, bus, lagged, todo, greeting, kept, settings, running, phase, conf, bounds>>

-----------------------------------------------------------------------------
(* mosquitto: a dropped connection publishes the will, a stop forgets.     *)
Severed == IF link = "live" THEN "cut" ELSE link
Dropped ==
    /\ link = "live" /\ broker /\ upsets < MaxUpsets /\ upsets' = upsets + 1
    /\ link' = "cut" /\ status' = [status EXCEPT ![running.prefix] = "offline"]
    /\ UNCHANGED <<mirror, bus, lagged, todo, greeting, channel, broker, retained, loaded, settings, running, phase, conf, saves>>
BrokerStops ==
    /\ broker /\ upsets < MaxUpsets /\ upsets' = upsets + 1
    /\ broker' = FALSE /\ link' = Severed
    /\ retained' = [x \in Roots |-> Fresh] /\ status' = [x \in Roots |-> "none"]
    /\ UNCHANGED <<mirror, bus, lagged, todo, greeting, channel, loaded, settings, running, phase, conf, saves>>
BrokerStarts ==
    /\ ~broker /\ broker' = TRUE /\ loaded' = conf
    /\ UNCHANGED <<mirror, client, retained, status, settings, running, phase, conf, bounds>>

-----------------------------------------------------------------------------
(* config_put: applied in memory, saved, and the supervisor told; a save    *)
(* that fails tells nobody.                                                 *)
config_put(s) ==
    /\ saves < MaxSaves /\ saves' = saves + 1 /\ memory' = s
    /\ \/ disk' = s /\ told' = s /\ news' = TRUE
       \/ UNCHANGED <<disk, told, news>>
    /\ UNCHANGED <<mirror, client, kept, running, phase, conf, upsets>>

(* supervise: the bridge first, restarting mosquitto when its stanza        *)
(* changed, then a client of its own with an empty bus and channel.         *)
render(s) == IF s.bridge THEN s.prefix ELSE "none"
NewClient ==
    /\ bus' = <<>> /\ lagged' = FALSE /\ todo' = <<>> /\ greeting' = <<>>
    /\ channel' = <<>> /\ link' = "down"
apply ==
    /\ phase = "take" /\ running' = told /\ conf' = render(told)
    /\ phase' = IF render(told) = conf THEN "run" ELSE "restart"
    /\ NewClient /\ UNCHANGED <<mirror, kept, settings, bounds>>
RestartMosquitto ==
    /\ phase = "restart" /\ phase' = "run" /\ broker' = TRUE /\ loaded' = conf
    /\ retained' = [x \in Roots |-> Fresh] /\ status' = [x \in Roots |-> "none"]
    /\ UNCHANGED <<mirror, client, settings, running, conf, bounds>>

Seen == phase = "run" /\ news
Gone(x) == IF link = "live" /\ broker THEN [x EXCEPT ![running.prefix] = "offline"] ELSE x
supervise ==
    /\ Seen /\ news' = FALSE /\ phase' = "take" /\ NewClient /\ status' = Gone(status)
    /\ UNCHANGED <<mirror, broker, retained, loaded, memory, disk, told, running, conf, bounds>>

(* iod stops and starts: settings from iod.json.                           *)
Load ==
    /\ upsets < MaxUpsets /\ upsets' = upsets + 1
    /\ memory' = disk /\ told' = disk /\ news' = FALSE /\ disk' = disk
    /\ phase' = "take" /\ NewClient /\ status' = Gone(status)
    /\ UNCHANGED <<mirror, broker, retained, loaded, running, conf, saves>>

-----------------------------------------------------------------------------
Init ==
    /\ mirror = [p \in Paths |-> 0]
    /\ bus = <<>> /\ lagged = FALSE /\ todo = <<>> /\ greeting = <<>> /\ channel = <<>>
    /\ link = "down" /\ broker \in BOOLEAN
    /\ retained = [x \in Roots |-> Fresh] /\ status = [x \in Roots |-> "none"]
    /\ disk = [prefix |-> First, bridge |-> FALSE] /\ memory = disk /\ told = disk
    /\ news = FALSE /\ running = disk /\ phase = "take" /\ conf = "none" /\ loaded = "none"
    /\ upsets = 0 /\ saves = 0

Republisher == Lagged \/ Republish \/ Forward
Poll == Connect \/ Send \/ Noticed
Supervisor == apply \/ RestartMosquitto \/ supervise
Next ==
    \/ (\E p \in Paths : set(p) \/ dispatch(p)) \/ Republisher \/ Poll \/ Supervisor
    \/ Dropped \/ BrokerStops \/ BrokerStarts \/ Load
    \/ \E s \in Settings : config_put(s)

Spec == Init /\ [][Next]_vars
(* Every task runs when it can; init starts a broker that stopped.         *)
FairSpec ==
    /\ Spec /\ WF_vars(Republisher) /\ WF_vars(Poll) /\ WF_vars(Supervisor)
    /\ WF_vars(BrokerStarts)

-----------------------------------------------------------------------------
(* Once changes, upsets and saves stop, the broker retains exactly the     *)
(* mirror under the prefix last saved, and says iod is online: whatever     *)
(* was missed on the bus, lost with a connection or forgotten by a broker,  *)
(* and however a save fell into a restart.                                  *)
CatchesUp ==
    <>[](/\ phase = "run" /\ link = "live" /\ running = disk
         /\ retained[disk.prefix] = mirror /\ status[disk.prefix] = "online")
=============================================================================
