------------------------------- MODULE MCIod -------------------------------
(***************************************************************************)
(* What a daemon publishes, in one run: the ohcmqtt library every daemon    *)
(* but iod keeps its retained state with (OhcMqtt, whose names are this     *)
(* module's own), iod's own way to the broker, its serial ports, and its    *)
(* relays, contacts and LEDs.  A behaviour is one of them at work while the *)
(* others stand at their start.                                             *)
(***************************************************************************)
EXTENDS OhcMqtt

CONSTANTS
    t1, t2,                                                                \* model values
    Viewers, Bauds, Default, MaxSessions, MaxHangups, MaxRestarts          \* serial port

VARIABLES
    part,       \* who is at work
    paths, bus, lagged, ntodo, greeting, nchannel, nlink, nbroker, nretained, nstatus,
    memory, ndisk, told, news, running, nphase, conf, loaded, upsets, saves,
                                                                           \* iod's MQTT
    combo, mode, saved, there, other, sess, hub, watching, published, rate, lines, foreign,
    reply, hangups, restarts,                                              \* its serial port
    backend, answering, chip, relay, closed, level, trigger, gpio_io, mirror, cmd, poll,
    reset, used                                                            \* its IO

Net == INSTANCE IodMqtt WITH
    Paths <- {"relay", "link"}, Roots <- {"core", "hall"}, First <- "core",
    BusDepth <- 1, Capacity <- 12,
    MaxChanges <- 1, MaxUpsets <- 1, MaxSaves <- 1,
    mirror <- paths, todo <- ntodo, channel <- nchannel, link <- nlink, broker <- nbroker,
    retained <- nretained, status <- nstatus, disk <- ndisk, phase <- nphase

Port == INSTANCE IodSerial

Io == INSTANCE IodIo WITH
    Backends <- {"mcu", "gpio", "none"},
    MaxPeer <- 1, MaxCommands <- 1, MaxResets <- 1, MaxIoRestarts <- 1, part <- answering

-----------------------------------------------------------------------------
net == <<paths, bus, lagged, ntodo, greeting, nchannel, nlink, nbroker, nretained, nstatus,
         memory, ndisk, told, news, running, nphase, conf, loaded, upsets, saves>>
tty == <<combo, mode, saved, there, other, sess, hub, watching, published, rate, lines,
         foreign, reply, hangups, restarts>>
lineIo == <<backend, answering, chip, relay, closed, level, trigger, gpio_io, mirror, cmd,
            poll, reset, used>>

(* Those that stand still stand at one of their initial states.              *)
MCInit ==
    /\ part \in {"ohcmqtt", "mqtt", "serial", "io"}
    /\ Init /\ (part # "ohcmqtt" => ~broker)
    /\ Net!Init /\ (part # "mqtt" => nbroker)
    /\ Port!Init /\ (part # "serial" => combo)
    /\ Io!Init /\ (part # "io" => backend = "none" /\ ~closed /\ ~trigger)

MCNext ==
    \/ part = "ohcmqtt" /\ Next /\ UNCHANGED <<part, net, tty, lineIo>>
    \/ part = "mqtt" /\ Net!Next /\ UNCHANGED <<part, vars, tty, lineIo>>
    \/ part = "serial" /\ Port!Next /\ UNCHANGED <<part, vars, net, lineIo>>
    \/ part = "io" /\ Io!Next /\ UNCHANGED <<part, vars, net, tty>>

(* The fairness of each, while it is the one at work.                        *)
MCFairness ==
    /\ WF_vars(part = "ohcmqtt" /\ Sweep) /\ SF_vars(part = "ohcmqtt" /\ StartRepublish)
    /\ WF_vars(part = "ohcmqtt" /\ Handler) /\ WF_vars(part = "ohcmqtt" /\ Poll)
    /\ WF_net(part = "mqtt" /\ Net!Republisher) /\ WF_net(part = "mqtt" /\ Net!Poll)
    /\ WF_net(part = "mqtt" /\ Net!Supervisor) /\ WF_net(part = "mqtt" /\ Net!BrokerStarts)
    /\ WF_lineIo(part = "io" /\ Io!Bringup) /\ WF_lineIo(part = "io" /\ Io!dispatch)
    /\ WF_lineIo(part = "io" /\ Io!poller) /\ WF_lineIo(part = "io" /\ Io!Recovery)
    /\ SF_lineIo(part = "io" /\ Io!PollRelays)
    /\ SF_lineIo(part = "io" /\ Io!ContactsMirrored /\ poll'.pc = "relays")

MCSpec == MCInit /\ [][MCNext]_<<part, vars, net, tty, lineIo>> /\ MCFairness

-----------------------------------------------------------------------------
(* The properties, stated and explained in the modules instanced; those of   *)
(* the library, NothingForgotten, NeverStale and StateReturns, are OhcMqtt's *)
(* own.                                                                      *)

(* iod on MQTT: the broker ends up with the mirror, under the saved prefix.  *)
CatchesUp == part = "mqtt" => Net!CatchesUp

(* iod's serial port: two pumps never read it at once.                       *)
OneReader == Port!OneReader

(* iod's serial port: a line somebody dropped stays dropped.                 *)
LinesKept == Port!LinesKept

(* iod's IO: once nobody moves anything, the mirror is what is there.        *)
MirrorSettles == Io!MirrorSettles
=============================================================================
