------------------------------- MODULE IodIo -------------------------------
(***************************************************************************)
(* iod and the box's relays, contacts and LEDs: the mirror it publishes,    *)
(* the poller that keeps the mirror true, the commands MQTT brings one at a *)
(* time, and the recovery of a wedged IO microcontroller over REST.         *)
(*                                                                          *)
(* The lines belong to the kernel, and gpioset is a peer: anybody may move  *)
(* a relay.  A read or a write of a line runs on a thread of its own, and   *)
(* what it returned is published in a later step.  One relay, one contact   *)
(* and one LED stand for each kind.                                         *)
(***************************************************************************)
EXTENDS Naturals

CONSTANTS
    Backends,       \* the kinds of board: "mcu", "gpio", "none"
    MaxPeer,        \* bound: changes not made by iod
    MaxCommands,    \* bound: commands
    MaxResets,      \* bound: resets of the microcontroller
    MaxIoRestarts   \* bound: restarts of iod

Unknown == {}       \* a path of the mirror holds no value, or one
Idle == [op |-> "idle"]

VARIABLES
    backend,        \* how this board's IO is reached
    part,           \* the microcontroller answers
    chip,           \* the kernel has registered the lines
    relay, closed, level, trigger,  \* the relay, the contact, the LED and what drives it
    gpio_io,        \* iod found the lines when it started
    mirror,         \* the state iod publishes
    cmd,            \* the command being dispatched
    poll,           \* the poller
    reset,          \* the recovery under way
    used            \* what of the bounds is used up

kernel == <<backend, part, chip, relay, closed, level, trigger>>
vars == <<kernel, gpio_io, mirror, cmd, poll, reset, used>>

TypeOK ==
    /\ backend \in Backends
    /\ {part, chip, relay, closed, trigger, gpio_io} \subseteq BOOLEAN /\ level \in 0..1
    /\ {mirror.relay, mirror.closed, mirror.link} \subseteq SUBSET BOOLEAN
    /\ mirror.led \subseteq 0..1
    /\ cmd.op \in {"idle", "toggle", "relay", "led"} /\ poll.pc \in {"sleep", "relays", "contacts", "read"}
    /\ reset \in {"none", "online", "alive"}

Use(what, bound) == used[what] < bound /\ used' = [used EXCEPT ![what] = @ + 1]

-----------------------------------------------------------------------------
(* gpio_io.rs: a line is found by name, read or driven, and let go.  A      *)
(* native contact is a pull-up that reads 0 when made.                      *)
Answers == chip /\ (backend = "mcu" => part)
active_low == backend = "gpio"
Level == closed # active_low
contact_get == Level # active_low

-----------------------------------------------------------------------------
(* What iod does not do: a relay moved by a peer, a contact made, an LED    *)
(* another program or a trigger drives, a part that wedges.                 *)
Peer ==
    /\ Use("peer", MaxPeer)
    /\ \/ Answers /\ relay' = ~relay /\ UNCHANGED <<closed, level, trigger, part>>
       \/ closed' = ~closed /\ UNCHANGED <<relay, level, trigger, part>>
       \/ level' = 1 - level /\ trigger' \in BOOLEAN /\ UNCHANGED <<relay, closed, part>>
       \/ backend = "mcu" /\ part' = FALSE /\ UNCHANGED <<relay, closed, level, trigger>>
    /\ UNCHANGED <<backend, chip, gpio_io, mirror, cmd, poll, reset>>

(* The driver's bring-up: the part identified, its lines registered.       *)
Bringup ==
    /\ backend = "mcu" /\ ~chip /\ part /\ chip' = TRUE
    /\ UNCHANGED <<backend, part, relay, closed, level, trigger, gpio_io, mirror, cmd, poll, reset, used>>

-----------------------------------------------------------------------------
(* dispatch.  A command that cannot be carried out changes nothing: no such *)
(* line, no chip, no answer.  A toggle reads, then drives the opposite.     *)
io_ready == backend # "none" /\ gpio_io
Begin == cmd.op = "idle" /\ Use("commands", MaxCommands)

relay_set(on) ==
    /\ Begin /\ io_ready /\ Answers /\ relay' = on /\ cmd' = [op |-> "relay", now |-> on]
    /\ UNCHANGED <<backend, part, chip, closed, level, trigger, gpio_io, mirror, poll, reset>>
relay_toggle ==
    /\ Begin /\ io_ready /\ Answers /\ cmd' = [op |-> "toggle", now |-> relay]
    /\ UNCHANGED <<kernel, gpio_io, mirror, poll, reset>>
Toggled ==
    /\ cmd.op = "toggle"
    /\ IF Answers THEN relay' = ~cmd.now /\ cmd' = [op |-> "relay", now |-> ~cmd.now]
       ELSE relay' = relay /\ cmd' = Idle
    /\ UNCHANGED <<backend, part, chip, closed, level, trigger, gpio_io, mirror, poll, reset, used>>
relay_write ==
    /\ cmd.op = "relay" /\ mirror' = [mirror EXCEPT !.relay = {cmd.now}] /\ cmd' = Idle
    /\ UNCHANGED <<kernel, gpio_io, poll, reset, used>>

(* A trigger is dropped first: an LED under one ignores what is written.   *)
led_set(want) ==
    /\ Begin /\ trigger' = FALSE /\ level' = want /\ cmd' = [op |-> "led", now |-> want]
    /\ UNCHANGED <<backend, part, chip, relay, closed, gpio_io, mirror, poll, reset>>
LedMirrored ==
    /\ cmd.op = "led" /\ mirror' = [mirror EXCEPT !.led = {cmd.now}] /\ cmd' = Idle
    /\ UNCHANGED <<kernel, gpio_io, poll, reset, used>>

-----------------------------------------------------------------------------
(* The poller: the contacts every time, the LEDs and the relays more        *)
(* rarely.  It runs only when iod found the lines at its start.             *)
PollContacts ==
    /\ gpio_io /\ poll.pc = "sleep"
    /\ poll' = [pc |-> "contacts", ok |-> Answers, now |-> contact_get]
    /\ UNCHANGED <<kernel, gpio_io, mirror, cmd, reset, used>>
ContactsMirrored ==
    /\ poll.pc = "contacts"
    /\ mirror' = IF poll.ok THEN [mirror EXCEPT !.link = {TRUE}, !.closed = {poll.now}]
                 ELSE [mirror EXCEPT !.link = {FALSE}]
    /\ poll' \in {[pc |-> "sleep"], [pc |-> "relays"]}
    /\ UNCHANGED <<kernel, gpio_io, cmd, reset, used>>
PollRelays ==
    /\ poll.pc = "relays" /\ mirror' = [mirror EXCEPT !.led = {level}]
    /\ poll' = [pc |-> "read", ok |-> Answers, now |-> relay]
    /\ UNCHANGED <<kernel, gpio_io, cmd, reset, used>>
(* Mutant: a reading that differs from what iod last commanded is dropped.  *)
MutantReading == IF mirror.relay = Unknown THEN {poll.now} ELSE mirror.relay
Reading == {poll.now}
RelaysMirrored ==
    /\ poll.pc = "read" /\ poll' = [pc |-> "sleep"]
    /\ mirror' = IF poll.ok THEN [mirror EXCEPT !.relay = Reading] ELSE mirror
    /\ UNCHANGED <<kernel, gpio_io, cmd, reset, used>>

-----------------------------------------------------------------------------
(* mcu_reset: unbound, held in reset, released and bound again in one go;   *)
(* then the driver is given four seconds to say the part answers, and a     *)
(* read of a relay six tries to work.  A reset part opens its relays.       *)
mcu_reset ==
    /\ backend = "mcu" /\ reset = "none" /\ Use("resets", MaxResets)
    /\ chip' = FALSE /\ part' \in {part, TRUE} /\ relay' = FALSE /\ reset' = "online"
    /\ UNCHANGED <<backend, closed, level, trigger, gpio_io, mirror, cmd, poll>>
alive == gpio_io /\ Answers
Link(answering) == reset' = "none" /\ mirror' = [mirror EXCEPT !.link = {answering}]
mcu_online ==
    /\ reset = "online"
    /\ IF chip THEN reset' = "alive" /\ mirror' = mirror ELSE ~part /\ Link(FALSE)
    /\ UNCHANGED <<kernel, gpio_io, cmd, poll, used>>
Answering ==
    /\ reset = "alive" /\ Link(alive)
    /\ UNCHANGED <<kernel, gpio_io, cmd, poll, used>>

(* main: whether the lines are there is asked once, here.                   *)
Nothing == [relay |-> Unknown, closed |-> Unknown, led |-> Unknown, link |-> Unknown]
Restart ==
    /\ Use("restarts", MaxIoRestarts) /\ gpio_io' = chip
    /\ mirror' = Nothing /\ cmd' = Idle /\ poll' = [pc |-> "sleep"] /\ reset' = "none"
    /\ UNCHANGED kernel

-----------------------------------------------------------------------------
(* A microcontroller that does not answer at boot has no lines.            *)
Board ==
    /\ backend \in Backends /\ part \in (IF backend = "mcu" THEN BOOLEAN ELSE {FALSE})
    /\ chip = CASE backend = "mcu" -> part [] backend = "gpio" -> TRUE [] OTHER -> FALSE
Init ==
    /\ Board /\ gpio_io = chip
    /\ relay = FALSE /\ closed \in BOOLEAN /\ level = 0 /\ trigger \in BOOLEAN
    /\ mirror = Nothing /\ cmd = Idle /\ poll = [pc |-> "sleep"] /\ reset = "none"
    /\ used = [peer |-> 0, commands |-> 0, resets |-> 0, restarts |-> 0]

Command ==
    \/ (\E on \in BOOLEAN : relay_set(on)) \/ relay_toggle
    \/ \E want \in 0..1 : led_set(want)
dispatch == Toggled \/ relay_write \/ LedMirrored
poller == PollContacts \/ ContactsMirrored \/ PollRelays \/ RelaysMirrored
Recovery == mcu_online \/ Answering
Next == Peer \/ Bringup \/ Command \/ dispatch \/ poller \/ mcu_reset \/ Recovery \/ Restart

Spec == Init /\ [][Next]_vars
(* The poller's loop has no end, one reading in ten is of the relays too,   *)
(* and the runtime drives every task.                                       *)
FairSpec ==
    /\ Spec /\ WF_vars(Bringup) /\ WF_vars(dispatch) /\ WF_vars(poller) /\ WF_vars(Recovery)
    /\ SF_vars(PollRelays) /\ SF_vars(ContactsMirrored /\ poll'.pc = "relays")

-----------------------------------------------------------------------------
(* Once nobody moves anything, the mirror is what the relay, the contact    *)
(* and the LED really are, on every board whose lines iod found and whose   *)
(* part answers: whoever moved them last, iod or a peer, and whichever of   *)
(* a poll's reading and a command's result was published after the other.   *)
Truth == [relay |-> {relay}, closed |-> {closed}, led |-> {level}, link |-> {TRUE}]
MirrorSettles == <>[](gpio_io /\ Answers) => <>[](mirror = Truth)

=============================================================================
