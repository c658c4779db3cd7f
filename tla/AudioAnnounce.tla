---------------------------- MODULE AudioAnnounce ----------------------------
(***************************************************************************)
(* audiod's announcements (packages/audiod: announce.rs, App::announce and  *)
(* App::restart in main.rs): a voice or a chime mixed over an output's      *)
(* music, which a duck control lowers before it and raises after it.        *)
(*                                                                          *)
(* Every announcement is a task; a fair lock per output makes them take     *)
(* turns.  The tasks, a new endpoint map and the daemon's end interleave at *)
(* every await: between the steps of a ramp, while a file is fetched, while *)
(* aplay runs.                                                              *)
(***************************************************************************)
EXTENDS Naturals, FiniteSets

CONSTANTS
    Outputs,            \* the board's named outputs
    Steps,              \* steps of a ramp
    MaxAnnouncements,   \* bound: announcements asked for
    MaxDisturbs         \* bound: restarts of the endpoints and of the daemon

(* The duck control's step i of Steps below full: 0 is full, Steps ducked. *)
Loud == 0
Low == Steps

Stages == {"idle", "resolve", "down", "play", "up"}

VARIABLES
    alive,      \* the daemon runs
    duck,       \* each output's duck control, in ramp steps below full
    waiting,    \* announcements waiting for their output's turn
    stage,      \* what the one that has the turn is doing
    step,       \* steps of its ramp done
    unraised,   \* history: outputs left lowered by an aplay that could not be started
    nasked, ndisturbs

vars == <<alive, duck, waiting, stage, step, unraised, nasked, ndisturbs>>

TypeOK ==
    /\ alive \in BOOLEAN
    /\ duck \in [Outputs -> 0..Steps]
    /\ waiting \in [Outputs -> Nat]
    /\ stage \in [Outputs -> Stages] /\ step \in [Outputs -> 0..Steps]
    /\ unraised \subseteq Outputs
    /\ nasked \in 0..MaxAnnouncements /\ ndisturbs \in 0..MaxDisturbs

(* App::announcing: published as audio/announcing/<output>.                *)
Announcing(o) == stage[o] # "idle"

(* cmd/audio/announce/<output|all>: a task for every output named.         *)
announce(outs) ==
    /\ alive /\ nasked < MaxAnnouncements
    /\ nasked' = nasked + 1
    /\ waiting' = [o \in Outputs |-> waiting[o] + (IF o \in outs THEN 1 ELSE 0)]
    /\ UNCHANGED <<alive, duck, stage, step, unraised, ndisturbs>>

Take(o) ==
    /\ alive /\ stage[o] = "idle" /\ waiting[o] > 0
    /\ stage' = [stage EXCEPT ![o] = "resolve"]
    /\ waiting' = [waiting EXCEPT ![o] = @ - 1]
    /\ UNCHANGED <<alive, duck, step, unraised, nasked, ndisturbs>>

(* Mutant: an announcement whose source cannot be had is queued again.     *)
MutantResolve(o) ==
    /\ alive /\ stage[o] = "resolve"
    /\ \E found \in BOOLEAN :
          /\ stage' = [stage EXCEPT ![o] = IF found THEN "down" ELSE "idle"]
          /\ waiting' = [waiting EXCEPT ![o] = @ + (IF found THEN 0 ELSE 1)]
    /\ UNCHANGED <<alive, duck, step, unraised, nasked, ndisturbs>>

(* The source is the chime, a file, or a URL to fetch: or nothing usable.  *)
resolve(o) ==
    /\ alive /\ stage[o] = "resolve"
    /\ \E found \in BOOLEAN :
          stage' = [stage EXCEPT ![o] = IF found THEN "down" ELSE "idle"]
    /\ UNCHANGED <<alive, duck, waiting, step, unraised, nasked, ndisturbs>>

(* One step of a ramp, to a value of its own and not relative to what the  *)
(* control holds; after the last one, what comes next.                     *)
ramp(o, to, value, next) ==
    /\ alive /\ stage[o] = to /\ step[o] < Steps
    /\ duck' = [duck EXCEPT ![o] = value]
    /\ IF step[o] + 1 = Steps
       THEN step' = [step EXCEPT ![o] = 0] /\ stage' = [stage EXCEPT ![o] = next]
       ELSE step' = [step EXCEPT ![o] = @ + 1] /\ UNCHANGED stage
    /\ UNCHANGED <<alive, waiting, nasked, ndisturbs>>

RampDown(o) ==
    /\ ramp(o, "down", step[o] + 1, "play")
    /\ unraised' = unraised \ {o}

(* aplay cannot be started: `?` returns from where the ramp down has ended. *)
SpawnFails(o) ==
    /\ step[o] + 1 = Steps
    /\ ramp(o, "down", Steps, "idle")
    /\ unraised' = unraised \cup {o}

RampUp(o) == ramp(o, "up", Steps - step[o] - 1, "idle") /\ UNCHANGED unraised

(* Mutant: what was cut off returns before the music is raised again.      *)
MutantPlayEnds(o) ==
    /\ alive /\ stage[o] = "play"
    /\ \E cut \in BOOLEAN : stage' = [stage EXCEPT ![o] = IF cut THEN "idle" ELSE "up"]
    /\ UNCHANGED <<alive, duck, waiting, step, unraised, nasked, ndisturbs>>

(* aplay ends, fails, or is cut off after MAX_SECS.                        *)
PlayEnds(o) ==
    /\ alive /\ stage[o] = "play"
    /\ stage' = [stage EXCEPT ![o] = "up"]
    /\ UNCHANGED <<alive, duck, waiting, step, unraised, nasked, ndisturbs>>

Disturb == ndisturbs < MaxDisturbs /\ ndisturbs' = ndisturbs + 1

(* levels::prepare, for a new map or an input switched on or off, whatever *)
(* is announced meanwhile.                                                 *)
restart ==
    /\ alive /\ Disturb
    /\ duck' = [o \in Outputs |-> Loud] /\ unraised' = {}
    /\ UNCHANGED <<alive, waiting, stage, step, nasked>>

(* The daemon ends, aplay with it; the control keeps its value.            *)
Stop ==
    /\ alive /\ Disturb
    /\ alive' = FALSE
    /\ waiting' = [o \in Outputs |-> 0]
    /\ stage' = [o \in Outputs |-> "idle"] /\ step' = [o \in Outputs |-> 0]
    /\ UNCHANGED <<duck, unraised, nasked>>

Start ==
    /\ ~alive
    /\ alive' = TRUE
    /\ duck' = [o \in Outputs |-> Loud] /\ unraised' = {}
    /\ UNCHANGED <<waiting, stage, step, nasked, ndisturbs>>

Init ==
    /\ alive = TRUE
    /\ duck = [o \in Outputs |-> Loud]
    /\ waiting = [o \in Outputs |-> 0]
    /\ stage = [o \in Outputs |-> "idle"] /\ step = [o \in Outputs |-> 0]
    /\ unraised = {}
    /\ nasked = 0 /\ ndisturbs = 0

Task(o) ==
    \/ Take(o) \/ resolve(o)
    \/ RampDown(o) \/ SpawnFails(o)
    \/ PlayEnds(o) \/ RampUp(o)

Next ==
    \/ \E outs \in {Outputs} \cup {{o} : o \in Outputs} : announce(outs)
    \/ \E o \in Outputs : Task(o)
    \/ restart \/ Stop \/ Start

Spec == Init /\ [][Next]_vars

(* Every await of a task ends: a fetch and aplay have timeouts, a ramp     *)
(* sleeps.                                                                 *)
FairSpec == Spec /\ \A o \in Outputs : WF_vars(Task(o))

-----------------------------------------------------------------------------
(* Properties.                                                             *)

(* "The duck ramps down before and back up after": music is at its level    *)
(* whenever nothing is announced on its output, whatever had no source,    *)
(* was cut off or was interrupted by a restart.  One failure is excepted   *)
(* by name: where aplay could not be started, play() returns without the    *)
(* ramp up, and the music stays lowered until the next announcement plays   *)
(* or the levels are prepared again.                                       *)
MusicComesBack ==
    alive => \A o \in Outputs : Announcing(o) \/ duck[o] = Loud \/ o \in unraised

(* "One announcement at a time per output; more queue": each of them has   *)
(* its turn, whatever became of those before it.                           *)
TurnsCome == \A o \in Outputs : waiting[o] > 0 ~> (waiting[o] = 0 /\ ~Announcing(o))

=============================================================================
