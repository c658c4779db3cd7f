---------------------------- MODULE AudioEndpoints ----------------------------
(***************************************************************************)
(* audiod's endpoints (packages/audiod: runner.rs, meta.rs, config.rs,      *)
(* library.rs and what main.rs does with them): the map a user saves, the   *)
(* supervised programs that run it, what each of them says it plays, and    *)
(* the now-playing documents published about them.                         *)
(*                                                                          *)
(* The daemon is one thread: a new map or an input switched is one step.    *)
(* The programs, librespot's event hooks (processes of their own) and the   *)
(* readers of AirPlay's metadata (threads) run between any two of them.     *)
(***************************************************************************)
EXTENDS Integers, Sequences, FiniteSets

CONSTANTS
    Connected,      \* outputs the board has
    Maps,           \* endpoint maps a user may save
    MaxChanges,     \* bound: maps saved, inputs switched, restarts of the daemon
    MaxFaults,      \* bound: programs that die or cannot be started
    MaxEvents       \* bound: things the programs report

Kinds == {"spotify", "airplay", "library", "route"}

(* A map is a sequence of endpoints per kind; a tag is a kind and an index. *)
Tags == UNION {{<<k, n>> : n \in UNION {DOMAIN m[k] : m \in Maps}} : k \in Kinds}
Inputs == {r.name : r \in UNION {{m["route"][n] : n \in DOMAIN m["route"]} : m \in Maps}}
Reports == {"play", "stop", "track", "end"}

VARIABLES
    alive,      \* the daemon runs
    saved,      \* audio.json
    map,        \* App::endpoints
    live,       \* inputs triggered on
    inst,       \* App::instances: the specs that are supervised
    proc,       \* per tag, its program: none, fork, up, or wait (3 s)
    dying,      \* tags whose previous program is being killed
    up,         \* tags runner::Up has as running
    report,     \* per tag, the report on its way from the program: or none
    readers,    \* AirPlay tags with a reader thread
    mind,       \* what the reader of a tag remembers
    meta,       \* what meta/<tag>.json says: none, playing or shown
    told,       \* the broker's audio/meta/<tag>
    nchanges, nfaults, nevents

files == <<mind, meta>>
bounds == <<nchanges, nfaults, nevents>>
programs == <<proc, dying, up>>
config == <<alive, saved, map, live, inst, readers>>
vars == <<config, programs, report, files, told, bounds>>

TagOf(s) == s.tag
TagsOf(specs) == {TagOf(s) : s \in specs}

TypeOK ==
    /\ alive \in BOOLEAN /\ saved \in Maps /\ map \in Maps
    /\ live \subseteq Inputs
    /\ TagsOf(inst) \subseteq Tags /\ Cardinality(TagsOf(inst)) = Cardinality(inst)
    /\ proc \in [Tags -> {"none", "fork", "up", "wait"}]
    /\ dying \subseteq Tags /\ up \subseteq Tags /\ readers \subseteq Tags
    /\ report \in [Tags -> Reports \cup {"none"}]
    /\ mind \in [Tags -> {"none", "playing", "shown"}]
    /\ meta \in [Tags -> {"none", "playing", "shown"}]
    /\ told \in [Tags -> {"none", "playing", "shown"}]
    /\ nchanges \in 0..MaxChanges /\ nfaults \in 0..MaxFaults /\ nevents \in 0..MaxEvents

-----------------------------------------------------------------------------
(* What the map asks for.                                                  *)

Spec_(m, k, n) == [tag |-> <<k, n>>, name |-> m[k][n].name, output |-> m[k][n].output]

(* Every endpoint that is connected; the first library; the routes of the  *)
(* inputs triggered on.  The helper programs are left out.                 *)
plan(m, on) ==
    {s \in UNION {{Spec_(m, k, n) : n \in DOMAIN m[k]} : k \in Kinds} :
        /\ s.output \in Connected
        /\ s.tag[1] = "library" => s.tag[2] = 1
        /\ s.tag[1] = "route" => s.name \in on}

(* Mutant: an instance is known by its tag alone.                          *)
MutantKept(old, want) == {s \in old : s.tag \in TagsOf(want)}

(* Mutant: a change restarts everything.                                   *)
MutantNoneKept(old, want) == {}

(* Equal specs are the same instance.                                      *)
Kept(old, want) == old \cap want

(* runner::start: what is unchanged goes on; of the rest, tags that come   *)
(* back start anew with nothing playing and what is gone is forgotten.     *)
start(m, on, old) ==
    LET want == plan(m, on)
        kept == Kept(old, want)
        fresh == TagsOf(want) \ TagsOf(kept)
        gone == TagsOf(old) \ TagsOf(want)
    IN  /\ inst' = kept \cup {s \in want : s.tag \in fresh}
        /\ proc' = [t \in Tags |-> CASE t \in fresh -> "fork"
                                     [] t \in gone  -> "none"
                                     [] OTHER       -> proc[t]]
        /\ dying' = dying \cup {t \in fresh \cup gone : proc[t] = "up"}
        /\ up' = up \ gone
        /\ meta' = [t \in Tags |-> IF t \in fresh \cup gone THEN "none" ELSE meta[t]]
        /\ readers' = readers \cup {t \in TagsOf(want) : t[1] = "airplay"}
        /\ report' = [t \in Tags |-> IF t \in fresh \cup gone /\ t[1] = "library"
                                     THEN "none" ELSE report[t]]

Change == nchanges < MaxChanges /\ nchanges' = nchanges + 1

(* Endpoints::validate: names, outputs of this board or none, one library.  *)
validate(m) ==
    /\ Len(m["library"]) <= 1
    /\ \A k \in Kinds : \A n \in DOMAIN m[k] :
          m[k][n].name # "" /\ (m[k][n].output \in Connected \/ (m[k][n].output = "" /\ k # "route"))

(* PUT /api/audio/endpoints: saved and started, or refused with nothing     *)
(* changed, as when the file cannot be written.                            *)
put_endpoints(m) ==
    /\ alive /\ validate(m) /\ Change
    /\ saved' = m /\ map' = m
    /\ start(m, live, inst)
    /\ UNCHANGED <<alive, live, mind, told, nfaults, nevents>>

(* cmd/audio/input/<id>: ON, OFF or TOGGLE.                                *)
Input(on) ==
    /\ alive /\ Change
    /\ live' = on
    /\ start(map, on, inst)
    /\ UNCHANGED <<alive, saved, map, mind, told, nfaults, nevents>>

-----------------------------------------------------------------------------
(* The programs.                                                           *)

(* supervise: the program starts, or cannot; it finds its port taken while *)
(* the one it replaces has not gone.                                       *)
Spawn(t) ==
    /\ alive /\ proc[t] = "fork"
    /\ \/ /\ t \notin dying
          /\ proc' = [proc EXCEPT ![t] = "up"] /\ up' = up \cup {t}
          /\ UNCHANGED nfaults
       \/ /\ t \in dying \/ nfaults < MaxFaults
          /\ nfaults' = IF t \in dying THEN nfaults ELSE nfaults + 1
          /\ proc' = [proc EXCEPT ![t] = "wait"] /\ up' = up \ {t}
    /\ UNCHANGED <<config, dying, report, files, told, nchanges, nevents>>

Dies(t) ==
    /\ alive /\ proc[t] = "up" /\ nfaults < MaxFaults
    /\ nfaults' = nfaults + 1
    /\ proc' = [proc EXCEPT ![t] = "wait"] /\ up' = up \ {t}
    /\ UNCHANGED <<config, dying, report, files, told, nchanges, nevents>>

(* Three seconds later.                                                    *)
Again(t) ==
    /\ alive /\ proc[t] = "wait"
    /\ proc' = [proc EXCEPT ![t] = "fork"]
    /\ UNCHANGED <<config, dying, up, report, files, told, bounds>>

Reap(t) ==
    /\ t \in dying
    /\ dying' = dying \ {t}
    /\ UNCHANGED <<config, proc, up, report, files, told, bounds>>

(* A user plays, pauses, changes track or leaves.                          *)
Says(t, what) ==
    /\ alive /\ proc[t] = "up" /\ report[t] = "none" /\ t[1] # "route"
    /\ nevents < MaxEvents
    /\ nevents' = nevents + 1
    /\ report' = [report EXCEPT ![t] = what]
    /\ UNCHANGED <<config, programs, files, told, nchanges, nfaults>>

Apply(m, what) ==
    CASE what = "play"  -> "playing"
      [] what = "stop"  -> "shown"
      [] what = "track" -> IF m = "none" THEN "shown" ELSE m
      [] what = "end"   -> "none"

store(t, m) == meta' = [meta EXCEPT ![t] = m]

(* audiod --hook: librespot waits for it, and it outlives librespot.       *)
hook(t) ==
    /\ report[t] # "none" /\ t[1] = "spotify"
    /\ store(t, Apply(meta[t], report[t]))
    /\ report' = [report EXCEPT ![t] = "none"]
    /\ UNCHANGED <<config, programs, mind, told, bounds>>

(* The pipe's reader folds the item into what it remembers, which it        *)
(* writes when that changes it; a track always does.                       *)
read_shairport(t) ==
    /\ report[t] # "none" /\ t \in readers
    /\ LET m == Apply(mind[t], report[t])
       IN /\ mind' = [mind EXCEPT ![t] = m]
          /\ IF m = mind[t] /\ report[t] # "track" THEN UNCHANGED meta ELSE store(t, m)
    /\ report' = [report EXCEPT ![t] = "none"]
    /\ UNCHANGED <<config, programs, told, bounds>>

(* Library::refresh: mpd says what it plays now.                           *)
refresh(t) ==
    /\ report[t] # "none" /\ t[1] = "library"
    /\ store(t, Apply("none", report[t]))
    /\ report' = [report EXCEPT ![t] = "none"]
    /\ UNCHANGED <<config, programs, mind, told, bounds>>

-----------------------------------------------------------------------------
(* The documents.                                                          *)

(* publish: the metadata of the instances there are.                       *)
publish ==
    /\ alive
    /\ told' = [t \in Tags |-> IF t \in TagsOf(inst) /\ t[1] # "route" THEN meta[t]
                                  ELSE told[t]]
    /\ UNCHANGED <<config, programs, report, files, bounds>>

-----------------------------------------------------------------------------
(* The daemon's life.                                                      *)

Silent == [t \in Tags |-> "none"]

(* SIGTERM: every instance is dropped, its program killed.                 *)
Stop ==
    /\ alive /\ Change
    /\ alive' = FALSE
    /\ inst' = {} /\ proc' = Silent /\ up' = {}
    /\ dying' = dying \cup {t \in Tags : proc[t] = "up"}
    /\ readers' = {} /\ mind' = Silent
    /\ report' = [t \in Tags |-> IF t[1] = "spotify" THEN report[t] ELSE "none"]
    /\ UNCHANGED <<saved, map, live, meta, told, nfaults, nevents>>

(* main: the saved map, every input off, nothing plays yet.                *)
Start ==
    /\ ~alive
    /\ alive' = TRUE /\ map' = saved /\ live' = {}
    /\ LET want == plan(saved, {})
       IN /\ inst' = want
          /\ proc' = [t \in Tags |-> IF t \in TagsOf(want) THEN "fork" ELSE "none"]
          /\ readers' = {t \in TagsOf(want) : t[1] = "airplay"}
    /\ meta' = Silent
    /\ UNCHANGED <<saved, dying, up, report, mind, told, bounds>>

Init ==
    /\ alive = FALSE
    /\ saved \in Maps /\ map = saved
    /\ live = {} /\ inst = {} /\ up = {} /\ dying = {} /\ readers = {}
    /\ proc = Silent
    /\ report = Silent /\ mind = Silent /\ meta = Silent /\ told = Silent
    /\ nchanges = 0 /\ nfaults = 0 /\ nevents = 0

Supervise(t) == Spawn(t) \/ Again(t)
Reporting(t) == hook(t) \/ read_shairport(t) \/ refresh(t)

Next ==
    \/ \E m \in Maps : put_endpoints(m)
    \/ \E on \in SUBSET Inputs : Input(on)
    \/ \E t \in Tags : Supervise(t) \/ Dies(t) \/ Reap(t) \/ Reporting(t)
    \/ \E t \in Tags, what \in Reports : Says(t, what)
    \/ publish \/ Stop \/ Start

Spec == Init /\ [][Next]_vars

(* Timers fire, a killed program goes, a hook ends and the publisher's      *)
(* timer comes every three seconds.                                        *)
FairSpec ==
    /\ Spec
    /\ WF_vars(Start) /\ WF_vars(publish)
    /\ \A t \in Tags : WF_vars(Supervise(t)) /\ WF_vars(Reap(t)) /\ WF_vars(Reporting(t))

-----------------------------------------------------------------------------
(* Properties.                                                             *)

(* Whatever maps were saved, inputs switched, programs killed, dead or kept *)
(* from their ports: in the end exactly what the saved map asks for runs,  *)
(* and the broker shows that map with what each endpoint last reported.    *)
MapRuns ==
    <>[](/\ alive /\ inst = plan(saved, live)
         /\ \A t \in Tags : proc[t] = "up" <=> t \in TagsOf(inst)
         /\ \A t \in TagsOf(inst) : t[1] # "route" => told[t] = meta[t])

(* "A change to one endpoint does not interrupt what is playing on the      *)
(* others": an endpoint with the same tag, name and output in two maps is   *)
(* not touched by going from one to the other.                             *)
OthersPlayOn ==
    [][alive /\ alive' /\ (map' # map \/ live' # live) =>
          \A s \in inst : s \in plan(map', live') =>
             proc'[s.tag] = proc[s.tag] /\ meta'[s.tag] = meta[s.tag]]_vars

=============================================================================
