----------------------------- MODULE Audio_proof -----------------------------
(***************************************************************************)
(* Proofs about audiod's levels (AudioLevels, whose names are this module's *)
(* own), for every taper and every number of events; about its             *)
(* announcements (AudioAnnounce), for every set of outputs and every ramp;  *)
(* and about its endpoints (AudioEndpoints), for every set of maps.         *)
(***************************************************************************)
EXTENDS MCAudio, TLAPS

-----------------------------------------------------------------------------
(* Levels.                                                                 *)

(* The map and the file say the same, and while nothing has moved the      *)
(* level set last, they say that and the control has its step.             *)
LevelKept ==
    /\ level = saved
    /\ wanted # None => level = wanted /\ vol = Taper[wanted]

(* A step keeps the level set last.                                        *)
LEMMA LevelStep == LevelKept /\ [Next]_vars => LevelKept'
<1> SUFFICES ASSUME LevelKept, [Next]_vars PROVE LevelKept'
  OBVIOUS
<1> USE DEF LevelKept, levels, publisher, sender
<1>1. ASSUME NEW r, Moved(r), UNCHANGED levels PROVE LevelKept'
  BY <1>1 DEF Moved
<1>2. ASSUME NEW p \in Percents, SetLevel(p) PROVE LevelKept'
  BY <1>2 DEF SetLevel
<1>3. CASE SyncRead
  <2>1. wanted # None => InSync(level, vol)
    BY DEF InSync
  <2> QED BY <1>3, <2>1 DEF SyncRead
<1>4. CASE SyncTell
  BY <1>4 DEF SyncTell
<1>5. ASSUME NEW r \in 0..VolMax, MoveSlider(r) PROVE LevelKept'
  BY <1>1, <1>5 DEF MoveSlider
<1>6. ASSUME NEW p \in Percents, Connect(p) \/ SendNote(p) PROVE LevelKept'
  BY <1>6 DEF Connect, SendNote
<1>7. ASSUME NEW p \in Percents, Deliver(p) PROVE LevelKept'
  <2>1. CASE Moved(Taper[p])
    BY <1>1, <1>7, <2>1 DEF Deliver
  <2>2. CASE UNCHANGED <<vol, wanted>>
    BY <1>7, <2>2 DEF Deliver
  <2> QED BY <1>7, <2>1, <2>2 DEF Deliver
<1>8. CASE NoteLevel \/ Disconnect \/ Stop
  BY <1>8 DEF NoteLevel, Disconnect, Stop
<1>9. CASE Impose
  BY <1>1, <1>9 DEF Impose
<1>10. CASE Restart
  BY <1>1, <1>10 DEF Restart, Prepare
<1>11. CASE Start
  BY <1>11 DEF Start, Prepare, Moved
<1>12. CASE UNCHANGED vars
  BY <1>12 DEF vars
<1> QED
  BY <1>2, <1>3, <1>4, <1>5, <1>6, <1>7, <1>8, <1>9, <1>10, <1>11, <1>12
     DEF Next, Publish, Threads, Outside

(* The inductive invariant of a level.                                     *)
THEOREM LevelInvariant == Spec => []LevelKept
<1>1. Init => LevelKept
  BY DEF Init, LevelKept
<1> QED BY <1>1, LevelStep, PTL DEF Spec

(* A level set is reported as that number until something moves it, though *)
(* the control keeps only its step (sync_levels against restart, the       *)
(* receiver's threads and the daemon's own restart).                       *)
THEOREM SetReadsBackAlways == Spec => []SetReadsBack
<1>1. LevelKept => SetReadsBack
  BY DEF LevelKept, SetReadsBack
<1> QED BY <1>1, LevelInvariant, PTL

(* The daemon comes back with the level it stopped at (every change of the *)
(* map is saved with it: set_level, sync_levels).                          *)
THEOREM LevelSurvivesAlways == Spec => LevelSurvives
<1>1. LevelKept /\ [Next]_vars => (~running /\ running' => level' = level)
  <2> SUFFICES ASSUME LevelKept, [Next]_vars, ~running, running' PROVE level' = level
    OBVIOUS
  <2>1. Start
    BY DEF Next, Publish, Threads, Outside, SetLevel, SyncRead, SyncTell, MoveSlider, Connect,
           SendNote, Deliver, NoteLevel, Disconnect, Stop, Impose, Restart, vars
  <2> QED BY <2>1 DEF Start, LevelKept
<1> QED BY <1>1, LevelInvariant, PTL DEF Spec, LevelSurvives

-----------------------------------------------------------------------------
(* Announcements.                                                          *)

(* While the daemon runs, an output's duck is down only between the first  *)
(* step of a ramp down and the last of the ramp up, or after an aplay that *)
(* could not be started.                                                   *)
DuckKept ==
    /\ duck \in [Outputs -> 0..Steps]
    /\ stage \in [Outputs -> Announce!Stages] /\ step \in [Outputs -> 0..Steps]
    /\ aup => \A o \in Outputs : 
          stage[o] \in {"idle", "resolve"} => duck[o] = Announce!Loud \/ o \in unraised

(* A step keeps the music where it belongs.                                *)
LEMMA DuckStep == DuckKept /\ [Announce!Next]_(Announce!vars) => DuckKept'
<1> SUFFICES ASSUME DuckKept, [Announce!Next]_(Announce!vars) PROVE DuckKept'
  OBVIOUS
<1> USE AnnounceConstants
    DEF AnnounceConstants, DuckKept, Announce!Stages, Announce!Loud
<1>1. ASSUME NEW outs, Announce!announce(outs) PROVE DuckKept'
  BY <1>1 DEF Announce!announce
<1>2. ASSUME NEW o \in Outputs, Announce!Take(o) \/ Announce!resolve(o) \/ Announce!PlayEnds(o)
      PROVE  DuckKept'
  BY <1>2 DEF Announce!Take, Announce!resolve, Announce!PlayEnds
<1>3. ASSUME NEW o \in Outputs, Announce!RampDown(o) PROVE DuckKept'
  <2>1. Announce!ramp(o, "down", step[o] + 1, "play")
    BY <1>3 DEF Announce!RampDown
  <2>2. step[o] \in 0..Steps /\ step[o] < Steps
    BY <2>1 DEF Announce!ramp
  <2>3. step[o] + 1 \in 0..Steps
    BY <2>2
  <2> QED BY <1>3, <2>1, <2>3 DEF Announce!ramp, Announce!RampDown
<1>4. ASSUME NEW o \in Outputs, Announce!SpawnFails(o) PROVE DuckKept'
  <2>1. Announce!ramp(o, "down", Steps, "idle") /\ unraised' = unraised \cup {o}
    BY <1>4 DEF Announce!SpawnFails
  <2>2. step[o] + 1 = Steps /\ Steps \in 0..Steps
    BY <1>4 DEF Announce!SpawnFails
  <2> QED BY <2>1, <2>2 DEF Announce!ramp
<1>5. ASSUME NEW o \in Outputs, Announce!RampUp(o) PROVE DuckKept'
  <2>1. Announce!ramp(o, "up", Steps - step[o] - 1, "idle")
    BY <1>5 DEF Announce!RampUp
  <2>2. step[o] \in 0..Steps /\ step[o] < Steps
    BY <2>1 DEF Announce!ramp
  <2>3. /\ step[o] + 1 \in 0..Steps /\ Steps - step[o] - 1 \in 0..Steps
        /\ step[o] + 1 = Steps => Steps - step[o] - 1 = 0
    BY <2>2
  <2> QED BY <1>5, <2>1, <2>3 DEF Announce!ramp, Announce!RampUp
<1>6. CASE Announce!restart \/ Announce!Stop \/ Announce!Start
  BY <1>6 DEF Announce!restart, Announce!Stop, Announce!Start
<1>7. CASE UNCHANGED Announce!vars
  BY <1>7 DEF Announce!vars
<1> QED
  BY <1>1, <1>2, <1>3, <1>4, <1>5, <1>6, <1>7 DEF Announce!Next, Announce!Task

(* Music is back at its level whenever nothing is announced on its output, *)
(* whatever had no source, was cut off or was interrupted by a restart,    *)
(* but where an aplay that could not be started has left it lowered        *)
(* (announce.rs, play against levels::prepare).                            *)
THEOREM MusicComesBackAlways == Announce!Spec => []MusicComesBack
<1>1. Announce!Init => DuckKept
  BY AnnounceConstants DEF AnnounceConstants, Announce!Init, DuckKept, Announce!Stages, Announce!Loud
<1>2. DuckKept /\ [Announce!Next]_(Announce!vars) => DuckKept'
  BY DuckStep
<1>3. DuckKept => MusicComesBack
  BY DEF DuckKept, MusicComesBack, Announce!MusicComesBack, Announce!Announcing
<1> QED BY <1>1, <1>2, <1>3, PTL DEF Announce!Spec

-----------------------------------------------------------------------------
(* Endpoints.                                                              *)

(* The map in force and the one on disk are maps a user may save.          *)
MapsKnown == map \in Maps /\ mapfile \in Maps

(* What a map asks for carries one of the map's tags.                      *)
LEMMA PlanTags ==
  ASSUME NEW m \in Maps, NEW on, NEW s \in Endpoints!plan(m, on)
  PROVE  s.tag \in Endpoints!Tags
<1>1. PICK k \in Endpoints!Kinds : \E n \in DOMAIN m[k] : s = Endpoints!Spec_(m, k, n)
  BY DEF Endpoints!plan
<1>2. PICK n \in DOMAIN m[k] : s = Endpoints!Spec_(m, k, n)
  BY <1>1
<1>3. s.tag = <<k, n>>
  BY <1>2 DEF Endpoints!Spec_
<1>4. n \in UNION {DOMAIN x[k] : x \in Maps}
  BY <1>2
<1> QED BY <1>3, <1>4 DEF Endpoints!Tags

(* runner::start leaves alone what both the old set and the new have.      *)
LEMMA StartKeeps ==
  ASSUME NEW m \in Maps, NEW on, Endpoints!start(m, on, inst),
         NEW s \in inst, s \in Endpoints!plan(m, on)
  PROVE  proc'[s.tag] = proc[s.tag] /\ meta'[s.tag] = meta[s.tag]
<1> DEFINE want == Endpoints!plan(m, on)
           kept == Endpoints!Kept(inst, want)
           fresh == Endpoints!TagsOf(want) \ Endpoints!TagsOf(kept)
           gone == Endpoints!TagsOf(inst) \ Endpoints!TagsOf(want)
<1>1. s.tag \in Endpoints!Tags
  BY PlanTags
<1>2. s.tag \notin fresh /\ s.tag \notin gone
  BY DEF Endpoints!Kept, Endpoints!TagsOf, Endpoints!TagOf
<1>3. /\ proc' = [t \in Endpoints!Tags |-> CASE t \in fresh -> "fork"
                                              [] t \in gone -> "none"
                                              [] OTHER -> proc[t]]
      /\ meta' = [t \in Endpoints!Tags |-> IF t \in fresh \cup gone THEN "none" ELSE meta[t]]
  BY DEF Endpoints!start
<1> HIDE DEF fresh, gone
<1> QED BY <1>1, <1>2, <1>3

(* A change to one endpoint, or an input switched, leaves every endpoint   *)
(* that stays as it is running, with what it says it plays (runner::start  *)
(* under put_endpoints and cmd/audio/input).                               *)
THEOREM OthersPlayOnAlways == Endpoints!Spec => OthersPlayOn
<1> DEFINE Undisturbed ==
             eup /\ eup' /\ (map' # map \/ live' # live) =>
                \A s \in inst : s \in Endpoints!plan(map', live') =>
                   proc'[s.tag] = proc[s.tag] /\ meta'[s.tag] = meta[s.tag]
<1>1. Endpoints!Init => MapsKnown
  BY DEF Endpoints!Init, MapsKnown
<1>2. ASSUME MapsKnown, [Endpoints!Next]_(Endpoints!vars) PROVE MapsKnown' /\ Undisturbed
  <2>1. ASSUME NEW m \in Maps, Endpoints!put_endpoints(m) PROVE MapsKnown' /\ Undisturbed
    <3>1. Endpoints!start(m, live, inst) /\ map' = m /\ mapfile' = m /\ live' = live
      BY <2>1 DEF Endpoints!put_endpoints
    <3> QED BY <3>1, StartKeeps DEF MapsKnown
  <2>2. ASSUME NEW on \in SUBSET Endpoints!Inputs, Endpoints!Input(on)
        PROVE  MapsKnown' /\ Undisturbed
    <3>1. Endpoints!start(map, on, inst) /\ live' = on /\ UNCHANGED <<map, mapfile>>
      BY <2>2 DEF Endpoints!Input
    <3> QED BY <1>2, <3>1, StartKeeps DEF MapsKnown
  <2>3. ASSUME NEW t \in Endpoints!Tags,
               \/ Endpoints!Supervise(t) \/ Endpoints!Dies(t) \/ Endpoints!Reap(t)
               \/ Endpoints!Reporting(t) \/ \E what \in Endpoints!Reports : Endpoints!Says(t, what)
        PROVE  UNCHANGED <<map, mapfile, live>>
    BY <2>3 DEF Endpoints!Supervise, Endpoints!Spawn, Endpoints!Again, Endpoints!Dies,
                Endpoints!Reap, Endpoints!Reporting, Endpoints!hook, Endpoints!read_shairport,
                Endpoints!refresh, Endpoints!Says, Endpoints!config
  <2>4. CASE Endpoints!publish \/ UNCHANGED Endpoints!vars
    BY <1>2, <2>4 DEF Endpoints!publish, Endpoints!config, Endpoints!vars, MapsKnown
  <2>5. CASE Endpoints!Stop \/ Endpoints!Start
    BY <1>2, <2>5 DEF Endpoints!Stop, Endpoints!Start, MapsKnown
  <2> QED BY <1>2, <2>1, <2>2, <2>3, <2>4, <2>5 DEF Endpoints!Next, MapsKnown
<1>3. Undisturbed <=> (eup /\ eup' /\ (map' # map \/ live' # live) =>
                         \A s \in inst : s \in Endpoints!plan(map', live') =>
                            proc'[s.tag] = proc[s.tag] /\ meta'[s.tag] = meta[s.tag])
  OBVIOUS
<1> HIDE DEF Undisturbed
<1> QED
  BY <1>1, <1>2, <1>3, PTL DEF Endpoints!Spec, OthersPlayOn, Endpoints!OthersPlayOn

-----------------------------------------------------------------------------
(* A behaviour of audiod is one of each of its parts, so what is proved of *)
(* a part holds of the whole (MCAudio).                                    *)
THEOREM PartsOfTheWhole == MCSpec => Spec /\ Announce!Spec /\ Endpoints!Spec
<1>1. MCInit => Init /\ Announce!Init /\ Endpoints!Init
  BY DEF MCInit
<1>2. [MCNext]_<<part, vars, announced, endpoints, library>>
        => /\ [Next]_vars /\ [Announce!Next]_(Announce!vars)
           /\ [Endpoints!Next]_(Endpoints!vars)
  BY DEF MCNext, announced, endpoints, Announce!vars, Endpoints!vars, Endpoints!config,
         Endpoints!programs, Endpoints!files, Endpoints!bounds
<1> QED
  BY <1>1, <1>2, PTL DEF MCSpec, Spec, Announce!Spec, Endpoints!Spec

=============================================================================
