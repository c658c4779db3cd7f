----------------------------- MODULE AudioLevels -----------------------------
(***************************************************************************)
(* audiod's volume for one output (packages/audiod: levels.rs, airplay.rs   *)
(* and the parts of main.rs that call them): the jack's level, kept in an   *)
(* ALSA control that the daemon, a phone's slider and an AirPlay sender all *)
(* write.                                                                   *)
(*                                                                          *)
(* The daemon is one thread that switches tasks only where it awaits, so    *)
(* set_level, sync_levels and restart are one step each; the threads that   *)
(* talk to the AirPlay receiver, the players and the user are not part of   *)
(* it and run between any two steps.  Outputs share nothing here but a      *)
(* restart, so one is modelled.                                             *)
(***************************************************************************)
EXTENDS Integers, FiniteSetsExt

CONSTANTS
    Full,           \* the percent of a full level, levels::DEFAULT
    VolMax,         \* the level control's highest step
    Taper,          \* percent_to_raw: the step a percent sets
    MaxEvents       \* bound: levels set, sliders moved, sessions, restarts, stops

Percents == 0..Full

(* softvol's step 0 mutes, so only 0% may set it.                          *)
ASSUME LevelsAssumption ==
    /\ Full \in Nat /\ VolMax \in Nat \ {0}
    /\ Taper \in [Percents -> 0..VolMax]
    /\ Taper[0] = 0 /\ Taper[Full] = VolMax
    /\ \A p \in 1..Full : Taper[p] >= 1 /\ Taper[p] >= Taper[p - 1]
    /\ MaxEvents \in Nat

None == -1

VARIABLES
    running,    \* the daemon is up
    vol,        \* the level control
    level,      \* App::levels, Full when nothing is saved
    saved,      \* audio-levels.json
    snap,       \* the level a publish in progress sends
    told,       \* the broker's retained audio/level
    session,    \* an AirPlay sender is connected
    begun,      \* the receiver said so and the daemon has not read it
    imposed,    \* the volume the sender is about to impose
    notes,      \* levels to send back two seconds into a session
    sends,      \* set_sender_volume threads in flight, by level
    wanted,     \* history: the level last set here, while nothing moved it since
    events      \* events so far

levels == <<level, saved>>
sender == <<session, begun, imposed, notes, sends>>
publisher == <<snap, told>>
vars == <<running, vol, levels, publisher, sender, wanted, events>>

TypeOK ==
    /\ running \in BOOLEAN
    /\ vol \in 0..VolMax
    /\ level \in Percents /\ saved \in Percents
    /\ snap \in Percents \cup {None} /\ told \in Percents \cup {None}
    /\ session \in BOOLEAN /\ begun \in BOOLEAN
    /\ imposed \in Percents \cup {None}
    /\ notes \in [Percents -> Nat] /\ sends \in [Percents -> Nat]
    /\ wanted \in Percents \cup {None}
    /\ events \in 0..MaxEvents

Event == events < MaxEvents /\ events' = events + 1

Nothing == [p \in Percents |-> 0]
Plus(bag, p) == [bag EXCEPT ![p] = @ + 1]
Minus(bag, p) == [bag EXCEPT ![p] = @ - 1]

-----------------------------------------------------------------------------
(* Levels.                                                                 *)

Gap(p, r) == IF Taper[p] > r THEN Taper[p] - r ELSE r - Taper[p]

(* The percent whose step is nearest, the highest where several are.       *)
RawToPercent(r) ==
    IF r = 0 THEN 0
    ELSE Max({p \in 1..Full : \A q \in 1..Full : Gap(p, r) <= Gap(q, r)})

(* A percent is only a name for its step: it is kept while the step is.    *)
InSync(p, r) == Taper[p] = r

(* Something other than the daemon wrote the level control.                *)
Moved(r) ==
    /\ vol' = r
    /\ wanted' = IF r = vol THEN wanted ELSE None

(* cmd/audio/level: the control, the map and the file, and a thread that   *)
(* moves the sender's slider.                                              *)
SetLevel(p) ==
    /\ running /\ Event
    /\ vol' = Taper[p]
    /\ level' = p /\ saved' = p
    /\ sends' = Plus(sends, p)
    /\ wanted' = p
    /\ UNCHANGED <<running, publisher, session, begun, imposed, notes>>

(* Mutant: the percent is read back from the control every time.           *)
MutantReadBack ==
    /\ running /\ snap = None
    /\ LET now == RawToPercent(vol)
       IN level' = now /\ saved' = now /\ snap' = now
    /\ UNCHANGED <<running, vol, told, sender, wanted, events>>

(* Mutant: no outside change is picked up while a sender is connected.     *)
MutantSyncSkips ==
    /\ running /\ snap = None
    /\ LET now == IF InSync(level, vol) \/ session THEN level ELSE RawToPercent(vol)
       IN level' = now /\ saved' = now /\ snap' = now
    /\ UNCHANGED <<running, vol, told, sender, wanted, events>>

(* sync_levels and the levels publish goes on with.                        *)
SyncRead ==
    /\ running /\ snap = None
    /\ LET now == IF InSync(level, vol) THEN level ELSE RawToPercent(vol)
       IN level' = now /\ saved' = (IF now = level THEN saved ELSE now) /\ snap' = now
    /\ UNCHANGED <<running, vol, told, sender, wanted, events>>

(* The rest of publish: the retained topic takes what was read.            *)
SyncTell ==
    /\ running /\ snap # None
    /\ told' = snap /\ snap' = None
    /\ UNCHANGED <<running, vol, levels, sender, wanted, events>>

(* A slider in a player's app: any step, not only one a percent sets.      *)
MoveSlider(r) ==
    /\ running /\ Event
    /\ Moved(r)
    /\ UNCHANGED <<running, levels, publisher, sender>>

-----------------------------------------------------------------------------
(* AirPlay sessions.                                                       *)

(* A sender connects; it remembers p and will impose it.                   *)
Connect(p) ==
    /\ running /\ ~session /\ Event
    /\ session' = TRUE /\ begun' = TRUE /\ imposed' = p
    /\ UNCHANGED <<running, vol, levels, publisher, notes, sends, wanted>>

(* airplay_session_began, on the metadata reader's thread: the level is    *)
(* noted for two seconds later.                                            *)
NoteLevel ==
    /\ running /\ begun
    /\ begun' = FALSE
    /\ notes' = Plus(notes, level)
    /\ UNCHANGED <<running, vol, levels, publisher, session, imposed, sends, wanted, events>>

Impose ==
    /\ running /\ imposed # None
    /\ Moved(Taper[imposed])
    /\ imposed' = None
    /\ UNCHANGED <<running, levels, publisher, session, begun, notes, sends, events>>

(* Two seconds have passed: the thread sends what it noted.                *)
SendNote(p) ==
    /\ running /\ notes[p] > 0
    /\ notes' = Minus(notes, p)
    /\ sends' = Plus(sends, p)
    /\ UNCHANGED <<running, vol, levels, publisher, session, begun, imposed, wanted, events>>

(* set_sender_volume, each call a thread of its own: a connected sender    *)
(* moves its slider and echoes it; without one nothing happens.            *)
Deliver(p) ==
    /\ running /\ sends[p] > 0
    /\ sends' = Minus(sends, p)
    /\ IF session THEN Moved(Taper[p]) ELSE UNCHANGED <<vol, wanted>>
    /\ UNCHANGED <<running, levels, publisher, session, begun, imposed, notes, events>>

Disconnect ==
    /\ running /\ session
    /\ session' = FALSE /\ imposed' = None
    /\ UNCHANGED <<running, vol, levels, publisher, begun, notes, sends, wanted, events>>

-----------------------------------------------------------------------------
(* The daemon's life.                                                      *)

(* levels::prepare: the control as the map has it.                         *)
Prepare(p) == Moved(Taper[p])

(* App::restart, for a new endpoint map or an input switched on or off.    *)
Restart ==
    /\ running /\ Event
    /\ Prepare(level)
    /\ UNCHANGED <<running, levels, publisher, sender>>

(* SIGTERM ends the tasks where they await and the threads where they are; *)
(* the receivers go with the daemon.                                       *)
Stop ==
    /\ running /\ Event
    /\ running' = FALSE
    /\ snap' = None
    /\ session' = FALSE /\ begun' = FALSE /\ imposed' = None
    /\ notes' = Nothing /\ sends' = Nothing
    /\ UNCHANGED <<vol, levels, told, wanted>>

Start ==
    /\ ~running
    /\ running' = TRUE
    /\ level' = saved
    /\ Prepare(saved)
    /\ UNCHANGED <<saved, publisher, sender, events>>

Init ==
    /\ running = TRUE
    /\ saved \in Percents /\ level = saved
    /\ vol = Taper[saved]
    /\ snap = None /\ told = None
    /\ session = FALSE /\ begun = FALSE /\ imposed = None
    /\ notes = Nothing /\ sends = Nothing
    /\ wanted = None
    /\ events = 0

Publish == SyncRead \/ SyncTell
Threads == NoteLevel \/ \E p \in Percents : SendNote(p) \/ Deliver(p)
Outside ==
    \/ \E p \in Percents : SetLevel(p) \/ Connect(p)
    \/ \E r \in 0..VolMax : MoveSlider(r)
    \/ Impose \/ Disconnect \/ Restart \/ Stop \/ Start

Next == Publish \/ Threads \/ Outside

Spec == Init /\ [][Next]_vars

(* The publisher's timer fires every three seconds and sleeping threads    *)
(* wake; nobody outside has to do anything.                                *)
FairSpec == Spec /\ WF_vars(Publish) /\ WF_vars(Threads)

-----------------------------------------------------------------------------
(* Properties.                                                             *)

(* A level set here is reported as that number for as long as nothing moves *)
(* it, restarts included, though another number may share its step         *)
(* (sync_levels: "would otherwise turn 3% into 5%").                       *)
SetReadsBack == running /\ wanted # None => level = wanted /\ vol = Taper[wanted]

(* Once nobody touches it any more, the broker's level is the daemon's and *)
(* both are the control's, whatever sliders, sessions and threads did.     *)
Shows(p, r) == InSync(p, r) \/ p = RawToPercent(r)
LevelConverges == <>[](running => told = level /\ Shows(level, vol))

(* "Live control state, but kept across a reboot like any amplifier's       *)
(* volume knob": the daemon comes back with the level it stopped at, set or *)
(* moved (save after every change of the map).                             *)
LevelSurvives == [][~running /\ running' => level' = level]_vars

=============================================================================
