---------------------------- MODULE AudioLibrary ----------------------------
(***************************************************************************)
(* audiod's music library (packages/audiod: library.rs and its callers in   *)
(* main.rs): mpd plays what is on the drives, and the daemon is its one     *)
(* client.  Three of its tasks meet here, at each await: Library::run, which *)
(* holds the connection and refreshes at every change mpd reports; the       *)
(* publisher, which looks for drives that came or went; and the MQTT loop,   *)
(* which carries out one command at a time.                                 *)
(*                                                                          *)
(* The map has its library endpoint throughout (AudioEndpoints starts and   *)
(* stops it).  A queue is its length and a song what is at its head.        *)
(***************************************************************************)
EXTENDS Naturals, Sequences

CONSTANTS
    Drives,         \* drives storaged may mount under /media
    Verbs,          \* cmd/audio/library/<verb>: those of AllVerbs that are sent
    MaxQueue,       \* bound: songs in mpd's queue
    MaxUpsets       \* bound: drives that come or go, commands, deaths of mpd

AllVerbs == {"play", "pause", "toggle", "stop", "clear", "add", "replace", "update"}
PlayStates == {"play", "pause", "stop"}

VARIABLES
    media,      \* drives mounted under /media
    mpd,        \* mpd answers on its port
    player,     \* mpd: state and queue
    index,      \* mpd: the drives its database knows
    updating,   \* mpd: a scan is under way
    idle,       \* mpd: changes not yet reported on the connection
    client,     \* Library::client is there
    run,        \* Library::run: connect, status, song, or events
    read,       \* its refresh: the status in hand
    state,      \* Library::state
    meta,       \* what meta/library-0.json says
    noted,      \* Library::mounts
    pub,        \* the publisher: wait, or ask (for an update)
    todo,       \* mpd commands the MQTT loop has yet to send for one of ours
    told,       \* the broker's audio/library and audio/meta/library-0
    nupsets

server == <<mpd, player, index, updating>>
connection == <<client, run, read>>
known == <<state, meta>>
publisher == <<noted, pub, told>>
vars == <<media, server, idle, connection, known, publisher, todo, nupsets>>

Offline == [state |-> "offline", queue |-> 0, updating |-> FALSE]
Statuses == [state : PlayStates \cup {"offline"}, queue : 0..MaxQueue, updating : BOOLEAN]

(* What mpd would answer, and the document made of its state and song.      *)
Status == [state |-> player.state, queue |-> player.queue, updating |-> updating]
MetaOf(s, queue) == IF queue = 0 THEN "none" ELSE s

TypeOK ==
    /\ media \subseteq Drives /\ index \subseteq Drives /\ noted \subseteq Drives
    /\ mpd \in BOOLEAN /\ updating \in BOOLEAN /\ idle \in BOOLEAN /\ client \in BOOLEAN
    /\ player \in [state : PlayStates, queue : 0..MaxQueue]
    /\ run \in {"connect", "status", "song", "events"}
    /\ read \in Statuses /\ state \in Statuses
    /\ meta \in PlayStates \cup {"none"}
    /\ pub \in {"wait", "ask"}
    /\ todo \in Seq(AllVerbs)
    /\ told \in [state : Statuses, meta : PlayStates \cup {"none"}]
    /\ nupsets \in 0..MaxUpsets

(* The daemon has started, mpd is about to; the database and the queue are  *)
(* those of the run before, whose last scan was complete.                   *)
Init ==
    /\ media \in SUBSET Drives /\ index = media
    /\ mpd = FALSE /\ updating = FALSE /\ idle = FALSE
    /\ player \in {[state |-> "stop", queue |-> 0], [state |-> "pause", queue |-> 1]}
    /\ client = FALSE /\ run = "connect" /\ read = Offline
    /\ state = Offline /\ meta = "none"
    /\ noted = {} /\ pub = "wait"
    /\ todo = << >>
    /\ told = [state |-> Offline, meta |-> "none"]
    /\ nupsets = 0

-----------------------------------------------------------------------------
(* The drives, and mpd itself.                                             *)

Upset == nupsets < MaxUpsets /\ nupsets' = nupsets + 1

PlugOrPull(d) ==
    /\ Upset
    /\ media' = IF d \in media THEN media \ {d} ELSE media \cup {d}
    /\ UNCHANGED <<server, idle, connection, known, publisher, todo>>

(* The supervisor starts it, 3 s after it died and so once the connection is *)
(* known to be closed; it comes back paused.                                *)
MpdStarts ==
    /\ ~mpd /\ run = "connect"
    /\ mpd' = TRUE
    /\ player' = [player EXCEPT !.state = IF @ = "play" THEN "pause" ELSE @]
    /\ UNCHANGED <<media, index, updating, idle, connection, known, publisher, todo, nupsets>>

(* It keeps its database, and forgets an update under way.                  *)
MpdDies ==
    /\ mpd /\ Upset
    /\ mpd' = FALSE /\ updating' = FALSE /\ idle' = FALSE
    /\ UNCHANGED <<media, player, index, connection, known, publisher, todo>>

(* A scan ends, one asked for meanwhile with it: the database is what is    *)
(* mounted.                                                                *)
ScanEnds ==
    /\ mpd /\ updating
    /\ updating' = FALSE /\ index' = media /\ idle' = client
    /\ UNCHANGED <<media, mpd, player, connection, known, publisher, todo, nupsets>>

(* The last song ends.                                                      *)
SongEnds ==
    /\ mpd /\ player.state = "play"
    /\ player' = [player EXCEPT !.state = "stop"] /\ idle' = client
    /\ UNCHANGED <<media, mpd, index, updating, connection, known, publisher, todo, nupsets>>

-----------------------------------------------------------------------------
(* Library::run.                                                           *)

(* Mutant: the connection waits for mpd's first change.                     *)
MutantAfterConnect == "events"

(* It refreshes before the first change is reported.                        *)
AfterConnect == "status"

Connect ==
    /\ run = "connect" /\ mpd
    /\ client' = TRUE /\ run' = AfterConnect /\ idle' = FALSE
    /\ UNCHANGED <<media, server, read, known, publisher, todo, nupsets>>

(* refresh: the status, and then the song; what is stored is the status      *)
(* read first.  An answer that does not come leaves everything as it was.   *)
ReadStatus ==
    /\ run = "status"
    /\ IF mpd THEN run' = "song" /\ read' = Status
              ELSE run' = "events" /\ UNCHANGED read
    /\ UNCHANGED <<media, server, idle, client, known, publisher, todo, nupsets>>

refresh ==
    /\ run = "song"
    /\ state' = read
    /\ meta' = MetaOf(read.state, IF mpd THEN player.queue ELSE 0)
    /\ run' = "events" /\ read' = Offline
    /\ UNCHANGED <<media, server, idle, client, publisher, todo, nupsets>>

(* A player, queue, options, update or database change.                     *)
SubsystemChange ==
    /\ run = "events" /\ idle
    /\ idle' = FALSE /\ run' = "status"
    /\ UNCHANGED <<media, server, client, read, known, publisher, todo, nupsets>>

ConnectionClosed ==
    /\ run = "events" /\ ~mpd
    /\ client' = FALSE /\ state' = Offline /\ run' = "connect" /\ idle' = FALSE
    /\ UNCHANGED <<media, server, read, meta, publisher, todo, nupsets>>

Run == Connect \/ ReadStatus \/ refresh \/ SubsystemChange \/ ConnectionClosed

-----------------------------------------------------------------------------
(* The publisher.                                                          *)

(* publish, when no mount has changed: the document and the state.          *)
publish ==
    /\ pub = "wait" /\ noted = media
    /\ told' = [state |-> state, meta |-> meta]
    /\ UNCHANGED <<media, server, idle, connection, known, noted, pub, todo, nupsets>>

(* mounts_changed remembers what it saw before it asks for anything.        *)
mounts_changed ==
    /\ pub = "wait" /\ noted # media
    /\ noted' = media /\ pub' = "ask" /\ told' = [told EXCEPT !.meta = meta]
    /\ UNCHANGED <<media, server, idle, connection, known, todo, nupsets>>

(* `update`, if there is a connection and mpd is at its other end; whatever *)
(* comes of it, that was it, and the state is published.                    *)
AskUpdate ==
    /\ pub = "ask" /\ pub' = "wait"
    /\ IF client /\ mpd THEN updating' = TRUE /\ idle' = TRUE
                        ELSE UNCHANGED <<updating, idle>>
    /\ told' = [told EXCEPT !.state = state]
    /\ UNCHANGED <<media, mpd, player, index, connection, known, noted, todo, nupsets>>

Publisher == publish \/ mounts_changed \/ AskUpdate

-----------------------------------------------------------------------------
(* cmd/audio/library/<verb>.                                               *)

(* toggle goes by what the last refresh saw.                                *)
Requests(verb) ==
    CASE verb = "toggle"  -> IF state.state = "play" THEN <<"pause">> ELSE <<"play">>
      [] verb = "replace" -> <<"clear", "add", "play">>
      [] OTHER            -> <<verb>>

command(verb) ==
    /\ todo = << >> /\ Upset
    /\ client /\ todo' = Requests(verb)
    /\ UNCHANGED <<media, server, idle, connection, known, publisher>>

(* mpd's queue and player after one request.                                *)
Played(p, verb) ==
    CASE verb = "play"  /\ p.queue > 0       -> [p EXCEPT !.state = "play"]
      [] verb = "pause" /\ p.state = "play"  -> [p EXCEPT !.state = "pause"]
      [] verb = "stop"                       -> [p EXCEPT !.state = "stop"]
      [] verb = "clear"                      -> [state |-> "stop", queue |-> 0]
      [] verb = "add" /\ p.queue < MaxQueue  -> [p EXCEPT !.queue = @ + 1]
      [] OTHER                               -> p

(* One request; when it fails the rest of a replace is not sent.            *)
Request ==
    /\ todo # << >>
    /\ IF mpd THEN /\ player' = Played(player, Head(todo))
                   /\ updating' = (updating \/ Head(todo) = "update")
                   /\ idle' = client /\ todo' = Tail(todo)
              ELSE todo' = << >> /\ UNCHANGED <<player, updating, idle>>
    /\ UNCHANGED <<media, mpd, index, connection, known, publisher, nupsets>>

Next ==
    \/ \E d \in Drives : PlugOrPull(d)
    \/ MpdStarts \/ MpdDies \/ ScanEnds \/ SongEnds
    \/ Connect \/ ReadStatus \/ refresh \/ SubsystemChange \/ ConnectionClosed
    \/ publish \/ mounts_changed \/ AskUpdate
    \/ \E v \in Verbs : command(v)
    \/ Request

(* Each task is polled; mpd is restarted by its supervisor and ends a scan. *)
Fairness ==
    /\ WF_vars(Run) /\ WF_vars(Publisher) /\ WF_vars(Request)
    /\ WF_vars(MpdStarts) /\ WF_vars(ScanEnds)

Spec == Init /\ [][Next]_vars /\ Fairness

-----------------------------------------------------------------------------

(* Once drives, commands and mpd's deaths are over the broker shows what    *)
(* the player really does: a status read before a change, a connection that *)
(* closed in the middle of a refresh, or a command carried out while one    *)
(* runs, is always followed by a refresh that saw the change.               *)
PlayerMirrored == <>[](mpd /\ told = [state |-> Status, meta |-> MetaOf(player.state, player.queue)])
=============================================================================
