------------------------------ MODULE MCAudio ------------------------------
(***************************************************************************)
(* audiod in one run: one output's level (AudioLevels, whose names are this *)
(* module's own), the announcements, the endpoints and the music library.   *)
(* They share nothing but the daemon's start, so a behaviour is one of them  *)
(* at work while the others stand at theirs.                                *)
(***************************************************************************)
EXTENDS AudioLevels, TLC

CONSTANTS
    Outputs, Steps, MaxAnnouncements, MaxDisturbs,                         \* announcements
    Connected, Maps, MaxChanges, MaxFaults, MaxReports                     \* endpoints

ASSUME AnnounceConstants == Steps \in Nat \ {0}

VARIABLES
    part,       \* who is at work
    aup, duck, waiting, stage, step, unraised, nasked, ndisturbs,          \* announcements
    eup, mapfile, map, live, inst, proc, dying, up, report, readers, mind, meta, shown,
    nchanges, nfaults, nevents,                                            \* endpoints
    media, mpd, player, index, updating, idle, client, run, read, state, lmeta, noted, pub,
    todo, broker, nupsets                                                  \* library

(* 1% and 2% share a step, as 96% and 97% do, and no percent sets step 1.     *)
MCTaper == (0 :> 0) @@ (1 :> 2) @@ (2 :> 2)

Announce == INSTANCE AudioAnnounce WITH alive <- aup

(* Three maps: an endpoint dropped, renamed, moved to an output the board     *)
(* does not have, and each kind of them.                                     *)
MCMaps ==
    LET Ep(n, o) == [name |-> n, output |-> o]
        Map(s, a, l, r) == [spotify |-> s, airplay |-> a, library |-> l, route |-> r]
    IN  {Map(<<Ep("A", "o1"), Ep("B", "o1")>>, <<>>, <<>>, <<>>),
         Map(<<Ep("A", "o1")>>, <<Ep("D", "o1")>>, <<>>, <<>>),
         Map(<<Ep("Z", "o1"), Ep("B", "o2")>>, <<>>, <<Ep("L", "o1")>>, <<Ep("in", "o1")>>)}

Endpoints == INSTANCE AudioEndpoints WITH
    MaxEvents <- MaxReports, alive <- eup, saved <- mapfile, told <- shown

(* replace clears, adds and plays; toggle goes by what was read.            *)
Library == INSTANCE AudioLibrary WITH
    Drives <- {"sda"}, Verbs <- {"toggle", "replace", "update"}, MaxQueue <- 1,
    MaxUpsets <- 2, meta <- lmeta, told <- broker

-----------------------------------------------------------------------------
announced == <<aup, duck, waiting, stage, step, unraised, nasked, ndisturbs>>
endpoints == <<eup, mapfile, map, live, inst, proc, dying, up, report, readers, mind, meta,
               shown, nchanges, nfaults, nevents>>
library == <<media, mpd, player, index, updating, idle, client, run, read, state, lmeta,
             noted, pub, todo, broker, nupsets>>

(* Those that stand still stand at one of their initial states.              *)
MCInit ==
    /\ part \in {"levels", "announce", "endpoints", "library"}
    /\ Init /\ (part # "levels" => saved = Full)
    /\ Announce!Init
    /\ Endpoints!Init
    /\ Library!Init /\ (part # "library" => media = {} /\ player.queue = 0)
    /\ part # "endpoints" => mapfile = CHOOSE m \in Maps : m["airplay"] # <<>>

MCNext ==
    \/ part = "levels" /\ Next /\ UNCHANGED <<part, announced, endpoints, library>>
    \/ part = "announce" /\ Announce!Next /\ UNCHANGED <<part, vars, endpoints, library>>
    \/ part = "endpoints" /\ Endpoints!Next /\ UNCHANGED <<part, vars, announced, library>>
    \/ part = "library" /\ Library!Next /\ UNCHANGED <<part, vars, announced, endpoints>>

(* The fairness of each, while it is the one at work.                        *)
MCFairness ==
    /\ WF_vars(part = "levels" /\ Publish) /\ WF_vars(part = "levels" /\ Threads)
    /\ \A o \in Outputs : WF_announced(part = "announce" /\ Announce!Task(o))
    /\ WF_endpoints(part = "endpoints" /\ Endpoints!Start)
    /\ WF_endpoints(part = "endpoints" /\ Endpoints!publish)
    /\ \A t \in Endpoints!Tags :
         /\ WF_endpoints(part = "endpoints" /\ Endpoints!Supervise(t))
         /\ WF_endpoints(part = "endpoints" /\ Endpoints!Reap(t))
         /\ WF_endpoints(part = "endpoints" /\ Endpoints!Reporting(t))
    /\ WF_library(part = "library" /\ Library!Run)
    /\ WF_library(part = "library" /\ Library!Publisher)
    /\ WF_library(part = "library" /\ Library!Request)
    /\ WF_library(part = "library" /\ Library!MpdStarts)
    /\ WF_library(part = "library" /\ Library!ScanEnds)

MCSpec == MCInit /\ [][MCNext]_<<part, vars, announced, endpoints, library>> /\ MCFairness

-----------------------------------------------------------------------------
(* The properties, stated and explained in the modules instanced; those of   *)
(* the level are AudioLevels' own.                                           *)

(* Level: it follows whoever moved it last and outlives the daemon.          *)
LevelHolds == LevelSurvives /\ (part = "levels" => LevelConverges)

(* Announcements: music is at its level whenever none is on its output.      *)
MusicComesBack == Announce!MusicComesBack

(* Announcements: each has its turn.                                         *)
TurnsCome == Announce!TurnsCome

(* Endpoints: what the saved map asks for runs and is shown in the end; the  *)
(* library: what its player does is shown in the end.                       *)
WhatPlaysIsShown ==
    /\ part = "endpoints" => Endpoints!MapRuns
    /\ part = "library" => Library!PlayerMirrored

(* Endpoints: a change to one leaves what plays on the others alone.         *)
OthersPlayOn == Endpoints!OthersPlayOn
=============================================================================
