---------------------------- MODULE FlasherGui ----------------------------
(***************************************************************************)
(* The flasher's window: four steps (Find, Check, Release, Install), one    *)
(* state behind a lock that the interface redraws from, and background      *)
(* jobs that write into it when they end.  Starting a job sets `busy`, the  *)
(* end of any job clears it, and most buttons are dead while it is set; a   *)
(* release dropped on the window, browsed for or typed is not one of them.  *)
(***************************************************************************)
EXTENDS Naturals, FiniteSets

CONSTANTS
    Hosts,     \* controllers on the network
    Family,    \* Family[h]: its board's family, ea or hc
    Vague,     \* the controllers whose board cannot be pinned down
    MaxJobs,   \* bound: jobs at once
    MaxSteps   \* bound: jobs started

None == "none"
Families == {Family[h] : h \in Hosts}
Steps == <<"Find", "Check", "Images", "Install">>

VARIABLES
    step, host, forced, autoscanned,        \* App
    busy, found, conn, rel, judged, phase, stage1_done,   \* Shared
    downloaded,
    jobs,      \* what runs in the background
    started

app == <<step, host, forced, autoscanned>>
shared == <<busy, found, conn, rel, judged, phase, stage1_done, downloaded>>
vars == <<app, shared, jobs, started>>

Job(what, h, f) == [what |-> what, host |-> h, family |-> f, finish |-> FALSE]
TypeOK ==
    /\ step \in 1..4 /\ host \in Hosts \cup {None} /\ forced \in Families \cup {None}
    /\ found \subseteq Hosts /\ conn \in Hosts \cup {None, "refused"}
    /\ rel \in Families \cup {None} /\ judged \in Families \cup {None, "bad"}
    /\ phase \in {None, "Writing", "Restarting", "Finishing", "Done", "Failed"}
    /\ Cardinality(jobs) <= MaxJobs

Connected == conn \in Hosts
Identified(h) == IF h \in Vague THEN None ELSE Family[h]
board == IF forced # None THEN forced ELSE IF Connected THEN Identified(conn) ELSE None

spawn(j) ==
    /\ Cardinality(jobs) < MaxJobs /\ started < MaxSteps /\ j \notin jobs
    /\ jobs' = jobs \cup {j} /\ busy' = TRUE /\ started' = started + 1
Ends(j) == j \in jobs /\ jobs' = jobs \ {j} /\ busy' = FALSE /\ UNCHANGED started

-----------------------------------------------------------------------------
(* The first screen scans by itself; found units fill the list.             *)
Scan == Job("scan", None, None)
scan ==
    /\ step = 1 /\ (autoscanned => ~busy) /\ autoscanned' = TRUE
    /\ found' = {} /\ spawn(Scan)
    /\ UNCHANGED <<step, host, forced, conn, rel, judged, phase, stage1_done, downloaded>>
Probed ==
    /\ Ends(Scan) /\ found' = Hosts
    /\ UNCHANGED <<app, conn, rel, judged, phase, stage1_done, downloaded>>

(* A row clicked, or an address typed.                                      *)
step_find(h) ==
    /\ step = 1 /\ host' = h
    /\ UNCHANGED <<step, forced, autoscanned, shared, jobs, started>>

(* gate: what keeps Next dead.  Without a connection Check blocks nothing.  *)
gate ==
    CASE step = 1 -> host # None
      [] step = 2 -> TRUE
      [] step = 3 -> judged \in Families
      [] OTHER -> FALSE

Connect(h) == Job("connect", h, None)
connect ==
    /\ forced' = None /\ conn' = None /\ spawn(Connect(host))
    /\ UNCHANGED <<host, autoscanned, found, rel, judged, phase, stage1_done, downloaded>>
Next1 == ~busy /\ step = 1 /\ gate /\ step' = 2 /\ connect
Retry == ~busy /\ step = 2 /\ ~Connected /\ UNCHANGED step /\ connect
nav ==
    /\ ~busy
    /\ \/ step > 1 /\ step' = step - 1
       \/ step \in {2, 3} /\ gate /\ step' = step + 1
    /\ UNCHANGED <<host, forced, autoscanned, shared, jobs, started>>
ConnectDone(h) ==
    /\ Ends(Connect(h)) /\ conn' \in {h, "refused"}
    /\ UNCHANGED <<app, found, rel, judged, phase, stage1_done, downloaded>>

(* The model chosen by hand, or that choice taken back.                     *)
step_check(f) ==
    /\ step = 2 /\ Connected /\ forced' = f
    /\ UNCHANGED <<step, host, autoscanned, shared, jobs, started>>

-----------------------------------------------------------------------------
(* A release is read and judged by the rules of the board selected now.     *)
Load(f) == Job("load", None, f)
load_release ==
    /\ rel' = None /\ judged' = None /\ spawn(Load(board))
    /\ UNCHANGED <<host, forced, autoscanned, found, conn, phase, stage1_done>>
step_images == step = 3 /\ UNCHANGED <<step, downloaded>> /\ load_release
take_dropped_release == step' = 3 /\ UNCHANGED downloaded /\ load_release
problems(f, r) == IF (r = "hc") = (f = "hc") THEN IF f = None THEN "ea" ELSE f ELSE "bad"
LoadDone(f) ==
    /\ Ends(Load(f)) /\ rel' \in Families /\ judged' = problems(f, rel')
    /\ UNCHANGED <<app, found, conn, phase, stage1_done, downloaded>>

(* The newest release from GitHub, opened when it has come.                 *)
Download == Job("download", None, None)
download_image ==
    /\ step = 3 /\ ~busy /\ board # None /\ spawn(Download)
    /\ UNCHANGED <<app, found, conn, rel, judged, phase, stage1_done, downloaded>>
Downloaded ==
    /\ Ends(Download) /\ downloaded' \in BOOLEAN
    /\ UNCHANGED <<app, found, conn, rel, judged, phase, stage1_done>>
render == downloaded /\ downloaded' = FALSE /\ step' = 3 /\ load_release

-----------------------------------------------------------------------------
(* The install button is drawn in its own phase only, whatever `busy` says. *)
(* Mutant: it goes by `busy` alone.                                         *)
MutantOffered(finish) == ~busy
Offered(finish) ==
    ~busy /\ IF finish THEN phase = "Failed" /\ stage1_done ELSE phase = None

Install(h, f, finish) == [what |-> "install", host |-> h, family |-> f, finish |-> finish]
start_install(finish) ==
    /\ step = 4 /\ Offered(finish) /\ board # None /\ rel # None /\ Connected
    /\ phase' = IF finish THEN "Restarting" ELSE "Writing"
    /\ stage1_done' = (finish /\ stage1_done)
    /\ spawn(Install(conn, board, finish))
    /\ UNCHANGED <<app, found, conn, rel, judged, downloaded>>

Installing == {j \in jobs : j.what = "install"}
(* run_install: an HC-800 is written in one stage, the others in two.       *)
run_install(j) ==
    /\ j \in Installing /\ j.family # "hc"
    /\ \/ phase = "Writing" /\ phase' = "Restarting" /\ stage1_done' = TRUE
       \/ phase = "Restarting" /\ phase' = "Finishing" /\ UNCHANGED stage1_done
    /\ UNCHANGED <<app, busy, found, conn, rel, judged, downloaded, jobs, started>>
InstallDone(j) ==
    /\ j \in Installing /\ Ends(j)
    /\ phase' \in {"Failed"} \cup (IF j.family = "hc" \/ phase = "Finishing" THEN {"Done"} ELSE {})
    /\ UNCHANGED <<app, found, conn, rel, judged, stage1_done, downloaded>>

reset ==
    /\ step = 4 /\ (phase = "Done" \/ (phase = "Failed" /\ ~busy)) /\ board # None
    /\ phase' = None /\ stage1_done' = FALSE /\ conn' = None /\ found' = {}
    /\ forced' = None /\ step' = 1 /\ autoscanned' = FALSE
    /\ UNCHANGED <<host, busy, rel, judged, downloaded, jobs, started>>

-----------------------------------------------------------------------------
Init ==
    /\ step = 1 /\ host = None /\ forced = None /\ autoscanned = FALSE
    /\ busy = FALSE /\ found = {} /\ conn = None /\ rel = None /\ judged = None
    /\ phase = None /\ stage1_done = FALSE /\ downloaded = FALSE
    /\ jobs = {} /\ started = 0

User ==
    \/ \E h \in Hosts : step_find(h)
    \/ Next1 \/ Retry \/ nav \/ \E f \in Families \cup {None} : step_check(f)
    \/ step_images \/ take_dropped_release \/ download_image
    \/ \E f \in BOOLEAN : start_install(f)
    \/ reset
Next ==
    \/ User \/ scan \/ render \/ Probed \/ Downloaded
    \/ \E h \in Hosts : ConnectDone(h)
    \/ \E f \in Families \cup {None} : LoadDone(f)
    \/ \E j \in jobs : run_install(j)
    \/ \E j \in jobs : InstallDone(j)

Spec == Init /\ [][Next]_vars

-----------------------------------------------------------------------------
(* Two installs never run at once, although a release dropped in the middle *)
(* of one clears `busy` when it has been read.                              *)
OneInstall == Cardinality(Installing) <= 1

(* An install goes to the address the window shows.                         *)
InstallsWhereItSays == [][\A j \in Installing' \ Installing : j.host = host]_vars

=============================================================================
