----------------------------- MODULE WebdDisplay -----------------------------
(***************************************************************************)
(* The on-screen view of an HC-800: what webd writes about it (api.rs's      *)
(* display_set, daynight.rs) and the service that runs it (S95ohc-display). *)
(*                                                                          *)
(* webd is one thread, so a POST and the check of every minute are one step *)
(* each.  A POST leaves a run of the service behind it and does not wait:    *)
(* the runs, the supervisors they start and the view go on by themselves,   *)
(* a shell command a step, and meet in the configuration, the scheme file,  *)
(* the noted URL, the FIFO and the pid file.                               *)
(***************************************************************************)
EXTENDS Naturals

CONSTANTS
    Runs,           \* runs of the service: the boot's and one per POST
    Configs,        \* what display.conf may say
    MaxFlips,       \* bound: sunrises and sunsets
    MaxCrashes      \* bound: times the view exits

VARIABLES
    conf,       \* display.conf
    dark,       \* the sun is down at the box
    scheme,     \* /run/ohc-display.scheme, or none
    script,     \* per run of the service: where it is and what it read
    noted,      \* $RUN/url, or none
    fifo,       \* the control FIFO is in the file system
    pidf,       \* the run whose supervisor the pid file names, or none
    sup,        \* per run, its supervisor: none, run, wait (for the view) or sleep
    view,       \* the view: none, opening, or up (it reads the FIFO)
    shown,      \* the theme and URL it has
    crossed,    \* the last POST failed, or met a run under way or a supervisor unnamed (history)
    nflips, ncrashes

service == <<script, noted, fifo, pidf, sup, view>>
bounds == <<nflips, ncrashes>>
vars == <<conf, dark, scheme, service, shown, crossed, bounds>>

Done == [at |-> "done"]
Unborn == [at |-> "new"]    \* the run of a POST to come

TypeOK ==
    LET Urls == {c.url : c \in Configs}
        Shown == [theme : {"light", "dark", "auto"}, url : Urls]
    IN  /\ conf \in Configs /\ dark \in BOOLEAN
        /\ scheme \in {"none", "light", "dark"}
        /\ \A r \in Runs :
              script[r].at \in {"new", "start", "reload", "kill", "rm", "sweep", "enable", "tell",
                               "note", "done"}
        /\ noted \in Urls \cup {"none"}
        /\ fifo \in BOOLEAN
        /\ pidf \in Runs \cup {"none"} /\ sup \in [Runs -> {"none", "run", "wait", "sleep"}]
        /\ view \in {"none", "opening", "up"}
        /\ shown \in Shown
        /\ crossed \in BOOLEAN /\ nflips \in 0..MaxFlips /\ ncrashes \in 0..MaxCrashes

(* The box has booted: webd runs and the service is started, and /run is    *)
(* empty.                                                                  *)
Init ==
    /\ conf \in Configs /\ dark \in BOOLEAN
    /\ scheme = "none" /\ noted = "none" /\ fifo = FALSE
    /\ script = [r \in Runs |-> IF r = CHOOSE q \in Runs : TRUE THEN [at |-> "start"] ELSE Unborn]
    /\ pidf = "none" /\ sup = [r \in Runs |-> "none"] /\ view = "none"
    /\ shown = [theme |-> "auto", url |-> conf.url]
    /\ crossed = FALSE /\ nflips = 0 /\ ncrashes = 0

-----------------------------------------------------------------------------
(* webd.                                                                   *)

(* daynight::scheme: the theme itself, or the sun's where it is known.       *)
SchemeOf(c) ==
    IF c.theme # "auto" THEN c.theme
    ELSE IF c.located /\ dark THEN "dark" ELSE "light"

(* daynight::apply: nothing when the scheme is the one in the file;          *)
(* otherwise the file, and in auto the view, if one reads the FIFO.         *)
apply(c) ==
    /\ scheme' = SchemeOf(c)
    /\ shown' = IF scheme # SchemeOf(c) /\ c.enabled /\ c.theme = "auto" /\ view = "up"
                THEN [shown EXCEPT !.theme = SchemeOf(c)] ELSE shown

Minute ==
    /\ scheme # SchemeOf(conf)
    /\ apply(conf)
    /\ UNCHANGED <<conf, dark, service, crossed, bounds>>

Gone(r) == script[r] \in {Done, Unborn}

(* POST /api/display: the file, the scheme, and the service told to reload.  *)
display_set(c) ==
    /\ conf' = c
    /\ apply(c)
    /\ \E r \in Runs : script[r] = Unborn /\ script' = [script EXCEPT ![r] = [at |-> "reload"]]
    /\ crossed' = \E r \in Runs : ~Gone(r) \/ (sup[r] # "none" /\ pidf # r)
    /\ UNCHANGED <<dark, noted, fifo, pidf, sup, view, bounds>>

(* The file truncated or cut short, its disk full: the POST fails there.    *)
NotWritten ==
    /\ \E r \in Runs : script[r] = Unborn /\ script' = [script EXCEPT ![r] = Done]
    /\ conf' \in Configs /\ crossed' = TRUE
    /\ UNCHANGED <<dark, scheme, noted, fifo, pidf, sup, view, shown, bounds>>

SunFlips ==
    /\ nflips < MaxFlips /\ nflips' = nflips + 1
    /\ dark' = ~dark
    /\ UNCHANGED <<conf, scheme, service, shown, crossed, ncrashes>>

-----------------------------------------------------------------------------
(* The service.                                                            *)

(* load: the URL and the theme; in auto the theme is the file's, if there.  *)
Loaded ==
    [url   |-> conf.url,
     theme |-> IF conf.theme = "auto" /\ scheme # "none" THEN scheme ELSE conf.theme]

Named == pidf # "none" /\ sup[pidf] # "none"
running == Named /\ view # "none" /\ fifo

Goes(r, to) == script' = [script EXCEPT ![r] = to]

(* start reads the configuration, and ends when it is disabled.             *)
start(r) ==
    /\ script[r].at = "start"
    /\ Goes(r, IF conf.enabled THEN [at |-> "enable"] ELSE Done)
    /\ UNCHANGED <<conf, dark, scheme, noted, fifo, pidf, sup, view, shown, crossed, bounds>>

(* start-stop-daemon -S, by a reload a second after its stop: a supervisor, *)
(* unless the one the pid file names is alive.                              *)
Enable(r) ==
    /\ script[r].at = "enable" /\ Goes(r, Done)
    /\ IF Named THEN UNCHANGED <<pidf, sup>> ELSE pidf' = r /\ sup' = [sup EXCEPT ![r] = "run"]
    /\ UNCHANGED <<conf, dark, scheme, noted, fifo, view, shown, crossed, bounds>>

(* reload reads the configuration, and stops the view, goes on to tell it,   *)
(* or stops what there may be to start it anew.                            *)
reload(r) ==
    /\ script[r].at = "reload"
    /\ Goes(r, IF conf.enabled /\ running THEN [at |-> "tell", had |-> Loaded]
               ELSE [at |-> "kill", on |-> conf.enabled])
    /\ UNCHANGED <<conf, dark, scheme, noted, fifo, pidf, sup, view, shown, crossed, bounds>>

(* stop: the supervisor the pid file names, the pid file, and then the view, *)
(* whose supervisor, if it lives, sleeps.                                  *)
(* Mutant: the view's processes are swept and its supervisor is not.         *)
MutantKilled == sup
Killed == IF pidf = "none" THEN sup ELSE [sup EXCEPT ![pidf] = "none"]
stop(r) ==
    /\ \/ /\ script[r].at = "kill" /\ Goes(r, [script[r] EXCEPT !.at = "rm"])
          /\ sup' = Killed /\ UNCHANGED <<pidf, view>>
       \/ /\ script[r].at = "rm" /\ Goes(r, [script[r] EXCEPT !.at = "sweep"])
          /\ pidf' = "none" /\ UNCHANGED <<sup, view>>
       \/ /\ script[r].at = "sweep" /\ Goes(r, IF script[r].on THEN [at |-> "enable"] ELSE Done)
          /\ view' = "none" /\ UNCHANGED pidf
          /\ sup' = [q \in Runs |-> IF sup[q] = "wait" THEN "sleep" ELSE sup[q]]
    /\ UNCHANGED <<conf, dark, scheme, noted, fifo, shown, crossed, bounds>>

(* The theme, and a URL other than the noted one, into the FIFO: what no    *)
(* view has open to read is gone when the run closes it.                    *)
Tell(r) ==
    /\ script[r].at = "tell" /\ Goes(r, [script[r] EXCEPT !.at = "note"])
    /\ LET had == script[r].had
       IN  shown' = IF view # "up" THEN shown
                    ELSE [theme |-> had.theme,
                          url |-> IF noted = had.url THEN shown.url ELSE had.url]
    /\ UNCHANGED <<conf, dark, scheme, noted, fifo, pidf, sup, view, crossed, bounds>>

Note(r) ==
    /\ script[r].at = "note" /\ Goes(r, Done)
    /\ noted' = script[r].had.url
    /\ UNCHANGED <<conf, dark, scheme, fifo, pidf, sup, view, shown, crossed, bounds>>

(* A supervisor starts the view on the configuration of the moment.  Beside  *)
(* another view it finds the display taken, and ends.                      *)
run(r) ==
    /\ sup[r] = "run" /\ noted' = conf.url
    /\ IF view = "none"
       THEN sup' = [sup EXCEPT ![r] = "wait"] /\ view' = "opening" /\ shown' = Loaded
       ELSE sup' = [sup EXCEPT ![r] = "sleep"] /\ UNCHANGED <<view, shown>>
    /\ UNCHANGED <<conf, dark, scheme, script, fifo, pidf, crossed, bounds>>

(* webview's control_open, some time after it has read its environment.     *)
control_open ==
    /\ view = "opening"
    /\ view' = "up" /\ fifo' = TRUE
    /\ UNCHANGED <<conf, dark, scheme, script, noted, pidf, sup, shown, crossed, bounds>>

ViewExits ==
    /\ view # "none" /\ ncrashes < MaxCrashes /\ ncrashes' = ncrashes + 1
    /\ view' = "none"
    /\ sup' = [q \in Runs |-> IF sup[q] = "wait" THEN "sleep" ELSE sup[q]]
    /\ UNCHANGED <<conf, dark, scheme, script, noted, fifo, pidf, shown, crossed, nflips>>

Again(r) ==
    /\ sup[r] = "sleep" /\ sup' = [sup EXCEPT ![r] = "run"]
    /\ UNCHANGED <<conf, dark, scheme, script, noted, fifo, pidf, view, shown, crossed, bounds>>

Script(r) == start(r) \/ Enable(r) \/ reload(r) \/ stop(r) \/ Tell(r) \/ Note(r)
Supervisor(r) == run(r) \/ Again(r)

Next ==
    \/ Minute \/ SunFlips \/ NotWritten
    \/ \E c \in Configs : display_set(c)
    \/ \E r \in Runs : Script(r) \/ Supervisor(r)
    \/ control_open \/ ViewExits

(* webd's timer; processes that run to their end; a supervisor that sleeps   *)
(* three seconds.  Nobody need POST.                                        *)
Fairness ==
    /\ WF_vars(Minute) /\ WF_vars(control_open)
    /\ \A r \in Runs : WF_vars(Script(r)) /\ WF_vars(Supervisor(r))

Spec == Init /\ [][Next]_vars /\ Fairness

-----------------------------------------------------------------------------
(* The view ends up on or off as the last POST said, however often it exits *)
(* and whatever runs of the service overlapped before, and the file has the *)
(* scheme of that configuration under the sun of the day.  Excepted is a    *)
(* last POST that could not write its file, or came while a run was under   *)
(* way, or after two had left a supervisor that the pid file does not name: *)
(* a run that read `enabled` starts the view a second later, and what is    *)
(* not named is not stopped.                                               *)
EnableIsObeyed ==
    <>[](/\ crossed \/ view = (IF conf.enabled THEN "up" ELSE "none")
         /\ scheme = SchemeOf(conf))
=============================================================================
