------------------------------ MODULE Updated ------------------------------
(***************************************************************************)
(* updated: which release a channel offers this box, and putting it on the  *)
(* HC-800's kernel partition.  REST, MQTT and a timer call the same check,  *)
(* set_channel and install; a check asks GitHub from a blocking thread, an  *)
(* install downloads, swaps two files and reboots from a thread of its own. *)
(* Between a channel's change and its check other requests get in.          *)
(***************************************************************************)
EXTENDS Naturals, FiniteSetsExt

CONSTANTS
    Channels,       \* stable and dev
    MaxVersion,     \* bound: releases published
    MaxUpdateCuts   \* bound: power cuts

NoChannel == "none"

VARIABLES
    published,  \* published[c]: releases channel c has offered so far
    newest,     \* the last version number given out
    saved,      \* update.json
    status,     \* channel, latest, available and state of Status; 0 is None
    recheck,    \* a check spawned by a change of channel has not begun
    asking,     \* the channel the check in flight asks about
    thread,     \* what install's thread does next
    fetched,    \* the release it was given
    disk,       \* releases of the two images on sda3: kernel, initrd
    current,    \* the release the box runs, by /etc/openhc-release
    powercuts

vars == <<published, newest, saved, status, recheck, asking, thread, fetched,
          disk, current, powercuts>>
github == <<published, newest>>
work == <<recheck, asking, thread, fetched>>

Fresh(c) == [channel |-> c, latest |-> 0, available |-> FALSE, asset |-> 0, state |-> "idle"]

TypeOK ==
    /\ published \in [Channels -> SUBSET (1..MaxVersion)] /\ saved \in Channels
    /\ status.channel \in Channels /\ status.latest \in 0..MaxVersion
    /\ status.state \in {"idle", "checking", "downloading", "installing", "rebooting", "error"}
    /\ thread \in {"none", "download", "kernel", "initrd", "reboot"}
    /\ disk \in [kernel : 0..MaxVersion, initrd : 0..MaxVersion]
    /\ recheck \in BOOLEAN /\ powercuts \in 0..MaxUpdateCuts

(* What pick finds among a release's assets for this board.                *)
pick(c) == Max(published[c] \cup {0})
supported == TRUE   \* the HC-800; the other boards only check

busy == status.state \in {"checking", "downloading", "installing", "rebooting"}

-----------------------------------------------------------------------------
Publish(c) ==
    /\ newest < MaxVersion
    /\ newest' = newest + 1 /\ published' = [published EXCEPT ![c] = @ \cup {newest + 1}]
    /\ UNCHANGED <<saved, status, work, disk, current, powercuts>>

Forget(c) == [Fresh(c) EXCEPT !.state = status.state]

set_channel(c) ==
    /\ saved' = c /\ status' = Forget(c) /\ recheck' = TRUE
    /\ UNCHANGED <<github, asking, thread, fetched, disk, current, powercuts>>

(* A request, the timer, or the check a change of channel spawned.         *)
check ==
    /\ ~busy
    /\ status' = [status EXCEPT !.state = "checking"] /\ asking' = status.channel
    /\ recheck' \in {recheck, FALSE}
    /\ UNCHANGED <<github, saved, thread, fetched, disk, current, powercuts>>
CheckBusy ==
    /\ busy /\ recheck /\ recheck' = FALSE
    /\ UNCHANGED <<github, saved, status, asking, thread, fetched, disk, current, powercuts>>

CheckFound ==
    /\ asking # NoChannel
    /\ status' = [status EXCEPT !.latest = pick(asking), !.asset = pick(asking),
                                !.available = pick(asking) \notin {0, current},
                                !.state = "idle"]
    /\ asking' = NoChannel
    /\ UNCHANGED <<github, saved, recheck, thread, fetched, disk, current, powercuts>>
CheckFailed ==
    /\ asking # NoChannel
    /\ status' = [status EXCEPT !.state = "error"] /\ asking' = NoChannel
    /\ UNCHANGED <<github, saved, recheck, thread, fetched, disk, current, powercuts>>

install ==
    /\ ~busy /\ status.asset # 0 /\ status.available /\ supported
    /\ status' = [status EXCEPT !.state = "downloading"]
    /\ thread' = "download" /\ fetched' = status.asset
    /\ UNCHANGED <<github, saved, recheck, asking, disk, current, powercuts>>

Downloaded ==
    /\ thread = "download"
    /\ status' = [status EXCEPT !.state = "installing"] /\ thread' = "kernel"
    /\ UNCHANGED <<github, saved, recheck, asking, fetched, disk, current, powercuts>>

(* The order in which the two images are renamed into place.               *)
(* Mutant: the initramfs first.                                             *)
MutantSwapOrder == <<"initrd", "kernel">>
SwapOrder == <<"kernel", "initrd">>
hc800 ==
    /\ thread \in {"kernel", "initrd"}
    /\ disk' = [disk EXCEPT ![IF thread = "kernel" THEN SwapOrder[1] ELSE SwapOrder[2]] = fetched]
    /\ IF thread = "kernel" THEN thread' = "initrd" /\ UNCHANGED status
       ELSE thread' = "reboot" /\ status' = [status EXCEPT !.state = "rebooting"]
    /\ UNCHANGED <<github, saved, recheck, asking, fetched, current, powercuts>>

InstallFailed ==
    /\ thread \in {"download", "kernel", "initrd"}
    /\ status' = [status EXCEPT !.state = "error"] /\ thread' = "none"
    /\ UNCHANGED <<github, saved, recheck, asking, fetched, disk, current, powercuts>>

(* The requests; the timer's check is one of them.                         *)
rest ==
    \/ \E c \in Channels : ~busy /\ set_channel(c)
    \/ check \/ install
mqtt ==
    \/ \E c \in Channels : ~busy /\ set_channel(c)
    \/ check \/ install

(* The box comes up: main, with the saved channel.                         *)
Restart ==
    /\ current' = disk.initrd
    /\ status' = Fresh(saved)
    /\ recheck' = FALSE /\ asking' = NoChannel /\ thread' = "none" /\ fetched' = 0
    /\ UNCHANGED <<github, saved, disk>>
Reboot == thread = "reboot" /\ Restart /\ UNCHANGED powercuts
PowerCut == powercuts < MaxUpdateCuts /\ powercuts' = powercuts + 1 /\ Restart

-----------------------------------------------------------------------------
Init ==
    /\ published = [c \in Channels |-> {}] /\ newest = 0
    /\ saved \in Channels /\ status = Fresh(saved)
    /\ recheck = FALSE /\ asking = NoChannel /\ thread = "none" /\ fetched = 0
    /\ disk = [kernel |-> 0, initrd |-> 0] /\ current = 0
    /\ powercuts = 0

Next ==
    \/ \E c \in Channels : Publish(c)
    \/ rest \/ mqtt \/ CheckBusy \/ CheckFound \/ CheckFailed
    \/ Downloaded \/ hc800 \/ InstallFailed \/ Reboot \/ PowerCut

Spec == Init /\ [][Next]_vars

-----------------------------------------------------------------------------

(* A box that says it runs its channel's newest release has both images of  *)
(* it: an install cut between the two images, or failed there, stays on     *)
(* offer.  One case is excepted by name: the kernel an install of ANOTHER   *)
(* channel left there, when the channel is switched back after it.  The     *)
(* initramfs alone says what runs, so "this box already runs that version"  *)
(* and no install puts the kernel right.                                   *)
Others == UNION {published[c] : c \in Channels \ {status.channel}}
UpToDateIsWhole ==
    status.latest # 0 /\ ~status.available /\ status.state = "idle"
    => disk.initrd = status.latest /\ disk.kernel \in {status.latest} \cup Others
=============================================================================
