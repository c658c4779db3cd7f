------------------------------- MODULE MCBox -------------------------------
(***************************************************************************)
(* The daemons of a box, model-checked in one run: each keeps to itself, so *)
(* a behaviour is one of them at work while the others stand at their start,*)
(* and the states are the sum of the daemons', not their product.           *)
(***************************************************************************)
EXTENDS Naturals, Sequences, FiniteSets

CONSTANTS
    Channels, MaxVersion, MaxUpdateCuts,            \* updated
    Ports, Bridges, Configs,                        \* switchd
    MaxFaults, MaxUsbRestarts,                      \* sysmond: USB
    Sensors, Slug, Cap, Every, MaxSamples,           \* sysmond: history
    Uploads, Chunks,                                \* the file browser
    Kinds, MaxCommands, MaxRestoreCuts              \* restore

ASSUME UpdateConstants == MaxVersion \in Nat /\ "none" \notin Channels
ASSUME HistoryConstants ==
    IsFiniteSet(Sensors) /\ Cap \in Nat \ {0} /\ Every \in Nat \ {0} /\ MaxSamples \in Nat
ASSUME FilesConstants == Chunks \in Nat /\ "nothing" \notin Uploads

VARIABLES
    part,       \* who is at work
    published, newest, saved, status, recheck, asking, thread, fetched, images, current,
    powercuts,                                                            \* updated
    cfg, disk, present, known, links, master, isup, addr, vlans, handoff, touched, \* switchd
    temp, zone, policy, pwm, aim, stale, owed, free, greet, link, notice, fails, \* sysmond: fan
    short, disabled, was, upc, ustatus, ushown, changed, users, usbRestarts, \* sysmond: USB
    bound, series, ring, n, history,                                      \* sysmond: history
    plugged, stack, mounted, ejected, failed, enabled, conf, spc, found, sshares, apc,
    victim, vname, ashares, seenGone, plugs, ejects,                      \* storaged
    tmp, real, other, content, writes, at, overwrite, crossed, fpc,       \* its file browser
    radio, pc, task, host, late, losses, kills, byhand,                   \* zigbee
    kind, io, chip, driver, writing, service, run, armed, root, excused, told,
    ncommands, ncuts,                                                     \* restore
    vconf, dark, scheme, script, noted, fifo, pidf, sup, view, vshown, overlapped,
    nflips, ncrashes                                                      \* webd's view

Update == INSTANCE Updated WITH disk <- images

(* An operator's configurations: bridges of two names, isolated ports, a     *)
(* custom bridge over one port or both, lan1 or lan2 on DHCP, VLAN 10.       *)
MCConfigs ==
    LET unset == [enabled |-> TRUE, addressing |-> "unset", vids |-> {}]
        S == [unset EXCEPT !.addressing = "static", !.vids = {10}]
        D == [unset EXCEPT !.addressing = "dhcp"]
        both == {"lan1", "lan2"}
        Put(mode, name, members, addressing, filtering, p1, p2) ==
            [mode |-> mode, name |-> name, members |-> members, addressing |-> addressing,
             filtering |-> filtering, ports |-> [lan1 |-> p1, lan2 |-> p2]]
    IN  {Put("managed", "br-lan", both, "dhcp", FALSE, unset, unset),
         Put("managed", "br0", {"lan1"}, "static", FALSE, S, D),
         Put("isolated", "br-lan", {}, "dhcp", FALSE, S, D),
         Put("isolated", "br0", {}, "dhcp", FALSE, D, S),
         Put("custom", "br-lan", {"lan1"}, "none", TRUE, S, D),
         Put("custom", "br-lan", both, "static", TRUE, D, S)}

Switch == INSTANCE Switchd

Fan == INSTANCE SysmondFan WITH Full <- 3, Floor <- 2, Room <- 2, MaxFails <- 2

Usb == INSTANCE SysmondUsb WITH pc <- upc, status <- ustatus, shown <- ushown

(* cpu and board share a slug, as two sensors of one chip label may.         *)
MCSlug == [cpu |-> "board", board |-> "board", fan |-> "fan"]

History == INSTANCE SysmondHistory

(* Both drives carry the same label; sdc holds no filesystem that mounts.    *)
Drive == INSTANCE Storage WITH
    Drives <- {"sdb", "sdc"}, Unmountable <- {"sdc"}, MaxPlugs <- 3, MaxEjects <- 2,
    Label <- [sdb |-> "music", sdc |-> "music"],
    Names <- << <<"music", 1>>, <<"music", 2>>, <<"music", 3>> >>

Files == INSTANCE StorageFiles WITH pc <- fpc

Radio == INSTANCE ZigbeeNcp WITH
    Shipped <- {1, 3}, Ours <- 2, Stock <- 1, Blocks <- 2, MaxTries <- 3,
    MaxLosses <- 2, MaxKills <- 1, MaxByHand <- 1, stale <- late

Back == INSTANCE Restore

(* The view on under the theme of the sun, and off.                          *)
DisplayConfigs ==
    LET on == [enabled |-> TRUE, theme |-> "auto", url |-> "ui", located |-> TRUE]
    IN  {on, [on EXCEPT !.enabled = FALSE, !.theme = "light", !.url = "other"]}

Posts == {"boot", "first", "second"}
Display == INSTANCE WebdDisplay WITH
    Runs <- Posts, Configs <- DisplayConfigs, MaxFlips <- 1, MaxCrashes <- 1,
    conf <- vconf, shown <- vshown, crossed <- overlapped

-----------------------------------------------------------------------------
Parts == {"update", "switch", "fan", "usb", "history", "drive", "files", "radio", "back",
          "display"}

(* Those that stand still stand at one of their initial states.              *)
Init ==
    /\ part \in Parts
    /\ Update!Init /\ (part # "update" => saved = CHOOSE c \in Channels : TRUE)
    /\ Switch!Init /\ (part # "switch" => present = Ports)
    /\ Fan!Init
    /\ Usb!Init /\ (part # "usb" => ~short)
    /\ History!HistoryInit /\ (part # "history" => bound = {})
    /\ Drive!Init
    /\ Files!FilesInit /\ (part # "files" => overwrite = [u \in Uploads |-> FALSE])
    /\ Radio!Init /\ (part # "radio" => radio.slot = 3 /\ ~radio.btl)
    /\ Back!Init /\ (part # "back" => kind = (CHOOSE k \in Kinds : TRUE) /\ chip = "ours")
    /\ Display!Init /\ ~dark /\ (part # "display" => vconf.url = "ui")

updated == <<published, newest, saved, status, recheck, asking, thread, fetched, images,
             current, powercuts>>
switchd == <<cfg, disk, present, known, links, master, isup, addr, vlans, handoff, touched>>
fan == <<temp, zone, policy, pwm, aim, stale, owed, free, greet, link, notice, fails>>
usb == <<short, disabled, was, upc, ustatus, ushown, changed, users, usbRestarts>>
hist == <<bound, series, ring, n, history>>
drives == <<plugged, stack, mounted, ejected, failed, enabled, conf, spc, found, sshares,
            apc, victim, vname, ashares, seenGone, plugs, ejects>>
files == <<tmp, real, other, content, writes, at, overwrite, crossed, fpc>>
zigbee == <<radio, pc, task, host, late, losses, kills, byhand>>
restore == <<kind, io, chip, driver, writing, service, run, armed, root, excused, told,
             ncommands, ncuts>>
display == <<vconf, dark, scheme, script, noted, fifo, pidf, sup, view, vshown, overlapped,
             nflips, ncrashes>>

Next ==
    \/ part = "update" /\ Update!Next
       /\ UNCHANGED <<part, switchd, fan, usb, hist, drives, files, zigbee, restore, display>>
    \/ part = "switch" /\ Switch!Next
       /\ UNCHANGED <<part, updated, fan, usb, hist, drives, files, zigbee, restore, display>>
    \/ part = "fan" /\ Fan!Next
       /\ UNCHANGED <<part, updated, switchd, usb, hist, drives, files, zigbee, restore, display>>
    \/ part = "usb" /\ Usb!Next
       /\ UNCHANGED <<part, updated, switchd, fan, hist, drives, files, zigbee, restore, display>>
    \/ part = "history" /\ History!HistoryNext
       /\ UNCHANGED <<part, updated, switchd, fan, usb, drives, files, zigbee, restore, display>>
    \/ part = "drive" /\ Drive!Next
       /\ UNCHANGED <<part, updated, switchd, fan, usb, hist, files, zigbee, restore, display>>
    \/ part = "files" /\ Files!FilesNext
       /\ UNCHANGED <<part, updated, switchd, fan, usb, hist, drives, zigbee, restore, display>>
    \/ part = "radio" /\ Radio!Next
       /\ UNCHANGED <<part, updated, switchd, fan, usb, hist, drives, files, restore, display>>
    \/ part = "back" /\ Back!Next
       /\ UNCHANGED <<part, updated, switchd, fan, usb, hist, drives, files, zigbee, display>>
    \/ part = "display" /\ Display!Next
       /\ UNCHANGED <<part, updated, switchd, fan, usb, hist, drives, files, zigbee, restore>>

vars == <<part, updated, switchd, fan, usb, hist, drives, files, zigbee, restore, display>>

(* The fairness of each daemon, while it is the one at work.                 *)
Fairness ==
    /\ WF_fan(part = "fan" /\ Fan!Governor) /\ SF_fan(part = "fan" /\ Fan!tick)
    /\ SF_fan(part = "fan" /\ Fan!Publish) /\ WF_fan(part = "fan" /\ Fan!Greet)
    /\ WF_fan(part = "fan" /\ Fan!Poll)
    /\ WF_drives(part = "drive" /\ Drive!Syncer) /\ WF_drives(part = "drive" /\ Drive!Async)
    /\ WF_zigbee(part = "radio" /\ Radio!Run) /\ WF_zigbee(part = "radio" /\ Radio!RadioLeaves)
    /\ WF_zigbee(part = "radio" /\ Radio!RadioGivesUp)
    /\ WF_display(part = "display" /\ Display!Minute)
    /\ WF_display(part = "display" /\ Display!control_open)
    /\ \A r \in Posts : /\ WF_display(part = "display" /\ Display!Script(r))
                        /\ WF_display(part = "display" /\ Display!Supervisor(r))

Spec == Init /\ [][Next]_vars /\ Fairness

-----------------------------------------------------------------------------
(* The properties, stated and explained in the daemons' modules.             *)

(* updated: a box that says it is up to date has both images of the newest.  *)
UpToDateIsWhole == Update!UpToDateIsWhole

(* switchd: applying a configuration leaves what a fresh boot would give.    *)
HistoryFree == Switch!HistoryFree

(* sysmond: a fan in manual mode does not let the board cook.                *)
NeverCooks == Fan!NeverCooks

(* sysmond: a USB port its user switched off stays off.                      *)
UsersOffStays == Usb!UsersOffStays

(* sysmond: every sample of the history keeps its sensors' meaning.          *)
SamplesKeepMeaning == History!SamplesKeepMeaning

(* storaged: a drive pulled and plugged again is mounted again.              *)
ReplugMounts == Drive!ReplugMounts

(* storaged: a real name never shows part of an upload.                      *)
RealIsWhole == Files!RealIsWhole

(* zigbee: a radio with a bootloader ends up on an app no older than ours.   *)
RadioRecovers == Radio!RadioRecovers

(* restore: a box back on Control4 carries no openHC firmware unasked.       *)
StockIsStock == Back!StockIsStock

(* webd: the view ends up on or off as the settings say.                     *)
EnableIsObeyed == part = "display" => Display!EnableIsObeyed
=============================================================================
