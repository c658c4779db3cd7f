------------------------------ MODULE Switchd ------------------------------
(***************************************************************************)
(* switchd: one saved configuration of the Ethernet switch, applied to the  *)
(* kernel again and again: at boot, at the daemon's start, by PUT, by a     *)
(* port's enable, on demand.  Each application edits what the last left.    *)
(* Every handler runs to its end on one thread.  An MQTT command sets a     *)
(* port's link behind the configuration's back.                            *)
(*                                                                          *)
(* The daemon reads the board's ports once, at its start, and knows no      *)
(* others until it starts again.  Where there are none it ends.             *)
(***************************************************************************)
EXTENDS Naturals

CONSTANTS
    Ports,      \* the switch's ports on this board
    Bridges,    \* names the bridge is given
    Configs     \* the configurations an operator puts

None == "none"
Unreadable == [mode |-> "unreadable"]

VARIABLES
    cfg,        \* the daemon's configuration
    disk,       \* switch.json; Unreadable where there is none or a write was cut short
    present,    \* ports the switch driver has created
    known,      \* App::ports; {} while no daemon runs
    links,      \* the kernel's bridges
    master,     \* master[p]: the bridge port p is in
    isup,       \* isup[p]: admin state
    addr,       \* addr[i]: does interface i carry a static address?
    vlans,      \* vlans[p]: VLAN ids programmed on p
    handoff,    \* /run/ohc/net.conf: interface and mode
    touched     \* links have changed since the last application

vars == <<cfg, disk, present, known, links, master, isup, addr, vlans, handoff, touched>>

Interfaces == Ports \cup Bridges

PortDefault == [enabled |-> TRUE, addressing |-> "unset", vids |-> {}]
Config(mode, name, members, addressing, filtering, ports) ==
    [mode |-> mode, name |-> name, members |-> members, addressing |-> addressing,
     filtering |-> filtering, ports |-> ports]
default_for(ports) ==
    Config("managed", "br-lan", ports, "dhcp", FALSE, [p \in Ports |-> PortDefault])

Kernel == [links : SUBSET Bridges, master : [Ports -> Bridges \cup {None}],
           isup : [Ports -> BOOLEAN], addr : [Interfaces -> BOOLEAN],
           vlans : [Ports -> SUBSET Nat]]
kernel == [links |-> links, master |-> master, isup |-> isup, addr |-> addr, vlans |-> vlans]

TypeOK ==
    /\ kernel \in Kernel /\ present \subseteq Ports /\ known \subseteq present
    /\ disk.mode \in {"managed", "isolated", "custom", "unreadable"}

(* A port whose entry says nothing is as one without an entry.             *)
validate(c) ==
    /\ c.members \subseteq known /\ {p \in Ports : c.ports[p] # PortDefault} \subseteq known
    /\ ~(c.mode = "managed" /\ c.members = {})

-----------------------------------------------------------------------------
(* apply.rs: what applying configuration c to the kernel's state k makes of *)
(* it, with the ports the caller knows.                                    *)

Bridged(c, p) == c.mode # "isolated" /\ p \in c.members /\ c.ports[p].enabled

(* DHCP leaves the interface alone: flushing it would drop a live lease.   *)
apply_l3(a, had) == CASE a = "static" -> TRUE [] a = "none" -> FALSE [] OTHER -> had

AddressOf(c, k, ports, i) ==
    IF i \in Ports
    THEN IF i \notin ports \/ Bridged(c, i) THEN k.addr[i]
         ELSE c.ports[i].enabled /\ apply_l3(c.ports[i].addressing, k.addr[i])
    ELSE IF i = c.name THEN c.mode # "isolated" /\ apply_l3(c.addressing, k.addr[i])
    ELSE k.addr[i]

(* Mutant: a port left out of the bridge is not taken out of it.            *)
MutantNomaster(c, k, p) == k.master[p]
nomaster(c, k, p) == None

(* Deleting a bridge lets go of whatever was in it.                        *)
MasterOf(c, k, ports, p) ==
    IF p \notin ports THEN IF c.mode = "isolated" /\ k.master[p] = c.name THEN None ELSE k.master[p]
    ELSE IF Bridged(c, p) THEN c.name
    ELSE IF c.mode = "isolated" /\ c.name \notin k.links THEN k.master[p]
    ELSE nomaster(c, k, p)

(* VLANs are added to the members of the bridge, never taken off; the       *)
(* kernel drops a port's when it leaves the bridge.                        *)
program_vlans(c, k, ports, p) ==
    LET in == MasterOf(c, k, ports, p)
    IN (IF in # None /\ in = k.master[p] THEN k.vlans[p] ELSE {})
       \cup (IF c.filtering /\ in = c.name /\ p \in c.members THEN c.ports[p].vids ELSE {})

build_bridge(c, k) ==
    IF c.mode = "isolated" THEN k.links \ {c.name} ELSE k.links \cup {c.name}

Applied(c, k, ports) ==
    [links |-> build_bridge(c, k),
     master |-> [p \in Ports |-> MasterOf(c, k, ports, p)],
     isup |-> [p \in Ports |-> IF p \in ports THEN c.ports[p].enabled ELSE k.isup[p]],
     addr |-> [i \in Interfaces |-> AddressOf(c, k, ports, i)],
     vlans |-> [p \in Ports |-> program_vlans(c, k, ports, p)]]

(* What S40net is told to lease; static leaves no name.                    *)
handoff_target(c) ==
    IF c.mode # "isolated" THEN {[iface |-> c.name, mode |-> c.addressing]}
    ELSE LET leased == {p \in Ports : c.ports[p].enabled /\ c.ports[p].addressing = "dhcp"}
         IN IF leased = {} THEN {[iface |-> None, mode |-> "static"]}
            ELSE {[iface |-> p, mode |-> "dhcp"] : p \in leased}

Becomes(k) ==
    /\ links' = k.links /\ master' = k.master /\ isup' = k.isup
    /\ addr' = k.addr /\ vlans' = k.vlans

apply(c, k, ports) ==
    /\ Becomes(Applied(c, k, ports))
    /\ handoff' \in handoff_target(c)
    /\ touched' = FALSE

-----------------------------------------------------------------------------
Load(file, ports) == IF file = Unreadable THEN default_for(ports) ELSE file

(* A save that fails has truncated the file, and nothing is applied.       *)
put_config(c) ==
    /\ known # {} /\ validate(c)
    /\ \/ disk' = c /\ apply(c, kernel, known) /\ cfg' = c
       \/ disk' = Unreadable /\ UNCHANGED <<cfg, links, master, isup, addr, vlans, handoff, touched>>
    /\ UNCHANGED <<present, known>>

reapply ==
    /\ known # {} /\ apply(cfg, kernel, known)
    /\ UNCHANGED <<cfg, disk, present, known>>

(* The save may fail; the port is switched all the same.                   *)
set_port_enable(p, enabled) ==
    /\ p \in known
    /\ cfg' = [cfg EXCEPT !.ports[p].enabled = enabled]
    /\ disk' \in {cfg', disk, Unreadable}
    /\ apply(cfg', kernel, known) /\ UNCHANGED <<present, known>>

mqtt_loop(p, up) ==
    /\ p \in known /\ isup' = [isup EXCEPT ![p] = up] /\ touched' = TRUE
    /\ UNCHANGED <<cfg, disk, present, known, links, master, addr, vlans, handoff>>

(* A port the driver creates late: the daemon that runs does not know it.  *)
PortAppears(p) ==
    /\ p \notin present /\ present' = present \cup {p}
    /\ UNCHANGED <<cfg, disk, known, links, master, isup, addr, vlans, handoff, touched>>

(* main: the daemon starts, or starts again.                               *)
Start ==
    /\ present # {} /\ known' = present
    /\ cfg' = Load(disk, present) /\ apply(cfg', kernel, present)
    /\ UNCHANGED <<disk, present>>

Bare == [links |-> {}, master |-> [p \in Ports |-> None], isup |-> [p \in Ports |-> FALSE],
         addr |-> [i \in Interfaces |-> FALSE], vlans |-> [p \in Ports |-> {}]]

(* Power may go while switch.json is written; `switchd apply` applies what  *)
(* is there to the ports created by then, and the daemon starts later.     *)
Boot ==
    /\ disk' \in {disk, Unreadable}
    /\ present' \in SUBSET Ports /\ known' = {}
    /\ cfg' = Load(disk', present')
    /\ IF present' = {} THEN Becomes(Bare) /\ UNCHANGED <<handoff, touched>>
       ELSE apply(cfg', Bare, present')

Init ==
    /\ disk = Unreadable /\ present \in SUBSET Ports \ {{}} /\ known = present
    /\ cfg = default_for(present)
    /\ links = {"br-lan"} /\ addr = [i \in Interfaces |-> FALSE]
    /\ master = [p \in Ports |-> IF p \in present THEN "br-lan" ELSE None]
    /\ isup = [p \in Ports |-> p \in present] /\ vlans = [p \in Ports |-> {}]
    /\ handoff = [iface |-> "br-lan", mode |-> "dhcp"] /\ touched = FALSE

Next ==
    \/ \E c \in Configs : put_config(c)
    \/ \E p \in Ports : \/ \E b \in BOOLEAN : set_port_enable(p, b) \/ mqtt_loop(p, b)
                        \/ PortAppears(p)
    \/ reapply \/ Start \/ Boot

Spec == Init /\ [][Next]_vars

-----------------------------------------------------------------------------
(* An application leaves alone the addresses of a bridged port, and those   *)
(* of an interface on DHCP or with no addressing of its own.               *)
LeftAlone(c, i) ==
    IF i \in Ports
    THEN c.ports[i].enabled /\ (Bridged(c, i) \/ c.ports[i].addressing \notin {"static", "none"})
    ELSE c.addressing \notin {"static", "none"}

(* What an application leaves on the daemon's ports does not depend on what *)
(* was there before it: membership, admin state, addresses and VLANs are    *)
(* those a fresh boot would give this configuration.  Three things are      *)
(* excepted by name: a static address stays on an interface left alone, a   *)
(* VLAN removed stays on a port that stays in the bridge, and a renamed     *)
(* bridge is never taken down.                                             *)
HistoryFree ==
    known # {} /\ ~touched /\ links \subseteq {cfg.name} =>
        LET fresh == Applied(cfg, Bare, known)
        IN /\ links = fresh.links
           /\ \A p \in known : /\ master[p] = fresh.master[p] /\ isup[p] = fresh.isup[p]
                               /\ fresh.vlans[p] \subseteq vlans[p]
                               /\ vlans[p] = fresh.vlans[p] \/ master[p] = cfg.name
           /\ \A i \in Interfaces : i \in known \cup ({cfg.name} \ Ports) =>
                 addr[i] = fresh.addr[i] \/ (addr[i] /\ LeftAlone(cfg, i))
=============================================================================
