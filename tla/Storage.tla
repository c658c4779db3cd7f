------------------------------ MODULE Storage ------------------------------
(***************************************************************************)
(* storaged's drives: mounted under /media by a thread that scans and       *)
(* reconciles, ejected and configured from the async thread beside it.  The *)
(* two share three locked sets, the mount table and ksmbd's configuration,  *)
(* and each holds a lock for one step at a time only.                      *)
(***************************************************************************)
EXTENDS Naturals, Sequences, FiniteSets, SequencesExt

CONSTANTS
    Drives,     \* filesystems on external drives
    Label,      \* Label[d]
    Names,      \* the names share_name makes of the labels, in its order
    Unmountable,\* drives whose filesystem this kernel lacks
    MaxPlugs,   \* bound: pluggings and unpluggings
    MaxEjects   \* bound: ejections asked for

NoName == <<>>
NoDrive == "none"

VARIABLES
    plugged,    \* drives /sys/block shows, with nothing of theirs mounted elsewhere
    stack,      \* stack[n]: what is mounted at /media/n, the last on top
    mounted,    \* App.mounted: the name a drive is mounted by
    ejected, failed,
    enabled,    \* Settings.enabled
    conf,       \* the shares in ksmbd.conf
    spc, found, sshares,            \* sync: where it is, its scan, its shares
    apc, victim, vname, ashares,    \* the async thread: eject or put_share
    seenGone,   \* seen gone by a whole sync since its last ejection or failed mount
    plugs, ejects

vars == <<plugged, stack, mounted, ejected, failed, enabled, conf, spc, found, sshares,
          apc, victim, vname, ashares, seenGone, plugs, ejects>>
sets == <<mounted, ejected, failed>>
syncer == <<spc, found, sshares>>
async == <<apc, victim, vname, ashares>>
bounds == <<plugs, ejects>>

TypeOK ==
    /\ plugged \subseteq Drives /\ ejected \subseteq Drives /\ failed \subseteq Drives
    /\ mounted \in [Drives -> ToSet(Names) \cup {NoName}]
    /\ stack \in [ToSet(Names) -> Seq(Drives)]
    /\ spc \in {"scan", "reconcile", "read", "apply"}
    /\ apc \in {"idle", "remove", "mark", "read", "apply", "unmount"}

IsMounted(d) == \E n \in ToSet(Names) : d \in ToSet(stack[n])

-----------------------------------------------------------------------------
(* Drives come and go.  A drive pulled out while mounted keeps its kernel   *)
(* name until it is unmounted, so a drive is only ever itself.             *)
Plug(d) ==
    /\ plugs < MaxPlugs /\ plugs' = plugs + 1
    /\ plugged' = IF d \in plugged THEN plugged \ {d} ELSE plugged \cup {d}
    /\ (d \notin plugged => ~IsMounted(d))
    /\ UNCHANGED <<stack, sets, enabled, conf, syncer, async, seenGone, ejects>>

share_name(d, taken) ==
    LET free == SelectSeq(Names, LAMBDA n : n \notin taken /\ n[1] = Label[d]) IN Head(free)

(* The kernel refuses a drive that has gone since the scan, a filesystem it *)
(* lacks, and what is mounted on that very mount point.                    *)
mount(d, at) == d \in plugged \ Unmountable /\ (at = <<>> \/ Last(at) # d)

(* One after the other, each new drive gets a name no mounted one has.     *)
Mounting(sets0, new) ==
    FoldLeft(LAMBDA t, d :
                 LET n == share_name(d, {t.mounted[x] : x \in Drives})
                 IN IF mount(d, t.stack[n])
                    THEN [t EXCEPT !.mounted[d] = n, !.stack[n] = Append(@, d)]
                    ELSE [t EXCEPT !.failed = @ \cup {d}],
             sets0, SetToSeq(new))

TopOff(s, n) == IF s[n] = <<>> THEN s ELSE [s EXCEPT ![n] = Front(@)]
unmount(s, ns) == FoldLeft(TopOff, s, SetToSeq(ns))

-----------------------------------------------------------------------------
scan ==
    /\ spc = "scan" /\ found' = plugged /\ spc' = "reconcile"
    /\ UNCHANGED <<plugged, stack, sets, enabled, conf, sshares, async, seenGone, bounds>>

(* Mutant: what failed is not forgotten when its drive has gone.            *)
MutantRetain(s) == s
Retain(s) == s \cap found

(* Under the lock: unmount what is gone, forget it, mount what is new.     *)
sync ==
    /\ spc = "reconcile"
    /\ LET gone == {d \in Drives : mounted[d] # NoName /\ d \notin found}
           left == [d \in Drives |-> IF d \in gone THEN NoName ELSE mounted[d]]
           out == Retain(ejected)
           bad == Retain(failed)
           new == {d \in found : left[d] = NoName /\ d \notin out \cup bad}
           end == Mounting([mounted |-> left, failed |-> bad,
                            stack |-> unmount(stack, {mounted[d] : d \in gone})], new)
       IN /\ mounted' = end.mounted /\ stack' = end.stack
          /\ ejected' = out /\ failed' = end.failed
          /\ spc' = IF gone = {} /\ end.mounted = left THEN "scan" ELSE "read"
          /\ seenGone' = (seenGone \cup {d \in Drives \ found :
                                           apc \in {"idle", "read", "apply", "unmount"} \/ d # victim})
                         \ (end.failed \ bad)
    /\ UNCHANGED <<plugged, enabled, conf, found, sshares, async, bounds>>

shares == IF enabled THEN {mounted[d] : d \in Drives} \ {NoName} ELSE {}

SyncReads ==
    /\ spc = "read" /\ spc' = "apply" /\ sshares' = shares
    /\ UNCHANGED <<plugged, stack, sets, enabled, conf, found, async, seenGone, bounds>>
SyncApplies ==
    /\ spc = "apply" /\ spc' = "scan" /\ conf' = sshares
    /\ UNCHANGED <<plugged, stack, sets, enabled, found, sshares, async, seenGone, bounds>>

-----------------------------------------------------------------------------
put_share(on) ==
    /\ apc = "idle" /\ ejects < MaxEjects /\ ejects' = ejects + 1
    /\ enabled' = on /\ victim' = NoDrive /\ apc' = "read"
    /\ UNCHANGED <<plugged, stack, sets, conf, syncer, vname, ashares, seenGone, plugs>>

eject(d) ==
    /\ apc = "idle" /\ mounted[d] # NoName
    /\ ejects < MaxEjects /\ ejects' = ejects + 1
    /\ mounted' = [mounted EXCEPT ![d] = NoName]
    /\ victim' = d /\ vname' = mounted[d] /\ apc' = "mark"
    /\ seenGone' = seenGone \ {d}
    /\ UNCHANGED <<plugged, stack, ejected, failed, enabled, conf, syncer, ashares, plugs>>
EjectMarks ==
    /\ apc = "mark" /\ ejected' = ejected \cup {victim} /\ apc' = "read"
    /\ UNCHANGED <<plugged, stack, mounted, failed, enabled, conf, syncer, victim, vname,
                   ashares, seenGone, bounds>>
AsyncReads ==
    /\ apc = "read" /\ apc' = "apply" /\ ashares' = shares
    /\ UNCHANGED <<plugged, stack, sets, enabled, conf, syncer, victim, vname, seenGone, bounds>>
AsyncApplies ==
    /\ apc = "apply" /\ conf' = ashares
    /\ apc' = IF victim = NoDrive THEN "idle" ELSE "unmount"
    /\ UNCHANGED <<plugged, stack, sets, enabled, syncer, victim, vname, ashares, seenGone, bounds>>
EjectUnmounts ==
    /\ apc = "unmount" /\ apc' = "idle" /\ stack' = unmount(stack, {vname})
    /\ UNCHANGED <<plugged, sets, enabled, conf, syncer, victim, vname, ashares, seenGone, bounds>>

(* SIGTERM, then a start: every name the daemon knows is unmounted.        *)
main ==
    /\ apc = "idle" /\ spc = "scan" /\ ejects < MaxEjects /\ ejects' = ejects + 1
    /\ stack' = unmount(stack, {mounted[d] : d \in Drives} \ {NoName})
    /\ mounted' = [d \in Drives |-> NoName] /\ ejected' = {} /\ failed' = {} /\ conf' = {}
    /\ UNCHANGED <<plugged, enabled, syncer, async, seenGone, plugs>>

-----------------------------------------------------------------------------
Init ==
    /\ plugged = {} /\ stack = [n \in ToSet(Names) |-> <<>>]
    /\ mounted = [d \in Drives |-> NoName] /\ ejected = {} /\ failed = {}
    /\ enabled = TRUE /\ conf = {}
    /\ spc = "scan" /\ found = {} /\ sshares = {}
    /\ apc = "idle" /\ victim = NoDrive /\ vname = NoName /\ ashares = {}
    /\ seenGone = Drives /\ plugs = 0 /\ ejects = 0

Syncer == scan \/ sync \/ SyncReads \/ SyncApplies
Async == EjectMarks \/ AsyncReads \/ AsyncApplies \/ EjectUnmounts

Next ==
    \/ \E d \in Drives : Plug(d) \/ eject(d)
    \/ \E on \in BOOLEAN : put_share(on)
    \/ Syncer \/ Async \/ main

Fairness == WF_vars(Syncer) /\ WF_vars(Async)
Spec == Init /\ [][Next]_vars /\ Fairness

-----------------------------------------------------------------------------
(* A drive left plugged in that a sync has seen gone is mounted again:      *)
(* nothing remembers a drive that has been pulled, however ejections and    *)
(* scans overlapped.  Excepted is one ejected, or that failed to mount,     *)
(* since it was seen gone: pulled between a scan and its mount, it fails,   *)
(* and plugged in again before the next scan it is not seen gone.          *)
ReplugMounts ==
    \A d \in Drives \ Unmountable :
        <>[](d \in plugged /\ d \in seenGone) => <>[](mounted[d] # NoName)

(* An ejection that has returned leaves the drive unmounted.                *)
EjectedIsUnmounted == \A d \in ejected : apc = "idle" => ~IsMounted(d)
=============================================================================
