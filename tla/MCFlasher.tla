----------------------------- MODULE MCFlasher -----------------------------
(***************************************************************************)
(* The flasher and the boxes it rewrites, in one run: an HC-800's boot      *)
(* chain, an EA's, the flasher's window, its TFTP server and its boot of an *)
(* EA into RAM.  A behaviour is one of them at work while the others stand  *)
(* at their start.                                                          *)
(***************************************************************************)
EXTENDS Naturals, Sequences

CONSTANTS
    Modes, HcCuts, HcOps,                                  \* of Hc800Boot
    Releases, Size, SlotSize, Staged, MtdKernels, Boxes, MaxItems, EaOps, EaCuts, \* of EaBoot
    Hosts, Family, Vague, MaxJobs, MaxSteps,               \* of FlasherGui
    FileBlocks, Wrap, Tries, MaxTimeouts, MaxLosses,       \* of TftpServe
    MaxPowerCycles, MaxFailures                            \* of EaNetboot

ASSUME HcConstants == Modes \subseteq BOOLEAN

(* No image is empty; the script found on an old box was sized to its image. *)
ASSUME EaConstants ==
    /\ Size \in [Releases -> Nat \ {0}] /\ SlotSize \in Nat \ {0}
    /\ Boxes \subseteq {"slot", "plain", "old"}
    /\ "old" \in Boxes => "r0" \in Releases /\ Size["r0"] = 1

(* A block's number is not the next one's.                                   *)
ASSUME TftpConstants == FileBlocks \in Nat \ {0} /\ Wrap \in Nat \ {0, 1}

(* r2 is the larger release.                                                *)
MCSize == [r0 |-> 1, r1 |-> 1, r2 |-> 2]
MCFamily == [core |-> "ea", hall |-> "hc"]

VARIABLES
    part,       \* who is at work
    menu, dflt, pre, kernel, initrd, tmp, hrunning, op, hstep, plan, due, lapses, hops,
    hcuts,                                                                 \* HC-800
    low, mid, gap, p1, items, on, reads, running, kern, job, asked, wiped, left,
    ops, cuts,                                                             \* EA
    step, host, forced, autoscanned, busy, found, conn, rel, judged, phase, stage1_done,
    downloaded, jobs, started,                                             \* the window
    request, server, block, tries, data, acks, got, from, wire, ntimeouts, nlosses, \* TFTP
    box, ram, console, typed, pc, served, stage, tail, fedtail, todo, echoed, ncycles,
    nfailures, blind                                                       \* netboot

Hc == INSTANCE Hc800Boot WITH
    MaxCuts <- HcCuts, MaxOps <- HcOps,
    running <- hrunning, step <- hstep, ops <- hops, cuts <- hcuts
Ea == INSTANCE EaBoot WITH MaxOps <- EaOps, MaxCuts <- EaCuts
Gui == INSTANCE FlasherGui
Tftp == INSTANCE TftpServe
Netboot == INSTANCE EaNetboot

-----------------------------------------------------------------------------
hc == <<menu, dflt, pre, kernel, initrd, tmp, hrunning, op, hstep, plan, due, lapses, hops,
        hcuts>>
ea == <<low, mid, gap, p1, items, on, reads, running, kern, job, asked, wiped, left,
        ops, cuts>>
gui == <<step, host, forced, autoscanned, busy, found, conn, rel, judged, phase,
         stage1_done, downloaded, jobs, started>>
tftp == <<request, server, block, tries, data, acks, got, from, wire, ntimeouts, nlosses>>
net == <<box, ram, console, typed, pc, served, stage, tail, fedtail, todo, echoed, ncycles,
         nfailures, blind>>

(* Those that stand still stand at one of their initial states.              *)
Init ==
    /\ part \in {"hc", "ea", "gui", "tftp", "netboot"}
    /\ Hc!Init /\ (part # "hc" => menu = Hc!Shipped /\ pre = <<>> /\ tmp)
    /\ Ea!Init /\ (part # "ea" => items = <<>>)
    /\ Gui!Init
    /\ Tftp!TftpInit
    /\ Netboot!NetInit

Next ==
    \/ part = "hc" /\ Hc!Next /\ UNCHANGED <<part, ea, gui, tftp, net>>
    \/ part = "ea" /\ Ea!Next /\ UNCHANGED <<part, hc, gui, tftp, net>>
    \/ part = "gui" /\ Gui!Next /\ UNCHANGED <<part, hc, ea, tftp, net>>
    \/ part = "tftp" /\ Tftp!TftpNext /\ UNCHANGED <<part, hc, ea, gui, net>>
    \/ part = "netboot" /\ Netboot!NetNext /\ UNCHANGED <<part, hc, ea, gui, tftp>>

(* A box with power boots; the TFTP server and its client run.               *)
Fairness ==
    /\ WF_hc(part = "hc" /\ Hc!Grub)
    /\ WF_tftp(part = "tftp" /\ Tftp!Server) /\ WF_tftp(part = "tftp" /\ Tftp!Client)

vars == <<part, hc, ea, gui, tftp, net>>
Spec == Init /\ [][Next]_vars /\ Fairness

-----------------------------------------------------------------------------
(* The properties, stated and explained in the modules instanced.            *)

(* HC-800: the factory restore runs only when it was asked for.              *)
RestoresOnlyAsked == Hc!RestoresOnlyAsked

(* HC-800: an armed restore brings the box up as stock, /tmp and all.        *)
ArmedReturnsStock == Hc!ArmedReturnsStock

(* EA: the script reads whole images, and p1 is wiped only as asked.         *)
EaBoxSafe == Ea!EaBoxSafe

(* The window: two installs never run at once.                               *)
OneInstall == Gui!OneInstall

(* TFTP: the file goes over, despite a few losses, and "sent" is true.       *)
GoesThrough == part = "tftp" => Tftp!GoesThrough

(* TFTP: what was sent was received, whole and in order.                     *)
SentIsReceived == Tftp!SentIsReceived

(* Netboot: nothing partial is started, nothing typed but at the shell.      *)
NothingPartialRuns == Netboot!NothingPartialRuns
=============================================================================
