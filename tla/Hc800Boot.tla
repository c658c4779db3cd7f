------------------------------ MODULE Hc800Boot ------------------------------
(***************************************************************************)
(* The HC-800's boot chain and everything that rewrites it: the flasher's   *)
(* install, boot, factory restore and uninstall over SSH, the same restore  *)
(* run on the box, and updated's replacement of the two images.             *)
(*                                                                          *)
(* GRUB 0.97 boots the entry that menu.lst's default line numbers or, with  *)
(* `default saved`, the one the file boot/grub/default names; without that  *)
(* file, or with an empty one, it boots entry 0, Control4's factory         *)
(* restore.  An entry's savedefault rewrites that file in place.  A write   *)
(* of a file is one step, or two where a cut in the middle matters (`cat >` *)
(* and std::fs::write truncate first).  One operation runs at a time; power *)
(* may go and SSH may drop at any step of it.                               *)
(***************************************************************************)
EXTENDS Naturals, Sequences

CONSTANTS
    Modes,      \* install_grub: values of boot_once in use
    MaxCuts,    \* bound: power cuts and dropped connections
    MaxOps      \* bound: operations begun and presses of the ID button

Saved == 9      \* `default saved`
None == 9       \* no entry named: no default file, no savedefault line
Empty == 8      \* a default file with nothing in it

ENTRY_VENDOR == 1
ENTRY_OPENHC == 2

VARIABLES
    menu,       \* menu.lst on sda1
    dflt,       \* boot/grub/default: the entry it names, Empty or None
    pre,        \* menu.lst.pre-openhc: <<menu>>, or <<>>
    kernel,     \* openhc-bzImage on sda3: none, torn, or a release
    initrd,     \* openhc-initrd.gz
    tmp,        \* the stock root on sda4 has its /tmp
    running,    \* what the box runs
    op,         \* the operation in progress
    step,       \* what it does next
    plan,       \* <<the menu it read, the menu it writes>>
    due,        \* factory restores asked for that have not run
    lapses,     \* history: what left `default saved` with a file not meant for it
    ops, cuts

bootloader == <<menu, dflt, pre>>
images == <<kernel, initrd>>
work == <<op, step, plan>>
vars == <<bootloader, images, tmp, running, work, due, lapses, ops, cuts>>

-----------------------------------------------------------------------------
(* menu.lst.                                                               *)

Entry(kind, save) == [kind |-> kind, save |-> save]
menu_entry(boot_once) == Entry("openhc", IF boot_once THEN ENTRY_VENDOR ELSE None)

(* Control4's entries, and ours after them: nobody else appends to the file. *)
Vendors == <<Entry("factory", None), Entry("vendor", None)>>
Menu(default, stock, ours) ==
    [guarded |-> TRUE, default |-> default, vendors |-> stock, ours |-> ours]
Shipped == Menu(ENTRY_VENDOR, Vendors, <<>>)
Garbled == [guarded |-> FALSE, default |-> None, vendors |-> <<>>, ours |-> <<>>]

entries(m) == m.vendors \o m.ours
titles(m) == [i \in 0..Len(entries(m)) - 1 |-> entries(m)[i + 1].kind]

(* The menu install_grub writes: its entry replaces whatever is ours.      *)
InstallMenu(m, boot_once) ==
    [m EXCEPT !.default = IF boot_once THEN Saved ELSE ENTRY_OPENHC,
              !.ours = <<menu_entry(boot_once)>>]
InstallAccepts(m) ==
    /\ m.guarded /\ ENTRY_OPENHC \in DOMAIN titles(InstallMenu(m, FALSE))
    /\ titles(InstallMenu(m, FALSE))[ENTRY_OPENHC] = "openhc"

(* The index of the one-shot entry, and the menu that holds it.            *)
OnceEntry(m) == Len(m.vendors)
(* Mutant: the restore hands over to plain stock.                           *)
MutantFactoryOnceMenu(m) ==
    [m EXCEPT !.default = Saved,
              !.ours = <<Entry("once", ENTRY_VENDOR), Entry("firstboot", ENTRY_VENDOR)>>]

factory_once_menu(m) ==
    [m EXCEPT !.default = Saved,
              !.ours = <<Entry("once", OnceEntry(m) + 1), Entry("firstboot", ENTRY_VENDOR)>>]
OnceAccepts(m) == m.guarded /\ OnceEntry(m) > ENTRY_VENDOR

(* Without a backup, uninstall edits the menu instead.  Our entry is alone: *)
(* an install drops a restore's two, and a restore drops ours.             *)
drop_entries(es) == IF \E i \in DOMAIN es : es[i].kind = "openhc" THEN <<>> ELSE es
EditedMenu(m) ==
    IF m = Garbled THEN m
    ELSE [m EXCEPT !.default = ENTRY_VENDOR, !.ours = drop_entries(m.ours)]

-----------------------------------------------------------------------------
Builds == {"r1", "r2"}
Steps == {"none", "kernel", "kernel_rest", "initrd", "initrd_rest", "backup", "menu",
          "default", "default_rest", "verify", "save", "save_rest", "arm", "confirm", "back", "settle", "images",
          "tmp", "swap_kernel", "swap_initrd"}
Entries == Seq([kind : STRING, save : Nat])
Menus == [guarded : BOOLEAN, default : Nat, vendors : Entries, ours : Entries]

TypeOK ==
    /\ menu \in Menus /\ dflt \in Nat
    /\ Len(pre) <= 1 /\ \A i \in DOMAIN pre : pre[i] \in Menus
    /\ kernel \in Builds \cup {"none", "torn"} /\ initrd \in Builds \cup {"none", "torn"}
    /\ tmp \in BOOLEAN /\ due \in 0..MaxOps
    /\ lapses \subseteq {"install", "stock", "backup"}
    /\ running \in {"off", "stock", "openhc", "restoring", "dead"}
    /\ step \in Steps /\ ops \in 0..MaxOps /\ cuts \in 0..MaxCuts

Up == running \in {"stock", "openhc"}
Names == dflt \notin {None, Empty}

Go(s) == step' = s /\ UNCHANGED op
Finish == op' = [name |-> "none"] /\ step' = "none" /\ plan' = <<>>

Begin(o, first) ==
    /\ Up /\ step = "none" /\ ops < MaxOps
    /\ ops' = ops + 1 /\ op' = o /\ step' = first
    /\ UNCHANGED <<bootloader, images, tmp, running, plan, due, lapses, cuts>>

-----------------------------------------------------------------------------
(* kexec: nothing is written to a disk.                                    *)

stage_and_kexec ==
    /\ Up /\ step = "none" /\ ops < MaxOps
    /\ ops' = ops + 1 /\ running' = "openhc"
    /\ UNCHANGED <<bootloader, images, tmp, work, due, lapses, cuts>>

(* install_grub.                                                           *)

install_grub(boot_once, r) ==
    Begin([name |-> "install", once |-> boot_once, release |-> r], "kernel")

PutImages ==
    /\ \/ step = "kernel" /\ kernel' = "torn" /\ Go("kernel_rest") /\ UNCHANGED initrd
       \/ step = "kernel_rest" /\ kernel' = op.release /\ Go("initrd") /\ UNCHANGED initrd
       \/ step = "initrd" /\ initrd' = "torn" /\ Go("initrd_rest") /\ UNCHANGED kernel
       \/ step = "initrd_rest" /\ initrd' = op.release /\ Go("backup") /\ UNCHANGED kernel
    /\ UNCHANGED <<bootloader, tmp, running, plan, due, lapses, ops, cuts>>

(* The first backup is kept for good.  It is made before the entry's number *)
(* is checked.                                                             *)
Backup == IF pre = <<>> THEN <<menu>> ELSE pre
RefuseMenu ==
    /\ step = "backup" /\ ~InstallAccepts(menu)
    /\ pre' = IF menu.guarded THEN Backup ELSE pre
    /\ Finish
    /\ UNCHANGED <<menu, dflt, images, tmp, running, due, lapses, ops, cuts>>

BackUpMenu ==
    /\ step = "backup" /\ InstallAccepts(menu)
    /\ pre' = Backup
    /\ plan' = <<menu, InstallMenu(menu, op.once)>> /\ Go("menu")
    /\ UNCHANGED <<menu, dflt, images, tmp, running, due, lapses, ops, cuts>>

WriteMenu ==
    /\ step = "menu"
    /\ menu' \in {plan[2], Garbled} /\ Go("default")
    /\ UNCHANGED <<dflt, pre, images, tmp, running, plan, due, lapses, ops, cuts>>

(* After the menu: the file it depends on, or the one it no longer reads.  *)
WriteDefault ==
    /\ \/ step = "default" /\ op.once /\ dflt' = Empty /\ Go("default_rest")
       \/ step = "default_rest" /\ dflt' = ENTRY_OPENHC /\ Go("verify")
       \/ step = "default" /\ ~op.once /\ dflt' = None /\ Go("verify")
    /\ UNCHANGED <<menu, pre, images, tmp, running, plan, due, lapses, ops, cuts>>

(* The first backup may be of the menu a restore armed.                    *)
VerifyMenu ==
    /\ step = "verify"
    /\ menu' = IF menu = plan[2] THEN menu ELSE pre[1]
    /\ lapses' = IF menu # plan[2] /\ pre[1].default = Saved
                 THEN lapses \cup {"backup"} ELSE lapses
    /\ Finish
    /\ UNCHANGED <<dflt, pre, images, tmp, running, due, ops, cuts>>

(* boot_installed: refused unless entry 2 is openHC, its files are there    *)
(* and the default is ours to set, or names it already.  `sed -i` changes   *)
(* nothing in an empty file, and fails without one.                        *)
boot_installed ==
    /\ Up /\ step = "none" /\ ops < MaxOps
    /\ ENTRY_OPENHC \in DOMAIN titles(menu) /\ titles(menu)[ENTRY_OPENHC] = "openhc"
    /\ kernel # "none" /\ initrd # "none"
    /\ \/ menu.default = Saved /\ Names /\ dflt' = ENTRY_OPENHC
       \/ menu.default = Saved /\ dflt = Empty /\ UNCHANGED dflt
       \/ menu.default = ENTRY_OPENHC /\ UNCHANGED dflt
    /\ ops' = ops + 1 /\ running' = "off"
    /\ UNCHANGED <<menu, pre, images, tmp, work, due, lapses, cuts>>

-----------------------------------------------------------------------------
(* Control4's factory restore, armed for one boot.                         *)

(* Over SSH, and on the box: the radio and the IO firmware go first.       *)
factory_restore == Begin([name |-> "restore"], "save")
stock == running = "openhc" /\ Begin([name |-> "stock"], "save")

(* Mutant: as install_grub does it, the menu goes first.                   *)
MutantSaveEntry ==
    /\ step = "save" /\ OnceAccepts(menu)
    /\ dflt' = None /\ due' = due + 1
    /\ plan' = <<menu, factory_once_menu(menu)>> /\ Go("arm")
    /\ UNCHANGED <<menu, pre, images, tmp, running, lapses, ops, cuts>>

(* The default file first, read back; then the menu that depends on it.     *)
(* Over SSH a file with something in it is replaced by a rename; on the box *)
(* it is truncated and written again.                                      *)
SaveEntry ==
    /\ step = "save" /\ OnceAccepts(menu)
    /\ due' = due + 1 /\ plan' = <<menu, factory_once_menu(menu)>>
    /\ \/ op.name = "restore" /\ dflt' = OnceEntry(menu) /\ Go("arm")
       \/ op.name = "stock" /\ dflt' = Empty /\ Go("save_rest")
    /\ UNCHANGED <<menu, pre, images, tmp, running, lapses, ops, cuts>>

SaveRest ==
    /\ step = "save_rest"
    /\ dflt' = OnceEntry(menu) /\ Go("arm")
    /\ UNCHANGED <<menu, pre, images, tmp, running, plan, due, lapses, ops, cuts>>

RefuseRestore ==
    /\ step = "save" /\ ~OnceAccepts(menu)
    /\ Finish
    /\ UNCHANGED <<bootloader, images, tmp, running, due, lapses, ops, cuts>>

Arm ==
    /\ step = "arm"
    /\ menu' \in {plan[2], Garbled} /\ Go("confirm")
    /\ UNCHANGED <<dflt, pre, images, tmp, running, plan, due, lapses, ops, cuts>>

Confirm ==
    /\ step = "confirm"
    /\ \/ menu = plan[2] /\ running' = "off" /\ UNCHANGED menu
       \/ menu # plan[2] /\ menu' = plan[1] /\ UNCHANGED running
    /\ Finish
    /\ UNCHANGED <<dflt, pre, images, tmp, due, lapses, ops, cuts>>

-----------------------------------------------------------------------------
(* uninstall.                                                              *)

uninstall == Begin([name |-> "uninstall"], "back")

(* What is put back is checked, and left as it is when the check fails.  It *)
(* says `default saved` where the backup was made after a restore was armed.*)
PutMenuBack ==
    /\ step = "back"
    /\ menu' = IF pre # <<>> THEN pre[1] ELSE EditedMenu(menu)
    /\ IF pre = <<>> /\ EditedMenu(menu) = menu THEN Go("tmp") /\ UNCHANGED plan
       ELSE IF menu'.guarded THEN Go("settle") /\ UNCHANGED plan ELSE Finish
    /\ lapses' = IF pre # <<>> /\ menu'.default = Saved /\ ~Names
                 THEN lapses \cup {"backup"} ELSE lapses
    /\ UNCHANGED <<dflt, pre, images, tmp, running, due, ops, cuts>>

(* `sed -i` on a file that is not there fails, and is ignored; an empty one *)
(* stays as it is.                                                         *)
SettleDefault ==
    /\ step = "settle"
    /\ dflt' = IF menu.default # Saved THEN None ELSE IF Names THEN ENTRY_VENDOR ELSE dflt
    /\ Go("images")
    /\ UNCHANGED <<menu, pre, images, tmp, running, plan, due, lapses, ops, cuts>>

RemoveImages ==
    /\ step = "images"
    /\ kernel' = "none" /\ initrd' = "none" /\ Go("tmp")
    /\ UNCHANGED <<bootloader, tmp, running, plan, due, lapses, ops, cuts>>

vendor_tmp ==
    /\ step = "tmp"
    /\ tmp' = TRUE /\ Finish
    /\ UNCHANGED <<bootloader, images, running, due, lapses, ops, cuts>>

-----------------------------------------------------------------------------
(* updated: each image beside the old one, renamed over it; then a reboot. *)

update(r) ==
    running = "openhc" /\ Begin([name |-> "update", release |-> r], "swap_kernel")

SwapImages ==
    /\ \/ step = "swap_kernel" /\ kernel' = op.release /\ Go("swap_initrd")
          /\ UNCHANGED <<initrd, running, plan>>
       \/ step = "swap_initrd" /\ initrd' = op.release /\ running' = "off" /\ Finish
          /\ UNCHANGED kernel
    /\ UNCHANGED <<bootloader, tmp, due, lapses, ops, cuts>>

-----------------------------------------------------------------------------
(* GRUB, the systems it boots, and the power.                              *)

Chosen ==
    IF menu.default # Saved THEN menu.default
    ELSE IF Names THEN dflt ELSE 0
ChosenEntry(i) ==
    IF i \in DOMAIN titles(menu) THEN entries(menu)[i + 1] ELSE Entry("vendor", None)

Loads == kernel \notin {"none", "torn"} /\ initrd \notin {"none", "torn"}

(* A kernel that is not there falls back to entry 1; a torn one may load.  *)
Reaches(e) ==
    IF e.kind = "openhc"
    THEN IF Loads THEN {"openhc"}
         ELSE {"stock"} \cup IF "none" \in {kernel, initrd} THEN {} ELSE {"off"}
    ELSE IF e.kind \in {"factory", "once"} THEN {"restoring"} ELSE {"stock"}

Boot(i) ==
    LET e == ChosenEntry(i)
    IN /\ running = "off" /\ menu # Garbled
       /\ running' \in Reaches(e)
       /\ dflt' = IF e.save # None /\ Names
                     /\ (e.kind = "openhc" => running' = "openhc")
                  THEN e.save ELSE dflt
       /\ tmp' = (tmp \/ e.kind = "firstboot")
       /\ UNCHANGED <<menu, pre, images, work, lapses, cuts>>

PowerOn == Boot(Chosen) /\ UNCHANGED <<due, ops>>

(* The ID button held at power-on picks entry 0.                           *)
PressButton ==
    /\ ops < MaxOps /\ ops' = ops + 1
    /\ Boot(0) /\ due' = due + 1

NoMenu ==
    /\ running = "off" /\ menu = Garbled
    /\ running' = "dead"
    /\ UNCHANGED <<bootloader, images, tmp, work, due, lapses, ops, cuts>>

(* restore.sh re-images sda3 and sda4 and reboots.                         *)
RestoreRuns ==
    /\ running = "restoring"
    /\ kernel' = "none" /\ initrd' = "none" /\ tmp' = FALSE
    /\ due' = (IF due = 0 THEN 0 ELSE due - 1) /\ running' = "off"
    /\ UNCHANGED <<bootloader, work, lapses, ops, cuts>>

Reboot ==
    /\ Up /\ step = "none" /\ ops < MaxOps
    /\ ops' = ops + 1 /\ running' = "off"
    /\ UNCHANGED <<bootloader, images, tmp, work, due, lapses, cuts>>

(* What a cut leaves of a default file that menu.lst depends on already, or *)
(* of a menu put back whose default file is not settled.                   *)
CutLapse ==
    IF step \in {"default", "default_rest"} /\ op.once THEN {"install"}
    ELSE IF step = "save_rest" /\ menu.default = Saved THEN {"stock"}
    ELSE IF step = "settle" /\ menu.default = Saved THEN {"backup"} ELSE {}

Cut ==
    /\ step # "none" /\ cuts < MaxCuts
    /\ cuts' = cuts + 1 /\ Finish
    /\ running' \in {running, "off"} /\ lapses' = lapses \cup CutLapse
    /\ UNCHANGED <<bootloader, images, tmp, due, ops>>

-----------------------------------------------------------------------------
Init ==
    /\ menu \in {Shipped, [Shipped EXCEPT !.guarded = FALSE],
                 Menu(ENTRY_VENDOR, Append(Vendors, Entry("extra", None)), <<>>)}
    /\ pre \in {<<>>, <<menu>>}
    /\ dflt = None /\ kernel = "none" /\ initrd = "none"
    /\ tmp \in BOOLEAN /\ running = "stock"
    /\ op = [name |-> "none"] /\ step = "none" /\ plan = <<>>
    /\ due = 0 /\ lapses = {} /\ ops = 0 /\ cuts = 0

Grub == PowerOn \/ NoMenu \/ RestoreRuns

Next ==
    \/ stage_and_kexec \/ boot_installed \/ factory_restore \/ stock \/ uninstall
    \/ \E r \in Builds : update(r) \/ \E o \in Modes : install_grub(o, r)
    \/ PutImages \/ RefuseMenu \/ BackUpMenu \/ WriteMenu \/ WriteDefault \/ VerifyMenu
    \/ SaveEntry \/ SaveRest \/ RefuseRestore \/ Arm \/ Confirm
    \/ PutMenuBack \/ SettleDefault \/ RemoveImages \/ vendor_tmp
    \/ SwapImages
    \/ Grub \/ PressButton \/ Reboot \/ Cut

Spec == Init /\ [][Next]_vars

(* A box with power boots, and the systems it boots run.                   *)
FairSpec == Spec /\ WF_vars(Grub)

-----------------------------------------------------------------------------
(* Properties.                                                             *)

(* What factory_restore's comment says of the default file: it is there     *)
(* before menu.lst says `default saved`, so no restore runs but the one     *)
(* that was asked for (the button, or the one-shot entry).                  *)
NeverUnasked == running = "restoring" => due > 0

(* The factory restore, which wipes the box, runs once for each time it was *)
(* asked for and never by itself (install_grub, factory_restore, uninstall, *)
(* restore's stock, updated), on a fresh box and on one installed before,   *)
(* but for three lapses of the code: a boot-once install cut between        *)
(* menu.lst and the default file it names; the box's own `stock` cut while  *)
(* it rewrites a default file menu.lst already reads; and a backup made     *)
(* after a restore was armed, put back where its default file is gone, cut  *)
(* before that file is settled, or because menu.lst read back differently.  *)
RestoresOnlyAsked == running = "restoring" => due > 0 \/ lapses # {}

(* Once the one-shot entry is what boots, the box comes up as stock, with   *)
(* the /tmp the restore leaves out.                                         *)
ArmedReturnsStock ==
    running = "off" /\ ChosenEntry(Chosen).kind = "once" ~> running = "stock" /\ tmp

=============================================================================
