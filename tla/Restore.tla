------------------------------ MODULE Restore ------------------------------
(***************************************************************************)
(* restore: giving a box back to Control4, whose two microcontrollers must  *)
(* not keep openHC's firmware.  On an HC-800 the IO part goes first, from   *)
(* the recovery archive, then the radio, then the one-shot boot entry; on   *)
(* an EA the radio, then a flag, and boot-init puts p1 and the IO part back *)
(* after the reboot.  Every boot of openHC in between brings its firmware   *)
(* back: the IO driver at its probe, the zigbee service when it starts.     *)
(* How the boot entry and the flag themselves survive a power cut is        *)
(* Hc800Boot's and EaBoot's; here they are one step each.                   *)
(***************************************************************************)
EXTENDS Naturals

CONSTANTS
    Kinds,          \* the boards: hc800, ea
    MaxCommands,    \* bound: commands given
    MaxRestoreCuts  \* bound: power cuts and killed commands

VARIABLES
    kind,
    io,        \* firmware of the IO part: ours, c4, or none (left in its bootloader)
    chip,      \* firmware of the Zigbee radio, likewise
    driver,    \* the IO part's driver is bound
    writing,   \* it is writing Control4's image
    service,   \* the zigbee service runs
    run,       \* the command: its name, next step, --keep-radio, what it met and changed
    armed,     \* the one-shot entry or flag
    root,      \* what runs: openHC, bootinit, stock, or stuck (network recovery)
    excused,   \* parts passed over when armed: no driver for "io"; "radio" kept, or silent
    told,      \* the command failed saying that nothing else was changed
    ncommands, ncuts

vars == <<kind, io, chip, driver, writing, service, run, armed, root, excused, told, ncommands,
          ncuts>>

Command(cmd, step, keep) ==
    [cmd |-> cmd, step |-> step, keep |-> keep, absent |-> FALSE, silent |-> FALSE,
     changed |-> {}]
Idle == Command("none", "idle", FALSE)
TypeOK ==
    /\ io \in {"ours", "c4", "none"} /\ chip \in {"ours", "c4", "none"}
    /\ {driver, writing, service, armed} \subseteq BOOLEAN /\ excused \subseteq {"io", "radio"}
    /\ run.step \in {"idle", "io", "poll", "radio", "arm", "reboot"}
    /\ run.changed \subseteq {"io", "radio"}
    /\ root \in {"openHC", "bootinit", "stock", "stuck"}

Step(s) == run' = [run EXCEPT !.step = s]

(* The step after a step of command r.                                      *)
(* Mutant: the flag before the radio.                                       *)
MutantAfter(r, step) ==
    CASE step = "start" /\ r.cmd # "radio" /\ (r.cmd = "iomcu" \/ kind = "hc800") -> "io"
      [] step = "start" /\ r.cmd = "stock" /\ kind # "hc800" -> "arm"
      [] step = "start" /\ r.cmd = "radio" -> "radio"
      [] step = "io" -> IF r.cmd = "iomcu" THEN "idle" ELSE "arm"
      [] step = "arm" -> IF r.keep THEN "reboot" ELSE "radio"
      [] step = "radio" -> IF r.cmd = "radio" THEN "idle" ELSE "reboot"
After(r, step) ==
    CASE step = "start" /\ r.cmd # "radio" /\ (r.cmd = "iomcu" \/ kind = "hc800") -> "io"
      [] step = "start" /\ r.cmd = "stock" /\ kind # "hc800" /\ r.keep -> "arm"
      [] step = "start" /\ r.cmd # "iomcu" /\ ~(r.cmd = "stock" /\ (kind = "hc800" \/ r.keep)) -> "radio"
      [] step = "io" -> IF r.cmd = "iomcu" THEN "idle" ELSE IF r.keep THEN "arm" ELSE "radio"
      [] step = "radio" -> IF r.cmd = "radio" THEN "idle" ELSE "arm"
      [] step = "arm" -> "reboot"

main(cmd, keep) ==
    /\ root = "openHC" /\ run.step = "idle" /\ ncommands < MaxCommands
    /\ ncommands' = ncommands + 1 /\ told' = FALSE
    /\ run' = Command(cmd, After(Command(cmd, "idle", keep), "start"), keep)
    /\ UNCHANGED <<kind, io, chip, driver, writing, service, armed, root, excused, ncuts>>

-----------------------------------------------------------------------------
(* The IO part: pick and wrap Control4's image, hand it to the driver, poll *)
(* until it is idle.  A part that says it runs Control4's is left alone,    *)
(* one that says nothing in time is written; without its driver there is    *)
(* no part, and nothing to do.                                             *)
restore_from_root ==
    /\ run.step = "io"
    /\ \/ ~driver /\ run' = [run EXCEPT !.step = After(run, "io"), !.absent = TRUE]
          /\ UNCHANGED writing
       \/ driver /\ io = "c4" /\ Step(After(run, "io")) /\ UNCHANGED writing
       \/ driver /\ ~writing /\ writing' = TRUE /\ Step("poll")
       \/ run' = Idle /\ UNCHANGED writing
    /\ UNCHANGED <<kind, io, chip, driver, service, armed, root, excused, told, ncommands, ncuts>>

(* A write ends, seen by a command that polls unless it has waited too long *)
(* or the part does not say the new version.                               *)
Written ==
    /\ writing' = FALSE /\ io' \in {"c4", "none"}
    /\ \/ run.step # "poll" /\ UNCHANGED run
       \/ run.step = "poll" /\ run' = Idle
       \/ run.step = "poll" /\ io' = "c4"
          /\ run' = [run EXCEPT !.step = After(run, "io"), !.changed = @ \cup {"io"}]

(* The driver writes whether or not the command still waits for it.         *)
upload ==
    /\ writing /\ Written
    /\ UNCHANGED <<kind, chip, driver, service, armed, root, excused, told, ncommands, ncuts>>

(* iod unbinds the driver, pulses the part's reset and binds it again, on    *)
(* the board with that line.  Its probe writes nothing: no firmware is named.*)
mcu_reset ==
    /\ root = "openHC" /\ kind = "hc800" /\ driver' = FALSE
    /\ IF writing THEN Written ELSE UNCHANGED <<writing, io, run>>
    /\ UNCHANGED <<kind, chip, service, armed, root, excused, told, ncommands, ncuts>>
Bind ==
    /\ root = "openHC" /\ ~driver /\ driver' = TRUE
    /\ UNCHANGED <<kind, io, chip, writing, service, run, armed, root, excused, told,
                   ncommands, ncuts>>

(* The radio: the service stopped, zigbee --restore-stock, and the service  *)
(* started again when that failed.                                          *)
radio ==
    /\ run.step = "radio"
    /\ \/ /\ chip' = "c4" /\ service' = FALSE /\ UNCHANGED told
          /\ run' = [run EXCEPT !.step = After(run, "radio"), !.changed = @ \cup {"radio"}]
       \/ /\ service' = FALSE /\ UNCHANGED <<chip, told>>
          /\ run' = [run EXCEPT !.step = After(run, "radio"), !.silent = TRUE]
       \/ /\ chip # "c4" /\ chip' \in {chip, "none"} /\ service' = TRUE
          /\ told' = TRUE /\ Step("idle")
    /\ UNCHANGED <<kind, io, driver, writing, armed, root, excused, ncommands, ncuts>>
ensure ==
    /\ service /\ root = "openHC" /\ chip # "ours" /\ chip' = "ours"
    /\ UNCHANGED <<kind, io, driver, writing, service, run, armed, root, excused, told, ncommands,
                   ncuts>>

(* hc800::stock, or the flag on p1.                                         *)
stock ==
    /\ run.step = "arm"
    /\ \/ /\ armed' = TRUE /\ Step(After(run, "arm"))
          /\ excused' = (IF run.keep \/ run.silent THEN {"radio"} ELSE {})
                        \cup (IF run.absent THEN {"io"} ELSE {})
       \/ run' = Idle /\ UNCHANGED <<armed, excused>>
    /\ UNCHANGED <<kind, io, chip, driver, writing, service, root, told, ncommands, ncuts>>

-----------------------------------------------------------------------------
(* What the next boot runs.  On the EA the kernel's driver may put openHC's *)
(* IO image back; a flag is consumed whatever comes of it.                  *)
Boot ==
    LET was == IF writing THEN "none" ELSE io IN
    /\ root' = IF ~armed THEN "openHC" ELSE IF kind = "hc800" THEN "stock" ELSE "bootinit"
    /\ armed' = FALSE /\ driver' = TRUE /\ writing' = FALSE /\ run' = Idle
    /\ io' \in IF root' = "stock" \/ kind = "hc800" THEN {was} ELSE {was, "ours"}
    /\ service' = (root' = "openHC") /\ UNCHANGED <<kind, chip, told, excused, ncommands>>
Reboot == run.step = "reboot" /\ Boot /\ UNCHANGED ncuts
Unplugged == root = "openHC" /\ ncuts < MaxRestoreCuts /\ ncuts' = ncuts + 1 /\ Boot
KilledRestore ==
    /\ run.step # "idle" /\ ncuts < MaxRestoreCuts /\ ncuts' = ncuts + 1 /\ run' = Idle
    /\ UNCHANGED <<kind, io, chip, driver, writing, service, armed, root, excused, told,
                   ncommands>>

(* boot-init: without the flash device it boots openHC as before; else p1   *)
(* is emptied and unpacked, the IO part put back if it can be, the          *)
(* autoscript cleared.                                                      *)
NoFlash ==
    /\ root = "bootinit" /\ root' = "openHC" /\ service' = TRUE
    /\ UNCHANGED <<kind, io, chip, driver, writing, run, armed, excused, told, ncommands, ncuts>>
cmd_reimage_finalize ==
    /\ root = "bootinit"
    /\ \/ root' = "stock" /\ io' \in {"c4", "none", io}
       \/ root' = "stuck" /\ UNCHANGED io
    /\ UNCHANGED <<kind, chip, driver, writing, service, run, armed, excused, told, ncommands,
                   ncuts>>

(* recovery-kexec leaves the autoscript on: boot-init finds a stock p1.     *)
recovery_reimage_p1 ==
    /\ kind = "ea" /\ root = "openHC" /\ run.step = "idle" /\ ncommands < MaxCommands
    /\ ncommands' = ncommands + 1 /\ root' = "stuck" /\ service' = FALSE
    /\ UNCHANGED <<kind, io, chip, driver, writing, run, armed, excused, told, ncuts>>

-----------------------------------------------------------------------------
Init ==
    /\ kind \in Kinds /\ io = "ours" /\ chip \in {"ours", "c4"}
    /\ driver = TRUE /\ writing = FALSE /\ service = TRUE /\ run = Idle /\ armed = FALSE /\ root = "openHC"
    /\ excused = {} /\ told = FALSE /\ ncommands = 0 /\ ncuts = 0

Next ==
    \/ \E c \in {"stock", "radio", "iomcu"}, k \in BOOLEAN : main(c, k)
    \/ restore_from_root \/ upload \/ mcu_reset \/ Bind \/ radio \/ ensure \/ stock
    \/ Reboot \/ Unplugged \/ KilledRestore
    \/ NoFlash \/ cmd_reimage_finalize \/ recovery_reimage_p1

Spec == Init /\ [][Next]_vars

-----------------------------------------------------------------------------
(* A box that boots Control4 again has no openHC firmware on its radio,     *)
(* unless that was asked for or no radio answered, and, on the HC-800, none *)
(* on its IO part, unless its driver was unbound when the command looked:   *)
(* cuts, failed steps, resets and reboots into openHC included.            *)
StockIsStock ==
    root = "stock" =>
        /\ chip = "ours" => "radio" \in excused
        /\ kind = "hc800" /\ io = "ours" => "io" \in excused
=============================================================================
