------------------------------- MODULE EaBoot -------------------------------
(***************************************************************************)
(* The EA boxes' boot chain and everything that rewrites it: the flasher's  *)
(* two-stage and one-shot installs over SSH, and `restore` on the box.      *)
(*                                                                          *)
(* CEFDK runs an autoscript from SPI flash that reads fixed byte counts of  *)
(* the eMMC into RAM and starts boot-init.  boot-init pivots to p1 when     *)
(* that holds openHC, lays a staged rootfs on it, or waits for stage 2.     *)
(* Two autoscripts exist: one in CEFDK's own slot, one behind an appended   *)
(* MFH item; they read different places.  Power may go, or a connection or  *)
(* a write fail, at any step: a region torn by that is left so, and a box   *)
(* whose operation failed stays up.  Sizes are small numbers, and an image  *)
(* larger than what the script reads is truncated.  A block of the SPI      *)
(* flash is rewritten in one step.                                          *)
(***************************************************************************)
EXTENDS Naturals, Sequences, SequencesExt

CONSTANTS
    Releases,   \* releases at hand
    Size,       \* Size[r]: what r's kernel and boot-init need
    SlotSize,   \* what a slot holds, and a slot-sized autoscript reads
    Staged,     \* releases whose rootfs.ext2.gz fits the gap before p1
    MtdKernels, \* releases whose kernel has the SPI flash driver
    Boxes,      \* kinds of box to start from
    MaxItems,   \* items the MFH table has room for
    MaxOps,     \* bound: operations begun
    MaxCuts     \* bound: power cuts

VARIABLES
    low, mid, gap,  \* eMMC at 0x400, at 8 MiB, at 16 MiB
    p1,             \* the root partition
    items, on,      \* autoscript items of the MFH; CEFDK's enable byte
    reads,          \* bytes each autoscript reads; 0: no script
    running, kern,  \* what runs, and the release its kernel is from
    job,            \* the operation in progress
    asked, wiped,   \* stock restores asked for; times p1 was reimaged
    left,           \* what an operation that ended early left unfinished
    ops, cuts

emmc == <<low, mid, gap>>
nor == <<items, on, reads>>
count == <<asked, wiped, left, ops, cuts>>
vars == <<emmc, p1, nor, running, kern, job, count>>

Img(what, rel) == [what |-> what, rel |-> rel]
Empty == Img("empty", "none")
Torn == Img("torn", "none")
Root(what, rel) == [what |-> what, rel |-> rel, flag |-> FALSE, sizes |-> 0]

Idle == [name |-> "idle", rel |-> "none", steps |-> <<>>, sizes |-> 0]

TypeOK ==
    /\ {low, mid, gap} \subseteq [what : {"empty", "torn", "kernel", "init", "rootfs"},
                                  rel : Releases \cup {"none"}]
    /\ p1.what \in {"stock", "openhc", "partial", "junk"} /\ p1.sizes \in 0..SlotSize
    /\ items \in Seq({"slot", "added"}) /\ Len(items) <= MaxItems
    /\ running \in {"off", "stock", "openhc", "bootinit", "serving", "dead"}
    /\ left \subseteq {"slot", "added", "p1"} /\ ops \in 0..MaxOps /\ cuts \in 0..MaxCuts

-----------------------------------------------------------------------------
(* What the programs ask the box.                                          *)

has_mtd == kern \in MtdKernels
script_slot_armed == "slot" \in ToSet(items) /\ on
script_item_present == items # <<>>
is_root_on_p1 == running \in {"stock", "openhc"}
recorded_autoscript_sizes == IF running = "openhc" THEN p1.sizes ELSE 0

(* Does the script of this kind read two whole images?                     *)
KernelAt(s) == IF s = "slot" THEN low ELSE mid
InitAt(s) == IF s = "slot" THEN mid ELSE gap
Whole(s) ==
    /\ KernelAt(s).what = "kernel" /\ Size[KernelAt(s).rel] <= reads[s]
    /\ InitAt(s).what = "init" /\ Size[InitAt(s).rel] <= reads[s]

Up == running \in {"stock", "openhc", "serving"} /\ job = Idle /\ ops < MaxOps

Begin(name, rel, steps, sizes) ==
    /\ Up /\ ops' = ops + 1
    /\ job' = [name |-> name, rel |-> rel, steps |-> steps, sizes |-> sizes]
    /\ UNCHANGED <<emmc, p1, nor, running, kern, asked, wiped, left, cuts>>

At(step) == job.steps # <<>> /\ Head(job.steps) = step
Done == job' = IF Len(job.steps) = 1 THEN Idle ELSE [job EXCEPT !.steps = Tail(@)]

-----------------------------------------------------------------------------
(* The flasher's operations: their checks, and the writes they go through. *)

Fits(r) == Size[r] <= SlotSize

ImagesFitScript(r) ==
    has_mtd \/ Size[r] <= recorded_autoscript_sizes

stage1_ram_installer(r) ==
    /\ Fits(r) /\ ImagesFitScript(r)
    /\ has_mtd => script_slot_armed
    /\ Begin("stage1", r,
             IF has_mtd THEN <<"low_kernel", "mid_init", "zero", "slot_script", "reboot">>
             ELSE <<"low_kernel", "mid_init", "zero", "reboot">>,
             IF has_mtd THEN SlotSize ELSE recorded_autoscript_sizes)

install_ramboot(r) ==
    /\ has_mtd /\ ~script_slot_armed /\ Fits(r)
    /\ Begin("stage1", r,
             IF Len(items) < MaxItems
             THEN <<"mid_kernel", "gap_init", "added_script", "append", "enable", "reboot">>
             ELSE <<"mid_kernel", "gap_init", "refuse">>, 0)

install_self(r) ==
    /\ has_mtd /\ script_slot_armed /\ Fits(r) /\ r \in Staged
    /\ Begin("self", r, <<"low_kernel", "mid_init", "gap_rootfs", "slot_script", "record",
                          "reboot">>, SlotSize)

stage2_write_rootfs(r, sizes) ==
    [name |-> "stage2", rel |-> r, sizes |-> sizes,
     steps |-> IF sizes > 0 THEN <<"p1_rootfs", "record", "reboot">>
               ELSE <<"p1_rootfs", "reboot">>]

(* stage2 on its own, and after stage 1 once the box answers again.        *)
rootfs(r) == ~is_root_on_p1 /\ Begin("stage2", r, stage2_write_rootfs(r, 0).steps, 0)
Stage2 ==
    /\ job.name = "wait" /\ running \in {"stock", "openhc", "serving"}
    /\ job' = IF is_root_on_p1 THEN Idle ELSE stage2_write_rootfs(job.rel, job.sizes)
    /\ UNCHANGED <<emmc, p1, nor, running, kern, count>>
NoLogin ==
    /\ job.name = "wait" /\ job' = Idle
    /\ UNCHANGED <<emmc, p1, nor, running, kern, count>>

-----------------------------------------------------------------------------
(* One write each.                                                         *)

dd_to_emmc ==
    /\ \/ At("low_kernel") /\ low' = Img("kernel", job.rel) /\ UNCHANGED <<mid, gap>>
       \/ At("mid_init") /\ mid' = Img("init", job.rel) /\ UNCHANGED <<low, gap>>
       \/ At("mid_kernel") /\ mid' = Img("kernel", job.rel) /\ UNCHANGED <<low, gap>>
       \/ At("gap_init") /\ gap' = Img("init", job.rel) /\ UNCHANGED <<low, mid>>
       \/ At("gap_rootfs") /\ gap' = Img("rootfs", job.rel) /\ UNCHANGED <<low, mid>>
       \/ At("zero") /\ gap' = Empty /\ UNCHANGED <<low, mid>>
    /\ left' = IF job.steps = <<"zero", "reboot">> THEN left \ {"slot"} ELSE left
    /\ Done
    /\ UNCHANGED <<p1, nor, running, kern, asked, wiped, ops, cuts>>

(* The slot's 0x800 bytes take in the place of an added script's (0x91200). *)
write_mtd ==
    /\ At("slot_script") /\ reads' = [slot |-> SlotSize, added |-> 0]
    /\ left' = left \ {"slot"}
    /\ Done
    /\ UNCHANGED <<emmc, p1, items, on, running, kern, asked, wiped, ops, cuts>>

(* Mutant: the appended script goes on reading what it read before.         *)
MutantScriptContent == reads' = [reads EXCEPT !.added = IF @ = 0 THEN Size[job.rel] ELSE @]
ScriptContent == reads' = [reads EXCEPT !.added = Size[job.rel]]

write_mtd_block ==
    /\ \/ At("added_script") /\ ScriptContent /\ left' = left \ {"added"} /\ UNCHANGED <<items, on>>
       \/ At("append") /\ items' = Append(items, "added") /\ UNCHANGED <<on, reads, left>>
       \/ At("enable") /\ on' = TRUE /\ UNCHANGED <<items, reads, left>>
    /\ Done
    /\ UNCHANGED <<emmc, p1, running, kern, asked, wiped, ops, cuts>>

(* The images are written by then, the script for them never is.           *)
Refuse ==
    /\ At("refuse") /\ job' = Idle /\ left' = left \cup {"added"}
    /\ UNCHANGED <<emmc, p1, nor, running, kern, asked, wiped, ops, cuts>>

WriteRootfs ==
    /\ At("p1_rootfs") /\ p1' = Root("openhc", job.rel) /\ left' = left \ {"p1"}
    /\ Done
    /\ UNCHANGED <<emmc, nor, running, kern, asked, wiped, ops, cuts>>

(* Stage 2 records on p1; install_self on the root it finds running.  A     *)
(* failure is passed over.                                                  *)
RecordSizes ==
    /\ At("record")
    /\ p1' \in {p1, [p1 EXCEPT !.sizes = job.sizes]}
    /\ Done
    /\ UNCHANGED <<emmc, nor, running, kern, count>>

Reboot ==
    /\ At("reboot") /\ running' = "off"
    /\ \/ job' = Idle
       \/ job.name = "stage1" /\ job' = [job EXCEPT !.name = "wait", !.steps = <<>>]
    /\ UNCHANGED <<emmc, p1, nor, kern, count>>

-----------------------------------------------------------------------------
(* restore, on the box.                                                    *)

Unscript == <<"unappend", "off">>

cmd_revert == running = "openhc" /\ has_mtd /\ Begin("revert", "none", Unscript, 0)
cmd_install ==
    /\ running = "openhc" /\ has_mtd /\ (script_item_present \/ Len(items) < MaxItems)
    /\ Begin("install", "none",
             IF script_item_present THEN <<"enable">> ELSE <<"append", "enable">>, 0)

(* p1 in use: a flag for boot-init, and a reboot unless told not to.  p1    *)
(* free: now.                                                               *)
Finalize ==
    [name |-> "stock", rel |-> "none", sizes |-> 0, steps |-> <<"reimage", "unappend", "off">>]
cmd_stock ==
    /\ Up /\ ops' = ops + 1
    /\ \/ /\ running = "openhc"
          /\ p1' = [p1 EXCEPT !.flag = TRUE] /\ running' \in {"off", "openhc"} /\ job' = job
       \/ /\ running = "serving" /\ has_mtd
          /\ job' = Finalize
          /\ UNCHANGED <<p1, running>>
    /\ asked' = asked + 1
    /\ UNCHANGED <<emmc, nor, kern, wiped, left, cuts>>

(* p1's file system is emptied and filled, so there has to be one.         *)
reimage_p1_direct ==
    /\ At("reimage")
    /\ \/ /\ p1.what # "junk"
          /\ p1' = Root("stock", "none") /\ wiped' = wiped + 1 /\ left' = left \ {"p1"}
          /\ Done
       \/ p1.what = "junk" /\ job' = Idle /\ UNCHANGED <<p1, wiped, left>>
    /\ UNCHANGED <<emmc, nor, running, kern, asked, ops, cuts>>

remove_script ==
    /\ At("unappend")
    /\ items' = IF items # <<>> /\ Last(items) = "added" THEN Front(items) ELSE items
    /\ Done
    /\ UNCHANGED <<emmc, p1, on, reads, running, kern, count>>

(* The last write; under boot-init the box then reboots.                   *)
set_script_enabled ==
    /\ At("off") /\ on' = FALSE
    /\ running' = IF running = "bootinit" THEN "off" ELSE running
    /\ Done
    /\ UNCHANGED <<emmc, p1, items, reads, kern, count>>

-----------------------------------------------------------------------------
(* An operation that ends early.                                           *)

(* What a write in progress may leave of its target.                       *)
Tear(r, steps) ==
    IF job.steps # <<>> /\ Head(job.steps) \in steps THEN {r, Torn} ELSE {r}

ImageWrites == {"low_kernel", "mid_init", "mid_kernel", "gap_init", "gap_rootfs", "zero",
                "slot_script", "added_script", "refuse"}
Interrupted ==
    /\ low' \in Tear(low, {"low_kernel"})
    /\ mid' \in Tear(mid, {"mid_init", "mid_kernel"})
    /\ gap' \in Tear(gap, {"gap_init", "gap_rootfs"})
    /\ p1' \in {p1} \cup (IF At("p1_rootfs") THEN {Root("junk", "none")} ELSE {})
                    \cup (IF At("reimage") THEN {Root("partial", "none")} ELSE {})
    /\ left' = left \cup (IF \E w \in ImageWrites : At(w) THEN {"slot", "added"} ELSE {})
                    \cup (IF p1' # p1 THEN {"p1"} ELSE {})

(* The connection drops or a write fails, and the operation returns an      *)
(* error.  boot-init does not pivot to what its restore has left half done. *)
Fails ==
    /\ job.steps # <<>> /\ Interrupted /\ job' = Idle
    /\ running' = IF running = "bootinit" /\ p1'.what # "openhc" THEN "serving" ELSE running
    /\ UNCHANGED <<nor, kern, asked, wiped, ops, cuts>>

PowerCut ==
    /\ cuts < MaxCuts /\ running # "off" /\ job.steps # <<>>
    /\ Interrupted /\ job' = Idle
    /\ cuts' = cuts + 1 /\ running' = "off"
    /\ UNCHANGED <<nor, kern, asked, wiped, ops>>

-----------------------------------------------------------------------------
(* Power, CEFDK, boot-init.                                                *)

(* gunzip takes whatever gzip member the gap starts with, torn or whole.   *)
StagedInstall ==
    CASE gap.what = "rootfs" -> {Root("openhc", gap.rel)}
      [] gap.what = "init" -> {Root("junk", "none")}
      [] gap.what = "torn" -> {p1, Root("junk", "none")}
      [] OTHER -> {p1}

(* Power goes, or somebody reboots the box, while no operation writes;      *)
(* boot-init may be laying the staged rootfs.                               *)
PowerCycle ==
    /\ running # "off" /\ job.steps = <<>> /\ running' = "off"
    /\ \/ UNCHANGED <<p1, left>>
       \/ /\ running = "bootinit" /\ p1.what # "openhc" /\ StagedInstall # {p1}
          /\ p1' = Root("junk", "none") /\ left' = left \cup {"p1"}
    /\ UNCHANGED <<emmc, nor, kern, job, asked, wiped, ops, cuts>>

Scripts == {s \in ToSet(items) : on /\ reads[s] > 0}

PowerOn ==
    /\ running = "off"
    /\ \/ /\ Scripts = {} /\ kern' = "stock"
          /\ running' = IF p1.what = "stock" THEN "stock" ELSE "dead"
       \/ \E s \in Scripts :
             /\ running' = IF Whole(s) THEN "bootinit" ELSE "dead"
             /\ kern' = IF Whole(s) THEN KernelAt(s).rel ELSE kern
    /\ UNCHANGED <<emmc, p1, nor, job, count>>

BootInstall ==
    /\ running = "bootinit" /\ p1.what # "openhc" /\ job.name # "stock"
    /\ p1' \in StagedInstall
    /\ left' = IF p1'.what = "openhc" THEN left \ {"p1"} ELSE left
    /\ running' = IF p1'.what = "openhc" THEN "openhc" ELSE "serving"
    /\ UNCHANGED <<emmc, nor, kern, job, asked, wiped, ops, cuts>>

Pivot ==
    /\ running = "bootinit" /\ p1.what = "openhc" /\ ~p1.flag /\ job.name # "stock"
    /\ running' = "openhc"
    /\ UNCHANGED <<emmc, p1, nor, kern, job, count>>

ConsumeFlag(mtd) == [p1 EXCEPT !.flag = FALSE]

(* Without mtd0 the request is dropped and openHC boots.                   *)
BootRestore ==
    /\ running = "bootinit" /\ p1.what = "openhc" /\ p1.flag /\ job = Idle
    /\ \/ /\ has_mtd /\ p1' = ConsumeFlag(TRUE)
          /\ job' = Finalize
          /\ UNCHANGED <<running, asked>>
       \/ p1' = ConsumeFlag(FALSE) /\ running' = "openhc" /\ asked' = asked - 1 /\ job' = job
    /\ UNCHANGED <<emmc, nor, kern, wiped, left, ops, cuts>>

-----------------------------------------------------------------------------
(* A stock box with CEFDK's slot, one without, and one whose slot script   *)
(* was sized to its image and whose kernel has no SPI flash driver.        *)
Init ==
    /\ \E b \in Boxes :
         /\ items = IF b = "plain" THEN <<>> ELSE <<"slot">>
         /\ on = (b # "plain")
         /\ reads = [slot |-> IF b = "old" THEN 1 ELSE 0, added |-> 0]
         /\ running = IF b = "old" THEN "openhc" ELSE "stock"
         /\ kern = IF b = "old" THEN "r0" ELSE "stock"
         /\ low = IF b = "old" THEN Img("kernel", "r0") ELSE Empty
         /\ mid = IF b = "old" THEN Img("init", "r0") ELSE Empty
         /\ p1 = IF b = "old" THEN [Root("openhc", "r0") EXCEPT !.sizes = 1]
                 ELSE Root("stock", "none")
    /\ gap = Empty /\ job = Idle
    /\ asked = 0 /\ wiped = 0 /\ left = {} /\ ops = 0 /\ cuts = 0

Next ==
    \/ \E r \in Releases :
          stage1_ram_installer(r) \/ install_ramboot(r) \/ install_self(r) \/ rootfs(r)
    \/ Stage2 \/ NoLogin \/ dd_to_emmc \/ write_mtd \/ write_mtd_block \/ Refuse
    \/ WriteRootfs \/ RecordSizes \/ Reboot
    \/ cmd_revert \/ cmd_install \/ cmd_stock \/ reimage_p1_direct \/ remove_script
    \/ set_script_enabled \/ Fails \/ PowerCut \/ PowerCycle \/ PowerOn \/ BootInstall \/ Pivot \/ BootRestore

Spec == Init /\ [][Next]_vars

-----------------------------------------------------------------------------
(* An autoscript that is the only one of its kind reads two whole images    *)
(* whenever no operation is rewriting them: a larger release can not be     *)
(* truncated by the reads an earlier install left, whatever was cut off or  *)
(* failed in between.  Two things are not so.  An operation that ended      *)
(* early (power, the connection, a write, or a full table that refuses      *)
(* install_ramboot once its images are written) leaves images for which     *)
(* there is no script, or no whole ones, until an install of that kind is   *)
(* through; and where install_ramboot wrote its kernel beside a disarmed    *)
(* slot, the slot's script reads that for its boot-init: a revert takes the *)
(* added item away, and an install puts the slot's back on.                 *)
BootsWhole ==
    \A s \in Scripts :
        /\ job.name \in {"idle", "wait"}
        /\ ToSet(items) = {s} /\ s \notin left
        /\ s = "slot" => mid.what # "kernel"
        => Whole(s)

(* p1 is reimaged at most once for each restore asked for: a request that   *)
(* was dropped, cut off or carried out is not carried out by a later boot.  *)
WipesAsAsked == wiped <= asked

(* Both, for the run that checks the flasher.                              *)
EaBoxSafe == BootsWhole /\ WipesAsAsked

(* No boot and no finished operation leaves p1 without a root file system,  *)
(* unless one ended early: boot-init writes p1 only from a staged rootfs.   *)
OnlyRootsOnP1 == left = {} /\ job.name \in {"idle", "wait"} => p1.what # "junk"
=============================================================================
