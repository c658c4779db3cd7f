--------------------------- MODULE Flasher_proof ---------------------------
(***************************************************************************)
(* Proofs about the flasher and the boxes it rewrites (MCFlasher): the      *)
(* window's jobs, an EA's boot chain, the boot over the network and the     *)
(* TFTP server that feeds it, each for every value of its constants.       *)
(***************************************************************************)
EXTENDS MCFlasher, Hc800Boot_proof, Integers, FiniteSetTheorems, SequenceTheorems, TLAPS

-----------------------------------------------------------------------------
(* The window: while an install runs it is the only one, and the phase says *)
(* that one is running; no button is offered in such a phase.               *)
Phased ==
    /\ \A i, j \in Gui!Installing : i = j
    /\ Gui!Installing # {} => phase \in {"Writing", "Restarting", "Finishing"}

LEMMA GuiSteps == Phased /\ [Gui!Next]_(Gui!vars) => Phased'
<1> SUFFICES ASSUME Phased, [Gui!Next]_(Gui!vars) PROVE Phased'
  OBVIOUS
<1>1. ASSUME NEW f \in BOOLEAN, Gui!start_install(f) PROVE Phased'
  BY <1>1 DEF Phased, Gui!start_install, Gui!Offered, Gui!spawn, Gui!Install,
      Gui!Installing, Gui!None
<1>2. ASSUME NEW j \in jobs, Gui!run_install(j) PROVE Phased'
  BY <1>2 DEF Phased, Gui!run_install, Gui!Installing
<1>3. ASSUME NEW j \in jobs, Gui!InstallDone(j) PROVE Phased'
  BY <1>3 DEF Phased, Gui!InstallDone, Gui!Installing, Gui!Ends
<1>4. CASE Gui!reset
  BY <1>4 DEF Phased, Gui!reset, Gui!Installing
<1>5. CASE Gui!scan \/ Gui!download_image \/ Gui!Next1 \/ Gui!Retry
  BY <1>5 DEF Phased, Gui!scan, Gui!download_image, Gui!Next1, Gui!Retry, Gui!connect,
      Gui!spawn, Gui!Installing, Gui!Scan, Gui!Download, Gui!Connect, Gui!Job
<1>6. CASE Gui!step_images \/ Gui!take_dropped_release \/ Gui!render
  BY <1>6 DEF Phased, Gui!step_images, Gui!take_dropped_release, Gui!render,
      Gui!load_release, Gui!spawn, Gui!Installing, Gui!Load, Gui!Job
<1>7. CASE \/ Gui!Probed \/ Gui!Downloaded \/ \E h \in Hosts : Gui!ConnectDone(h)
           \/ \E f \in Gui!Families \cup {Gui!None} : Gui!LoadDone(f)
  BY <1>7 DEF Phased, Gui!Probed, Gui!Downloaded, Gui!ConnectDone, Gui!LoadDone, Gui!Ends,
      Gui!Installing
<1>8. CASE \/ \E h \in Hosts : Gui!step_find(h)
           \/ \E f \in Gui!Families \cup {Gui!None} : Gui!step_check(f)
           \/ Gui!nav \/ UNCHANGED Gui!vars
  BY <1>8 DEF Phased, Gui!step_find, Gui!step_check, Gui!nav, Gui!vars, Gui!shared,
      Gui!app, Gui!Installing
<1> QED
  BY <1>1, <1>2, <1>3, <1>4, <1>5, <1>6, <1>7, <1>8 DEF Gui!Next, Gui!User

(* Two installs never run at once (gui/src/main.rs: the install button is   *)
(* drawn in its own phase only), for any controllers and any number of jobs *)
(* that set and clear `busy` in any order.                                  *)
THEOREM OneInstallAlways == Gui!Spec => []OneInstall
<1>1. Gui!Init => Phased
  BY DEF Gui!Init, Phased, Gui!Installing
<1>2. Phased => OneInstall
  <2> SUFFICES ASSUME Phased PROVE OneInstall
    OBVIOUS
  <2>1. Gui!Cardinality(Gui!Installing) = Cardinality(Gui!Installing)
    BY Zenon DEF Gui!Cardinality, Cardinality
  <2>2. CASE Gui!Installing = {}
    BY <2>1, <2>2, FS_EmptySet DEF OneInstall, Gui!OneInstall
  <2>3. CASE Gui!Installing # {}
    <3>1. PICK j \in Gui!Installing : TRUE
      BY <2>3
    <3>2. Gui!Installing = {j}
      BY <3>1 DEF Phased
    <3>3. Cardinality(Gui!Installing) = 1
      BY <3>2, FS_Singleton, Zenon
    <3> QED BY <2>1, <3>3 DEF OneInstall, Gui!OneInstall
  <2> QED BY <2>2, <2>3
<1> QED BY <1>1, <1>2, GuiSteps, PTL DEF Gui!Spec

-----------------------------------------------------------------------------
(* An EA: what is left to do of an operation, by what it may have rewritten *)
(* so far.  S writes the images of CEFDK's slot and its script, P the       *)
(* images alone, R those of an appended script.                             *)
SLow == {<<"low_kernel", "mid_init", "zero", "slot_script", "reboot">>,
         <<"low_kernel", "mid_init", "gap_rootfs", "slot_script", "record", "reboot">>}
SMid == {<<"mid_init", "zero", "slot_script", "reboot">>,
         <<"mid_init", "gap_rootfs", "slot_script", "record", "reboot">>}
SGap == {<<"zero", "slot_script", "reboot">>,
         <<"gap_rootfs", "slot_script", "record", "reboot">>}
SScript == {<<"slot_script", "reboot">>, <<"slot_script", "record", "reboot">>}
PLow == {<<"low_kernel", "mid_init", "zero", "reboot">>}
PMid == {<<"mid_init", "zero", "reboot">>}
PGap == {<<"zero", "reboot">>}
RMid == {<<"mid_kernel", "gap_init", "added_script", "append", "enable", "reboot">>,
         <<"mid_kernel", "gap_init", "refuse">>}
RGap == {<<"gap_init", "added_script", "append", "enable", "reboot">>,
         <<"gap_init", "refuse">>}
RScript == {<<"added_script", "append", "enable", "reboot">>}
RRefuse == {<<"refuse">>}
Appends == {<<"append", "enable", "reboot">>, <<"append", "enable">>}
Enables == {<<"enable", "reboot">>, <<"enable">>}
Roots == {<<"p1_rootfs", "record", "reboot">>, <<"p1_rootfs", "reboot">>}
Records == {<<"record", "reboot">>}
Reboots == {<<"reboot">>}
Reimages == {<<"reimage", "unappend", "off">>}
Unappends == {<<"unappend", "off">>}
Offs == {<<"off">>}
Ended == {<<>>}

OnSlot == SLow \cup SMid \cup SGap \cup SScript
OnImages == PLow \cup PMid \cup PGap
OnAdded == RMid \cup RGap \cup RScript \cup RRefuse
Rest ==
    Appends \cup Enables \cup Roots \cup Records \cup Reboots \cup Reimages \cup Unappends
    \cup Offs \cup Ended
AnySteps == OnSlot \cup OnImages \cup OnAdded \cup Rest

(* What is left after one more step.                                       *)
After(s) == IF Len(s) = 1 THEN <<>> ELSE Tail(s)

(* Every step of an operation is followed by the one its program says.     *)
LEMMA ImageSteps ==
  /\ \A s \in SLow : s # <<>> /\ Head(s) = "low_kernel" /\ After(s) \in SMid
  /\ \A s \in SMid : s # <<>> /\ Head(s) = "mid_init" /\ After(s) \in SGap
  /\ \A s \in SGap : s # <<>> /\ Head(s) \in {"zero", "gap_rootfs"} /\ After(s) \in SScript
  /\ \A s \in SScript : s # <<>> /\ Head(s) = "slot_script" /\ After(s) \in Records \cup Reboots
  /\ \A s \in PLow : s # <<>> /\ Head(s) = "low_kernel" /\ After(s) \in PMid
  /\ \A s \in PMid : s # <<>> /\ Head(s) = "mid_init" /\ After(s) \in PGap
  /\ \A s \in PGap : s # <<>> /\ Head(s) = "zero" /\ After(s) \in Reboots
<1>1. \A s \in SLow : s # <<>> /\ Head(s) = "low_kernel" /\ After(s) \in SMid
  <2>1. After(<<"low_kernel", "mid_init", "zero", "slot_script", "reboot">>) \in SMid
    BY DEF SMid, After
  <2>2. After(<<"low_kernel", "mid_init", "gap_rootfs", "slot_script", "record", "reboot">>)
         \in SMid
    BY DEF SMid, After
  <2>3. \A s \in SLow : s # <<>> /\ Head(s) = "low_kernel"
    BY DEF SLow
  <2>4. \A s \in SLow : After(s) \in SMid
    BY <2>1, <2>2, Zenon DEF SLow
  <2> QED BY <2>3, <2>4
<1>2. \A s \in SMid : s # <<>> /\ Head(s) = "mid_init" /\ After(s) \in SGap
  <2>1. After(<<"mid_init", "zero", "slot_script", "reboot">>) \in SGap
    BY DEF SGap, After
  <2>2. After(<<"mid_init", "gap_rootfs", "slot_script", "record", "reboot">>) \in SGap
    BY DEF SGap, After
  <2>3. \A s \in SMid : s # <<>> /\ Head(s) = "mid_init"
    BY DEF SMid
  <2>4. \A s \in SMid : After(s) \in SGap
    BY <2>1, <2>2, Zenon DEF SMid
  <2> QED BY <2>3, <2>4
<1>3. \A s \in SGap : s # <<>> /\ Head(s) \in {"zero", "gap_rootfs"} /\ After(s) \in SScript
  <2>1. After(<<"zero", "slot_script", "reboot">>) \in SScript
    BY DEF SScript, After
  <2>2. After(<<"gap_rootfs", "slot_script", "record", "reboot">>) \in SScript
    BY DEF SScript, After
  <2> QED BY <2>1, <2>2 DEF SGap
<1>4. \A s \in SScript :
         s # <<>> /\ Head(s) = "slot_script" /\ After(s) \in Records \cup Reboots
  <2>1. After(<<"slot_script", "reboot">>) \in Records \cup Reboots
    BY DEF Records, Reboots, After
  <2>2. After(<<"slot_script", "record", "reboot">>) \in Records \cup Reboots
    BY DEF Records, Reboots, After
  <2> QED BY <2>1, <2>2 DEF SScript
<1>5. \A s \in PLow : s # <<>> /\ Head(s) = "low_kernel" /\ After(s) \in PMid
  <2>1. After(<<"low_kernel", "mid_init", "zero", "reboot">>) \in PMid
    BY DEF PMid, After
  <2> QED BY <2>1 DEF PLow
<1>6. \A s \in PMid : s # <<>> /\ Head(s) = "mid_init" /\ After(s) \in PGap
  <2>1. After(<<"mid_init", "zero", "reboot">>) \in PGap
    BY DEF PGap, After
  <2> QED BY <2>1 DEF PMid
<1>7. \A s \in PGap : s # <<>> /\ Head(s) = "zero" /\ After(s) \in Reboots
  <2>1. After(<<"zero", "reboot">>) \in Reboots
    BY DEF Reboots, After
  <2> QED BY <2>1 DEF PGap
<1> QED BY <1>1, <1>2, <1>3, <1>4, <1>5, <1>6, <1>7

LEMMA AddedSteps ==
  /\ \A s \in RMid : s # <<>> /\ Head(s) = "mid_kernel" /\ After(s) \in RGap
  /\ \A s \in RGap : s # <<>> /\ Head(s) = "gap_init" /\ After(s) \in RScript \cup RRefuse
  /\ \A s \in RScript : s # <<>> /\ Head(s) = "added_script" /\ After(s) \in Appends
  /\ \A s \in RRefuse : s # <<>> /\ Head(s) = "refuse"
  /\ \A s \in Appends : s # <<>> /\ Head(s) = "append" /\ After(s) \in Enables
  /\ \A s \in Enables : s # <<>> /\ Head(s) = "enable" /\ After(s) \in Reboots \cup Ended
<1>1. \A s \in RMid : s # <<>> /\ Head(s) = "mid_kernel" /\ After(s) \in RGap
  <2>1. After(<<"mid_kernel", "gap_init", "added_script", "append", "enable", "reboot">>)
         \in RGap
    BY DEF RGap, After
  <2>2. After(<<"mid_kernel", "gap_init", "refuse">>) \in RGap
    BY DEF RGap, After
  <2> QED BY <2>1, <2>2 DEF RMid
<1>2. \A s \in RGap : s # <<>> /\ Head(s) = "gap_init" /\ After(s) \in RScript \cup RRefuse
  <2>1. After(<<"gap_init", "added_script", "append", "enable", "reboot">>)
         \in RScript \cup RRefuse
    BY DEF RScript, RRefuse, After
  <2>2. After(<<"gap_init", "refuse">>) \in RScript \cup RRefuse
    BY DEF RScript, RRefuse, After
  <2> QED BY <2>1, <2>2 DEF RGap
<1>3. \A s \in RScript : s # <<>> /\ Head(s) = "added_script" /\ After(s) \in Appends
  <2>1. After(<<"added_script", "append", "enable", "reboot">>) \in Appends
    BY DEF Appends, After
  <2> QED BY <2>1 DEF RScript
<1>4. \A s \in RRefuse : s # <<>> /\ Head(s) = "refuse"
  BY DEF RRefuse
<1>5. \A s \in Appends : s # <<>> /\ Head(s) = "append" /\ After(s) \in Enables
  <2>1. After(<<"append", "enable", "reboot">>) \in Enables
    BY DEF Enables, After
  <2>2. After(<<"append", "enable">>) \in Enables
    BY DEF Enables, After
  <2> QED BY <2>1, <2>2 DEF Appends
<1>6. \A s \in Enables : s # <<>> /\ Head(s) = "enable" /\ After(s) \in Reboots \cup Ended
  <2>1. After(<<"enable", "reboot">>) \in Reboots \cup Ended
    BY DEF Reboots, Ended, After
  <2>2. After(<<"enable">>) \in Reboots \cup Ended
    BY DEF Reboots, Ended, After
  <2> QED BY <2>1, <2>2 DEF Enables
<1> QED BY <1>1, <1>2, <1>3, <1>4, <1>5, <1>6

LEMMA RootSteps ==
  /\ \A s \in Roots : s # <<>> /\ Head(s) = "p1_rootfs" /\ After(s) \in Records \cup Reboots
  /\ \A s \in Records : s # <<>> /\ Head(s) = "record" /\ After(s) \in Reboots
  /\ \A s \in Reboots : s # <<>> /\ Head(s) = "reboot" /\ After(s) \in Ended
  /\ \A s \in Reimages : s # <<>> /\ Head(s) = "reimage" /\ After(s) \in Unappends
  /\ \A s \in Unappends : s # <<>> /\ Head(s) = "unappend" /\ After(s) \in Offs
  /\ \A s \in Offs : s # <<>> /\ Head(s) = "off" /\ After(s) \in Ended
<1>1. \A s \in Roots :
         s # <<>> /\ Head(s) = "p1_rootfs" /\ After(s) \in Records \cup Reboots
  <2>1. After(<<"p1_rootfs", "record", "reboot">>) \in Records \cup Reboots
    BY DEF Records, Reboots, After
  <2>2. After(<<"p1_rootfs", "reboot">>) \in Records \cup Reboots
    BY DEF Records, Reboots, After
  <2> QED BY <2>1, <2>2 DEF Roots
<1>2. \A s \in Records : s # <<>> /\ Head(s) = "record" /\ After(s) \in Reboots
  <2>1. After(<<"record", "reboot">>) \in Reboots
    BY DEF Reboots, After
  <2> QED BY <2>1 DEF Records
<1>3. \A s \in Reboots : s # <<>> /\ Head(s) = "reboot" /\ After(s) \in Ended
  <2>1. After(<<"reboot">>) \in Ended
    BY DEF Ended, After
  <2> QED BY <2>1 DEF Reboots
<1>4. \A s \in Reimages : s # <<>> /\ Head(s) = "reimage" /\ After(s) \in Unappends
  <2>1. After(<<"reimage", "unappend", "off">>) \in Unappends
    BY DEF Unappends, After
  <2> QED BY <2>1 DEF Reimages
<1>5. \A s \in Unappends : s # <<>> /\ Head(s) = "unappend" /\ After(s) \in Offs
  <2>1. After(<<"unappend", "off">>) \in Offs
    BY DEF Offs, After
  <2> QED BY <2>1 DEF Unappends
<1>6. \A s \in Offs : s # <<>> /\ Head(s) = "off" /\ After(s) \in Ended
  <2>1. After(<<"off">>) \in Ended
    BY DEF Ended, After
  <2> QED BY <2>1 DEF Offs
<1> QED BY <1>1, <1>2, <1>3, <1>4, <1>5, <1>6

-----------------------------------------------------------------------------
Pictures == [what : {"empty", "torn", "kernel", "init", "rootfs"},
             rel : Releases \cup {"none"}]
RootTypes ==
    [what : {"stock", "openhc", "partial", "junk"}, rel : Releases \cup {"none"},
     flag : BOOLEAN, sizes : Nat]
Names == {"idle", "wait", "stage1", "self", "stage2", "revert", "install", "stock"}
JobTypes == [name : Names, rel : Releases \cup {"none"}, steps : AnySteps, sizes : Nat]

EaTypes ==
    /\ low \in Pictures /\ mid \in Pictures /\ gap \in Pictures
    /\ p1 \in RootTypes
    /\ items \in Seq({"slot", "added"}) /\ on \in BOOLEAN
    /\ reads \in [slot : 0..SlotSize, added : Nat]
    /\ job \in JobTypes
    /\ asked \in Int /\ wiped \in Int /\ left \subseteq {"slot", "added", "p1"}

HasSlot == \E i \in DOMAIN items : items[i] = "slot"

(* Which images the operation under way has written, and that each fits     *)
(* what its script reads, or will read.  No size is ever recorded that the  *)
(* slot's script does not read.                                             *)
JobFits ==
    /\ job.name \in {"idle", "wait"} => job.steps = <<>>
    /\ job.steps \in OnSlot \cup OnImages \cup OnAdded => job.rel \in Releases
    /\ job.steps \in OnSlot =>
          HasSlot /\ Size[job.rel] <= SlotSize /\ job.sizes = SlotSize
    /\ job.steps \in OnImages => HasSlot /\ Size[job.rel] <= reads.slot
    /\ job.steps \notin OnSlot => job.sizes <= reads.slot
    /\ p1.sizes <= reads.slot
    /\ ~HasSlot => reads.slot = 0

Written ==
    /\ job.steps \in SMid \cup PMid \cup SGap \cup PGap \cup SScript =>
          low = Ea!Img("kernel", job.rel)
    /\ job.steps \in SGap \cup PGap \cup SScript => mid = Ea!Img("init", job.rel)
    /\ job.steps \in RGap \cup RScript \cup RRefuse => mid = Ea!Img("kernel", job.rel)
    /\ job.steps \in RScript \cup RRefuse => gap = Ea!Img("init", job.rel)

(* Each script reads whole images unless an operation is rewriting them, or *)
(* one that did ended early.                                                *)
SlotReads ==
    HasSlot /\ "slot" \notin left /\ reads.slot > 0 /\ job.steps \notin OnSlot \cup OnImages =>
        /\ low.what = "kernel" /\ Size[low.rel] <= reads.slot
        /\ mid.what # "kernel" => mid.what = "init" /\ Size[mid.rel] <= reads.slot
AddedReads ==
    ~HasSlot /\ "added" \notin left /\ reads.added > 0 /\ job.steps \notin OnAdded =>
        /\ mid.what = "kernel" /\ Size[mid.rel] <= reads.added
        /\ gap.what = "init" /\ Size[gap.rel] <= reads.added

(* Every restore asked for is still due at most once: on p1's flag, in the  *)
(* operation under way, or carried out.                                     *)
DueAsAsked ==
    /\ wiped <= asked
    /\ p1.flag \/ job.steps \in Reimages => wiped < asked
    /\ p1.flag /\ job.steps \in Reimages => wiped + 1 < asked

EaInv == EaTypes /\ JobFits /\ Written /\ SlotReads /\ AddedReads /\ DueAsAsked

(* The sets of steps are apart: the first step tells them from each other.  *)
LEMMA StepsApart ==
  ASSUME NEW s \in AnySteps, s # <<>>
  PROVE  /\ Head(s) = "low_kernel" => s \in SLow \cup PLow
         /\ Head(s) = "mid_init" => s \in SMid \cup PMid
         /\ Head(s) \in {"zero", "gap_rootfs"} => s \in SGap \cup PGap
         /\ Head(s) = "slot_script" => s \in SScript
         /\ Head(s) = "mid_kernel" => s \in RMid
         /\ Head(s) = "gap_init" => s \in RGap
         /\ Head(s) = "added_script" => s \in RScript
         /\ Head(s) = "refuse" => s \in RRefuse
         /\ Head(s) = "append" => s \in Appends
         /\ Head(s) = "enable" => s \in Enables
         /\ Head(s) = "p1_rootfs" => s \in Roots
         /\ Head(s) = "record" => s \in Records
         /\ Head(s) = "reboot" => s \in Reboots
         /\ Head(s) = "reimage" => s \in Reimages
         /\ Head(s) = "unappend" => s \in Unappends
         /\ Head(s) = "off" => s \in Offs
  BY ImageSteps, AddedSteps, RootSteps
     DEF AnySteps, OnSlot, OnImages, OnAdded, Rest, Ended

LEMMA StepsDistinct ==
  /\ \A s \in Rest : s \notin OnSlot \cup OnImages \cup OnAdded
  /\ \A s \in OnAdded : s \notin OnSlot \cup OnImages
  /\ \A s \in SMid \cup SGap \cup SScript : s \in OnSlot
  /\ \A s \in OnImages : s \notin OnSlot
  BY ImageSteps, AddedSteps, RootSteps DEF OnSlot, OnImages, OnAdded, Rest, Ended

LEMMA NoSteps == <<>> \in AnySteps /\ <<>> \in Rest /\ <<>> \in Ended /\ <<>> \notin Reimages
  BY RootSteps DEF AnySteps, Rest, Ended

(* Where a step leads, and what was written in the step before.            *)
LEMMA AfterSteps ==
  ASSUME NEW s \in AnySteps, s # <<>>, Head(s) # "refuse"
  PROVE  /\ After(s) \in AnySteps /\ After(s) \notin Reimages
         /\ After(s) \in OnSlot => s \in OnSlot
         /\ After(s) \in OnImages => s \in OnImages
         /\ After(s) \in OnAdded => s \in OnAdded
         /\ After(s) \in SMid \cup PMid => Head(s) = "low_kernel"
         /\ After(s) \in SGap \cup PGap => s \in SMid \cup PMid
         /\ After(s) \in SScript => s \in SGap
         /\ After(s) \in RGap => s \in RMid
         /\ After(s) \in RScript \cup RRefuse => s \in RGap
  BY ImageSteps, AddedSteps, RootSteps
     DEF AnySteps, OnSlot, OnImages, OnAdded, Rest, Ended

(* One step of an operation done: the rest of it, or nothing.              *)
LEMMA EaDone ==
  ASSUME EaTypes, job.steps # <<>>, Head(job.steps) # "refuse", Ea!Done
  PROVE  /\ job' \in JobTypes /\ job'.steps = After(job.steps)
         /\ \/ job' = Ea!Idle
            \/ job'.name = job.name /\ job'.rel = job.rel /\ job'.sizes = job.sizes
<1>1. job \in JobTypes /\ job.steps \in AnySteps
  BY DEF EaTypes, JobTypes
<1>2. After(job.steps) \in AnySteps
  BY <1>1, AfterSteps
<1>3. CASE Len(job.steps) = 1
  <2>1. job' = Ea!Idle /\ After(job.steps) = <<>>
    BY <1>3 DEF Ea!Done, After
  <2>2. Ea!Idle \in JobTypes /\ Ea!Idle.steps = <<>>
    BY NoSteps DEF Ea!Idle, JobTypes, Names
  <2> QED BY <2>1, <2>2
<1>4. CASE Len(job.steps) # 1
  BY <1>4, <1>1, <1>2 DEF Ea!Done, After, JobTypes
<1> QED BY <1>3, <1>4

(* The rest of an operation fits as the whole of it did, whatever the step  *)
(* wrote, as long as it did not lower what the slot's script reads.         *)
LEMMA EaDoneFits ==
  ASSUME EaInv, job.steps # <<>>, Head(job.steps) # "refuse", Ea!Done,
         reads'.slot \in Nat, reads'.slot >= reads.slot, HasSlot' <=> HasSlot,
         job.steps \in SScript => reads'.slot = SlotSize,
         ~HasSlot => reads'.slot = 0,
         p1'.sizes \in {p1.sizes, 0} \/ p1'.sizes <= reads'.slot
  PROVE  JobFits'
<1>1. /\ job \in JobTypes /\ job.steps \in AnySteps /\ SlotSize \in Nat
      /\ reads.slot \in Nat /\ p1.sizes \in Nat /\ job.sizes \in Nat
      /\ Size \in [Releases -> Nat \ {0}]
  BY EaConstants DEF EaInv, EaTypes, JobTypes, RootTypes
<1>2. /\ job'.steps = After(job.steps)
      /\ \/ job' = Ea!Idle
         \/ job'.name = job.name /\ job'.rel = job.rel /\ job'.sizes = job.sizes
  BY EaDone DEF EaInv
<1>3. CASE job' = Ea!Idle
  BY <1>1, <1>3, NoSteps, StepsDistinct DEF EaInv, JobFits, Ea!Idle
<1>4. CASE job'.name = job.name /\ job'.rel = job.rel /\ job'.sizes = job.sizes
  <2>1. job'.name \in {"idle", "wait"} => job'.steps = <<>>
    BY <1>4 DEF EaInv, JobFits
  <2>2. job'.steps \in OnSlot \cup OnImages \cup OnAdded => job'.rel \in Releases
    BY <1>1, <1>2, <1>4, AfterSteps DEF EaInv, JobFits
  <2>3. job'.steps \in OnSlot =>
           HasSlot' /\ Size[job'.rel] <= SlotSize /\ job'.sizes = SlotSize
    BY <1>1, <1>2, <1>4, AfterSteps DEF EaInv, JobFits
  <2>4. job'.steps \in OnImages => HasSlot' /\ Size[job'.rel] <= reads'.slot
    BY <1>1, <1>2, <1>4, AfterSteps DEF EaInv, JobFits
  <2>5. job'.steps \notin OnSlot => job'.sizes <= reads'.slot
    <3>1. CASE job.steps \notin OnSlot
      BY <1>1, <1>4, <3>1 DEF EaInv, JobFits
    <3>2. CASE job.steps \in OnSlot
      <4>1. job'.steps \notin OnSlot => job.steps \in SScript
        BY <1>2, <3>2, ImageSteps DEF OnSlot
      <4> QED BY <1>1, <1>4, <3>2, <4>1 DEF EaInv, JobFits
    <3> QED BY <3>1, <3>2
  <2>6. p1'.sizes <= reads'.slot /\ (~HasSlot' => reads'.slot = 0)
    BY <1>1 DEF EaInv, JobFits
  <2> QED BY <2>1, <2>2, <2>3, <2>4, <2>5, <2>6 DEF JobFits
<1> QED BY <1>2, <1>3, <1>4

LEMMA ImagesWritten == EaInv /\ Ea!dd_to_emmc => EaInv'
<1> SUFFICES ASSUME EaInv, Ea!dd_to_emmc PROVE EaInv'
  OBVIOUS
<1>1. /\ job.steps # <<>> /\ job.steps \in AnySteps /\ Ea!Done
      /\ p1' = p1 /\ items' = items /\ on' = on /\ reads' = reads
      /\ asked' = asked /\ wiped' = wiped
      /\ left' = left \/ (left' = left \ {"slot"} /\ job.steps \in PGap)
  BY DEF EaInv, EaTypes, JobTypes, Ea!dd_to_emmc, Ea!At, Ea!nor, PGap
<1>2. \/ Head(job.steps) = "low_kernel" /\ low' = Ea!Img("kernel", job.rel)
         /\ mid' = mid /\ gap' = gap
      \/ Head(job.steps) = "mid_init" /\ mid' = Ea!Img("init", job.rel)
         /\ low' = low /\ gap' = gap
      \/ Head(job.steps) = "mid_kernel" /\ mid' = Ea!Img("kernel", job.rel)
         /\ low' = low /\ gap' = gap
      \/ Head(job.steps) = "gap_init" /\ gap' = Ea!Img("init", job.rel)
         /\ low' = low /\ mid' = mid
      \/ Head(job.steps) \in {"zero", "gap_rootfs"} /\ low' = low /\ mid' = mid
         /\ gap' \in {Ea!Img("rootfs", job.rel), Ea!Empty}
  BY DEF Ea!dd_to_emmc, Ea!At
<1>3. /\ job' \in JobTypes /\ job'.steps = After(job.steps)
      /\ \/ job' = Ea!Idle
         \/ job'.name = job.name /\ job'.rel = job.rel /\ job'.sizes = job.sizes
  BY <1>1, <1>2, EaDone DEF EaInv
<1>4. EaTypes'
  <2>1. /\ left' \subseteq {"slot", "added", "p1"} /\ job.rel \in Releases \cup {"none"}
        /\ low \in Pictures /\ mid \in Pictures /\ gap \in Pictures
    BY <1>1 DEF EaInv, EaTypes, JobTypes
  <2>2. \A w \in {"kernel", "init", "rootfs"} : Ea!Img(w, job.rel) \in Pictures
    BY <2>1 DEF Pictures, Ea!Img
  <2>3. low' \in Pictures /\ mid' \in Pictures /\ gap' \in Pictures
    <3>1. Ea!Empty \in Pictures
      BY DEF Pictures, Ea!Empty, Ea!Img
    <3> QED BY <1>2, <2>1, <2>2, <3>1
  <2> QED BY <1>1, <1>3, <2>1, <2>3 DEF EaInv, EaTypes
<1>5. JobFits'
  <2>1. reads.slot \in Nat
    BY EaConstants DEF EaInv, EaTypes
  <2>2. Head(job.steps) \notin {"refuse", "slot_script"}
    BY <1>2
  <2>3. job.steps \notin SScript
    BY <2>2, ImageSteps
  <2> QED BY <1>1, <2>1, <2>2, <2>3, EaDoneFits DEF EaInv, JobFits, HasSlot
<1> DEFINE s == job.steps
           t == job'.steps
<1>6. /\ Head(s) = "low_kernel" => s \in SLow \cup PLow
      /\ Head(s) = "mid_init" => s \in SMid \cup PMid
      /\ Head(s) \in {"zero", "gap_rootfs"} => s \in SGap \cup PGap
      /\ Head(s) = "mid_kernel" => s \in RMid
      /\ Head(s) = "gap_init" => s \in RGap
  BY <1>1, StepsApart
<1>7. job' = Ea!Idle => t = <<>>
  BY DEF Ea!Idle
<1>8. Written'
  <2>1. t \in SMid \cup PMid \cup SGap \cup PGap \cup SScript \cup RGap \cup RScript \cup RRefuse
           => t # <<>>
    BY ImageSteps, AddedSteps
  <2>2. t \in SMid \cup PMid \cup SGap \cup PGap \cup SScript => low' = Ea!Img("kernel", job'.rel)
    BY <1>1, <1>2, <1>3, <1>6, <1>7, <2>1, AfterSteps, ImageSteps, AddedSteps DEF EaInv, Written
  <2>3. t \in SGap \cup PGap \cup SScript => mid' = Ea!Img("init", job'.rel)
    BY <1>1, <1>2, <1>3, <1>6, <1>7, <2>1, AfterSteps, ImageSteps, AddedSteps DEF EaInv, Written
  <2>4. t \in RGap \cup RScript \cup RRefuse => mid' = Ea!Img("kernel", job'.rel)
    BY <1>1, <1>2, <1>3, <1>6, <1>7, <2>1, AfterSteps, ImageSteps, AddedSteps DEF EaInv, Written
  <2>5. t \in RScript \cup RRefuse => gap' = Ea!Img("init", job'.rel)
    BY <1>1, <1>2, <1>3, <1>6, <1>7, <2>1, AfterSteps, ImageSteps, AddedSteps DEF EaInv, Written
  <2> QED BY <2>2, <2>3, <2>4, <2>5 DEF Written
<1>9. SlotReads'
  <2> SUFFICES ASSUME HasSlot, "slot" \notin left', reads.slot > 0, t \notin OnSlot \cup OnImages
               PROVE  /\ low'.what = "kernel" /\ Size[low'.rel] <= reads.slot
                      /\ mid'.what # "kernel" => mid'.what = "init" /\ Size[mid'.rel] <= reads.slot
    BY <1>1 DEF SlotReads, HasSlot
  <2>1. CASE s \in OnAdded
    <3>1. s \notin PGap
      BY <2>1, StepsDistinct DEF OnImages
    <3>2. "slot" \notin left
      BY <1>1, <3>1
    <3> QED BY <1>1, <1>2, <2>1, <3>2, StepsDistinct, AddedSteps, ImageSteps, <1>6
       DEF EaInv, SlotReads, Ea!Img, OnAdded
  <2>2. CASE s \in OnSlot \cup OnImages
    <3>1. s \in PGap
      BY <1>1, <1>2, <1>3, <2>2, ImageSteps DEF OnSlot, OnImages
    <3>2. low' = low /\ mid' = mid /\ low = Ea!Img("kernel", job.rel)
          /\ mid = Ea!Img("init", job.rel) /\ Size[job.rel] <= reads.slot
      BY <1>2, <3>1, ImageSteps DEF EaInv, Written, JobFits, OnImages
    <3> QED BY <3>2 DEF Ea!Img
  <2> QED BY <1>2, <1>6, <2>1, <2>2 DEF OnAdded, OnSlot, OnImages
<1>10. AddedReads'
  <2>1. s \in OnSlot \cup OnImages => HasSlot
    BY DEF EaInv, JobFits
  <2>2. s \in OnAdded => t \in OnAdded
    BY <1>1, <1>2, <1>3, <1>6, AddedSteps, ImageSteps DEF OnAdded
  <2>3. s \in OnSlot \cup OnImages \cup OnAdded
    BY <1>2, <1>6 DEF OnSlot, OnImages, OnAdded
  <2>4. ~HasSlot' => t \in OnAdded
    BY <1>1, <2>1, <2>2, <2>3 DEF HasSlot
  <2> QED BY <2>4 DEF AddedReads
<1>11. DueAsAsked'
  <2>1. t \notin Reimages /\ s \notin Reimages
    BY <1>1, <1>2, <1>3, AfterSteps, RootSteps
  <2> QED BY <1>1, <2>1 DEF EaInv, DueAsAsked
<1> QED BY <1>4, <1>5, <1>8, <1>9, <1>10, <1>11 DEF EaInv

(* What an operation finds as it begins is all the invariant asks of it.   *)
LEMMA EaBegin ==
  ASSUME EaInv, NEW STATE name, name \in Names \ {"idle", "wait"},
         NEW STATE rel0, rel0 \in Releases \cup {"none"},
         NEW STATE sizes, sizes \in Nat, NEW STATE steps,
         steps \in SLow \cup PLow \cup RMid \cup Roots \cup Unappends \cup Appends \cup Enables,
         steps \in OnSlot \cup OnImages \cup OnAdded => rel0 \in Releases,
         steps \in OnSlot => HasSlot /\ Size[rel0] <= SlotSize /\ sizes = SlotSize,
         steps \in OnImages => HasSlot /\ Size[rel0] <= reads.slot,
         steps \notin OnSlot => sizes <= reads.slot,
         Ea!Begin(name, rel0, steps, sizes)
  PROVE  EaInv'
<1>1. /\ job = Ea!Idle /\ job.steps = <<>>
      /\ job' = [name |-> name, rel |-> rel0, steps |-> steps, sizes |-> sizes]
      /\ low' = low /\ mid' = mid /\ gap' = gap /\ p1' = p1 /\ items' = items
      /\ on' = on /\ reads' = reads /\ asked' = asked /\ wiped' = wiped /\ left' = left
  BY DEF Ea!Begin, Ea!Up, Ea!Idle, Ea!emmc, Ea!nor
<1>2. steps \in AnySteps /\ steps # <<>> /\ steps \notin Reimages
  BY ImageSteps, AddedSteps, RootSteps DEF AnySteps, OnSlot, OnImages, OnAdded, Rest
<1>3. /\ job'.name = name /\ job'.rel = rel0 /\ job'.steps = steps /\ job'.sizes = sizes
  BY <1>1
<1>4. EaTypes'
  BY <1>1, <1>2 DEF EaInv, EaTypes, JobTypes
<1>5. JobFits'
  BY <1>1, <1>3 DEF EaInv, JobFits, HasSlot
<1>6. Written'
  <2>1. steps \notin SMid \cup PMid \cup SGap \cup PGap \cup SScript \cup RGap \cup RScript
                     \cup RRefuse
    BY ImageSteps, AddedSteps, RootSteps
  <2> QED BY <1>3, <2>1 DEF Written
<1>7. job.steps \notin OnSlot \cup OnImages \cup OnAdded \cup Reimages
  BY <1>1, NoSteps, StepsDistinct
<1>8. SlotReads' /\ AddedReads'
  BY <1>1, <1>7 DEF EaInv, SlotReads, AddedReads, HasSlot
<1>9. DueAsAsked'
  BY <1>1, <1>2, <1>3, <1>7 DEF EaInv, DueAsAsked
<1> QED BY <1>4, <1>5, <1>6, <1>8, <1>9 DEF EaInv

LEMMA SlotArmed == Ea!script_slot_armed => HasSlot
  BY DEF Ea!script_slot_armed, Ea!ToSet, HasSlot

(* The operations an operator begins.                                      *)
LEMMA EaOperations ==
  ASSUME EaInv, NEW r \in Releases,
         \/ Ea!stage1_ram_installer(r) \/ Ea!install_ramboot(r) \/ Ea!install_self(r)
         \/ Ea!rootfs(r)
  PROVE  EaInv'
<1>1. /\ SlotSize \in Nat \ {0} /\ Size[r] \in Nat \ {0} /\ reads.slot \in 0..SlotSize
      /\ p1.sizes \in Nat /\ p1.sizes <= reads.slot /\ (reads.slot > 0 => HasSlot)
  BY EaConstants DEF EaInv, EaTypes, JobFits, RootTypes
<1>2. CASE Ea!stage1_ram_installer(r)
  <2>1. CASE Ea!has_mtd
    <3>1. Ea!Begin("stage1", r,
             <<"low_kernel", "mid_init", "zero", "slot_script", "reboot">>, SlotSize)
      BY <1>2, <2>1 DEF Ea!stage1_ram_installer
    <3>2. <<"low_kernel", "mid_init", "zero", "slot_script", "reboot">> \in SLow
      BY DEF SLow
    <3>3. HasSlot /\ Size[r] <= SlotSize
      BY <1>2, <2>1, SlotArmed DEF Ea!stage1_ram_installer, Ea!Fits
    <3>4. \A s \in SLow : s \in OnSlot /\ s \notin OnImages
      BY StepsDistinct DEF OnSlot, OnImages
    <3> QED BY <1>1, <3>1, <3>2, <3>3, <3>4, EaBegin DEF Names
  <2>2. CASE ~Ea!has_mtd
    <3> DEFINE sz == Ea!recorded_autoscript_sizes
    <3>1. Ea!Begin("stage1", r, <<"low_kernel", "mid_init", "zero", "reboot">>, sz)
      BY <1>2, <2>2 DEF Ea!stage1_ram_installer
    <3>2. <<"low_kernel", "mid_init", "zero", "reboot">> \in PLow
      BY DEF PLow
    <3>3. sz \in Nat /\ sz <= reads.slot /\ Size[r] <= sz
      BY <1>1, <1>2, <2>2
         DEF Ea!stage1_ram_installer, Ea!ImagesFitScript, Ea!recorded_autoscript_sizes
    <3>4. \A s \in PLow : s \in OnImages /\ s \notin OnSlot
      BY StepsDistinct DEF OnSlot, OnImages
    <3>5. HasSlot /\ Size[r] <= reads.slot
      BY <1>1, <3>3
    <3> HIDE DEF sz
    <3> QED BY <1>1, <3>1, <3>2, <3>3, <3>4, <3>5, EaBegin DEF Names
  <2> QED BY <2>1, <2>2
<1>3. CASE Ea!install_ramboot(r)
  <2>1. \A s \in RMid : s \in OnAdded /\ s \notin OnSlot \cup OnImages
    BY StepsDistinct DEF OnAdded
  <2>2. PICK s \in RMid : Ea!Begin("stage1", r, s, 0)
    BY <1>3 DEF Ea!install_ramboot, RMid
  <2> QED BY <1>1, <2>1, <2>2, EaBegin DEF Names
<1>4. CASE Ea!install_self(r)
  <2> DEFINE s == <<"low_kernel", "mid_init", "gap_rootfs", "slot_script", "record", "reboot">>
  <2>1. Ea!Begin("self", r, s, SlotSize) /\ HasSlot /\ Size[r] <= SlotSize
    BY <1>4, SlotArmed DEF Ea!install_self, Ea!Fits
  <2>2. s \in SLow
    BY DEF SLow
  <2>3. \A q \in SLow : q \in OnSlot /\ q \notin OnImages
    BY StepsDistinct DEF OnSlot, OnImages
  <2> HIDE DEF s
  <2> QED BY <1>1, <2>1, <2>2, <2>3, EaBegin DEF Names
<1>5. CASE Ea!rootfs(r)
  <2>1. PICK s \in Roots : Ea!Begin("stage2", r, s, 0)
    BY <1>5 DEF Ea!rootfs, Ea!stage2_write_rootfs, Roots
  <2>2. s \notin OnSlot \cup OnImages \cup OnAdded
    BY StepsDistinct DEF Rest
  <2> QED BY <1>1, <2>1, <2>2, EaBegin DEF Names
<1> QED BY <1>2, <1>3, <1>4, <1>5

(* A step that touches no image, no script and no item of the other kind.  *)
LEMMA EaRest ==
  ASSUME EaInv, job.steps \in Rest, job'.steps \in Rest, low' = low, mid' = mid, gap' = gap,
         reads' = reads, HasSlot' <=> HasSlot, "slot" \in left' <=> "slot" \in left,
         "added" \in left' <=> "added" \in left
  PROVE  Written' /\ SlotReads' /\ AddedReads'
<1>1. /\ job.steps \notin OnSlot \cup OnImages \cup OnAdded
      /\ job'.steps \notin OnSlot \cup OnImages \cup OnAdded
  BY StepsDistinct
<1>2. Written'
  BY <1>1 DEF Written, OnSlot, OnImages, OnAdded
<1> QED BY <1>1, <1>2 DEF EaInv, SlotReads, AddedReads

(* The job given up, or none.                                              *)
LEMMA EaIdle ==
  ASSUME EaInv, job' = Ea!Idle, reads' = reads, items' = items, p1'.sizes \in {p1.sizes, 0}
  PROVE  JobFits' /\ job'.steps = <<>> /\ job' \in JobTypes
<1>1. job'.steps = <<>> /\ job'.name = "idle" /\ job'.sizes = 0
  BY DEF Ea!Idle
<1>2. <<>> \notin OnSlot \cup OnImages \cup OnAdded
  BY NoSteps, StepsDistinct
<1>3. reads.slot \in Nat /\ p1.sizes \in Nat /\ p1.sizes <= reads.slot
  BY EaConstants DEF EaInv, EaTypes, JobFits, RootTypes
<1>4. Ea!Idle \in JobTypes
  BY NoSteps DEF Ea!Idle, JobTypes, Names
<1> QED BY <1>1, <1>2, <1>3, <1>4 DEF EaInv, JobFits, HasSlot

(* The slot's script: it reads SlotSize from now on.                       *)
LEMMA SlotWritten == EaInv /\ Ea!write_mtd => EaInv'
<1> SUFFICES ASSUME EaInv, Ea!write_mtd PROVE EaInv'
  OBVIOUS
<1>1. /\ job.steps # <<>> /\ job.steps \in AnySteps /\ Ea!Done
      /\ Head(job.steps) = "slot_script" /\ reads' = [slot |-> SlotSize, added |-> 0]
      /\ low' = low /\ mid' = mid /\ gap' = gap /\ p1' = p1 /\ items' = items /\ on' = on
      /\ asked' = asked /\ wiped' = wiped /\ left' = left \ {"slot"}
  BY DEF EaInv, EaTypes, JobTypes, Ea!write_mtd, Ea!At, Ea!emmc, Ea!count
<1>2. /\ job' \in JobTypes /\ job'.steps = After(job.steps)
      /\ \/ job' = Ea!Idle
         \/ job'.name = job.name /\ job'.rel = job.rel /\ job'.sizes = job.sizes
  BY <1>1, EaDone DEF EaInv
<1>3. /\ job.steps \in SScript /\ job.steps \in OnSlot /\ job'.steps \in Rest
  BY <1>1, <1>2, StepsApart, ImageSteps DEF OnSlot, Rest
<1>4. /\ reads.slot \in 0..SlotSize /\ SlotSize \in Nat \ {0}
      /\ reads' \in [slot : 0..SlotSize, added : Nat]
      /\ reads'.slot = SlotSize
  BY <1>1, EaConstants DEF EaInv, EaTypes
<1>5. HasSlot /\ HasSlot' /\ Size[job.rel] <= SlotSize
  BY <1>1, <1>3 DEF EaInv, JobFits, HasSlot
<1>6. EaTypes'
  BY <1>1, <1>2, <1>4 DEF EaInv, EaTypes
<1>7. JobFits'
  BY <1>1, <1>4, <1>5, EaDoneFits DEF EaInv
<1>8. job'.steps \notin OnSlot \cup OnImages \cup OnAdded
  BY <1>3, StepsDistinct
<1>9. Written' /\ AddedReads'
  BY <1>5, <1>8 DEF Written, AddedReads, OnSlot, OnImages, OnAdded
<1>10. low = Ea!Img("kernel", job.rel) /\ mid = Ea!Img("init", job.rel)
  BY <1>3 DEF EaInv, Written
<1>11. SlotReads'
  BY <1>1, <1>4, <1>5, <1>10 DEF SlotReads, Ea!Img
<1>12. DueAsAsked'
  <2>1. job.steps \notin Reimages /\ job'.steps \notin Reimages
    BY <1>1, <1>2, <1>3, AfterSteps, RootSteps, ImageSteps
  <2> QED BY <1>1, <2>1 DEF EaInv, DueAsAsked
<1> QED BY <1>6, <1>7, <1>9, <1>11, <1>12 DEF EaInv

(* The appended script, its item, and CEFDK's enable byte.                 *)
LEMMA AddedWritten == EaInv /\ Ea!write_mtd_block => EaInv'
<1> SUFFICES ASSUME EaInv, Ea!write_mtd_block PROVE EaInv'
  OBVIOUS
<1>1. /\ job.steps # <<>> /\ job.steps \in AnySteps /\ Ea!Done
      /\ low' = low /\ mid' = mid /\ gap' = gap /\ p1' = p1
      /\ asked' = asked /\ wiped' = wiped
  BY DEF EaInv, EaTypes, JobTypes, Ea!write_mtd_block, Ea!At, Ea!emmc
<1>2. \/ /\ Head(job.steps) = "added_script" /\ left' = left \ {"added"}
         /\ reads' = [reads EXCEPT !.added = Size[job.rel]] /\ items' = items /\ on' = on
      \/ /\ Head(job.steps) = "append" /\ items' = Append(items, "added")
         /\ on' = on /\ reads' = reads /\ left' = left
      \/ /\ Head(job.steps) = "enable" /\ on' = TRUE
         /\ items' = items /\ reads' = reads /\ left' = left
  BY DEF Ea!write_mtd_block, Ea!At, Ea!ScriptContent
<1>3. /\ job' \in JobTypes /\ job'.steps = After(job.steps)
      /\ \/ job' = Ea!Idle
         \/ job'.name = job.name /\ job'.rel = job.rel /\ job'.sizes = job.sizes
  BY <1>1, <1>2, EaDone DEF EaInv
<1>4. job'.steps \in Rest /\ job.steps \in RScript \cup Appends \cup Enables
  BY <1>1, <1>2, <1>3, StepsApart, AddedSteps DEF Rest
<1>5. /\ job.steps \notin OnSlot \cup OnImages
      /\ job'.steps \notin OnSlot \cup OnImages \cup OnAdded
  BY <1>4, StepsDistinct DEF Rest, OnAdded
<1>6. /\ job.steps \in RScript => job.steps \in OnAdded /\ job.rel \in Releases
      /\ Head(job.steps) = "added_script" => job.steps \in RScript
      /\ job.steps \notin RScript => job.steps \in Rest
  BY <1>1, <1>4, StepsApart DEF OnAdded, EaInv, JobFits, Rest
<1>7. /\ items' \in Seq({"slot", "added"}) /\ on' \in BOOLEAN /\ left' \subseteq {"slot", "added", "p1"}
      /\ ("slot" \in left' <=> "slot" \in left)
      /\ HasSlot' <=> HasSlot
  <2>1. items \in Seq({"slot", "added"}) /\ on \in BOOLEAN
        /\ left \subseteq {"slot", "added", "p1"}
    BY DEF EaInv, EaTypes
  <2>2. CASE items' = items
    BY <1>2, <2>1, <2>2 DEF HasSlot
  <2>3. CASE items' = Append(items, "added")
    <3>1. /\ items' \in Seq({"slot", "added"}) /\ Len(items') = Len(items) + 1
          /\ \A i \in 1..Len(items) : items'[i] = items[i]
          /\ items'[Len(items) + 1] = "added" /\ Len(items) \in Nat
      BY <2>1, <2>3, AppendProperties
    <3>2. DOMAIN items = 1..Len(items) /\ DOMAIN items' = 1..(Len(items) + 1)
      BY <2>1, <3>1
    <3>3. HasSlot' <=> HasSlot
      <4>1. HasSlot => HasSlot'
        BY <3>1, <3>2 DEF HasSlot
      <4>2. HasSlot' => HasSlot
        BY <3>1, <3>2 DEF HasSlot
      <4> QED BY <4>1, <4>2
    <3> QED BY <1>2, <2>1, <3>1, <3>3
  <2> QED BY <1>2, <2>2, <2>3
<1>8. /\ reads' \in [slot : 0..SlotSize, added : Nat] /\ reads'.slot = reads.slot
      /\ reads.slot \in Nat
      /\ job.steps \notin RScript => reads' = reads
  <2>1. job.steps \in RScript => Head(job.steps) = "added_script"
    BY AddedSteps
  <2> QED BY <1>2, <1>6, <2>1, EaConstants DEF EaInv, EaTypes
<1>9. EaTypes'
  BY <1>1, <1>3, <1>7, <1>8 DEF EaInv, EaTypes
<1>10. JobFits'
  <2>1. job.steps \notin SScript /\ Head(job.steps) # "refuse"
    BY <1>2, ImageSteps
  <2> QED BY <1>1, <1>7, <1>8, <2>1, EaDoneFits DEF EaInv, JobFits
<1>11. Written' /\ SlotReads' /\ AddedReads'
  <2>1. CASE job.steps \in RScript
    <3>1. Head(job.steps) = "added_script"
      BY <2>1, AddedSteps
    <3>2. /\ reads'.added = Size[job.rel] /\ Size[job.rel] \in Nat
          /\ mid = Ea!Img("kernel", job.rel) /\ gap = Ea!Img("init", job.rel)
      BY <1>2, <1>6, <2>1, <3>1, EaConstants DEF EaInv, EaTypes, Written
    <3>3. Written'
      BY <1>5 DEF Written, OnSlot, OnImages, OnAdded
    <3>4. SlotReads'
      BY <1>1, <1>5, <1>7, <1>8 DEF EaInv, SlotReads
    <3>5. AddedReads'
      BY <1>1, <3>2 DEF AddedReads, Ea!Img
    <3> QED BY <3>3, <3>4, <3>5
  <2>2. CASE job.steps \notin RScript
    <3>1. left' = left
      BY <1>2, <1>6, <2>2
    <3> QED BY <1>1, <1>4, <1>6, <1>7, <1>8, <2>2, <3>1, EaRest
  <2> QED BY <2>1, <2>2
<1>12. DueAsAsked'
  <2>1. job.steps \notin Reimages /\ job'.steps \notin Reimages
    BY <1>1, <1>2, <1>3, AfterSteps, RootSteps
  <2> QED BY <1>1, <2>1 DEF EaInv, DueAsAsked
<1> QED BY <1>9, <1>10, <1>11, <1>12 DEF EaInv

(* A script refused by a full table, its images written.                   *)
LEMMA Refused == EaInv /\ Ea!Refuse => EaInv'
<1> SUFFICES ASSUME EaInv, Ea!Refuse PROVE EaInv'
  OBVIOUS
<1>1. /\ job.steps # <<>> /\ job.steps \in AnySteps /\ Head(job.steps) = "refuse"
      /\ job' = Ea!Idle /\ left' = left \cup {"added"}
      /\ low' = low /\ mid' = mid /\ gap' = gap /\ p1' = p1 /\ items' = items /\ on' = on
      /\ reads' = reads /\ asked' = asked /\ wiped' = wiped
  BY DEF EaInv, EaTypes, JobTypes, Ea!Refuse, Ea!At, Ea!emmc, Ea!nor
<1>2. job.steps \in RRefuse /\ job.steps \notin OnSlot \cup OnImages \cup Reimages
  BY <1>1, StepsApart, StepsDistinct, RootSteps DEF OnAdded
<1>3. JobFits' /\ job'.steps = <<>> /\ job' \in JobTypes
  BY <1>1, EaIdle
<1>4. EaTypes'
  BY <1>1, <1>3 DEF EaInv, EaTypes
<1>5. Written'
  BY <1>3, ImageSteps, AddedSteps DEF Written
<1>6. SlotReads' /\ AddedReads'
  BY <1>1, <1>2 DEF EaInv, SlotReads, AddedReads, HasSlot
<1>7. DueAsAsked'
  BY <1>1, <1>2, <1>3, NoSteps DEF EaInv, DueAsAsked
<1> QED BY <1>3, <1>4, <1>5, <1>6, <1>7 DEF EaInv

(* p1's root file system and what is recorded on it.                       *)
LEMMA RootWritten == EaInv /\ (Ea!WriteRootfs \/ Ea!RecordSizes) => EaInv'
<1> SUFFICES ASSUME EaInv, Ea!WriteRootfs \/ Ea!RecordSizes PROVE EaInv'
  OBVIOUS
<1>1. /\ job.steps # <<>> /\ job.steps \in AnySteps /\ job \in JobTypes /\ Ea!Done
      /\ low' = low /\ mid' = mid /\ gap' = gap /\ items' = items /\ on' = on
      /\ reads' = reads /\ asked' = asked /\ wiped' = wiped
      /\ left' \in {left, left \ {"p1"}}
  BY DEF EaInv, EaTypes, JobTypes, Ea!WriteRootfs, Ea!RecordSizes, Ea!At, Ea!emmc, Ea!nor,
     Ea!count
<1>2. \/ Head(job.steps) = "p1_rootfs" /\ p1' = Ea!Root("openhc", job.rel)
      \/ Head(job.steps) = "record" /\ p1' \in {p1, [p1 EXCEPT !.sizes = job.sizes]}
  BY DEF Ea!WriteRootfs, Ea!RecordSizes, Ea!At
<1>3. /\ job' \in JobTypes /\ job'.steps = After(job.steps)
      /\ \/ job' = Ea!Idle
         \/ job'.name = job.name /\ job'.rel = job.rel /\ job'.sizes = job.sizes
  BY <1>1, <1>2, EaDone DEF EaInv
<1>4. job.steps \in Roots \cup Records /\ job'.steps \in Rest /\ job.steps \in Rest
  BY <1>1, <1>2, <1>3, StepsApart, RootSteps DEF Rest
<1>5. /\ p1 \in RootTypes /\ job.sizes \in Nat /\ reads.slot \in Nat
      /\ job.sizes <= reads.slot /\ job.steps \notin SScript
  BY <1>1, <1>4, EaConstants, StepsDistinct DEF EaInv, EaTypes, JobFits, JobTypes, OnSlot
<1>6. /\ p1' \in RootTypes /\ p1'.flag \in {p1.flag, FALSE}
      /\ p1'.sizes \in {0, job.sizes, p1.sizes}
  <2>1. job.rel \in Releases \cup {"none"}
    BY <1>1 DEF JobTypes
  <2>2. CASE p1' = Ea!Root("openhc", job.rel)
    BY <2>1, <2>2 DEF RootTypes, Ea!Root
  <2>3. CASE p1' = [p1 EXCEPT !.sizes = job.sizes]
    BY <1>5, <2>3 DEF RootTypes
  <2> QED BY <1>2, <1>5, <2>2, <2>3
<1>7. EaTypes'
  BY <1>1, <1>3, <1>6 DEF EaInv, EaTypes
<1>8. JobFits'
  <2>1. HasSlot' <=> HasSlot
    BY <1>1 DEF HasSlot
  <2>2. ~HasSlot => reads'.slot = 0
    BY <1>1 DEF EaInv, JobFits
  <2>3. Head(job.steps) # "refuse"
    BY <1>2
  <2> QED BY <1>1, <1>5, <1>6, <2>1, <2>2, <2>3, EaDoneFits
<1>9. Written' /\ SlotReads' /\ AddedReads'
  BY <1>1, <1>4, EaRest DEF HasSlot
<1>10. DueAsAsked'
  <2>1. job.steps \notin Reimages /\ job'.steps \notin Reimages
    BY <1>1, <1>2, <1>3, AfterSteps, RootSteps
  <2> QED BY <1>1, <1>6, <2>1 DEF EaInv, EaTypes, DueAsAsked
<1> QED BY <1>7, <1>8, <1>9, <1>10 DEF EaInv

(* The reboot that ends an install; stage 2 may wait behind it.            *)
LEMMA Rebooted == EaInv /\ Ea!Reboot => EaInv'
<1> SUFFICES ASSUME EaInv, Ea!Reboot PROVE EaInv'
  OBVIOUS
<1>1. /\ job.steps # <<>> /\ job.steps \in AnySteps /\ job \in JobTypes
      /\ Head(job.steps) = "reboot"
      /\ low' = low /\ mid' = mid /\ gap' = gap /\ items' = items /\ on' = on /\ p1' = p1
      /\ reads' = reads /\ asked' = asked /\ wiped' = wiped /\ left' = left
  BY DEF EaInv, EaTypes, JobTypes, Ea!Reboot, Ea!At, Ea!emmc, Ea!nor, Ea!count
<1>2. job.steps \in Rest /\ job.steps \notin Reimages
  BY <1>1, StepsApart, RootSteps DEF Rest
<1>3. JobFits' /\ job'.steps = <<>> /\ job' \in JobTypes
  <2>1. CASE job' = Ea!Idle
    BY <1>1, <2>1, EaIdle
  <2>2. CASE job' = [job EXCEPT !.name = "wait", !.steps = <<>>]
    <3>1. job' = [name |-> "wait", rel |-> job.rel, steps |-> <<>>, sizes |-> job.sizes]
      BY <1>1, <2>2 DEF JobTypes
    <3>2. job' \in JobTypes
      BY <1>1, <3>1, NoSteps DEF JobTypes, Names
    <3>3. <<>> \notin OnSlot \cup OnImages \cup OnAdded /\ job.steps \notin OnSlot
      BY <1>2, NoSteps, StepsDistinct
    <3>4. JobFits'
      BY <1>1, <3>1, <3>3 DEF EaInv, JobFits, HasSlot
    <3> QED BY <3>1, <3>2, <3>4
  <2> QED BY <2>1, <2>2 DEF Ea!Reboot
<1>4. EaTypes'
  BY <1>1, <1>3 DEF EaInv, EaTypes
<1>5. Written' /\ SlotReads' /\ AddedReads'
  BY <1>1, <1>2, <1>3, NoSteps, EaRest DEF HasSlot
<1>6. DueAsAsked'
  BY <1>1, <1>2, <1>3, NoSteps DEF EaInv, DueAsAsked
<1> QED BY <1>3, <1>4, <1>5, <1>6 DEF EaInv

(* Stage 2, once the box answers again, or does not.                       *)
LEMMA Waited == EaInv /\ (Ea!Stage2 \/ Ea!NoLogin) => EaInv'
<1> SUFFICES ASSUME EaInv, Ea!Stage2 \/ Ea!NoLogin PROVE EaInv'
  OBVIOUS
<1>1. /\ job.name = "wait" /\ job.steps = <<>> /\ job \in JobTypes
      /\ low' = low /\ mid' = mid /\ gap' = gap /\ items' = items /\ on' = on /\ p1' = p1
      /\ reads' = reads /\ asked' = asked /\ wiped' = wiped /\ left' = left
  BY DEF EaInv, EaTypes, JobFits, Ea!Stage2, Ea!NoLogin, Ea!emmc, Ea!nor, Ea!count
<1>2. job.steps \in Rest /\ job.steps \notin Reimages
  BY <1>1, NoSteps
<1>3. JobFits' /\ job' \in JobTypes /\ job'.steps \in Rest \ Reimages
  <2>1. CASE job' = Ea!Idle
    BY <1>1, <2>1, NoSteps, EaIdle
  <2>2. CASE job' = Ea!stage2_write_rootfs(job.rel, job.sizes)
    <3>1. PICK s \in Roots :
             job' = [name |-> "stage2", rel |-> job.rel, sizes |-> job.sizes, steps |-> s]
      BY <2>2 DEF Ea!stage2_write_rootfs, Roots
    <3>2. s \in Rest /\ s \in AnySteps /\ s \notin Reimages /\ s # <<>>
      BY RootSteps DEF Rest, AnySteps
    <3>3. job' \in JobTypes
      BY <1>1, <3>1, <3>2 DEF JobTypes, Names
    <3>4. s \notin OnSlot \cup OnImages \cup OnAdded /\ job.steps \notin OnSlot
      BY <1>2, <3>2, StepsDistinct
    <3>5. JobFits'
      BY <1>1, <3>1, <3>4 DEF EaInv, JobFits, HasSlot
    <3> QED BY <3>1, <3>2, <3>3, <3>5
  <2> QED BY <2>1, <2>2 DEF Ea!Stage2, Ea!NoLogin
<1>4. EaTypes'
  BY <1>1, <1>3 DEF EaInv, EaTypes
<1>5. Written' /\ SlotReads' /\ AddedReads'
  BY <1>1, <1>2, <1>3, EaRest DEF HasSlot
<1>6. DueAsAsked'
  BY <1>1, <1>2, <1>3 DEF EaInv, DueAsAsked
<1> QED BY <1>3, <1>4, <1>5, <1>6 DEF EaInv

(* restore takes the appended item off, and clears the enable byte.        *)
LEMMA Unscripted == EaInv /\ (Ea!remove_script \/ Ea!set_script_enabled) => EaInv'
<1> SUFFICES ASSUME EaInv, Ea!remove_script \/ Ea!set_script_enabled PROVE EaInv'
  OBVIOUS
<1>1. /\ job.steps # <<>> /\ job.steps \in AnySteps /\ Ea!Done
      /\ Head(job.steps) \in {"unappend", "off"}
      /\ low' = low /\ mid' = mid /\ gap' = gap /\ p1' = p1 /\ reads' = reads
      /\ asked' = asked /\ wiped' = wiped /\ left' = left
  BY DEF EaInv, EaTypes, JobTypes, Ea!remove_script, Ea!set_script_enabled, Ea!At, Ea!emmc,
     Ea!count
<1>2. /\ items' \in Seq({"slot", "added"}) /\ on' \in BOOLEAN /\ (HasSlot' <=> HasSlot)
  <2>1. items \in Seq({"slot", "added"}) /\ on \in BOOLEAN
    BY DEF EaInv, EaTypes
  <2>2. on' \in BOOLEAN
    BY <2>1 DEF Ea!remove_script, Ea!set_script_enabled
  <2>3. CASE items' = items
    BY <2>1, <2>2, <2>3 DEF HasSlot
  <2>4. CASE items # <<>> /\ items[Len(items)] = "added"
             /\ items' = SubSeq(items, 1, Len(items) - 1)
    <3>1. Len(items) \in Nat \ {0} /\ DOMAIN items = 1..Len(items)
      BY <2>1, <2>4
    <3>2. /\ items' \in Seq({"slot", "added"}) /\ Len(items') = Len(items) - 1
          /\ \A i \in 1..(Len(items) - 1) : items'[i] = items[i]
      BY <2>1, <2>4, <3>1
    <3>3. DOMAIN items' = 1..(Len(items) - 1)
      BY <3>1, <3>2
    <3>4. HasSlot => HasSlot'
      <4> SUFFICES ASSUME NEW i \in 1..Len(items), items[i] = "slot" PROVE HasSlot'
        BY <3>1 DEF HasSlot
      <4>1. i \in 1..(Len(items) - 1)
        BY <2>4, <3>1
      <4> QED BY <3>2, <3>3, <4>1 DEF HasSlot
    <3>5. HasSlot' => HasSlot
      BY <3>1, <3>2, <3>3 DEF HasSlot
    <3> QED BY <2>2, <3>2, <3>4, <3>5
  <2> QED
    BY <2>3, <2>4 DEF Ea!remove_script, Ea!set_script_enabled, Ea!Last, Ea!Front
<1>3. /\ job' \in JobTypes /\ job'.steps = After(job.steps)
      /\ \/ job' = Ea!Idle
         \/ job'.name = job.name /\ job'.rel = job.rel /\ job'.sizes = job.sizes
  BY <1>1, EaDone DEF EaInv
<1>4. job.steps \in Rest /\ job'.steps \in Rest /\ job.steps \notin SScript
  BY <1>1, <1>3, StepsApart, RootSteps, StepsDistinct DEF Rest, OnSlot
<1>5. EaTypes'
  BY <1>1, <1>2, <1>3 DEF EaInv, EaTypes
<1>6. JobFits'
  <2>1. reads.slot \in Nat /\ (~HasSlot => reads'.slot = 0) /\ Head(job.steps) # "refuse"
    BY <1>1, EaConstants DEF EaInv, EaTypes, JobFits
  <2> QED BY <1>1, <1>2, <1>4, <2>1, EaDoneFits
<1>7. Written' /\ SlotReads' /\ AddedReads'
  BY <1>1, <1>2, <1>4, EaRest
<1>8. DueAsAsked'
  <2>1. job.steps \notin Reimages /\ job'.steps \notin Reimages
    BY <1>1, <1>3, AfterSteps, RootSteps
  <2> QED BY <1>1, <2>1 DEF EaInv, EaTypes, DueAsAsked
<1> QED BY <1>5, <1>6, <1>7, <1>8 DEF EaInv

(* p1 reimaged from p2, for the one restore that was due.                  *)
LEMMA Reimaged == EaInv /\ Ea!reimage_p1_direct => EaInv'
<1> SUFFICES ASSUME EaInv, Ea!reimage_p1_direct PROVE EaInv'
  OBVIOUS
<1>1. /\ job.steps # <<>> /\ job.steps \in AnySteps /\ Head(job.steps) = "reimage"
      /\ low' = low /\ mid' = mid /\ gap' = gap /\ items' = items /\ on' = on
      /\ reads' = reads /\ asked' = asked /\ left' \in {left, left \ {"p1"}}
  BY DEF EaInv, EaTypes, JobTypes, Ea!reimage_p1_direct, Ea!At, Ea!emmc, Ea!nor
<1>2. job.steps \in Reimages /\ job.steps \in Rest /\ job.steps \notin SScript
  BY <1>1, StepsApart, StepsDistinct DEF Rest, OnSlot
<1>3. /\ asked \in Int /\ wiped \in Int /\ wiped < asked /\ (p1.flag => wiped + 1 < asked)
      /\ reads.slot \in Nat /\ (~HasSlot => reads'.slot = 0) /\ p1 \in RootTypes
      /\ (HasSlot' <=> HasSlot)
  BY <1>1, <1>2, EaConstants DEF EaInv, EaTypes, DueAsAsked, JobFits, HasSlot
<1>4. CASE p1' = Ea!Root("stock", "none") /\ wiped' = wiped + 1 /\ Ea!Done
  <2>1. /\ job' \in JobTypes /\ job'.steps = After(job.steps)
    BY <1>1, <1>4, EaDone DEF EaInv
  <2>2. job'.steps \in Rest /\ job'.steps \notin Reimages
    BY <1>1, <1>2, <2>1, AfterSteps, RootSteps DEF Rest
  <2>3. p1' \in RootTypes /\ p1'.sizes = 0 /\ p1'.flag = FALSE
    BY <1>4 DEF RootTypes, Ea!Root
  <2>4. EaTypes'
    BY <1>1, <1>3, <1>4, <2>1, <2>3 DEF EaInv, EaTypes
  <2>5. JobFits'
    BY <1>1, <1>2, <1>3, <1>4, <2>3, EaDoneFits
  <2>6. Written' /\ SlotReads' /\ AddedReads'
    BY <1>1, <1>2, <1>3, <2>2, EaRest
  <2>7. DueAsAsked'
    BY <1>1, <1>3, <1>4, <2>2, <2>3 DEF DueAsAsked
  <2> QED BY <2>4, <2>5, <2>6, <2>7 DEF EaInv
<1>5. CASE job' = Ea!Idle /\ p1' = p1 /\ wiped' = wiped
  <2>1. JobFits' /\ job'.steps = <<>> /\ job' \in JobTypes
    BY <1>1, <1>5, EaIdle
  <2>2. EaTypes'
    BY <1>1, <1>5, <2>1 DEF EaInv, EaTypes
  <2>3. Written' /\ SlotReads' /\ AddedReads'
    BY <1>1, <1>2, <1>3, <2>1, NoSteps, EaRest
  <2>4. DueAsAsked'
    BY <1>1, <1>3, <1>5, <2>1, NoSteps DEF DueAsAsked
  <2> QED BY <2>1, <2>2, <2>3, <2>4 DEF EaInv
<1> QED BY <1>4, <1>5 DEF Ea!reimage_p1_direct

(* A restore asked for, on the box or at the boot that finds p1's flag.    *)
LEMMA Finalizes ==
  ASSUME EaInv, job = Ea!Idle, job' = Ea!Finalize, reads' = reads, items' = items,
         p1'.sizes = p1.sizes
  PROVE  JobFits' /\ job'.steps \in Rest /\ job' \in JobTypes /\ job.steps = <<>>
<1>1. /\ job'.steps = <<"reimage", "unappend", "off">> /\ job'.name = "stock" /\ job'.sizes = 0
      /\ job.steps = <<>>
  BY DEF Ea!Finalize, Ea!Idle
<1>2. job'.steps \in Reimages
  BY <1>1 DEF Reimages
<1>3. job'.steps \in Rest /\ job'.steps \in AnySteps
  BY <1>2 DEF Rest, AnySteps
<1>4. job' \in JobTypes
  BY <1>1, <1>3 DEF JobTypes, Names, Ea!Finalize
<1>5. job'.steps \notin OnSlot \cup OnImages \cup OnAdded
  BY <1>3, StepsDistinct
<1>6. reads.slot \in Nat
  BY EaConstants DEF EaInv, EaTypes
<1>7. JobFits'
  BY <1>1, <1>5, <1>6 DEF EaInv, JobFits, HasSlot
<1> QED BY <1>1, <1>3, <1>4, <1>7

LEMMA StockAsked == EaInv /\ (Ea!cmd_stock \/ Ea!BootRestore) => EaInv'
<1> SUFFICES ASSUME EaInv, Ea!cmd_stock \/ Ea!BootRestore PROVE EaInv'
  OBVIOUS
<1>1. /\ job = Ea!Idle /\ job.steps = <<>>
      /\ low' = low /\ mid' = mid /\ gap' = gap /\ items' = items /\ on' = on
      /\ reads' = reads /\ wiped' = wiped /\ left' = left
  <2>1. Ea!Idle.steps = <<>>
    BY DEF Ea!Idle
  <2>2. CASE Ea!cmd_stock
    BY <2>1, <2>2 DEF Ea!cmd_stock, Ea!Up, Ea!emmc, Ea!nor
  <2>3. CASE Ea!BootRestore
    BY <2>1, <2>3 DEF Ea!BootRestore, Ea!emmc, Ea!nor
  <2> QED BY <2>2, <2>3
<1>2. \/ p1' = [p1 EXCEPT !.flag = TRUE] /\ asked' = asked + 1 /\ job' = job
      \/ p1' = p1 /\ asked' = asked + 1 /\ job' = Ea!Finalize
      \/ p1.flag /\ p1' = [p1 EXCEPT !.flag = FALSE] /\ asked' = asked /\ job' = Ea!Finalize
      \/ p1.flag /\ p1' = [p1 EXCEPT !.flag = FALSE] /\ asked' = asked - 1 /\ job' = job
  BY DEF Ea!cmd_stock, Ea!BootRestore, Ea!ConsumeFlag
<1>3. /\ p1 \in RootTypes /\ asked \in Int /\ wiped \in Int /\ wiped <= asked
      /\ (p1.flag => wiped < asked) /\ job.steps \notin Reimages /\ job.steps \in Rest
      /\ job \in JobTypes
  BY <1>1, NoSteps DEF EaInv, EaTypes, DueAsAsked
<1>4. /\ p1' \in RootTypes /\ p1'.sizes = p1.sizes
  BY <1>2, <1>3 DEF RootTypes
<1>5. JobFits' /\ job'.steps \in Rest /\ job' \in JobTypes
  <2>1. CASE job' = job
    BY <1>1, <1>3, <1>4, <2>1 DEF EaInv, JobFits, HasSlot
  <2>2. CASE job' = Ea!Finalize
    BY <1>1, <1>4, <2>2, Finalizes
  <2> QED BY <1>2, <2>1, <2>2
<1>6. EaTypes'
  BY <1>1, <1>2, <1>3, <1>4, <1>5 DEF EaInv, EaTypes
<1>7. Written' /\ SlotReads' /\ AddedReads'
  BY <1>1, <1>3, <1>5, EaRest DEF HasSlot
<1>8. DueAsAsked'
  <2>1. CASE p1' = [p1 EXCEPT !.flag = TRUE] /\ asked' = asked + 1 /\ job' = job
    BY <1>1, <1>3, <2>1 DEF DueAsAsked
  <2>2. CASE p1' = p1 /\ asked' = asked + 1 /\ job' = Ea!Finalize
    BY <1>1, <1>3, <2>2 DEF DueAsAsked
  <2>3. CASE p1.flag /\ p1' = [p1 EXCEPT !.flag = FALSE] /\ asked' = asked
             /\ job' = Ea!Finalize
    BY <1>1, <1>3, <2>3 DEF DueAsAsked, RootTypes
  <2>4. CASE p1.flag /\ p1' = [p1 EXCEPT !.flag = FALSE] /\ asked' = asked - 1 /\ job' = job
    BY <1>1, <1>3, <2>4 DEF DueAsAsked, RootTypes
  <2> QED BY <1>2, <2>1, <2>2, <2>3, <2>4
<1> QED BY <1>5, <1>6, <1>7, <1>8 DEF EaInv

(* Power goes, or an operation fails: what was being written is torn, and   *)
(* what the images are left as is written down.                             *)
LEMMA CutShort ==
  ASSUME EaInv, Ea!Fails \/ Ea!PowerCut
  PROVE  EaInv'
<1>1. /\ items' = items /\ on' = on /\ reads' = reads /\ asked' = asked /\ wiped' = wiped
      /\ job' = Ea!Idle /\ job.steps # <<>> /\ job.steps \in AnySteps
      /\ low' \in Ea!Tear(low, {"low_kernel"})
      /\ mid' \in Ea!Tear(mid, {"mid_init", "mid_kernel"})
      /\ gap' \in Ea!Tear(gap, {"gap_init", "gap_rootfs"})
      /\ p1' \in {p1, Ea!Root("junk", "none"), Ea!Root("partial", "none")}
  BY DEF EaInv, EaTypes, JobTypes, Ea!Fails, Ea!PowerCut, Ea!Interrupted, Ea!nor
<1>2. /\ left' \in {left, left \cup {"p1"}, left \cup {"slot", "added"},
                   left \cup {"slot", "added"} \cup {"p1"}}
      /\ Head(job.steps) \in Ea!ImageWrites => {"slot", "added"} \subseteq left'
      /\ Head(job.steps) \notin Ea!ImageWrites => left' \in {left, left \cup {"p1"}}
  BY <1>1 DEF Ea!Fails, Ea!PowerCut, Ea!Interrupted, Ea!At
<1>3. /\ low' \in Pictures /\ mid' \in Pictures /\ gap' \in Pictures
  BY <1>1 DEF EaInv, EaTypes, Pictures, Ea!Torn, Ea!Img, Ea!Tear
<1>4. /\ p1' \in RootTypes /\ p1'.sizes \in {p1.sizes, 0} /\ p1'.flag \in {p1.flag, FALSE}
  <2>1. \A w \in {"junk", "partial"} :
           /\ Ea!Root(w, "none") \in RootTypes /\ Ea!Root(w, "none").sizes = 0
           /\ Ea!Root(w, "none").flag = FALSE
    BY DEF RootTypes, Ea!Root
  <2> QED BY <1>1, <2>1 DEF EaInv, EaTypes
<1>5. JobFits' /\ job'.steps = <<>> /\ job' \in JobTypes
  BY <1>1, <1>4, EaIdle
<1>6. EaTypes'
  BY <1>1, <1>2, <1>3, <1>4, <1>5 DEF EaInv, EaTypes
<1>7. Written'
  BY <1>5, ImageSteps, AddedSteps DEF Written
<1>8. SlotReads' /\ AddedReads'
  <2>1. CASE Head(job.steps) \in Ea!ImageWrites
    BY <1>2, <2>1 DEF SlotReads, AddedReads
  <2>2. CASE Head(job.steps) \notin Ea!ImageWrites
    <3>1. low' = low /\ mid' = mid /\ gap' = gap
      BY <1>1, <2>2 DEF Ea!Tear, Ea!ImageWrites
    <3>2. job.steps \in Rest
      BY <1>1, <2>2, ImageSteps, AddedSteps
         DEF Ea!ImageWrites, AnySteps, OnSlot, OnImages, OnAdded
    <3>3. ("slot" \in left' <=> "slot" \in left) /\ ("added" \in left' <=> "added" \in left)
      BY <1>2, <2>2
    <3> QED BY <1>1, <1>5, <3>1, <3>2, <3>3, NoSteps, EaRest DEF HasSlot
  <2> QED BY <2>1, <2>2
<1>9. DueAsAsked'
  BY <1>1, <1>4, <1>5, NoSteps DEF EaInv, EaTypes, DueAsAsked
<1> QED BY <1>5, <1>6, <1>7, <1>8, <1>9 DEF EaInv

(* boot-init lays a staged root file system on p1, or what it takes for it. *)
LEMMA StagedLaid == EaInv /\ (Ea!BootInstall \/ Ea!PowerCycle) => EaInv'
<1> SUFFICES ASSUME EaInv, Ea!BootInstall \/ Ea!PowerCycle PROVE EaInv'
  OBVIOUS
<1>1. /\ job' = job /\ low' = low /\ mid' = mid /\ gap' = gap /\ items' = items /\ on' = on
      /\ reads' = reads /\ asked' = asked /\ wiped' = wiped
      /\ left' \in {left, left \ {"p1"}, left \cup {"p1"}}
      /\ p1' \in {p1, Ea!Root("openhc", gap.rel), Ea!Root("junk", "none")}
  BY DEF Ea!BootInstall, Ea!PowerCycle, Ea!StagedInstall, Ea!emmc, Ea!nor
<1>2. /\ gap.rel \in Releases \cup {"none"}
      /\ left' \subseteq {"slot", "added", "p1"}
      /\ "slot" \in left' <=> "slot" \in left
      /\ "added" \in left' <=> "added" \in left
  BY <1>1 DEF EaInv, EaTypes, Pictures
<1>3. p1' \in RootTypes /\ p1'.sizes \in {p1.sizes, 0} /\ p1'.flag \in {p1.flag, FALSE}
  <2>1. \A w \in {"junk", "openhc"}, q \in Releases \cup {"none"} :
           /\ Ea!Root(w, q) \in RootTypes /\ Ea!Root(w, q).sizes = 0
           /\ Ea!Root(w, q).flag = FALSE
    BY DEF RootTypes, Ea!Root
  <2> QED BY <1>1, <1>2, <2>1 DEF EaInv, EaTypes
<1>4. EaTypes'
  BY <1>1, <1>2, <1>3 DEF EaInv, EaTypes
<1>5. JobFits' /\ Written' /\ SlotReads' /\ AddedReads'
  <2>1. reads.slot \in Nat
    BY EaConstants DEF EaInv, EaTypes
  <2> QED
    BY <1>1, <1>2, <1>3, <2>1 DEF EaInv, JobFits, Written, SlotReads, AddedReads, HasSlot
<1>6. DueAsAsked'
  BY <1>1, <1>3 DEF EaInv, EaTypes, DueAsAsked
<1> QED BY <1>4, <1>5, <1>6 DEF EaInv

LEMMA EaSteps == EaInv /\ [Ea!Next]_(Ea!vars) => EaInv'
<1> SUFFICES ASSUME EaInv, [Ea!Next]_(Ea!vars) PROVE EaInv'
  OBVIOUS
<1>1. CASE Ea!PowerOn \/ Ea!Pivot \/ UNCHANGED Ea!vars
  <2>1. /\ job' = job /\ low' = low /\ mid' = mid /\ gap' = gap /\ p1' = p1 /\ items' = items
        /\ on' = on /\ reads' = reads /\ asked' = asked /\ wiped' = wiped /\ left' = left
    BY <1>1 DEF Ea!PowerOn, Ea!Pivot, Ea!vars, Ea!emmc, Ea!nor, Ea!count
  <2> QED
    BY <2>1 DEF EaInv, EaTypes, JobFits, Written, SlotReads, AddedReads, DueAsAsked, HasSlot
<1>2. CASE \E r \in Releases :
              \/ Ea!stage1_ram_installer(r) \/ Ea!install_ramboot(r) \/ Ea!install_self(r)
              \/ Ea!rootfs(r)
  BY <1>2, EaOperations
<1>3. CASE Ea!cmd_revert \/ Ea!cmd_install
  <2>1. PICK s \in Unappends \cup Appends \cup Enables, n \in {"revert", "install"} :
           Ea!Begin(n, "none", s, 0)
    BY <1>3 DEF Ea!cmd_revert, Ea!cmd_install, Ea!Unscript, Unappends, Appends, Enables
  <2>2. s \notin OnSlot \cup OnImages \cup OnAdded
    BY StepsDistinct DEF Rest
  <2>3. reads.slot \in Nat
    BY EaConstants DEF EaInv, EaTypes
  <2> QED BY <2>1, <2>2, <2>3, EaBegin DEF Names
<1> QED
  BY <1>1, <1>2, <1>3, ImagesWritten, SlotWritten, AddedWritten, Refused, RootWritten,
     Rebooted, Waited, Unscripted, Reimaged, StockAsked, CutShort, StagedLaid DEF Ea!Next

LEMMA EaStart == Ea!Init => EaInv
<1> SUFFICES ASSUME Ea!Init PROVE EaInv
  OBVIOUS
<1>1. PICK b \in Boxes :
        /\ items = IF b = "plain" THEN <<>> ELSE <<"slot">>
        /\ on = (b # "plain")
        /\ reads = [slot |-> IF b = "old" THEN 1 ELSE 0, added |-> 0]
        /\ low = IF b = "old" THEN Ea!Img("kernel", "r0") ELSE Ea!Empty
        /\ mid = IF b = "old" THEN Ea!Img("init", "r0") ELSE Ea!Empty
        /\ p1 = IF b = "old" THEN [Ea!Root("openhc", "r0") EXCEPT !.sizes = 1]
                ELSE Ea!Root("stock", "none")
  BY DEF Ea!Init
<1>2. /\ gap = Ea!Empty /\ job = Ea!Idle /\ asked = 0 /\ wiped = 0 /\ left = {}
  BY DEF Ea!Init
<1>3. /\ SlotSize \in Nat \ {0} /\ b \in {"slot", "plain", "old"}
      /\ b = "old" => "r0" \in Releases /\ Size["r0"] = 1
  BY EaConstants
<1>4. job \in JobTypes /\ job.steps = <<>> /\ job.sizes = 0 /\ job.name = "idle"
  BY <1>2, NoSteps DEF Ea!Idle, JobTypes, Names
<1>5. /\ items \in Seq({"slot", "added"})
      /\ HasSlot <=> b # "plain"
  <2>1. CASE b = "plain"
    BY <1>1, <2>1 DEF HasSlot
  <2>2. CASE b # "plain"
    BY <1>1, <2>2 DEF HasSlot
  <2> QED BY <2>1, <2>2
<1>6. /\ p1 \in RootTypes /\ p1.flag = FALSE
      /\ p1.sizes = IF b = "old" THEN 1 ELSE 0
  <2>1. CASE b = "old"
    <3>1. p1 = [Ea!Root("openhc", "r0") EXCEPT !.sizes = 1]
      BY <1>1, <2>1
    <3>2. p1 = [what |-> "openhc", rel |-> "r0", flag |-> FALSE, sizes |-> 1]
      BY <3>1 DEF Ea!Root
    <3> QED BY <1>3, <2>1, <3>2 DEF RootTypes
  <2>2. CASE b # "old"
    BY <1>1, <2>2 DEF RootTypes, Ea!Root
  <2> QED BY <2>1, <2>2
<1>7. /\ reads \in [slot : 0..SlotSize, added : Nat] /\ reads.added = 0
      /\ reads.slot = IF b = "old" THEN 1 ELSE 0
  <2>1. CASE b = "old"
    BY <1>1, <1>3, <2>1
  <2>2. CASE b # "old"
    BY <1>1, <1>3, <2>2
  <2> QED BY <2>1, <2>2
<1>8. low \in Pictures /\ mid \in Pictures /\ gap \in Pictures /\ on \in BOOLEAN
  BY <1>1, <1>2, <1>3 DEF Pictures, Ea!Img, Ea!Empty
<1>9. EaTypes
  <2>1. asked \in Int /\ wiped \in Int /\ left \subseteq {"slot", "added", "p1"}
    BY <1>2
  <2> QED BY <1>4, <1>5, <1>6, <1>7, <1>8, <2>1 DEF EaTypes
<1>10. <<>> \notin OnSlot \cup OnImages \cup OnAdded \cup Reimages
  BY NoSteps, StepsDistinct
<1>11. JobFits
  BY <1>3, <1>4, <1>5, <1>6, <1>7, <1>10 DEF JobFits
<1>12. Written
  BY <1>4, ImageSteps, AddedSteps DEF Written
<1>13. SlotReads /\ AddedReads
  BY <1>1, <1>3, <1>5, <1>7 DEF SlotReads, AddedReads, Ea!Img
<1>14. DueAsAsked
  BY <1>2, <1>4, <1>6, <1>10 DEF DueAsAsked
<1> QED BY <1>9, <1>11, <1>12, <1>13, <1>14 DEF EaInv

(* The inductive invariant of an EA: which images an operation has written  *)
(* so far, that each fits what its script reads or will read, and that each *)
(* restore asked for is due at most once.                                   *)
THEOREM EaInvariant == Ea!Spec => []EaInv
  BY EaStart, EaSteps, PTL DEF Ea!Spec

(* The script that boots an EA reads whole images, unless an operation      *)
(* rewriting them ended early and none was carried through since, and p1 is *)
(* wiped at most once for each restore asked for (network.rs, restore's     *)
(* main.rs and boot-init's init), for any releases and sizes, any room in   *)
(* CEFDK's table, and any number of installs, restores, failures and cuts.  *)
THEOREM EaBoxSafeAlways == Ea!Spec => []EaBoxSafe
<1>1. EaInv => Ea!BootsWhole
  <2> SUFFICES ASSUME EaInv, NEW s \in Ea!Scripts, job.name \in {"idle", "wait"},
                      Ea!ToSet(items) = {s}, s \notin left, s = "slot" => mid.what # "kernel"
               PROVE  Ea!Whole(s)
    BY DEF Ea!BootsWhole
  <2>1. /\ job.steps = <<>> /\ <<>> \notin OnSlot \cup OnImages \cup OnAdded
        /\ s \in Ea!ToSet(items) /\ reads[s] > 0
    BY NoSteps, StepsDistinct DEF EaInv, JobFits, Ea!Scripts
  <2>2. s \in {"slot", "added"} /\ (HasSlot <=> s = "slot")
    <3>1. Ea!ToSet(items) = {items[i] : i \in DOMAIN items}
      BY DEF Ea!ToSet
    <3>2. \A i \in DOMAIN items : items[i] \in {"slot", "added"}
      BY DEF EaInv, EaTypes
    <3>3. s \in {"slot", "added"}
      BY <2>1, <3>1, <3>2
    <3>4. HasSlot <=> "slot" \in Ea!ToSet(items)
      BY <3>1 DEF HasSlot
    <3> QED BY <3>3, <3>4
  <2>3. CASE s = "slot"
    BY <2>1, <2>2, <2>3 DEF EaInv, SlotReads, Ea!Whole, Ea!KernelAt, Ea!InitAt
  <2>4. CASE s = "added"
    BY <2>1, <2>2, <2>4 DEF EaInv, AddedReads, Ea!Whole, Ea!KernelAt, Ea!InitAt
  <2> QED BY <2>2, <2>3, <2>4
<1>2. EaInv => EaBoxSafe
  BY <1>1 DEF EaBoxSafe, Ea!EaBoxSafe, Ea!WipesAsAsked, EaInv, DueAsAsked
<1> QED BY <1>2, EaInvariant, PTL

-----------------------------------------------------------------------------
(* Booting an EA into RAM.                                                 *)
Pieces == Netboot!Lines \cup {"sh", "ell>"}

NetTypes ==
    /\ box \in {"off", "mfg", "stock", "auto", "entering", "shell", "kernel", "initrd", "linux"}
    /\ ram \in [Netboot!Images -> {"none", "partial", "whole"}]
    /\ console \in Seq(Pieces) /\ tail \in Seq({"sh", "ell>"})
    /\ pc \in {"watch", "next", "wait", "sent", "failed"}
    /\ stage \in Netboot!Stages /\ echoed \in BOOLEAN

(* While the tool watches: a shell is seen only where the box accepted the  *)
(* cookie, and what a power cycle leaves of that is undone by the first     *)
(* line the box prints after it.                                           *)
Starts == console # <<>> /\ console[1] \in {"Enabled", "Disabled"}
Watching ==
    pc = "watch" =>
        /\ typed = <<>> /\ todo = Netboot!Commands /\ box \notin {"kernel", "initrd", "linux"}
        /\ stage = "AtShell" => box = "shell" /\ console # <<>>
        /\ box \in {"off", "mfg", "stock", "auto"} =>
              /\ stage = "WaitingForShell" => Starts
              /\ console \in Seq(Pieces \ {"Entering"})
        /\ box \in {"mfg", "stock", "auto", "entering"} =>
              tail = <<>> /\ console \in Seq(Netboot!Lines)

(* What is typed, and what the box has of it.                              *)
Whole(i) == ram[i] = "whole"
AllWhole == Whole("kernel") /\ Whole("initrd")
Typing ==
    pc \in {"next", "wait", "sent"} =>
        \/ todo = Netboot!Commands /\ pc = "next" /\ typed = <<>> /\ box = "shell"
        \/ /\ todo = <<"kernel", "initrd", "boot">>
           /\ \/ pc = "next" /\ typed \in {<<"ip">>, <<>>} /\ box = "shell"
              \/ pc = "wait" /\ typed \in {<<"ip", "kernel">>, <<"kernel">>} /\ box = "shell"
              \/ pc = "wait" /\ typed = <<>> /\ box \in {"shell", "kernel"}
        \/ /\ todo = <<"initrd", "boot">> /\ Whole("kernel")
           /\ \/ pc = "next" /\ typed = <<>> /\ box = "shell"
              \/ pc = "wait" /\ typed = <<"initrd">> /\ box = "shell"
              \/ pc = "wait" /\ typed = <<>> /\ box \in {"shell", "initrd"}
        \/ todo = <<"boot">> /\ AllWhole /\ pc = "next" /\ typed = <<>> /\ box = "shell"
        \/ /\ todo = <<>> /\ AllWhole /\ pc \in {"next", "sent"}
           /\ typed = <<>> \/ (typed = <<"boot">> /\ box = "shell")
           /\ box \in {"shell", "linux"}

(* A transfer the tool waits for: its echo has not come before the box read *)
(* the command, and until the image is whole no prompt follows the echo but *)
(* after "tftp_failed".  k is where the echo is in what is unread, 0 when   *)
(* it was read.                                                            *)
NoEcho(n) == \A i \in 1..n : console[i] # "tftp_get"
Unfinished(k) ==
    /\ (k = 0) <=> echoed
    /\ IF k = 0 THEN tail = <<>> ELSE console[k] = "tftp_get" /\ NoEcho(k - 1)
    /\ IF box = "shell" THEN k < Len(console) /\ console[k + 1] = "tftp_failed"
       ELSE k = Len(console)
Waiting ==
    pc = "wait" =>
        /\ typed # <<>> => ~echoed /\ NoEcho(Len(console))
        /\ typed = <<>> /\ ~Whole(todo[1]) => \E k \in 0..Len(console) : Unfinished(k)
        /\ typed = <<>> /\ box # "shell" => ~Whole(todo[1])

(* A tool that gave up types nothing more, and never typed the last command. *)
GivenUp ==
    pc = "failed" =>
        /\ box # "linux"
        /\ typed \in {<<>>, <<"ip", "kernel">>, <<"kernel">>, <<"initrd">>}
        /\ typed # <<>> => box = "shell"

(* A boot whose box is as the tool left it; and a box that was power-cycled *)
(* when that is harmless: nothing is on its way to it, and no echo can come *)
(* for a tool that waits for one.                                          *)
Follows == NetTypes /\ Watching /\ Typing /\ Waiting /\ GivenUp
Deaf ==
    /\ typed = <<>> /\ box \in {"off", "mfg", "stock", "auto", "entering", "shell"}
    /\ pc \in {"wait", "sent", "failed"} \/ (pc = "next" /\ todo = <<>>)
    /\ pc = "wait" => ~echoed /\ console \in Seq(Pieces \ {"tftp_get"})

NetInv == blind \/ Follows \/ Deaf

(* What a read takes from the console.                                     *)
LEMMA Taken ==
  ASSUME console \in Seq(Pieces), NEW last, Netboot!Take(last)
  PROVE  /\ console # <<>> /\ Len(console) \in Nat \ {0}
         /\ Head(console) = console[1] /\ console[1] \in Pieces
         /\ console' \in Seq(Pieces) /\ Len(console') = Len(console) - 1
         /\ \A i \in 1..Len(console') : console'[i] = console[i + 1]
         /\ last \/ console' # <<>>
<1>1. console # <<>> /\ console' = Tail(console) /\ (last \/ Len(console) > 1)
  BY DEF Netboot!Take
<1>2. Len(console) \in Nat \ {0} /\ Head(console) = console[1] /\ console[1] \in Pieces
  BY <1>1
<1>3. /\ console' \in Seq(Pieces) /\ Len(console') = Len(console) - 1
      /\ \A i \in 1..Len(console') : console'[i] = console[i + 1]
  BY <1>1
<1>4. last \/ console' # <<>>
  BY <1>1, <1>2, <1>3
<1> QED BY <1>1, <1>2, <1>3, <1>4

(* What the box says is behind what it said.                               *)
LEMMA Said ==
  ASSUME console \in Seq(Pieces), NEW said \in Seq(Pieces), Netboot!Says(said)
  PROVE  /\ console' \in Seq(Pieces) /\ Len(console') = Len(console) + Len(said)
         /\ \A i \in 1..Len(console) : console'[i] = console[i]
         /\ \A i \in 1..Len(said) : console'[Len(console) + i] = said[i]
<1>1. console' = console \o said
  BY DEF Netboot!Says
<1>2. console' \in Seq(Pieces) /\ Len(console') = Len(console) + Len(said)
  BY <1>1
<1>3. \A i \in 1..Len(console) : console'[i] = console[i]
  BY <1>1
<1>4. \A i \in 1..Len(said) : console'[Len(console) + i] = said[i]
  BY <1>1
<1> QED BY <1>2, <1>3, <1>4

(* A read leaves the start of a line in the tail.                          *)
LEMMA TailTaken ==
  ASSUME NetTypes, NEW last, Netboot!Take(last)
  PROVE  /\ tail' \in Seq({"sh", "ell>"})
         /\ console[1] \in Netboot!Lines => tail' = <<>>
<1>1. Head(console) = console[1] /\ console[1] \in Pieces
  BY Taken DEF NetTypes
<1>2. tail' = IF console[1] \in Netboot!Lines THEN <<>> ELSE Append(tail, console[1])
  BY <1>1 DEF Netboot!Take, Netboot!TailAfter
<1>3. console[1] \notin Netboot!Lines => console[1] \in {"sh", "ell>"}
  BY <1>1 DEF Pieces
<1> QED BY <1>2, <1>3 DEF NetTypes

LEMMA PromptSeq ==
  /\ Netboot!Prompt \in Seq(Pieces) /\ Netboot!Prompt # <<>>
  /\ Netboot!Lines \subseteq Pieces
BY DEF Netboot!Prompt, Pieces

(* The lists of commands still to type.                                    *)
LEMMA Todos ==
  /\ Netboot!Commands = <<"ip", "kernel", "initrd", "boot">>
  /\ Netboot!Commands # <<>> /\ Head(Netboot!Commands) = "ip"
  /\ Tail(Netboot!Commands) = <<"kernel", "initrd", "boot">>
  /\ Head(<<"kernel", "initrd", "boot">>) = "kernel"
  /\ Tail(<<"kernel", "initrd", "boot">>) = <<"initrd", "boot">>
  /\ Head(<<"initrd", "boot">>) = "initrd" /\ Tail(<<"initrd", "boot">>) = <<"boot">>
  /\ Head(<<"boot">>) = "boot" /\ Tail(<<"boot">>) = <<>>
  /\ <<"kernel", "initrd", "boot">>[1] = "kernel" /\ <<"initrd", "boot">>[1] = "initrd"
<1>1. Netboot!Commands = <<"ip", "kernel", "initrd", "boot">>
  BY DEF Netboot!Commands
<1>2. Tail(Netboot!Commands) = <<"kernel", "initrd", "boot">>
  <2> DEFINE t == Tail(<<"ip", "kernel", "initrd", "boot">>)
  <2>1. t \in Seq({"ip", "kernel", "initrd", "boot"}) /\ Len(t) = 3
    OBVIOUS
  <2>2. t[1] = "kernel" /\ t[2] = "initrd" /\ t[3] = "boot"
    OBVIOUS
  <2> HIDE DEF t
  <2>3. t = <<"kernel", "initrd", "boot">>
    BY <2>1, <2>2
  <2> QED BY <1>1, <2>3 DEF t
<1>3. Tail(<<"kernel", "initrd", "boot">>) = <<"initrd", "boot">>
  OBVIOUS
<1>4. Tail(<<"initrd", "boot">>) = <<"boot">> /\ Tail(<<"boot">>) = <<>>
  OBVIOUS
<1>5. Netboot!Commands # <<>> /\ Head(Netboot!Commands) = "ip"
  BY <1>1
<1>6. /\ Head(<<"kernel", "initrd", "boot">>) = "kernel" /\ Head(<<"initrd", "boot">>) = "initrd"
      /\ Head(<<"boot">>) = "boot"
      /\ <<"kernel", "initrd", "boot">>[1] = "kernel" /\ <<"initrd", "boot">>[1] = "initrd"
  OBVIOUS
<1> QED BY <1>1, <1>2, <1>3, <1>4, <1>5, <1>6

(* The box on its own: power, the cookie, its stored script.               *)
LEMMA NetBoxSteps ==
  ASSUME Follows,
         \/ pc = "watch" /\ \E held \in BOOLEAN : Netboot!PowerCycle(held)
         \/ Netboot!Cookie \/ Netboot!OtherDhcp \/ Netboot!Autoscript \/ Netboot!DropToShell
  PROVE  Follows'
<1>1. /\ NetTypes /\ Watching /\ console \in Seq(Pieces)
      /\ pc \in {"next", "wait", "sent"} => box \in {"shell", "kernel", "initrd", "linux"}
      /\ pc \in {"watch", "next", "wait", "sent", "failed"}
  BY DEF Follows, NetTypes, Typing
<1>2. ASSUME NEW said \in Seq(Pieces), Netboot!Says(said), pc \in {"watch", "failed"},
             UNCHANGED Netboot!toolvars, typed' = <<>>,
             box' \in {"off", "mfg", "stock", "auto", "entering", "shell"},
             ram' \in [Netboot!Images -> {"none", "partial", "whole"}],
             Watching'
      PROVE  Follows'
  <2>1. console' \in Seq(Pieces)
    BY <1>1, <1>2, Said
  <2>2. NetTypes'
    BY <1>1, <1>2, <2>1 DEF NetTypes, Netboot!toolvars
  <2>3. Typing' /\ Waiting' /\ GivenUp'
    BY <1>1, <1>2 DEF Typing, Waiting, GivenUp, Netboot!toolvars, Follows
  <2> QED BY <1>2, <2>2, <2>3 DEF Follows
<1>3. ASSUME NEW held \in BOOLEAN, Netboot!PowerCycle(held), pc = "watch"
      PROVE  Follows'
  <2> DEFINE said == IF held THEN <<"Enabled">> ELSE <<"Disabled">>
  <2>1. /\ pc = "watch" /\ console = <<>> /\ tail = <<>> /\ typed' = <<>>
        /\ box' \in {"mfg", "stock"} /\ UNCHANGED Netboot!toolvars /\ Netboot!Says(said)
        /\ ram' = [i \in Netboot!Images |-> "none"]
    BY <1>3 DEF Netboot!PowerCycle
  <2>2. /\ said \in Seq(Pieces) /\ said \in Seq(Netboot!Lines)
        /\ said \in Seq(Pieces \ {"Entering"})
        /\ Len(said) = 1 /\ said[1] \in {"Enabled", "Disabled"}
    <3>1. CASE held
      BY <3>1 DEF Pieces, Netboot!Lines
    <3>2. CASE ~held
      BY <3>2 DEF Pieces, Netboot!Lines
    <3> QED BY <3>1, <3>2
  <2> HIDE DEF said
  <2>3. console' = said
    BY <2>1, <2>2 DEF Netboot!Says
  <2>4. Watching'
    <3>1. console' # <<>> /\ Starts'
      BY <2>2, <2>3 DEF Starts
    <3>2. /\ typed' = <<>> /\ todo' = todo /\ stage' = stage /\ tail' = <<>> /\ pc' = "watch"
          /\ stage # "AtShell" /\ todo = Netboot!Commands
      BY <1>1, <2>1 DEF Watching, Netboot!toolvars
    <3> QED BY <2>1, <2>2, <2>3, <3>1, <3>2 DEF Watching
  <2> QED BY <1>2, <2>1, <2>2, <2>4
<1>4. ASSUME NEW said \in Seq(Pieces), Netboot!Says(said), UNCHANGED Netboot!toolvars,
             typed' = typed, ram' = ram, said # <<>>,
             \/ box = "mfg" /\ box' = "entering" /\ said \in Seq(Netboot!Lines)
             \/ /\ box = "mfg" /\ box' = "auto" /\ said \in Seq(Pieces \ {"Entering"})
                /\ said \in Seq(Netboot!Lines)
             \/ box \in {"auto", "stock"} /\ box' = "off" /\ said \in Seq(Pieces \ {"Entering"})
             \/ box = "entering" /\ box' = "shell"
      PROVE  Follows'
  <2>1. /\ console' = console \o said /\ console' # <<>>
        /\ Starts => Starts'
    BY <1>1, <1>4 DEF Netboot!Says, Starts
  <2>2. /\ console \in Seq(Netboot!Lines) /\ said \in Seq(Netboot!Lines) =>
              console' \in Seq(Netboot!Lines)
        /\ console \in Seq(Pieces \ {"Entering"}) /\ said \in Seq(Pieces \ {"Entering"}) =>
              console' \in Seq(Pieces \ {"Entering"})
    BY <2>1
  <2>3. Watching'
    BY <1>1, <1>4, <2>1, <2>2 DEF Watching, Netboot!toolvars
  <2>4. pc \in {"watch", "failed"} /\ typed' = <<>>
    BY <1>1, <1>4 DEF Follows, Watching, GivenUp
  <2> QED BY <1>1, <1>2, <1>4, <2>3, <2>4 DEF NetTypes
<1>5. /\ <<"Entering">> \in Seq(Pieces) /\ <<"Entering">> \in Seq(Netboot!Lines)
      /\ <<"AC_BOOT">> \in Seq(Pieces) /\ <<"AC_BOOT">> \in Seq(Netboot!Lines)
      /\ <<"AC_BOOT">> \in Seq(Pieces \ {"Entering"})
      /\ Netboot!Prompt \in Seq(Pieces) /\ Netboot!Prompt \in Seq(Pieces \ {"Entering"})
      /\ <<"script">> \in Seq(Pieces) /\ <<"script">> \in Seq(Pieces \ {"Entering"})
  BY DEF Pieces, Netboot!Lines, Netboot!Prompt
<1>6. /\ Netboot!Prompt \o <<"script">> \in Seq(Pieces)
      /\ Netboot!Prompt \o <<"script">> \in Seq(Pieces \ {"Entering"})
      /\ Netboot!Prompt # <<>> /\ Netboot!Prompt \o <<"script">> # <<>>
  BY <1>5 DEF Netboot!Prompt
<1>7. CASE Netboot!Cookie \/ Netboot!OtherDhcp
  BY <1>4, <1>5, <1>7 DEF Netboot!Cookie, Netboot!OtherDhcp
<1>8. CASE Netboot!Autoscript \/ Netboot!DropToShell
  BY <1>4, <1>5, <1>6, <1>8 DEF Netboot!Autoscript, Netboot!DropToShell
<1> QED BY <1>3, <1>7, <1>8

(* What a line does to the watch.                                          *)
LEMMA Fed ==
  ASSUME NEW s \in Netboot!Stages, NEW l
  PROVE  LET f == Netboot!feed(s, l)
         IN  /\ f \in Netboot!Stages
             /\ f = "AtShell" =>
                   s = "AtShell" \/ (l.prompt /\ s = "WaitingForShell"
                                       /\ l.text \notin {"Enabled", "Disabled"})
             /\ f = "WaitingForShell" =>
                   l.text = "Entering" \/ (s = "WaitingForShell"
                                             /\ l.text \notin {"Enabled", "Disabled"})
BY DEF Netboot!feed, Netboot!Stages, Netboot!Trusts

(* The tool's reads while it watches.                                      *)
LEMMA WatchSteps ==
  ASSUME Follows,
         \/ \E last \in BOOLEAN : Netboot!WatchReads(last)
         \/ Netboot!WatchSilence \/ Netboot!GiveUp
  PROVE  Follows'
<1>1. /\ NetTypes /\ Watching /\ console \in Seq(Pieces)
  BY DEF Follows, NetTypes
<1>2. CASE Netboot!WatchSilence \/ Netboot!GiveUp
  <2>1. /\ pc = "watch" /\ pc' \in {"watch", "failed"}
        /\ UNCHANGED <<box, ram, console, typed, stage, todo, echoed>> /\ tail' \in {tail, <<>>}
    BY <1>2 DEF Netboot!WatchSilence, Netboot!GiveUp, Netboot!boxvars
  <2>2. NetTypes'
    <3>1. tail' \in Seq({"sh", "ell>"})
      <4>1. CASE tail' = tail
        BY <1>1, <4>1 DEF NetTypes
      <4>2. CASE tail' = <<>>
        BY <4>2
      <4> QED BY <2>1, <4>1, <4>2
    <3> QED BY <1>1, <2>1, <3>1 DEF NetTypes
  <2>3. Watching' /\ Typing' /\ Waiting' /\ GivenUp'
    BY <1>1, <2>1 DEF Watching, Starts, Typing, Waiting, GivenUp
  <2> QED BY <2>2, <2>3 DEF Follows
<1>3. ASSUME NEW last \in BOOLEAN, Netboot!WatchReads(last)
      PROVE  Follows'
  <2> DEFINE c == console[1]
             fresh == last /\ tail' = Netboot!Prompt /\ tail' # fedtail
  <2>1. /\ pc = "watch" /\ Netboot!Take(last) /\ UNCHANGED <<box, ram, typed, todo, echoed>>
        /\ pc' = IF last /\ stage' = "AtShell" THEN "next" ELSE "watch"
    BY <1>3 DEF Netboot!WatchReads, Netboot!boxvars
  <2>2. /\ console # <<>> /\ Head(console) = c /\ c \in Pieces
        /\ console' \in Seq(Pieces) /\ (last \/ console' # <<>>)
        /\ \A i \in 1..Len(console') : console'[i] = console[i + 1]
    BY <1>1, <2>1, Taken
  <2>3. /\ tail' \in Seq({"sh", "ell>"})
        /\ c \in Netboot!Lines => tail' = <<>>
    BY <1>1, <2>1, TailTaken
  <2>4. PICK lined :
           /\ lined = IF c \in Netboot!Lines THEN Netboot!feed(stage, Netboot!Line(c)) ELSE stage
           /\ stage' = IF fresh THEN Netboot!feed(lined, [text |-> "", prompt |-> TRUE]) ELSE lined
    BY <1>3, <2>2 DEF Netboot!WatchReads
  <2> DEFINE l == Netboot!Line(c)
             p == [text |-> "", prompt |-> TRUE]
  <2>5. /\ l.text = c /\ l.prompt = (tail = Netboot!Prompt)
        /\ p.text = "" /\ p.prompt
    BY DEF Netboot!Line
  <2> HIDE DEF l, p, fresh
  <2>6. /\ lined \in Netboot!Stages
        /\ lined = "AtShell" =>
              stage = "AtShell" \/ (tail = Netboot!Prompt /\ stage = "WaitingForShell"
                                     /\ c \in Netboot!Lines \ {"Enabled", "Disabled"})
        /\ lined = "WaitingForShell" =>
              c = "Entering" \/ (stage = "WaitingForShell" /\ c \notin {"Enabled", "Disabled"})
    <3>1. CASE c \notin Netboot!Lines
      <4>1. c \notin {"Enabled", "Disabled"}
        BY <3>1 DEF Netboot!Lines
      <4> QED BY <1>1, <2>4, <3>1, <4>1 DEF NetTypes
    <3>2. CASE c \in Netboot!Lines
      <4>1. lined = Netboot!feed(stage, l) /\ stage \in Netboot!Stages
        BY <1>1, <2>4, <3>2 DEF NetTypes, l
      <4>2. /\ lined \in Netboot!Stages
            /\ lined = "AtShell" =>
                  stage = "AtShell" \/ (l.prompt /\ stage = "WaitingForShell"
                                          /\ l.text \notin {"Enabled", "Disabled"})
            /\ lined = "WaitingForShell" =>
                  l.text = "Entering" \/ (stage = "WaitingForShell"
                                            /\ l.text \notin {"Enabled", "Disabled"})
        BY <4>1, Fed
      <4> QED BY <2>5, <3>2, <4>2
    <3> QED BY <3>1, <3>2
  <2>7. /\ stage' \in Netboot!Stages
        /\ stage' = "AtShell" =>
              lined = "AtShell" \/ (tail' = Netboot!Prompt /\ lined = "WaitingForShell")
        /\ stage' = "WaitingForShell" => lined = "WaitingForShell"
    <3>1. CASE fresh
      BY <2>4, <2>5, <2>6, <3>1, Fed DEF fresh, p
    <3>2. CASE ~fresh
      BY <2>4, <2>6, <3>2
    <3> QED BY <3>1, <3>2
  <2>8. box \in {"off", "mfg", "stock", "auto"} => stage' \notin {"WaitingForShell", "AtShell"}
    <3> SUFFICES ASSUME box \in {"off", "mfg", "stock", "auto"}
                 PROVE  stage' \notin {"WaitingForShell", "AtShell"}
      OBVIOUS
    <3>1. /\ stage # "AtShell" /\ c # "Entering"
          /\ stage = "WaitingForShell" => c \in {"Enabled", "Disabled"}
      BY <1>1, <2>1, <2>2 DEF Watching, Starts
    <3> QED BY <2>6, <2>7, <3>1
  <2>9. box = "entering" => stage' # "AtShell"
    <3> SUFFICES ASSUME box = "entering"
                 PROVE  stage' # "AtShell"
      OBVIOUS
    <3>1. tail = <<>> /\ c \in Netboot!Lines /\ stage # "AtShell"
      BY <1>1, <2>1, <2>2 DEF Watching
    <3>2. tail # Netboot!Prompt /\ tail' # Netboot!Prompt
      BY <2>3, <3>1 DEF Netboot!Prompt
    <3> QED BY <2>6, <2>7, <3>1, <3>2
  <2>10. NetTypes'
    BY <1>1, <2>1, <2>2, <2>3, <2>7 DEF NetTypes
  <2>11. Watching'
    <3> SUFFICES ASSUME pc' = "watch"
                 PROVE  Watching'
      BY DEF Watching
    <3>1. /\ typed' = <<>> /\ todo' = Netboot!Commands /\ box' \notin {"kernel", "initrd", "linux"}
          /\ stage' = "AtShell" => box' = "shell" /\ console' # <<>>
      BY <1>1, <2>1, <2>2, <2>8, <2>9 DEF Watching, NetTypes
    <3>2. box \in {"off", "mfg", "stock", "auto"} => console' \in Seq(Pieces \ {"Entering"})
      BY <1>1, <2>1 DEF Watching, Netboot!Take
    <3>3. box \in {"mfg", "stock", "auto", "entering"} =>
             tail' = <<>> /\ console' \in Seq(Netboot!Lines)
      BY <1>1, <2>1, <2>2, <2>3 DEF Watching, Netboot!Take
    <3> QED BY <2>1, <2>8, <3>1, <3>2, <3>3 DEF Watching
  <2>12. Typing' /\ Waiting' /\ GivenUp'
    BY <1>1, <2>1, <2>8, <2>9 DEF Watching, Typing, Waiting, GivenUp, NetTypes
  <2> QED BY <2>10, <2>11, <2>12 DEF Follows
<1> QED BY <1>2, <1>3

(* What is typed and drained.                                              *)
LEMMA TypeSteps ==
  ASSUME Follows, Netboot!TypeCommand \/ Netboot!Sent \/ Netboot!TransferHangs
  PROVE  Follows'
<1>1. NetTypes /\ Watching /\ Typing /\ Waiting /\ GivenUp
  BY DEF Follows
<1>2. CASE Netboot!Sent
  <2>1. /\ pc = "next" /\ todo = <<>> /\ pc' = "sent"
        /\ UNCHANGED <<box, ram, console, typed, stage, tail, fedtail, todo, echoed>>
    BY <1>2 DEF Netboot!Sent, Netboot!boxvars
  <2>2. NetTypes' /\ Watching' /\ Waiting' /\ GivenUp'
    BY <1>1, <2>1 DEF NetTypes, Watching, Waiting, GivenUp
  <2>3. todo # Netboot!Commands /\ todo # <<"kernel", "initrd", "boot">>
        /\ todo # <<"initrd", "boot">> /\ todo # <<"boot">>
    BY <2>1, Todos
  <2>4. Typing'
    BY <1>1, <2>1, <2>3 DEF Typing, AllWhole, Whole
  <2> QED BY <2>2, <2>4 DEF Follows
<1>3. CASE Netboot!TransferHangs
  <2>1. /\ pc = "wait" /\ pc' = "failed"
        /\ UNCHANGED <<box, ram, console, typed, stage, tail, fedtail, todo, echoed>>
    BY <1>3 DEF Netboot!TransferHangs, Netboot!boxvars
  <2>2. NetTypes' /\ Watching' /\ Typing' /\ Waiting'
    BY <1>1, <2>1 DEF NetTypes, Watching, Typing, Waiting
  <2>3. GivenUp'
    BY <1>1, <2>1 DEF Typing, GivenUp
  <2> QED BY <2>2, <2>3 DEF Follows
<1>4. CASE Netboot!TypeCommand
  <2>1. /\ pc = "next" /\ todo # <<>> /\ typed' = Append(typed, Head(todo))
        /\ echoed' = FALSE /\ UNCHANGED <<box, ram, stage>>
        /\ Head(todo) \in Netboot!Images => /\ pc' = "wait" /\ todo' = todo
                                            /\ console' = <<>> /\ tail' = <<>>
        /\ Head(todo) \notin Netboot!Images => /\ pc' = "next" /\ todo' = Tail(todo)
                                               /\ console' = console /\ tail' = tail
    BY <1>4 DEF Netboot!TypeCommand, Netboot!Drained, Netboot!boxvars
  <2>2. NetTypes'
    <3>1. console' \in Seq(Pieces) /\ tail' \in Seq({"sh", "ell>"})
      <4>1. CASE Head(todo) \in Netboot!Images
        <5>1. console' = <<>> /\ tail' = <<>>
          BY <2>1, <4>1
        <5> QED BY <5>1
      <4>2. CASE Head(todo) \notin Netboot!Images
        BY <1>1, <2>1, <4>2 DEF NetTypes
      <4> QED BY <4>1, <4>2
    <3> QED BY <1>1, <2>1, <3>1 DEF NetTypes
  <2>3. Watching' /\ GivenUp'
    BY <2>1 DEF Watching, GivenUp
  <2>4. Append(<<>>, "ip") = <<"ip">> /\ Append(<<"ip">>, "kernel") = <<"ip", "kernel">>
        /\ Append(<<>>, "kernel") = <<"kernel">> /\ Append(<<>>, "initrd") = <<"initrd">>
        /\ Append(<<>>, "boot") = <<"boot">>
    <3>1. Append(<<>>, "ip") = <<"ip">> /\ Append(<<>>, "kernel") = <<"kernel">>
      OBVIOUS
    <3>2. Append(<<>>, "initrd") = <<"initrd">> /\ Append(<<>>, "boot") = <<"boot">>
      OBVIOUS
    <3>3. Append(<<"ip">>, "kernel") = <<"ip", "kernel">>
      <4> DEFINE a == Append(<<"ip">>, "kernel")
      <4>1. a \in Seq({"ip", "kernel"}) /\ Len(a) = 2 /\ a[1] = "ip" /\ a[2] = "kernel"
        OBVIOUS
      <4> HIDE DEF a
      <4>2. a = <<"ip", "kernel">>
        BY <4>1
      <4> QED BY <4>2 DEF a
    <3> QED BY <3>1, <3>2, <3>3
  <2>5. Typing'
    <3>1. CASE todo = Netboot!Commands /\ typed = <<>> /\ box = "shell"
      <4>1. Head(todo) = "ip" /\ Head(todo) \notin Netboot!Images
        BY <3>1, Todos DEF Netboot!Images
      <4> QED BY <2>1, <2>4, <3>1, <4>1, Todos DEF Typing
    <3>2. CASE todo = <<"kernel", "initrd", "boot">> /\ typed \in {<<"ip">>, <<>>} /\ box = "shell"
      <4>1. Head(todo) = "kernel" /\ Head(todo) \in Netboot!Images
        BY <3>2, Todos DEF Netboot!Images
      <4> QED BY <2>1, <2>4, <3>2, <4>1 DEF Typing
    <3>3. CASE todo = <<"initrd", "boot">> /\ Whole("kernel") /\ typed = <<>> /\ box = "shell"
      <4>1. Head(todo) = "initrd" /\ Head(todo) \in Netboot!Images
        BY <3>3, Todos DEF Netboot!Images
      <4> QED BY <2>1, <2>4, <3>3, <4>1 DEF Typing, Whole
    <3>4. CASE todo = <<"boot">> /\ AllWhole /\ typed = <<>> /\ box = "shell"
      <4>1. Head(todo) = "boot" /\ Head(todo) \notin Netboot!Images /\ Tail(todo) = <<>>
        BY <3>4, Todos DEF Netboot!Images
      <4> QED BY <2>1, <2>4, <3>4, <4>1 DEF Typing, AllWhole, Whole
    <3> QED BY <1>1, <2>1, <3>1, <3>2, <3>3, <3>4 DEF Typing
  <2>6. Waiting'
    <3> SUFFICES ASSUME pc' = "wait"
                 PROVE  Waiting'
      BY DEF Waiting
    <3>1. console' = <<>> /\ Len(console') = 0 /\ echoed' = FALSE
      BY <2>1
    <3>2. typed' # <<>>
      BY <2>1, <2>4, <2>5 DEF Typing, NetTypes, Waiting
    <3> QED BY <3>1, <3>2 DEF Waiting, NoEcho
  <2> QED BY <2>2, <2>3, <2>5, <2>6 DEF Follows
<1> QED BY <1>2, <1>3, <1>4

(* A read while it waits for a transfer.                                   *)
LEMMA WaitSteps ==
  ASSUME Follows, NEW last \in BOOLEAN, Netboot!WaitReads(last)
  PROVE  Follows'
<1> DEFINE c == console[1]
<1>1. NetTypes /\ Watching /\ Typing /\ Waiting /\ GivenUp /\ console \in Seq(Pieces)
  BY DEF Follows, NetTypes
<1>2. /\ pc = "wait" /\ Netboot!Take(last) /\ UNCHANGED <<box, ram, typed, stage>>
  BY DEF Netboot!WaitReads, Netboot!boxvars
<1>3. /\ console # <<>> /\ Len(console) \in Nat \ {0} /\ Head(console) = c /\ c \in Pieces
      /\ console' \in Seq(Pieces) /\ Len(console') = Len(console) - 1
      /\ \A i \in 1..Len(console') : console'[i] = console[i + 1]
  BY <1>1, <1>2, Taken
<1>4. /\ tail' \in Seq({"sh", "ell>"})
      /\ c \in Netboot!Lines => tail' = <<>>
  BY <1>1, <1>2, TailTaken
<1>5. echoed' <=> (echoed \/ c = "tftp_get")
  <2>1. echoed' = (echoed \/ Head(console) = "tftp_get")
    BY DEF Netboot!WaitReads
  <2> QED BY <1>3, <2>1, Zenon
<1>6. \/ c = "tftp_failed" /\ pc' = "failed" /\ todo' = todo
      \/ /\ c # "tftp_failed" /\ echoed' /\ tail' = Netboot!Prompt
         /\ pc' = "next" /\ todo' = Tail(todo)
      \/ c # "tftp_failed" /\ pc' = "wait" /\ todo' = todo
  BY <1>2, <1>3 DEF Netboot!WaitReads, Netboot!Finished
<1> HIDE DEF c
<1>7. NetTypes'
  <2>1. echoed' \in BOOLEAN
    BY DEF Netboot!WaitReads
  <2> QED BY <1>1, <1>2, <1>3, <1>4, <1>6, <2>1 DEF NetTypes
<1>8. typed # <<>> => c # "tftp_get" /\ ~echoed'
  BY <1>1, <1>2, <1>3, <1>5 DEF Waiting, NoEcho, c
<1>9. CASE c = "tftp_failed" /\ pc' = "failed" /\ todo' = todo
  <2>1. GivenUp'
    BY <1>1, <1>2, <1>9 DEF Typing, GivenUp
  <2> QED BY <1>7, <1>9, <2>1 DEF Follows, Watching, Typing, Waiting
<1>10. ASSUME typed = <<>>, ~Whole(todo[1]), c # "tftp_failed"
       PROVE  \E k \in 0..Len(console) :
                 /\ Unfinished(k) /\ k # 0 /\ k \in Nat
                 /\ k = 1 => c = "tftp_get" /\ echoed' /\ tail' = <<>>
                 /\ k > 1 => c # "tftp_get" /\ ~echoed'
  <2>1. PICK k \in 0..Len(console) : Unfinished(k)
    BY <1>1, <1>2, <1>10 DEF Waiting
  <2>2. k # 0
    BY <1>3, <1>10, <2>1 DEF Unfinished, c
  <2>3. k = 1 => c = "tftp_get" /\ echoed' /\ tail' = <<>>
    BY <1>3, <1>4, <1>5, <2>1 DEF Unfinished, c, Netboot!Lines
  <2>4. k > 1 => c # "tftp_get" /\ ~echoed'
    BY <1>3, <1>5, <2>1, <2>2 DEF Unfinished, NoEcho, c
  <2> QED BY <1>3, <2>1, <2>2, <2>3, <2>4
<1>11. CASE c # "tftp_failed" /\ echoed' /\ tail' = Netboot!Prompt
            /\ pc' = "next" /\ todo' = Tail(todo)
  <2>1. typed = <<>> /\ Whole(todo[1])
    <3>1. typed = <<>>
      BY <1>8, <1>11
    <3>2. tail' # <<>>
      BY <1>11, PromptSeq
    <3>3. ASSUME ~Whole(todo[1])
          PROVE  FALSE
      <4>1. PICK k \in 0..Len(console) :
                 /\ Unfinished(k) /\ k # 0 /\ k \in Nat
                 /\ k = 1 => c = "tftp_get" /\ echoed' /\ tail' = <<>>
                 /\ k > 1 => c # "tftp_get" /\ ~echoed'
        BY <1>10, <1>11, <3>1, <3>3
      <4> QED BY <1>11, <3>2, <4>1
    <3> QED BY <3>1, <3>3
  <2>2. box = "shell"
    BY <1>1, <1>2, <2>1 DEF Waiting
  <2>3. \/ todo = <<"kernel", "initrd", "boot">>
        \/ todo = <<"initrd", "boot">> /\ Whole("kernel")
    BY <1>1, <1>2, <2>1 DEF Typing
  <2>4. Typing'
    BY <1>2, <1>11, <2>1, <2>2, <2>3, Todos DEF Typing, Whole, AllWhole
  <2> QED BY <1>7, <1>11, <2>4 DEF Follows, Watching, Waiting, GivenUp
<1>12. CASE c # "tftp_failed" /\ pc' = "wait" /\ todo' = todo
  <2>1. Watching' /\ Typing' /\ GivenUp'
    BY <1>1, <1>2, <1>12 DEF Watching, Typing, GivenUp, Whole
  <2>2. typed' # <<>> => ~echoed' /\ NoEcho(Len(console))'
    <3>1. typed # <<>> => NoEcho(Len(console))
      BY <1>1, <1>2 DEF Waiting
    <3>2. NoEcho(Len(console)) => NoEcho(Len(console))'
      BY <1>3 DEF NoEcho
    <3> QED BY <1>2, <1>8, <3>1, <3>2
  <2>3. typed' = <<>> /\ ~Whole(todo[1])' => (\E k \in 0..Len(console) : Unfinished(k))'
    <3> SUFFICES ASSUME typed = <<>>, ~Whole(todo[1])
                 PROVE  (\E k \in 0..Len(console) : Unfinished(k))'
      BY <1>2, <1>12 DEF Whole
    <3>1. PICK k \in 0..Len(console) :
             /\ Unfinished(k) /\ k # 0 /\ k \in Nat
             /\ k = 1 => c = "tftp_get" /\ echoed' /\ tail' = <<>>
             /\ k > 1 => c # "tftp_get" /\ ~echoed'
      BY <1>10, <1>12
    <3> DEFINE m == k - 1
    <3>2. m \in 0..Len(console') /\ m \in Nat
      BY <1>3, <3>1
    <3>3. ((m = 0) <=> echoed') /\ (m = 0 => tail' = <<>>)
      BY <3>1
    <3>4. m # 0 => console'[m] = "tftp_get" /\ \A i \in 1..(m - 1) : console'[i] # "tftp_get"
      BY <1>3, <3>1 DEF Unfinished, NoEcho
    <3>5. IF box' = "shell" THEN m < Len(console') /\ console'[m + 1] = "tftp_failed"
          ELSE m = Len(console')
      BY <1>2, <1>3, <3>1 DEF Unfinished
    <3> HIDE DEF m
    <3>6. Unfinished(m)'
      BY <3>2, <3>3, <3>4, <3>5 DEF Unfinished, NoEcho
    <3> QED BY <3>2, <3>6
  <2>4. typed' = <<>> /\ box' # "shell" => ~Whole(todo[1])'
    BY <1>1, <1>2, <1>12 DEF Waiting, Whole
  <2>5. Waiting'
    BY <2>2, <2>3, <2>4 DEF Waiting
  <2> QED BY <1>7, <2>1, <2>5 DEF Follows
<1> QED BY <1>6, <1>9, <1>11, <1>12

(* The box reads a command.                                                *)
LEMMA ShellSteps ==
  ASSUME Follows, Netboot!ShellReads
  PROVE  Follows'
<1> DEFINE said == IF Head(typed) = "ip" THEN <<"ip">> \o Netboot!Prompt
                   ELSE IF Head(typed) = "boot" THEN <<"boot">> ELSE <<"tftp_get">>
<1>1. NetTypes /\ Watching /\ Typing /\ Waiting /\ GivenUp /\ console \in Seq(Pieces)
  BY DEF Follows, NetTypes
<1>2. /\ box = "shell" /\ typed # <<>> /\ typed' = Tail(typed)
      /\ UNCHANGED <<pc, stage, tail, todo, echoed>>
      /\ ram' = [i \in Netboot!Images |-> IF i = Head(typed) THEN "partial" ELSE ram[i]]
  BY DEF Netboot!ShellReads, Netboot!toolvars
<1>3. /\ Head(<<"ip">>) = "ip" /\ Tail(<<"ip">>) = <<>>
      /\ Head(<<"kernel">>) = "kernel" /\ Tail(<<"kernel">>) = <<>>
      /\ Head(<<"initrd">>) = "initrd" /\ Tail(<<"initrd">>) = <<>>
      /\ Head(<<"boot">>) = "boot" /\ Tail(<<"boot">>) = <<>>
      /\ Head(<<"ip", "kernel">>) = "ip" /\ Tail(<<"ip", "kernel">>) = <<"kernel">>
  <2>1. /\ Head(<<"ip">>) = "ip" /\ Tail(<<"ip">>) = <<>>
        /\ Head(<<"kernel">>) = "kernel" /\ Tail(<<"kernel">>) = <<>>
    OBVIOUS
  <2>2. /\ Head(<<"initrd">>) = "initrd" /\ Tail(<<"initrd">>) = <<>>
        /\ Head(<<"boot">>) = "boot" /\ Tail(<<"boot">>) = <<>>
    OBVIOUS
  <2>3. Head(<<"ip", "kernel">>) = "ip" /\ Tail(<<"ip", "kernel">>) = <<"kernel">>
    OBVIOUS
  <2> QED BY <2>1, <2>2, <2>3
<1>4. /\ pc \in {"next", "wait", "sent", "failed"}
      /\ typed \in {<<"ip">>, <<"ip", "kernel">>, <<"kernel">>, <<"initrd">>, <<"boot">>}
  BY <1>1, <1>2 DEF NetTypes, Watching, Typing, GivenUp
<1>5. Head(typed) \in {"ip", "kernel", "initrd", "boot"}
  BY <1>3, <1>4
<1>6. /\ Netboot!Says(said)
      /\ box' = IF Head(typed) = "ip" THEN "shell"
                ELSE IF Head(typed) = "boot" THEN "linux" ELSE Head(typed)
  <2>1. Netboot!ShellReads
    OBVIOUS
  <2>2. CASE Head(typed) = "ip"
    BY <2>1, <2>2 DEF Netboot!ShellReads, Netboot!Images
  <2>3. CASE Head(typed) = "boot"
    BY <2>1, <2>3 DEF Netboot!ShellReads, Netboot!Images
  <2>4. CASE Head(typed) \in {"kernel", "initrd"}
    BY <2>1, <2>4 DEF Netboot!ShellReads, Netboot!Images
  <2> QED BY <1>5, <2>2, <2>3, <2>4
<1>7. /\ said \in Seq(Pieces) /\ Len(said) \in Nat
      /\ \A i \in 1..Len(said) : said[i] = "tftp_get" => Head(typed) \in Netboot!Images
      /\ Head(typed) \in Netboot!Images => Len(said) = 1 /\ said[1] = "tftp_get"
  <2>1. CASE Head(typed) = "ip"
    <3> DEFINE s == <<"ip">> \o Netboot!Prompt
    <3>1. s \in Seq({"ip", "sh", "ell>"})
      BY DEF Netboot!Prompt
    <3>2. said = s
      BY <2>1
    <3> HIDE DEF s, said
    <3>3. \A i \in 1..Len(s) : s[i] # "tftp_get"
      BY <3>1
    <3>4. s \in Seq(Pieces) /\ Len(s) \in Nat
      BY <3>1 DEF Pieces, Netboot!Lines
    <3>5. Head(typed) \notin Netboot!Images
      BY <2>1 DEF Netboot!Images
    <3> QED BY <3>2, <3>3, <3>4, <3>5
  <2>2. CASE Head(typed) = "boot"
    <3>1. said = <<"boot">>
      BY <2>2
    <3> HIDE DEF said
    <3> QED BY <2>2, <3>1 DEF Pieces, Netboot!Lines, Netboot!Images
  <2>3. CASE Head(typed) \in {"kernel", "initrd"}
    <3>1. said = <<"tftp_get">>
      BY <2>3
    <3> HIDE DEF said
    <3> QED BY <2>3, <3>1 DEF Pieces, Netboot!Lines, Netboot!Images
  <2> QED BY <1>5, <2>1, <2>2, <2>3
<1> HIDE DEF said
<1>8. /\ console' \in Seq(Pieces) /\ Len(console') = Len(console) + Len(said)
      /\ Len(console) \in Nat
      /\ \A i \in 1..Len(console) : console'[i] = console[i]
      /\ \A i \in 1..Len(said) : console'[Len(console) + i] = said[i]
  BY <1>1, <1>6, <1>7, Said
<1>9. /\ ram' \in [Netboot!Images -> {"none", "partial", "whole"}]
      /\ \A i \in Netboot!Images : i # Head(typed) => ram'[i] = ram[i]
      /\ Head(typed) \in Netboot!Images => ram'[Head(typed)] = "partial"
  BY <1>1, <1>2 DEF NetTypes
<1>10. NetTypes'
  BY <1>1, <1>2, <1>5, <1>6, <1>8, <1>9 DEF NetTypes
<1>11. Watching'
  BY <1>2, <1>4 DEF Watching
<1>12. Typing' /\ GivenUp'
  <2> USE DEF Netboot!Images
  <2>1. CASE typed = <<"ip">>
    <3>1. pc = "next" /\ todo = <<"kernel", "initrd", "boot">>
      BY <1>1, <1>2, <2>1 DEF Typing, GivenUp, NetTypes, Watching
    <3> QED BY <1>2, <1>3, <1>6, <2>1, <3>1 DEF Typing, GivenUp
  <2>2. CASE typed = <<"ip", "kernel">>
    <3>1. \/ pc = "wait" /\ todo = <<"kernel", "initrd", "boot">>
          \/ pc = "failed"
      BY <1>1, <1>4, <2>2 DEF Typing, GivenUp, NetTypes, Watching
    <3> QED BY <1>2, <1>3, <1>6, <2>2, <3>1 DEF Typing, GivenUp
  <2>3. CASE typed = <<"kernel">>
    <3>1. \/ pc = "wait" /\ todo = <<"kernel", "initrd", "boot">>
          \/ pc = "failed"
      BY <1>1, <1>4, <2>3 DEF Typing, GivenUp, NetTypes, Watching
    <3> QED BY <1>2, <1>3, <1>6, <2>3, <3>1 DEF Typing, GivenUp
  <2>4. CASE typed = <<"initrd">>
    <3>1. \/ pc = "wait" /\ todo = <<"initrd", "boot">> /\ Whole("kernel")
          \/ pc = "failed"
      BY <1>1, <1>4, <2>4 DEF Typing, GivenUp, NetTypes, Watching
    <3>2. Whole("kernel") => Whole("kernel")'
      BY <1>3, <1>9, <2>4 DEF Whole
    <3> QED BY <1>2, <1>3, <1>6, <2>4, <3>1, <3>2 DEF Typing, GivenUp
  <2>5. CASE typed = <<"boot">>
    <3>1. pc \in {"next", "sent"} /\ todo = <<>> /\ AllWhole
      BY <1>1, <1>4, <2>5 DEF Typing, GivenUp, NetTypes, Watching
    <3>2. AllWhole => AllWhole'
      BY <1>3, <1>9, <2>5 DEF Whole, AllWhole
    <3> QED BY <1>2, <1>3, <1>6, <2>5, <3>1, <3>2 DEF Typing, GivenUp
  <2> QED BY <1>4, <2>1, <2>2, <2>3, <2>4, <2>5
<1>13. Waiting'
  <2> SUFFICES ASSUME pc = "wait"
               PROVE  Waiting'
    BY <1>2 DEF Waiting
  <2>1. ~echoed /\ NoEcho(Len(console))
    BY <1>1, <1>2 DEF Waiting
  <2>2. CASE typed = <<"ip", "kernel">>
    <3>1. typed' = <<"kernel">> /\ box' = "shell" /\ Head(typed) \notin Netboot!Images
      BY <1>2, <1>3, <1>6, <2>2 DEF Netboot!Images
    <3>2. NoEcho(Len(console))'
      <4> SUFFICES ASSUME NEW i \in 1..Len(console')
                   PROVE  console'[i] # "tftp_get"
        BY DEF NoEcho
      <4>1. CASE i <= Len(console)
        BY <1>8, <2>1, <4>1 DEF NoEcho
      <4>2. CASE i > Len(console)
        <5> DEFINE j == i - Len(console)
        <5>1. j \in 1..Len(said) /\ i = Len(console) + j
          BY <1>7, <1>8, <4>2
        <5> HIDE DEF j
        <5>2. console'[i] = said[j]
          BY <1>8, <5>1
        <5> QED BY <1>7, <3>1, <5>1, <5>2
      <4> QED BY <1>8, <4>1, <4>2
    <3> QED BY <1>2, <2>1, <3>1, <3>2 DEF Waiting
  <2>3. CASE typed = <<"kernel">> \/ typed = <<"initrd">>
    <3>1. typed' = <<>> /\ box' # "shell" /\ Head(typed) \in Netboot!Images
      BY <1>2, <1>3, <1>6, <2>3 DEF Netboot!Images
    <3>2. todo[1] = Head(typed)
      BY <1>1, <1>3, <2>3, Todos DEF Typing
    <3>3. ~Whole(todo[1])'
      BY <1>2, <1>9, <3>1, <3>2 DEF Whole
    <3>4. PICK k \in Nat : k = Len(console) + 1
      BY <1>8
    <3>5. k = Len(console') /\ k \in 0..Len(console') /\ k # 0 /\ console'[k] = "tftp_get"
      BY <1>7, <1>8, <3>1, <3>4
    <3>6. \A i \in 1..(k - 1) : console'[i] # "tftp_get"
      BY <1>8, <2>1, <3>4 DEF NoEcho
    <3>7. ~echoed'
      BY <1>2, <2>1
    <3>8. ((k = 0) <=> echoed') /\ k # 0 /\ k \in Nat
      BY <3>5, <3>7
    <3>9. Unfinished(k)'
      BY <3>1, <3>5, <3>6, <3>8 DEF Unfinished, NoEcho
    <3> QED BY <3>1, <3>3, <3>5, <3>9 DEF Waiting
  <2>4. typed \in {<<"ip", "kernel">>, <<"kernel">>, <<"initrd">>}
    BY <1>1, <1>2 DEF Typing
  <2> QED BY <2>2, <2>3, <2>4
<1> QED BY <1>10, <1>11, <1>12, <1>13 DEF Follows

(* A transfer ends.                                                        *)
LEMMA TransferSteps ==
  ASSUME Follows, Netboot!TransferEnds
  PROVE  Follows'
<1>1. NetTypes /\ Watching /\ Typing /\ Waiting /\ GivenUp /\ console \in Seq(Pieces)
  BY DEF Follows, NetTypes
<1>2. /\ box \in Netboot!Images /\ box' = "shell" /\ typed' = typed
      /\ UNCHANGED <<pc, stage, tail, todo, echoed>>
  BY DEF Netboot!TransferEnds, Netboot!toolvars
<1>3. \/ ram' = [ram EXCEPT ![box] = "whole"] /\ Netboot!Says(<<"length">> \o Netboot!Prompt)
      \/ ram' = ram /\ Netboot!Says(<<"tftp_failed">> \o Netboot!Prompt)
  BY DEF Netboot!TransferEnds
<1>4. /\ <<"length">> \o Netboot!Prompt \in Seq(Pieces)
      /\ <<"tftp_failed">> \o Netboot!Prompt \in Seq(Pieces)
      /\ Len(<<"tftp_failed">> \o Netboot!Prompt) \in Nat \ {0}
      /\ (<<"tftp_failed">> \o Netboot!Prompt)[1] = "tftp_failed"
  BY DEF Pieces, Netboot!Lines, Netboot!Prompt
<1>5. console' \in Seq(Pieces)
  BY <1>1, <1>3, <1>4, Said
<1>6. /\ ram' \in [Netboot!Images -> {"none", "partial", "whole"}]
      /\ \A i \in Netboot!Images : ram[i] = "whole" => ram'[i] = "whole"
  BY <1>1, <1>3 DEF NetTypes
<1>7. NetTypes'
  BY <1>1, <1>2, <1>5, <1>6 DEF NetTypes
<1>8. /\ pc = "failed" \/ (pc = "wait" /\ typed = <<>> /\ todo[1] = box)
  BY <1>1, <1>2, Todos DEF NetTypes, Watching, Typing, Netboot!Images
<1>9. Watching' /\ GivenUp'
  BY <1>1, <1>2, <1>8 DEF Watching, GivenUp
<1>10. Typing'
  <2>1. Whole("kernel") => Whole("kernel")'
    BY <1>6 DEF Whole, Netboot!Images
  <2> QED BY <1>1, <1>2, <1>8, <2>1 DEF Typing, Netboot!Images
<1>11. Waiting'
  <2> SUFFICES ASSUME pc = "wait"
               PROVE  Waiting'
    BY <1>2 DEF Waiting
  <2>1. CASE ram' = [ram EXCEPT ![box] = "whole"]
    <3>1. Whole(todo[1])'
      BY <1>1, <1>2, <1>8, <2>1 DEF Whole, NetTypes
    <3> QED BY <1>2, <1>8, <3>1 DEF Waiting
  <2>2. CASE ram' = ram /\ Netboot!Says(<<"tftp_failed">> \o Netboot!Prompt)
    <3> DEFINE said == <<"tftp_failed">> \o Netboot!Prompt
    <3>1. said \in Seq(Pieces) /\ Len(said) \in Nat \ {0} /\ said[1] = "tftp_failed"
          /\ Netboot!Says(said)
      BY <1>4, <2>2
    <3> HIDE DEF said
    <3>2. /\ Len(console') = Len(console) + Len(said) /\ Len(console) \in Nat
          /\ \A i \in 1..Len(console) : console'[i] = console[i]
          /\ console'[Len(console) + 1] = "tftp_failed"
      BY <1>1, <3>1, Said
    <3>3. CASE Whole(todo[1])
      BY <1>2, <1>8, <2>2, <3>3 DEF Waiting, Whole
    <3>4. CASE ~Whole(todo[1])
      <4>1. PICK k \in 0..Len(console) : Unfinished(k)
        BY <1>1, <1>8, <3>4 DEF Waiting
      <4>2. k = Len(console) /\ k \in Nat
        BY <1>2, <3>2, <4>1 DEF Unfinished, Netboot!Images
      <4>3. /\ k \in 0..Len(console') /\ k < Len(console') /\ console'[k + 1] = "tftp_failed"
        BY <3>1, <3>2, <4>2
      <4>4. /\ (k = 0) <=> echoed'
            /\ k = 0 => tail' = <<>>
        BY <1>2, <4>1 DEF Unfinished
      <4>5. k # 0 => console'[k] = "tftp_get" /\ \A i \in 1..(k - 1) : console'[i] # "tftp_get"
        BY <3>2, <4>1, <4>2 DEF Unfinished, NoEcho
      <4>6. Unfinished(k)'
        BY <1>2, <4>3, <4>4, <4>5 DEF Unfinished, NoEcho
      <4> QED BY <1>2, <1>8, <4>3, <4>6 DEF Waiting
    <3> QED BY <3>3, <3>4
  <2> QED BY <1>3, <2>1, <2>2
<1> QED BY <1>7, <1>9, <1>10, <1>11 DEF Follows

(* It begins with nothing on.                                              *)
LEMMA NetStart == Netboot!NetInit => NetInv
<1> SUFFICES ASSUME Netboot!NetInit
             PROVE  NetInv
  OBVIOUS
<1> USE DEF Netboot!NetInit
<1>1. NetTypes
  <2>1. console \in Seq(Pieces) /\ tail \in Seq({"sh", "ell>"})
    OBVIOUS
  <2>2. ram \in [Netboot!Images -> {"none", "partial", "whole"}]
    OBVIOUS
  <2>3. /\ box = "off" /\ pc = "watch" /\ stage \in Netboot!Stages
    BY DEF Netboot!Stages
  <2>4. echoed \in BOOLEAN
    BY Zenon
  <2> QED BY <2>1, <2>2, <2>3, <2>4 DEF NetTypes
<1>2. Watching
  BY DEF Watching
<1>3. Typing /\ Waiting /\ GivenUp
  BY DEF Typing, Waiting, GivenUp
<1> QED BY <1>1, <1>2, <1>3 DEF Follows, NetInv

(* A power cycle while the tool types, waits or is done.                    *)
LEMMA CycleSteps ==
  ASSUME NetInv, pc # "watch", NEW held \in BOOLEAN, Netboot!PowerCycle(held)
  PROVE  NetInv'
<1>1. /\ typed' = <<>> /\ box' \in {"mfg", "stock"} /\ UNCHANGED <<pc, todo, echoed>>
      /\ pc = "wait" => console = <<>>
      /\ console' = console \o (IF held THEN <<"Enabled">> ELSE <<"Disabled">>)
      /\ blind' = (blind \/ (pc = "next" /\ todo # <<>>) \/ (pc = "wait" /\ echoed))
  BY DEF Netboot!PowerCycle, Netboot!Says, Netboot!toolvars
<1>2. CASE blind'
  BY <1>2 DEF NetInv
<1>3. CASE ~blind'
  <2>1. ~blind /\ (pc = "next" => todo = <<>>) /\ (pc = "wait" => ~echoed)
    <3>1. blind' = TRUE <=> blind \/ (pc = "next" /\ todo # <<>>) \/ (pc = "wait" /\ echoed)
      BY <1>1, Zenon
    <3> QED BY <1>3, <3>1
  <2>2. pc \in {"wait", "sent", "failed", "next"}
    BY <2>1 DEF NetInv, Follows, NetTypes, Deaf
  <2>3. pc = "wait" => console' \in Seq(Pieces \ {"tftp_get"})
    <3>1. PICK c \in {"Enabled", "Disabled"} : console' = console \o <<c>>
      BY <1>1
    <3>2. c \in Pieces \ {"tftp_get"}
      BY DEF Pieces, Netboot!Lines
    <3>3. <<c>> \in Seq(Pieces \ {"tftp_get"})
      BY <3>2
    <3>4. pc = "wait" => console \in Seq(Pieces \ {"tftp_get"})
      BY <1>1
    <3> QED BY <3>1, <3>3, <3>4
  <2>4. Deaf'
    BY <1>1, <2>1, <2>2, <2>3 DEF Deaf
  <2> QED BY <2>4 DEF NetInv
<1> QED BY <1>2, <1>3

(* What can still happen to a box that was cycled.                         *)
LEMMA DeafSteps ==
  ASSUME Deaf, Netboot!NetNext, \A held \in BOOLEAN : ~Netboot!PowerCycle(held)
  PROVE  Deaf'
<1>1. CASE Netboot!ShellReads \/ Netboot!TransferEnds
  BY <1>1 DEF Deaf, Netboot!ShellReads, Netboot!TransferEnds, Netboot!Images
<1>2. CASE \/ \E last \in BOOLEAN : Netboot!WatchReads(last)
           \/ Netboot!WatchSilence \/ Netboot!GiveUp \/ Netboot!TypeCommand
  <2>1. ASSUME NEW last \in BOOLEAN, Netboot!WatchReads(last)
        PROVE  pc = "watch"
    BY <2>1 DEF Netboot!WatchReads
  <2>2. Netboot!WatchSilence \/ Netboot!GiveUp => pc = "watch"
    BY DEF Netboot!WatchSilence, Netboot!GiveUp
  <2>3. Netboot!TypeCommand => pc = "next" /\ todo # <<>>
    BY DEF Netboot!TypeCommand
  <2> QED BY <1>2, <2>1, <2>2, <2>3 DEF Deaf
<1>3. CASE Netboot!Sent \/ Netboot!TransferHangs
  BY <1>3 DEF Deaf, Netboot!Sent, Netboot!TransferHangs, Netboot!boxvars
<1>4. ASSUME NEW last \in BOOLEAN, Netboot!WaitReads(last)
      PROVE  Deaf'
  <2>1. /\ pc = "wait" /\ console # <<>> /\ console' = Tail(console)
        /\ UNCHANGED <<box, typed>> /\ console \in Seq(Pieces \ {"tftp_get"}) /\ ~echoed
        /\ echoed' = (echoed \/ Head(console) = "tftp_get")
    BY <1>4 DEF Netboot!WaitReads, Netboot!Take, Netboot!boxvars, Deaf
  <2>2. Head(console) # "tftp_get" /\ console' \in Seq(Pieces \ {"tftp_get"})
    BY <2>1
  <2>3. ~echoed'
    <3>1. echoed' <=> echoed \/ Head(console) = "tftp_get"
      BY <2>1, Zenon
    <3> QED BY <2>1, <2>2, <3>1
  <2>4. pc' \in {"wait", "failed"}
    BY <1>4, <2>1, <2>3 DEF Netboot!WaitReads, Netboot!Finished
  <2> QED BY <2>1, <2>2, <2>3, <2>4 DEF Deaf
<1>5. ASSUME NEW said, Netboot!Says(said), UNCHANGED <<typed, pc, todo, echoed>>,
             said \in Seq(Pieces \ {"tftp_get"}),
             box' \in {"off", "mfg", "stock", "auto", "entering", "shell"}
      PROVE  Deaf'
  <2>1. pc = "wait" => console' \in Seq(Pieces \ {"tftp_get"})
    BY <1>5 DEF Deaf, Netboot!Says
  <2> QED BY <1>5, <2>1 DEF Deaf
<1>6. /\ <<"Entering">> \in Seq(Pieces \ {"tftp_get"})
      /\ <<"AC_BOOT">> \in Seq(Pieces \ {"tftp_get"})
      /\ Netboot!Prompt \in Seq(Pieces \ {"tftp_get"})
      /\ <<"script">> \in Seq(Pieces \ {"tftp_get"})
  BY DEF Pieces, Netboot!Lines, Netboot!Prompt
<1>7. Netboot!Prompt \o <<"script">> \in Seq(Pieces \ {"tftp_get"})
  BY <1>6
<1>8. CASE Netboot!Cookie \/ Netboot!OtherDhcp
  BY <1>5, <1>6, <1>8 DEF Netboot!Cookie, Netboot!OtherDhcp, Netboot!toolvars
<1>9. CASE Netboot!Autoscript \/ Netboot!DropToShell
  BY <1>5, <1>6, <1>7, <1>9 DEF Netboot!Autoscript, Netboot!DropToShell, Netboot!toolvars
<1> QED BY <1>1, <1>2, <1>3, <1>4, <1>8, <1>9
     DEF Netboot!NetNext, Netboot!Box, Netboot!Tool

(* A step of a boot whose box was not cycled behind the tool's back.        *)
LEMMA FollowsStep ==
  ASSUME Follows, Netboot!NetNext, pc = "watch" \/ \A held \in BOOLEAN : ~Netboot!PowerCycle(held)
  PROVE  Follows'
<1>1. CASE \/ pc = "watch" /\ \E held \in BOOLEAN : Netboot!PowerCycle(held)
           \/ Netboot!Cookie \/ Netboot!OtherDhcp \/ Netboot!Autoscript \/ Netboot!DropToShell
  BY <1>1, NetBoxSteps
<1>2. CASE \/ \E last \in BOOLEAN : Netboot!WatchReads(last)
           \/ Netboot!WatchSilence \/ Netboot!GiveUp
  BY <1>2, WatchSteps
<1>3. CASE Netboot!TypeCommand \/ Netboot!Sent \/ Netboot!TransferHangs
  BY <1>3, TypeSteps
<1>4. CASE \E last \in BOOLEAN : Netboot!WaitReads(last)
  BY <1>4, WaitSteps
<1>5. CASE Netboot!ShellReads
  BY <1>5, ShellSteps
<1>6. CASE Netboot!TransferEnds
  BY <1>6, TransferSteps
<1> QED BY <1>1, <1>2, <1>3, <1>4, <1>5, <1>6 DEF Netboot!NetNext, Netboot!Box, Netboot!Tool

(* Every step keeps it.                                                    *)
LEMMA NetStep == NetInv /\ [Netboot!NetNext]_(Netboot!netvars) => NetInv'
<1> SUFFICES ASSUME NetInv, [Netboot!NetNext]_(Netboot!netvars)
             PROVE  NetInv'
  OBVIOUS
<1>1. CASE UNCHANGED Netboot!netvars
  BY <1>1 DEF NetInv, Follows, Deaf, NetTypes, Watching, Starts, Typing, Whole, AllWhole, Waiting,
       NoEcho, Unfinished, GivenUp, Netboot!netvars, Netboot!boxvars, Netboot!toolvars,
       Netboot!bounds
<1>2. CASE \E held \in BOOLEAN : pc # "watch" /\ Netboot!PowerCycle(held)
  BY <1>2, CycleSteps
<1>3. CASE /\ Netboot!NetNext
           /\ pc = "watch" \/ \A held \in BOOLEAN : ~Netboot!PowerCycle(held)
  <2>1. CASE Follows
    BY <1>3, <2>1, FollowsStep DEF NetInv
  <2>2. CASE Deaf
    BY <1>3, <2>2, DeafSteps DEF NetInv, Deaf
  <2>3. CASE blind
    <3>1. ASSUME NEW held \in BOOLEAN, Netboot!PowerCycle(held)
          PROVE  blind'
      BY <2>3, <3>1 DEF Netboot!PowerCycle
    <3>2. ASSUME Netboot!Box PROVE blind'
      <4>1. blind' = blind
        BY <3>2 DEF Netboot!Box, Netboot!Cookie, Netboot!OtherDhcp, Netboot!Autoscript,
           Netboot!DropToShell, Netboot!ShellReads, Netboot!TransferEnds, Netboot!bounds
      <4> QED BY <2>3, <4>1, Zenon
    <3>3. ASSUME Netboot!Tool \/ Netboot!GiveUp \/ Netboot!TransferHangs PROVE blind'
      <4>1. ASSUME NEW last \in BOOLEAN, Netboot!WatchReads(last) \/ Netboot!WaitReads(last)
            PROVE  UNCHANGED Netboot!bounds
        <5>1. CASE Netboot!WatchReads(last)
          BY <5>1, Zenon DEF Netboot!WatchReads
        <5>2. CASE Netboot!WaitReads(last)
          BY <5>2, Zenon DEF Netboot!WaitReads
        <5> QED BY <4>1, <5>1, <5>2
      <4>2. \/ Netboot!WatchSilence \/ Netboot!TypeCommand \/ Netboot!Sent \/ Netboot!GiveUp
            \/ Netboot!TransferHangs
            => UNCHANGED Netboot!bounds
        BY DEF Netboot!WatchSilence, Netboot!TypeCommand, Netboot!Sent, Netboot!GiveUp,
           Netboot!TransferHangs
      <4>3. UNCHANGED Netboot!bounds
        BY <3>3, <4>1, <4>2 DEF Netboot!Tool
      <4>4. blind' = blind
        BY <4>3 DEF Netboot!bounds
      <4> QED BY <2>3, <4>4, Zenon
    <3> QED BY <1>3, <3>1, <3>2, <3>3 DEF Netboot!NetNext, NetInv
  <2> QED BY <2>1, <2>2, <2>3 DEF NetInv
<1> QED BY <1>1, <1>2, <1>3

(* What it says of the two properties.                                     *)
LEMMA NetSafe == NetInv => NothingPartialRuns
<1> SUFFICES ASSUME NetInv, ~blind
             PROVE  Netboot!StartsWhole /\ Netboot!TypesAtShell
  BY DEF NothingPartialRuns, Netboot!NothingPartialRuns
<1>1. CASE Deaf
  BY <1>1 DEF Deaf, Netboot!StartsWhole, Netboot!TypesAtShell
<1>2. CASE Follows
  <2>1. NetTypes /\ Watching /\ Typing /\ GivenUp
    BY <1>2 DEF Follows
  <2>2. Netboot!StartsWhole
    <3> SUFFICES ASSUME box = "linux"
                 PROVE  \A i \in Netboot!Images : ram[i] = "whole"
      BY DEF Netboot!StartsWhole
    <3>1. AllWhole
      BY <2>1 DEF NetTypes, Watching, Typing, GivenUp
    <3> QED BY <3>1 DEF AllWhole, Whole, Netboot!Images
  <2>3. Netboot!TypesAtShell
    BY <2>1 DEF NetTypes, Watching, Typing, GivenUp, Netboot!TypesAtShell, Netboot!Images
  <2> QED BY <2>2, <2>3
<1> QED BY <1>1, <1>2 DEF NetInv

(* Booting into RAM, NothingPartialRuns: the box starts nothing that it was *)
(* not sent whole, and the commands are typed at its shell, unless its      *)
(* power was cycled where the tool cannot see it (netboot.rs).             *)
THEOREM NothingPartialRunsAlways == Netboot!NetSpec => []NothingPartialRuns
<1>1. Netboot!NetInit => NetInv
  BY NetStart
<1>2. NetInv /\ [Netboot!NetNext]_(Netboot!netvars) => NetInv'
  BY NetStep
<1>3. NetInv => NothingPartialRuns
  BY NetSafe
<1> QED BY <1>1, <1>2, <1>3, PTL DEF Netboot!NetSpec

-----------------------------------------------------------------------------
(* The TFTP server.  On a link that keeps order the client is at the block  *)
(* being sent or the one before it, and so is all that is on its way: what  *)
(* carries a block ends in those of the newer, and nothing acknowledges a   *)
(* block before the client has it.                                         *)
TftpTypes ==
    /\ server \in {"idle", "send", "wait", "sent", "failed"}
    /\ block \in 1..FileBlocks /\ got \in Nat
    /\ data \in Seq(Nat) /\ wire \in Seq(Nat) /\ Len(wire) = Len(data)
    /\ acks \in Seq(Nat)

OnTheirWay ==
    /\ \A i \in 1..Len(wire) : /\ data[i] = Tftp!Number(wire[i])
                               /\ wire[i] \in {block - 1, block}
                               /\ got = block => wire[i] = block
    /\ \A i, j \in 1..Len(wire) : i < j => wire[i] <= wire[j]

Acknowledged ==
    /\ \A i \in 1..Len(acks) : /\ acks[i] \in {Tftp!Number(block - 1), Tftp!Number(block)}
                               /\ acks[i] = Tftp!Number(block) => got = block
    /\ \A i, j \in 1..Len(acks) :
          i < j /\ acks[i] = Tftp!Number(block) => acks[j] = Tftp!Number(block)

Received ==
    /\ got \in {block - 1, block}
    /\ from \in Seq(Nat) /\ Len(from) = got /\ \A b \in 1..got : from[b] = b
    /\ server = "idle" => block = 1
    /\ server = "sent" => got = FileBlocks

TftpInv == TftpTypes /\ OnTheirWay /\ Acknowledged /\ Received

(* A block's number tells it from the next.                                *)
LEMMA Numbers ==
  ASSUME NEW b \in Nat
  PROVE  Tftp!Number(b) \in Nat /\ Tftp!Number(b) # Tftp!Number(b + 1)
<1> DEFINE q == b \div Wrap
           r == (b + 1) \div Wrap
<1>1. Wrap \in Nat /\ Wrap > 1
  BY TftpConstants
<1>2. /\ b = Wrap * q + (b % Wrap) /\ b + 1 = Wrap * r + ((b + 1) % Wrap)
      /\ q \in Int /\ r \in Int /\ b % Wrap \in Nat /\ (b + 1) % Wrap \in Nat
  BY <1>1
<1> HIDE DEF q, r
<1>3. ASSUME b % Wrap = (b + 1) % Wrap
      PROVE  FALSE
  <2> DEFINE d == r - q
  <2>1. d \in Int /\ Wrap * d = 1
    BY <1>1, <1>2, <1>3
  <2> HIDE DEF d
  <2>2. CASE d >= 1
    <3>1. Wrap * d >= Wrap
      BY <1>1, <2>1, <2>2
    <3> QED BY <1>1, <2>1, <3>1
  <2>3. CASE d <= 0
    <3>1. Wrap * d <= 0
      BY <1>1, <2>1, <2>3
    <3> QED BY <2>1, <3>1
  <2> QED BY <2>1, <2>2, <2>3
<1> QED BY <1>2, <1>3 DEF Tftp!Number

LEMMA ServerSteps ==
  ASSUME TftpInv, Tftp!Server
  PROVE  TftpInv'
<1>1. TftpTypes /\ OnTheirWay /\ Acknowledged /\ Received
  BY DEF TftpInv
<1>2. FileBlocks \in Nat \ {0} /\ block \in Nat \ {0} /\ block - 1 \in Nat
  BY <1>1, TftpConstants DEF TftpTypes
<1>3. CASE Tftp!serve_loop \/ Tftp!RecvTimeout
  <2>1. /\ server' = "send" /\ UNCHANGED <<got, from, data, acks, wire>>
        /\ block' = block
    BY <1>1, <1>3 DEF Tftp!serve_loop, Tftp!RecvTimeout, Tftp!client, Tftp!link, Received
  <2> QED BY <1>1, <2>1 DEF TftpInv, TftpTypes, OnTheirWay, Acknowledged, Received
<1>4. CASE Tftp!SendBlock
  <2>1. UNCHANGED <<block, got, from, acks>> /\ server' \in {"wait", "failed"}
    BY <1>4 DEF Tftp!SendBlock, Tftp!client
  <2>2. Acknowledged' /\ Received'
    BY <1>1, <2>1 DEF Acknowledged, Received
  <2>3. CASE UNCHANGED <<data, wire>>
    BY <1>1, <2>1, <2>2, <2>3 DEF TftpInv, TftpTypes, OnTheirWay
  <2>4. CASE data' = Append(data, Tftp!Number(block)) /\ wire' = Append(wire, block)
    <3>1. Tftp!Number(block) \in Nat
      BY <1>2, Numbers
    <3>2. /\ data' \in Seq(Nat) /\ wire' \in Seq(Nat)
          /\ Len(data') = Len(data) + 1 /\ Len(wire') = Len(wire) + 1
          /\ \A i \in 1..Len(wire) : data'[i] = data[i] /\ wire'[i] = wire[i]
          /\ data'[Len(wire) + 1] = Tftp!Number(block) /\ wire'[Len(wire) + 1] = block
      BY <1>1, <1>2, <2>4, <3>1 DEF TftpTypes
    <3>3. TftpTypes'
      BY <1>1, <2>1, <3>2 DEF TftpTypes
    <3>4. OnTheirWay'
      <4>1. Len(wire) \in Nat /\ wire \in Seq(Nat)
        BY <1>1 DEF TftpTypes
      <4>2. \A i \in 1..Len(wire') : /\ data'[i] = Tftp!Number(wire'[i])
                                     /\ wire'[i] \in {block - 1, block}
                                     /\ got = block => wire'[i] = block
        <5> SUFFICES ASSUME NEW i \in 1..Len(wire')
                     PROVE  /\ data'[i] = Tftp!Number(wire'[i])
                            /\ wire'[i] \in {block - 1, block}
                            /\ got = block => wire'[i] = block
          OBVIOUS
        <5>1. i \in 1..Len(wire) \/ i = Len(wire) + 1
          BY <3>2, <4>1
        <5>2. CASE i \in 1..Len(wire)
          BY <1>1, <3>2, <5>2 DEF OnTheirWay
        <5>3. CASE i = Len(wire) + 1
          BY <3>2, <5>3
        <5> QED BY <5>1, <5>2, <5>3
      <4>3. \A i, j \in 1..Len(wire') : i < j => wire'[i] <= wire'[j]
        <5> SUFFICES ASSUME NEW i \in 1..Len(wire'), NEW j \in 1..Len(wire'), i < j
                     PROVE  wire'[i] <= wire'[j]
          OBVIOUS
        <5> DEFINE n == Len(wire)
        <5>1. n \in Nat /\ i \in 1..n + 1 /\ j \in 1..n + 1
          BY <3>2, <4>1
        <5> HIDE DEF n
        <5>2. i \in 1..n /\ (j \in 1..n \/ j = n + 1)
          BY <5>1
        <5>3. i \in 1..Len(wire) /\ (j \in 1..Len(wire) \/ j = Len(wire) + 1)
          BY <5>2 DEF n
        <5>4. CASE j \in 1..Len(wire)
          BY <1>1, <3>2, <5>3, <5>4 DEF OnTheirWay
        <5>5. CASE j = Len(wire) + 1
          <6>1. wire[i] \in {block - 1, block}
            BY <1>1, <5>3 DEF OnTheirWay
          <6> QED BY <1>2, <3>2, <5>3, <5>5, <6>1
        <5> QED BY <5>3, <5>4, <5>5
      <4> QED BY <2>1, <4>2, <4>3 DEF OnTheirWay
    <3> QED BY <2>2, <3>3, <3>4 DEF TftpInv
  <2> QED BY <1>4, <2>3, <2>4 DEF Tftp!SendBlock
<1>5. CASE Tftp!RecvAck
  <2>1. /\ acks # <<>> /\ acks' = Tail(acks) /\ UNCHANGED <<got, from, data, wire>>
    BY <1>5 DEF Tftp!RecvAck, Tftp!client
  <2>2. /\ acks' \in Seq(Nat) /\ Len(acks') = Len(acks) - 1 /\ Len(acks) \in Nat \ {0}
        /\ Head(acks) = acks[1] /\ \A i \in 1..Len(acks') : acks'[i] = acks[i + 1]
    BY <1>1, <2>1 DEF TftpTypes
  <2>3. \/ server' = "send" /\ block' = block
        \/ /\ acks[1] = Tftp!Number(block) /\ block = FileBlocks
           /\ server' = "sent" /\ block' = block
        \/ /\ acks[1] = Tftp!Number(block) /\ block # FileBlocks
           /\ server' = "send" /\ block' = block + 1
    BY <1>5, <2>2 DEF Tftp!RecvAck, Tftp!IsAck
  <2>4. acks[1] = Tftp!Number(block) => got = block
    BY <1>1, <2>2 DEF Acknowledged
  <2>5. CASE block' = block
    <3>1. server' \in {"send", "sent"} /\ (server' = "sent" => got = FileBlocks)
      BY <1>2, <2>3, <2>4, <2>5
    <3>2. Received'
      BY <1>1, <2>1, <2>5, <3>1 DEF Received
    <3>3. Acknowledged'
      <4>1. \A i \in 1..Len(acks') :
               /\ acks'[i] \in {Tftp!Number(block - 1), Tftp!Number(block)}
               /\ acks'[i] = Tftp!Number(block) => got = block
        BY <1>1, <2>2 DEF Acknowledged
      <4>2. \A i, j \in 1..Len(acks') :
               i < j /\ acks'[i] = Tftp!Number(block) => acks'[j] = Tftp!Number(block)
        <5> SUFFICES ASSUME NEW i \in 1..Len(acks'), NEW j \in 1..Len(acks'), i < j,
                            acks'[i] = Tftp!Number(block)
                     PROVE  acks'[j] = Tftp!Number(block)
          OBVIOUS
        <5>1. /\ acks'[i] = acks[i + 1] /\ i + 1 \in 1..Len(acks)
              /\ acks'[j] = acks[j + 1] /\ j + 1 \in 1..Len(acks)
          BY <2>2
        <5>2. i + 1 < j + 1
          OBVIOUS
        <5> QED BY <1>1, <5>1, <5>2 DEF Acknowledged
      <4> QED BY <2>1, <2>5, <4>1, <4>2 DEF Acknowledged
    <3>4. TftpTypes' /\ OnTheirWay'
      BY <1>1, <2>1, <2>2, <2>5, <3>1 DEF TftpTypes, OnTheirWay
    <3> QED BY <3>2, <3>3, <3>4 DEF TftpInv
  <2>6. CASE acks[1] = Tftp!Number(block) /\ block # FileBlocks
             /\ server' = "send" /\ block' = block + 1
    <3>1. got = block /\ block' - 1 = block /\ got # block' /\ block' \in 1..FileBlocks
      BY <1>1, <1>2, <2>4, <2>6 DEF TftpTypes
    <3>2. TftpTypes'
      BY <1>1, <2>1, <2>2, <2>6, <3>1 DEF TftpTypes
    <3>3. Received'
      BY <1>1, <2>1, <2>6, <3>1 DEF Received
    <3>4. OnTheirWay'
      BY <1>1, <2>1, <3>1 DEF OnTheirWay
    <3>5. \A i \in 1..Len(acks') : acks'[i] = Tftp!Number(block)
      BY <1>1, <2>2, <2>6 DEF Acknowledged
    <3>6. Tftp!Number(block) # Tftp!Number(block + 1)
      BY <1>2, Numbers
    <3>7. Acknowledged'
      BY <2>1, <2>6, <3>1, <3>5, <3>6 DEF Acknowledged, Tftp!Number
    <3> QED BY <3>2, <3>3, <3>4, <3>7 DEF TftpInv
  <2> QED BY <2>3, <2>5, <2>6
<1> QED BY <1>3, <1>4, <1>5 DEF Tftp!Server

(* The client takes a block, or the link loses it.                         *)
LEMMA ClientSteps ==
  ASSUME NEW lost \in BOOLEAN, TftpInv, Tftp!ClientData(lost) \/ Tftp!DataLost
  PROVE  TftpInv'
<1>1. TftpTypes /\ OnTheirWay /\ Acknowledged /\ Received
  BY DEF TftpInv
<1>2. FileBlocks \in Nat \ {0} /\ block \in Nat \ {0} /\ block - 1 \in Nat
  BY <1>1, TftpConstants DEF TftpTypes
<1>3. /\ data # <<>> /\ data' = Tail(data) /\ wire' = Tail(wire)
      /\ UNCHANGED <<server, block>>
  BY DEF Tftp!ClientData, Tftp!DataLost, Tftp!tftp
<1> DEFINE w == wire[1]
<1>4. /\ wire # <<>> /\ Len(wire) \in Nat \ {0} /\ Head(data) = data[1] /\ Head(wire) = w
      /\ data' \in Seq(Nat) /\ wire' \in Seq(Nat) /\ Len(wire') = Len(data')
      /\ Len(wire') = Len(wire) - 1
      /\ \A i \in 1..Len(wire') : data'[i] = data[i + 1] /\ wire'[i] = wire[i + 1]
  BY <1>1, <1>3 DEF TftpTypes
<1>5. /\ w \in {block - 1, block} /\ Head(data) = Tftp!Number(w)
      /\ got = block => w = block
      /\ w = block => \A i \in 1..Len(wire') : wire'[i] = block
  <2>1. /\ w \in {block - 1, block} /\ data[1] = Tftp!Number(w)
        /\ got = block => w = block
    BY <1>1, <1>4 DEF OnTheirWay
  <2>2. ASSUME w = block, NEW i \in 1..Len(wire')
        PROVE  wire'[i] = block
    <3>1. i + 1 \in 1..Len(wire) /\ 1 \in 1..Len(wire) /\ wire'[i] = wire[i + 1] /\ 1 < i + 1
      BY <1>4
    <3>2. wire[1] <= wire[i + 1] /\ wire[i + 1] \in {block - 1, block}
      BY <1>1, <3>1 DEF OnTheirWay
    <3> QED BY <1>2, <2>2, <3>1, <3>2
  <2> QED BY <1>4, <2>1, <2>2
<1> HIDE DEF w
<1>6. ASSUME got' \in {got, block}, got' = block => w = block
      PROVE  OnTheirWay'
  <2>1. \A i \in 1..Len(wire') : /\ data'[i] = Tftp!Number(wire'[i])
                                 /\ wire'[i] \in {block - 1, block}
                                 /\ got = block => wire'[i] = block
    <3> SUFFICES ASSUME NEW i \in 1..Len(wire')
                 PROVE  /\ data'[i] = Tftp!Number(wire'[i])
                        /\ wire'[i] \in {block - 1, block}
                        /\ got = block => wire'[i] = block
      OBVIOUS
    <3>1. i + 1 \in 1..Len(wire) /\ data'[i] = data[i + 1] /\ wire'[i] = wire[i + 1]
      BY <1>4
    <3> QED BY <1>1, <3>1 DEF OnTheirWay
  <2>2. \A i, j \in 1..Len(wire') : i < j => wire'[i] <= wire'[j]
    <3> SUFFICES ASSUME NEW i \in 1..Len(wire'), NEW j \in 1..Len(wire'), i < j
                 PROVE  wire'[i] <= wire'[j]
      OBVIOUS
    <3>1. /\ i + 1 \in 1..Len(wire) /\ j + 1 \in 1..Len(wire) /\ i + 1 < j + 1
          /\ wire'[i] = wire[i + 1] /\ wire'[j] = wire[j + 1]
      BY <1>4
    <3> QED BY <1>1, <3>1 DEF OnTheirWay
  <2>3. got' = block => \A i \in 1..Len(wire') : wire'[i] = block
    BY <1>5, <1>6
  <2> QED BY <1>3, <2>1, <2>2, <2>3 DEF OnTheirWay
<1>7. CASE Tftp!DataLost
  <2>1. UNCHANGED <<got, from, acks>>
    BY <1>7 DEF Tftp!DataLost, Tftp!client
  <2>2. TftpTypes' /\ Acknowledged' /\ Received'
    BY <1>1, <1>3, <1>4, <2>1 DEF TftpTypes, Acknowledged, Received
  <2>3. OnTheirWay'
    BY <1>5, <1>6, <2>1
  <2> QED BY <2>2, <2>3 DEF TftpInv
<1>8. CASE Tftp!ClientData(lost)
  <2>1. /\ IF Tftp!Number(w) = Tftp!Number(got + 1) /\ got < FileBlocks
           THEN got' = got + 1 /\ from' = Append(from, w)
           ELSE got' = got /\ from' = from
        /\ acks' \in {acks, Append(acks, Tftp!Number(w))}
    BY <1>4, <1>5, <1>8 DEF Tftp!ClientData, Tftp!client
  <2>2. /\ got \in {block - 1, block} /\ got \in Nat /\ block <= FileBlocks
        /\ from \in Seq(Nat) /\ Len(from) = got /\ \A b \in 1..got : from[b] = b
    BY <1>1 DEF Received, TftpTypes
  <2>3. /\ Tftp!Number(block) # Tftp!Number(block + 1)
        /\ Tftp!Number(block - 1) # Tftp!Number(block)
        /\ Tftp!Number(block) \in Nat /\ Tftp!Number(block - 1) \in Nat
    <3>1. (block - 1) + 1 = block
      BY <1>2
    <3>2. /\ Tftp!Number(block - 1) # Tftp!Number((block - 1) + 1)
          /\ Tftp!Number(block - 1) \in Nat
      BY <1>2, Numbers
    <3>3. Tftp!Number(block) # Tftp!Number(block + 1) /\ Tftp!Number(block) \in Nat
      BY <1>2, Numbers
    <3> QED BY <3>1, <3>2, <3>3
  <2>4. \/ /\ got = block - 1 /\ w = block /\ got' = block
           /\ from' = Append(from, block)
        \/ got' = got /\ from' = from /\ (got = block => w = block)
           /\ (got = block - 1 => w = block - 1)
    <3>1. CASE got = block
      <4>1. w = block /\ got + 1 = block + 1
        BY <1>5, <3>1
      <4> QED BY <1>2, <2>1, <2>3, <3>1, <4>1
    <3>2. CASE got = block - 1
      <4>1. got + 1 = block /\ got < FileBlocks
        BY <1>2, <2>2, <3>2
      <4>2. CASE w = block
        BY <2>1, <3>2, <4>1, <4>2
      <4>3. CASE w = block - 1
        BY <1>2, <2>1, <2>3, <3>2, <4>1, <4>3
      <4> QED BY <1>5, <4>2, <4>3
    <3> QED BY <2>2, <3>1, <3>2
  <2>5. got' \in {got, block} /\ (got' = block => w = block)
    BY <1>2, <2>2, <2>4
  <2>6. OnTheirWay'
    BY <1>6, <2>5
  <2>7. Received'
    <3>1. CASE got = block - 1 /\ got' = block /\ from' = Append(from, block)
      <4>1. /\ from' \in Seq(Nat) /\ Len(from') = got' /\ from'[got'] = block
            /\ \A b \in 1..got : from'[b] = from[b]
        BY <1>2, <2>2, <3>1
      <4>2. \A b \in 1..got' : from'[b] = b
        BY <1>2, <2>2, <3>1, <4>1
      <4>3. server # "sent"
        BY <1>1, <1>2, <2>2, <3>1 DEF Received
      <4> QED BY <1>1, <1>3, <3>1, <4>1, <4>2, <4>3 DEF Received
    <3>2. CASE got' = got /\ from' = from
      BY <1>1, <1>3, <3>2 DEF Received
    <3> QED BY <2>4, <3>1, <3>2
  <2>8. acks' \in Seq(Nat) /\ Acknowledged'
    <3>1. /\ acks \in Seq(Nat) /\ Len(acks) \in Nat
          /\ \A i \in 1..Len(acks) : /\ acks[i] \in {Tftp!Number(block - 1), Tftp!Number(block)}
                                     /\ acks[i] = Tftp!Number(block) => got = block
          /\ \A i, j \in 1..Len(acks) :
                i < j /\ acks[i] = Tftp!Number(block) => acks[j] = Tftp!Number(block)
      BY <1>1 DEF Acknowledged, TftpTypes
    <3>2. got = block => got' = block
      BY <1>2, <2>4
    <3>3. CASE acks' = acks
      BY <1>3, <3>1, <3>2, <3>3 DEF Acknowledged
    <3>4. CASE acks' = Append(acks, Tftp!Number(w))
      <4>1. /\ Tftp!Number(w) \in {Tftp!Number(block - 1), Tftp!Number(block)}
            /\ Tftp!Number(w) \in Nat
            /\ Tftp!Number(w) = Tftp!Number(block) <=> w = block
        BY <1>5, <2>3
      <4>2. /\ acks' \in Seq(Nat) /\ Len(acks') = Len(acks) + 1
            /\ \A i \in 1..Len(acks) : acks'[i] = acks[i]
            /\ acks'[Len(acks) + 1] = Tftp!Number(w)
        BY <3>1, <3>4, <4>1
      <4>3. w = block <=> got' = block
        BY <1>2, <2>2, <2>4
      <4>4. \A i \in 1..Len(acks') :
               /\ acks'[i] \in {Tftp!Number(block - 1), Tftp!Number(block)}
               /\ acks'[i] = Tftp!Number(block) => got' = block
        <5> SUFFICES ASSUME NEW i \in 1..Len(acks')
                     PROVE  /\ acks'[i] \in {Tftp!Number(block - 1), Tftp!Number(block)}
                            /\ acks'[i] = Tftp!Number(block) => got' = block
          OBVIOUS
        <5>1. i \in 1..Len(acks) \/ i = Len(acks) + 1
          BY <3>1, <4>2
        <5>2. CASE i \in 1..Len(acks)
          BY <3>1, <3>2, <4>2, <5>2
        <5>3. CASE i = Len(acks) + 1
          BY <4>1, <4>2, <4>3, <5>3
        <5> QED BY <5>1, <5>2, <5>3
      <4>5. \A i, j \in 1..Len(acks') :
               i < j /\ acks'[i] = Tftp!Number(block) => acks'[j] = Tftp!Number(block)
        <5> SUFFICES ASSUME NEW i \in 1..Len(acks'), NEW j \in 1..Len(acks'), i < j,
                            acks'[i] = Tftp!Number(block)
                     PROVE  acks'[j] = Tftp!Number(block)
          OBVIOUS
        <5>1. i \in 1..Len(acks) /\ acks[i] = Tftp!Number(block)
          BY <3>1, <4>2
        <5> DEFINE n == Len(acks)
        <5>2. n \in Nat /\ j \in 1..n + 1
          BY <3>1, <4>2
        <5> HIDE DEF n
        <5>3. j \in 1..n \/ j = n + 1
          BY <5>2
        <5>4. CASE j = n + 1
          BY <3>1, <3>2, <4>1, <4>2, <4>3, <5>1, <5>4 DEF n
        <5>5. CASE j \in 1..n
          BY <3>1, <4>2, <5>1, <5>5 DEF n
        <5> QED BY <5>3, <5>4, <5>5
      <4> QED BY <1>3, <4>2, <4>4, <4>5 DEF Acknowledged
    <3> QED BY <2>1, <3>3, <3>4
  <2>9. TftpTypes'
    BY <1>1, <1>2, <1>3, <1>4, <2>4, <2>8 DEF TftpTypes
  <2> QED BY <2>6, <2>7, <2>8, <2>9 DEF TftpInv
<1> QED BY <1>7, <1>8

LEMMA TftpStart == Tftp!TftpInit => TftpInv
<1> SUFFICES ASSUME Tftp!TftpInit
             PROVE  TftpInv
  OBVIOUS
<1> USE DEF Tftp!TftpInit
<1>1. TftpTypes
  BY TftpConstants DEF TftpTypes
<1>2. OnTheirWay /\ Acknowledged
  BY DEF OnTheirWay, Acknowledged
<1>3. Received
  BY DEF Received
<1> QED BY <1>1, <1>2, <1>3 DEF TftpInv

LEMMA TftpStep == TftpInv /\ [Tftp!TftpNext]_(Tftp!tftpvars) => TftpInv'
<1> SUFFICES ASSUME TftpInv, [Tftp!TftpNext]_(Tftp!tftpvars)
             PROVE  TftpInv'
  OBVIOUS
<1>1. CASE UNCHANGED Tftp!tftpvars
  BY <1>1 DEF TftpInv, TftpTypes, OnTheirWay, Acknowledged, Received, Tftp!tftpvars,
       Tftp!tftp, Tftp!client, Tftp!link
<1>2. CASE Tftp!TftpNext
  BY <1>2, ServerSteps, ClientSteps DEF Tftp!TftpNext, Tftp!Client
<1> QED BY <1>1, <1>2

LEMMA TftpSafe == TftpInv => SentIsReceived
<1> SUFFICES ASSUME TftpInv, server = "sent"
             PROVE  from = [b \in 1..FileBlocks |-> b]
  BY DEF SentIsReceived, Tftp!SentIsReceived
<1>1. from \in Seq(Nat) /\ Len(from) = FileBlocks /\ \A b \in 1..FileBlocks : from[b] = b
  BY DEF TftpInv, Received
<1>2. from = [b \in 1..Len(from) |-> from[b]]
  BY <1>1
<1> QED BY <1>1, <1>2

(* What the TFTP server reports sent was received whole and in order, for   *)
(* any file, any number of losses and late answers, and numbers of any      *)
(* width of at least a bit (tftp.rs, send_file).                           *)
THEOREM SentIsReceivedAlways == Tftp!TftpSpec => []SentIsReceived
BY TftpStart, TftpStep, TftpSafe, PTL DEF Tftp!TftpSpec

-----------------------------------------------------------------------------
(* A behaviour of MCFlasher is one of each part, so what is proved of each  *)
(* holds of it.                                                            *)

(* The flasher: two installs never run at once, an EA's script reads whole  *)
(* images and wipes p1 only as asked, no partial image is started over the *)
(* network, what TFTP reports sent was received, and an HC-800 restores    *)
(* only when asked, each with the exceptions its property names.           *)
THEOREM FlasherIsSafe ==
  Spec => [](/\ OneInstall /\ EaBoxSafe /\ NothingPartialRuns /\ SentIsReceived
             /\ RestoresOnlyAsked)
<1>1. Init => Hc!Init /\ Ea!Init /\ Gui!Init /\ NetInv /\ TftpInv
  BY NetStart, TftpStart DEF Init
<1>2. [Next]_vars => [Hc!Next]_(Hc!vars)
  BY DEF Next, vars, hc, Hc!vars, Hc!bootloader, Hc!images, Hc!work
<1>3. [Next]_vars => [Ea!Next]_(Ea!vars) /\ [Gui!Next]_(Gui!vars)
  BY DEF Next, vars, ea, gui, Ea!vars, Ea!emmc, Ea!nor, Ea!count, Gui!vars, Gui!app,
     Gui!shared
<1>4. [Next]_vars => [Netboot!NetNext]_(Netboot!netvars)
  BY DEF Next, vars, net, Netboot!netvars, Netboot!boxvars, Netboot!toolvars,
       Netboot!bounds
<1>5. [Next]_vars => [Tftp!TftpNext]_(Tftp!tftpvars)
  BY DEF Next, vars, tftp, Tftp!tftpvars, Tftp!tftp, Tftp!client, Tftp!link
<1>6. Spec => Hc!Spec
  BY <1>1, <1>2, PTL DEF Spec, Hc!Spec
<1>7. Spec => [](OneInstall /\ EaBoxSafe)
  BY <1>1, <1>3, OneInstallAlways, EaBoxSafeAlways, PTL DEF Spec, Ea!Spec, Gui!Spec
<1>8. Spec => []NothingPartialRuns
  BY <1>1, <1>4, NetStep, NetSafe, PTL DEF Spec
<1>9. Spec => []SentIsReceived
  BY <1>1, <1>5, TftpStep, TftpSafe, PTL DEF Spec
<1>10. Spec => []RestoresOnlyAsked
  BY <1>6, RestoresOnlyAskedAlways, PTL
<1> QED BY <1>7, <1>8, <1>9, <1>10, PTL
=============================================================================
