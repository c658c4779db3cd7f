-------------------------- MODULE IomcuLoader_proof --------------------------
(***************************************************************************)
(* Proofs about IomcuLoader: for every number of tries, faults, restarts   *)
(* and uploads, with a reset line or without, its type invariant, that the *)
(* part never runs an application its slot does not hold whole, and that   *)
(* nothing but a fault makes its bootloader deaf.                          *)
(***************************************************************************)
EXTENDS IomcuLoader, TLAPS

(* The places inside ohc_bl_write, and inside the loop of ohc_flash.       *)
WritePlaces == {"erase", "writeStub", "writeRest", "eraseFirst", "writeFirst"}
TryPlaces == WritePlaces \cup {"enter", "enterKnock"}

(* What each step of the write may rely on: the bootloader is listening,   *)
(* the stub precedes the rest, and the rest precedes the last page.        *)
Written ==
    /\ pc \in WritePlaces => cpu = "synced"
    /\ pc = "writeRest" => first = "stub"
    /\ pc \in {"eraseFirst", "writeFirst"} => rest = "new"

(* A first page with an application's vectors stands before all of it.     *)
Whole == first \in Versions => rest = first

(* The slot whatever happens to it; and the counters, the loop's below its *)
(* bound whenever its body runs.                                           *)
SlotOK == Written /\ Whole /\ OnlyWholeAppsRun
Counted == CountsOK /\ (pc \in TryPlaces => tries < MaxTries)

LoaderInv == PlacesOK /\ FlagsOK /\ SlotOK /\ Counted

-----------------------------------------------------------------------------
(* The part at power-on.                                                   *)
LEMMA LoaderInit == Init => LoaderInv
<1> SUFFICES ASSUME Init PROVE LoaderInv
  OBVIOUS
<1>1. PlacesOK
  BY DEF Init, PlacesOK, Versions, Pages, BootStates, Places, Raw
<1>2. FlagsOK
  BY DEF Init, FlagsOK
<1>3. SlotOK
  BY DEF Init, SlotOK, Written, Whole, OnlyWholeAppsRun, WritePlaces
<1>4. Counted
  BY LoaderAssumption DEF LoaderAssumption, Init, Counted, CountsOK, WritePlaces, TryPlaces
<1> QED
  BY <1>1, <1>2, <1>3, <1>4 DEF LoaderInv

(* The bring-up and the first identification (ohc_identify).               *)
LEMMA IdentifyStep ==
    ASSUME LoaderInv, Probe \/ Knock \/ Run \/ RunKnock \/ Version \/ Config
    PROVE  LoaderInv'
<1> USE DEF LoaderInv, Goto, Lossy, part, slot, driver, history, Versions, Pages,
            BootStates, Places, Raw, WritePlaces, TryPlaces, SendPlaces
<1>1. CASE Probe
  <2>1. PlacesOK'
    BY <1>1 DEF PlacesOK, SlotOK, Written, Whole, OnlyWholeAppsRun, Probe
  <2>2. FlagsOK'
    BY <1>1 DEF FlagsOK, Probe
  <2>3. SlotOK'
    BY <1>1 DEF PlacesOK, SlotOK, Written, Whole, OnlyWholeAppsRun, Probe
  <2>4. Counted'
    BY <1>1, LoaderAssumption DEF LoaderAssumption, Counted, CountsOK, Probe
  <2> QED
    BY <2>1, <2>2, <2>3, <2>4
<1>2. CASE Knock
  <2>1. PlacesOK'
    BY <1>2 DEF PlacesOK, SlotOK, Written, Whole, OnlyWholeAppsRun, Knock, AfterKnock
  <2>2. FlagsOK'
    BY <1>2 DEF FlagsOK, Knock, AfterKnock
  <2>3. SlotOK'
    BY <1>2 DEF PlacesOK, SlotOK, Written, Whole, OnlyWholeAppsRun, Knock, AfterKnock
  <2>4. Counted'
    BY <1>2, LoaderAssumption DEF LoaderAssumption, Counted, CountsOK, Knock, AfterKnock
  <2> QED
    BY <2>1, <2>2, <2>3, <2>4
<1>3. CASE Run
  <2>1. PlacesOK'
    BY <1>3 DEF PlacesOK, SlotOK, Written, Whole, OnlyWholeAppsRun, Run, Jump, ResetPart
  <2>2. FlagsOK'
    BY <1>3 DEF FlagsOK, Run, Jump, ResetPart
  <2>3. SlotOK'
    BY <1>3 DEF PlacesOK, SlotOK, Written, Whole, OnlyWholeAppsRun, Run, Jump, ResetPart
  <2>4. Counted'
    BY <1>3, LoaderAssumption DEF LoaderAssumption, Counted, CountsOK, Run, Jump,
           ResetPart
  <2> QED
    BY <2>1, <2>2, <2>3, <2>4
<1>4. CASE RunKnock
  <2>1. PlacesOK'
    BY <1>4 DEF PlacesOK, SlotOK, Written, Whole, OnlyWholeAppsRun, RunKnock, AfterKnock
  <2>2. FlagsOK'
    BY <1>4 DEF FlagsOK, RunKnock, AfterKnock
  <2>3. SlotOK'
    BY <1>4 DEF PlacesOK, SlotOK, Written, Whole, OnlyWholeAppsRun, RunKnock, AfterKnock
  <2>4. Counted'
    BY <1>4, LoaderAssumption DEF LoaderAssumption, Counted, CountsOK, RunKnock,
           AfterKnock
  <2> QED
    BY <2>1, <2>2, <2>3, <2>4
<1>5. CASE Version
  <2>1. PlacesOK'
    BY <1>5 DEF PlacesOK, SlotOK, Written, Whole, OnlyWholeAppsRun, Version, ReadVersion,
           AfterFrame
  <2>2. FlagsOK'
    BY <1>5 DEF FlagsOK, Version, ReadVersion, AfterFrame
  <2>3. SlotOK'
    BY <1>5 DEF PlacesOK, SlotOK, Written, Whole, OnlyWholeAppsRun, Version, ReadVersion,
           AfterFrame
  <2>4. Counted'
    BY <1>5, LoaderAssumption DEF LoaderAssumption, Counted, CountsOK, Version,
           ReadVersion, AfterFrame
  <2> QED
    BY <2>1, <2>2, <2>3, <2>4
<1>6. CASE Config
  <2>1. PlacesOK'
    BY <1>6 DEF PlacesOK, SlotOK, Written, Whole, OnlyWholeAppsRun, Config, RegisterAll,
           AfterFrame
  <2>2. FlagsOK'
    BY <1>6 DEF FlagsOK, Config, RegisterAll, AfterFrame
  <2>3. SlotOK'
    BY <1>6 DEF PlacesOK, SlotOK, Written, Whole, OnlyWholeAppsRun, Config, RegisterAll,
           AfterFrame
  <2>4. Counted'
    BY <1>6, LoaderAssumption DEF LoaderAssumption, Counted, CountsOK, Config, RegisterAll,
           AfterFrame
  <2> QED
    BY <2>1, <2>2, <2>3, <2>4
<1> QED
  BY <1>1, <1>2, <1>3, <1>4, <1>5, <1>6

(* Into the bootloader (ohc_fw_work, ohc_up_write, ohc_enter_boot).        *)
LEMMA FlashStep ==
    ASSUME LoaderInv, FwWork \/ Upload \/ Lock \/ Enter \/ EnterKnock
    PROVE  LoaderInv'
<1> USE DEF LoaderInv, Goto, Lossy, part, slot, driver, history, Versions, Pages,
            BootStates, Places, Raw, WritePlaces, TryPlaces, SendPlaces
<1>1. CASE FwWork
  <2>1. PlacesOK'
    BY <1>1 DEF PlacesOK, SlotOK, Written, Whole, OnlyWholeAppsRun, FwWork
  <2>2. FlagsOK'
    BY <1>1 DEF FlagsOK, FwWork
  <2>3. SlotOK'
    BY <1>1 DEF PlacesOK, SlotOK, Written, Whole, OnlyWholeAppsRun, FwWork
  <2>4. Counted'
    BY <1>1, LoaderAssumption DEF LoaderAssumption, Counted, CountsOK, FwWork
  <2> QED
    BY <2>1, <2>2, <2>3, <2>4
<1>2. CASE Upload
  <2>1. PlacesOK'
    BY <1>2 DEF PlacesOK, SlotOK, Written, Whole, OnlyWholeAppsRun, Upload
  <2>2. FlagsOK'
    BY <1>2 DEF FlagsOK, Upload
  <2>3. SlotOK'
    BY <1>2 DEF PlacesOK, SlotOK, Written, Whole, OnlyWholeAppsRun, Upload
  <2>4. Counted'
    BY <1>2, LoaderAssumption DEF LoaderAssumption, Counted, CountsOK, Upload
  <2> QED
    BY <2>1, <2>2, <2>3, <2>4
<1>3. CASE Lock
  <2>1. PlacesOK'
    BY <1>3 DEF PlacesOK, SlotOK, Written, Whole, OnlyWholeAppsRun, Lock
  <2>2. FlagsOK'
    BY <1>3 DEF FlagsOK, Lock
  <2>3. SlotOK'
    BY <1>3 DEF PlacesOK, SlotOK, Written, Whole, OnlyWholeAppsRun, Lock
  <2>4. Counted'
    BY <1>3, LoaderAssumption DEF LoaderAssumption, Counted, CountsOK, Lock
  <2> QED
    BY <2>1, <2>2, <2>3, <2>4
<1>4. CASE Enter
  <2>1. PlacesOK'
    BY <1>4 DEF PlacesOK, SlotOK, Written, Whole, OnlyWholeAppsRun, Enter, Ping, Refuse,
           ResetToBoot, ResetLost, ResetPart, AfterFrame, GiveUp
  <2>2. FlagsOK'
    BY <1>4 DEF FlagsOK, Enter, Ping, Refuse, ResetToBoot, ResetLost, ResetPart,
           AfterFrame, GiveUp
  <2>3. SlotOK'
    BY <1>4 DEF PlacesOK, SlotOK, Written, Whole, OnlyWholeAppsRun, Enter, Ping, Refuse,
           ResetToBoot, ResetLost, ResetPart, AfterFrame, GiveUp
  <2>4. Counted'
    BY <1>4, LoaderAssumption DEF LoaderAssumption, Counted, CountsOK, Enter, Ping, Refuse,
           ResetToBoot, ResetLost, ResetPart, AfterFrame, GiveUp
  <2> QED
    BY <2>1, <2>2, <2>3, <2>4
<1>5. CASE EnterKnock
  <2>1. PlacesOK'
    BY <1>5 DEF PlacesOK, SlotOK, Written, Whole, OnlyWholeAppsRun, EnterKnock, AfterKnock,
           Retry, GiveUp
  <2>2. FlagsOK'
    BY <1>5 DEF FlagsOK, EnterKnock, AfterKnock, Retry, GiveUp
  <2>3. SlotOK'
    BY <1>5 DEF PlacesOK, SlotOK, Written, Whole, OnlyWholeAppsRun, EnterKnock, AfterKnock,
           Retry, GiveUp
  <2>4. Counted'
    BY <1>5, LoaderAssumption DEF LoaderAssumption, Counted, CountsOK, EnterKnock,
           AfterKnock, Retry, GiveUp
  <2> QED
    BY <2>1, <2>2, <2>3, <2>4
<1> QED
  BY <1>1, <1>2, <1>3, <1>4, <1>5

(* The two downloads of ohc_bl_write.                                      *)
LEMMA WriteStep ==
    ASSUME LoaderInv, Erase \/ WriteStub \/ WriteRest \/ EraseFirst \/ WriteFirst
    PROVE  LoaderInv'
<1> USE DEF LoaderInv, Goto, Lossy, part, slot, driver, history, Versions, Pages,
            BootStates, Places, Raw, WritePlaces, TryPlaces, SendPlaces
<1>1. CASE Erase
  <2>1. PlacesOK'
    BY <1>1 DEF PlacesOK, SlotOK, Written, Whole, OnlyWholeAppsRun, Erase, Command, Retry,
           GiveUp, First, Rest
  <2>2. FlagsOK'
    BY <1>1 DEF FlagsOK, Erase, Command, Retry, GiveUp, First, Rest
  <2>3. SlotOK'
    BY <1>1 DEF PlacesOK, SlotOK, Written, Whole, OnlyWholeAppsRun, Erase, Command, Retry,
           GiveUp, First, Rest
  <2>4. Counted'
    BY <1>1, LoaderAssumption DEF LoaderAssumption, Counted, CountsOK, Erase, Command,
           Retry, GiveUp, First, Rest
  <2> QED
    BY <2>1, <2>2, <2>3, <2>4
<1>2. CASE WriteStub
  <2>1. PlacesOK'
    BY <1>2 DEF PlacesOK, SlotOK, Written, Whole, OnlyWholeAppsRun, WriteStub, Command,
           Retry, GiveUp, First, Rest
  <2>2. FlagsOK'
    BY <1>2 DEF FlagsOK, WriteStub, Command, Retry, GiveUp, First, Rest
  <2>3. SlotOK'
    BY <1>2 DEF PlacesOK, SlotOK, Written, Whole, OnlyWholeAppsRun, WriteStub, Command,
           Retry, GiveUp, First, Rest
  <2>4. Counted'
    BY <1>2, LoaderAssumption DEF LoaderAssumption, Counted, CountsOK, WriteStub, Command,
           Retry, GiveUp, First, Rest
  <2> QED
    BY <2>1, <2>2, <2>3, <2>4
<1>3. CASE WriteRest
  <2>1. PlacesOK'
    BY <1>3 DEF PlacesOK, SlotOK, Written, Whole, OnlyWholeAppsRun, WriteRest, Command,
           Retry, GiveUp, First, Rest
  <2>2. FlagsOK'
    BY <1>3 DEF FlagsOK, WriteRest, Command, Retry, GiveUp, First, Rest
  <2>3. SlotOK'
    BY <1>3 DEF PlacesOK, SlotOK, Written, Whole, OnlyWholeAppsRun, WriteRest, Command,
           Retry, GiveUp, First, Rest
  <2>4. Counted'
    BY <1>3, LoaderAssumption DEF LoaderAssumption, Counted, CountsOK, WriteRest, Command,
           Retry, GiveUp, First, Rest
  <2> QED
    BY <2>1, <2>2, <2>3, <2>4
<1>4. CASE EraseFirst
  <2>1. PlacesOK'
    BY <1>4 DEF PlacesOK, SlotOK, Written, Whole, OnlyWholeAppsRun, EraseFirst, Command,
           Retry, GiveUp, First, Rest
  <2>2. FlagsOK'
    BY <1>4 DEF FlagsOK, EraseFirst, Command, Retry, GiveUp, First, Rest
  <2>3. SlotOK'
    BY <1>4 DEF PlacesOK, SlotOK, Written, Whole, OnlyWholeAppsRun, EraseFirst, Command,
           Retry, GiveUp, First, Rest
  <2>4. Counted'
    BY <1>4, LoaderAssumption DEF LoaderAssumption, Counted, CountsOK, EraseFirst, Command,
           Retry, GiveUp, First, Rest
  <2> QED
    BY <2>1, <2>2, <2>3, <2>4
<1>5. CASE WriteFirst
  <2>1. PlacesOK'
    BY <1>5 DEF PlacesOK, SlotOK, Written, Whole, OnlyWholeAppsRun, WriteFirst, Command,
           Retry, GiveUp, First, Rest
  <2>2. FlagsOK'
    BY <1>5 DEF FlagsOK, WriteFirst, Command, Retry, GiveUp, First, Rest
  <2>3. SlotOK'
    BY <1>5 DEF PlacesOK, SlotOK, Written, Whole, OnlyWholeAppsRun, WriteFirst, Command,
           Retry, GiveUp, First, Rest
  <2>4. Counted'
    BY <1>5, LoaderAssumption DEF LoaderAssumption, Counted, CountsOK, WriteFirst, Command,
           Retry, GiveUp, First, Rest
  <2> QED
    BY <2>1, <2>2, <2>3, <2>4
<1> QED
  BY <1>1, <1>2, <1>3, <1>4, <1>5

(* What follows the write, and the client.                                 *)
LEMMA AfterStep ==
    ASSUME LoaderInv, Verify \/ Register \/ ClientGate \/ ClientSend
    PROVE  LoaderInv'
<1> USE DEF LoaderInv, Goto, Lossy, part, slot, driver, history, Versions, Pages,
            BootStates, Places, Raw, WritePlaces, TryPlaces, SendPlaces
<1>1. CASE Verify
  <2>1. PlacesOK'
    BY <1>1 DEF PlacesOK, SlotOK, Written, Whole, OnlyWholeAppsRun, Verify, ReadVersion,
           AfterFrame
  <2>2. FlagsOK'
    BY <1>1 DEF FlagsOK, Verify, ReadVersion, AfterFrame
  <2>3. SlotOK'
    BY <1>1 DEF PlacesOK, SlotOK, Written, Whole, OnlyWholeAppsRun, Verify, ReadVersion,
           AfterFrame
  <2>4. Counted'
    BY <1>1, LoaderAssumption DEF LoaderAssumption, Counted, CountsOK, Verify, ReadVersion,
           AfterFrame
  <2> QED
    BY <2>1, <2>2, <2>3, <2>4
<1>2. CASE Register
  <2>1. PlacesOK'
    BY <1>2 DEF PlacesOK, SlotOK, Written, Whole, OnlyWholeAppsRun, Register, RegisterAll,
           AfterFrame
  <2>2. FlagsOK'
    BY <1>2 DEF FlagsOK, Register, RegisterAll, AfterFrame
  <2>3. SlotOK'
    BY <1>2 DEF PlacesOK, SlotOK, Written, Whole, OnlyWholeAppsRun, Register, RegisterAll,
           AfterFrame
  <2>4. Counted'
    BY <1>2, LoaderAssumption DEF LoaderAssumption, Counted, CountsOK, Register,
           RegisterAll, AfterFrame
  <2> QED
    BY <2>1, <2>2, <2>3, <2>4
<1>3. CASE ClientGate
  <2>1. PlacesOK'
    BY <1>3 DEF PlacesOK, SlotOK, Written, Whole, OnlyWholeAppsRun, ClientGate
  <2>2. FlagsOK'
    BY <1>3 DEF FlagsOK, ClientGate
  <2>3. SlotOK'
    BY <1>3 DEF PlacesOK, SlotOK, Written, Whole, OnlyWholeAppsRun, ClientGate
  <2>4. Counted'
    BY <1>3, LoaderAssumption DEF LoaderAssumption, Counted, CountsOK, ClientGate
  <2> QED
    BY <2>1, <2>2, <2>3, <2>4
<1>4. CASE ClientSend
  <2>1. PlacesOK'
    BY <1>4 DEF PlacesOK, SlotOK, Written, Whole, OnlyWholeAppsRun, ClientSend, AfterFrame
  <2>2. FlagsOK'
    BY <1>4 DEF FlagsOK, ClientSend, AfterFrame
  <2>3. SlotOK'
    BY <1>4 DEF PlacesOK, SlotOK, Written, Whole, OnlyWholeAppsRun, ClientSend, AfterFrame
  <2>4. Counted'
    BY <1>4, LoaderAssumption DEF LoaderAssumption, Counted, CountsOK, ClientSend,
           AfterFrame
  <2> QED
    BY <2>1, <2>2, <2>3, <2>4
<1> QED
  BY <1>1, <1>2, <1>3, <1>4

(* Power cuts, crashes and restarts.                                       *)
LEMMA FaultStep ==
    ASSUME LoaderInv, PowerCut \/ HostCrash \/ PartCrash \/ Rebind
    PROVE  LoaderInv'
<1> USE DEF LoaderInv, Goto, Lossy, part, slot, driver, history, Versions, Pages,
            BootStates, Places, Raw, WritePlaces, TryPlaces, SendPlaces
<1>1. CASE PowerCut
  <2>1. PlacesOK'
    BY <1>1 DEF PlacesOK, SlotOK, Written, Whole, OnlyWholeAppsRun, PowerCut, Interrupted,
           Torn, First, Rest, ResetPart
  <2>2. FlagsOK'
    BY <1>1 DEF FlagsOK, PowerCut, Interrupted, Torn, First, Rest, ResetPart
  <2>3. SlotOK'
    BY <1>1 DEF PlacesOK, SlotOK, Written, Whole, OnlyWholeAppsRun, PowerCut, Interrupted,
           Torn, First, Rest, ResetPart
  <2>4. Counted'
    BY <1>1, LoaderAssumption DEF LoaderAssumption, Counted, CountsOK, PowerCut,
           Interrupted, Torn, First, Rest, ResetPart
  <2> QED
    BY <2>1, <2>2, <2>3, <2>4
<1>2. CASE HostCrash
  <2>1. PlacesOK'
    BY <1>2 DEF PlacesOK, SlotOK, Written, Whole, OnlyWholeAppsRun, HostCrash, Interrupted,
           Torn, First, Rest
  <2>2. FlagsOK'
    BY <1>2 DEF FlagsOK, HostCrash, Interrupted, Torn, First, Rest
  <2>3. SlotOK'
    BY <1>2 DEF PlacesOK, SlotOK, Written, Whole, OnlyWholeAppsRun, HostCrash, Interrupted,
           Torn, First, Rest
  <2>4. Counted'
    BY <1>2, LoaderAssumption DEF LoaderAssumption, Counted, CountsOK, HostCrash,
           Interrupted, Torn, First, Rest
  <2> QED
    BY <2>1, <2>2, <2>3, <2>4
<1>3. CASE PartCrash
  <2>1. PlacesOK'
    BY <1>3 DEF PlacesOK, SlotOK, Written, Whole, OnlyWholeAppsRun, PartCrash, ResetPart
  <2>2. FlagsOK'
    BY <1>3 DEF FlagsOK, PartCrash, ResetPart
  <2>3. SlotOK'
    BY <1>3 DEF PlacesOK, SlotOK, Written, Whole, OnlyWholeAppsRun, PartCrash, ResetPart
  <2>4. Counted'
    BY <1>3, LoaderAssumption DEF LoaderAssumption, Counted, CountsOK, PartCrash,
           ResetPart
  <2> QED
    BY <2>1, <2>2, <2>3, <2>4
<1>4. CASE Rebind
  <2>1. PlacesOK'
    BY <1>4 DEF PlacesOK, SlotOK, Written, Whole, OnlyWholeAppsRun, Rebind, ResetPart
  <2>2. FlagsOK'
    BY <1>4 DEF FlagsOK, Rebind, ResetPart
  <2>3. SlotOK'
    BY <1>4 DEF PlacesOK, SlotOK, Written, Whole, OnlyWholeAppsRun, Rebind, ResetPart
  <2>4. Counted'
    BY <1>4, LoaderAssumption DEF LoaderAssumption, Counted, CountsOK, Rebind, ResetPart
  <2> QED
    BY <2>1, <2>2, <2>3, <2>4
<1> QED
  BY <1>1, <1>2, <1>3, <1>4

-----------------------------------------------------------------------------
(* Every step keeps LoaderInv.                                             *)
LEMMA LoaderStep == LoaderInv /\ [Next]_vars => LoaderInv'
<1> SUFFICES ASSUME LoaderInv, [Next]_vars PROVE LoaderInv'
  OBVIOUS
<1>1. CASE Worker \/ ClientGate \/ ClientSend \/ Fault \/ Rebind \/ Upload
  BY <1>1, IdentifyStep, FlashStep, WriteStep, AfterStep, FaultStep DEF Worker, Fault
<1>2. CASE UNCHANGED vars
  BY <1>2 DEF vars, part, slot, driver, history, LoaderInv, PlacesOK, FlagsOK, SlotOK,
              Written, Whole, OnlyWholeAppsRun, Counted, CountsOK
<1> QED
  BY <1>1, <1>2 DEF Next, Settled

(* LoaderInv is an invariant.                                              *)
THEOREM LoaderInvariant == Spec => []LoaderInv
  BY LoaderInit, LoaderStep, PTL DEF Spec

(* Type correctness of the loader: the worker's fields of struct ohc_iomcu,*)
(* its loop counter and the part's slot.                                   *)
THEOREM LoaderTypes == Spec => []TypeOK
<1>1. LoaderInv => TypeOK
  BY DEF LoaderInv, Counted, TypeOK
<1> QED
  BY <1>1, LoaderInvariant, PTL

(* Wherever a write is cut, cancelled or fails, the part never runs an     *)
(* application whose slot does not hold all of it (ohc_bl_write).          *)
THEOREM WholeAppsAlways == Spec => []OnlyWholeAppsRun
<1>1. LoaderInv => OnlyWholeAppsRun
  BY DEF LoaderInv, SlotOK
<1> QED
  BY <1>1, LoaderInvariant, PTL

-----------------------------------------------------------------------------
(* As long as nothing has failed, the worker's place says what the part is *)
(* doing: its bootloader is fresh where a knock is due and synced where a  *)
(* command is, and everywhere a frame may go out an application runs, over *)
(* a slot whose first page is an application's.                            *)
KnockPlaces == {"down", "knock", "enterKnock"}
CommandPlaces == {"run"} \cup WritePlaces
Rewriting == {"writeStub", "writeRest", "eraseFirst", "writeFirst"}

Orderly ==
    /\ pc \in KnockPlaces => cpu \in {"fresh", "app"}
    /\ pc \in CommandPlaces => cpu = "synced"
    /\ pc \notin KnockPlaces \cup CommandPlaces => cpu = "app"
    /\ pc \notin Rewriting => first \in Versions
    /\ pc = "down" => client = "idle"

CalmInv == LoaderInv /\ (faults = 0 => Orderly)

(* A step that ends without a fault started without one; and a lost        *)
(* exchange, a cut or a crash is counted.                                  *)
LEMMA FaultsGrow == LoaderInv /\ [Next]_vars => faults \in Nat /\ (faults' = 0 => faults = 0)
<1> SUFFICES ASSUME LoaderInv, [Next]_vars PROVE faults \in Nat /\ (faults' = 0 => faults = 0)
  OBVIOUS
<1>0. faults \in Nat
  BY LoaderAssumption DEF LoaderAssumption, LoaderInv, Counted, CountsOK
<1>1. faults' = faults \/ faults' = faults + 1
  BY DEF Next, Worker, Fault, Settled, vars, history, Lossy, Probe, Knock, Run, RunKnock, Version,
         ReadVersion, Config, RegisterAll, FwWork, Upload, Lock, Enter, Ping, Refuse,
         ResetToBoot, ResetLost, EnterKnock, Command, Erase, WriteStub, WriteRest,
         EraseFirst, WriteFirst, Verify, Register, ClientGate, ClientSend, PowerCut,
         HostCrash, Interrupted, PartCrash, Rebind
<1> QED
  BY <1>0, <1>1

LEMMA OrderlyIdentify ==
    ASSUME CalmInv, faults = 0, faults' = 0,
           Probe \/ Knock \/ Run \/ RunKnock \/ Version \/ Config
    PROVE  Orderly'
<1> USE DEF CalmInv, Orderly, KnockPlaces, CommandPlaces, Rewriting, WritePlaces, Versions,
            BootStates, Raw, Places, Goto, Lossy, part, slot, driver, history
<1>1. CASE Probe
  BY <1>1 DEF Probe
<1>2. CASE Knock
  BY <1>2 DEF Knock, AfterKnock
<1>3. CASE Run
  BY <1>3 DEF Run, Jump, ResetPart
<1>4. CASE RunKnock
  BY <1>4 DEF RunKnock, AfterKnock
<1>5. CASE Version
  BY <1>5 DEF Version, ReadVersion, AfterFrame
<1>6. CASE Config
  BY <1>6 DEF Config, RegisterAll, AfterFrame
<1> QED
  BY <1>1, <1>2, <1>3, <1>4, <1>5, <1>6

LEMMA OrderlyFlash ==
    ASSUME CalmInv, faults = 0, faults' = 0,
           FwWork \/ Upload \/ Lock \/ Enter \/ EnterKnock \/ Verify \/ Register
    PROVE  Orderly'
<1> USE DEF CalmInv, Orderly, KnockPlaces, CommandPlaces, Rewriting, WritePlaces, Versions,
            BootStates, Raw, Places, Goto, Lossy, part, slot, driver, history
<1>1. CASE FwWork
  BY <1>1 DEF FwWork
<1>2. CASE Upload
  BY <1>2 DEF Upload
<1>3. CASE Lock
  BY <1>3 DEF Lock
<1>4. CASE Enter
  BY <1>4 DEF Enter, Ping, Refuse, ResetToBoot, ResetLost, ResetPart, AfterFrame, GiveUp
<1>5. CASE EnterKnock
  BY <1>5 DEF EnterKnock, AfterKnock, Retry, GiveUp
<1>6. CASE Verify
  BY <1>6 DEF Verify, ReadVersion, AfterFrame
<1>7. CASE Register
  BY <1>7 DEF Register, RegisterAll, AfterFrame
<1> QED
  BY <1>1, <1>2, <1>3, <1>4, <1>5, <1>6, <1>7

(* Every command of a calm write succeeds, so no try is repeated.          *)
LEMMA OrderlyWrite ==
    ASSUME CalmInv, faults = 0, faults' = 0,
           Erase \/ WriteStub \/ WriteRest \/ EraseFirst \/ WriteFirst
    PROVE  Orderly'
<1> USE DEF CalmInv, Orderly, KnockPlaces, CommandPlaces, Rewriting, WritePlaces, Versions,
            BootStates, Raw, Places, Goto, Lossy, part, slot, driver, history, Command
<1>1. CASE Erase
  BY <1>1 DEF Erase
<1>2. CASE WriteStub
  BY <1>2 DEF WriteStub, First
<1>3. CASE WriteRest
  BY <1>3 DEF WriteRest, Rest
<1>4. CASE EraseFirst
  BY <1>4 DEF EraseFirst, First
<1>5. CASE WriteFirst
  BY <1>5 DEF WriteFirst, First
<1> QED
  BY <1>1, <1>2, <1>3, <1>4, <1>5

(* A client's frame waits for io_lock, so it finds an application.         *)
LEMMA OrderlyRest ==
    ASSUME CalmInv, faults = 0, faults' = 0,
           ClientGate \/ ClientSend \/ Fault \/ Rebind
    PROVE  Orderly'
<1> USE DEF CalmInv, Orderly, KnockPlaces, CommandPlaces, Rewriting, WritePlaces, Versions,
            BootStates, Raw, Places, Goto, Lossy, part, slot, driver, history
<1>1. CASE ClientGate
  BY <1>1 DEF ClientGate
<1>2. CASE ClientSend
  BY <1>2 DEF ClientSend, AfterFrame, LoaderInv, PlacesOK
<1>3. CASE Fault
  BY <1>3 DEF Fault, PowerCut, HostCrash, Interrupted, PartCrash
<1>4. CASE Rebind
  BY <1>4 DEF Rebind, ResetPart
<1> QED
  BY <1>1, <1>2, <1>3, <1>4

(* Without a fault the knock always goes first: nothing the driver or its  *)
(* clients send, through any number of restarts and uploads, makes a       *)
(* bootloader deaf (ohc_bringup, ohc_enter_boot, ohc_raw_begin).           *)
THEOREM KnockGoesFirstAlways == Spec => []KnockGoesFirst
<1>1. Init => CalmInv
  <2> SUFFICES ASSUME Init PROVE CalmInv
    OBVIOUS
  <2> QED
    BY LoaderInit DEF Init, CalmInv, Orderly, KnockPlaces, CommandPlaces, WritePlaces
<1>2. CalmInv /\ [Next]_vars => CalmInv'
  <2> SUFFICES ASSUME CalmInv, [Next]_vars PROVE CalmInv'
    OBVIOUS
  <2>1. LoaderInv'
    BY LoaderStep DEF CalmInv
  <2>2. ASSUME faults' = 0 PROVE Orderly'
    <3>1. faults = 0
      BY <2>2, FaultsGrow DEF CalmInv
    <3>2. CASE UNCHANGED vars
      BY <3>1, <3>2 DEF CalmInv, Orderly, vars, part, slot
    <3>3. CASE Next
      BY <2>2, <3>1, <3>2, <3>3, OrderlyIdentify, OrderlyFlash, OrderlyWrite, OrderlyRest
         DEF Next, Worker, Settled
    <3> QED
      BY <3>2, <3>3
  <2> QED
    BY <2>1, <2>2 DEF CalmInv
<1>3. CalmInv => KnockGoesFirst
  BY DEF CalmInv, Orderly, KnockGoesFirst, LoaderInv, PlacesOK, KnockPlaces, CommandPlaces
<1> QED
  BY <1>1, <1>2, <1>3, PTL DEF Spec

=============================================================================
