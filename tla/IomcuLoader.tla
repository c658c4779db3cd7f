----------------------------- MODULE IomcuLoader -----------------------------
(***************************************************************************)
(* Bring-up and reflash of the I/O microcontroller by the kernel driver    *)
(* (gpio-ohc-iomcu.c, ohc_bringup to ohc_fw_work): one worker knocks,      *)
(* starts the application, identifies it, registers its devices, and       *)
(* writes the wanted image when something else runs; a client (the contact *)
(* poll, a gpio or tty user) asks the part meanwhile.  Power cuts, host    *)
(* restarts, crashes of the part and lost bytes happen between any two     *)
(* steps.                                                                  *)
(*                                                                         *)
(* The TI bootloader and the flash are modelled from how the driver uses   *)
(* them: a fresh bootloader needs the knock first and goes deaf on         *)
(* anything else until it is reset; DOWNLOAD erases before SEND_DATA       *)
(* programs, in order from the base; RUN always jumps through the vector   *)
(* table in the slot's first page.                                         *)
(***************************************************************************)
EXTENDS Naturals

CONSTANTS
    MaxTries,     \* writes per ohc_flash: 3
    MaxFaults,    \* bound: lost exchanges, crashes, cuts and cancelled uploads
    MaxRestarts   \* bound: clean restarts, rebinds and uploads in a behaviour

ASSUME LoaderAssumption ==
    /\ MaxTries \in Nat \ {0}
    /\ MaxFaults \in Nat /\ MaxRestarts \in Nat

VARIABLES
    hasReset,   \* the node has reset-gpios: the board's, and never changes
    cpu,        \* what executes: "fresh", "synced", "deaf" (the bootloader), "app", "hung"
    running,    \* the version of a running application
    capturing,  \* the application reports what its receiver hears (cap_on)
    first,      \* the slot's first page
    rest,       \* the rest of the slot
    pc,         \* where the worker is
    tries,      \* ohc_flash's loop counter
    flashing,   \* ohc_run_app was called by ohc_flash, not by ohc_bringup
    inBoot,     \* mcu->in_boot
    online,     \* mcu->online
    says,       \* mcu->fw_version
    registered, \* mcu->registered
    updating,   \* mcu->updating
    upload,     \* the write in progress was asked for by ohc_up_write
    client,     \* a client: "idle", or "queued" on io_lock past its gate
    faults,     \* faults so far
    restarts    \* clean restarts and uploads so far

part   == <<cpu, running, capturing>>
slot   == <<first, rest>>
driver == <<tries, flashing, inBoot, online, says, registered, updating, upload>>
history == <<faults, restarts>>
vars == <<hasReset, part, slot, pc, driver, client, history>>

(* "new" is the wanted image, "old" another openHC one, "stock" Control4's. *)
Versions == {"old", "stock", "new"}
Pages == Versions \cup {"erased", "cut", "stub"}
BootStates == {"fresh", "synced", "deaf"}

(* The worker's places.  Those in Raw hold io_lock with mcu->raw set.      *)
Raw == {"knock", "run", "runKnock", "enter", "enterKnock",
        "erase", "writeStub", "writeRest", "eraseFirst", "writeFirst"}
Places == Raw \cup {"down", "version", "config", "fwWork", "lock", "verify", "register", "done"}

PlacesOK ==
    /\ cpu \in BootStates \cup {"app", "hung"}
    /\ running \in Versions \cup {"none"} /\ says \in Versions \cup {"none"}
    /\ first \in Pages /\ rest \in Pages \ {"stub"}
    /\ pc \in Places
    /\ client \in {"idle", "queued"}

FlagsOK ==
    /\ hasReset \in BOOLEAN /\ capturing \in BOOLEAN
    /\ flashing \in BOOLEAN /\ inBoot \in BOOLEAN /\ online \in BOOLEAN
    /\ registered \in BOOLEAN /\ updating \in BOOLEAN /\ upload \in BOOLEAN

CountsOK ==
    /\ tries \in 0..MaxTries
    /\ faults \in 0..MaxFaults /\ restarts \in 0..MaxRestarts

TypeOK == PlacesOK /\ FlagsOK /\ CountsOK

(* Power-on: the part is in its bootloader and holds a whole application.  *)
Init ==
    /\ hasReset \in BOOLEAN
    /\ cpu = "fresh" /\ running = "none" /\ capturing = FALSE
    /\ first \in Versions /\ rest = first
    /\ pc = "down"
    /\ tries = 0 /\ flashing = FALSE
    /\ inBoot = FALSE /\ online = FALSE /\ says = "none"
    /\ registered = FALSE /\ updating = FALSE /\ upload = FALSE
    /\ client = "idle"
    /\ faults = 0 /\ restarts = 0

(* ohc_ours: it knows RESET.                                               *)
Ours(v) == v # "stock"

(* A fault happens, if the bound allows one more.                          *)
Lossy == faults < MaxFaults /\ faults' = faults + 1

Goto(place) == pc' = place

-----------------------------------------------------------------------------
(* What the part makes of what it is sent.                                 *)

(* A knock: a fresh bootloader autobauds on it and ACKs, an application    *)
(* answers with a frame; a synced bootloader takes it for packet bytes.    *)
AfterKnock ==
    IF cpu = "fresh" THEN {"synced"}
    ELSE IF cpu = "synced" THEN {"synced", "deaf"}
    ELSE {cpu}

(* A frame: the bootloader cannot autobaud on it, or loses its place.      *)
AfterFrame == IF cpu \in {"fresh", "synced"} THEN "deaf" ELSE cpu

ResetPart == cpu' = "fresh" /\ running' = "none" /\ capturing' = FALSE

(* RUN through whatever the first page holds: the stub resets, an erased   *)
(* or half-programmed vector page goes nowhere.                            *)
Jump ==
    \/ first \in Versions /\ cpu' = "app" /\ running' = first /\ capturing' = FALSE
    \/ first = "stub" /\ ResetPart
    \/ first \in {"erased", "cut"} /\ cpu' = "hung" /\ UNCHANGED <<running, capturing>>

-----------------------------------------------------------------------------
(* ohc_identify.                                                           *)

(* Probe: a new driver instance, everything zero.                          *)
Probe ==
    /\ pc = "down"
    /\ Goto("knock")
    /\ tries' = 0 /\ flashing' = FALSE
    /\ inBoot' = FALSE /\ online' = FALSE /\ says' = "none"
    /\ registered' = FALSE /\ updating' = FALSE /\ upload' = FALSE
    /\ UNCHANGED <<hasReset, part, slot, client, history>>

(* ohc_bringup: knock; the bootloader's ACK leads to RUN, anything else to *)
(* the version question.                                                   *)
Knock ==
    /\ pc = "knock"
    /\ cpu' \in AfterKnock
    /\ \/ cpu = "fresh" /\ Goto("run") /\ UNCHANGED faults
       \/ cpu # "fresh" /\ Goto("version") /\ UNCHANGED faults
       \/ Lossy /\ Goto("version")
    /\ UNCHANGED <<hasReset, running, capturing, slot, driver, client, restarts>>

(* ohc_run_app, first half: RUN is never ACKed.                            *)
Run ==
    /\ pc = "run"
    /\ Goto("runKnock")
    /\ \/ cpu = "synced" /\ Jump /\ UNCHANGED faults
       \/ cpu # "synced" /\ UNCHANGED <<part, faults>>
       \/ Lossy /\ UNCHANGED part
    /\ UNCHANGED <<hasReset, slot, driver, client, restarts>>

(* ohc_run_app, second half: knock, and in_boot says who answered.  The    *)
(* flash goes on to ask the version only if the application answered, the  *)
(* bring-up unless the bootloader did.                                     *)
RunKnock ==
    /\ pc = "runKnock"
    /\ cpu' \in AfterKnock
    /\ \/ UNCHANGED faults /\ inBoot' = (cpu = "fresh")
          /\ Goto(IF flashing THEN IF cpu = "app" THEN "verify" ELSE "done"
                  ELSE IF cpu = "fresh" THEN "fwWork" ELSE "version")
       \/ Lossy /\ inBoot' = FALSE
          /\ Goto(IF flashing THEN "done" ELSE "version")
    /\ updating' = (updating /\ ~flashing)
    /\ UNCHANGED <<hasReset, running, capturing, slot, tries, flashing, online, says,
                   registered, upload, client, restarts>>

(* ohc_read_version: the verdict; its frame goes to whoever is there.      *)
ReadVersion(ok, failed) ==
    \/ /\ cpu = "app"
       /\ online' = TRUE /\ says' = running
       /\ Goto(ok) /\ UNCHANGED <<cpu, faults>>
    \/ /\ (cpu # "app" /\ UNCHANGED faults) \/ Lossy
       /\ cpu' = AfterFrame
       /\ online' = FALSE
       /\ Goto(failed) /\ UNCHANGED says

Version ==
    /\ pc = "version"
    /\ ReadVersion("config", "fwWork")
    /\ UNCHANGED <<hasReset, running, capturing, slot, tries, flashing, inBoot,
                   registered, updating, upload, client, restarts>>

(* ohc_send_config, then ohc_register_all: the devices appear once, and    *)
(* the receiver is asked to report when its own device is registered.      *)
RegisterAll ==
    /\ cpu' = AfterFrame
    /\ registered' = TRUE
    /\ capturing' = IF registered THEN capturing ELSE cpu = "app"

Config ==
    /\ pc = "config"
    /\ RegisterAll
    /\ Goto("fwWork")
    /\ UNCHANGED <<hasReset, running, slot, tries, flashing, inBoot, online, says,
                   updating, upload, client, history>>

-----------------------------------------------------------------------------
(* ohc_fw_work, ohc_up_write and ohc_flash.                                *)

(* Mutant: a part that does not answer is not written either.              *)
MutantFwWork ==
    /\ pc = "fwWork"
    /\ upload' = FALSE
    /\ \/ /\ ~online \/ says = "new" \/ (~Ours(says) /\ ~hasReset)
          /\ Goto("done") /\ UNCHANGED updating
       \/ /\ online /\ says # "new" /\ (Ours(says) \/ hasReset)
          /\ Goto("lock") /\ updating' = TRUE
    /\ UNCHANGED <<hasReset, part, slot, tries, flashing, inBoot, online, says,
                   registered, client, history>>

(* Equal versions, or stock without a reset line: leave it running.        *)
FwWork ==
    /\ pc = "fwWork"
    /\ upload' = FALSE
    /\ \/ /\ online /\ (says = "new" \/ (~Ours(says) /\ ~hasReset))
          /\ Goto("done") /\ UNCHANGED updating
       \/ /\ ~online \/ (says # "new" /\ (Ours(says) \/ hasReset))
          /\ Goto("lock") /\ updating' = TRUE
    /\ UNCHANGED <<hasReset, part, slot, tries, flashing, inBoot, online, says,
                   registered, client, history>>

(* ohc_up_write: the same write, asked for by hand, whatever runs.         *)
Upload ==
    /\ pc = "done" /\ restarts < MaxRestarts
    /\ restarts' = restarts + 1
    /\ Goto("lock") /\ updating' = TRUE /\ upload' = TRUE
    /\ UNCHANGED <<hasReset, part, slot, tries, flashing, inBoot, online, says,
                   registered, client, faults>>

(* ohc_raw_begin, behind whatever conversation holds io_lock.              *)
Lock ==
    /\ pc = "lock"
    /\ Goto("enter")
    /\ tries' = 0 /\ flashing' = TRUE
    /\ UNCHANGED <<hasReset, part, slot, inBoot, online, says, registered, updating,
                   upload, client, history>>

(* Out of ohc_flash without an image started.                              *)
GiveUp == Goto("done") /\ updating' = FALSE

(* A try that failed: another, or give up with the loop's error.           *)
Retry ==
    /\ tries' = tries + 1
    /\ \/ tries + 1 < MaxTries /\ Goto("enter") /\ UNCHANGED updating
       \/ tries + 1 = MaxTries /\ GiveUp

(* ohc_enter_boot: PING; else RESET or the reset line, if there is one;    *)
(* else refuse to replace a stock application.                             *)
Ping ==
    /\ inBoot /\ cpu = "synced"
    /\ Goto("erase")
    /\ UNCHANGED <<part, online, updating, faults>>

Refuse ==
    /\ online /\ ~Ours(says) /\ ~hasReset
    /\ GiveUp
    /\ UNCHANGED <<part, online, faults>>

ResetToBoot ==
    /\ IF inBoot /\ cpu = "synced" THEN Lossy ELSE UNCHANGED faults
    /\ \/ online /\ Ours(says) /\ cpu = "app" /\ ResetPart
       \/ online /\ Ours(says) /\ cpu # "app" /\ cpu' = AfterFrame /\ UNCHANGED <<running, capturing>>
       \/ ~(online /\ Ours(says)) /\ hasReset /\ ResetPart
       \/ ~online /\ ~hasReset /\ cpu' \in {cpu, IF inBoot THEN AfterFrame ELSE cpu}
          /\ UNCHANGED <<running, capturing>>
    /\ Goto("enterKnock") /\ online' = FALSE /\ UNCHANGED updating

ResetLost ==
    /\ online /\ Ours(says) /\ Lossy
    /\ Goto("enterKnock") /\ online' = FALSE /\ UNCHANGED <<part, updating>>

Enter ==
    /\ pc = "enter"
    /\ Ping \/ Refuse \/ ResetToBoot \/ ResetLost
    /\ UNCHANGED <<hasReset, slot, tries, flashing, inBoot, says, registered, upload,
                   client, restarts>>

EnterKnock ==
    /\ pc = "enterKnock"
    /\ cpu' \in AfterKnock
    /\ \/ /\ cpu = "fresh" /\ UNCHANGED faults
          /\ inBoot' = TRUE /\ Goto("erase") /\ UNCHANGED <<tries, updating>>
       \/ /\ IF cpu = "fresh" THEN Lossy ELSE UNCHANGED faults
          /\ Retry /\ UNCHANGED inBoot
    /\ UNCHANGED <<hasReset, running, capturing, slot, flashing, online, says,
                   registered, upload, client, restarts>>

(* One command of ohc_bl_write at `place`: `whole` is its effect on the    *)
(* slot, `partial` that of one that failed; a SEND_DATA may be cancelled.  *)
SendPlaces == {"writeStub", "writeRest", "writeFirst"}

Command(place, next, whole, partial) ==
    /\ pc = place
    /\ \/ /\ cpu = "synced" /\ UNCHANGED faults
          /\ whole /\ Goto(next) /\ UNCHANGED <<tries, updating>>
       \/ /\ IF cpu = "synced" THEN Lossy ELSE UNCHANGED faults
          /\ partial \/ UNCHANGED slot
          /\ Retry
       \/ /\ upload /\ place \in SendPlaces /\ Lossy /\ UNCHANGED tries
          /\ partial \/ UNCHANGED slot
          /\ GiveUp
    /\ UNCHANGED <<hasReset, part, flashing, inBoot, online, says, registered, upload,
                   client, restarts>>

First(p) == first' = p /\ UNCHANGED rest
Rest(p) == rest' = p /\ UNCHANGED first

(* DOWNLOAD of the whole slot erases it, first page first.                 *)
Erase == Command("erase", "writeStub", first' = "erased" /\ rest' = "erased",
                 first' = "erased" /\ rest' \in {"cut", "erased"})

(* Mutant: the image is written in one pass, its own first page first.     *)
MutantWriteStub == Command("writeStub", "writeRest", First("new"), First("cut"))

(* SEND_DATA in order: the page with the stub, then the rest.              *)
WriteStub == Command("writeStub", "writeRest", First("stub"), First("cut"))
WriteRest == Command("writeRest", "eraseFirst", Rest("new"), Rest("cut"))

(* The second DOWNLOAD: the first page alone.                              *)
EraseFirst == Command("eraseFirst", "writeFirst", First("erased"), First("erased"))
WriteFirst == Command("writeFirst", "run", First("new"), First("cut"))

(* After ohc_run_app: the version must be the image's, then the pin table. *)
Verify ==
    /\ pc = "verify"
    /\ ReadVersion(IF running = "new" THEN "register" ELSE "done", "done")
    /\ UNCHANGED <<hasReset, running, capturing, slot, tries, flashing, inBoot,
                   registered, updating, upload, client, restarts>>

Register ==
    /\ pc = "register"
    /\ RegisterAll
    /\ Goto("done")
    /\ UNCHANGED <<hasReset, running, slot, tries, flashing, inBoot, online, says,
                   updating, upload, client, history>>

-----------------------------------------------------------------------------
(* A client: ohc_request and ohc_send look at updating and in_boot before  *)
(* they queue on io_lock, and not again.                                   *)

ClientGate ==
    /\ registered /\ pc # "down"
    /\ client = "idle"
    /\ ~updating /\ ~inBoot
    /\ client' = "queued"
    /\ UNCHANGED <<hasReset, part, slot, pc, driver, history>>

(* Mutant: the frame goes out while the loader holds io_lock.              *)
MutantClientSend ==
    /\ client = "queued"
    /\ client' = "idle"
    /\ cpu' = AfterFrame
    /\ UNCHANGED <<hasReset, running, capturing, slot, pc, driver, faults, restarts>>

ClientSend ==
    /\ client = "queued"
    /\ pc \notin Raw
    /\ client' = "idle"
    /\ cpu' = AfterFrame
    /\ UNCHANGED <<hasReset, running, capturing, slot, pc, driver, faults, restarts>>

-----------------------------------------------------------------------------
(* Faults and restarts.                                                    *)

(* What a step of the write leaves when it is cut; pages go in order.      *)
Torn ==
    \/ UNCHANGED slot
    \/ pc \in {"erase", "eraseFirst"} /\ First("erased")
    \/ pc = "erase" /\ first' = "erased" /\ rest' = "cut"
    \/ pc \in {"writeStub", "writeFirst"} /\ First("cut")
    \/ pc = "writeRest" /\ Rest("cut")

Interrupted ==
    /\ pc # "down"
    /\ Lossy
    /\ Goto("down")
    /\ client' = "idle"
    /\ Torn
    /\ UNCHANGED <<hasReset, driver, restarts>>

(* The power fails: host and part start over.                              *)
PowerCut == Interrupted /\ ResetPart

(* The host alone dies; the part stays, and a bootloader may be left in    *)
(* the middle of a packet.                                                 *)
HostCrash ==
    /\ Interrupted
    /\ cpu' \in IF cpu = "synced" THEN {"synced", "deaf"} ELSE {cpu}
    /\ UNCHANGED <<running, capturing>>

(* An application faults: it resets into the bootloader.                   *)
PartCrash ==
    /\ cpu = "app"
    /\ Lossy
    /\ ResetPart
    /\ UNCHANGED <<hasReset, slot, pc, driver, client, restarts>>

(* A warm reboot or a rebind with nothing in progress; iod's MCU reset     *)
(* pulses the line in between.                                             *)
Rebind ==
    /\ pc = "done" /\ client = "idle"
    /\ restarts < MaxRestarts
    /\ restarts' = restarts + 1
    /\ Goto("down")
    /\ UNCHANGED part \/ (hasReset /\ ResetPart)
    /\ UNCHANGED <<hasReset, slot, driver, client, faults>>

-----------------------------------------------------------------------------
Worker ==
    \/ Probe \/ Knock \/ Run \/ RunKnock \/ Version \/ Config
    \/ FwWork \/ Lock \/ Enter \/ EnterKnock
    \/ Erase \/ WriteStub \/ WriteRest \/ EraseFirst \/ WriteFirst
    \/ Verify \/ Register

Fault == PowerCut \/ HostCrash \/ PartCrash

(* The worker has finished, and nothing else will happen.                  *)
Settled == pc = "done" /\ client = "idle" /\ UNCHANGED vars

Next == Worker \/ ClientGate \/ ClientSend \/ Fault \/ Rebind \/ Upload \/ Settled

Spec == Init /\ [][Next]_vars

(* The kernel runs its workqueue, and every exchange ends by time-out.     *)
FairSpec == Spec /\ WF_vars(Worker) /\ WF_vars(ClientSend)

-----------------------------------------------------------------------------
(* Properties.                                                             *)

(* Whatever is cut, crashes or is lost, and whenever, the part never runs  *)
(* an application whose slot does not hold all of it (ohc_bl_write).       *)
OnlyWholeAppsRun == cpu = "app" => first = running /\ rest = running

(* Without a fault nothing the driver or its clients send ever makes a     *)
(* bootloader deaf: the knock goes first, and the gates and io_lock keep   *)
(* every frame away while the slot is written (ohc_bringup).               *)
KnockGoesFirst == faults = 0 => cpu # "deaf"

(* A part a probe can bring up: with a reset line any part, whatever a cut *)
(* left in its slot; without one, a fresh bootloader over a slot that RUN  *)
(* gets out of, or an application that knows RESET.                        *)
Recoverable ==
    \/ hasReset
    \/ cpu = "fresh" /\ first \in {"old", "new", "stub"}
    \/ cpu = "app" /\ Ours(running)

(* Once faults end, a probe of a recoverable part ends with the wanted     *)
(* image whole and running, identified and registered (ohc_fw_work).       *)
ProbeRecovers ==
    (pc = "knock" /\ faults = MaxFaults /\ Recoverable)
        ~> (pc = "done" /\ cpu = "app" /\ running = "new" /\ online /\ registered)

=============================================================================
