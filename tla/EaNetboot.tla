------------------------------ MODULE EaNetboot ------------------------------
(***************************************************************************)
(* Booting openHC into an EA's RAM (flasher: engine/src/netboot.rs,         *)
(* mfgmode.rs, transport/src/bootp.rs and serial.rs): the tool answers the  *)
(* box's BOOTP request with Control4's cookie, watches its console for the  *)
(* bootloader's shell, and types the commands that fetch two images over    *)
(* TFTP and start them.                                                    *)
(*                                                                          *)
(* The box, its user and another DHCP server on the network are external.   *)
(* The console has no flow control and reads deliver whatever has come: a   *)
(* prompt, which never ends a line, may arrive in two pieces.              *)
(***************************************************************************)
EXTENDS Naturals, Sequences

CONSTANTS
    MaxPowerCycles, \* bound: times the user powers the box up
    MaxFailures     \* bound: transfers that fail

Stages == {"WaitingForPowerCycle", "ButtonNotHeld", "WaitingForCookie",
           "WaitingForShell", "AtShell", "CookieRejected"}
Images == {"kernel", "initrd"}

VARIABLES
    box,        \* off, mfg, stock, auto, entering, shell, an image, or linux
    ram,        \* what is in the box's memory, by image
    console,    \* what the box has printed and the tool has not read
    typed,      \* commands the tool has sent and the box has not read
    pc,         \* where the tool is: watch, next, wait, sent or failed
    served,     \* its BOOTP and TFTP servers run
    stage,      \* MfgWatch::stage
    tail,       \* LineBuffer: the line that is not complete, in pieces
    fedtail,    \* drive_to_shell: the tail last fed
    todo,       \* commands still to type, the current one first
    echoed,     \* TftpWatch::echoed
    ncycles, nfailures,
    blind       \* history: the power was cycled where the tool cannot see it

boxvars == <<box, ram>>
toolvars == <<pc, served, stage, tail, fedtail, todo, echoed>>
bounds == <<ncycles, nfailures, blind>>
netvars == <<boxvars, console, typed, toolvars, bounds>>

Prompt == <<"sh", "ell>">>
Commands == <<"ip", "kernel", "initrd", "boot">>

TypeOK ==
    /\ box \in {"off", "mfg", "stock", "auto", "entering", "shell", "linux"} \cup Images
    /\ ram \in [Images -> {"none", "partial", "whole"}]
    /\ pc \in {"watch", "next", "wait", "sent", "failed"}
    /\ served \in BOOLEAN /\ stage \in Stages
    /\ todo \in {SubSeq(Commands, k, Len(Commands)) : k \in 1..Len(Commands) + 1}
    /\ echoed \in BOOLEAN /\ blind \in BOOLEAN
    /\ ncycles \in 0..MaxPowerCycles /\ nfailures \in 0..MaxFailures

-----------------------------------------------------------------------------
(* The box.                                                                *)

Says(what) == console' = console \o what

(* The user cuts the power and restores it, the button held or not, at any  *)
(* time.  It takes seconds of silence: what came before has been read and,  *)
(* while the tool watches, its tail dropped.  Nothing reads the console     *)
(* between two commands, and a tool that has heard a transfer's echo takes  *)
(* whatever prompt comes next for its end.                                 *)
PowerCycle(held) ==
    /\ ncycles < MaxPowerCycles
    /\ pc \in {"watch", "wait"} => console = <<>>
    /\ pc = "watch" => tail = <<>> /\ fedtail = <<>>
    /\ ncycles' = ncycles + 1
    /\ blind' = (blind \/ (pc = "next" /\ todo # <<>>) \/ (pc = "wait" /\ echoed))
    /\ box' = IF held THEN "mfg" ELSE "stock"
    /\ ram' = [i \in Images |-> "none"]
    /\ typed' = <<>>
    /\ Says(IF held THEN <<"Enabled">> ELSE <<"Disabled">>)
    /\ UNCHANGED <<toolvars, nfailures>>

(* bootp: the cookie, for this box alone.                                  *)
Cookie ==
    /\ box = "mfg" /\ served
    /\ box' = "entering"
    /\ Says(<<"Entering">>)
    /\ UNCHANGED <<ram, typed, toolvars, bounds>>

(* Another server's answer came first.                                     *)
OtherDhcp ==
    /\ box = "mfg"
    /\ box' = "auto"
    /\ Says(<<"AC_BOOT">>)
    /\ UNCHANGED <<ram, typed, toolvars, bounds>>

(* A box that boots its own way runs its stored script, prompts and all.   *)
Autoscript ==
    /\ box \in {"auto", "stock"}
    /\ box' = "off"
    /\ Says(Prompt \o <<"script">>)
    /\ UNCHANGED <<ram, typed, toolvars, bounds>>

(* The file the reply names does not exist.                                *)
DropToShell ==
    /\ box = "entering"
    /\ box' = "shell"
    /\ Says(Prompt)
    /\ UNCHANGED <<ram, typed, toolvars, bounds>>

(* The shell reads a command: the echo ends the prompt's line.             *)
ShellReads ==
    /\ box = "shell" /\ typed # <<>>
    /\ typed' = Tail(typed)
    /\ CASE Head(typed) = "ip"   -> box' = "shell" /\ Says(<<"ip">> \o Prompt)
         [] Head(typed) = "boot" -> box' = "linux" /\ Says(<<"boot">>)
         [] Head(typed) \in Images -> box' = Head(typed) /\ Says(<<"tftp_get">>)
    /\ ram' = [i \in Images |-> IF i = Head(typed) THEN "partial" ELSE ram[i]]
    /\ UNCHANGED <<toolvars, bounds>>

(* The transfer ends: it is whole, or failed, or its server has gone.      *)
TransferEnds ==
    /\ box \in Images
    /\ box' = "shell"
    /\ \/ /\ served
          /\ ram' = [ram EXCEPT ![box] = "whole"]
          /\ Says(<<"length">> \o Prompt)
          /\ UNCHANGED nfailures
       \/ /\ nfailures < MaxFailures \/ ~served
          /\ nfailures' = IF served THEN nfailures + 1 ELSE nfailures
          /\ Says(<<"tftp_failed">> \o Prompt)
          /\ UNCHANGED ram
    /\ UNCHANGED <<typed, toolvars, ncycles, blind>>

-----------------------------------------------------------------------------
(* The tool's console.                                                     *)

Lines == {"Enabled", "Disabled", "Entering", "AC_BOOT", "script", "ip", "boot",
          "tftp_get", "length", "tftp_failed"}

(* LineBuffer::push, lines and tail: a piece completes the line that the    *)
(* tail began, or adds to the tail.                                        *)
Line(c) == [text |-> c, prompt |-> tail = Prompt]
TailAfter(c) == IF c \in Lines THEN <<>> ELSE Append(tail, c)

(* Serial::poll delivers some of what has come.  Its pieces are taken one   *)
(* by one, and every one but the last has another behind it.               *)
Take(last) ==
    /\ console # <<>> /\ (last \/ Len(console) > 1)
    /\ console' = Tail(console) /\ tail' = TailAfter(Head(console))

(* A prompt before the cookie was accepted is the stored script echoing.   *)
Trusts(s) == s = "WaitingForShell"

(* MfgWatch::feed.                                                         *)
feed(s, line) ==
    IF s = "AtShell" THEN s
    ELSE IF line.text = "Enabled" THEN "WaitingForCookie"
    ELSE IF line.text = "Disabled" THEN "ButtonNotHeld"
    ELSE IF line.text = "Entering" THEN "WaitingForShell"
    ELSE IF line.text = "AC_BOOT" /\ s = "WaitingForCookie" THEN "CookieRejected"
    ELSE IF line.prompt /\ Trusts(s) THEN "AtShell"
    ELSE s

(* A read of drive_to_shell: every complete line, then the tail if it is a  *)
(* prompt and not the one that was fed last.                               *)
WatchReads(last) ==
    /\ pc = "watch" /\ Take(last)
    /\ LET lined == IF Head(console) \in Lines THEN feed(stage, Line(Head(console))) ELSE stage
           fresh == last /\ tail' = Prompt /\ tail' # fedtail
       IN  /\ stage' = IF fresh THEN feed(lined, [text |-> "", prompt |-> TRUE]) ELSE lined
           /\ fedtail' = IF fresh THEN tail' ELSE fedtail
    /\ pc' = IF last /\ stage' = "AtShell" THEN "next" ELSE "watch"
    /\ UNCHANGED <<boxvars, typed, served, todo, echoed, bounds>>

(* Half a second of silence: the tail is taken, a prompt unread.           *)
WatchSilence ==
    /\ pc = "watch" /\ console = <<>>
    /\ tail' = <<>> /\ fedtail' = <<>>
    /\ UNCHANGED <<boxvars, console, typed, pc, served, stage, todo, echoed, bounds>>

(* SHELL_DEADLINE: the servers stop.                                       *)
GiveUp ==
    /\ pc = "watch"
    /\ pc' = "failed" /\ served' = FALSE
    /\ UNCHANGED <<boxvars, console, typed, stage, tail, fedtail, todo, echoed, bounds>>

-----------------------------------------------------------------------------
(* Typing the commands.                                                    *)

(* drain, before a transfer: what has come is dropped.                     *)
Drained(cmd) ==
    IF cmd \in Images THEN console' = <<>> /\ tail' = <<>> ELSE UNCHANGED <<console, tail>>

(* send_ramboot: the next command.  The register pokes before bootlinux    *)
(* are typed with it.                                                      *)
TypeCommand ==
    /\ pc = "next" /\ todo # <<>>
    /\ Drained(Head(todo))
    /\ typed' = Append(typed, Head(todo))
    /\ echoed' = FALSE
    /\ IF Head(todo) \in Images
       THEN pc' = "wait" /\ UNCHANGED todo
       ELSE pc' = "next" /\ todo' = Tail(todo)
    /\ UNCHANGED <<boxvars, served, stage, fedtail, bounds>>

(* Mutant: any prompt ends the transfer.                                   *)
MutantFinished(heard, rest) == rest = Prompt

(* TftpWatch::feed: the prompt after the command's own echo.               *)
Finished(heard, rest) == heard /\ rest = Prompt

(* A read of wait_for_tftp.                                                *)
WaitReads(last) ==
    /\ pc = "wait" /\ Take(last)
    /\ echoed' = (echoed \/ Head(console) = "tftp_get")
    /\ CASE Head(console) = "tftp_failed" ->
              pc' = "failed" /\ served' = FALSE /\ UNCHANGED todo
         [] Head(console) # "tftp_failed" /\ last /\ Finished(echoed', tail') ->
              pc' = "next" /\ todo' = Tail(todo) /\ UNCHANGED served
         [] OTHER -> UNCHANGED <<pc, todo, served>>
    /\ UNCHANGED <<boxvars, typed, stage, fedtail, bounds>>

(* TFTP_DEADLINE: the transfer hangs.                                      *)
TransferHangs ==
    /\ pc = "wait"
    /\ pc' = "failed" /\ served' = FALSE
    /\ UNCHANGED <<boxvars, console, typed, stage, tail, fedtail, todo, echoed, bounds>>

(* All is typed: the servers stop.                                         *)
Sent ==
    /\ pc = "next" /\ todo = <<>>
    /\ pc' = "sent" /\ served' = FALSE
    /\ UNCHANGED <<boxvars, console, typed, stage, tail, fedtail, todo, echoed, bounds>>

NetInit ==
    /\ box = "off" /\ ram = [i \in Images |-> "none"]
    /\ console = <<>> /\ typed = <<>>
    /\ pc = "watch" /\ served = TRUE
    /\ stage = "WaitingForPowerCycle" /\ tail = <<>> /\ fedtail = <<>>
    /\ todo = Commands /\ echoed = FALSE
    /\ ncycles = 0 /\ nfailures = 0 /\ blind = FALSE

Box == Cookie \/ OtherDhcp \/ Autoscript \/ DropToShell \/ ShellReads \/ TransferEnds
Tool ==
    \/ \E last \in BOOLEAN : WatchReads(last) \/ WaitReads(last)
    \/ WatchSilence \/ TypeCommand \/ Sent

NetNext == (\E held \in BOOLEAN : PowerCycle(held)) \/ Box \/ Tool \/ GiveUp \/ TransferHangs

NetSpec == NetInit /\ [][NetNext]_netvars /\ WF_netvars(Box) /\ WF_netvars(Tool)

-----------------------------------------------------------------------------
(* Properties.                                                             *)

(* "Booting a partial image is not": the box starts what it was sent only   *)
(* when both images are whole in its memory, however the console's pieces  *)
(* arrived and whatever failed.                                            *)
StartsWhole == box = "linux" => \A i \in Images : ram[i] = "whole"

(* Commands are typed at the shell, and what is typed is read there: never  *)
(* by the stored script ("every command typed afterwards went nowhere").    *)
TypesAtShell ==
    (pc = "next" /\ todo # <<>>) \/ typed # <<>> => box \in {"shell", "linux"} \cup Images

(* Both, for the run that checks the flasher, unless the box was            *)
(* power-cycled after the echo of a `tftp get` or between two commands:     *)
(* what the tool then types goes into the stored script, and the next       *)
(* prompt counts as the transfer's end whatever is in memory.  A cycle at   *)
(* any other moment, before the echo for one, is harmless.                 *)
NothingPartialRuns == blind \/ (StartsWhole /\ TypesAtShell)

=============================================================================
