------------------------------- MODULE IomcuApp -------------------------------
(***************************************************************************)
(* The I/O microcontroller's firmware (io-mcu/core/app.c): a main loop that *)
(* handles the host's frames, reports the end of an infrared code and hands *)
(* on what the receiver heard, and the burst timer's interrupt, which walks *)
(* the code on the air and may fire between any two of its steps.           *)
(*                                                                          *)
(* The host is the kernel driver: a combo jack's infrared output is refused *)
(* while its mode says serial, and its tty opens only when it does          *)
(* (gpio-ohc-iomcu.c, ohc_tx_ir and ohc_serial_activate).                   *)
(*                                                                          *)
(* A frame is its opcode and the argument the handlers branch on; bytes,    *)
(* pins and durations are abstracted: a code is its number of bursts.       *)
(***************************************************************************)
EXTENDS Naturals, Sequences

CONSTANTS
    MaxFrames,   \* bound: frames the host sends in a behaviour
    MaxQueue,    \* bound: frames waiting in the host UART's ring
    MaxBursts,   \* bound: bursts of a code that ends
    MaxResets    \* bound: crashes and resets of the part

VARIABLES
    ringq,     \* frames received and not yet handled
    sent,      \* frames sent so far; a frame's number is its sequence
    serial,    \* the host's u->serial: the jack's mode
    resets,    \* crashes and resets so far
    pc,        \* the main loop's place
    back,      \* where capture_update returns to
    run,       \* capture_update's local
    table,     \* the pin table in force (cfg)
    tx,        \* tx_active, tx_stop, tx_done and tx_seq
    left,      \* the cursor: bursts still to go out
    emitting,  \* a carrier is running
    capOn,     \* cap_on: the host asked for captures
    capRun,    \* cap_run: the receiver's interrupt is listening
    uartOn,    \* the jack's serial pins are driven
    fate       \* history: what became of each code

host == <<sent, serial>>
loop == <<pc, back, run>>
vars == <<ringq, host, resets, loop, table, tx, left, emitting, capOn, capRun, uartOn, fate>>

(* No table yet, one with the jack and the receiver, one with the jack's   *)
(* serial side alone.                                                      *)
Tables == {"none", "full", "serial"}
HasIr == table = "full"
HasUart == table \in {"full", "serial"}

(* A mode 0xff code repeats until it is stopped.                           *)
Endless == MaxBursts + 1
Seqs == 1..MaxFrames

Frames ==
    [op : {"send"}, seq : Seqs, arg : 1..Endless]
      \cup [op : {"config"}, seq : Seqs, arg : {"full", "serial"}]
      \cup [op : {"stop", "capture", "capture_off", "uart_on", "uart_off"}, seq : Seqs, arg : {0}]

Places == {"rx", "update", "write", "start", "tx", "report", "cap"}
Fates == {"none", "refused", "playing", "done", "stopped", "dropped"}

TypeOK ==
    /\ ringq \in Seq(Frames) /\ Len(ringq) <= MaxQueue
    /\ sent \in 0..MaxFrames /\ serial \in BOOLEAN /\ resets \in 0..MaxResets
    /\ pc \in Places /\ back \in Places /\ run \in BOOLEAN
    /\ table \in Tables
    /\ tx \in [active : BOOLEAN, stop : BOOLEAN, done : BOOLEAN, seq : 0..MaxFrames]
    /\ left \in 0..Endless
    /\ emitting \in BOOLEAN /\ capOn \in BOOLEAN /\ capRun \in BOOLEAN /\ uartOn \in BOOLEAN
    /\ fate \in [Seqs -> Fates]

Init ==
    /\ ringq = <<>> /\ sent = 0 /\ serial = FALSE /\ resets = 0
    /\ pc = "rx" /\ back = "rx" /\ run = FALSE
    /\ table = "none"
    /\ tx = [active |-> FALSE, stop |-> FALSE, done |-> FALSE, seq |-> 0]
    /\ left = 0
    /\ emitting = FALSE /\ capOn = FALSE /\ capRun = FALSE /\ uartOn = FALSE
    /\ fate = [s \in Seqs |-> "none"]

-----------------------------------------------------------------------------
(* The host.                                                               *)

Post(op, arg) ==
    /\ sent < MaxFrames /\ Len(ringq) < MaxQueue
    /\ sent' = sent + 1
    /\ ringq' = Append(ringq, [op |-> op, seq |-> sent + 1, arg |-> arg])
    /\ UNCHANGED <<serial, resets, loop, table, tx, left, emitting, capOn, capRun, uartOn, fate>>

(* The pin table, the receiver, and a stop may be sent at any time.        *)
HostCommand ==
    \/ \E t \in {"full", "serial"} : Post("config", t)
    \/ \E op \in {"stop", "capture", "capture_off"} : Post(op, 0)

(* ohc_tx_ir: refused while the jack's mode is serial.                     *)
HostSendIr == ~serial /\ \E n \in 1..Endless : Post("send", n)

(* ohc_serial_activate: the tty opens once the mode says so.               *)
HostOpen == serial /\ Post("uart_on", 0)

(* mode_store: serial changes the mode alone, ir also switches the port.   *)
HostMode ==
    \/ /\ ~serial /\ serial' = TRUE
       /\ UNCHANGED <<ringq, sent, resets, loop, table, tx, left, emitting, capOn, capRun,
                      uartOn, fate>>
    \/ /\ serial /\ serial' = FALSE
       /\ sent < MaxFrames /\ Len(ringq) < MaxQueue
       /\ sent' = sent + 1
       /\ ringq' = Append(ringq, [op |-> "uart_off", seq |-> sent + 1, arg |-> 0])
       /\ UNCHANGED <<resets, loop, table, tx, left, emitting, capOn, capRun, uartOn, fate>>

Host == HostCommand \/ HostSendIr \/ HostOpen \/ HostMode

-----------------------------------------------------------------------------
(* The main loop: app_poll handles every frame there is, then tx_poll, then *)
(* capture_poll.                                                           *)

frame == Head(ringq)

Take(op) ==
    /\ pc = "rx" /\ ringq # <<>> /\ frame.op = op
    /\ ringq' = Tail(ringq)

Update(place) == pc' = "update" /\ back' = place

NoMoreFrames ==
    /\ pc = "rx" /\ ringq = <<>>
    /\ pc' = "tx"
    /\ UNCHANGED <<ringq, host, resets, back, run, table, tx, left, emitting, capOn, capRun,
                   uartOn, fate>>

Accepts == ~tx.active /\ HasIr

(* ir_send: busy, no such output, or the code is set up and the receiver   *)
(* switched off before the carrier starts.                                 *)
IrSend ==
    /\ Take("send")
    /\ \/ /\ ~Accepts
          /\ fate' = [fate EXCEPT ![frame.seq] = "refused"]
          /\ UNCHANGED <<pc, back, tx, left>>
       \/ /\ Accepts
          /\ fate' = [fate EXCEPT ![frame.seq] = "playing"]
          /\ tx' = [tx EXCEPT !.active = TRUE, !.stop = FALSE, !.seq = frame.seq]
          /\ left' = frame.arg
          /\ Update("start")
    /\ UNCHANGED <<host, resets, run, table, emitting, capOn, capRun, uartOn>>

(* The end of ir_send: carriers on, and the first burst goes out.          *)
Start ==
    /\ pc = "start"
    /\ pc' = "rx"
    /\ emitting' = TRUE
    /\ left' = IF left = Endless THEN left ELSE left - 1
    /\ UNCHANGED <<ringq, host, resets, back, run, table, tx, capOn, capRun, uartOn, fate>>

(* IROUT_STOP: the next burst interrupt ends the code.                     *)
IrStop ==
    /\ Take("stop")
    /\ tx' = [tx EXCEPT !.stop = TRUE]
    /\ UNCHANGED <<host, resets, loop, table, left, emitting, capOn, capRun, uartOn, fate>>

(* IRIN_SET_CAPTURE: on, from a clean state.                               *)
SetCapture ==
    /\ Take("capture")
    /\ capOn' = TRUE /\ capRun' = FALSE
    /\ Update("rx")
    /\ UNCHANGED <<host, resets, run, table, tx, left, emitting, uartOn, fate>>

(* IR_PIN_STATE_CLEAR: off.                                                *)
ClearCapture ==
    /\ Take("capture_off")
    /\ capOn' = FALSE
    /\ Update("rx")
    /\ UNCHANGED <<host, resets, run, table, tx, left, emitting, capRun, uartOn, fate>>

(* uart_control: nothing without a port; else pins and jack follow enable. *)
UartControl ==
    \E op \in {"uart_on", "uart_off"} :
        /\ Take(op)
        /\ uartOn' = IF HasUart THEN op = "uart_on" ELSE uartOn
        /\ UNCHANGED <<host, resets, loop, table, tx, left, emitting, capOn, capRun, fate>>

(* teardown: a code on the air ends unreported, everything is released.    *)
Dropped == [s \in Seqs |-> IF fate[s] = "playing" THEN "dropped" ELSE fate[s]]

Teardown ==
    /\ emitting' = FALSE /\ fate' = Dropped
    /\ tx' = [tx EXCEPT !.active = FALSE, !.done = FALSE]
    /\ capOn' = FALSE /\ capRun' = FALSE /\ uartOn' = FALSE

(* config_set: the same table again changes nothing.                       *)
ConfigSet ==
    /\ Take("config")
    /\ table' = frame.arg
    /\ \/ frame.arg = table /\ UNCHANGED <<emitting, fate, tx, capOn, capRun, uartOn>>
       \/ frame.arg # table /\ Teardown
    /\ UNCHANGED <<host, resets, loop, left>>

(* capture_update reads, and then writes, what decides whether to listen.  *)

(* Mutant: it does not look whether a code is going out.                   *)
MutantCaptureRead ==
    /\ pc = "update"
    /\ run' = (HasIr /\ capOn)
    /\ pc' = "write"
    /\ UNCHANGED <<ringq, host, resets, back, table, tx, left, emitting, capOn, capRun, uartOn, fate>>

CaptureRead ==
    /\ pc = "update"
    /\ run' = (HasIr /\ capOn /\ ~tx.active)
    /\ pc' = "write"
    /\ UNCHANGED <<ringq, host, resets, back, table, tx, left, emitting, capOn, capRun, uartOn, fate>>

CaptureWrite ==
    /\ pc = "write"
    /\ capRun' = run
    /\ pc' = back
    /\ UNCHANGED <<ringq, host, resets, back, run, table, tx, left, emitting, capOn, uartOn, fate>>

(* tx_poll: nothing ended, or the completion goes out under tx_seq.        *)
TxPoll ==
    /\ pc = "tx"
    /\ pc' = IF tx.done THEN "report" ELSE "cap"
    /\ tx' = [tx EXCEPT !.done = FALSE]
    /\ UNCHANGED <<ringq, host, resets, back, run, table, left, emitting, capOn, capRun, uartOn, fate>>

(* Mutant: tx_poll reports and leaves the receiver as it is.               *)
MutantReport ==
    /\ pc = "report"
    /\ pc' = "cap"
    /\ UNCHANGED <<ringq, host, resets, back, run, table, tx, left, emitting, capOn, capRun,
                   uartOn, fate>>

Report ==
    /\ pc = "report"
    /\ Update("cap")
    /\ UNCHANGED <<ringq, host, resets, run, table, tx, left, emitting, capOn, capRun,
                   uartOn, fate>>

(* capture_poll: a whole code was heard and goes out, or there is nothing. *)
CapturePoll ==
    /\ pc = "cap"
    /\ \/ pc' = "rx" /\ UNCHANGED <<back, capRun>>
       \/ capRun /\ capRun' = FALSE /\ Update("rx")
    /\ UNCHANGED <<ringq, host, resets, run, table, tx, left, emitting, capOn, uartOn, fate>>

MainLoop ==
    \/ NoMoreFrames \/ IrSend \/ Start \/ IrStop \/ SetCapture \/ ClearCapture \/ UartControl
    \/ ConfigSet \/ CaptureRead \/ CaptureWrite \/ TxPoll \/ Report \/ CapturePoll

-----------------------------------------------------------------------------

(* app_burst_isr: the timer runs from the first burst of a code to its end.*)
Burst ==
    /\ emitting
    /\ \/ /\ tx.stop \/ left = 0
          /\ emitting' = FALSE
          /\ tx' = [tx EXCEPT !.active = FALSE, !.done = TRUE]
          /\ fate' = [fate EXCEPT ![tx.seq] = IF tx.stop THEN "stopped" ELSE "done"]
          /\ UNCHANGED left
       \/ /\ ~tx.stop /\ left # 0
          /\ left' = IF left = Endless THEN left ELSE left - 1
          /\ UNCHANGED <<emitting, tx, fate>>
    /\ UNCHANGED <<ringq, host, resets, loop, table, capOn, capRun, uartOn>>

(* A crash, or RESET: the bootloader, and later app_init; the host's frames *)
(* in between are lost.                                                    *)
Reset ==
    /\ resets < MaxResets
    /\ resets' = resets + 1
    /\ ringq' = <<>>
    /\ pc' = "rx" /\ back' = "rx" /\ run' = FALSE
    /\ table' = "none"
    /\ tx' = [active |-> FALSE, stop |-> FALSE, done |-> FALSE, seq |-> 0]
    /\ left' = 0
    /\ emitting' = FALSE /\ fate' = Dropped
    /\ capOn' = FALSE /\ capRun' = FALSE /\ uartOn' = FALSE
    /\ UNCHANGED <<host>>

Next == Host \/ MainLoop \/ Burst \/ Reset

Spec == Init /\ [][Next]_vars

(* The main loop spins, and an armed timer fires.                          *)
FairSpec == Spec /\ WF_vars(MainLoop) /\ WF_vars(Burst)

-----------------------------------------------------------------------------
(* Properties.                                                             *)

(* "Capture pauses while transmitting": the receiver never listens to the  *)
(* part's own carrier, whenever the interrupt ends a code (capture_update).*)
NoSelfCapture == emitting => ~capRun

(* One code at a time: the job the interrupt walks is never replaced under *)
(* it, and tx_active says whether there is one (ir_send).                  *)
OneCodeOnAir == \A s \in Seqs : fate[s] = "playing" <=> (tx.active /\ tx.seq = s)

(* Nothing is driven, and nothing listens, that the table in force does    *)
(* not declare, across every change of it (teardown, config_set).          *)
OnlyTabledPins ==
    /\ emitting \/ capRun => HasIr
    /\ uartOn => HasUart

(* What the burst interrupt may never do to the main loop's state, whichever *)
(* two of its steps it falls between (app.c, ir_send to config_set).        *)
AppSound == NoSelfCapture /\ OneCodeOnAir /\ OnlyTabledPins

(* The receiver listens again after every code, unless the host has turned *)
(* it off or a code that never ends is on the air (tx_poll).               *)
Wanted == capOn /\ HasIr /\ ~(left = Endless /\ tx.active /\ ~tx.stop)
CaptureResumes == Wanted ~> (capRun \/ ~Wanted)

=============================================================================
