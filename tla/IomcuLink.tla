------------------------------ MODULE IomcuLink ------------------------------
(***************************************************************************)
(* The conversation between the openHC kernel driver and the I/O           *)
(* microcontroller (gpio-ohc-iomcu.c, __ohc_request, ohc_send and          *)
(* ohc_frame_complete, with the answering side of the firmware's           *)
(* on_frame).  Kernel threads (a gpio ioctl, a write to /dev/ohc/relay1, a *)
(* tty, lirc, the contact poller) take io_lock one at a time, stamp a      *)
(* frame with the next 8-bit sequence number and sleep until the decoder,  *)
(* which runs in the tty worker, completes the frame whose number it was   *)
(* told to want.  Frames can be lost either way (a bad checksum, a reset   *)
(* part, a full ring) and a caller can give up by time-out or by signal    *)
(* while its answer is still on its way.                                   *)
(*                                                                         *)
(* A request is named by the count of frames the driver has issued, which  *)
(* the code does not keep; what the wire and the code carry is Stamp(id).  *)
(***************************************************************************)
EXTENDS Naturals, Sequences, SequencesExt, FiniteSets

CONSTANTS
    Threads,      \* kernel threads that may hold a conversation
    NoThread,     \* "the mutex is free"
    Wrap,       \* sequence numbers on the wire: 256, a byte
    Depth,        \* frames a direction of the UART and its ring can hold
    MaxRequests,  \* bound: frames the driver issues in a behaviour
    MaxUnsolicited \* bound: unsolicited frames the MCU sends in a behaviour

ASSUME WrapAssumption == Wrap \in Nat \ {0}
ASSUME DepthAssumption == Depth \in Nat \ {0}
ASSUME MaxRequestsAssumption == MaxRequests \in Nat
ASSUME MaxUnsolicitedAssumption == MaxUnsolicited \in Nat
ASSUME NoThreadAssumption == NoThread \notin Threads

VARIABLES
    ioLock,      \* holder of mcu->io_lock
    pc,          \* where each thread is in __ohc_request
    op,          \* "ask" (__ohc_request) or "tell" (ohc_send)
    mine,        \* the request a thread is holding, or held last
    got,         \* the frame __ohc_request last handed its caller
    ret,         \* what the last call returned
    issued,      \* frames issued: mcu->seq is Stamp(issued)
    wantReply,   \* mcu->want_reply
    wantSeq,     \* mcu->want_seq
    replyFrame,  \* mcu->reply_frame
    completion,  \* the count inside the completion mcu->reply
    rx,          \* "idle", or "completing": between unlock and complete()
    toMcu,       \* frames on their way to the MCU, oldest first
    fromMcu,     \* frames on their way to the host, oldest first
    served,      \* requests the firmware has acted upon
    useq,        \* the firmware's counter for its own frames
    unsolicited, \* how many unsolicited frames it has sent
    dispatched,  \* unsolicited frames that reached their tty or rc device
    crossed      \* history: a caller gave up while the decoder was completing

driver  == <<ioLock, pc, op, mine, got, ret, issued>>
decoder == <<wantReply, wantSeq, replyFrame, completion, rx, dispatched>>
wire    == <<toMcu, fromMcu>>
firmware == <<served, useq, unsolicited>>
vars == <<driver, decoder, wire, firmware, crossed>>

Ids == 0..MaxRequests   \* 0: no request yet
MutantStamp(id) == id   \* mutant: the number is not a byte

Stamp(id) == id % Wrap
SeqNums == 0..(Wrap - 1)

(* A frame from the MCU: an answer to a request, or its own.               *)
Frame == [kind : {"answer"}, id : Ids, seq : SeqNums]
             \cup [kind : {"unsolicited"}, id : 1..MaxUnsolicited, seq : SeqNums]
NoFrame == [kind |-> "none", id |-> 0, seq |-> 0]
Torn    == [kind |-> "torn", id |-> 0, seq |-> 0]
Answer(id) == [kind |-> "answer", id |-> id, seq |-> Stamp(id)]
AnyFrame == Frame \cup {NoFrame, Torn}
Tell == [id : Ids, reply : BOOLEAN]

Inside == {"arm", "reinit", "write", "wait", "copy", "leave"}

TypeOK ==
    /\ ioLock \in Threads \cup {NoThread}
    /\ pc \in [Threads -> {"idle", "called"} \cup Inside]
    /\ op \in [Threads -> {"ask", "tell"}]
    /\ mine \in [Threads -> Ids]
    /\ got \in [Threads -> AnyFrame]
    /\ ret \in [Threads -> {"none", "ok", "failed"}]
    /\ issued \in Ids
    /\ wantReply \in BOOLEAN
    /\ wantSeq \in SeqNums
    /\ replyFrame \in AnyFrame
    /\ completion \in Nat
    /\ rx \in {"idle", "completing"}
    /\ toMcu \in Seq(Tell)
    /\ fromMcu \in Seq(Frame)
    /\ served \subseteq Ids
    /\ useq \in SeqNums
    /\ unsolicited \in 0..MaxUnsolicited
    /\ dispatched \subseteq 1..MaxUnsolicited
    /\ crossed \in BOOLEAN

Init ==
    /\ ioLock = NoThread
    /\ pc = [t \in Threads |-> "idle"]
    /\ op = [t \in Threads |-> "ask"]
    /\ mine = [t \in Threads |-> 0]
    /\ got = [t \in Threads |-> NoFrame]
    /\ ret = [t \in Threads |-> "none"]
    /\ issued = 0
    /\ wantReply = FALSE
    /\ wantSeq = 0
    /\ replyFrame = NoFrame
    /\ completion = 0
    /\ rx = "idle"
    /\ toMcu = <<>>
    /\ fromMcu = <<>>
    /\ served = {}
    /\ useq \in SeqNums   \* the MCU keeps counting while the host reboots
    /\ unsolicited = 0
    /\ dispatched = {}
    /\ crossed = FALSE

-----------------------------------------------------------------------------
(* The caller's side.                                                      *)

(* A thread enters ohc_request or ohc_send and queues on the mutex.        *)
Call(t) ==
    /\ pc[t] = "idle"
    /\ issued + Cardinality({u \in Threads : pc[u] = "called"}) < MaxRequests
    /\ pc' = [pc EXCEPT ![t] = "called"]
    /\ \E o \in {"ask", "tell"} : op' = [op EXCEPT ![t] = o]
    /\ UNCHANGED <<ioLock, mine, got, ret, issued, decoder, wire, firmware, crossed>>

(* Requests whose frame or answer is still alive somewhere.                *)
InFlight ==
    {f.id : f \in ToSet(toMcu)} \cup {f.id : f \in {g \in ToSet(fromMcu) : g.kind = "answer"}}

(* mutex_lock(&mcu->io_lock); seq = ++mcu->seq.  The last conjunct is the  *)
(* one assumption the 8-bit number needs: nothing on the wire is Wrap    *)
(* requests old.  The MCU's receive ring holds 512 bytes, under 64 frames, *)
(* and each silent request costs its caller 600 ms.                        *)
Acquire(t) ==
    /\ pc[t] = "called"
    /\ ioLock = NoThread
    /\ issued < MaxRequests
    /\ \A id \in InFlight : issued + 1 < id + Wrap
    /\ ioLock' = t
    /\ issued' = issued + 1
    /\ mine' = [mine EXCEPT ![t] = issued + 1]
    /\ pc' = [pc EXCEPT ![t] = IF op[t] = "ask" THEN "arm" ELSE "write"]
    /\ UNCHANGED <<op, got, ret, decoder, wire, firmware, crossed>>

(* Under rx_lock: want_seq = seq, want_reply = true.                       *)
Arm(t) ==
    /\ pc[t] = "arm"
    /\ wantSeq' = Stamp(mine[t])
    /\ wantReply' = TRUE
    /\ pc' = [pc EXCEPT ![t] = "reinit"]
    /\ UNCHANGED <<ioLock, op, mine, got, ret, issued, replyFrame, completion, rx,
                   dispatched, wire, firmware, crossed>>

(* Mutant: the completion is not reset, so a left-over one answers at once. *)
MutantReinit(t) ==
    /\ pc[t] = "reinit"
    /\ pc' = [pc EXCEPT ![t] = "write"]
    /\ UNCHANGED <<ioLock, op, mine, got, ret, issued, decoder, wire, firmware, crossed>>

(* reinit_completion(&mcu->reply), after the decoder was armed.            *)
Reinit(t) ==
    /\ pc[t] = "reinit"
    /\ completion' = 0
    /\ pc' = [pc EXCEPT ![t] = "write"]
    /\ UNCHANGED <<ioLock, op, mine, got, ret, issued, wantReply, wantSeq, replyFrame,
                   rx, dispatched, wire, firmware, crossed>>

(* ohc_write_frame puts the frame on the line; a frame the ring has no     *)
(* room for is lost there, as a damaged one is.                            *)
Write(t) ==
    /\ pc[t] = "write"
    /\ \/ /\ Len(toMcu) < Depth
          /\ toMcu' = Append(toMcu, [id |-> mine[t], reply |-> op[t] = "ask"])
       \/ UNCHANGED toMcu
    /\ IF op[t] = "ask"
         THEN /\ pc' = [pc EXCEPT ![t] = "wait"]
              /\ UNCHANGED <<ret, ioLock>>
         ELSE /\ pc' = [pc EXCEPT ![t] = "idle"]
              /\ ret' = [ret EXCEPT ![t] = "ok"]
              /\ ioLock' = NoThread
    /\ UNCHANGED <<op, mine, got, issued, decoder, fromMcu, firmware, crossed>>

(* The write itself fails: no wait, straight to the exit path.             *)
WriteFails(t) ==
    /\ pc[t] = "write"
    /\ ret' = [ret EXCEPT ![t] = "failed"]
    /\ IF op[t] = "ask"
         THEN pc' = [pc EXCEPT ![t] = "leave"] /\ UNCHANGED ioLock
         ELSE pc' = [pc EXCEPT ![t] = "idle"] /\ ioLock' = NoThread
    /\ UNCHANGED <<op, mine, got, issued, decoder, wire, firmware, crossed>>

(* wait_for_completion returns: it consumes one complete().                *)
Wake(t) ==
    /\ pc[t] = "wait"
    /\ completion > 0
    /\ completion' = completion - 1
    /\ pc' = [pc EXCEPT ![t] = "copy"]
    /\ UNCHANGED <<ioLock, op, mine, got, ret, issued, wantReply, wantSeq, replyFrame,
                   rx, dispatched, wire, firmware, crossed>>

(* Mutant: a wait that ends without an answer is taken up again.           *)
MutantGiveUp(t) ==
    /\ pc[t] = "wait"
    /\ completion = 0
    /\ UNCHANGED vars

(* 600 ms passed, or a signal came: -ETIMEDOUT or -ERESTARTSYS.            *)
GiveUp(t) ==
    /\ pc[t] = "wait"
    /\ completion = 0
    /\ ret' = [ret EXCEPT ![t] = "failed"]
    /\ pc' = [pc EXCEPT ![t] = "leave"]
    /\ UNCHANGED <<ioLock, op, mine, got, issued, decoder, wire, firmware, crossed>>

(* *out = mcu->reply_frame, without rx_lock: while the decoder is still    *)
(* armed it may be writing the frame at this moment.                       *)
Copy(t) ==
    /\ pc[t] = "copy"
    /\ \/ got' = [got EXCEPT ![t] = replyFrame]
       \/ wantReply /\ got' = [got EXCEPT ![t] = Torn]
    /\ ret' = [ret EXCEPT ![t] = "ok"]
    /\ pc' = [pc EXCEPT ![t] = "leave"]
    /\ UNCHANGED <<ioLock, op, mine, issued, decoder, wire, firmware, crossed>>

(* Mutant: the decoder stays armed after its caller has gone.              *)
MutantLeave(t) ==
    /\ pc[t] = "leave"
    /\ ioLock' = NoThread
    /\ pc' = [pc EXCEPT ![t] = "idle"]
    /\ crossed' = (crossed \/ rx = "completing")
    /\ UNCHANGED <<op, mine, got, ret, issued, decoder, wire, firmware>>

(* Mutant: the exit path reports success whatever led to it.               *)
MutantLeaveOk(t) ==
    /\ pc[t] = "leave"
    /\ wantReply' = FALSE
    /\ ioLock' = NoThread
    /\ pc' = [pc EXCEPT ![t] = "idle"]
    /\ ret' = [ret EXCEPT ![t] = "ok"]
    /\ crossed' = (crossed \/ rx = "completing")
    /\ UNCHANGED <<op, mine, got, issued, wantSeq, replyFrame, completion, rx,
                   dispatched, wire, firmware>>

(* out: want_reply = false under rx_lock, then mutex_unlock.               *)
Leave(t) ==
    /\ pc[t] = "leave"
    /\ wantReply' = FALSE
    /\ ioLock' = NoThread
    /\ pc' = [pc EXCEPT ![t] = "idle"]
    /\ crossed' = (crossed \/ rx = "completing")
    /\ UNCHANGED <<op, mine, got, ret, issued, wantSeq, replyFrame, completion, rx,
                   dispatched, wire, firmware>>

-----------------------------------------------------------------------------
(* The decoder, in the tty worker.                                         *)

(* ohc_frame_complete on a good frame: the wanted number is the only test. *)
Capture ==
    /\ rx = "idle"
    /\ fromMcu # <<>>
    /\ wantReply /\ Head(fromMcu).seq = wantSeq
    /\ replyFrame' = Head(fromMcu)
    /\ wantReply' = FALSE
    /\ rx' = "completing"
    /\ fromMcu' = Tail(fromMcu)
    /\ UNCHANGED <<driver, wantSeq, completion, dispatched, toMcu, firmware, crossed>>

(* spin_unlock, then complete(&mcu->reply): outside rx_lock.               *)
Complete ==
    /\ rx = "completing"
    /\ completion' = completion + 1
    /\ rx' = "idle"
    /\ UNCHANGED <<driver, wantReply, wantSeq, replyFrame, dispatched, wire, firmware, crossed>>

(* Any other frame: an unsolicited one goes to its port, a late answer is  *)
(* dropped.                                                                *)
Dispatch ==
    /\ rx = "idle"
    /\ fromMcu # <<>>
    /\ ~(wantReply /\ Head(fromMcu).seq = wantSeq)
    /\ dispatched' = IF Head(fromMcu).kind = "unsolicited"
                       THEN dispatched \cup {Head(fromMcu).id} ELSE dispatched
    /\ fromMcu' = Tail(fromMcu)
    /\ UNCHANGED <<driver, wantReply, wantSeq, replyFrame, completion, rx, toMcu,
                   firmware, crossed>>

-----------------------------------------------------------------------------
(* The firmware and the wire.                                              *)

(* on_frame acts on a frame once and answers with its number; an opcode    *)
(* that is only told (IRIN_SET_CAPTURE) gets no answer.                    *)
Serve ==
    /\ toMcu # <<>>
    /\ served' = served \cup {Head(toMcu).id}
    /\ toMcu' = Tail(toMcu)
    /\ IF Head(toMcu).reply
         THEN /\ Len(fromMcu) < Depth
              /\ fromMcu' = Append(fromMcu, Answer(Head(toMcu).id))
         ELSE UNCHANGED fromMcu
    /\ UNCHANGED <<driver, decoder, useq, unsolicited, crossed>>

(* A remote was pressed or a serial byte came: a frame with the firmware's *)
(* own counter in the sequence byte.                                       *)
Emit ==
    /\ unsolicited < MaxUnsolicited
    /\ Len(fromMcu) < Depth
    /\ unsolicited' = unsolicited + 1
    /\ fromMcu' = Append(fromMcu, [kind |-> "unsolicited", id |-> unsolicited + 1, seq |-> useq])
    /\ useq' = Stamp(useq + 1)
    /\ UNCHANGED <<driver, decoder, toMcu, served, crossed>>

LoseRequest ==
    /\ toMcu # <<>>
    /\ toMcu' = Tail(toMcu)
    /\ UNCHANGED <<driver, decoder, fromMcu, firmware, crossed>>

LoseAnswer ==
    /\ fromMcu # <<>>
    /\ fromMcu' = Tail(fromMcu)
    /\ UNCHANGED <<driver, decoder, toMcu, firmware, crossed>>

-----------------------------------------------------------------------------
Step(t) ==
    \/ Acquire(t) \/ Arm(t) \/ Reinit(t) \/ Write(t) \/ WriteFails(t)
    \/ Wake(t) \/ GiveUp(t) \/ Copy(t) \/ Leave(t)

(* The bound is spent and everything has settled; nothing is left to do.   *)
Spent ==
    /\ issued = MaxRequests /\ unsolicited = MaxUnsolicited
    /\ rx = "idle" /\ toMcu = <<>> /\ fromMcu = <<>>
    /\ \A t \in Threads : pc[t] = "idle"
    /\ UNCHANGED vars

Next ==
    \/ \E t \in Threads : Call(t) \/ Step(t)
    \/ Capture \/ Complete \/ Dispatch
    \/ Serve \/ Emit \/ LoseRequest \/ LoseAnswer
    \/ Spent

Spec == Init /\ [][Next]_vars

(* A runnable thread runs, the mutex is handed to whoever waits for it, a  *)
(* wait ends by itself after OHC_TIMEOUT_MS, and the tty worker and the    *)
(* firmware's main loop keep turning.  Nothing says a frame arrives.       *)
Fairness ==
    /\ \A t \in Threads :
         /\ SF_vars(Acquire(t))
         /\ WF_vars(Arm(t) \/ Reinit(t) \/ Write(t) \/ Copy(t) \/ Leave(t))
         /\ WF_vars(Wake(t) \/ GiveUp(t))
    /\ WF_vars(Capture \/ Dispatch)
    /\ WF_vars(Complete)
    /\ WF_vars(Serve)

FairSpec == Spec /\ Fairness

-----------------------------------------------------------------------------
(* Properties.                                                             *)

(* Nothing has yet disturbed the match of numbers to callers: the MCU has  *)
(* sent nothing of its own, and no caller has left while the decoder stood *)
(* between its unlock and complete().                                      *)
Undisturbed == ~crossed /\ unsolicited = 0

(* The decoder hunts only on behalf of the one thread that holds io_lock,  *)
(* and for that thread's own number; a second conversation never starts    *)
(* inside the first (__ohc_request, ohc_frame_complete).                   *)
ArmedForHolder ==
    /\ \A t \in Threads : pc[t] \in Inside => ioLock = t
    /\ wantReply => /\ ioLock # NoThread
                    /\ op[ioLock] = "ask"
                    /\ wantSeq = Stamp(mine[ioLock])

(* What __ohc_request hands its caller is the firmware's answer to that    *)
(* very request, across time-outs, late answers, losses and the wrap of    *)
(* the number, as long as nothing disturbed the match.                     *)
OwnAnswer ==
    Undisturbed =>
        \A t \in Threads :
            ret[t] = "ok" /\ op[t] = "ask" /\ pc[t] = "leave" =>
                got[t] = Answer(mine[t]) /\ mine[t] \in served

(* Whatever the wire does, every call into the driver comes back.          *)
CallReturns == \A t \in Threads : pc[t] = "called" ~> pc[t] = "idle"

(* The link implements an at-most-once remote call (IomcuRpc): a request   *)
(* is acted upon once or never, in issue order, possibly after its caller  *)
(* was told it failed, and success means it was acted upon.                *)
Rpc == INSTANCE IomcuRpc WITH
          Clients <- Threads,
          MaxCalls <- MaxRequests,
          st <- [t \in Threads |-> IF pc[t] \in Inside \ {"leave"} THEN op[t] ELSE "idle"],
          call <- mine,
          count <- issued,
          acted <- served,
          result <- ret,
          sound <- Undisturbed

RefinesRpc == Rpc!Spec

=============================================================================
