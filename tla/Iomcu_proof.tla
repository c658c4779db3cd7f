----------------------------- MODULE Iomcu_proof -----------------------------
(***************************************************************************)
(* Proofs about the IO-MCU's application (IomcuApp) and about setting a    *)
(* relay through it (IomcuRelay): for any number of frames, bursts, resets,*)
(* writers and faults, what the burst interrupt may never do to the main   *)
(* loop, and that a write of a relay tells the truth.                      *)
(***************************************************************************)
EXTENDS MCIomcu, Sequences, TLAPS

-----------------------------------------------------------------------------
(* The application.  A code has been accepted and its carrier is not on:    *)
(* the receiver is being switched off.                                      *)
Starting == apc = "start" \/ (apc \in {"update", "write"} /\ back = "start")

(* Frames are handled in the order of their numbers, so none in the ring    *)
(* has the number of the code on the air.                                   *)
Numbered ==
    /\ \A i \in 1..Len(ringq) : tx.seq < ringq[i].seq /\ ringq[i].seq <= sent
    /\ \A i, j \in 1..Len(ringq) : i < j => ringq[i].seq < ringq[j].seq
    /\ tx.seq <= sent

(* tx_active is up from the moment a code is accepted until the interrupt   *)
(* or a teardown ends it, and the carrier runs from Start on.               *)
Airing ==
    /\ emitting => tx.active
    /\ tx.active <=> emitting \/ Starting
    /\ Starting => ~emitting /\ left # 0
    /\ tx.active => App!HasIr /\ tx.seq # 0
    /\ back \in {"rx", "start", "cap"}

(* What capture_update has read still holds when it writes it.              *)
Listening ==
    /\ apc = "write" /\ run => App!HasIr /\ ~tx.active
    /\ apc = "start" => ~capRun

AppInv == App!TypeOK /\ Numbered /\ Airing /\ Listening /\ App!AppSound

-----------------------------------------------------------------------------
(* The first frame of a ring in order, and what is left without it.         *)
LEMMA FrameTaken ==
    ASSUME App!TypeOK, Numbered, ringq # <<>>
    PROVE  /\ App!frame \in App!Frames /\ tx.seq < App!frame.seq /\ App!frame.seq <= sent
           /\ Tail(ringq) \in Seq(App!Frames) /\ Len(Tail(ringq)) = Len(ringq) - 1
           /\ \A i \in 1..Len(Tail(ringq)) :
                 /\ App!frame.seq < Tail(ringq)[i].seq /\ Tail(ringq)[i].seq <= sent
                 /\ Tail(ringq)[i] \in App!Frames
           /\ \A i, j \in 1..Len(Tail(ringq)) :
                 i < j => Tail(ringq)[i].seq < Tail(ringq)[j].seq
<1>1. ringq \in Seq(App!Frames) /\ Len(ringq) \in Nat \ {0} /\ App!frame = ringq[1]
  BY DEF App!TypeOK, App!frame
<1>2. Tail(ringq) \in Seq(App!Frames) /\ Len(Tail(ringq)) = Len(ringq) - 1
  BY <1>1
<1>3. \A i \in 1..Len(Tail(ringq)) :
          Tail(ringq)[i] = ringq[i + 1] /\ i + 1 \in 1..Len(ringq)
  BY <1>1, <1>2
<1>4. 1 \in 1..Len(ringq) /\ App!frame \in App!Frames
  BY <1>1
<1>5. \A i \in 1..Len(Tail(ringq)) : Tail(ringq)[i] \in App!Frames
  BY <1>1, <1>3
<1>6. tx.seq < App!frame.seq /\ App!frame.seq <= sent
  BY <1>1, <1>4 DEF Numbered
<1>7. \A i \in 1..Len(Tail(ringq)) :
          App!frame.seq < Tail(ringq)[i].seq /\ Tail(ringq)[i].seq <= sent
  <2> SUFFICES ASSUME NEW i \in 1..Len(Tail(ringq))
               PROVE  ringq[1].seq < ringq[i + 1].seq /\ ringq[i + 1].seq <= sent
    BY <1>1, <1>3
  <2>1. i \in Nat \ {0} /\ 1 < i + 1
    BY <1>2, <1>1
  <2> QED
    BY <2>1, <1>3, <1>4 DEF Numbered
<1>8. \A i, j \in 1..Len(Tail(ringq)) :
          i < j => Tail(ringq)[i].seq < Tail(ringq)[j].seq
  <2> SUFFICES ASSUME NEW i \in 1..Len(Tail(ringq)), NEW j \in 1..Len(Tail(ringq)), i < j
               PROVE  ringq[i + 1].seq < ringq[j + 1].seq
    BY <1>3
  <2>1. i + 1 < j + 1
    BY <1>1, <1>2
  <2> QED
    BY <2>1, <1>3 DEF Numbered
<1> QED
  BY <1>2, <1>4, <1>5, <1>6, <1>7, <1>8

(* A frame with the next number keeps the ring in order.                    *)
LEMMA FramePosted ==
    ASSUME App!TypeOK, Numbered, NEW f \in App!Frames,
           sent < MaxFrames, Len(ringq) < MaxQueue, f.seq = sent + 1
    PROVE  /\ Append(ringq, f) \in Seq(App!Frames) /\ Len(Append(ringq, f)) <= MaxQueue
           /\ sent + 1 \in 0..MaxFrames
           /\ \A i \in 1..Len(Append(ringq, f)) :
                 tx.seq < Append(ringq, f)[i].seq /\ Append(ringq, f)[i].seq <= sent + 1
           /\ \A i, j \in 1..Len(Append(ringq, f)) :
                 i < j => Append(ringq, f)[i].seq < Append(ringq, f)[j].seq
<1> DEFINE longer == Append(ringq, f)
<1>1. /\ ringq \in Seq(App!Frames) /\ Len(ringq) \in Nat /\ sent \in Nat /\ MaxQueue \in Nat
      /\ MaxFrames \in Nat /\ tx.seq \in Nat
  BY AppConstants DEF App!TypeOK, AppConstants
<1>2. longer \in Seq(App!Frames) /\ Len(longer) = Len(ringq) + 1
  BY <1>1
<1>3. \A i \in 1..Len(longer) :
          longer[i] = IF i = Len(ringq) + 1 THEN f ELSE ringq[i]
  BY <1>1, <1>2
<1>4. \A i \in 1..Len(longer) : i # Len(ringq) + 1 => i \in 1..Len(ringq)
  BY <1>1, <1>2
<1>5. \A i \in 1..Len(ringq) : ringq[i].seq \in Nat
  <2>1. \A i \in 1..Len(ringq) : ringq[i] \in App!Frames
    BY <1>1
  <2> QED
    BY <2>1, <1>1 DEF App!Frames, App!Seqs
<1>6. sent + 1 \in 0..MaxFrames /\ Len(longer) <= MaxQueue
  BY <1>1, <1>2
<1> HIDE DEF longer
<1>7. \A i \in 1..Len(longer) : tx.seq < longer[i].seq /\ longer[i].seq <= sent + 1
  BY <1>1, <1>3, <1>4, <1>5 DEF Numbered
<1>8. \A i, j \in 1..Len(longer) : i < j => longer[i].seq < longer[j].seq
  <2> SUFFICES ASSUME NEW i \in 1..Len(longer), NEW j \in 1..Len(longer), i < j
               PROVE  longer[i].seq < longer[j].seq
    OBVIOUS
  <2>1. i \in 1..Len(ringq) /\ longer[i] = ringq[i] /\ longer[i].seq <= sent
    BY <1>1, <1>2, <1>3, <1>4 DEF Numbered
  <2>2. CASE j = Len(ringq) + 1
    BY <2>1, <2>2, <1>1, <1>3, <1>5
  <2>3. CASE j # Len(ringq) + 1
    BY <2>1, <2>3, <1>3, <1>4 DEF Numbered
  <2> QED
    BY <2>2, <2>3
<1> QED
  BY <1>2, <1>6, <1>7, <1>8 DEF longer

-----------------------------------------------------------------------------
LEMMA AppStarts == App!Init => AppInv
<1> SUFFICES ASSUME App!Init PROVE AppInv
  OBVIOUS
<1>1. App!TypeOK
  <2>1. ringq \in Seq(App!Frames) /\ Len(ringq) <= MaxQueue
    BY AppConstants DEF App!Init, AppConstants
  <2>2. left \in 0..App!Endless /\ sent \in 0..MaxFrames /\ resets \in 0..MaxResets
    BY AppConstants DEF App!Init, AppConstants, App!Endless
  <2>3. tx \in [active : BOOLEAN, stop : BOOLEAN, done : BOOLEAN, seq : 0..MaxFrames]
    BY AppConstants DEF App!Init, AppConstants
  <2>4. fate \in [App!Seqs -> App!Fates]
    BY DEF App!Init, App!Fates
  <2> QED
    BY <2>1, <2>2, <2>3, <2>4 DEF App!Init, App!TypeOK, App!Places, App!Tables
<1>2. Numbered /\ Airing /\ Listening
  BY DEF App!Init, Numbered, Airing, Listening, Starting
<1>3. App!AppSound
  BY DEF App!Init, App!AppSound, App!NoSelfCapture, App!OneCodeOnAir, App!OnlyTabledPins
<1> QED
  BY <1>1, <1>2, <1>3 DEF AppInv

(* What the host sends goes to the end of the ring, and nowhere else.       *)
LEMMA HostStep ==
    ASSUME AppInv, App!Host
    PROVE  AppInv'
<1> USE DEF AppInv, App!loop
<1>1. ASSUME NEW op, NEW arg, App!Post(op, arg),
             [op |-> op, seq |-> sent + 1, arg |-> arg] \in App!Frames
      PROVE  AppInv'
  <2>1. UNCHANGED <<serial, resets, apc, back, run, table, tx, left, emitting, capOn, capRun, uartOn,
                    fate>>
    BY <1>1 DEF App!Post
  <2>2. App!TypeOK' /\ Numbered'
    BY <1>1, <2>1, FramePosted DEF App!Post, App!TypeOK, Numbered
  <2>3. Airing' /\ Listening' /\ App!AppSound'
    BY <2>1
       DEF Airing, Listening, Starting, App!AppSound, App!NoSelfCapture, App!OneCodeOnAir,
           App!OnlyTabledPins, App!HasIr, App!HasUart
  <2> QED
    BY <2>2, <2>3
<1>2. ASSUME NEW op, NEW arg, App!Post(op, arg),
             \/ op = "send" /\ arg \in 1..App!Endless
             \/ op = "config" /\ arg \in {"full", "serial"}
             \/ op \in {"stop", "capture", "capture_off", "uart_on", "uart_off"} /\ arg = 0
      PROVE  [op |-> op, seq |-> sent + 1, arg |-> arg] \in App!Frames
  <2>1. sent + 1 \in App!Seqs
    BY AppConstants, <1>2 DEF App!Post, App!TypeOK, App!Seqs, AppConstants
  <2> QED
    BY <2>1, <1>2 DEF App!Frames
<1>3. CASE App!HostCommand
  <2>1. CASE \E t \in {"full", "serial"} : App!Post("config", t)
    <3>1. PICK t \in {"full", "serial"} : App!Post("config", t)
      BY <2>1
    <3> QED
      BY <3>1, <1>1, <1>2
  <2>2. CASE \E op \in {"stop", "capture", "capture_off"} : App!Post(op, 0)
    <3>1. PICK op \in {"stop", "capture", "capture_off"} : App!Post(op, 0)
      BY <2>2
    <3> QED
      BY <3>1, <1>1, <1>2
  <2> QED
    BY <1>3, <2>1, <2>2 DEF App!HostCommand
<1>4. CASE App!HostSendIr
  <2>1. PICK n \in 1..App!Endless : App!Post("send", n)
    BY <1>4 DEF App!HostSendIr
  <2> QED
    BY <2>1, <1>1, <1>2
<1>5. CASE App!HostOpen
  BY <1>5, <1>1, <1>2 DEF App!HostOpen
<1>6. CASE App!HostMode
  <2>1. UNCHANGED <<resets, apc, back, run, table, tx, left, emitting, capOn, capRun, uartOn, fate>>
    BY <1>6 DEF App!HostMode
  <2>2. Airing' /\ Listening' /\ App!AppSound'
    BY <2>1
       DEF Airing, Listening, Starting, App!AppSound, App!NoSelfCapture, App!OneCodeOnAir,
           App!OnlyTabledPins, App!HasIr, App!HasUart
  <2>3. CASE ~serial
    BY <2>1, <2>2, <2>3, <1>6 DEF App!HostMode, App!TypeOK, Numbered
  <2>4. CASE serial
    <3>1. sent + 1 \in App!Seqs
      BY AppConstants, <2>4, <1>6 DEF App!HostMode, App!TypeOK, App!Seqs, AppConstants
    <3> DEFINE off == [op |-> "uart_off", seq |-> sent + 1, arg |-> 0]
    <3>2. off \in App!Frames
      BY <3>1 DEF App!Frames
    <3>3. sent < MaxFrames /\ Len(ringq) < MaxQueue /\ off.seq = sent + 1
          /\ ringq' = Append(ringq, off) /\ sent' = sent + 1 /\ serial' = FALSE
      BY <2>4, <1>6 DEF App!HostMode
    <3> HIDE DEF off
    <3>4. /\ ringq' \in Seq(App!Frames) /\ Len(ringq') <= MaxQueue /\ sent' \in 0..MaxFrames
          /\ Numbered'
      <4>1. sent \in Nat /\ tx.seq \in Nat
        BY DEF App!TypeOK
      <4>2. App!TypeOK /\ Numbered
        OBVIOUS
      <4> QED
        BY <4>1, <4>2, <2>1, <3>2, <3>3, FramePosted DEF Numbered
    <3>5. App!TypeOK'
      BY <2>1, <3>3, <3>4 DEF App!TypeOK
    <3> QED
      BY <2>2, <3>4, <3>5
  <2> QED
    BY <2>3, <2>4 DEF App!TypeOK
<1> QED
  BY <1>3, <1>4, <1>5, <1>6 DEF App!Host

(* A frame leaves the ring: what is left is in order, whatever the handler  *)
(* does, as long as it takes the frame's number or none.                    *)
LEMMA FrameGone ==
    ASSUME AppInv, NEW op, App!Take(op), UNCHANGED <<sent, serial, resets>>,
           tx'.seq \in {tx.seq, App!frame.seq}
    PROVE  /\ ringq' \in Seq(App!Frames) /\ Len(ringq') <= MaxQueue
           /\ Numbered'
           /\ App!frame \in App!Frames /\ App!frame.op = op /\ App!frame.seq \in App!Seqs
           /\ ~Starting /\ apc = "rx"
           /\ tx.active => tx.seq < App!frame.seq
           /\ tx.seq \in 0..MaxFrames
<1>1. ringq # <<>> /\ apc = "rx" /\ App!frame.op = op /\ ringq' = Tail(ringq)
  BY DEF App!Take
<1>2. App!TypeOK /\ Numbered
  BY DEF AppInv
<1>3. tx.seq \in Nat /\ sent \in Nat /\ Len(ringq) \in Nat /\ MaxFrames \in Nat
      /\ Len(ringq) <= MaxQueue /\ tx.seq \in 0..MaxFrames
  BY AppConstants, <1>2 DEF App!TypeOK, AppConstants
<1>4. App!frame \in App!Frames /\ App!frame.seq \in App!Seqs
  BY <1>1, <1>2, FrameTaken DEF App!Frames
<1>5. Numbered'
  BY <1>1, <1>2, <1>3, <1>4, FrameTaken DEF Numbered, App!Seqs
<1>6. ringq' \in Seq(App!Frames) /\ Len(ringq') <= MaxQueue
  <2>1. ringq' \in Seq(App!Frames) /\ Len(ringq') = Len(ringq) - 1
    BY <1>1, <1>2, FrameTaken
  <2> QED
    BY AppConstants, <2>1, <1>3 DEF AppConstants
<1>7. tx.seq < App!frame.seq
  BY <1>1, <1>2, FrameTaken
<1>8. ~Starting
  BY <1>1 DEF Starting
<1> QED
  BY <1>1, <1>3, <1>4, <1>5, <1>6, <1>7, <1>8

(* The handlers of the host's frames.                                       *)
LEMMA HandlerStep ==
    ASSUME AppInv,
           \/ App!IrSend \/ App!IrStop \/ App!SetCapture \/ App!ClearCapture
           \/ App!UartControl \/ App!ConfigSet
    PROVE  AppInv'
<1> USE DEF App!host, App!loop
<1>t. tx \in [active : BOOLEAN, stop : BOOLEAN, done : BOOLEAN, seq : 0..MaxFrames]
  BY DEF AppInv, App!TypeOK
<1>1. CASE App!IrSend /\ ~App!Accepts
  <2>1. /\ App!Take("send") /\ fate' = [fate EXCEPT ![App!frame.seq] = "refused"]
        /\ UNCHANGED <<sent, serial, resets, apc, back, run, table, tx, left, emitting, capOn,
                       capRun, uartOn>>
    BY <1>1 DEF App!IrSend
  <2>2. /\ ringq' \in Seq(App!Frames) /\ Len(ringq') <= MaxQueue /\ Numbered'
        /\ App!frame.seq \in App!Seqs /\ (tx.active => tx.seq < App!frame.seq) /\ tx.seq \in 0..MaxFrames
    BY <2>1, FrameGone
  <2>3. App!TypeOK'
    BY <2>1, <2>2 DEF AppInv, App!TypeOK, App!Fates
  <2>4. Airing' /\ Listening' /\ App!NoSelfCapture' /\ App!OnlyTabledPins'
    BY <2>1
       DEF AppInv, Airing, Listening, Starting, App!AppSound, App!NoSelfCapture,
           App!OnlyTabledPins, App!HasIr, App!HasUart
  <2>5. App!OneCodeOnAir'
    BY <2>1, <2>2 DEF AppInv, App!AppSound, App!OneCodeOnAir, App!TypeOK, App!Seqs
  <2> QED
    BY <2>2, <2>3, <2>4, <2>5 DEF AppInv, App!AppSound
<1>2. CASE App!IrSend /\ App!Accepts
  <2>1. /\ App!Take("send") /\ fate' = [fate EXCEPT ![App!frame.seq] = "playing"]
        /\ tx' = [tx EXCEPT !.active = TRUE, !.stop = FALSE, !.seq = App!frame.seq]
        /\ left' = App!frame.arg /\ apc' = "update" /\ back' = "start"
        /\ UNCHANGED <<sent, serial, resets, run, table, emitting, capOn, capRun, uartOn>>
        /\ ~tx.active /\ App!HasIr
    BY <1>2 DEF App!IrSend, App!Accepts, App!Update
  <2>2. tx'.seq = App!frame.seq /\ tx'.active = TRUE /\ tx'.stop = FALSE /\ tx'.done = tx.done
    BY <2>1, <1>t
  <2>3. /\ ringq' \in Seq(App!Frames) /\ Len(ringq') <= MaxQueue /\ Numbered'
        /\ App!frame \in App!Frames /\ App!frame.op = "send" /\ App!frame.seq \in App!Seqs
    BY <2>1, <2>2, FrameGone
  <2>4. App!frame.arg \in 1..App!Endless
    BY <2>3 DEF App!Frames
  <2>5. tx' \in [active : BOOLEAN, stop : BOOLEAN, done : BOOLEAN, seq : 0..MaxFrames]
    <3>1. tx' = [active |-> TRUE, stop |-> FALSE, done |-> tx.done, seq |-> App!frame.seq]
      BY <2>1, <1>t
    <3>2. App!frame.seq \in 0..MaxFrames /\ tx.done \in BOOLEAN
      BY AppConstants, <2>3, <1>t DEF App!Seqs, AppConstants
    <3> QED
      BY <3>1, <3>2
  <2>6. App!TypeOK'
    <3>1. left' \in 0..App!Endless /\ fate' \in [App!Seqs -> App!Fates]
      BY AppConstants, <2>1, <2>3, <2>4
         DEF AppInv, App!TypeOK, App!Fates, App!Endless, AppConstants
    <3> QED
      BY <2>1, <2>3, <2>5, <3>1 DEF AppInv, App!TypeOK, App!Places
  <2>7. Airing'
    BY AppConstants, <2>1, <2>2, <2>3, <2>4
       DEF AppInv, Airing, Starting, App!HasIr, App!Seqs, App!Endless, AppConstants
  <2>8. Listening' /\ App!NoSelfCapture' /\ App!OnlyTabledPins'
    BY <2>1
       DEF AppInv, Airing, Listening, Starting, App!AppSound, App!NoSelfCapture,
           App!OnlyTabledPins, App!HasIr, App!HasUart
  <2>9. App!OneCodeOnAir'
    BY <2>1, <2>2, <2>3 DEF AppInv, App!AppSound, App!OneCodeOnAir, App!TypeOK
  <2> QED
    BY <2>3, <2>6, <2>7, <2>8, <2>9 DEF AppInv, App!AppSound
<1>3. CASE App!IrStop
  <2>1. /\ App!Take("stop") /\ tx' = [tx EXCEPT !.stop = TRUE]
        /\ UNCHANGED <<sent, serial, resets, apc, back, run, table, left, emitting, capOn, capRun, uartOn,
                       fate>>
    BY <1>3 DEF App!IrStop
  <2>2. /\ tx'.seq = tx.seq /\ tx'.active = tx.active
        /\ tx' \in [active : BOOLEAN, stop : BOOLEAN, done : BOOLEAN, seq : 0..MaxFrames]
    BY <2>1, <1>t
  <2>3. ringq' \in Seq(App!Frames) /\ Len(ringq') <= MaxQueue /\ Numbered'
    BY <2>1, <2>2, FrameGone
  <2>4. App!TypeOK'
    BY <2>1, <2>2, <2>3 DEF AppInv, App!TypeOK
  <2>5. Airing' /\ Listening' /\ App!AppSound'
    BY <2>1, <2>2
       DEF AppInv, Airing, Listening, Starting, App!AppSound, App!NoSelfCapture,
           App!OneCodeOnAir, App!OnlyTabledPins, App!HasIr, App!HasUart
  <2> QED
    BY <2>3, <2>4, <2>5 DEF AppInv
<1>4. CASE App!SetCapture \/ App!ClearCapture
  <2>1. /\ \E op \in {"capture", "capture_off"} : App!Take(op)
        /\ apc' = "update" /\ back' = "rx" /\ capOn' \in BOOLEAN
        /\ capRun' = FALSE \/ capRun' = capRun
        /\ UNCHANGED <<sent, serial, resets, run, table, tx, left, emitting, uartOn, fate>>
    BY <1>4 DEF App!SetCapture, App!ClearCapture, App!Update
  <2>2. ringq' \in Seq(App!Frames) /\ Len(ringq') <= MaxQueue /\ Numbered' /\ ~Starting
    BY <2>1, FrameGone
  <2>3. App!TypeOK'
    BY <2>1, <2>2 DEF AppInv, App!TypeOK, App!Places
  <2>4. Airing' /\ Listening' /\ App!AppSound'
    BY <2>1, <2>2
       DEF AppInv, Airing, Listening, Starting, App!AppSound, App!NoSelfCapture,
           App!OneCodeOnAir, App!OnlyTabledPins, App!HasIr, App!HasUart
  <2> QED
    BY <2>2, <2>3, <2>4 DEF AppInv
<1>5. CASE App!UartControl
  <2>1. PICK op \in {"uart_on", "uart_off"} :
          /\ App!Take(op) /\ uartOn' = IF App!HasUart THEN op = "uart_on" ELSE uartOn
          /\ UNCHANGED <<sent, serial, resets, apc, back, run, table, tx, left, emitting, capOn, capRun,
                         fate>>
    BY <1>5 DEF App!UartControl
  <2>2. ringq' \in Seq(App!Frames) /\ Len(ringq') <= MaxQueue /\ Numbered'
    BY <2>1, FrameGone
  <2>3. App!TypeOK'
    BY <2>1, <2>2 DEF AppInv, App!TypeOK
  <2>4. Airing' /\ Listening' /\ App!AppSound'
    BY <2>1
       DEF AppInv, Airing, Listening, Starting, App!AppSound, App!NoSelfCapture,
           App!OneCodeOnAir, App!OnlyTabledPins, App!HasIr, App!HasUart
  <2> QED
    BY <2>2, <2>3, <2>4 DEF AppInv
<1>6. CASE App!ConfigSet /\ App!frame.arg = table
  <2>1. /\ App!Take("config")
        /\ UNCHANGED <<sent, serial, resets, apc, back, run, table, tx, left, emitting, capOn, capRun,
                       uartOn, fate>>
    BY <1>6 DEF App!ConfigSet
  <2>2. ringq' \in Seq(App!Frames) /\ Len(ringq') <= MaxQueue /\ Numbered'
    BY <2>1, FrameGone
  <2>3. App!TypeOK'
    BY <2>1, <2>2 DEF AppInv, App!TypeOK
  <2>4. Airing' /\ Listening' /\ App!AppSound'
    BY <2>1
       DEF AppInv, Airing, Listening, Starting, App!AppSound, App!NoSelfCapture,
           App!OneCodeOnAir, App!OnlyTabledPins, App!HasIr, App!HasUart
  <2> QED
    BY <2>2, <2>3, <2>4 DEF AppInv
<1>7. CASE App!ConfigSet /\ App!frame.arg # table
  <2>1. /\ App!Take("config") /\ table' = App!frame.arg
        /\ emitting' = FALSE /\ fate' = App!Dropped
        /\ tx' = [tx EXCEPT !.active = FALSE, !.done = FALSE]
        /\ capOn' = FALSE /\ capRun' = FALSE /\ uartOn' = FALSE
        /\ UNCHANGED <<sent, serial, resets, apc, back, run, left>>
    BY <1>7 DEF App!ConfigSet, App!Teardown
  <2>2. /\ tx'.seq = tx.seq /\ tx'.active = FALSE
        /\ tx' \in [active : BOOLEAN, stop : BOOLEAN, done : BOOLEAN, seq : 0..MaxFrames]
    BY <2>1, <1>t
  <2>3. /\ ringq' \in Seq(App!Frames) /\ Len(ringq') <= MaxQueue /\ Numbered' /\ ~Starting /\ apc = "rx"
        /\ App!frame \in App!Frames /\ App!frame.op = "config"
    BY <2>1, <2>2, FrameGone
  <2>4. App!frame.arg \in App!Tables
    BY <2>3 DEF App!Frames, App!Tables
  <2>5. fate' \in [App!Seqs -> App!Fates]
    BY <2>1 DEF AppInv, App!TypeOK, App!Dropped, App!Fates
  <2>6. App!TypeOK'
    BY <2>1, <2>2, <2>3, <2>4, <2>5 DEF AppInv, App!TypeOK
  <2>7. Airing' /\ Listening' /\ App!NoSelfCapture' /\ App!OnlyTabledPins'
    BY <2>1, <2>2, <2>3
       DEF AppInv, Airing, Listening, Starting, App!NoSelfCapture, App!OnlyTabledPins
  <2>8. App!OneCodeOnAir'
    BY <2>1, <2>2 DEF App!OneCodeOnAir, App!Dropped
  <2> QED
    BY <2>3, <2>6, <2>7, <2>8 DEF AppInv, App!AppSound
<1> QED
  BY <1>1, <1>2, <1>3, <1>4, <1>5, <1>6, <1>7

(* The rest of the main loop.                                               *)
LEMMA LoopStep ==
    ASSUME AppInv,
           \/ App!NoMoreFrames \/ App!Start \/ App!CaptureRead \/ App!CaptureWrite
           \/ App!TxPoll \/ App!Report \/ App!CapturePoll
    PROVE  AppInv'
<1> USE DEF App!host, App!loop
<1>t. tx \in [active : BOOLEAN, stop : BOOLEAN, done : BOOLEAN, seq : 0..MaxFrames]
  BY DEF AppInv, App!TypeOK
<1>1. CASE App!NoMoreFrames \/ App!Report \/ App!CapturePoll
  <2>1. /\ apc \in {"rx", "report", "cap"} /\ apc' \in {"tx", "update", "rx"}
        /\ back' = back \/ back' \in {"rx", "cap"}
        /\ apc' = "update" => back' \in {"rx", "cap"}
        /\ capRun' = capRun \/ capRun' = FALSE
        /\ UNCHANGED <<ringq, sent, serial, resets, run, table, tx, left, emitting, capOn,
                       uartOn, fate>>
    BY <1>1 DEF App!NoMoreFrames, App!Report, App!CapturePoll, App!Update
  <2>2. App!TypeOK'
    <3>1. apc' \in App!Places /\ back' \in App!Places /\ capRun' \in BOOLEAN
      BY <2>1 DEF AppInv, App!TypeOK, App!Places
    <3> QED
      BY <2>1, <3>1 DEF AppInv, App!TypeOK
  <2>3. Numbered' /\ Airing' /\ Listening' /\ App!AppSound'
    BY <2>1 DEF AppInv, Numbered, Airing, Listening, Starting, App!AppSound, App!NoSelfCapture,
                App!OneCodeOnAir, App!OnlyTabledPins, App!HasIr, App!HasUart
  <2> QED
    BY <2>2, <2>3 DEF AppInv
<1>2. CASE App!Start
  <2>1. /\ apc = "start" /\ apc' = "rx" /\ emitting' = TRUE
        /\ left' = IF left = App!Endless THEN left ELSE left - 1
        /\ UNCHANGED <<ringq, sent, serial, resets, back, run, table, tx, capOn, capRun, uartOn, fate>>
    BY <1>2 DEF App!Start
  <2>2. Starting
    BY <2>1 DEF Starting
  <2>3. left' \in 0..App!Endless
    BY AppConstants, <2>1, <2>2 DEF AppInv, App!TypeOK, Airing, App!Endless, AppConstants
  <2>4. App!TypeOK'
    BY <2>1, <2>3 DEF AppInv, App!TypeOK, App!Places
  <2>5. Numbered' /\ Airing' /\ Listening' /\ App!AppSound'
    BY <2>1, <2>2
       DEF AppInv, Numbered, Airing, Listening, Starting, App!AppSound, App!NoSelfCapture,
           App!OneCodeOnAir, App!OnlyTabledPins, App!HasIr, App!HasUart
  <2> QED
    BY <2>4, <2>5 DEF AppInv
<1>3. CASE App!CaptureRead
  <2>1. /\ apc = "update" /\ run' = (App!HasIr /\ capOn /\ ~tx.active) /\ apc' = "write"
        /\ UNCHANGED <<ringq, sent, serial, resets, back, table, tx, left, emitting, capOn, capRun, uartOn,
                       fate>>
    BY <1>3 DEF App!CaptureRead
  <2>2. App!TypeOK'
    BY <2>1 DEF AppInv, App!TypeOK, App!Places
  <2>3. Numbered' /\ Airing' /\ Listening' /\ App!AppSound'
    BY <2>1 DEF AppInv, Numbered, Airing, Listening, Starting, App!AppSound, App!NoSelfCapture,
                App!OneCodeOnAir, App!OnlyTabledPins, App!HasIr, App!HasUart
  <2> QED
    BY <2>2, <2>3 DEF AppInv
<1>4. CASE App!CaptureWrite
  <2>1. /\ apc = "write" /\ capRun' = run /\ apc' = back
        /\ UNCHANGED <<ringq, sent, serial, resets, back, run, table, tx, left, emitting, capOn, uartOn,
                       fate>>
    BY <1>4 DEF App!CaptureWrite
  <2>2. App!TypeOK'
    BY <2>1 DEF AppInv, App!TypeOK
  <2>3. Numbered' /\ Airing' /\ Listening' /\ App!AppSound'
    BY <2>1 DEF AppInv, Numbered, Airing, Listening, Starting, App!AppSound, App!NoSelfCapture,
                App!OneCodeOnAir, App!OnlyTabledPins, App!HasIr, App!HasUart, App!TypeOK
  <2> QED
    BY <2>2, <2>3 DEF AppInv
<1>5. CASE App!TxPoll
  <2>1. /\ apc = "tx" /\ apc' \in {"report", "cap"} /\ tx' = [tx EXCEPT !.done = FALSE]
        /\ UNCHANGED <<ringq, sent, serial, resets, back, run, table, left, emitting, capOn, capRun,
                       uartOn, fate>>
    BY <1>5 DEF App!TxPoll
  <2>2. /\ tx'.seq = tx.seq /\ tx'.active = tx.active
        /\ tx' \in [active : BOOLEAN, stop : BOOLEAN, done : BOOLEAN, seq : 0..MaxFrames]
    BY <2>1, <1>t
  <2>3. App!TypeOK'
    BY <2>1, <2>2 DEF AppInv, App!TypeOK, App!Places
  <2>4. Numbered' /\ Airing' /\ Listening' /\ App!AppSound'
    BY <2>1, <2>2
       DEF AppInv, Numbered, Airing, Listening, Starting, App!AppSound, App!NoSelfCapture,
           App!OneCodeOnAir, App!OnlyTabledPins, App!HasIr, App!HasUart
  <2> QED
    BY <2>3, <2>4 DEF AppInv
<1> QED
  BY <1>1, <1>2, <1>3, <1>4, <1>5

(* The interrupt, between any two of those steps.                           *)
LEMMA BurstStep ==
    ASSUME AppInv, App!Burst
    PROVE  AppInv'
<1> USE DEF App!host, App!loop
<1>t. tx \in [active : BOOLEAN, stop : BOOLEAN, done : BOOLEAN, seq : 0..MaxFrames]
  BY DEF AppInv, App!TypeOK
<1>0. emitting /\ tx.active /\ tx.seq \in App!Seqs /\ ~Starting
  BY <1>t DEF App!Burst, AppInv, Airing, App!Seqs
<1>1. CASE emitting'
  <2>1. /\ left # 0 /\ left' = IF left = App!Endless THEN left ELSE left - 1
        /\ UNCHANGED <<ringq, sent, serial, resets, apc, back, run, table, tx, emitting, capOn, capRun,
                       uartOn, fate>>
    BY <1>1 DEF App!Burst
  <2>2. left' \in 0..App!Endless
    BY AppConstants, <2>1 DEF AppInv, App!TypeOK, App!Endless, AppConstants
  <2>3. App!TypeOK'
    BY <2>1, <2>2 DEF AppInv, App!TypeOK
  <2>4. Numbered' /\ Airing' /\ Listening' /\ App!AppSound'
    BY <2>1, <1>0
       DEF AppInv, Numbered, Airing, Listening, Starting, App!AppSound, App!NoSelfCapture,
           App!OneCodeOnAir, App!OnlyTabledPins, App!HasIr, App!HasUart
  <2> QED
    BY <2>3, <2>4 DEF AppInv
<1>2. CASE ~emitting'
  <2>1. /\ emitting' = FALSE
        /\ tx' = [tx EXCEPT !.active = FALSE, !.done = TRUE]
        /\ fate' = [fate EXCEPT ![tx.seq] = IF tx.stop THEN "stopped" ELSE "done"]
        /\ UNCHANGED <<ringq, sent, serial, resets, apc, back, run, table, left, capOn, capRun, uartOn>>
    BY <1>0, <1>2 DEF App!Burst
  <2>2. /\ tx'.seq = tx.seq /\ tx'.active = FALSE
        /\ tx' \in [active : BOOLEAN, stop : BOOLEAN, done : BOOLEAN, seq : 0..MaxFrames]
    BY <2>1, <1>t
  <2>3. fate' \in [App!Seqs -> App!Fates]
    BY <2>1, <1>0 DEF AppInv, App!TypeOK, App!Fates
  <2>4. App!TypeOK'
    BY <2>1, <2>2, <2>3 DEF AppInv, App!TypeOK
  <2>5. Numbered' /\ Airing' /\ Listening' /\ App!NoSelfCapture' /\ App!OnlyTabledPins'
    BY <2>1, <2>2, <1>0
       DEF AppInv, Numbered, Airing, Listening, Starting, App!AppSound, App!NoSelfCapture,
           App!OnlyTabledPins, App!HasIr, App!HasUart
  <2>6. App!OneCodeOnAir'
    BY <2>1, <2>2, <1>0 DEF AppInv, App!AppSound, App!OneCodeOnAir, App!TypeOK
  <2> QED
    BY <2>4, <2>5, <2>6 DEF AppInv, App!AppSound
<1> QED
  BY <1>1, <1>2

LEMMA ResetStep ==
    ASSUME AppInv, App!Reset
    PROVE  AppInv'
<1> USE DEF App!host, App!loop
<1>1. tx' \in [active : BOOLEAN, stop : BOOLEAN, done : BOOLEAN, seq : 0..MaxFrames]
      /\ tx'.seq = 0 /\ tx'.active = FALSE
  BY AppConstants DEF App!Reset, AppConstants
<1>2. fate' \in [App!Seqs -> App!Fates]
  BY DEF AppInv, App!TypeOK, App!Reset, App!Dropped, App!Fates
<1>3. ringq' \in Seq(App!Frames) /\ Len(ringq') = 0
  BY DEF App!Reset
<1>4. resets' \in 0..MaxResets /\ left' \in 0..App!Endless
  BY AppConstants DEF App!Reset, AppInv, App!TypeOK, AppConstants, App!Endless
<1>5. App!TypeOK'
  <2>1. Len(ringq') <= MaxQueue /\ UNCHANGED <<sent, serial>>
    BY AppConstants, <1>3 DEF App!Reset, AppConstants
  <2> QED
    BY <1>1, <1>2, <1>3, <1>4, <2>1 DEF App!Reset, AppInv, App!TypeOK, App!Places, App!Tables
<1>6. Numbered' /\ Airing' /\ Listening' /\ App!NoSelfCapture' /\ App!OnlyTabledPins'
  BY <1>1, <1>3
     DEF App!Reset, AppInv, App!TypeOK, Numbered, Airing, Listening, Starting,
         App!NoSelfCapture, App!OnlyTabledPins
<1>7. App!OneCodeOnAir'
  BY <1>1 DEF App!Reset, App!OneCodeOnAir, App!Dropped
<1> QED
  BY <1>5, <1>6, <1>7 DEF AppInv, App!AppSound

(* The inductive invariant of the firmware's application.                   *)
THEOREM AppInvariant == App!Spec => []AppInv
<1>1. App!Init => AppInv
  BY AppStarts
<1>2. AppInv /\ [App!Next]_(App!vars) => AppInv'
  <2> SUFFICES ASSUME AppInv, [App!Next]_(App!vars) PROVE AppInv'
    OBVIOUS
  <2>1. CASE UNCHANGED App!vars
    <3>1. App!TypeOK'
      BY <2>1 DEF App!vars, App!host, App!loop, AppInv, App!TypeOK
    <3> QED
      BY <2>1, <3>1
         DEF App!vars, App!host, App!loop, AppInv, Numbered, Airing, Listening, Starting,
             App!AppSound, App!NoSelfCapture, App!OneCodeOnAir, App!OnlyTabledPins,
             App!HasIr, App!HasUart
  <2>2. CASE App!Next
    BY <2>2, HostStep, HandlerStep, LoopStep, BurstStep, ResetStep DEF App!Next, App!MainLoop
  <2> QED
    BY <2>1, <2>2
<1> QED
  BY <1>1, <1>2, PTL DEF App!Spec

(* Whichever two steps of the main loop the burst interrupt falls between:  *)
(* the receiver never listens to the part's own carrier, the job on the air *)
(* is never replaced, and only tabled pins are driven (app.c).              *)
THEOREM AppSoundAlways == App!Spec => []AppSound
<1>1. AppInv => AppSound
  BY DEF AppInv, AppSound
<1> QED
  BY <1>1, AppInvariant, PTL

-----------------------------------------------------------------------------
(* The relay.  A write in progress has seen the value it wants if the relay *)
(* has it now; two writes in progress both know that they are not alone;    *)
(* and once a lone success has settled the relay, nobody is left who could  *)
(* move it: no writer, and no TOGGLE on its way.                            *)
Witnessed ==
    \A w \in Writers : Relay!Active(w) /\ relay = want[w] => seen[w]

Crowds ==
    \A w, u \in Writers : w # u /\ Relay!Active(w) /\ Relay!Active(u) => crowded[w]

Quiet == settled # "open" => late = 0 /\ \A w \in Writers : ~Relay!Active(w)

RelayInv ==
    /\ Relay!TypeOK /\ late <= wfaults
    /\ Witnessed /\ Crowds /\ Quiet
    /\ Relay!WritesAreTrue

LEMMA RelayStarts == Relay!Init => RelayInv
  BY RelayConstants
     DEF RelayConstants, Relay!Init, RelayInv, Relay!TypeOK, Witnessed, Crowds, Quiet,
         Relay!Active, Relay!WritesAreTrue, Relay!SuccessWasTrue, Relay!LoneWriteStands

(* A write begins.                                                          *)
LEMMA WriteBegins ==
    ASSUME RelayInv, NEW w \in Writers, NEW v \in BOOLEAN, Relay!Start(w, v)
    PROVE  RelayInv'
<1> USE RelayConstants DEF RelayConstants, RelayInv
<1>1. Relay!TypeOK' /\ late' <= wfaults'
  <2>1. /\ wpc' \in [Writers -> {"idle", "get", "toggle"}]
        /\ want' \in [Writers -> BOOLEAN] /\ seen' \in [Writers -> BOOLEAN]
    BY DEF Relay!Start, Relay!TypeOK
  <2>2. crowded' \in [Writers -> BOOLEAN]
    BY DEF Relay!Start, Relay!TypeOK, Relay!Active
  <2> QED
    BY <2>1, <2>2 DEF Relay!Start, Relay!TypeOK
<1>2. Witnessed'
  BY DEF Relay!Start, Relay!TypeOK, Witnessed, Relay!Active
<1>3. Crowds'
  BY DEF Relay!Start, Relay!TypeOK, Crowds, Relay!Active
<1>4. Quiet' /\ Relay!LoneWriteStands'
  BY DEF Relay!Start, Quiet, Relay!LoneWriteStands
<1>5. Relay!SuccessWasTrue'
  BY DEF Relay!Start, Relay!TypeOK, Relay!WritesAreTrue, Relay!SuccessWasTrue, Relay!Active
<1> QED
  BY <1>1, <1>2, <1>3, <1>4, <1>5 DEF Relay!WritesAreTrue

(* A write returns, the relay being as it is: with success only if the      *)
(* relay has the value it wants, which it then has seen.                    *)
LEMMA GetStep ==
    ASSUME RelayInv, NEW w \in Writers, Relay!Get(w) \/ Relay!GetFails(w)
    PROVE  RelayInv'
<1> USE RelayConstants DEF RelayConstants, RelayInv, Relay!Return, Relay!Settle
<1>0. Relay!Active(w) /\ settled = "open"
  BY DEF Relay!Get, Relay!GetFails, Relay!Active, Quiet
<1>1. Relay!TypeOK' /\ late' <= wfaults'
  BY DEF Relay!Get, Relay!GetFails, Relay!TypeOK
<1>2. Witnessed'
  BY DEF Relay!Get, Relay!GetFails, Relay!TypeOK, Witnessed, Relay!Active
<1>3. Crowds'
  BY DEF Relay!Get, Relay!GetFails, Relay!TypeOK, Crowds, Relay!Active
<1>4. Quiet'
  BY <1>0 DEF Relay!Get, Relay!GetFails, Relay!TypeOK, Quiet, Crowds, Relay!Active
<1>5. Relay!LoneWriteStands'
  BY <1>0 DEF Relay!Get, Relay!GetFails, Relay!TypeOK, Relay!LoneWriteStands
<1>6. Relay!SuccessWasTrue'
  BY <1>0 DEF Relay!Get, Relay!GetFails, Relay!TypeOK, Witnessed, Relay!WritesAreTrue,
              Relay!SuccessWasTrue, Relay!Active
<1> QED
  BY <1>1, <1>2, <1>3, <1>4, <1>5, <1>6 DEF Relay!WritesAreTrue

(* The TOGGLE is acted upon, or lost, or still on its way.                  *)
LEMMA ToggleStep ==
    ASSUME RelayInv, NEW w \in Writers, Relay!Toggle(w) \/ Relay!ToggleFails(w)
    PROVE  RelayInv'
<1> USE RelayConstants DEF RelayConstants, RelayInv, Relay!Return, Relay!Settle, Relay!Witness
<1>0. Relay!Active(w) /\ settled = "open"
  BY DEF Relay!Toggle, Relay!ToggleFails, Relay!Active, Quiet
<1>1. Relay!TypeOK' /\ late' <= wfaults'
  <2>1. late' \in 0..MaxRelayFaults /\ wfaults' \in 0..MaxRelayFaults /\ late' <= wfaults'
    BY DEF Relay!Toggle, Relay!ToggleFails, Relay!TypeOK
  <2>2. seen' \in [Writers -> BOOLEAN] /\ relay' \in BOOLEAN
    BY DEF Relay!Toggle, Relay!ToggleFails, Relay!TypeOK, Relay!Active
  <2>3. settled' \in {"open", "on", "off"} /\ UNCHANGED <<want, crowded>>
    BY <1>0 DEF Relay!Toggle, Relay!ToggleFails
  <2>4. /\ wpc' \in [Writers -> {"idle", "get", "toggle"}]
        /\ ret' \in [Writers -> {"none", "ok", "failed", "EIO"}]
    BY DEF Relay!Toggle, Relay!ToggleFails, Relay!TypeOK
  <2> QED
    BY <2>1, <2>2, <2>3, <2>4 DEF Relay!TypeOK
<1>2. Witnessed'
  BY DEF Relay!Toggle, Relay!ToggleFails, Relay!TypeOK, Witnessed, Relay!Active
<1>3. Crowds'
  BY DEF Relay!Toggle, Relay!ToggleFails, Relay!TypeOK, Crowds, Relay!Active
<1>4. Quiet'
  BY <1>0 DEF Relay!Toggle, Relay!ToggleFails, Relay!TypeOK, Quiet, Crowds, Relay!Active
<1>5. Relay!LoneWriteStands'
  BY <1>0 DEF Relay!Toggle, Relay!ToggleFails, Relay!TypeOK, Relay!LoneWriteStands
<1>6. Relay!SuccessWasTrue'
  BY <1>0 DEF Relay!Toggle, Relay!ToggleFails, Relay!TypeOK, Witnessed, Relay!WritesAreTrue,
              Relay!SuccessWasTrue, Relay!Active
<1> QED
  BY <1>1, <1>2, <1>3, <1>4, <1>5, <1>6 DEF Relay!WritesAreTrue

(* What nobody waits for: a late TOGGLE, and a reset of the part.           *)
LEMMA NobodysStep ==
    ASSUME RelayInv, Relay!LateToggle \/ Relay!PartReset
    PROVE  RelayInv'
<1> USE RelayConstants DEF RelayConstants, RelayInv, Relay!Witness
<1>1. Relay!TypeOK' /\ late' <= wfaults'
  <2>1. late' \in 0..MaxRelayFaults /\ wfaults' \in 0..MaxRelayFaults /\ late' <= wfaults'
    BY DEF Relay!LateToggle, Relay!PartReset, Relay!TypeOK
  <2>2. seen' \in [Writers -> BOOLEAN] /\ crowded' \in [Writers -> BOOLEAN]
    BY DEF Relay!LateToggle, Relay!PartReset, Relay!TypeOK, Relay!Active
  <2>3. relay' \in BOOLEAN /\ settled' \in {"open", "on", "off"} /\ UNCHANGED <<wpc, want, ret>>
    BY DEF Relay!LateToggle, Relay!PartReset, Relay!TypeOK
  <2> QED
    BY <2>1, <2>2, <2>3 DEF Relay!TypeOK
<1>2. Witnessed'
  BY DEF Relay!LateToggle, Relay!PartReset, Relay!TypeOK, Witnessed, Relay!Active
<1>3. Crowds'
  BY DEF Relay!LateToggle, Relay!PartReset, Relay!TypeOK, Crowds, Relay!Active
<1>4. Quiet' /\ Relay!LoneWriteStands'
  BY DEF Relay!LateToggle, Relay!PartReset, Relay!TypeOK, Quiet, Relay!LoneWriteStands
<1>5. Relay!SuccessWasTrue'
  BY DEF Relay!LateToggle, Relay!PartReset, Relay!TypeOK, Relay!WritesAreTrue,
         Relay!SuccessWasTrue, Relay!Active
<1> QED
  BY <1>1, <1>2, <1>3, <1>4, <1>5 DEF Relay!WritesAreTrue

(* Whatever other writers, late TOGGLEs and resets do, a write that reports *)
(* success had what it asked for, and when it was alone the relay stays so  *)
(* until the next write or reset (ohc_gpio_set, ohc_node_write).            *)
THEOREM WritesAreTrueAlways == Relay!Spec => []WritesAreTrue
<1>1. Relay!Init => RelayInv
  BY RelayStarts
<1>2. RelayInv /\ [Relay!Next]_(Relay!vars) => RelayInv'
  <2> SUFFICES ASSUME RelayInv, [Relay!Next]_(Relay!vars) PROVE RelayInv'
    OBVIOUS
  <2>1. CASE UNCHANGED Relay!vars
    BY <2>1 DEF Relay!vars, RelayInv, Relay!TypeOK, Witnessed, Crowds, Quiet, Relay!Active,
                Relay!WritesAreTrue, Relay!SuccessWasTrue, Relay!LoneWriteStands
  <2>2. CASE Relay!Next
    BY <2>2, WriteBegins, GetStep, ToggleStep, NobodysStep DEF Relay!Next
  <2> QED
    BY <2>1, <2>2
<1>3. RelayInv => WritesAreTrue
  BY DEF RelayInv, WritesAreTrue
<1> QED
  BY <1>1, <1>2, <1>3, PTL DEF Relay!Spec

-----------------------------------------------------------------------------
(* A behaviour of the driver and the firmware is one of each of its parts,  *)
(* so what is proved of a part holds of the whole (MCIomcu).                *)
THEOREM PartsOfTheWhole == MCSpec => Spec /\ Relay!Spec /\ App!Spec
<1>1. MCInit => Init /\ Relay!Init /\ App!Init
  BY DEF MCInit
<1>2. [MCNext]_<<part_, vars, relayed, cached, app>>
        => [Next]_vars /\ [Relay!Next]_(Relay!vars) /\ [App!Next]_(App!vars)
  BY DEF MCNext, relayed, app, Relay!vars, App!vars, App!host, App!loop
<1> QED
  BY <1>1, <1>2, PTL DEF MCSpec, Spec, Relay!Spec, App!Spec

=============================================================================
