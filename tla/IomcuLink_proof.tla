-------------------------- MODULE IomcuLink_proof ---------------------------
(***************************************************************************)
(* Proofs about IomcuLink, for every set of threads, every size of the     *)
(* sequence number and every bound.                                        *)
(***************************************************************************)
EXTENDS IomcuLink, TLAPS

-----------------------------------------------------------------------------
(* Arithmetic of the wrapping number.                                      *)

(* A multiple of m that lies strictly between -m and m is zero.            *)
LEMMA SmallMultiple ==
  ASSUME NEW m \in Nat \ {0}, NEW d \in Int, m * d > - m, m * d < m
  PROVE  d = 0
<1>1. CASE d >= 1
  <2>1. m * d >= m  BY <1>1, SMT
  <2> QED BY <2>1
<1>2. CASE d <= -1
  <2>1. m * d <= -m  BY <1>2, SMT
  <2> QED BY <2>1
<1> QED BY <1>1, <1>2

(* Two numbers less than m apart that agree modulo m are equal.            *)
LEMMA SameResidue ==
  ASSUME NEW m \in Nat \ {0}, NEW a \in Nat, NEW b \in Nat,
         a - b < m, b - a < m, a % m = b % m
  PROVE  a = b
<1> DEFINE qa == a \div m
           qb == b \div m
<1>1. a = m * qa + (a % m) /\ b = m * qb + (b % m)
  OBVIOUS
<1>2. qa \in Int /\ qb \in Int /\ a % m \in Int /\ b % m \in Int
  OBVIOUS
<1> HIDE DEF qa, qb
<1>3. m * (qb - qa) = b - a
  BY <1>1, <1>2
<1>4. qb - qa = 0
  BY <1>2, <1>3, SmallMultiple
<1> QED BY <1>1, <1>2, <1>4

(* Appending an element of the right type.                                 *)
LEMMA AppendType ==
  ASSUME NEW S, NEW s \in Seq(S), NEW e \in S
  PROVE  /\ Append(s, e) \in Seq(S)
         /\ Len(Append(s, e)) = Len(s) + 1
         /\ \A i \in 1..(Len(s) + 1) : Append(s, e)[i] = IF i <= Len(s) THEN s[i] ELSE e
OBVIOUS

(* Dropping the first element of a sequence that has one.                  *)
LEMMA TailType ==
  ASSUME NEW S, NEW s \in Seq(S), s # <<>>
  PROVE  /\ Head(s) \in S /\ Head(s) = s[1]
         /\ Tail(s) \in Seq(S)
         /\ Len(s) \in Nat /\ Len(s) >= 1
         /\ Len(Tail(s)) = Len(s) - 1
         /\ \A i \in 1..(Len(s) - 1) : Tail(s)[i] = s[i + 1]
OBVIOUS

(* A stamp is a sequence number.                                           *)
LEMMA StampType == \A n \in Nat : Stamp(n) \in SeqNums
BY WrapAssumption DEF Stamp, SeqNums

-----------------------------------------------------------------------------
(* The initial values have their types.                                    *)
LEMMA InitType == Init => TypeOK
<1> SUFFICES ASSUME Init PROVE TypeOK
  OBVIOUS
<1>1. 0 \in Ids /\ 0 \in SeqNums /\ 0 \in 0..MaxUnsolicited /\ NoFrame \in AnyFrame
  BY WrapAssumption, MaxRequestsAssumption, MaxUnsolicitedAssumption
     DEF Ids, SeqNums, AnyFrame
<1>2. /\ pc \in [Threads -> {"idle", "called"} \cup Inside]
      /\ op \in [Threads -> {"ask", "tell"}]
      /\ mine \in [Threads -> Ids]
      /\ got \in [Threads -> AnyFrame]
      /\ ret \in [Threads -> {"none", "ok", "failed"}]
  BY <1>1 DEF Init
<1>3. toMcu \in Seq(Tell) /\ fromMcu \in Seq(Frame)
  BY DEF Init
<1> QED BY <1>1, <1>2, <1>3 DEF Init, TypeOK

(* A step keeps every type.                                                *)
LEMMA TypeStep == TypeOK /\ [Next]_vars => TypeOK'
<1> SUFFICES ASSUME TypeOK, [Next]_vars PROVE TypeOK'
  OBVIOUS
<1> USE WrapAssumption, MaxRequestsAssumption, MaxUnsolicitedAssumption
<1>1. ASSUME NEW t \in Threads, Call(t) PROVE TypeOK'
  BY <1>1 DEF TypeOK, Call, decoder, wire, firmware, Inside
<1>2. ASSUME NEW t \in Threads, Acquire(t) PROVE TypeOK'
  BY <1>2 DEF TypeOK, Acquire, decoder, wire, firmware, Inside, Ids
<1>3. ASSUME NEW t \in Threads, Arm(t) PROVE TypeOK'
  BY <1>3, StampType DEF TypeOK, Arm, wire, firmware, Inside, Ids
<1>4. ASSUME NEW t \in Threads, Reinit(t) PROVE TypeOK'
  BY <1>4 DEF TypeOK, Reinit, wire, firmware, Inside
<1>5. ASSUME NEW t \in Threads, Write(t) PROVE TypeOK'
  <2>1. [id |-> mine[t], reply |-> op[t] = "ask"] \in Tell
    BY DEF TypeOK, Tell
  <2>2. toMcu' \in Seq(Tell)
    <3>1. Append(toMcu, [id |-> mine[t], reply |-> op[t] = "ask"]) \in Seq(Tell)
      BY <2>1, AppendType DEF TypeOK
    <3> QED BY <1>5, <3>1 DEF TypeOK, Write
  <2>3. pc' \in [Threads -> {"idle", "called"} \cup Inside]
    BY <1>5 DEF TypeOK, Write, Inside
  <2>4. /\ ret' \in [Threads -> {"none", "ok", "failed"}]
        /\ ioLock' \in Threads \cup {NoThread}
    BY <1>5 DEF TypeOK, Write
  <2> QED BY <1>5, <2>2, <2>3, <2>4 DEF TypeOK, Write, decoder, firmware
<1>6. ASSUME NEW t \in Threads, WriteFails(t) PROVE TypeOK'
  BY <1>6 DEF TypeOK, WriteFails, decoder, wire, firmware, Inside
<1>7. ASSUME NEW t \in Threads, Wake(t) PROVE TypeOK'
  BY <1>7 DEF TypeOK, Wake, wire, firmware, Inside
<1>8. ASSUME NEW t \in Threads, GiveUp(t) PROVE TypeOK'
  BY <1>8 DEF TypeOK, GiveUp, decoder, wire, firmware, Inside
<1>9. ASSUME NEW t \in Threads, Copy(t) PROVE TypeOK'
  BY <1>9 DEF TypeOK, Copy, decoder, wire, firmware, Inside, AnyFrame
<1>10. ASSUME NEW t \in Threads, Leave(t) PROVE TypeOK'
  BY <1>10 DEF TypeOK, Leave, wire, firmware, Inside
<1>11. CASE Capture
  <2>1. Head(fromMcu) \in AnyFrame /\ Tail(fromMcu) \in Seq(Frame)
    BY <1>11 DEF TypeOK, Capture, AnyFrame
  <2> QED BY <1>11, <2>1 DEF TypeOK, Capture, driver, firmware
<1>12. CASE Complete
  BY <1>12 DEF TypeOK, Complete, driver, wire, firmware
<1>13. CASE Dispatch
  <2>1. Head(fromMcu) \in Frame /\ Tail(fromMcu) \in Seq(Frame)
    BY <1>13 DEF TypeOK, Dispatch
  <2>2. Head(fromMcu).kind = "unsolicited" => Head(fromMcu).id \in 1..MaxUnsolicited
    BY <2>1 DEF Frame
  <2> QED BY <1>13, <2>1, <2>2 DEF TypeOK, Dispatch, driver, firmware
<1>14. CASE Serve
  <2>1. Head(toMcu) \in Tell /\ Tail(toMcu) \in Seq(Tell)
    BY <1>14 DEF TypeOK, Serve
  <2>2. Head(toMcu).id \in Ids
    BY <2>1 DEF Tell
  <2>3. Answer(Head(toMcu).id) \in Frame
    BY <2>2, StampType DEF Answer, Frame, Ids
  <2>4. fromMcu' \in Seq(Frame)
    <3>1. Append(fromMcu, Answer(Head(toMcu).id)) \in Seq(Frame)
      BY <2>3, AppendType DEF TypeOK
    <3> QED BY <1>14, <3>1 DEF TypeOK, Serve
  <2>5. served' \subseteq Ids
    BY <1>14, <2>2 DEF TypeOK, Serve
  <2> QED BY <1>14, <2>1, <2>4, <2>5 DEF TypeOK, Serve, driver, decoder
<1>15. CASE Emit
  <2>1. Stamp(useq + 1) \in SeqNums
    <3>1. useq + 1 \in Nat
      BY DEF TypeOK, SeqNums
    <3> QED BY <3>1, StampType
  <2>2. [kind |-> "unsolicited", id |-> unsolicited + 1, seq |-> useq] \in Frame
    BY <1>15 DEF TypeOK, Emit, Frame
  <2> QED BY <1>15, <2>1, <2>2 DEF TypeOK, Emit, driver, decoder
<1>16. CASE LoseRequest
  BY <1>16 DEF TypeOK, LoseRequest, driver, decoder, firmware
<1>17. CASE LoseAnswer
  BY <1>17 DEF TypeOK, LoseAnswer, driver, decoder, firmware
<1>18. CASE UNCHANGED vars
  BY <1>18 DEF TypeOK, vars, driver, decoder, wire, firmware
<1> QED
  BY <1>1, <1>2, <1>3, <1>4, <1>5, <1>6, <1>7, <1>8, <1>9, <1>10, <1>11, <1>12,
     <1>13, <1>14, <1>15, <1>16, <1>17, <1>18 DEF Next, Step, Spent

(* Every variable keeps its type.                                          *)
THEOREM TypeCorrect == Spec => []TypeOK
BY InitType, TypeStep, PTL DEF Spec

-----------------------------------------------------------------------------
(* The inductive invariant.                                                *)

(* Who holds the conversation, and for whom the decoder is armed.          *)
HolderInv ==
    /\ \A t \in Threads : pc[t] \in Inside => ioLock = t /\ mine[t] = issued
    /\ \A t \in Threads : pc[t] \in Inside \ {"write"} => op[t] = "ask"
    /\ ioLock # NoThread => pc[ioLock] \in Inside
    /\ wantReply => /\ ioLock # NoThread
                    /\ op[ioLock] = "ask"
                    /\ pc[ioLock] # "arm"
                    /\ wantSeq = Stamp(issued)

(* Not yet a full turn of the number old.                                  *)
Alive(id) == id <= issued /\ issued < id + Wrap

(* What is on the wire: recent frames only, answers only to what was       *)
(* served, and nothing of a request that has not been written yet.         *)
WireInv ==
    /\ \A i \in 1..Len(toMcu) : Alive(toMcu[i].id)
    /\ \A i \in 1..Len(fromMcu) :
         fromMcu[i].kind = "answer" =>
            /\ fromMcu[i] = Answer(fromMcu[i].id)
            /\ Alive(fromMcu[i].id)
            /\ fromMcu[i].id \in served
    /\ unsolicited = 0 => \A i \in 1..Len(fromMcu) : fromMcu[i].kind = "answer"
    /\ \A t \in Threads :
         pc[t] \in {"arm", "reinit", "write"} =>
            /\ \A i \in 1..Len(toMcu) : toMcu[i].id # issued
            /\ \A i \in 1..Len(fromMcu) :
                 fromMcu[i].kind = "answer" => fromMcu[i].id # issued

(* The decoder holds the answer to the newest request.                     *)
Captured == replyFrame = Answer(issued) /\ issued \in served /\ ~wantReply

(* From the match to the caller's copy, the answer is the holder's own.    *)
MatchInv ==
    /\ rx = "completing" =>
         /\ ioLock # NoThread
         /\ pc[ioLock] \in {"wait", "leave"}
         /\ pc[ioLock] = "wait" => completion = 0
         /\ Captured
    /\ \A t \in Threads : pc[t] = "write" /\ op[t] = "ask" => completion = 0
    /\ \A t \in Threads : pc[t] = "wait" /\ completion > 0 => Captured
    /\ \A t \in Threads : pc[t] = "copy" => Captured
    /\ \A t \in Threads :
         pc[t] = "leave" /\ ret[t] = "ok" => got[t] = Answer(mine[t]) /\ mine[t] \in served

LinkInv ==
    /\ TypeOK
    /\ HolderInv
    /\ WireInv
    /\ Undisturbed => MatchInv
(* A step keeps the holder and the armed decoder in step.                  *)
LEMMA HolderStep == LinkInv /\ [Next]_vars => HolderInv'
<1> SUFFICES ASSUME LinkInv, [Next]_vars PROVE HolderInv'
  OBVIOUS
<1> USE WrapAssumption, MaxRequestsAssumption, NoThreadAssumption
<1>1. ASSUME NEW t \in Threads, Call(t) PROVE HolderInv'
  BY <1>1 DEF LinkInv, TypeOK, HolderInv, Inside, Call, decoder, wire, firmware
<1>2. ASSUME NEW t \in Threads, Acquire(t) PROVE HolderInv'
  BY <1>2 DEF LinkInv, TypeOK, HolderInv, Inside, Acquire, decoder, wire, firmware
<1>3. ASSUME NEW t \in Threads, Arm(t) PROVE HolderInv'
  BY <1>3 DEF LinkInv, TypeOK, HolderInv, Inside, Arm, decoder, wire, firmware
<1>4. ASSUME NEW t \in Threads, Reinit(t) PROVE HolderInv'
  BY <1>4 DEF LinkInv, TypeOK, HolderInv, Inside, Reinit, decoder, wire, firmware
<1>5. ASSUME NEW t \in Threads, Write(t) PROVE HolderInv'
  BY <1>5 DEF LinkInv, TypeOK, HolderInv, Inside, Write, decoder, wire, firmware
<1>6. ASSUME NEW t \in Threads, WriteFails(t) PROVE HolderInv'
  BY <1>6 DEF LinkInv, TypeOK, HolderInv, Inside, WriteFails, decoder, wire, firmware
<1>7. ASSUME NEW t \in Threads, Wake(t) PROVE HolderInv'
  BY <1>7 DEF LinkInv, TypeOK, HolderInv, Inside, Wake, decoder, wire, firmware
<1>8. ASSUME NEW t \in Threads, GiveUp(t) PROVE HolderInv'
  BY <1>8 DEF LinkInv, TypeOK, HolderInv, Inside, GiveUp, decoder, wire, firmware
<1>9. ASSUME NEW t \in Threads, Copy(t) PROVE HolderInv'
  BY <1>9 DEF LinkInv, TypeOK, HolderInv, Inside, Copy, decoder, wire, firmware
<1>10. ASSUME NEW t \in Threads, Leave(t) PROVE HolderInv'
  BY <1>10 DEF LinkInv, TypeOK, HolderInv, Inside, Leave, decoder, wire, firmware
<1>11. CASE Capture
  BY <1>11 DEF LinkInv, TypeOK, HolderInv, Inside, Capture, driver, decoder, wire, firmware
<1>12. CASE Complete
  BY <1>12 DEF LinkInv, TypeOK, HolderInv, Inside, Complete, driver, decoder, wire, firmware
<1>13. CASE Dispatch
  BY <1>13 DEF LinkInv, TypeOK, HolderInv, Inside, Dispatch, driver, decoder, wire, firmware
<1>14. CASE Serve
  BY <1>14 DEF LinkInv, TypeOK, HolderInv, Inside, Serve, driver, decoder, wire, firmware
<1>15. CASE Emit
  BY <1>15 DEF LinkInv, TypeOK, HolderInv, Inside, Emit, driver, decoder, wire, firmware
<1>16. CASE LoseRequest
  BY <1>16 DEF LinkInv, TypeOK, HolderInv, Inside, LoseRequest, driver, decoder, wire, firmware
<1>17. CASE LoseAnswer
  BY <1>17 DEF LinkInv, TypeOK, HolderInv, Inside, LoseAnswer, driver, decoder, wire, firmware
<1>18. CASE UNCHANGED vars
  BY <1>18 DEF LinkInv, TypeOK, HolderInv, Inside, vars, driver, decoder, wire, firmware
<1> QED
  BY <1>1, <1>2, <1>3, <1>4, <1>5, <1>6, <1>7, <1>8, <1>9, <1>10, <1>11, <1>12, <1>13, <1>14, <1>15, <1>16, <1>17, <1>18 DEF Next, Step, Spent

(* A step keeps the wire to recent frames and genuine answers.             *)
LEMMA WireStep == LinkInv /\ [Next]_vars => WireInv'
<1> SUFFICES ASSUME LinkInv, [Next]_vars PROVE WireInv'
  OBVIOUS
<1> USE WrapAssumption, MaxRequestsAssumption, NoThreadAssumption
<1>0. /\ issued \in Nat /\ Wrap \in Nat \ {0}
      /\ toMcu \in Seq(Tell) /\ fromMcu \in Seq(Frame)
      /\ Len(toMcu) \in Nat /\ Len(fromMcu) \in Nat
      /\ \A i \in 1..Len(toMcu) : toMcu[i].id \in Nat
      /\ \A i \in 1..Len(fromMcu) : fromMcu[i] \in Frame /\ fromMcu[i].id \in Nat
  <2>1. \A f \in Tell : f.id \in Nat
    BY DEF Tell, Ids
  <2>2. \A f \in Frame : f.id \in Nat
    BY MaxUnsolicitedAssumption DEF Frame, Ids
  <2>3. toMcu \in Seq(Tell) /\ fromMcu \in Seq(Frame) /\ issued \in Nat
    BY DEF LinkInv, TypeOK, Ids
  <2> QED BY <2>1, <2>2, <2>3
<1>1. ASSUME NEW t \in Threads, Call(t) PROVE WireInv'
  BY <1>1 DEF LinkInv, TypeOK, WireInv, Alive, Call, Answer, decoder, wire, firmware
<1>2. ASSUME NEW t \in Threads, Acquire(t) PROVE WireInv'
  <2>1. \A i \in 1..Len(toMcu) : toMcu[i].id \in InFlight
    BY <1>0 DEF InFlight, ToSet
  <2>2. \A i \in 1..Len(fromMcu) : fromMcu[i].kind = "answer" => fromMcu[i].id \in InFlight
    BY <1>0 DEF InFlight, ToSet
  <2>3. /\ issued' = issued + 1
        /\ \A id \in InFlight : issued + 1 < id + Wrap
        /\ UNCHANGED <<toMcu, fromMcu, served, unsolicited>>
        /\ \A u \in Threads : pc[u] # pc'[u] => u = t
    BY <1>2 DEF Acquire, wire, firmware, LinkInv, TypeOK
  <2>4. \A i \in 1..Len(toMcu) : Alive(toMcu[i].id)' /\ toMcu[i].id # issued'
    BY <1>0, <2>1, <2>3 DEF LinkInv, WireInv, Alive
  <2>5. \A i \in 1..Len(fromMcu) : fromMcu[i].kind = "answer" =>
           /\ fromMcu[i] = Answer(fromMcu[i].id)
           /\ Alive(fromMcu[i].id)' /\ fromMcu[i].id # issued'
           /\ fromMcu[i].id \in served
    BY <1>0, <2>2, <2>3 DEF LinkInv, WireInv, Alive
  <2> QED BY <2>3, <2>4, <2>5 DEF LinkInv, WireInv, Alive
<1>3. ASSUME NEW t \in Threads, Arm(t) PROVE WireInv'
  BY <1>3 DEF LinkInv, TypeOK, WireInv, Alive, Arm, Answer, wire, firmware
<1>4. ASSUME NEW t \in Threads, Reinit(t) PROVE WireInv'
  BY <1>4 DEF LinkInv, TypeOK, WireInv, Alive, Reinit, Answer, wire, firmware
<1>5. ASSUME NEW t \in Threads, Write(t) PROVE WireInv'
  <2> DEFINE f == [id |-> mine[t], reply |-> op[t] = "ask"]
  <2>1. f \in Tell /\ f.id = issued
    BY <1>5 DEF LinkInv, TypeOK, HolderInv, Inside, Write, Tell
  <2>2. \A u \in Threads : pc'[u] \notin {"arm", "reinit", "write"}
    BY <1>5 DEF LinkInv, TypeOK, HolderInv, Inside, Write
  <2>3. CASE toMcu' = Append(toMcu, f)
    <3>1. \A i \in 1..Len(toMcu') : Alive(toMcu'[i].id)
      BY <1>0, <2>1, <2>3, AppendType DEF LinkInv, WireInv, Alive
    <3> QED
      BY <1>0, <1>5, <2>2, <3>1
         DEF LinkInv, WireInv, Alive, Write, Answer, decoder, firmware
  <2>4. CASE UNCHANGED toMcu
    BY <1>0, <1>5, <2>2, <2>4 DEF LinkInv, WireInv, Alive, Write, Answer, decoder, firmware
  <2> QED BY <1>5, <2>3, <2>4 DEF Write
<1>6. ASSUME NEW t \in Threads, WriteFails(t) PROVE WireInv'
  BY <1>6 DEF LinkInv, TypeOK, WireInv, Alive, WriteFails, Answer, decoder, wire, firmware
<1>7. ASSUME NEW t \in Threads, Wake(t) PROVE WireInv'
  BY <1>7 DEF LinkInv, TypeOK, WireInv, Alive, Wake, Answer, wire, firmware
<1>8. ASSUME NEW t \in Threads, GiveUp(t) PROVE WireInv'
  BY <1>8 DEF LinkInv, TypeOK, WireInv, Alive, GiveUp, Answer, decoder, wire, firmware
<1>9. ASSUME NEW t \in Threads, Copy(t) PROVE WireInv'
  BY <1>9 DEF LinkInv, TypeOK, WireInv, Alive, Copy, Answer, decoder, wire, firmware
<1>10. ASSUME NEW t \in Threads, Leave(t) PROVE WireInv'
  BY <1>10 DEF LinkInv, TypeOK, WireInv, Alive, Leave, Answer, wire, firmware
<1>11. ASSUME fromMcu # <<>>, fromMcu' = Tail(fromMcu),
              UNCHANGED <<toMcu, pc, issued, served, unsolicited>>
       PROVE  WireInv'
  <2>1. \A i \in 1..Len(fromMcu') : \E j \in 1..Len(fromMcu) : fromMcu'[i] = fromMcu[j]
    <3>1. /\ Len(fromMcu') = Len(fromMcu) - 1
          /\ \A i \in 1..(Len(fromMcu) - 1) : fromMcu'[i] = fromMcu[i + 1]
      BY <1>0, <1>11, TailType
    <3>2. \A i \in 1..(Len(fromMcu) - 1) : i + 1 \in 1..Len(fromMcu)
      BY <1>0
    <3> QED BY <3>1, <3>2
  <2> QED
    BY <1>11, <2>1 DEF LinkInv, WireInv, Alive
<1>12. CASE Capture
  BY <1>11, <1>12 DEF Capture, driver, firmware
<1>13. CASE Complete
  BY <1>13 DEF LinkInv, WireInv, Alive, Complete, Answer, driver, wire, firmware
<1>14. CASE Dispatch
  BY <1>11, <1>14 DEF Dispatch, driver, firmware
<1>15. CASE Serve
  <2>1. /\ Head(toMcu) = toMcu[1]
        /\ Len(toMcu) >= 1 /\ Len(Tail(toMcu)) = Len(toMcu) - 1
        /\ \A i \in 1..(Len(toMcu) - 1) : Tail(toMcu)[i] = toMcu[i + 1]
    BY <1>0, <1>15, TailType DEF Serve
  <2> DEFINE id == toMcu[1].id
  <2>2. id \in Nat /\ Alive(id)
    BY <1>0, <2>1 DEF LinkInv, WireInv
  <2>3. \A i \in 1..Len(toMcu') : Alive(toMcu'[i].id)
    BY <1>0, <1>15, <2>1 DEF LinkInv, WireInv, Serve, Alive, driver
  <2>4. \A u \in Threads : pc[u] \in {"arm", "reinit", "write"} =>
           id # issued /\ \A i \in 1..Len(toMcu') : toMcu'[i].id # issued
    BY <1>0, <1>15, <2>1 DEF LinkInv, WireInv, Serve
  <2>5. CASE fromMcu' = fromMcu
    BY <1>0, <1>15, <2>3, <2>4, <2>5
       DEF LinkInv, WireInv, Serve, Alive, Answer, driver, decoder
  <2>6. CASE fromMcu' = Append(fromMcu, Answer(id))
    <3>1. Answer(id) \in Frame
      <4>1. id \in Ids
        BY <1>0, <2>2 DEF Alive, Ids, LinkInv, TypeOK
      <4>2. Stamp(id) \in SeqNums
        BY <2>2, StampType
      <4> QED BY <4>1, <4>2 DEF Answer, Frame
    <3>2. /\ Len(fromMcu') = Len(fromMcu) + 1
          /\ \A i \in 1..(Len(fromMcu) + 1) :
                fromMcu'[i] = IF i <= Len(fromMcu) THEN fromMcu[i] ELSE Answer(id)
      BY <1>0, <2>6, <3>1, AppendType
    <3>3. Answer(id).kind = "answer" /\ Answer(id).id = id
      BY DEF Answer
    <3>4. served' = served \cup {id} /\ UNCHANGED <<pc, issued, unsolicited>>
      BY <1>15, <2>1 DEF Serve, driver
    <3>5. \A i \in 1..Len(fromMcu') : fromMcu'[i].kind = "answer" =>
             /\ fromMcu'[i] = Answer(fromMcu'[i].id)
             /\ Alive(fromMcu'[i].id)
             /\ fromMcu'[i].id \in served'
      BY <1>0, <2>2, <3>2, <3>3, <3>4 DEF LinkInv, WireInv
    <3>6. unsolicited = 0 => \A i \in 1..Len(fromMcu') : fromMcu'[i].kind = "answer"
      BY <1>0, <3>2, <3>3 DEF LinkInv, WireInv
    <3>7. \A u \in Threads : pc[u] \in {"arm", "reinit", "write"} =>
             \A i \in 1..Len(fromMcu') : fromMcu'[i].kind = "answer" => fromMcu'[i].id # issued
      BY <1>0, <2>4, <3>2, <3>3 DEF LinkInv, WireInv
    <3> QED BY <2>3, <2>4, <3>4, <3>5, <3>6, <3>7 DEF WireInv, Alive
  <2> QED BY <1>15, <2>1, <2>5, <2>6 DEF Serve
<1>16. CASE Emit
  <2> DEFINE f == [kind |-> "unsolicited", id |-> unsolicited + 1, seq |-> useq]
  <2>1. f \in Frame /\ f.kind # "answer"
    <3>1. unsolicited + 1 \in 1..MaxUnsolicited /\ useq \in SeqNums
      BY <1>16, MaxUnsolicitedAssumption DEF Emit, LinkInv, TypeOK
    <3> QED BY <3>1 DEF Frame
  <2>2. /\ Len(fromMcu') = Len(fromMcu) + 1
        /\ \A i \in 1..(Len(fromMcu) + 1) :
              fromMcu'[i] = IF i <= Len(fromMcu) THEN fromMcu[i] ELSE f
    BY <1>0, <1>16, <2>1, AppendType DEF Emit
  <2>3. unsolicited' # 0 /\ UNCHANGED <<pc, issued, served, toMcu>>
    BY <1>16, MaxUnsolicitedAssumption DEF Emit, driver, LinkInv, TypeOK
  <2>4. \A i \in 1..Len(fromMcu') : fromMcu'[i].kind = "answer" =>
           \E j \in 1..Len(fromMcu) : fromMcu'[i] = fromMcu[j]
    BY <1>0, <2>1, <2>2
  <2> QED BY <2>3, <2>4 DEF LinkInv, WireInv, Alive
<1>17. CASE LoseRequest
  <2>1. /\ Len(Tail(toMcu)) = Len(toMcu) - 1
        /\ \A i \in 1..(Len(toMcu) - 1) : Tail(toMcu)[i] = toMcu[i + 1]
    BY <1>0, <1>17, TailType DEF LoseRequest
  <2> QED
    BY <1>0, <1>17, <2>1
       DEF LinkInv, WireInv, Alive, Answer, LoseRequest, driver, decoder, firmware
<1>18. CASE LoseAnswer
  BY <1>11, <1>18 DEF LoseAnswer, driver, firmware
<1>19. CASE UNCHANGED vars
  BY <1>19 DEF LinkInv, WireInv, Alive, Answer, vars, driver, wire, firmware
<1> QED
  BY <1>1, <1>2, <1>3, <1>4, <1>5, <1>6, <1>7, <1>8, <1>9, <1>10, <1>12, <1>13,
     <1>14, <1>15, <1>16, <1>17, <1>18, <1>19 DEF Next, Step, Spent

(* While nothing has disturbed the match, a step keeps the answer the      *)
(* holder's own.                                                           *)
LEMMA MatchStep == LinkInv /\ [Next]_vars => (Undisturbed => MatchInv)'
<1> SUFFICES ASSUME LinkInv, [Next]_vars, Undisturbed' PROVE MatchInv'
  OBVIOUS
<1> USE WrapAssumption, MaxRequestsAssumption, NoThreadAssumption
<1>0. MatchInv /\ unsolicited = 0 /\ ~crossed
  <2>1. unsolicited = 0
    <3>1. CASE Emit
      BY <3>1, MaxUnsolicitedAssumption DEF Emit, Undisturbed, LinkInv, TypeOK
    <3>2. CASE ~Emit
      BY <3>2
         DEF Next, Step, Undisturbed, vars, firmware, Spent, Call, Acquire, Arm, Reinit,
             Write, WriteFails, Wake, GiveUp, Copy, Leave, Capture, Complete, Dispatch,
             Serve, LoseRequest, LoseAnswer
    <3> QED BY <3>1, <3>2
  <2>2. ~crossed
    BY DEF Next, Step, Undisturbed, vars, Spent, Call, Acquire, Arm,
           Reinit, Write, WriteFails, Wake, GiveUp, Copy, Leave, Capture, Complete,
           Dispatch, Serve, Emit, LoseRequest, LoseAnswer
  <2> QED BY <2>1, <2>2 DEF LinkInv, Undisturbed
<1>1. ASSUME NEW t \in Threads, Call(t) PROVE MatchInv'
  BY <1>0, <1>1 DEF LinkInv, TypeOK, HolderInv, MatchInv, Captured, Answer, Inside, Call, decoder, wire, firmware
<1>2. ASSUME NEW t \in Threads, Acquire(t) PROVE MatchInv'
  BY <1>0, <1>2 DEF LinkInv, TypeOK, HolderInv, MatchInv, Captured, Answer, Inside, Acquire, decoder, wire, firmware
<1>3. ASSUME NEW t \in Threads, Arm(t) PROVE MatchInv'
  BY <1>0, <1>3 DEF LinkInv, TypeOK, HolderInv, MatchInv, Captured, Answer, Inside, Arm, decoder, wire, firmware
<1>4. ASSUME NEW t \in Threads, Reinit(t) PROVE MatchInv'
  BY <1>0, <1>4 DEF LinkInv, TypeOK, HolderInv, MatchInv, Captured, Answer, Inside, Reinit, decoder, wire, firmware
<1>5. ASSUME NEW t \in Threads, Write(t) PROVE MatchInv'
  BY <1>0, <1>5 DEF LinkInv, TypeOK, HolderInv, MatchInv, Captured, Answer, Inside, Write, decoder, wire, firmware
<1>6. ASSUME NEW t \in Threads, WriteFails(t) PROVE MatchInv'
  BY <1>0, <1>6 DEF LinkInv, TypeOK, HolderInv, MatchInv, Captured, Answer, Inside, WriteFails, decoder, wire, firmware
<1>7. ASSUME NEW t \in Threads, Wake(t) PROVE MatchInv'
  BY <1>0, <1>7 DEF LinkInv, TypeOK, HolderInv, MatchInv, Captured, Answer, Inside, Wake, decoder, wire, firmware
<1>8. ASSUME NEW t \in Threads, GiveUp(t) PROVE MatchInv'
  BY <1>0, <1>8 DEF LinkInv, TypeOK, HolderInv, MatchInv, Captured, Answer, Inside, GiveUp, decoder, wire, firmware
<1>9. ASSUME NEW t \in Threads, Copy(t) PROVE MatchInv'
  BY <1>0, <1>9 DEF LinkInv, TypeOK, HolderInv, MatchInv, Captured, Answer, Inside, Copy, decoder, wire, firmware
<1>10. ASSUME NEW t \in Threads, Leave(t) PROVE MatchInv'
  <2>1. rx # "completing"
    BY <1>10 DEF Leave, Undisturbed
  <2> QED
    BY <1>0, <1>10, <2>1
       DEF LinkInv, TypeOK, HolderInv, MatchInv, Captured, Answer, Inside, Leave, wire, firmware
<1>11. CASE Capture
  <2> DEFINE f == fromMcu[1]
  <2>1. /\ Len(fromMcu) >= 1 /\ Len(fromMcu) \in Nat /\ Head(fromMcu) = f
        /\ f \in Frame
    BY <1>11, TailType DEF Capture, LinkInv, TypeOK
  <2>2. f.kind = "answer" /\ f = Answer(f.id) /\ Alive(f.id) /\ f.id \in served
    BY <1>0, <2>1 DEF LinkInv, WireInv
  <2>3. f.id \in Nat /\ issued \in Nat
    BY <2>1, <2>2 DEF Frame, Ids, LinkInv, TypeOK
  <2>4. Stamp(f.id) = Stamp(issued)
    <3>1. f.seq = wantSeq
      BY <1>11, <2>1 DEF Capture
    <3>2. f.seq = Stamp(f.id)
      BY <2>2 DEF Answer
    <3> QED BY <1>11, <3>1, <3>2 DEF Capture, LinkInv, HolderInv
  <2>5. f.id = issued
    <3>1. f.id - issued < Wrap /\ issued - f.id < Wrap
      BY <2>2, <2>3 DEF Alive
    <3> QED BY <2>3, <2>4, <3>1, SameResidue DEF Stamp
  <2>6. /\ ioLock \in Threads
        /\ pc[ioLock] \in Inside \ {"arm", "reinit", "write", "copy"}
    <3>1. ioLock \in Threads /\ pc[ioLock] \in Inside
      BY <1>11 DEF Capture, LinkInv, TypeOK, HolderInv
    <3>2. pc[ioLock] \notin {"arm", "reinit", "write"}
      BY <2>1, <2>2, <2>5, <3>1 DEF LinkInv, WireInv
    <3>3. pc[ioLock] # "copy"
      BY <1>0, <1>11, <3>1 DEF MatchInv, Captured, Capture
    <3> QED BY <3>1, <3>2, <3>3
  <2>7. Captured'
    BY <1>11, <2>1, <2>2, <2>5 DEF Capture, Captured, driver, firmware, Answer
  <2>8. pc[ioLock] = "wait" => completion = 0
    BY <1>0, <1>11, <2>6 DEF MatchInv, Captured, Capture, LinkInv, TypeOK
  <2> QED
    BY <1>0, <1>11, <2>6, <2>7, <2>8
       DEF MatchInv, Capture, driver, firmware, LinkInv, HolderInv, TypeOK, Inside, Answer
<1>12. CASE Complete
  <2>1. /\ ioLock \in Threads /\ pc[ioLock] \in {"wait", "leave"} /\ Captured
    BY <1>0, <1>12 DEF MatchInv, Complete, LinkInv, TypeOK
  <2>2. \A t \in Threads : pc[t] \in Inside => pc[t] \in {"wait", "leave"}
    BY <2>1 DEF LinkInv, HolderInv
  <2>3. Captured' /\ rx' = "idle"
    BY <1>12, <2>1 DEF Complete, Captured, Answer, driver, firmware
  <2> QED
    BY <1>0, <1>12, <2>2, <2>3 DEF MatchInv, Complete, Inside, driver, wire, firmware, Answer
<1>13. CASE Dispatch
  BY <1>0, <1>13 DEF LinkInv, TypeOK, HolderInv, MatchInv, Captured, Answer, Inside, Dispatch, driver, decoder, wire, firmware
<1>14. CASE Serve
  BY <1>0, <1>14 DEF LinkInv, TypeOK, HolderInv, MatchInv, Captured, Answer, Inside, Serve, driver, decoder, wire, firmware
<1>15. CASE Emit
  BY <1>0, <1>15 DEF LinkInv, TypeOK, HolderInv, MatchInv, Captured, Answer, Inside, Emit, driver, decoder, wire, firmware
<1>16. CASE LoseRequest
  BY <1>0, <1>16 DEF LinkInv, TypeOK, HolderInv, MatchInv, Captured, Answer, Inside, LoseRequest, driver, decoder, wire, firmware
<1>17. CASE LoseAnswer
  BY <1>0, <1>17 DEF LinkInv, TypeOK, HolderInv, MatchInv, Captured, Answer, Inside, LoseAnswer, driver, decoder, wire, firmware
<1>18. CASE UNCHANGED vars
  BY <1>0, <1>18 DEF LinkInv, TypeOK, HolderInv, MatchInv, Captured, Answer, Inside, vars, driver, decoder, wire, firmware
<1> QED
  BY <1>1, <1>2, <1>3, <1>4, <1>5, <1>6, <1>7, <1>8, <1>9, <1>10, <1>11, <1>12, <1>13, <1>14, <1>15, <1>16, <1>17, <1>18 DEF Next, Step, Spent

-----------------------------------------------------------------------------
(* The invariant holds in every behaviour.                                 *)
THEOREM LinkInvariant == Spec => []LinkInv
<1>1. Init => LinkInv
  <2> SUFFICES ASSUME Init PROVE LinkInv
    OBVIOUS
  <2>1. TypeOK
    BY InitType
  <2>2. HolderInv
    BY DEF Init, HolderInv, Inside
  <2>3. WireInv
    BY DEF Init, WireInv
  <2>4. MatchInv
    BY DEF Init, MatchInv
  <2> QED BY <2>1, <2>2, <2>3, <2>4 DEF LinkInv
<1>2. LinkInv /\ [Next]_vars => LinkInv'
  BY TypeStep, HolderStep, WireStep, MatchStep DEF LinkInv
<1> QED BY <1>1, <1>2, PTL DEF Spec

(* The decoder hunts only for the one thread that holds io_lock, and only  *)
(* for its number (__ohc_request, ohc_frame_complete).                     *)
THEOREM OneConversation == Spec => []ArmedForHolder
<1>1. LinkInv => ArmedForHolder
  BY DEF LinkInv, TypeOK, HolderInv, ArmedForHolder
<1> QED BY <1>1, LinkInvariant, PTL

(* However calls time out and frames are lost or late, and however often   *)
(* the number wraps, a caller is handed the answer to its own request and  *)
(* the firmware has acted on it, until an unsolicited frame or a caller    *)
(* leaving between the decoder's unlock and complete() disturbs the match. *)
THEOREM OwnAnswerAlways == Spec => []OwnAnswer
<1>1. LinkInv => OwnAnswer
  BY DEF LinkInv, MatchInv, OwnAnswer
<1> QED BY <1>1, LinkInvariant, PTL

-----------------------------------------------------------------------------
(* The link implements IomcuRpc.                                           *)

(* Requests reach the firmware in the order of their numbers, each once.   *)
OrderInv ==
    /\ \A i \in 1..Len(toMcu) : toMcu[i].id >= 1
    /\ \A i, j \in 1..Len(toMcu) : i < j => toMcu[i].id < toMcu[j].id
    /\ \A i \in 1..Len(toMcu) : \A m \in served : m < toMcu[i].id
    /\ \A m \in served : m <= issued
    /\ \A t \in Threads :
         pc[t] \in {"arm", "reinit", "write"} => issued >= 1 /\ \A m \in served : m < issued

(* A step keeps that order.                                                *)
LEMMA OrderStep == LinkInv /\ OrderInv /\ [Next]_vars => OrderInv'
<1> SUFFICES ASSUME LinkInv, OrderInv, [Next]_vars PROVE OrderInv'
  OBVIOUS
<1> USE WrapAssumption, MaxRequestsAssumption
<1>0. /\ issued \in Nat /\ served \subseteq Nat
      /\ toMcu \in Seq(Tell) /\ Len(toMcu) \in Nat
      /\ \A i \in 1..Len(toMcu) : toMcu[i].id \in Nat
  <2>1. \A f \in Tell : f.id \in Nat
    BY DEF Tell, Ids
  <2> QED BY <2>1 DEF LinkInv, TypeOK, Ids
<1>1. ASSUME NEW t \in Threads, Acquire(t) PROVE OrderInv'
  <2>1. issued' = issued + 1 /\ UNCHANGED <<toMcu, served>>
    BY <1>1 DEF Acquire, wire, firmware
  <2>2. \A m \in served : m <= issued' /\ m < issued'
    <3>1. \A m \in served : m \in Nat /\ m <= issued
      BY <1>0 DEF OrderInv
    <3> QED BY <1>0, <2>1, <3>1
  <2>3. issued' >= 1
    BY <1>0, <2>1
  <2> QED BY <2>1, <2>2, <2>3 DEF OrderInv
<1>2. ASSUME NEW t \in Threads, Write(t) PROVE OrderInv'
  <2> DEFINE f == [id |-> mine[t], reply |-> op[t] = "ask"]
  <2>1. f \in Tell /\ f.id = issued /\ pc[t] = "write" /\ UNCHANGED <<served, issued>>
    BY <1>2 DEF LinkInv, TypeOK, HolderInv, Inside, Write, Tell, firmware
  <2>2. \A u \in Threads : pc'[u] \notin {"arm", "reinit", "write"}
    BY <1>2 DEF LinkInv, TypeOK, HolderInv, Inside, Write
  <2>3. CASE toMcu' = Append(toMcu, f)
    <3>1. /\ Len(toMcu') = Len(toMcu) + 1
          /\ \A i \in 1..(Len(toMcu) + 1) : toMcu'[i] = IF i <= Len(toMcu) THEN toMcu[i] ELSE f
      BY <1>0, <2>1, <2>3, AppendType
    <3>2. \A i \in 1..Len(toMcu) : toMcu[i].id < issued
      BY <1>0, <2>1 DEF LinkInv, WireInv, Alive
    <3>3. issued >= 1 /\ \A m \in served : m < issued
      BY <2>1 DEF OrderInv
    <3>4. \A i \in 1..Len(toMcu') :
             \/ i \in 1..Len(toMcu) /\ toMcu'[i] = toMcu[i]
             \/ i = Len(toMcu) + 1 /\ toMcu'[i].id = issued
      BY <1>0, <2>1, <3>1
    <3>5. \A i \in 1..Len(toMcu') : toMcu'[i].id >= 1 /\ \A m \in served : m < toMcu'[i].id
      BY <3>3, <3>4 DEF OrderInv
    <3>6. \A i, j \in 1..Len(toMcu') : i < j => toMcu'[i].id < toMcu'[j].id
      <4> SUFFICES ASSUME NEW i \in 1..Len(toMcu'), NEW j \in 1..Len(toMcu'), i < j
                   PROVE  toMcu'[i].id < toMcu'[j].id
        OBVIOUS
      <4>1. i \in 1..Len(toMcu)
        BY <1>0, <3>1
      <4> QED BY <3>2, <3>4, <4>1, <1>0 DEF OrderInv
    <3> QED BY <2>1, <2>2, <3>5, <3>6 DEF OrderInv
  <2>4. CASE UNCHANGED toMcu
    BY <2>1, <2>2, <2>4 DEF OrderInv
  <2> QED BY <1>2, <2>3, <2>4 DEF Write
<1>3. ASSUME toMcu # <<>>, toMcu' = Tail(toMcu), UNCHANGED <<pc, issued>>,
             served' = served \/ served' = served \cup {Head(toMcu).id}
      PROVE  OrderInv'
  <2>1. /\ Len(toMcu) >= 1 /\ Len(toMcu') = Len(toMcu) - 1
        /\ Head(toMcu) = toMcu[1]
        /\ \A i \in 1..(Len(toMcu) - 1) : toMcu'[i] = toMcu[i + 1]
    BY <1>0, <1>3, TailType
  <2>2. \A i \in 1..Len(toMcu') : i + 1 \in 1..Len(toMcu) /\ 1 < i + 1 /\ toMcu'[i] = toMcu[i + 1]
    BY <1>0, <2>1
  <2>3. \A m \in served' : m \in served \/ m = toMcu[1].id
    BY <1>3, <2>1
  <2>4. 1 \in 1..Len(toMcu)
    BY <1>0, <2>1
  <2>5. \A i \in 1..Len(toMcu') : \A m \in served' : m < toMcu'[i].id
    BY <1>0, <2>2, <2>3, <2>4 DEF OrderInv
  <2>6. \A m \in served' : m <= issued
    <3>1. toMcu[1].id <= issued
      BY <2>4 DEF LinkInv, WireInv, Alive
    <3> QED BY <2>3, <3>1 DEF OrderInv
  <2>7. \A t \in Threads : pc[t] \in {"arm", "reinit", "write"} =>
           issued >= 1 /\ \A m \in served' : m < issued
    <3> SUFFICES ASSUME NEW t \in Threads, pc[t] \in {"arm", "reinit", "write"}
                 PROVE  issued >= 1 /\ \A m \in served' : m < issued
      OBVIOUS
    <3>1. toMcu[1].id <= issued /\ toMcu[1].id # issued
      BY <2>4 DEF LinkInv, WireInv, Alive
    <3>2. toMcu[1].id < issued
      BY <1>0, <2>4, <3>1
    <3> QED BY <2>3, <3>2 DEF OrderInv
  <2>8. \A i, j \in 1..Len(toMcu') : i < j => toMcu'[i].id < toMcu'[j].id
    <3> SUFFICES ASSUME NEW i \in 1..Len(toMcu'), NEW j \in 1..Len(toMcu'), i < j
                 PROVE  toMcu'[i].id < toMcu'[j].id
      OBVIOUS
    <3>1. i + 1 \in 1..Len(toMcu) /\ j + 1 \in 1..Len(toMcu) /\ i + 1 < j + 1
      BY <1>0, <2>1
    <3> QED BY <2>2, <3>1 DEF OrderInv
  <2> QED BY <1>3, <2>2, <2>5, <2>6, <2>7, <2>8 DEF OrderInv
<1>4. CASE Serve
  BY <1>3, <1>4 DEF Serve, driver
<1>5. CASE LoseRequest
  BY <1>3, <1>5 DEF LoseRequest, driver, firmware
<1>6. CASE Capture \/ Complete \/ Dispatch \/ Emit \/ LoseAnswer \/ UNCHANGED vars
  BY <1>6 DEF OrderInv, Capture, Complete, Dispatch, Emit, LoseAnswer, vars, driver, wire, firmware
<1>7. ASSUME NEW t \in Threads,
             Call(t) \/ Arm(t) \/ Reinit(t) \/ WriteFails(t) \/ Wake(t) \/ GiveUp(t) \/ Copy(t) \/ Leave(t)
      PROVE  OrderInv'
  <2>1. UNCHANGED <<toMcu, served, issued>>
    BY <1>7 DEF Call, Arm, Reinit, WriteFails, Wake, GiveUp, Copy, Leave, wire, firmware
  <2>2. \A u \in Threads : pc'[u] \in {"arm", "reinit", "write"} => pc[u] \in {"arm", "reinit", "write"}
    BY <1>7 DEF Call, Arm, Reinit, WriteFails, Wake, GiveUp, Copy, Leave, LinkInv, TypeOK
  <2> QED BY <2>1, <2>2 DEF OrderInv
<1> QED
  BY <1>1, <1>2, <1>4, <1>5, <1>6, <1>7 DEF Next, Step, Spent

(* A step of the link is a step of IomcuRpc, or none.                      *)
LEMMA RpcStep == LinkInv /\ OrderInv /\ [Next]_vars => [Rpc!Next]_(Rpc!vars)
<1> SUFFICES ASSUME LinkInv, OrderInv, [Next]_vars PROVE [Rpc!Next]_(Rpc!vars)
  OBVIOUS
<1> DEFINE stOf == [t \in Threads |-> IF pc[t] \in Inside \ {"leave"} THEN op[t] ELSE "idle"]
<1>1. ASSUME stOf' = stOf, UNCHANGED <<mine, issued, served, ret, crossed, unsolicited>>
      PROVE  UNCHANGED Rpc!vars
  BY <1>1 DEF Rpc!vars, Undisturbed
<1>2. ASSUME stOf' = stOf, UNCHANGED <<mine, issued, served, ret>>, ~Undisturbed'
      PROVE  Rpc!Next
  BY <1>2 DEF Rpc!Next, Rpc!Disturb
<1>3. ASSUME NEW t \in Threads, Call(t) PROVE UNCHANGED Rpc!vars
  <2>1. stOf' = stOf
    BY <1>3 DEF Call, LinkInv, TypeOK, Inside
  <2> QED BY <1>1, <1>3, <2>1 DEF Call, firmware
<1>4. ASSUME NEW t \in Threads, Acquire(t) PROVE Rpc!Next
  <2>1. \A u \in Threads : stOf[u] = "idle"
    BY <1>4, NoThreadAssumption DEF Acquire, LinkInv, HolderInv
  <2>2. stOf' = [stOf EXCEPT ![t] = op[t]]
    BY <1>4 DEF Acquire, LinkInv, TypeOK, Inside
  <2>3. Rpc!Begin(t, op[t])
    BY <1>4, <2>1, <2>2, MaxRequestsAssumption
       DEF Rpc!Begin, Acquire, decoder, wire, firmware, Undisturbed, LinkInv, TypeOK
  <2>4. op[t] = "ask" \/ op[t] = "tell"
    BY DEF LinkInv, TypeOK
  <2>5. CASE op[t] = "ask"
    <3>1. Rpc!Begin(t, "ask")
      BY <2>3, <2>5 DEF Rpc!Begin
    <3> QED BY <3>1 DEF Rpc!Next
  <2>6. CASE op[t] = "tell"
    <3>1. Rpc!Begin(t, "tell")
      BY <2>3, <2>6 DEF Rpc!Begin
    <3> QED BY <3>1 DEF Rpc!Next
  <2> QED BY <2>4, <2>5, <2>6
<1>5. ASSUME NEW t \in Threads, Arm(t) \/ Reinit(t) \/ Wake(t) PROVE UNCHANGED Rpc!vars
  <2>1. stOf' = stOf
    BY <1>5 DEF Arm, Reinit, Wake, LinkInv, TypeOK, Inside
  <2> QED BY <1>1, <1>5, <2>1 DEF Arm, Reinit, Wake, firmware
<1>6. ASSUME NEW t \in Threads, Write(t) PROVE [Rpc!Next]_(Rpc!vars)
  <2>1. CASE op[t] = "ask"
    <3>1. stOf' = stOf
      BY <1>6, <2>1 DEF Write, LinkInv, TypeOK, Inside
    <3> QED BY <1>1, <1>6, <2>1, <3>1 DEF Write, firmware
  <2>2. CASE op[t] # "ask"
    <3>1. stOf' = [stOf EXCEPT ![t] = "idle"] /\ stOf[t] = "tell"
      BY <1>6, <2>2 DEF Write, LinkInv, TypeOK, Inside
    <3>2. Rpc!Succeed(t)
      BY <1>6, <2>2, <3>1 DEF Rpc!Succeed, Write, firmware, Undisturbed
    <3> QED BY <3>2 DEF Rpc!Next
  <2> QED BY <2>1, <2>2
<1>7. ASSUME NEW t \in Threads, WriteFails(t) \/ GiveUp(t) PROVE Rpc!Next
  <2>1. stOf' = [stOf EXCEPT ![t] = "idle"] /\ stOf[t] # "idle"
    BY <1>7 DEF WriteFails, GiveUp, LinkInv, TypeOK, Inside
  <2>2. Rpc!Fail(t)
    BY <1>7, <2>1 DEF Rpc!Fail, WriteFails, GiveUp, firmware, Undisturbed
  <2> QED BY <2>2 DEF Rpc!Next
<1>8. ASSUME NEW t \in Threads, Copy(t) PROVE Rpc!Next
  <2>1. stOf' = [stOf EXCEPT ![t] = "idle"] /\ stOf[t] = "ask"
    BY <1>8 DEF Copy, LinkInv, HolderInv, TypeOK, Inside
  <2>2. Undisturbed => mine[t] \in served
    BY <1>8 DEF Copy, LinkInv, HolderInv, Inside, MatchInv, Captured
  <2>3. Rpc!Succeed(t)
    BY <1>8, <2>1, <2>2 DEF Rpc!Succeed, Copy, firmware, Undisturbed
  <2> QED BY <2>3 DEF Rpc!Next
<1>9. ASSUME NEW t \in Threads, Leave(t) PROVE [Rpc!Next]_(Rpc!vars)
  <2>1. stOf' = stOf
    BY <1>9 DEF Leave, LinkInv, TypeOK, Inside
  <2>2. CASE crossed' = crossed
    BY <1>1, <1>9, <2>1, <2>2 DEF Leave, firmware
  <2>3. CASE crossed' # crossed
    <3>1. ~Undisturbed'
      BY <1>9, <2>3 DEF Leave, Undisturbed, LinkInv, TypeOK
    <3> QED BY <1>2, <1>9, <2>1, <3>1 DEF Leave, firmware
  <2> QED BY <2>2, <2>3
<1>10. CASE Capture \/ Complete \/ Dispatch \/ LoseRequest \/ LoseAnswer \/ UNCHANGED vars
  <2>1. stOf' = stOf
    BY <1>10 DEF Capture, Complete, Dispatch, LoseRequest, LoseAnswer, vars, driver
  <2> QED
    BY <1>1, <1>10, <2>1
       DEF Capture, Complete, Dispatch, LoseRequest, LoseAnswer, vars, driver, firmware
<1>11. CASE Serve
  <2>1. Head(toMcu) = toMcu[1] /\ 1 \in 1..Len(toMcu)
    BY <1>11, TailType DEF Serve, LinkInv, TypeOK
  <2> DEFINE n == toMcu[1].id
  <2>2. n \in 1..issued /\ \A m \in served : m < n
    <3>1. n \in Nat /\ issued \in Nat
      <4>1. \A f \in Tell : f.id \in Nat
        BY DEF Tell, Ids
      <4>2. toMcu \in Seq(Tell) /\ issued \in Nat
        BY MaxRequestsAssumption DEF LinkInv, TypeOK, Ids
      <4> QED BY <2>1, <4>1, <4>2
    <3> QED BY <2>1, <3>1 DEF OrderInv, LinkInv, WireInv, Alive
  <2>3. stOf' = stOf /\ served' = served \cup {n}
        /\ UNCHANGED <<mine, issued, ret, crossed, unsolicited>>
    BY <1>11, <2>1 DEF Serve, driver
  <2>4. Rpc!Act(n)
    BY <2>2, <2>3 DEF Rpc!Act, Undisturbed
  <2> QED BY <2>2, <2>4 DEF Rpc!Next
<1>12. CASE Emit
  <2>1. stOf' = stOf /\ UNCHANGED <<mine, issued, served, ret>>
    BY <1>12 DEF Emit, driver
  <2>2. ~Undisturbed'
    BY <1>12, MaxUnsolicitedAssumption DEF Emit, Undisturbed, LinkInv, TypeOK
  <2> QED BY <1>2, <2>1, <2>2
<1> QED
  BY <1>3, <1>4, <1>5, <1>6, <1>7, <1>8, <1>9, <1>10, <1>11, <1>12 DEF Next, Step, Spent

(* The link is an at-most-once remote call: a request is acted upon at     *)
(* most once, in issue order, and success means it was acted upon until    *)
(* the match is disturbed (__ohc_request against on_frame).                *)
THEOREM ImplementsRpc == Spec => RefinesRpc
<1>1. Init => Rpc!Init
  BY DEF Init, Rpc!Init, Undisturbed, Inside
<1>2. Init => OrderInv
  BY DEF Init, OrderInv
<1>3. Spec => []OrderInv
  BY <1>2, OrderStep, LinkInvariant, PTL DEF Spec
<1> QED
  BY <1>1, <1>3, RpcStep, LinkInvariant, PTL DEF Spec, RefinesRpc, Rpc!Spec

=============================================================================
