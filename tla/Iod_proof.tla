------------------------------ MODULE Iod_proof ------------------------------
(***************************************************************************)
(* Proofs about what a daemon publishes (OhcMqtt, whose names are this     *)
(* module's own), for every set of topics, every channel and every number  *)
(* of changes and outages; and about iod's serial ports (IodSerial), for   *)
(* every set of terminals and rates and every number of sessions, hangups  *)
(* and restarts.                                                           *)
(***************************************************************************)
EXTENDS MCIod, Integers, TLAPS

-----------------------------------------------------------------------------
(* Sequences.                                                              *)

(* Appending an element of the right type.                                 *)
LEMMA Appended ==
  ASSUME NEW S, NEW s \in Seq(S), NEW e \in S
  PROVE  /\ Append(s, e) \in Seq(S)
         /\ Len(s) \in Nat /\ Len(Append(s, e)) = Len(s) + 1
         /\ \A i \in 1..Len(s) : Append(s, e)[i] = s[i]
         /\ Append(s, e)[Len(s) + 1] = e
OBVIOUS

(* Dropping the first element of a sequence that has one.                  *)
LEMMA Tailed ==
  ASSUME NEW S, NEW s \in Seq(S), s # <<>>
  PROVE  /\ Head(s) \in S /\ Head(s) = s[1]
         /\ Tail(s) \in Seq(S)
         /\ Len(s) \in Nat /\ Len(s) >= 1
         /\ Len(Tail(s)) = Len(s) - 1
         /\ \A i \in 1..Len(Tail(s)) : Tail(s)[i] = s[i + 1]
OBVIOUS

-----------------------------------------------------------------------------
(* Types.                                                                  *)

(* No topic has changed more often than the state, and what is republished *)
(* has been said before: without these the types are not inductive.        *)
MqttTypes ==
    /\ TypeOK
    /\ \A t \in Topics : state[t] <= changes
    /\ phase = "republish" => \A t \in todo : last[t] \in Values

(* The initial values have their types.                                    *)
LEMMA MqttInitType == Init => MqttTypes
<1> SUFFICES ASSUME Init PROVE MqttTypes
  OBVIOUS
<1>1. 0 \in Values /\ None \in Payloads /\ 0 \in 0..MaxOutages /\ 0 <= Capacity
  BY MqttAssumption DEF Values, Payloads
<1>2. channel \in Seq(Requests) /\ Len(channel) = 0
  BY DEF Init
<1>3. state \in [Topics -> Values] /\ seen \in [Topics -> Values]
  BY <1>1 DEF Init
<1>4. last \in [Topics -> Payloads] /\ retained \in [Topics -> Payloads]
  BY <1>1 DEF Init, Unsaid
<1>5. TypeOK
  BY <1>1, <1>2, <1>3, <1>4, MqttAssumption DEF Init, TypeOK, Values
<1>6. state = [t \in Topics |-> 0] /\ changes = 0 /\ phase # "republish"
  BY DEF Init
<1> QED BY <1>5, <1>6 DEF MqttTypes

(* What a round may put on the channel.                                    *)
LEMMA EnqueueType ==
  ASSUME TypeOK, NEW r \in Requests, Enqueue(r)
  PROVE  channel' \in Seq(Requests) /\ Len(channel') <= Capacity
BY Appended, MqttAssumption DEF TypeOK, Enqueue

LEMMA TakeType ==
  ASSUME TypeOK, Take
  PROVE  /\ channel' \in Seq(Requests) /\ Len(channel') <= Capacity
         /\ Head(channel) \in Requests
BY Tailed, MqttAssumption DEF TypeOK, Take

(* A step keeps every type.                                                *)
LEMMA MqttTypeStep == MqttTypes /\ [Next]_vars => MqttTypes'
<1> SUFFICES ASSUME MqttTypes, [Next]_vars PROVE MqttTypes'
  OBVIOUS
<1> USE MqttAssumption DEF MqttTypes, publisher, broke, topics, Values, Payloads
<1>1. ASSUME NEW t \in Topics, Change(t) PROVE MqttTypes'
  BY <1>1 DEF TypeOK, Change
<1>2. CASE StartSweep
  BY <1>2 DEF TypeOK, StartSweep
<1>3. ASSUME NEW t \in Topics, Set(t) PROVE MqttTypes'
  <2>1. [topic |-> t, value |-> seen[t]] \in Requests
    BY DEF TypeOK, Requests
  <2>2. channel' \in Seq(Requests) /\ Len(channel') <= Capacity
    BY <1>3, <2>1, EnqueueType DEF Set, TypeOK
  <2> QED BY <1>3, <2>2 DEF TypeOK, Set, Done
<1>4. CASE StartRepublish
  BY <1>4 DEF TypeOK, StartRepublish, Said
<1>5. ASSUME NEW t \in Topics, Republish(t) PROVE MqttTypes'
  <2>1. [topic |-> t, value |-> last[t]] \in Requests
    BY <1>5 DEF Requests, Republish
  <2>2. channel' \in Seq(Requests) /\ Len(channel') <= Capacity
    BY <1>5, <2>1, EnqueueType DEF Republish
  <2> QED BY <1>5, <2>2 DEF TypeOK, Republish, Done
<1>6. CASE Handler
  <2>1. Greeting("status") \in Requests /\ Greeting("cmd") \in Requests
    BY DEF Requests, Greeting
  <2>2. channel' \in Seq(Requests) /\ Len(channel') <= Capacity
    BY <1>6, <2>1, EnqueueType DEF Handler, Online, Subscribe
  <2> QED BY <1>6, <2>2 DEF TypeOK, Handler, Online, Subscribe
<1>7. CASE Connect \/ Refused \/ Broken \/ Wake
  <2>1. channel' \in Seq(Requests) /\ Len(channel') <= Capacity
    <3>1. CASE channel' = channel
      BY <3>1 DEF TypeOK
    <3>2. CASE channel' = <<>>
      BY <3>2
    <3> QED BY <1>7, <3>1, <3>2 DEF Connect, Refused, Broken, Wake
  <2> QED BY <1>7, <2>1 DEF TypeOK, Connect, Refused, Broken, Wake
<1>8. CASE SendState \/ SendOnline \/ SendSubscribe \/ SendLost
  <2>1. Take
    BY <1>8 DEF SendState, SendOnline, SendSubscribe, SendLost
  <2>2. /\ channel' \in Seq(Requests) /\ Len(channel') <= Capacity
        /\ Head(channel).value \in Values
    BY <2>1, TakeType DEF Requests
  <2> QED BY <1>8, <2>1, <2>2 DEF TypeOK, SendState, SendOnline, SendSubscribe, SendLost, Take
<1>9. CASE Broker
  <2>1. Unsaid \in [Topics -> Payloads]
    BY DEF Unsaid
  <2>2. CASE BrokerStops
    <3>1. link' \in {"none", "live", "dead"} /\ outages' \in 0..MaxOutages
      BY <2>2 DEF TypeOK, BrokerStops, Sever
    <3>2. /\ UNCHANGED <<state, publisher, reconnected, loop, channel, changes>>
          /\ broker' = FALSE /\ subscribed' = FALSE /\ retained' = Unsaid /\ status' = "none"
      BY <2>2 DEF BrokerStops, Sever
    <3> QED BY <2>1, <3>1, <3>2 DEF TypeOK
  <2>3. CASE BrokerStarts
    BY <2>3 DEF TypeOK, BrokerStarts
  <2>4. CASE BrokerDrops
    <3>1. link' \in {"none", "live", "dead"} /\ outages' \in 0..MaxOutages
      BY <2>4 DEF TypeOK, BrokerDrops, Sever
    <3>2. /\ UNCHANGED <<state, publisher, reconnected, loop, channel, changes, broker, retained>>
          /\ subscribed' = FALSE /\ status' = "offline"
      BY <2>4 DEF BrokerDrops, Sever
    <3> QED BY <3>1, <3>2 DEF TypeOK
  <2> QED BY <1>9, <2>2, <2>3, <2>4 DEF Broker
<1>10. CASE UNCHANGED vars
  BY <1>10 DEF TypeOK, vars
<1> QED
  BY <1>1, <1>2, <1>3, <1>4, <1>5, <1>6, <1>7, <1>8, <1>9, <1>10 DEF Next, Sweep, Poll

(* Every variable keeps its type, however often the state changes and the  *)
(* broker goes away.                                                       *)
THEOREM MqttTypeCorrect == Spec => []MqttTypes
BY MqttInitType, MqttTypeStep, PTL DEF Spec

-----------------------------------------------------------------------------
(* What a topic will show.                                                 *)

(* A request put last decides its own topic and no other.                  *)
LEMMA ComesAppended ==
  ASSUME TypeOK, NEW r \in Requests, Enqueue(r), UNCHANGED retained,
         NEW t \in Topics, NEW v
  PROVE  Comes(t, v)' <=> IF r.topic = t THEN r.value = v ELSE Comes(t, v)
<1> DEFINE n == Len(channel)
<1>1. /\ n \in Nat /\ Len(channel') = n + 1
      /\ \A i \in 1..n : channel'[i] = channel[i]
      /\ channel'[n + 1] = r
  BY Appended DEF TypeOK, Enqueue
<1> HIDE DEF n
<1>2. About(t) = {i \in 1..n : channel[i].topic = t}
  BY DEF About, n
<1>3. About(t)' = {i \in 1..(n + 1) : channel'[i].topic = t}
  BY <1>1 DEF About
<1>4. CASE r.topic = t
  <2>1. n + 1 \in About(t)' /\ \A j \in About(t)' : j <= n + 1
    BY <1>1, <1>3, <1>4
  <2>2. \A i \in About(t)' : (\A j \in About(t)' : j <= i) => i = n + 1
    BY <1>1, <1>3, <2>1
  <2> QED BY <1>1, <1>4, <2>1, <2>2 DEF Comes
<1>5. CASE r.topic # t
  <2>1. About(t)' = About(t) /\ \A i \in About(t) : channel'[i] = channel[i]
    BY <1>1, <1>2, <1>3, <1>5
  <2> QED BY <1>5, <2>1 DEF Comes
<1> QED BY <1>4, <1>5

(* Sending the first request changes what no topic will show.              *)
LEMMA ComesSent ==
  ASSUME TypeOK, SendState \/ SendOnline \/ SendSubscribe, NEW t \in Topics, NEW v
  PROVE  Comes(t, v)' <=> Comes(t, v)
<1> DEFINE n == Len(channel')
           r == channel[1]
<1>1. /\ n \in Nat /\ Len(channel) = n + 1 /\ Head(channel) = r /\ r \in Requests
      /\ \A i \in 1..n : channel'[i] = channel[i + 1]
  <2>1. channel # <<>> /\ channel' = Tail(channel) /\ channel \in Seq(Requests)
    BY DEF TypeOK, SendState, SendOnline, SendSubscribe, Take
  <2> QED BY <2>1, Tailed
<1>2. retained' = IF r.topic \in Topics THEN [retained EXCEPT ![r.topic] = r.value] ELSE retained
  BY <1>1, MqttAssumption DEF SendState, SendOnline, SendSubscribe
<1> HIDE DEF n, r
<1>3. About(t) = {i \in 1..(n + 1) : channel[i].topic = t}
  BY <1>1 DEF About
<1>4. About(t)' = {i \in 1..n : channel[i + 1].topic = t}
  BY <1>1 DEF About, n
<1>5. \A i \in 1..n : i \in About(t)' <=> i + 1 \in About(t)
  BY <1>1, <1>3, <1>4
<1>6. \A i \in About(t) : i # 1 => i - 1 \in About(t)' /\ i \in Nat
  BY <1>1, <1>3, <1>4
<1>7. About(t)' \subseteq 1..n /\ About(t) \subseteq 1..(n + 1)
  BY <1>3, <1>4
<1>8. 1 \in About(t) <=> r.topic = t
  BY <1>1, <1>3 DEF r
<1>9. CASE About(t)' # {}
  <2>1. PICK k \in 1..n : k \in About(t)' /\ k + 1 \in About(t)
    BY <1>5, <1>7, <1>9
  <2>2. ASSUME Comes(t, v) PROVE Comes(t, v)'
    <3>1. PICK i \in About(t) : channel[i].value = v /\ \A j \in About(t) : j <= i
      BY <2>1, <2>2 DEF Comes
    <3>2. i # 1 /\ i - 1 \in 1..n /\ i - 1 \in About(t)' /\ channel'[i - 1].value = v
      BY <1>1, <1>6, <1>7, <2>1, <3>1
    <3>3. \A j \in About(t)' : j <= i - 1
      BY <1>1, <1>5, <1>7, <3>1
    <3> QED BY <1>9, <3>2, <3>3 DEF Comes
  <2>3. ASSUME Comes(t, v)' PROVE Comes(t, v)
    <3>1. PICK i \in About(t)' : channel'[i].value = v /\ \A j \in About(t)' : j <= i
      BY <1>9, <2>3 DEF Comes
    <3>2. i + 1 \in About(t) /\ channel[i + 1].value = v
      BY <1>1, <1>5, <1>7, <3>1
    <3>3. \A j \in About(t) : j <= i + 1
      BY <1>1, <1>6, <1>7, <3>1
    <3> QED BY <3>2, <3>3 DEF Comes
  <2> QED BY <2>2, <2>3
<1>10. CASE About(t)' = {}
  <2>1. About(t) = IF r.topic = t THEN {1} ELSE {}
    BY <1>1, <1>6, <1>8, <1>10
  <2>2. retained'[t] = IF r.topic = t THEN r.value ELSE retained[t]
    BY <1>2 DEF TypeOK
  <2> QED BY <1>10, <2>1, <2>2 DEF Comes, r
<1> QED BY <1>9, <1>10

-----------------------------------------------------------------------------
(* NothingForgotten.                                                       *)

(* The task sleeps only when it has no connection, so what was believed    *)
(* sent is due again until the notice of the next ConnAck.                 *)
Remembered == (loop = "sleep" => link # "live") /\ NothingForgotten

(* A step keeps what is remembered.                                        *)
LEMMA RememberedStep == MqttTypes /\ Remembered /\ [Next]_vars => Remembered'
<1> SUFFICES ASSUME MqttTypes, Remembered, [Next]_vars PROVE Remembered'
  OBVIOUS
<1>0. TypeOK
  BY DEF MqttTypes
<1>1. ASSUME UNCHANGED <<last, phase, todo, link, loop, reconnected, channel, retained>>
      PROVE  Remembered'
  BY <1>1 DEF Remembered, NothingForgotten, RepublishDue, Comes, About
<1>2. ASSUME NEW t \in Topics, Change(t) PROVE Remembered'
  BY <1>1, <1>2 DEF Change, publisher, topics
<1>3. CASE StartSweep
  BY <1>3 DEF StartSweep, Remembered, NothingForgotten, RepublishDue, Comes, About, topics
<1>4. ASSUME NEW t \in Topics, Set(t) PROVE Remembered'
  <2>1. CASE last[t] = seen[t] /\ UNCHANGED <<last, channel>>
    BY <1>4, <2>1 DEF Set, Remembered, NothingForgotten, RepublishDue, Comes, About, topics
  <2>2. CASE Enqueue([topic |-> t, value |-> seen[t]]) /\ last' = [last EXCEPT ![t] = seen[t]]
    <3> DEFINE r == [topic |-> t, value |-> seen[t]]
    <3>1. r \in Requests /\ r.topic = t /\ r.value = seen[t]
      BY <1>0 DEF TypeOK, Requests
    <3>2. UNCHANGED retained
      BY <1>4 DEF Set, topics
    <3>3. Enqueue(r)
      BY <2>2
    <3> HIDE DEF r
    <3>4. \A u \in Topics : \A v : Comes(u, v)' <=> IF r.topic = u THEN r.value = v ELSE Comes(u, v)
      BY <1>0, <3>1, <3>2, <3>3, ComesAppended
    <3>5. \A u \in Topics : last'[u] = IF u = t THEN seen[t] ELSE last[u]
      BY <1>0, <2>2 DEF TypeOK
    <3>6. phase = "sweep" /\ UNCHANGED <<link, loop, reconnected>>
      BY <1>4 DEF Set
    <3> QED BY <3>1, <3>4, <3>5, <3>6 DEF Remembered, NothingForgotten, RepublishDue
  <2> QED BY <1>4, <2>1, <2>2 DEF Set
<1>5. CASE StartRepublish
  BY <1>5 DEF StartRepublish, Said, Remembered, NothingForgotten, RepublishDue, Comes, About, topics
<1>6. ASSUME NEW t \in Topics, Republish(t) PROVE Remembered'
  <2> DEFINE r == [topic |-> t, value |-> last[t]]
  <2>1. r \in Requests /\ r.topic = t /\ r.value = last[t]
    BY <1>6 DEF Republish, MqttTypes, Requests
  <2>2. Enqueue(r) /\ UNCHANGED <<last, retained, link, loop, reconnected>> /\ phase = "republish"
        /\ todo' = todo \ {t} /\ (todo' # {} => phase' = phase)
    BY <1>6 DEF Republish, Done, topics
  <2> HIDE DEF r
  <2>3. \A u \in Topics : \A v : Comes(u, v)' <=> IF r.topic = u THEN r.value = v ELSE Comes(u, v)
    BY <1>0, <2>1, <2>2, ComesAppended
  <2>4. \A u \in Topics : u # t => (u \in todo' <=> u \in todo)
    BY <2>2
  <2> QED BY <2>1, <2>2, <2>3, <2>4 DEF Remembered, NothingForgotten, RepublishDue
<1>7. CASE Online
  BY <1>7 DEF Online, Remembered, NothingForgotten, RepublishDue
<1>8. CASE Subscribe
  BY <1>8 DEF Subscribe, Remembered, NothingForgotten, RepublishDue
<1>9. CASE Connect \/ Refused \/ Broken \/ Wake
  BY <1>9 DEF Connect, Refused, Broken, Wake, Remembered, NothingForgotten, RepublishDue, Comes,
              About, publisher, topics
<1>10. CASE SendState \/ SendOnline \/ SendSubscribe
  <2>1. \A t \in Topics : \A v : Comes(t, v)' <=> Comes(t, v)
    BY <1>0, <1>10, ComesSent
  <2>2. UNCHANGED <<last, phase, todo, link, loop, reconnected>>
    BY <1>10 DEF SendState, SendOnline, SendSubscribe, Take, publisher
  <2> QED BY <2>1, <2>2 DEF Remembered, NothingForgotten, RepublishDue
<1>11. CASE SendLost
  BY <1>11 DEF SendLost, Take, Remembered, NothingForgotten, RepublishDue
<1>12. CASE BrokerStops \/ BrokerDrops
  BY <1>12 DEF BrokerStops, BrokerDrops, Sever, Remembered, NothingForgotten, RepublishDue
<1>13. CASE BrokerStarts
  BY <1>1, <1>13 DEF BrokerStarts, publisher, topics
<1>14. CASE UNCHANGED vars
  BY <1>1, <1>14 DEF vars, publisher, topics
<1> QED
  BY <1>2, <1>3, <1>4, <1>5, <1>6, <1>7, <1>8, <1>9, <1>10, <1>11, <1>12, <1>13, <1>14
     DEF Next, Sweep, Handler, Poll, Broker

(* What a daemon believes sent is at the broker, or on its way there, or   *)
(* due again, whatever is queued, lost and republished (Retained::set      *)
(* against Retained::republish and the ConnAck's notice).                  *)
THEOREM NothingForgottenAlways == Spec => []NothingForgotten
<1>1. Init => Remembered
  BY DEF Init, Remembered, NothingForgotten, RepublishDue
<1> QED BY <1>1, RememberedStep, MqttTypeCorrect, PTL DEF Spec, Remembered

-----------------------------------------------------------------------------
(* NeverStale.                                                             *)

(* A topic's values come in order: what the broker has, what the channel   *)
(* holds from its front, what was sent last, what a sweep has read and has *)
(* yet to send, what the state is.                                         *)
Sent(t, v) == last[t] # None /\ v <= last[t]
InOrder ==
    /\ \A t \in Topics : last[t] # None => last[t] <= state[t]
    /\ phase = "sweep" => \A t \in todo : /\ seen[t] <= state[t]
                                          /\ last[t] # None => last[t] <= seen[t]
    /\ \A t \in Topics : retained[t] # None => Sent(t, retained[t])
    /\ \A i \in 1..Len(channel), t \in Topics :
          channel[i].topic = t => /\ Sent(t, channel[i].value)
                                  /\ ~Older(channel[i].value, retained[t])
    /\ \A i, j \in 1..Len(channel) :
          channel[i].topic \in Topics /\ channel[i].topic = channel[j].topic /\ i <= j
              => channel[i].value <= channel[j].value

(* None is no value.                                                       *)
LEMMA NoneIsNone == None \in Nat /\ None \notin Values /\ \A v \in Payloads : v \in Nat
BY MqttAssumption DEF None, Values, Payloads

(* A step keeps the order.                                                 *)
LEMMA InOrderStep == MqttTypes /\ InOrder /\ [Next]_vars => InOrder'
<1> SUFFICES ASSUME MqttTypes, InOrder, [Next]_vars PROVE InOrder'
  OBVIOUS
<1>0. TypeOK
  BY DEF MqttTypes
<1> DEFINE n == Len(channel)
<1>a. /\ n \in Nat /\ \A i \in 1..n : channel[i] \in Requests
      /\ \A t \in Topics : /\ state[t] \in Values /\ seen[t] \in Values
                           /\ last[t] \in Payloads /\ retained[t] \in Payloads
  BY <1>0 DEF TypeOK
<1>b. \A i \in 1..n : channel[i].value \in Values
  BY <1>a DEF Requests
<1>1. ASSUME UNCHANGED <<state, seen, last, phase, todo, channel, retained>> PROVE InOrder'
  BY <1>1 DEF InOrder, Sent
<1>2. ASSUME NEW t \in Topics, Change(t) PROVE InOrder'
  <2>1. \A u \in Topics : state[u] <= state'[u] /\ state'[u] \in Nat
    BY <1>0, <1>2, MqttAssumption DEF Change, TypeOK, Values
  <2>2. \A u \in Topics : \A v \in Nat : v <= state[u] => v <= state'[u]
    BY <1>a, <2>1, NoneIsNone, MqttAssumption DEF Values
  <2>3. \A u \in Topics : last[u] \in Nat /\ seen[u] \in Nat
    BY <1>a, NoneIsNone DEF Payloads
  <2> QED
    BY <1>0, <1>2, <2>2, <2>3 DEF Change, InOrder, Sent, Older, publisher, topics, TypeOK
<1>3. CASE StartSweep
  BY <1>0, <1>3, <1>a, MqttAssumption DEF StartSweep, InOrder, Sent, Older, topics, Values
<1>4. ASSUME NEW t \in Topics, NEW r \in Requests, Enqueue(r), r.topic = t,
             UNCHANGED <<state, seen, retained>>, todo' \subseteq todo,
             phase' = "sweep" => phase = "sweep" /\ t \notin todo',
             last' = [last EXCEPT ![t] = r.value], r.value <= state[t],
             last[t] # None => last[t] <= r.value
      PROVE  InOrder'
  <2>1. /\ Len(channel') = n + 1
        /\ \A i \in 1..n : channel'[i] = channel[i]
        /\ channel'[n + 1] = r
    BY <1>0, <1>4, Appended DEF TypeOK, Enqueue
  <2> HIDE DEF n
  <2>2. r.value \in Values /\ r.value # None
    BY NoneIsNone DEF Requests
  <2>3. /\ last'[t] = r.value
        /\ \A u \in Topics : u # t => last'[u] = last[u]
    BY <1>0, <1>4 DEF TypeOK
  <2>4. \A u \in Topics : last'[u] # None => last'[u] <= state'[u]
    BY <1>4, <2>3 DEF InOrder
  <2>5. phase' = "sweep" => \A u \in todo' : /\ seen'[u] <= state'[u]
                                             /\ last'[u] # None => last'[u] <= seen'[u]
    BY <1>0, <1>4, <2>3 DEF InOrder, TypeOK
  <2>6. ASSUME NEW u \in Topics, NEW v \in Payloads, Sent(u, v) PROVE Sent(u, v)'
    <3>1. CASE u = t
      BY <1>4, <1>a, <2>2, <2>3, <2>6, <3>1, NoneIsNone DEF Sent, Payloads
    <3>2. CASE u # t
      BY <2>3, <2>6, <3>2 DEF Sent
    <3> QED BY <3>1, <3>2
  <2>7. \A u \in Topics : retained'[u] # None => Sent(u, retained[u])'
    BY <1>4, <1>a, <2>6 DEF InOrder
  <2>8. Sent(t, r.value)'
    BY <2>2, <2>3, NoneIsNone DEF Sent, Payloads
  <2>9. ~Older(r.value, retained[t])
    BY <1>4, <1>a, <2>2, NoneIsNone DEF InOrder, Sent, Older, Payloads
  <2>10. \A i \in 1..Len(channel'), u \in Topics :
           channel'[i].topic = u => /\ Sent(u, channel[i].value)'
                                    /\ ~Older(channel'[i].value, retained'[u])
    <3> SUFFICES ASSUME NEW i \in 1..(n + 1), NEW u \in Topics, channel'[i].topic = u
                 PROVE  Sent(u, channel[i].value)' /\ ~Older(channel'[i].value, retained[u])
      BY <1>4, <2>1
    <3>1. CASE i = n + 1
      BY <1>4, <2>1, <2>8, <2>9, <3>1
    <3>2. CASE i # n + 1
      <4>1. i \in 1..n /\ channel'[i] = channel[i]
        BY <1>a, <2>1, <3>2
      <4>2. Sent(u, channel[i].value) /\ ~Older(channel[i].value, retained[u])
        BY <4>1 DEF InOrder, n
      <4>3. Sent(u, channel[i].value)'
        <5> DEFINE v == channel[i].value
        <5>1. v \in Payloads /\ Sent(u, v)
          BY <1>b, <4>1, <4>2 DEF Payloads
        <5>2. channel'[i].value = v
          BY <4>1
        <5> HIDE DEF v
        <5>3. last'[u] # None /\ v <= last'[u]
          BY <1>4, <1>a, <2>2, <2>3, <5>1, NoneIsNone DEF Sent, Payloads
        <5> QED BY <5>2, <5>3 DEF Sent, v
      <4> QED BY <4>1, <4>2, <4>3
    <3> QED BY <3>1, <3>2
  <2>11. \A i, j \in 1..Len(channel') :
           channel'[i].topic \in Topics /\ channel'[i].topic = channel'[j].topic /\ i <= j
               => channel'[i].value <= channel'[j].value
    <3> SUFFICES ASSUME NEW i \in 1..(n + 1), NEW j \in 1..(n + 1), i <= j,
                        channel'[i].topic \in Topics, channel'[i].topic = channel'[j].topic
                 PROVE  channel'[i].value <= channel'[j].value
      BY <2>1
    <3>1. CASE j = n + 1 /\ i = n + 1
      BY <2>1, <2>2, <3>1, NoneIsNone, MqttAssumption DEF Values
    <3>2. CASE j = n + 1 /\ i # n + 1
      <4>1. i \in 1..n /\ channel'[i] = channel[i] /\ channel[i].topic = t
        BY <1>4, <1>a, <2>1, <3>2
      <4>2. Sent(t, channel[i].value)
        BY <4>1 DEF InOrder, n
      <4> QED
        BY <1>4, <1>a, <1>b, <2>1, <2>2, <3>2, <4>1, <4>2, NoneIsNone DEF Sent, Payloads
    <3>3. CASE j # n + 1
      <4>1. i \in 1..n /\ j \in 1..n
        BY <1>a, <3>3
      <4> QED BY <2>1, <4>1 DEF InOrder, n
    <3> QED BY <3>1, <3>2, <3>3
  <2>12. (\A i \in 1..Len(channel), u \in Topics :
            channel[i].topic = u => /\ Sent(u, channel[i].value)
                                    /\ ~Older(channel[i].value, retained[u]))'
    BY <2>10 DEF Sent, Older
  <2> QED BY <2>4, <2>5, <2>7, <2>11, <2>12 DEF InOrder
<1>5. ASSUME NEW t \in Topics, Set(t) PROVE InOrder'
  <2>1. CASE last[t] = seen[t] /\ UNCHANGED <<last, channel>>
    BY <1>5, <2>1 DEF Set, Done, InOrder, Sent, topics
  <2>2. CASE last[t] # seen[t] /\ Enqueue([topic |-> t, value |-> seen[t]])
             /\ last' = [last EXCEPT ![t] = seen[t]]
    <3> DEFINE r == [topic |-> t, value |-> seen[t]]
    <3>1. r \in Requests /\ r.topic = t /\ r.value = seen[t] /\ Enqueue(r)
      BY <1>a, <2>2 DEF Requests
    <3> HIDE DEF r
    <3>2. /\ UNCHANGED <<state, seen, retained>> /\ phase = "sweep" /\ t \in todo
          /\ todo' = todo \ {t}
      BY <1>5 DEF Set, Done, topics
    <3> QED BY <1>4, <2>2, <3>1, <3>2 DEF InOrder
  <2> QED BY <1>5, <2>1, <2>2 DEF Set
<1>6. CASE StartRepublish
  BY <1>6 DEF StartRepublish, InOrder, Sent, topics
<1>7. ASSUME NEW t \in Topics, Republish(t) PROVE InOrder'
  <2> DEFINE r == [topic |-> t, value |-> last[t]]
  <2>1. last[t] \in Values /\ last[t] # None
    BY <1>7, NoneIsNone DEF Republish, MqttTypes
  <2>2. r \in Requests /\ r.topic = t /\ r.value = last[t] /\ Enqueue(r)
    BY <1>7, <2>1 DEF Requests, Republish
  <2> HIDE DEF r
  <2>3. /\ UNCHANGED <<state, seen, last, retained>> /\ phase = "republish"
        /\ todo' = todo \ {t} /\ phase' # "sweep"
    BY <1>7 DEF Republish, Done, topics
  <2>4. last' = [last EXCEPT ![t] = r.value]
    BY <1>0, <2>2, <2>3 DEF TypeOK
  <2>5. r.value <= state[t] /\ last[t] <= r.value
    BY <2>1, <2>2, MqttAssumption DEF Values, InOrder
  <2> QED BY <1>4, <2>2, <2>3, <2>4, <2>5
<1>8. CASE Handler
  <2>1. PICK r \in Requests : Enqueue(r) /\ r.topic \notin Topics
    <3>1. /\ Greeting("status") \in Requests /\ Greeting("cmd") \in Requests
          /\ Greeting("status").topic \notin Topics /\ Greeting("cmd").topic \notin Topics
      BY MqttAssumption DEF Greeting, Requests, Values
    <3> QED BY <1>8, <3>1 DEF Handler, Online, Subscribe
  <2>2. UNCHANGED <<state, phase, todo, seen, last, retained>>
    BY <1>8 DEF Handler, Online, Subscribe, publisher, topics
  <2>3. /\ Len(channel') = n + 1
        /\ \A i \in 1..n : channel'[i] = channel[i]
        /\ channel'[n + 1] = r
    BY <1>0, <2>1, Appended DEF TypeOK, Enqueue
  <2>4. \A i \in 1..(n + 1) : channel'[i].topic \in Topics => i \in 1..n
    BY <1>a, <2>1, <2>3
  <2> HIDE DEF n
  <2>5. \A i \in 1..Len(channel'), t \in Topics :
          channel'[i].topic = t => i \in 1..n /\ channel'[i] = channel[i]
    BY <2>3, <2>4
  <2>6. \A i \in 1..n, t \in Topics :
          channel[i].topic = t => /\ Sent(t, channel[i].value)
                                  /\ ~Older(channel[i].value, retained[t])
    BY DEF InOrder, n
  <2>7. \A i, j \in 1..n :
          channel[i].topic \in Topics /\ channel[i].topic = channel[j].topic /\ i <= j
              => channel[i].value <= channel[j].value
    BY DEF InOrder, n
  <2>8. \A i \in 1..Len(channel'), t \in Topics :
          channel'[i].topic = t => /\ Sent(t, channel[i].value)'
                                   /\ ~Older(channel'[i].value, retained'[t])
    BY <2>2, <2>5, <2>6 DEF Sent
  <2>9. \A i, j \in 1..Len(channel') :
          channel'[i].topic \in Topics /\ channel'[i].topic = channel'[j].topic /\ i <= j
              => channel'[i].value <= channel'[j].value
    BY <2>5, <2>7
  <2> QED BY <2>2, <2>8, <2>9 DEF InOrder, Sent
<1>9. CASE Connect \/ Refused \/ Wake
  BY <1>1, <1>9 DEF Connect, Refused, Wake, publisher, topics
<1>10. CASE Broken
  <2>1. channel' = <<>> /\ UNCHANGED <<state, phase, todo, seen, last, retained>>
    BY <1>10 DEF Broken, publisher, topics
  <2> QED BY <2>1 DEF InOrder, Sent
<1>11. CASE SendState \/ SendOnline \/ SendSubscribe \/ SendLost
  <2> DEFINE m == Len(channel')
  <2>1. channel # <<>> /\ channel' = Tail(channel) /\ channel \in Seq(Requests)
        /\ UNCHANGED <<state, phase, todo, seen, last>>
    BY <1>0, <1>11 DEF SendState, SendOnline, SendSubscribe, SendLost, Take, publisher, TypeOK
  <2>2. /\ m \in Nat /\ n = m + 1 /\ Head(channel) = channel[1]
        /\ \A i \in 1..m : channel'[i] = channel[i + 1]
    BY <2>1, Tailed
  <2> HIDE DEF m, n
  <2>3. \A i \in 1..m : i + 1 \in 1..n /\ 1 <= i + 1
    BY <2>2
  <2>4. 1 \in 1..n
    BY <2>2
  <2>5. \A t \in Topics : \/ retained'[t] = retained[t]
                          \/ retained'[t] = channel[1].value /\ channel[1].topic = t
    BY <1>0, <1>11, <2>2 DEF SendState, SendOnline, SendSubscribe, SendLost, topics, TypeOK
  <2>6. \A i \in 1..n, t \in Topics :
          channel[i].topic = t => /\ Sent(t, channel[i].value)
                                  /\ ~Older(channel[i].value, retained[t])
    BY DEF InOrder, n
  <2>7. \A i, j \in 1..n :
          channel[i].topic \in Topics /\ channel[i].topic = channel[j].topic /\ i <= j
              => channel[i].value <= channel[j].value
    BY DEF InOrder, n
  <2>8. \A t \in Topics : retained'[t] # None => Sent(t, retained'[t])
    BY <2>4, <2>5, <2>6 DEF InOrder
  <2>9. ASSUME NEW i \in 1..m, NEW t \in Topics, channel'[i].topic = t
        PROVE  Sent(t, channel'[i].value) /\ ~Older(channel'[i].value, retained'[t])
    <3>1. /\ channel'[i] = channel[i + 1] /\ i + 1 \in 1..n
          /\ Sent(t, channel[i + 1].value) /\ ~Older(channel[i + 1].value, retained[t])
      BY <2>2, <2>3, <2>6, <2>9
    <3>2. CASE retained'[t] = retained[t]
      BY <3>1, <3>2
    <3>3. CASE retained'[t] = channel[1].value /\ channel[1].topic = t
      <4>1. channel[1].value <= channel[i + 1].value
        BY <2>3, <2>4, <2>7, <2>9, <3>1, <3>3
      <4>2. channel[1].value \in Nat /\ channel[i + 1].value \in Nat
        BY <1>b, <2>4, <3>1, MqttAssumption DEF n, Values
      <4> QED BY <3>1, <3>3, <4>1, <4>2 DEF Older
    <3> QED BY <2>5, <3>2, <3>3
  <2>10. \A i, j \in 1..m :
           channel'[i].topic \in Topics /\ channel'[i].topic = channel'[j].topic /\ i <= j
              => channel'[i].value <= channel'[j].value
    <3> SUFFICES ASSUME NEW i \in 1..m, NEW j \in 1..m, channel'[i].topic \in Topics,
                        channel'[i].topic = channel'[j].topic, i <= j
                 PROVE  channel'[i].value <= channel'[j].value
      OBVIOUS
    <3>1. i + 1 <= j + 1
      OBVIOUS
    <3> QED BY <2>2, <2>3, <2>7, <3>1
  <2> QED BY <2>1, <2>8, <2>9, <2>10 DEF InOrder, Sent, m
<1>12. CASE BrokerStops
  <2>1. UNCHANGED <<state, phase, todo, seen, last, channel>> /\ \A t \in Topics : retained'[t] = None
    BY <1>12 DEF BrokerStops, Sever, publisher, Unsaid
  <2> QED BY <2>1 DEF InOrder, Sent, Older
<1>13. CASE BrokerStarts \/ BrokerDrops
  BY <1>1, <1>13 DEF BrokerStarts, BrokerDrops, Sever, publisher, topics
<1>14. CASE UNCHANGED vars
  BY <1>1, <1>14 DEF vars, publisher, topics
<1> QED
  BY <1>2, <1>3, <1>5, <1>6, <1>7, <1>8, <1>9, <1>10, <1>11, <1>12, <1>13, <1>14
     DEF Next, Sweep, Poll, Broker

(* While the order holds, no step takes a topic back.                      *)
LEMMA NeverBack ==
  MqttTypes /\ InOrder /\ [Next]_vars
      => (broker' => \A t \in Topics : ~Older(retained'[t], retained[t]))
<1> SUFFICES ASSUME MqttTypes, InOrder, [Next]_vars, broker', NEW t \in Topics,
                    Older(retained'[t], retained[t])
             PROVE  FALSE
  OBVIOUS
<1>1. retained[t] \in Nat
  BY NoneIsNone DEF MqttTypes, TypeOK
<1>2. retained'[t] # retained[t]
  BY <1>1 DEF Older
<1>3. SendState
  BY <1>2 DEF Next, Sweep, Handler, Poll, Broker, Change, StartSweep, Set, StartRepublish,
              Republish, Online, Subscribe, Connect, Refused, Broken, Wake, SendOnline,
              SendSubscribe, SendLost, BrokerStops, BrokerStarts, BrokerDrops, topics, vars
<1>4. channel \in Seq(Requests) /\ channel # <<>> /\ retained \in [Topics -> Payloads]
  BY <1>3 DEF SendState, Take, MqttTypes, TypeOK
<1>5. 1 \in 1..Len(channel) /\ Head(channel) = channel[1]
  BY <1>4, Tailed
<1>6. channel[1].topic = t /\ retained'[t] = channel[1].value
  BY <1>2, <1>3, <1>4, <1>5 DEF SendState
<1> QED BY <1>5, <1>6 DEF InOrder

(* The broker never goes back to an older value of a topic while it runs,  *)
(* however sweeps, republishes and losses fall into each other (the one    *)
(* channel of AsyncClient and Retained::republish).                        *)
THEOREM NeverStaleAlways == Spec => NeverStale
<1>1. Init => InOrder
  <2>1. ASSUME Init PROVE channel = <<>> /\ phase = "idle" /\ \A t \in Topics : last[t] = None /\ retained[t] = None
    BY <2>1 DEF Init, Unsaid
  <2> QED BY <2>1 DEF InOrder
<1>2. Spec => []InOrder
  BY <1>1, InOrderStep, MqttTypeCorrect, PTL DEF Spec
<1> QED BY <1>2, NeverBack, MqttTypeCorrect, PTL DEF Spec, NeverStale

-----------------------------------------------------------------------------
(* iod's serial ports.                                                     *)

Rates == Bauds \cup {Default}
Wishes == [Port!Line -> BOOLEAN]
Sessions == [baud : Rates, want : Wishes, clients : Int, reopen : Seq(Rates),
             stop : BOOLEAN, pump : {"open", "hung", "gone"}]

Shown == [baud : Rates, viewers : Int, jack : {"none", "ir", "serial"}]

(* What the sessions are, and whom the hub and the terminals know.         *)
PortTypes ==
    /\ sess \in Seq(Sessions) /\ hub \in 0..Len(sess)
    /\ watching \in [Viewers -> 0..Len(sess)]
    /\ published \in Shown
    /\ combo \in BOOLEAN /\ other \in BOOLEAN /\ foreign \in BOOLEAN /\ lines \in Wishes

(* A pump that holds the port and has not been told to stop is the hub's;  *)
(* no file is open on a port that is gone.                                 *)
OnePump ==
    /\ \A s \in 1..Len(sess) : sess[s].pump # "gone" /\ ~sess[s].stop => s = hub
    /\ \A s \in 1..Len(sess) : sess[s].pump = "open" => there
    /\ other => there

(* A port that is no jack's has one session, which nobody stops, and its   *)
(* lines are as that one wants them unless another program's open has      *)
(* raised them since.                                                      *)
LinesKnown ==
    ~combo => /\ hub = Len(sess) /\ hub \in 0..1
              /\ hub = 1 => /\ ~sess[1].stop
                            /\ sess[1].pump = "open" /\ ~foreign => lines = sess[1].want

PortInv == PortTypes /\ OnePump /\ LinesKnown

(* The session a caller gets: the hub's, or a new one.                     *)
LEMMA SessionGot ==
  ASSUME PortInv, NEW b \in Rates, NEW m, Port!session(b, m).s # 0
  PROVE  LET r == Port!session(b, m) IN
         /\ r = [s |-> r.s, sess |-> r.sess, published |-> r.published, rate |-> r.rate,
                 lines |-> r.lines, foreign |-> r.foreign]
         /\ r.s \in 1..Len(r.sess) /\ r.sess \in Seq(Sessions) /\ Len(r.sess) >= Len(sess)
         /\ r.published \in Shown
         /\ r.lines \in Wishes /\ r.foreign \in BOOLEAN
         /\ \A s \in 1..Len(r.sess) : r.sess[s].pump # "gone" /\ ~r.sess[s].stop => s = r.s
         /\ \A s \in 1..Len(r.sess) : r.sess[s].pump = "open" => there
         /\ ~combo => /\ r.s = 1 /\ Len(r.sess) = 1 /\ ~r.sess[1].stop
                      /\ r.sess[1].pump = "open" /\ ~r.foreign => r.lines = r.sess[1].want
<1> USE DEF Shown
<1> DEFINE r == Port!session(b, m)
<1>1. CASE hub # 0
  <2>1. r = [s |-> hub, sess |-> sess, published |-> published, rate |-> rate,
             lines |-> lines, foreign |-> foreign]
    BY <1>1 DEF Port!session
  <2>0. r = [s |-> r.s, sess |-> r.sess, published |-> r.published, rate |-> r.rate,
             lines |-> r.lines, foreign |-> r.foreign]
    BY <2>1
  <2> HIDE DEF r
  <2>2. r.s = hub /\ r.sess = sess /\ r.published = published /\ r.lines = lines
        /\ r.foreign = foreign
    BY <2>1
  <2>3. hub \in 1..Len(sess) /\ Len(sess) \in Nat
    BY <1>1 DEF PortInv, PortTypes
  <2>4. /\ sess \in Seq(Sessions) /\ lines \in Wishes /\ foreign \in BOOLEAN
        /\ published \in Shown
    BY DEF PortInv, PortTypes
  <2>5. /\ \A s \in 1..Len(sess) : sess[s].pump # "gone" /\ ~sess[s].stop => s = hub
        /\ \A s \in 1..Len(sess) : sess[s].pump = "open" => there
    BY DEF PortInv, OnePump
  <2>6. ~combo => /\ hub = 1 /\ Len(sess) = 1 /\ ~sess[1].stop
                  /\ sess[1].pump = "open" /\ ~foreign => lines = sess[1].want
    BY <1>1, <2>3 DEF PortInv, LinesKnown
  <2> QED BY <2>0, <2>2, <2>3, <2>4, <2>5, <2>6 DEF r
<1>2. CASE hub = 0
  <2> DEFINE f == Port!Fresh(b)
  <2>1. Port!CanOpen(m)
    BY <1>2 DEF Port!session
  <2>2. r = [s |-> Len(sess) + 1, sess |-> Append(sess, f),
             published |-> [published EXCEPT !.baud = b, !.viewers = 0],
             rate |-> Port!open_serial(b), lines |-> Port!LinesOpened, foreign |-> FALSE]
    BY <1>2, <2>1 DEF Port!session
  <2>3. f \in Sessions /\ f.want = Port!Raised /\ ~f.stop
    BY DEF Port!Fresh, Sessions, Port!Raised, Wishes
  <2>0. r = [s |-> r.s, sess |-> r.sess, published |-> r.published, rate |-> r.rate,
             lines |-> r.lines, foreign |-> r.foreign]
    BY <2>2
  <2> HIDE DEF r, f
  <2>4. /\ r.s = Len(sess) + 1 /\ r.sess = Append(sess, f) /\ r.lines = Port!LinesOpened
        /\ r.foreign = FALSE
        /\ r.published = [published EXCEPT !.baud = b, !.viewers = 0]
    BY <2>2
  <2>5. /\ r.sess \in Seq(Sessions) /\ Len(sess) \in Nat /\ Len(r.sess) = Len(sess) + 1
        /\ \A i \in 1..Len(sess) : r.sess[i] = sess[i]
        /\ r.sess[Len(sess) + 1] = f
    BY <2>3, <2>4, Appended DEF PortInv, PortTypes
  <2>6. r.published \in Shown
    <3>1. published \in Shown
      BY DEF PortInv, PortTypes
    <3> DEFINE p == [published EXCEPT !.baud = b]
    <3>2. p \in Shown
      BY <3>1
    <3>3. r.published = [p EXCEPT !.viewers = 0]
      BY <2>4
    <3> HIDE DEF p
    <3> QED BY <3>2, <3>3
  <2>7. r.lines \in Wishes /\ r.foreign \in BOOLEAN
    BY <2>4 DEF PortInv, PortTypes, Port!LinesOpened, Port!Raised, Wishes
  <2>8. there
    BY <2>1 DEF Port!CanOpen
  <2>9. \A s \in 1..Len(sess) : ~(sess[s].pump # "gone" /\ ~sess[s].stop)
    BY <1>2 DEF PortInv, OnePump
  <2>10. ~combo => Len(sess) = 0 /\ r.lines = Port!Raised
    BY <1>2, <2>4 DEF PortInv, LinesKnown, PortTypes, Port!LinesOpened
  <2>11. \A s \in 1..Len(r.sess) : s \in 1..Len(sess) \/ s = Len(sess) + 1
    BY <2>5
  <2>12. \A s \in 1..Len(r.sess) : r.sess[s].pump # "gone" /\ ~r.sess[s].stop => s = r.s
    BY <2>4, <2>5, <2>9, <2>11
  <2>13. ~combo => /\ r.s = 1 /\ Len(r.sess) = 1 /\ ~r.sess[1].stop
                   /\ r.sess[1].pump = "open" /\ ~r.foreign => r.lines = r.sess[1].want
    BY <2>3, <2>4, <2>5, <2>10
  <2>14. r.s \in 1..Len(r.sess) /\ Len(r.sess) >= Len(sess)
    BY <2>4, <2>5
  <2> QED BY <2>0, <2>5, <2>6, <2>7, <2>8, <2>12, <2>13, <2>14 DEF r
<1> QED BY <1>1, <1>2

(* A caller may do to its session what leaves the pumps alone, and to the  *)
(* lines what the session wants.                                           *)
LEMMA SessionUsed ==
  ASSUME PortInv, NEW b \in Rates, NEW m, Port!session(b, m).s # 0,
         UNCHANGED <<combo, there, other>>,
         hub' = Port!session(b, m).s, sess' \in Seq(Sessions),
         Len(sess') = Len(Port!session(b, m).sess),
         \A s \in 1..Len(sess') : /\ sess'[s].pump = Port!session(b, m).sess[s].pump
                                  /\ sess'[s].stop = Port!session(b, m).sess[s].stop,
         watching' \in [Viewers -> 0..Len(sess')], published' \in Shown, lines' \in Wishes,
         foreign' \in BOOLEAN,
         ~combo /\ sess'[1].pump = "open" /\ ~foreign' => lines' = sess'[1].want
  PROVE  PortInv'
<1> DEFINE r == Port!session(b, m)
<1>1. /\ r.s \in 1..Len(r.sess)
      /\ \A s \in 1..Len(r.sess) : r.sess[s].pump # "gone" /\ ~r.sess[s].stop => s = r.s
      /\ \A s \in 1..Len(r.sess) : r.sess[s].pump = "open" => there
      /\ ~combo => r.s = 1 /\ Len(r.sess) = 1 /\ ~r.sess[1].stop
  BY SessionGot
<1>2. hub' = r.s /\ Len(sess') = Len(r.sess) /\ Len(sess') \in Nat
  OBVIOUS
<1>3. \A s \in 1..Len(sess') : sess'[s].pump = r.sess[s].pump /\ sess'[s].stop = r.sess[s].stop
  OBVIOUS
<1> HIDE DEF r
<1>4. PortTypes'
  BY <1>1, <1>2 DEF PortInv, PortTypes
<1>5. OnePump'
  BY <1>1, <1>2, <1>3 DEF PortInv, OnePump
<1>6. LinesKnown'
  BY <1>1, <1>2, <1>3 DEF LinesKnown
<1> QED BY <1>4, <1>5, <1>6 DEF PortInv

(* One session of a list is set.                                           *)
LEMMA SessionSet ==
  ASSUME NEW q \in Seq(Sessions), NEW i \in 1..Len(q), NEW x \in Sessions
  PROVE  /\ [q EXCEPT ![i] = x] \in Seq(Sessions)
         /\ Len([q EXCEPT ![i] = x]) = Len(q)
         /\ \A j \in 1..Len(q) : [q EXCEPT ![i] = x][j] = IF j = i THEN x ELSE q[j]
OBVIOUS

(* Longer lists of sessions keep the terminals' places.                    *)
LEMMA StillWatching ==
  ASSUME PortInv, NEW n \in Nat, n >= Len(sess)
  PROVE  watching \in [Viewers -> 0..n] /\ Len(sess) \in Nat
<1>1. Len(sess) \in Nat /\ 0..Len(sess) \subseteq 0..n
  BY DEF PortInv, PortTypes
<1> QED BY <1>1 DEF PortInv, PortTypes

(* The commands that use a session keep the invariant.                     *)
LEMMA SessionCommands ==
  ASSUME PortInv,
         \/ Port!serial_write \/ (\E b \in Bauds : Port!serial_baud(b))
         \/ (\E l \in Port!Line, on \in BOOLEAN : Port!serial_line(l, on))
         \/ (\E v \in Viewers : Port!ws_serial(v)) \/ Port!JackSerial
  PROVE  PortInv'
<1>1. Default \in Rates /\ published.baud \in Rates
  BY DEF Rates, PortInv, PortTypes, Shown
<1>2. CASE Port!serial_write
  <2> DEFINE r == Port!session(Default, mode)
  <2>1. r.s # 0 /\ Port!Becomes(r) /\ UNCHANGED <<combo, there, other, watching>>
    BY <1>2 DEF Port!serial_write
  <2>2. hub' = r.s /\ sess' = r.sess /\ published' = r.published /\ lines' = r.lines
        /\ foreign' = r.foreign
    BY <2>1 DEF Port!Becomes
  <2>3. /\ r.sess \in Seq(Sessions) /\ Len(r.sess) \in Nat /\ Len(r.sess) >= Len(sess)
        /\ r.published \in Shown /\ r.lines \in Wishes /\ r.foreign \in BOOLEAN
        /\ ~combo /\ r.sess[1].pump = "open" /\ ~r.foreign => r.lines = r.sess[1].want
    BY <1>1, <2>1, SessionGot
  <2>4. watching' \in [Viewers -> 0..Len(sess')]
    BY <2>1, <2>2, <2>3, StillWatching
  <2> QED BY <1>1, <2>1, <2>2, <2>3, <2>4, SessionUsed
<1>3. ASSUME NEW b \in Bauds, Port!serial_baud(b) PROVE PortInv'
  <2> DEFINE r == Port!session(Default, mode)
             ss == [r.sess EXCEPT ![r.s].baud = b, ![r.s].reopen = Append(@, b)]
  <2>1. r.s # 0 /\ UNCHANGED <<combo, there, other, watching>>
    BY <1>3 DEF Port!serial_baud
  <2>2. /\ r = [s |-> r.s, sess |-> r.sess, published |-> r.published, rate |-> r.rate,
                lines |-> r.lines, foreign |-> r.foreign]
        /\ r.s \in 1..Len(r.sess)
        /\ r.sess \in Seq(Sessions) /\ Len(r.sess) \in Nat /\ Len(r.sess) >= Len(sess)
        /\ r.published \in Shown /\ r.lines \in Wishes /\ r.foreign \in BOOLEAN
        /\ ~combo /\ r.sess[1].pump = "open" /\ ~r.foreign => r.lines = r.sess[1].want
    BY <1>1, <2>1, SessionGot
  <2>3. Port!Becomes([r EXCEPT !.sess[r.s].baud = b, !.sess[r.s].reopen = Append(@, b),
                               !.published.baud = b])
    BY <1>3 DEF Port!serial_baud
  <2> HIDE DEF r
  <2>4. /\ hub' = r.s /\ sess' = ss
        /\ published' = [r.published EXCEPT !.baud = b] /\ lines' = r.lines
        /\ foreign' = r.foreign
    BY <2>2, <2>3 DEF Port!Becomes
  <2> DEFINE y == r.sess[r.s]
             x == [y EXCEPT !.baud = b, !.reopen = Append(@, b)]
  <2>5. y \in Sessions
    BY <2>2
  <2>6. x \in Sessions /\ x.pump = y.pump /\ x.stop = y.stop /\ x.want = y.want
    <3> DEFINE z == [y EXCEPT !.baud = b]
    <3>1. z \in Sessions /\ z.pump = y.pump /\ z.stop = y.stop /\ z.want = y.want
      BY <2>5 DEF Sessions, Rates
    <3>2. x = [z EXCEPT !.reopen = Append(z.reopen, b)]
      BY <2>5 DEF Sessions
    <3> HIDE DEF z, y, x
    <3>3. Append(z.reopen, b) \in Seq(Rates)
      BY <3>1 DEF Sessions, Rates
    <3> QED BY <3>1, <3>2, <3>3 DEF Sessions
  <2>7. ss = [r.sess EXCEPT ![r.s] = x]
    BY <2>2, <2>5 DEF Sessions
  <2> HIDE DEF x, ss
  <2>8. /\ ss \in Seq(Sessions) /\ Len(ss) = Len(r.sess)
        /\ \A j \in 1..Len(ss) : ss[j] = IF j = r.s THEN x ELSE r.sess[j]
    BY <2>2, <2>6, <2>7, SessionSet
  <2>9. \A j \in 1..Len(ss) : /\ ss[j].pump = r.sess[j].pump /\ ss[j].stop = r.sess[j].stop
                              /\ ss[j].want = r.sess[j].want
    BY <2>6, <2>8
  <2>10. published' \in Shown
    BY <2>2, <2>4 DEF Shown, Rates
  <2>11. watching' \in [Viewers -> 0..Len(sess')]
    BY <2>1, <2>2, <2>4, <2>8, StillWatching
  <2>12. ~combo /\ sess'[1].pump = "open" /\ ~foreign' => lines' = sess'[1].want
    BY <2>2, <2>4, <2>8, <2>9
  <2> QED BY <1>1, <2>1, <2>2, <2>4, <2>8, <2>9, <2>10, <2>11, <2>12, SessionUsed DEF r
<1>4. ASSUME NEW l \in Port!Line, NEW on \in BOOLEAN, Port!serial_line(l, on) PROVE PortInv'
  <2> DEFINE r == Port!session(Default, mode)
             w == [r.sess[r.s].want EXCEPT ![l] = on]
             heard == there /\ Port!Open(r.sess, other)
  <2>1. r.s # 0 /\ UNCHANGED <<combo, there, other, watching>>
    BY <1>4 DEF Port!serial_line
  <2>2. /\ r = [s |-> r.s, sess |-> r.sess, published |-> r.published, rate |-> r.rate,
                lines |-> r.lines, foreign |-> r.foreign]
        /\ r.s \in 1..Len(r.sess)
        /\ r.sess \in Seq(Sessions) /\ Len(r.sess) \in Nat /\ Len(r.sess) >= Len(sess)
        /\ r.published \in Shown /\ r.lines \in Wishes /\ r.foreign \in BOOLEAN
        /\ \A i \in 1..Len(r.sess) : r.sess[i].pump = "open" => there
        /\ ~combo => r.s = 1
    BY <1>1, <2>1, SessionGot
  <2>3. Port!Becomes([r EXCEPT !.sess[r.s].want[l] = on,
                               !.lines = IF heard THEN w ELSE @,
                               !.foreign = @ /\ ~heard])
    BY <1>4 DEF Port!serial_line
  <2> HIDE DEF r
  <2>4. /\ hub' = r.s /\ sess' = [r.sess EXCEPT ![r.s].want[l] = on]
        /\ published' = r.published /\ lines' = IF heard THEN w ELSE r.lines
        /\ foreign' = (r.foreign /\ ~heard)
    BY <2>2, <2>3 DEF Port!Becomes
  <2> DEFINE y == r.sess[r.s]
             x == [y EXCEPT !.want = w]
  <2>5. y \in Sessions
    BY <2>2
  <2>6. x \in Sessions /\ x.pump = y.pump /\ x.stop = y.stop /\ x.want = w /\ w \in Wishes
    BY <2>5 DEF Sessions, Wishes
  <2>7. sess' = [r.sess EXCEPT ![r.s] = x]
    BY <2>2, <2>4, <2>5 DEF Sessions
  <2> HIDE DEF x, w
  <2>8. /\ sess' \in Seq(Sessions) /\ Len(sess') = Len(r.sess)
        /\ \A j \in 1..Len(sess') : sess'[j] = IF j = r.s THEN x ELSE r.sess[j]
    BY <2>2, <2>6, <2>7, SessionSet
  <2>9. \A j \in 1..Len(sess') : sess'[j].pump = r.sess[j].pump /\ sess'[j].stop = r.sess[j].stop
    BY <2>6, <2>8
  <2>10. watching' \in [Viewers -> 0..Len(sess')]
    BY <2>1, <2>2, <2>8, StillWatching
  <2>11. ASSUME ~combo, sess'[1].pump = "open" PROVE lines' = sess'[1].want
    <3>1. r.s = 1 /\ r.sess[r.s].pump = "open" /\ sess'[1].want = w
      BY <2>2, <2>6, <2>8, <2>11
    <3>2. heard
      BY <2>2, <3>1 DEF Port!Open
    <3> QED BY <2>4, <3>1, <3>2
  <2>12. published' \in Shown /\ lines' \in Wishes /\ foreign' \in BOOLEAN
    BY <2>2, <2>4, <2>6
  <2> QED BY <1>1, <2>1, <2>2, <2>4, <2>8, <2>9, <2>10, <2>11, <2>12, SessionUsed DEF r
<1>5. ASSUME NEW v \in Viewers, Port!ws_serial(v) PROVE PortInv'
  <2> DEFINE r == Port!session(published.baud, mode)
             x == [r.sess[r.s] EXCEPT !.clients = @ + 1]
  <2>1. /\ r.s # 0 /\ UNCHANGED <<combo, there, other>>
        /\ watching' = [watching EXCEPT ![v] = r.s]
    BY <1>5 DEF Port!ws_serial
  <2>2. /\ r = [s |-> r.s, sess |-> r.sess, published |-> r.published, rate |-> r.rate,
                lines |-> r.lines, foreign |-> r.foreign]
        /\ r.s \in 1..Len(r.sess)
        /\ r.sess \in Seq(Sessions) /\ Len(r.sess) \in Nat /\ Len(r.sess) >= Len(sess)
        /\ r.published \in Shown /\ r.lines \in Wishes /\ r.foreign \in BOOLEAN
        /\ ~combo /\ r.sess[1].pump = "open" /\ ~r.foreign => r.lines = r.sess[1].want
    BY <1>1, <2>1, SessionGot
  <2>3. Port!Becomes([r EXCEPT !.sess[r.s].clients = @ + 1,
                               !.published.viewers = r.sess[r.s].clients + 1])
    BY <1>5 DEF Port!ws_serial
  <2> HIDE DEF r
  <2>4. /\ hub' = r.s /\ sess' = [r.sess EXCEPT ![r.s].clients = @ + 1]
        /\ published' = [r.published EXCEPT !.viewers = r.sess[r.s].clients + 1]
        /\ lines' = r.lines /\ foreign' = r.foreign
    BY <2>2, <2>3 DEF Port!Becomes
  <2>5. r.sess[r.s] \in Sessions
    BY <2>2
  <2>6. /\ x \in Sessions /\ x.pump = r.sess[r.s].pump /\ x.stop = r.sess[r.s].stop
        /\ x.want = r.sess[r.s].want
    BY <2>5 DEF Sessions
  <2>7. sess' = [r.sess EXCEPT ![r.s] = x]
    BY <2>2, <2>4, <2>5 DEF Sessions
  <2> HIDE DEF x
  <2>8. /\ sess' \in Seq(Sessions) /\ Len(sess') = Len(r.sess)
        /\ \A j \in 1..Len(sess') : sess'[j] = IF j = r.s THEN x ELSE r.sess[j]
    BY <2>2, <2>6, <2>7, SessionSet
  <2>9. \A j \in 1..Len(sess') : /\ sess'[j].pump = r.sess[j].pump /\ sess'[j].stop = r.sess[j].stop
                                 /\ sess'[j].want = r.sess[j].want
    BY <2>6, <2>8
  <2>10. watching' \in [Viewers -> 0..Len(sess')]
    <3>1. watching \in [Viewers -> 0..Len(sess')]
      BY <2>2, <2>8, StillWatching
    <3> QED BY <2>1, <2>2, <2>8, <3>1
  <2>11. published' \in Shown
    <3>1. r.sess[r.s].clients + 1 \in Int
      BY <2>5 DEF Sessions
    <3> QED BY <2>2, <2>4, <3>1 DEF Shown
  <2>12. ~combo /\ sess'[1].pump = "open" /\ ~foreign' => lines' = sess'[1].want
    BY <2>2, <2>4, <2>8, <2>9
  <2>13. lines' \in Wishes /\ foreign' \in BOOLEAN
    BY <2>2, <2>4
  <2>14. /\ hub' = r.s /\ r.s # 0 /\ UNCHANGED <<combo, there, other>>
         /\ sess' \in Seq(Sessions) /\ Len(sess') = Len(r.sess)
         /\ \A j \in 1..Len(sess') : sess'[j].pump = r.sess[j].pump /\ sess'[j].stop = r.sess[j].stop
    BY <2>1, <2>4, <2>8, <2>9
  <2> QED BY <1>1, <2>10, <2>11, <2>12, <2>13, <2>14, SessionUsed DEF r
<1>6. CASE Port!JackSerial
  <2> DEFINE r == Port!session(Default, "serial")
  <2>1. /\ combo /\ there /\ UNCHANGED <<combo, there, other, watching>>
        /\ hub' = r.s /\ sess' = r.sess /\ lines' = r.lines /\ foreign' = r.foreign
        /\ published' = [r.published EXCEPT !.jack = "serial"] \/ published' = r.published
    BY <1>6 DEF Port!JackSerial
  <2>2. r.s # 0
    <3>1. Port!CanOpen("serial") /\ Len(sess) \in Nat
      BY <2>1 DEF Port!CanOpen, PortInv, PortTypes
    <3> QED BY <3>1 DEF Port!session
  <2>3. /\ r.sess \in Seq(Sessions) /\ Len(r.sess) \in Nat /\ Len(r.sess) >= Len(sess)
        /\ r.published \in Shown /\ r.lines \in Wishes /\ r.foreign \in BOOLEAN
    BY <1>1, <2>2, SessionGot
  <2>4. watching' \in [Viewers -> 0..Len(sess')]
    BY <2>1, <2>3, StillWatching
  <2>5. published' \in Shown
    BY <2>1, <2>3 DEF Shown
  <2> QED BY <1>1, <2>1, <2>2, <2>3, <2>4, <2>5, SessionUsed
<1> QED BY <1>2, <1>3, <1>4, <1>5, <1>6

(* What changes sessions one at a time, and keeps their number, keeps the  *)
(* terminals' places.                                                      *)
LEMMA PortStep == PortInv /\ [Port!Next]_(Port!vars) => PortInv'
<1> SUFFICES ASSUME PortInv, [Port!Next]_(Port!vars) PROVE PortInv'
  OBVIOUS
<1>0. /\ sess \in Seq(Sessions) /\ Len(sess) \in Nat /\ hub \in 0..Len(sess)
      /\ watching \in [Viewers -> 0..Len(sess)] /\ published \in Shown
      /\ combo \in BOOLEAN /\ other \in BOOLEAN /\ foreign \in BOOLEAN
      /\ lines \in Wishes
      /\ \A s \in 1..Len(sess) : sess[s] \in Sessions
  BY DEF PortInv, PortTypes
<1>1. ASSUME UNCHANGED <<combo, there, other, hub, lines, foreign>>, published' \in Shown,
             sess' \in Seq(Sessions), Len(sess') = Len(sess),
             watching' \in [Viewers -> 0..Len(sess)],
             \A s \in 1..Len(sess) : /\ sess'[s].pump = sess[s].pump
                                     /\ sess'[s].stop = sess[s].stop
                                     /\ sess'[s].want = sess[s].want
      PROVE  PortInv'
  <2>1. PortTypes' /\ OnePump'
    BY <1>0, <1>1 DEF PortInv, PortTypes, OnePump
  <2>2. LinesKnown'
    BY <1>0, <1>1 DEF PortInv, LinesKnown
  <2> QED BY <2>1, <2>2 DEF PortInv
<1>2. ASSUME NEW v \in Viewers, Port!leave(v) PROVE PortInv'
  <2> DEFINE i == watching[v]
             x == [sess[i] EXCEPT !.clients = @ - 1]
  <2>1. i \in 1..Len(sess) /\ sess' = [sess EXCEPT ![i].clients = @ - 1]
    BY <1>0, <1>2 DEF Port!leave
  <2> HIDE DEF i
  <2>2. sess[i] \in Sessions
    BY <1>0, <2>1
  <2>3. x \in Sessions /\ x.pump = sess[i].pump /\ x.stop = sess[i].stop /\ x.want = sess[i].want
    BY <2>2 DEF Sessions
  <2>4. /\ sess' \in Seq(Sessions) /\ Len(sess') = Len(sess)
        /\ \A j \in 1..Len(sess) : sess'[j] = IF j = i THEN x ELSE sess[j]
    <3>1. sess' = [sess EXCEPT ![i] = x]
      BY <1>0, <2>1, <2>2 DEF Sessions
    <3> HIDE DEF x
    <3>2. sess \in Seq(Sessions) /\ i \in 1..Len(sess) /\ x \in Sessions
      BY <1>0, <2>1, <2>3
    <3> QED BY <3>1, <3>2, SessionSet
  <2> HIDE DEF x
  <2>5. published' \in Shown
    <3>1. sess[i].clients - 1 \in Int
      BY <2>2 DEF Sessions
    <3> QED BY <1>0, <1>2, <3>1 DEF Port!leave, Shown, i
  <2>6. watching' \in [Viewers -> 0..Len(sess)]
    BY <1>0, <1>2 DEF Port!leave
  <2> QED BY <1>1, <1>2, <2>3, <2>4, <2>5, <2>6 DEF Port!leave, Port!port
<1>3. CASE Port!JackIr
  <2>1. /\ combo /\ UNCHANGED <<combo, there, other, lines, foreign, watching>>
        /\ hub' = 0 /\ sess' = Port!close
    BY <1>3 DEF Port!JackIr
  <2>2. published' \in Shown
    BY <1>0, <1>3 DEF Port!JackIr, Port!Saved, Shown
  <2>3. /\ sess' \in Seq(Sessions) /\ Len(sess') = Len(sess)
        /\ \A j \in 1..Len(sess) : /\ sess'[j].pump = sess[j].pump
                                   /\ sess'[j].stop = (j = hub \/ sess[j].stop)
    <3>1. CASE hub = 0
      BY <1>0, <2>1, <3>1 DEF Port!close, Sessions
    <3>2. CASE hub # 0
      <4> DEFINE x == [sess[hub] EXCEPT !.stop = TRUE]
      <4>1. hub \in 1..Len(sess)
        BY <1>0, <3>2
      <4>2. x \in Sessions /\ x.pump = sess[hub].pump /\ x.stop
        BY <1>0, <4>1 DEF Sessions
      <4>3. sess' = [sess EXCEPT ![hub] = x]
        BY <1>0, <2>1, <3>2, <4>1 DEF Port!close, Sessions
      <4> HIDE DEF x
      <4>4. /\ sess' \in Seq(Sessions) /\ Len(sess') = Len(sess)
            /\ \A j \in 1..Len(sess) : sess'[j] = IF j = hub THEN x ELSE sess[j]
        BY <1>0, <4>1, <4>2, <4>3, SessionSet
      <4>5. \A j \in 1..Len(sess) : sess[j].stop \in BOOLEAN
        BY <1>0 DEF Sessions
      <4>6. x.stop = TRUE
        BY <1>0, <4>1, <4>2 DEF x, Sessions
      <4> QED BY <4>2, <4>4, <4>5, <4>6
    <3> QED BY <3>1, <3>2
  <2>4. PortTypes'
    BY <1>0, <2>1, <2>2, <2>3 DEF PortTypes
  <2>5. OnePump'
    BY <1>0, <2>1, <2>3 DEF PortInv, OnePump
  <2> QED BY <2>1, <2>4, <2>5 DEF PortInv, LinesKnown
<1>4. ASSUME NEW s \in 1..Len(sess), NEW x \in Sessions, x.stop = sess[s].stop,
             x.pump # "gone" => sess[s].pump # "gone", x.pump = "open" => there,
             sess' = [sess EXCEPT ![s] = x], lines' \in Wishes,
             foreign' \in BOOLEAN,
             ~combo /\ x.pump = "open" /\ ~foreign' => lines' = x.want,
             UNCHANGED <<combo, there, other, hub, watching, published>>
      PROVE  PortInv'
  <2>1. /\ sess' \in Seq(Sessions) /\ Len(sess') = Len(sess)
        /\ \A j \in 1..Len(sess) : sess'[j] = IF j = s THEN x ELSE sess[j]
    BY <1>0, <1>4, SessionSet
  <2>2. PortTypes'
    BY <1>0, <1>4, <2>1 DEF PortTypes
  <2>3. OnePump'
    BY <1>0, <1>4, <2>1 DEF PortInv, OnePump
  <2>4. ~combo => hub = Len(sess) /\ hub = 1 /\ s = 1 /\ ~sess[1].stop
    BY <1>0 DEF PortInv, LinesKnown
  <2>5. LinesKnown'
    <3>1. CASE combo
      BY <1>4, <3>1 DEF LinesKnown
    <3>2. CASE ~combo
      <4>1. Len(sess') = 1 /\ hub' = 1 /\ sess'[1] = x
        BY <1>0, <1>4, <2>1, <2>4, <3>2
      <4>2. ~x.stop /\ (x.pump = "open" /\ ~foreign' => lines' = x.want)
        BY <1>4, <2>4, <3>2
      <4> QED BY <4>1, <4>2 DEF LinesKnown
    <3> QED BY <3>1, <3>2
  <2> QED BY <2>2, <2>3, <2>5 DEF PortInv
<1>5. ASSUME NEW s \in 1..Len(sess), Port!Stopped(s) PROVE PortInv'
  <2> DEFINE x == [sess[s] EXCEPT !.pump = "gone"]
  <2>1. x \in Sessions /\ x.stop = sess[s].stop /\ x.pump = "gone"
    BY <1>0 DEF Sessions
  <2>2. sess' = [sess EXCEPT ![s] = x]
    BY <1>0, <1>5 DEF Port!Stopped, Sessions
  <2>3. lines' \in Wishes /\ foreign' \in BOOLEAN
    BY <1>0, <1>5 DEF Port!Stopped, Port!LinesClosed, Port!Dropped, Wishes
  <2>4. UNCHANGED <<combo, there, other, hub, watching, published>>
    BY <1>5 DEF Port!Stopped
  <2> HIDE DEF x
  <2> QED BY <1>4, <2>1, <2>2, <2>3, <2>4
<1>6. ASSUME NEW s \in 1..Len(sess), Port!Reopen(s) PROVE PortInv'
  <2> DEFINE t == Tail(sess[s].reopen)
             x == [sess[s] EXCEPT !.reopen = t, !.pump = "gone"]
             y == [sess[s] EXCEPT !.reopen = t, !.pump = "open"]
             without == [sess EXCEPT ![s].pump = "gone", ![s].reopen = t]
  <2>1. t \in Seq(Rates) /\ sess[s].pump # "gone"
    <3>1. sess[s].reopen \in Seq(Rates) /\ sess[s].reopen # <<>>
      BY <1>0, <1>6 DEF Port!Reopen, Sessions
    <3>2. sess[s].pump # "gone"
      BY <1>6 DEF Port!Reopen, Port!Live
    <3> QED BY <3>1, <3>2, Tailed
  <2> HIDE DEF t
  <2>2. /\ x \in Sessions /\ x.stop = sess[s].stop /\ x.pump = "gone"
        /\ y \in Sessions /\ y.stop = sess[s].stop /\ y.pump = "open" /\ y.want = sess[s].want
    <3>1. sess[s] \in Sessions
      BY <1>0
    <3> DEFINE z == [sess[s] EXCEPT !.reopen = t]
    <3>2. z \in Sessions /\ z.stop = sess[s].stop /\ z.want = sess[s].want
      BY <2>1, <3>1 DEF Sessions
    <3>3. x = [z EXCEPT !.pump = "gone"] /\ y = [z EXCEPT !.pump = "open"]
      OBVIOUS
    <3> HIDE DEF z, x, y
    <3> QED BY <3>2, <3>3 DEF Sessions
  <2>3. without = [sess EXCEPT ![s] = x] /\ [without EXCEPT ![s].pump = "open"] = [sess EXCEPT ![s] = y]
    BY <1>0 DEF Sessions
  <2>4. \/ /\ Port!CanOpen(mode) /\ sess' = [without EXCEPT ![s].pump = "open"]
           /\ lines' = sess[s].want /\ foreign' = FALSE
        \/ sess' = without /\ lines' = Port!LinesClosed(without, other) /\ foreign' = foreign
    BY <1>6 DEF Port!Reopen, Port!apply_lines, t
  <2>5. UNCHANGED <<combo, there, other, hub, watching, published>>
    BY <1>6 DEF Port!Reopen
  <2>6. Port!LinesClosed(without, other) \in Wishes /\ sess[s].want \in Wishes
    BY <1>0 DEF Port!LinesClosed, Port!Dropped, Wishes, Sessions
  <2>8. foreign' \in BOOLEAN
    BY <1>0, <2>4
  <2>7. Port!CanOpen(mode) => there
    BY DEF Port!CanOpen
  <2> HIDE DEF x, y, without
  <2> QED BY <1>4, <2>1, <2>2, <2>3, <2>4, <2>5, <2>6, <2>7, <2>8
<1>7. CASE Port!Hangup
  <2> DEFINE h(i) == [sess[i] EXCEPT !.pump = IF @ = "open" THEN "hung" ELSE @]
  <2>1. /\ there' = FALSE /\ other' = FALSE /\ lines' = Port!Dropped
        /\ UNCHANGED <<combo, foreign, hub, watching, published>>
        /\ sess' = [i \in 1..Len(sess) |-> h(i)]
    BY <1>7 DEF Port!Hangup, Port!Ids
  <2>2. \A i \in 1..Len(sess) : /\ h(i) \in Sessions /\ h(i).pump # "open"
                                /\ h(i).stop = sess[i].stop
                                /\ h(i).pump # "gone" => sess[i].pump # "gone"
    BY <1>0 DEF Sessions
  <2> HIDE DEF h
  <2>3. /\ sess' \in Seq(Sessions) /\ Len(sess') = Len(sess)
        /\ \A i \in 1..Len(sess) : sess'[i] = h(i)
    <3> DEFINE n == Len(sess)
    <3>1. n \in Nat /\ sess' = [i \in 1..n |-> h(i)] /\ \A i \in 1..n : h(i) \in Sessions
      BY <1>0, <2>1, <2>2
    <3> HIDE DEF n
    <3>2. sess' \in Seq(Sessions) /\ Len(sess') = n /\ \A i \in 1..n : sess'[i] = h(i)
      BY <3>1
    <3> QED BY <3>2 DEF n
  <2>4. Port!Dropped \in Wishes
    BY DEF Port!Dropped, Wishes
  <2>5. PortTypes'
    BY <1>0, <2>1, <2>3, <2>4 DEF PortTypes
  <2>6. OnePump'
    BY <2>1, <2>2, <2>3 DEF PortInv, OnePump
  <2>7. LinesKnown'
    BY <1>0, <2>1, <2>2, <2>3 DEF PortInv, LinesKnown
  <2> QED BY <2>5, <2>6, <2>7 DEF PortInv
<1>8. CASE Port!Return
  BY <1>8 DEF Port!Return, PortInv, PortTypes, OnePump, LinesKnown
<1>9. CASE Port!Other
  <2>1. UNCHANGED <<combo, there, sess, hub, watching, published>>
    BY <1>9 DEF Port!Other
  <2>2. \/ other /\ other' = FALSE /\ lines' = Port!LinesClosed(sess, FALSE) /\ foreign' = foreign
        \/ ~other /\ there /\ other' = TRUE /\ lines' = Port!LinesOpened /\ foreign' = TRUE
    BY <1>9 DEF Port!Other, Port!CanOpen
  <2>3. lines' \in Wishes /\ foreign' \in BOOLEAN
    BY <1>0, <2>2 DEF Port!LinesClosed, Port!LinesOpened, Port!Dropped, Port!Raised, Wishes
  <2>4. ASSUME NEW i \in 1..Len(sess), sess[i].pump = "open", ~foreign'
        PROVE  lines' = lines /\ ~foreign
    BY <2>2, <2>4 DEF Port!LinesClosed, Port!Open
  <2>6. PortTypes' /\ OnePump'
    BY <1>0, <2>1, <2>2, <2>3 DEF PortInv, PortTypes, OnePump
  <2>7. LinesKnown'
    BY <1>0, <2>1, <2>4 DEF PortInv, LinesKnown
  <2> QED BY <2>6, <2>7 DEF PortInv
<1>10. CASE Port!Restart
  <2>1. PICK m : Port!main(m)
    BY <1>10 DEF Port!Restart
  <2> DEFINE f == Port!Fresh(Default)
  <2>2. f \in Sessions /\ f.want = Port!Raised /\ ~f.stop
    BY DEF Port!Fresh, Sessions, Port!Raised, Wishes, Rates
  <2> HIDE DEF f
  <2>3. /\ UNCHANGED <<combo, there, other>>
        /\ \/ Port!CanOpen(m) /\ sess' = <<f>> /\ hub' = 1 /\ lines' = Port!Raised
           \/ /\ ~Port!CanOpen(m) /\ sess' = <<>> /\ hub' = 0
              /\ lines' = Port!LinesClosed(<<>>, other)
        /\ foreign' = FALSE
        /\ published' = [baud |-> Default, viewers |-> 0, jack |-> "none"]
        /\ watching' = [v \in Viewers |-> 0]
    BY <1>10, <2>1 DEF Port!Restart, Port!main, Port!LinesOpened, f
  <2>4. Port!Raised \in Wishes /\ Port!Dropped \in Wishes /\ published' \in Shown
    BY <2>3 DEF Port!Raised, Port!Dropped, Wishes, Shown, Rates
  <2>7. foreign' \in BOOLEAN
    BY <2>3
  <2>5. CASE Port!CanOpen(m) /\ sess' = <<f>> /\ hub' = 1 /\ lines' = Port!Raised
    <3>1. sess' \in Seq(Sessions) /\ Len(sess') = 1 /\ sess'[1] = f
      BY <2>2, <2>5
    <3>2. there
      BY <2>5 DEF Port!CanOpen
    <3>3. PortTypes'
      BY <1>0, <2>3, <2>4, <2>5, <2>7, <3>1 DEF PortTypes
    <3>4. OnePump'
      BY <2>3, <2>5, <3>1, <3>2 DEF OnePump
    <3>5. LinesKnown'
      BY <2>2, <2>5, <3>1 DEF LinesKnown
    <3> QED BY <3>3, <3>4, <3>5 DEF PortInv
  <2>6. CASE ~Port!CanOpen(m) /\ sess' = <<>> /\ hub' = 0
             /\ lines' = Port!LinesClosed(<<>>, other)
    <3>1. sess' \in Seq(Sessions) /\ Len(sess') = 0
      BY <2>6
    <3>2. PortTypes'
      BY <1>0, <2>3, <2>4, <2>6, <2>7, <3>1 DEF PortTypes, Port!LinesClosed
    <3>3. OnePump'
      BY <2>3, <2>6, <3>1 DEF PortInv, OnePump
    <3>4. LinesKnown'
      BY <2>3, <2>6, <3>1 DEF LinesKnown
    <3> QED BY <3>2, <3>3, <3>4 DEF PortInv
  <2> QED BY <2>3, <2>5, <2>6
<1>11. CASE UNCHANGED Port!vars
  BY <1>11 DEF Port!vars, Port!port, PortInv, PortTypes, OnePump, LinesKnown
<1> QED
  BY <1>2, <1>3, <1>5, <1>6, <1>7, <1>8, <1>9, <1>10, <1>11, SessionCommands
     DEF Port!Next, Port!Command, Port!pump, Port!Ids

(* The invariant of a serial port holds from iod's start.                  *)
LEMMA PortInit == Port!Init => PortInv
<1> SUFFICES ASSUME Port!Init PROVE PortInv
  OBVIOUS
<1> DEFINE f == Port!Fresh(Default)
<1>1. f \in Sessions /\ f.want = Port!Raised /\ ~f.stop /\ Port!Raised \in Wishes
  BY DEF Port!Fresh, Sessions, Port!Raised, Wishes, Rates
<1> HIDE DEF f
<1>2. /\ sess = <<f>> /\ hub = 1 /\ lines = Port!Raised /\ there /\ other = FALSE
      /\ foreign = FALSE
      /\ combo \in BOOLEAN /\ watching = [v \in Viewers |-> 0]
      /\ published = [baud |-> Default, viewers |-> 0, jack |-> "none"]
  BY DEF Port!Init, f
<1>3. sess \in Seq(Sessions) /\ Len(sess) = 1 /\ sess[1] = f
  BY <1>1, <1>2
<1>4. PortTypes
  <2>1. published \in Shown
    BY <1>2 DEF Shown, Rates
  <2>2. watching \in [Viewers -> 0..Len(sess)] /\ hub \in 0..Len(sess)
    BY <1>2, <1>3
  <2> QED BY <1>1, <1>2, <1>3, <2>1, <2>2 DEF PortTypes
<1>5. OnePump /\ LinesKnown
  BY <1>1, <1>2, <1>3 DEF OnePump, LinesKnown
<1> QED BY <1>4, <1>5 DEF PortInv

(* The inductive invariant of a serial port, its pumps and its lines.      *)
THEOREM PortInvariant == Port!Spec => []PortInv
BY PortInit, PortStep, PTL DEF Port!Spec

(* Two pumps never share a tty: of those that hold it, only the hub's has  *)
(* not been told to stop, however the jack's mode, the rate and the driver *)
(* come and go (serial.rs, Hub::session and close, pump).                  *)
THEOREM OneReaderAlways == Port!Spec => []OneReader
<1>1. PortInv => OneReader
  BY DEF PortInv, OnePump, OneReader, Port!OneReader, Port!Reads, Port!Ids
<1> QED BY <1>1, PortInvariant, PTL

(* The lines of an open port stay as they were asked for: a line dropped   *)
(* to power something down is not raised by a change of rate or a terminal *)
(* (serial.rs, apply_lines and serial_line); another program's open does   *)
(* raise it, until iod drives the lines again.                             *)
THEOREM LinesKeptAlways == Port!Spec => []LinesKept
<1>1. PortInv => LinesKept
  BY DEF PortInv, PortTypes, LinesKnown, LinesKept, Port!LinesKept
<1> QED BY <1>1, PortInvariant, PTL

-----------------------------------------------------------------------------
(* A behaviour of what a daemon publishes is one of each of its parts, so  *)
(* what is proved of a part holds of the whole (MCIod).                    *)
THEOREM PartsOfTheWhole == MCSpec => Spec /\ Port!Spec
<1>1. MCInit => Init /\ Port!Init
  BY DEF MCInit
<1>2. [MCNext]_<<part, vars, net, tty, lineIo>> => [Next]_vars /\ [Port!Next]_(Port!vars)
  BY DEF MCNext, tty, Port!vars, Port!port
<1> QED
  BY <1>1, <1>2, PTL DEF MCSpec, Spec, Port!Spec

=============================================================================
