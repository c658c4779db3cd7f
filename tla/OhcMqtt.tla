------------------------------- MODULE OhcMqtt -------------------------------
(***************************************************************************)
(* A daemon and the box's broker (packages/ohcmqtt, and the mqtt function   *)
(* audiod, storaged, switchd, sysmond and updated each have): one task      *)
(* sweeps the daemon's state into retained topics, another polls the        *)
(* connection, and both put their requests on one bounded channel that      *)
(* only the poll drains.                                                    *)
(*                                                                          *)
(* A topic's value is the number of changes it has seen.  The connection,   *)
(* the channel and the broker are rumqttc's and mosquitto's: a request      *)
(* waits while the channel is full; a lost connection takes what was        *)
(* queued with it, because sessions are clean; a broker that stops forgets. *)
(***************************************************************************)
EXTENDS Naturals, Sequences

CONSTANTS
    Topics,         \* the paths under <base>/state
    Capacity,       \* AsyncClient::new: requests the channel holds
    MaxChanges,     \* bound: changes of the daemon's state
    MaxOutages      \* bound: connections the broker breaks

ASSUME MqttAssumption ==
    /\ Capacity \in Nat \ {0} /\ MaxChanges \in Nat /\ MaxOutages \in Nat
    /\ {"status", "cmd"} \cap Topics = {}

Values == 0..MaxChanges
None == MaxChanges + 1      \* nothing published
Payloads == Values \cup {None}

VARIABLES
    state,      \* what the daemon has to say
    phase,      \* the publisher: between rounds, in a sweep, in a republish
    todo,       \* topics left in the round
    seen,       \* the values the sweep read when it began
    last,       \* Retained::last
    reconnected,\* the publisher's notice of a ConnAck
    loop,       \* the connection's task: polling, or where in its handler
    link,       \* its connection: none, live, or dead and not noticed
    channel,    \* requests not yet sent
    broker,     \* the broker is up
    retained,   \* its retained state topics
    status,     \* its retained status/<service>
    subscribed, \* it passes commands on
    changes, outages

publisher == <<phase, todo, seen, last>>
broke == <<broker, outages>>
topics == <<retained, status, subscribed>>
vars == <<state, publisher, reconnected, loop, link, channel, broke, topics, changes>>

(* A publish of a state topic, of status = online, or a subscribe to cmd.  *)
Requests == [topic : Topics \cup {"status", "cmd"}, value : Values]
Greeting(topic) == [topic |-> topic, value |-> 0]

TypeOK ==
    /\ state \in [Topics -> Values]
    /\ phase \in {"idle", "sweep", "republish"} /\ todo \subseteq Topics
    /\ seen \in [Topics -> Values] /\ last \in [Topics -> Payloads]
    /\ reconnected \in BOOLEAN
    /\ loop \in {"poll", "online", "subscribe", "sleep"}
    /\ link \in {"none", "live", "dead"}
    /\ channel \in Seq(Requests) /\ Len(channel) <= Capacity
    /\ broker \in BOOLEAN
    /\ retained \in [Topics -> Payloads]
    /\ status \in {"none", "online", "offline"} /\ subscribed \in BOOLEAN
    /\ changes \in 0..MaxChanges /\ outages \in 0..MaxOutages

(* client.publish(..).await: the caller waits for room.                    *)
Enqueue(r) == Len(channel) < Capacity /\ channel' = Append(channel, r)

Unsaid == [t \in Topics |-> None]

-----------------------------------------------------------------------------
(* The publisher.                                                          *)

Change(t) ==
    /\ changes < MaxChanges
    /\ state' = [state EXCEPT ![t] = @ + 1]
    /\ changes' = changes + 1
    /\ UNCHANGED <<publisher, reconnected, loop, link, channel, broke, topics>>

(* The round is over with its last topic.                                  *)
Done(t) ==
    /\ todo' = todo \ {t}
    /\ phase' = IF todo' = {} THEN "idle" ELSE phase

(* The timer, or the notice of a change: everything is read.               *)
StartSweep ==
    /\ phase = "idle"
    /\ phase' = "sweep" /\ todo' = Topics /\ seen' = state
    /\ UNCHANGED <<state, last, reconnected, loop, link, channel, broke, topics, changes>>

(* Mutant: what was sent first is what is remembered.                      *)
MutantSet(t) ==
    /\ phase = "sweep" /\ t \in todo
    /\ \/ last[t] = seen[t] /\ UNCHANGED <<last, channel>>
       \/ /\ last[t] # seen[t]
          /\ Enqueue([topic |-> t, value |-> seen[t]])
          /\ last' = [last EXCEPT ![t] = IF @ = None THEN seen[t] ELSE @]
    /\ Done(t)
    /\ UNCHANGED <<state, seen, reconnected, loop, link, broke, topics, changes>>

(* Retained::set: nothing is sent when the payload is what was sent last.  *)
Set(t) ==
    /\ phase = "sweep" /\ t \in todo
    /\ \/ last[t] = seen[t] /\ UNCHANGED <<last, channel>>
       \/ /\ last[t] # seen[t]
          /\ Enqueue([topic |-> t, value |-> seen[t]])
          /\ last' = [last EXCEPT ![t] = seen[t]]
    /\ Done(t)
    /\ UNCHANGED <<state, seen, reconnected, loop, link, broke, topics, changes>>

Said == {t \in Topics : last[t] # None}

(* The notice of a ConnAck wakes the publisher.                            *)
StartRepublish ==
    /\ phase = "idle" /\ reconnected
    /\ reconnected' = FALSE
    /\ todo' = Said
    /\ phase' = IF Said = {} THEN "idle" ELSE "republish"
    /\ UNCHANGED <<state, seen, last, loop, link, channel, broke, topics, changes>>

(* Retained::republish.                                                    *)
Republish(t) ==
    /\ phase = "republish" /\ t \in todo
    /\ Enqueue([topic |-> t, value |-> last[t]])
    /\ Done(t)
    /\ UNCHANGED <<state, seen, last, reconnected, loop, link, broke, topics, changes>>

-----------------------------------------------------------------------------
(* The connection's task.                                                  *)

(* poll returns the ConnAck.                                               *)
Connect ==
    /\ loop = "poll" /\ link = "none" /\ broker
    /\ link' = "live" /\ loop' = "online"
    /\ UNCHANGED <<state, publisher, reconnected, channel, broke, topics, changes>>

(* poll returns an error, and the task waits three seconds.                *)
Refused ==
    /\ loop = "poll" /\ link = "none" /\ ~broker
    /\ loop' = "sleep"
    /\ UNCHANGED <<state, publisher, reconnected, link, channel, broke, topics, changes>>

Broken ==
    /\ loop = "poll" /\ link = "dead"
    /\ link' = "none" /\ loop' = "sleep"
    /\ channel' = <<>>
    /\ UNCHANGED <<state, publisher, reconnected, broke, topics, changes>>

Wake ==
    /\ loop = "sleep"
    /\ loop' = "poll"
    /\ UNCHANGED <<state, publisher, reconnected, link, channel, broke, topics, changes>>

(* Mutant: commands are asked for on the first connection only.            *)
MutantOnline ==
    /\ loop = "online"
    /\ Enqueue(Greeting("status"))
    /\ IF Said = {} THEN loop' = "subscribe" /\ UNCHANGED reconnected
       ELSE loop' = "poll" /\ reconnected' = TRUE
    /\ UNCHANGED <<state, publisher, link, broke, topics, changes>>

(* ohcmqtt::online, in the handler: nothing is polled until it is queued.  *)
Online ==
    /\ loop = "online"
    /\ Enqueue(Greeting("status"))
    /\ loop' = "subscribe"
    /\ UNCHANGED <<state, publisher, reconnected, link, broke, topics, changes>>

(* Mutant: the publisher is not told of the ConnAck.                       *)
MutantSubscribe ==
    /\ loop = "subscribe"
    /\ Enqueue(Greeting("cmd"))
    /\ loop' = "poll"
    /\ UNCHANGED <<state, publisher, reconnected, link, broke, topics, changes>>

Subscribe ==
    /\ loop = "subscribe"
    /\ Enqueue(Greeting("cmd"))
    /\ reconnected' = TRUE /\ loop' = "poll"
    /\ UNCHANGED <<state, publisher, link, broke, topics, changes>>

Take ==
    /\ loop = "poll" /\ channel # <<>>
    /\ channel' = Tail(channel)
    /\ UNCHANGED <<state, publisher, reconnected, loop, link, broke, changes>>

SendState ==
    /\ Take /\ link = "live" /\ Head(channel).topic \in Topics
    /\ retained' = [retained EXCEPT ![Head(channel).topic] = Head(channel).value]
    /\ UNCHANGED <<status, subscribed>>

SendOnline ==
    /\ Take /\ link = "live" /\ Head(channel).topic = "status"
    /\ status' = "online"
    /\ UNCHANGED <<retained, subscribed>>

SendSubscribe ==
    /\ Take /\ link = "live" /\ Head(channel).topic = "cmd"
    /\ subscribed' = TRUE
    /\ UNCHANGED <<retained, status>>

SendLost ==
    /\ Take /\ link = "dead"
    /\ UNCHANGED topics

-----------------------------------------------------------------------------
(* The broker.                                                             *)

Sever ==
    /\ outages < MaxOutages /\ outages' = outages + 1
    /\ link' = IF link = "live" THEN "dead" ELSE link
    /\ subscribed' = FALSE
    /\ UNCHANGED <<state, publisher, reconnected, loop, channel, changes>>

(* It stops, and its retained state, kept in RAM, is gone.                 *)
BrokerStops ==
    /\ broker /\ Sever
    /\ broker' = FALSE
    /\ retained' = Unsaid /\ status' = "none"

BrokerStarts ==
    /\ ~broker
    /\ broker' = TRUE
    /\ UNCHANGED <<state, publisher, reconnected, loop, link, channel, outages, topics, changes>>

(* The keepalive ran out: it closes the connection and publishes the will. *)
BrokerDrops ==
    /\ broker /\ link = "live" /\ Sever
    /\ status' = "offline"
    /\ UNCHANGED <<broker, retained>>

Init ==
    /\ state = [t \in Topics |-> 0] /\ seen = state
    /\ phase = "idle" /\ todo = {} /\ last = Unsaid
    /\ reconnected = FALSE /\ loop = "poll" /\ link = "none" /\ channel = <<>>
    /\ broker \in BOOLEAN
    /\ retained = Unsaid /\ status = "none" /\ subscribed = FALSE
    /\ changes = 0 /\ outages = 0

Sweep == StartSweep \/ \E t \in Topics : Set(t) \/ Republish(t)
Handler == Online \/ Subscribe
Poll ==
    \/ Connect \/ Refused \/ Broken \/ Wake
    \/ SendState \/ SendOnline \/ SendSubscribe \/ SendLost
Broker == BrokerStops \/ BrokerStarts \/ BrokerDrops

Next == (\E t \in Topics : Change(t)) \/ Sweep \/ StartRepublish \/ Handler \/ Poll \/ Broker

Spec == Init /\ [][Next]_vars

(* Both tasks run when they can.  select! picks at random among what is    *)
(* ready, so a notice that waits through enough rounds is taken.           *)
FairSpec ==
    /\ Spec
    /\ WF_vars(Sweep) /\ SF_vars(StartRepublish)
    /\ WF_vars(Handler) /\ WF_vars(Poll)

-----------------------------------------------------------------------------
(* Properties.                                                             *)

(* t will show v once the channel is empty: the last request about it says  *)
(* so, or there is none and the broker has it.                             *)
About(t) == {i \in 1..Len(channel) : channel[i].topic = t}
Comes(t, v) ==
    IF About(t) = {} THEN retained[t] = v
    ELSE \E i \in About(t) : channel[i].value = v /\ \A j \in About(t) : j <= i

(* Retained sends nothing twice, so what it believes sent must be at the   *)
(* broker or on its way there, unless a republish is still due             *)
(* (Retained::set against Retained::republish and the ConnAck's notice).   *)
RepublishDue == link # "live" \/ loop # "poll" \/ reconnected
NothingForgotten ==
    \A t \in Topics :
        last[t] # None /\ ~RepublishDue /\ ~(phase = "republish" /\ t \in todo)
            => Comes(t, last[t])

(* The broker's retained value never goes back to an older one while the   *)
(* broker runs, whatever is queued, lost and republished.                  *)
Older(a, b) == a # None /\ b # None /\ a < b
NeverStale == [][broker' => \A t \in Topics : ~Older(retained'[t], retained[t])]_vars

(* "All of it again on every (re)connect, because the broker keeps         *)
(* retained state in RAM": once the broker stays up, every topic shows the *)
(* daemon's state, the daemon shows as online and its commands reach it.   *)
Settled == retained = state /\ status = "online" /\ subscribed
StateReturns == <>[]broker => <>[]Settled

(* The same promise, of each connection: a ConnAck is followed by the      *)
(* notice to republish, however much was queued before it.                 *)
ConnectRepublishes == loop = "online" ~> reconnected

=============================================================================
