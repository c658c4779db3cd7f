---------------------------- MODULE SysmondFan ----------------------------
(***************************************************************************)
(* sysmond's fan control.  The kernel's thermal zone moves the fan; a       *)
(* request takes the fan from it by the zone's policy, and a guard run on   *)
(* every sample gives it back.  Every handler runs to its end on one        *)
(* thread, but the kernel, its governor and the temperature move between    *)
(* any two of them, and each write to a file of the kernel's may fail.      *)
(*                                                                          *)
(* The guard is the collector's, which also publishes: it waits for room in *)
(* a channel that only the connection's poll drains, so while there is no   *)
(* connection it may come to wait for ever.  What is published is OhcMqtt's *)
(* matter; here it is counted.                                             *)
(***************************************************************************)
EXTENDS Naturals

CONSTANTS
    Full,       \* the fan's top speed; 0 is off
    Floor,      \* the lowest speed at which it turns
    Room,       \* AsyncClient::new: requests the channel holds
    MaxFails    \* bound: writes to the kernel's files that fail

Temps == {"cool", "warm", "hot"}

VARIABLES
    temp,       \* the zone's temperature: "hot" is at or over its hot trip
    zone,       \* the zone's mode: FALSE once its sensor stopped answering
    policy,     \* user_space (manual) or step_wise (auto)
    pwm,        \* the fan's speed
    aim,        \* the governor's last target, frozen while policy is manual
    stale,      \* the collector has been told to publish the fan again
    owed,       \* publishes left of the collector's round
    free,       \* places free in the channel
    greet,      \* requests the ConnAck's handler still has to queue
    link,       \* the connection: none, live, or dead and not noticed
    notice,     \* reconnected: the collector is to publish everything
    fails

collector == <<stale, owed, notice>>
connection == <<greet, link>>
fan == <<policy, pwm, aim>>
box == <<temp, zone>>
vars == <<box, fan, collector, free, connection, fails>>

TypeOK ==
    /\ temp \in Temps /\ zone \in BOOLEAN /\ policy \in {"user_space", "step_wise"}
    /\ pwm \in 0..Full /\ aim \in 0..Full
    /\ stale \in BOOLEAN /\ notice \in BOOLEAN /\ owed \in 0..1
    /\ free \in 0..Room /\ greet \in 0..2 /\ link \in {"none", "live", "dead"}

manual == policy = "user_space"

(* The trips of the zone are the fan curve.                                *)
Curve(t) == CASE t = "cool" -> 0 [] t = "warm" -> Floor [] t = "hot" -> Full

(* A write of f to a kernel file: done, or refused.                        *)
Fails == fails < MaxFails /\ fails' = fails + 1
Works == fails' = fails

-----------------------------------------------------------------------------
(* The kernel and the room.                                                *)

Governor ==
    /\ zone /\ ~manual /\ (aim # Curve(temp) \/ pwm > Curve(temp))
    /\ aim' = Curve(temp) /\ pwm' = Curve(temp)
    /\ UNCHANGED <<box, policy, collector, free, connection, fails>>

Heat(t) ==
    /\ t # temp /\ temp' = t
    /\ UNCHANGED <<zone, fan, collector, free, connection, fails>>

SensorLost ==
    /\ zone /\ zone' = FALSE
    /\ UNCHANGED <<temp, fan, collector, free, connection, fails>>

-----------------------------------------------------------------------------
(* Full speed first, then the policy: the governor moves the fan only when  *)
(* its target changes.  Mutant: the policy alone.                           *)
MutantToAuto == policy' = "step_wise" /\ pwm' = pwm /\ Works
to_auto ==
    \/ policy' = "step_wise" /\ pwm' = Full /\ Works
    \/ policy' = policy /\ pwm' = Full /\ Fails
    \/ policy' = policy /\ pwm' = pwm /\ Fails

Lifted(pct) == IF pct \in 1..Floor THEN Floor ELSE pct

(* Policy first, so the governor cannot move the fan back in between.  A    *)
(* sensor that does not answer has no temperature to refuse at.            *)
set(pct) ==
    /\ ~(zone /\ temp = "hot")
    /\ \/ policy' = "user_space" /\ pwm' = Lifted(pct) /\ Works
       \/ policy' = "user_space" /\ pwm' = pwm /\ Fails
       \/ policy' = policy /\ pwm' = pwm /\ Fails
    /\ UNCHANGED <<box, aim>>
auto == to_auto /\ UNCHANGED <<box, aim>>

fan_set(pct) == set(pct) /\ UNCHANGED <<collector, free, connection>>
fan_auto == auto /\ UNCHANGED <<collector, free, connection>>
mqtt_loop ==
    /\ link = "live" /\ greet = 0 /\ ((\E pct \in 0..Full : set(pct)) \/ auto)
    /\ stale' = TRUE /\ UNCHANGED <<owed, notice, free, connection>>

(* What keeps a manual hold from being dangerous.                          *)
guard ==
    IF ~zone
    THEN /\ policy' = policy
         /\ \/ pwm' = Full /\ Works
            \/ pwm # Full /\ pwm' = pwm /\ Fails
    ELSE IF manual /\ temp = "hot" THEN to_auto
    ELSE policy' = policy /\ pwm' = pwm /\ Works

-----------------------------------------------------------------------------
(* The collector: a round of a tick, of a change of the fan or of a         *)
(* reconnect begins when the last is published.  Of a round one publish     *)
(* stands for all: it is the first that finds no room which counts.         *)
tick ==
    /\ owed = 0 /\ guard /\ owed' = 1
    /\ UNCHANGED <<box, aim, stale, notice, free, connection>>

FanChanged ==
    /\ owed = 0 /\ stale /\ stale' = FALSE /\ owed' \in {0, 1}
    /\ UNCHANGED <<box, fan, notice, free, connection, fails>>

republish ==
    /\ owed = 0 /\ notice /\ notice' = FALSE /\ owed' = 1
    /\ UNCHANGED <<box, fan, stale, free, connection, fails>>

Publish ==
    /\ owed > 0 /\ free > 0 /\ owed' = owed - 1 /\ free' = free - 1
    /\ UNCHANGED <<box, fan, stale, notice, connection, fails>>

(* The connection's task: nothing is sent while the ConnAck's handler waits *)
(* to say online and to subscribe.                                         *)
Connect ==
    /\ greet = 0 /\ link = "none" /\ link' = "live" /\ greet' = 2
    /\ UNCHANGED <<box, fan, collector, free, fails>>

Greet ==
    /\ greet > 0 /\ free > 0 /\ greet' = greet - 1 /\ free' = free - 1
    /\ notice' = (notice \/ greet = 1)
    /\ UNCHANGED <<box, fan, stale, owed, link, fails>>

Sent ==
    /\ greet = 0 /\ link # "none" /\ free < Room /\ free' = free + 1
    /\ UNCHANGED <<box, fan, collector, connection, fails>>

(* A lost connection takes what was queued with it, once it is noticed.    *)
Broken ==
    /\ greet = 0 /\ link = "dead" /\ link' = "none" /\ free' = Room
    /\ UNCHANGED <<box, fan, collector, greet, fails>>

BrokerDrops ==
    /\ link = "live" /\ link' = "dead"
    /\ UNCHANGED <<box, fan, collector, free, greet, fails>>

-----------------------------------------------------------------------------
Init ==
    /\ temp = "cool" /\ zone = TRUE /\ policy = "step_wise"
    /\ pwm = 0 /\ aim = 0 /\ stale = FALSE /\ fails = 0
    /\ owed = 0 /\ notice = FALSE /\ free = Room /\ greet = 0 /\ link = "none"

Poll == Sent \/ Broken

Next ==
    \/ Governor \/ SensorLost \/ \E t \in Temps : Heat(t)
    \/ \E pct \in 0..Full : fan_set(pct)
    \/ fan_auto \/ mqtt_loop
    \/ tick \/ FanChanged \/ republish \/ Publish
    \/ Connect \/ Greet \/ Poll \/ BrokerDrops

(* The governor polls its zone.  select! picks at random among what is      *)
(* ready, and room goes to those who wait for it in their order.            *)
Fairness ==
    /\ WF_vars(Governor) /\ SF_vars(tick) /\ SF_vars(Publish)
    /\ WF_vars(Greet) /\ WF_vars(Poll)
Spec == Init /\ [][Next]_vars /\ Fairness

-----------------------------------------------------------------------------
(* The connection is up and its ConnAck dealt with.                        *)
Connected == link = "live" /\ greet = 0

(* Manual is not a way to cook the board: while the zone stays hot, or its  *)
(* sensor stays lost, the fan gets to full speed whatever was asked of it.  *)
(* Excepted is a broker that stays away, or a ConnAck's handler that waits  *)
(* for ever: the guard then waits behind the collector's publish.           *)
NeverCooks ==
    []<>Connected =>
        /\ (zone /\ temp = "hot") ~> (pwm = Full \/ temp # "hot" \/ ~zone)
        /\ ~zone ~> pwm = Full
=============================================================================
