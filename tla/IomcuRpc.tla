------------------------------ MODULE IomcuRpc -------------------------------
(***************************************************************************)
(* What a caller of ohc_request and ohc_send may rely on: one call at a    *)
(* time gets a number, the firmware acts on a numbered call at most once   *)
(* and in the order of the numbers, and a call answered with success was   *)
(* acted upon.  A failed call says nothing: it may have been acted upon,   *)
(* or may still be.  After a disturbance (sound = FALSE) success says      *)
(* nothing either.  IomcuLink implements this.                             *)
(***************************************************************************)
EXTENDS Naturals

CONSTANTS
    Clients,    \* threads that call
    MaxCalls    \* bound: calls in a behaviour

VARIABLES
    st,      \* per client: "idle", "ask" (waiting for an answer) or "tell"
    call,    \* per client: the number of its last call
    count,   \* calls numbered so far
    acted,   \* the calls the firmware has acted upon
    result,  \* per client: "none", "ok" or "failed"
    sound    \* FALSE once something disturbed the match of answers

vars == <<st, call, count, acted, result, sound>>

Init ==
    /\ st = [c \in Clients |-> "idle"]
    /\ call = [c \in Clients |-> 0]
    /\ count = 0
    /\ acted = {}
    /\ result = [c \in Clients |-> "none"]
    /\ sound = TRUE

Begin(c, kind) ==
    /\ \A d \in Clients : st[d] = "idle"
    /\ count < MaxCalls
    /\ count' = count + 1
    /\ call' = [call EXCEPT ![c] = count + 1]
    /\ st' = [st EXCEPT ![c] = kind]
    /\ UNCHANGED <<acted, result, sound>>

Act(n) ==
    /\ \A m \in acted : m < n
    /\ acted' = acted \cup {n}
    /\ UNCHANGED <<st, call, count, result, sound>>

Succeed(c) ==
    /\ st[c] # "idle"
    /\ sound /\ st[c] = "ask" => call[c] \in acted
    /\ result' = [result EXCEPT ![c] = "ok"]
    /\ st' = [st EXCEPT ![c] = "idle"]
    /\ UNCHANGED <<call, count, acted, sound>>

Fail(c) ==
    /\ st[c] # "idle"
    /\ result' = [result EXCEPT ![c] = "failed"]
    /\ st' = [st EXCEPT ![c] = "idle"]
    /\ UNCHANGED <<call, count, acted, sound>>

Disturb ==
    /\ sound' = FALSE
    /\ UNCHANGED <<st, call, count, acted, result>>

Next ==
    \/ \E c \in Clients : Begin(c, "ask") \/ Begin(c, "tell") \/ Succeed(c) \/ Fail(c)
    \/ \E n \in 1..count : Act(n)
    \/ Disturb

Spec == Init /\ [][Next]_vars

=============================================================================
