----------------------------- MODULE IomcuRelay ------------------------------
(***************************************************************************)
(* Setting one relay to a value (ohc_gpio_set and ohc_node_write in        *)
(* gpio-ohc-iomcu.c) over a firmware that can only GET and TOGGLE it.      *)
(* Two paths reach the relay: a gpiochip line and a /dev/ohc file; both    *)
(* are a GET exchange, a comparison and at most one TOGGLE exchange, and   *)
(* io_lock is held for an exchange, never for the pair.                    *)
(*                                                                         *)
(* An exchange is the remote call of IomcuRpc: it succeeds having been     *)
(* acted upon, or fails having been acted upon, not at all, or not yet.    *)
(* A request that outlives its caller is acted upon before any later one.  *)
(***************************************************************************)
EXTENDS Naturals

CONSTANTS
    Writers,    \* threads writing the relay, by either path
    MaxFaults   \* bound: failed exchanges and resets of the part

VARIABLES
    relay,      \* the firmware's relay_on bit
    late,       \* TOGGLEs on the wire whose caller has given up
    pc,         \* per writer: "idle", "get" or "toggle"
    want,       \* per writer: the value it was given
    ret,        \* per writer: what its last write returned
    faults,     \* failures so far
    seen,       \* history: the relay had the wanted value during the write
    crowded,    \* history: another write overlapped this one
    settled     \* history: the value a lone successful write left, or "open"

vars == <<relay, late, pc, want, ret, faults, seen, crowded, settled>>

Active(w) == pc[w] # "idle"

TypeOK ==
    /\ relay \in BOOLEAN
    /\ late \in 0..MaxFaults
    /\ pc \in [Writers -> {"idle", "get", "toggle"}]
    /\ want \in [Writers -> BOOLEAN]
    /\ ret \in [Writers -> {"none", "ok", "failed", "EIO"}]
    /\ faults \in 0..MaxFaults
    /\ seen \in [Writers -> BOOLEAN]
    /\ crowded \in [Writers -> BOOLEAN]
    /\ settled \in {"open", "on", "off"}

(* The host may come up beside a part that kept running, relay closed.     *)
Init ==
    /\ relay \in BOOLEAN
    /\ late = 0
    /\ pc = [w \in Writers |-> "idle"]
    /\ want = [w \in Writers |-> FALSE]
    /\ ret = [w \in Writers |-> "none"]
    /\ faults = 0
    /\ seen = [w \in Writers |-> FALSE]
    /\ crowded = [w \in Writers |-> FALSE]
    /\ settled = "open"

-----------------------------------------------------------------------------
(* History: what the relay being r now says to the writes in progress.     *)
Witness(r) == [w \in Writers |-> seen[w] \/ (Active(w) /\ want[w] = r)]

Start(w, v) ==
    /\ ~Active(w)
    /\ pc' = [pc EXCEPT ![w] = "get"]
    /\ want' = [want EXCEPT ![w] = v]
    /\ seen' = [seen EXCEPT ![w] = (relay = v)]
    /\ crowded' = [u \in Writers |->
                     IF u = w THEN \E x \in Writers \ {w} : Active(x)
                              ELSE crowded[u] \/ Active(u)]
    /\ settled' = "open"
    /\ UNCHANGED <<relay, late, ret, faults>>

Return(w, code) ==
    /\ pc' = [pc EXCEPT ![w] = "idle"]
    /\ ret' = [ret EXCEPT ![w] = code]

(* History: a lone success fixes what the relay should be from now on.     *)
Settle(w, code) ==
    settled' = IF code = "ok" /\ ~crowded[w]
                 THEN IF want[w] THEN "on" ELSE "off"
                 ELSE settled

(* ohc_relay_get succeeds; equal means nothing to do.                      *)
Get(w) ==
    /\ pc[w] = "get"
    /\ late = 0
    /\ IF relay = want[w]
         THEN Return(w, "ok") /\ Settle(w, "ok")
         ELSE /\ pc' = [pc EXCEPT ![w] = "toggle"]
              /\ UNCHANGED <<ret, settled>>
    /\ UNCHANGED <<relay, late, want, faults, seen, crowded>>

(* Mutant: a failed read is taken for "nothing to do".                     *)
MutantGetFails(w) ==
    /\ pc[w] = "get"
    /\ faults < MaxFaults
    /\ faults' = faults + 1
    /\ Return(w, "ok") /\ Settle(w, "ok")
    /\ UNCHANGED <<relay, late, want, seen, crowded>>

(* The read times out or is interrupted; a read has no effect to be late.  *)
GetFails(w) ==
    /\ pc[w] = "get"
    /\ faults < MaxFaults
    /\ faults' = faults + 1
    /\ Return(w, "failed")
    /\ UNCHANGED <<relay, late, want, seen, crowded, settled>>

(* ohc_relay_toggle succeeds: the firmware flips the bit and says what it  *)
(* is now; a state that is not the one asked for is an error.              *)
Toggle(w) ==
    /\ pc[w] = "toggle"
    /\ late = 0
    /\ relay' = ~relay
    /\ seen' = Witness(~relay)
    /\ LET code == IF ~relay = want[w] THEN "ok" ELSE "EIO"
       IN  Return(w, code) /\ Settle(w, code)
    /\ UNCHANGED <<late, want, faults, crowded>>

(* The TOGGLE fails: it was lost, or its answer was, or it is still on its *)
(* way to the firmware.                                                    *)
ToggleFails(w) ==
    /\ pc[w] = "toggle"
    /\ faults < MaxFaults
    /\ faults' = faults + 1
    /\ \/ UNCHANGED <<relay, late, seen>>
       \/ late = 0 /\ relay' = ~relay /\ seen' = Witness(~relay) /\ UNCHANGED late
       \/ late' = late + 1 /\ UNCHANGED <<relay, seen>>
    /\ Return(w, "failed")
    /\ UNCHANGED <<want, crowded, settled>>

-----------------------------------------------------------------------------

(* The firmware acts on a TOGGLE its caller has given up on, or the line   *)
(* loses it after all.                                                     *)
LateToggle ==
    /\ late > 0
    /\ late' = late - 1
    /\ \/ relay' = ~relay /\ seen' = Witness(~relay)
       \/ UNCHANGED <<relay, seen>>
    /\ UNCHANGED <<pc, want, ret, faults, crowded, settled>>

(* The part resets, or takes another pin table: teardown releases every    *)
(* relay, and what was in its ring is gone.                                *)
PartReset ==
    /\ faults < MaxFaults
    /\ faults' = faults + 1
    /\ relay' = FALSE
    /\ late' = 0
    /\ seen' = Witness(FALSE)
    /\ settled' = "open"
    /\ crowded' = [w \in Writers |-> crowded[w] \/ Active(w)]
    /\ UNCHANGED <<pc, want, ret>>

-----------------------------------------------------------------------------
Next ==
    \/ \E w \in Writers :
         \/ \E v \in BOOLEAN : Start(w, v)
         \/ Get(w) \/ GetFails(w) \/ Toggle(w) \/ ToggleFails(w)
    \/ LateToggle \/ PartReset

Spec == Init /\ [][Next]_vars

-----------------------------------------------------------------------------
(* Properties.                                                             *)

(* A write that reports success is not lying: at some moment between its   *)
(* start and its return the relay had the value asked for, whatever other  *)
(* writers, late toggles and resets did (ohc_gpio_set, ohc_node_write).    *)
SuccessWasTrue ==
    \A w \in Writers : ~Active(w) /\ ret[w] = "ok" => seen[w]

(* A successful write that no other write overlapped leaves the relay as   *)
(* asked until the next write or a reset, even when it was a retry after a *)
(* TOGGLE that timed out and was acted upon later.                         *)
LoneWriteStands ==
    settled # "open" => relay = (settled = "on")

(* Both: what a write reports, it did (ohc_gpio_set, ohc_node_write).       *)
WritesAreTrue == SuccessWasTrue /\ LoneWriteStands

(* "gpiod_set_value() is expected to be idempotent": when every writer     *)
(* asked for the same value and all have returned without a fault, the     *)
(* relay has that value.                                                   *)
SameValueIsIdempotent ==
    \A v \in BOOLEAN :
        (/\ faults = 0
         /\ \A w \in Writers : ~Active(w) /\ ret[w] # "none" /\ want[w] = v)
            => relay = v

=============================================================================
