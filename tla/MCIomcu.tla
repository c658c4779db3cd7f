------------------------------ MODULE MCIomcu ------------------------------
(***************************************************************************)
(* The IO-MCU driver above its link, and the firmware, in one run: the      *)
(* loader (IomcuLoader, whose names are this module's own), the relay, the  *)
(* contact cache and the application's interrupt.  A behaviour is one of    *)
(* them at work while the others stand at their start.                      *)
(***************************************************************************)
EXTENDS IomcuLoader

CONSTANTS
    Writers, MaxRelayFaults,                            \* relay
    MaxFrames, MaxQueue, MaxBursts, MaxResets           \* application

ASSUME RelayConstants == MaxRelayFaults \in Nat

ASSUME AppConstants ==
    MaxFrames \in Nat /\ MaxQueue \in Nat /\ MaxBursts \in Nat /\ MaxResets \in Nat

VARIABLES
    part_,      \* who is at work
    relay, late, wpc, want, ret, wfaults, seen, crowded, settled,            \* relay
    contact, alive, flashed, polling, mask, valid, poll, pollMask, rd, rdMask, out,
    changes,                                                                 \* contacts
    ringq, sent, serial, resets, apc, back, run, table, tx, left, emitting, capOn, capRun,
    uartOn, fate                                                             \* application

Relay == INSTANCE IomcuRelay WITH
    MaxFaults <- MaxRelayFaults, pc <- wpc, faults <- wfaults

Contacts == INSTANCE IomcuContacts WITH
    Readers <- {"r1", "r2"}, Ends <- TRUE, MaxChanges <- 2, updating <- flashed

App == INSTANCE IomcuApp WITH pc <- apc

-----------------------------------------------------------------------------
relayed == <<relay, late, wpc, want, ret, wfaults, seen, crowded, settled>>
cached == <<contact, alive, flashed, polling, mask, valid, poll, pollMask, rd, rdMask, out,
            changes>>
app == <<ringq, sent, serial, resets, apc, back, run, table, tx, left, emitting, capOn,
         capRun, uartOn, fate>>

(* Those that stand still stand at one of their initial states.  The contact *)
(* starts closed, which the zeroed cache is wrong about.                     *)
MCInit ==
    /\ part_ \in {"loader", "relay", "contacts", "app"}
    /\ Init /\ (part_ # "loader" => hasReset /\ first = "new")
    /\ Relay!Init /\ (part_ # "relay" => ~relay)
    /\ Contacts!Init /\ contact = 1 /\ (part_ # "contacts" => polling)
    /\ App!Init

MCNext ==
    \/ part_ = "loader" /\ Next /\ UNCHANGED <<part_, relayed, cached, app>>
    \/ part_ = "relay" /\ Relay!Next /\ UNCHANGED <<part_, vars, cached, app>>
    \/ part_ = "contacts" /\ Contacts!Next /\ UNCHANGED <<part_, vars, relayed, app>>
    \/ part_ = "app" /\ App!Next /\ UNCHANGED <<part_, vars, relayed, cached>>

(* The fairness of each, while it is the one at work.                        *)
MCFairness ==
    /\ WF_vars(part_ = "loader" /\ Worker) /\ WF_vars(part_ = "loader" /\ ClientSend)
    /\ WF_cached(part_ = "contacts" /\ Contacts!Poller)
    /\ SF_cached(part_ = "contacts" /\ Contacts!PollAsk)
    /\ WF_cached(part_ = "contacts" /\ Contacts!FlashEnd)
    /\ \A r \in {"r1", "r2"} : WF_cached(part_ = "contacts" /\ Contacts!ReaderGoesOn(r))
    /\ WF_app(part_ = "app" /\ App!MainLoop) /\ WF_app(part_ = "app" /\ App!Burst)

MCSpec == MCInit /\ [][MCNext]_<<part_, vars, relayed, cached, app>> /\ MCFairness

-----------------------------------------------------------------------------
(* The properties, stated and explained in the modules instanced; those of   *)
(* the loader are IomcuLoader's own.                                         *)

(* Relay: a write that reports success did it, and alone it stands.          *)
WritesAreTrue == Relay!WritesAreTrue

(* Contacts: the cache empties for a dead part and catches up with a live one. *)
CacheFollowsPart == Contacts!CacheFollowsPart

(* Firmware: no self-capture, one code on the air, only tabled pins driven.  *)
AppSound == App!AppSound

(* Firmware: the receiver listens again after every code.                    *)
CaptureResumes == App!CaptureResumes
=============================================================================
