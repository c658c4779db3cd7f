---------------------------- MODULE SysmondUsb ----------------------------
(***************************************************************************)
(* sysmond's recovery of the rear USB port: a thread polls the load         *)
(* switch's fault line and cuts the port for 2.5 s on its falling edge.     *)
(* The user may switch the same port at any time, and the daemon may be     *)
(* restarted while it holds the port off.                                  *)
(***************************************************************************)
EXTENDS Naturals

CONSTANTS
    MaxFaults,      \* bound: over-currents recovered
    MaxUsbRestarts  \* bound: restarts of the daemon

VARIABLES
    short,      \* the load draws too much
    disabled,   \* the port's disable attribute
    was,        \* the watcher's last reading of the fault line
    pc,         \* where the watcher is: poll, check, cut, off
    status,     \* faults and cut of Status
    shown,      \* health/usb as last published
    changed,    \* usb_changed has a permit
    users,      \* the user switched the port off and has not switched it on
    usbRestarts

vars == <<short, disabled, was, pc, status, shown, changed, users, usbRestarts>>

TypeOK ==
    /\ {short, disabled, was, changed, users} \subseteq BOOLEAN
    /\ pc \in {"poll", "check", "cut", "off"}
    /\ {status, shown} \subseteq [faults : 0..MaxFaults, cut : BOOLEAN]

(* The line as the watcher reads it: with the port off the switch may drop  *)
(* its flag or hold it.                                                     *)
Fault == IF disabled THEN {FALSE, short} ELSE {short}

Short == short' = ~short /\ UNCHANGED <<disabled, was, pc, status, shown, changed, users, usbRestarts>>

(* The user writes the attribute: off, or back on.                         *)
UserOff ==
    /\ ~disabled /\ disabled' = TRUE /\ users' = (pc \in {"poll", "check"})
    /\ UNCHANGED <<short, was, pc, status, shown, changed, usbRestarts>>
UserOn ==
    /\ disabled /\ disabled' = FALSE /\ users' = FALSE
    /\ UNCHANGED <<short, was, pc, status, shown, changed, usbRestarts>>

-----------------------------------------------------------------------------
(* One poll: only a change from clear to fault counts.                     *)
Poll ==
    /\ pc = "poll" /\ status.faults < MaxFaults
    /\ \E now \in Fault : IF now /\ ~was THEN pc' = "check" /\ was' = was
                          ELSE was' = now /\ pc' = pc
    /\ UNCHANGED <<short, disabled, status, shown, changed, users, usbRestarts>>

(* The port may be gone (its controller re-probed), or switched off by its  *)
(* user.  Mutant: a port that is off already is cut all the same.           *)
MutantTheirs == FALSE
Theirs == disabled
Check ==
    /\ pc = "check"
    /\ \/ pc' = "poll" /\ was' = was /\ UNCHANGED <<status, changed>>
       \/ Theirs /\ pc' = "poll" /\ was' = TRUE /\ UNCHANGED <<status, changed>>
       \/ /\ ~Theirs /\ pc' = "cut" /\ was' = was
          /\ status' = [faults |-> status.faults + 1, cut |-> TRUE] /\ changed' = TRUE
    /\ UNCHANGED <<short, disabled, shown, users, usbRestarts>>

Cut ==
    /\ pc = "cut" /\ disabled' = TRUE /\ pc' = "off"
    /\ UNCHANGED <<short, was, status, shown, changed, users, usbRestarts>>

(* After 2.5 s: re-armed on the line as it reads with the port still off.  *)
PowerUp ==
    /\ pc = "off" /\ was' \in Fault /\ disabled' = FALSE /\ pc' = "poll"
    /\ status' = [status EXCEPT !.cut = FALSE] /\ changed' = TRUE
    /\ UNCHANGED <<short, shown, users, usbRestarts>>

UsbChanged ==
    /\ changed /\ changed' = FALSE /\ shown' = status
    /\ UNCHANGED <<short, disabled, was, pc, status, users, usbRestarts>>

spawn ==
    /\ usbRestarts < MaxUsbRestarts /\ usbRestarts' = usbRestarts + 1
    /\ pc' = "poll" /\ was' \in Fault
    /\ status' = [faults |-> 0, cut |-> FALSE] /\ changed' = TRUE
    /\ UNCHANGED <<short, disabled, shown, users>>

-----------------------------------------------------------------------------
Init ==
    /\ short \in BOOLEAN /\ disabled = FALSE /\ was = short /\ pc = "poll"
    /\ status = [faults |-> 0, cut |-> FALSE] /\ shown = status
    /\ changed = FALSE /\ users = FALSE /\ usbRestarts = 0

Next == Short \/ UserOff \/ UserOn \/ Poll \/ Check \/ Cut \/ PowerUp \/ UsbChanged \/ spawn

Spec == Init /\ [][Next]_vars /\ WF_vars(Cut) /\ WF_vars(PowerUp) /\ WF_vars(UsbChanged)

-----------------------------------------------------------------------------
(* A port its user switched off while recovery was not at it stays off      *)
(* until the user switches it on, whatever the fault line does then and     *)
(* across restarts: it is theirs to switch back on.                         *)
UsersOffStays == users => disabled
=============================================================================
