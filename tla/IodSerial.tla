----------------------------- MODULE IodSerial -----------------------------
(***************************************************************************)
(* iod's serial ports (serial.rs), the terminals on them, the serial        *)
(* commands and the combo jack's switch: one port, its one session, and     *)
(* the task that owns the file.  iod runs on one thread, so a handler is    *)
(* one step and the pump moves only between handlers.                       *)
(*                                                                          *)
(* The port is a host UART with modem lines or a combo jack's UART, which   *)
(* the kernel opens only while the jack's mode is serial.  Another program  *)
(* may have it open, and a driver unbound takes it away.                    *)
(***************************************************************************)
EXTENDS Naturals, Sequences, FiniteSets

CONSTANTS
    Viewers,        \* terminals
    Bauds,          \* rates asked for
    Default,        \* the rate board.rs gives every port
    MaxSessions,    \* bound: sessions opened
    MaxHangups,     \* bound: times the driver goes away
    MaxRestarts     \* bound: restarts of iod

VARIABLES
    combo,          \* the port shares an IR jack
    mode,           \* the jack's mode in the kernel
    saved,          \* the mode in iod.json
    there,          \* the tty exists
    other,          \* another program has it open
    sess,           \* every session opened since iod started
    hub,            \* the port's session in the hub, 0 for none
    watching,       \* watching[v]: the session v's terminal is on, 0 for none
    published,      \* state published: baud, viewers, jack
    rate, lines,    \* what the UART runs at and drives
    foreign,        \* history: another program's open raised the lines since iod drove them
    reply,          \* the last answer to a change of mode
    hangups, restarts

port == <<combo, mode, saved, there, other, rate, lines, foreign>>
vars == <<port, sess, hub, watching, published, reply, hangups, restarts>>

Line == {"dtr", "rts"}
Raised == [l \in Line |-> TRUE]
Dropped == [l \in Line |-> FALSE]

Fresh(b) == [baud |-> b, want |-> Raised, clients |-> 0, reopen |-> <<>>,
             stop |-> FALSE, pump |-> "open"]
Ids == 1..Len(sess)

TypeOK ==
    /\ mode \in {"ir", "serial"} /\ saved \in {"none", "ir", "serial"}
    /\ {combo, there, other, foreign} \subseteq BOOLEAN
    /\ \A s \in Ids :
          /\ sess[s].pump \in {"open", "hung", "gone"} /\ sess[s].stop \in BOOLEAN
          /\ sess[s].clients \in 0..Cardinality(Viewers)
    /\ hub \in 0..Len(sess) /\ watching \in [Viewers -> 0..Len(sess)]
    /\ lines \in [Line -> BOOLEAN] /\ reply \in {"none", "ok", "busy", "unsaved"}

-----------------------------------------------------------------------------
(* open_serial: rates outside the table run at 115200.                     *)
open_serial(b) == IF b \in {9600, 19200, 38400, 57600, 115200, 230400, 460800, 921600}
                  THEN b ELSE 115200
CanOpen(m) == there /\ (combo => m = "serial")
Open(ss, o) == o \/ \E s \in 1..Len(ss) : ss[s].pump = "open"

(* "Opening a tty raises both", whoever opens it and whoever has it open;    *)
(* the last to close drops them.                                           *)
LinesOpened == Raised
LinesClosed(ss, o) == IF Open(ss, o) THEN lines ELSE Dropped

(* Hub::session: the port's session, opened by the first caller.           *)
session(b, m) ==
    IF hub # 0 THEN [s |-> hub, sess |-> sess, published |-> published, rate |-> rate,
                     lines |-> lines, foreign |-> foreign]
    ELSE IF ~CanOpen(m) THEN [s |-> 0]
    ELSE [s |-> Len(sess) + 1, sess |-> Append(sess, Fresh(b)),
          published |-> [published EXCEPT !.baud = b, !.viewers = 0],
          rate |-> open_serial(b), lines |-> LinesOpened, foreign |-> FALSE]
Room == hub # 0 \/ Len(sess) < MaxSessions

Becomes(r) ==
    /\ hub' = r.s /\ sess' = r.sess /\ published' = r.published
    /\ rate' = r.rate /\ lines' = r.lines /\ foreign' = r.foreign

-----------------------------------------------------------------------------
(* Commands.  serial_write and serial_baud open a session at the port's     *)
(* own rate when there is none; the new rate is published at once.          *)
serial_write ==
    /\ Room /\ session(Default, mode).s # 0 /\ Becomes(session(Default, mode))
    /\ UNCHANGED <<combo, mode, saved, there, other, watching, reply, hangups, restarts>>

serial_baud(b) ==
    LET r == session(Default, mode) IN
    /\ Room /\ r.s # 0 /\ r.sess[r.s].reopen = <<>>
    /\ Becomes([r EXCEPT !.sess[r.s].baud = b, !.sess[r.s].reopen = Append(@, b),
                         !.published.baud = b])
    /\ UNCHANGED <<combo, mode, saved, there, other, watching, reply, hangups, restarts>>

(* The wish is stored first; the lines are driven through a second file,    *)
(* which raises both as it opens and drops neither as it closes.           *)
serial_line(l, on) ==
    LET r == session(Default, mode)
        held == there /\ Open(r.sess, other) IN
    /\ ~combo /\ Room /\ r.s # 0
    /\ Becomes([r EXCEPT !.sess[r.s].want[l] = on,
                         !.lines = IF held THEN [r.sess[r.s].want EXCEPT ![l] = on] ELSE @,
                         !.foreign = @ /\ ~held])
    /\ UNCHANGED <<combo, mode, saved, there, other, watching, reply, hangups, restarts>>

(* A terminal: ws_serial opens at the rate last published, serial_loop      *)
(* joins.  A terminal stays on its session until its socket closes: the     *)
(* session it holds keeps the stream open even when the pump has ended.     *)
ws_serial(v) ==
    LET r == session(published.baud, mode) IN
    /\ watching[v] = 0 /\ (combo => mode = "serial") /\ Room /\ r.s # 0
    /\ Becomes([r EXCEPT !.sess[r.s].clients = @ + 1,
                         !.published.viewers = r.sess[r.s].clients + 1])
    /\ watching' = [watching EXCEPT ![v] = r.s]
    /\ UNCHANGED <<combo, mode, saved, there, other, reply, hangups, restarts>>

leave(v) ==
    LET s == watching[v] IN
    /\ s # 0
    /\ sess' = [sess EXCEPT ![s].clients = @ - 1]
    /\ published' = [published EXCEPT !.viewers = sess[s].clients - 1]
    /\ watching' = [watching EXCEPT ![v] = 0]
    /\ UNCHANGED <<port, hub, reply, hangups, restarts>>

(* jack_put.  To IR it closes the session first: the pump is told, and has  *)
(* not run yet when the kernel is asked.  A save may fail.                  *)
(* Mutant: the pump is not told.                                            *)
MutantClose == sess
close == IF hub = 0 THEN sess ELSE [sess EXCEPT ![hub].stop = TRUE]

Saved(m) ==
    \/ saved' = m /\ reply' = "ok" /\ published' = [published EXCEPT !.jack = m]
    \/ saved' = saved /\ reply' = "unsaved" /\ published' = published

JackIr ==
    /\ combo /\ sess' = close /\ hub' = 0
    /\ IF mode = "serial" /\ Open(sess, other)
       THEN reply' = "busy" /\ UNCHANGED <<mode, saved, published>>
       ELSE mode' = "ir" /\ Saved("ir")
    /\ UNCHANGED <<combo, there, other, rate, lines, foreign, watching, hangups, restarts>>

JackSerial ==
    LET r == session(Default, "serial") IN
    /\ combo /\ there /\ Room /\ mode' = "serial"
    /\ hub' = r.s /\ sess' = r.sess
    /\ rate' = r.rate /\ lines' = r.lines /\ foreign' = r.foreign
    /\ \/ saved' = "serial" /\ reply' = "ok" /\ published' = [r.published EXCEPT !.jack = "serial"]
       \/ saved' = saved /\ reply' = "unsaved" /\ published' = r.published
    /\ UNCHANGED <<combo, there, other, watching, hangups, restarts>>

-----------------------------------------------------------------------------
(* The pump.  tokio's select takes whichever of these is ready, in any      *)
(* order.                                                                   *)
Live(s) == sess[s].pump \in {"open", "hung"}
Stopped(s) ==
    LET ss == [sess EXCEPT ![s].pump = "gone"] IN
    /\ Live(s) /\ sess[s].stop
    /\ sess' = ss /\ lines' = LinesClosed(ss, other)
    /\ UNCHANGED <<combo, mode, saved, there, other, rate, foreign, hub, watching, published, reply, hangups, restarts>>

(* Closed and opened again at the new rate, and the lines put back as they  *)
(* were asked for.  When the port cannot be opened the pump ends, and its   *)
(* session stays in the hub.  Mutant: the lines stay as the open left them. *)
MutantReapplied(s) == LinesOpened
apply_lines(s) == sess[s].want
Reopen(s) ==
    LET without == [sess EXCEPT ![s].pump = "gone", ![s].reopen = Tail(@)] IN
    /\ Live(s) /\ sess[s].reopen # <<>>
    /\ IF CanOpen(mode)
       THEN /\ sess' = [without EXCEPT ![s].pump = "open"]
            /\ rate' = open_serial(Head(sess[s].reopen))
            /\ lines' = apply_lines(s) /\ foreign' = FALSE
       ELSE /\ sess' = without /\ lines' = LinesClosed(without, other)
            /\ UNCHANGED <<rate, foreign>>
    /\ UNCHANGED <<combo, mode, saved, there, other, hub, watching, published, reply, hangups, restarts>>

-----------------------------------------------------------------------------
(* The driver is unbound under the port (an MCU reset does it): a file open *)
(* on it reads nothing from then on.                                        *)
Hangup ==
    /\ there /\ hangups < MaxHangups /\ hangups' = hangups + 1
    /\ there' = FALSE /\ other' = FALSE /\ lines' = Dropped
    /\ sess' = [s \in Ids |-> [sess[s] EXCEPT !.pump = IF @ = "open" THEN "hung" ELSE @]]
    /\ UNCHANGED <<combo, mode, saved, rate, foreign, hub, watching, published, reply, restarts>>
Return ==
    /\ ~there /\ there' = TRUE
    /\ UNCHANGED <<combo, mode, saved, other, rate, lines, foreign, sess, hub, watching, published, reply,
                   hangups, restarts>>

Other ==
    /\ IF other THEN other' = FALSE /\ lines' = LinesClosed(sess, FALSE) /\ UNCHANGED foreign
       ELSE CanOpen(mode) /\ other' = TRUE /\ lines' = LinesOpened /\ foreign' = TRUE
    /\ UNCHANGED <<combo, mode, saved, there, rate, sess, hub, watching, published, reply, hangups, restarts>>

(* main: the saved mode first, then every port that is serial is opened     *)
(* and held.                                                                *)
main(m) ==
    LET opens == CanOpen(m) IN
    /\ mode' = m
    /\ sess' = IF opens THEN <<Fresh(Default)>> ELSE <<>>
    /\ hub' = IF opens THEN 1 ELSE 0
    /\ rate' = IF opens THEN open_serial(Default) ELSE rate
    /\ lines' = IF opens THEN LinesOpened ELSE LinesClosed(<<>>, other)
    /\ foreign' = FALSE
    /\ published' = [baud |-> Default, viewers |-> 0, jack |-> "none"]
    /\ watching' = [v \in Viewers |-> 0] /\ reply' = "none"

Restart ==
    /\ restarts < MaxRestarts /\ restarts' = restarts + 1
    /\ main(IF combo /\ there /\ saved # "none" /\ ~(saved = "ir" /\ other) THEN saved ELSE mode)
    /\ UNCHANGED <<combo, saved, there, other, hangups>>

-----------------------------------------------------------------------------
Init ==
    /\ combo \in BOOLEAN /\ saved = "none" /\ there = TRUE /\ other = FALSE
    /\ mode = "serial" /\ reply = "none" /\ hangups = 0 /\ restarts = 0
    /\ sess = <<Fresh(Default)>> /\ hub = 1 /\ rate = Default /\ lines = Raised
    /\ foreign = FALSE
    /\ published = [baud |-> Default, viewers |-> 0, jack |-> "none"]
    /\ watching = [v \in Viewers |-> 0]

Command ==
    \/ serial_write \/ (\E b \in Bauds : serial_baud(b))
    \/ (\E l \in Line, on \in BOOLEAN : serial_line(l, on))
    \/ (\E v \in Viewers : ws_serial(v) \/ leave(v)) \/ JackIr \/ JackSerial
pump == \E s \in Ids : Stopped(s) \/ Reopen(s)
Next == Command \/ pump \/ Hangup \/ Return \/ Other \/ Restart

Spec == Init /\ [][Next]_vars

-----------------------------------------------------------------------------
(* Two tasks reading one tty would get half the bytes each: of the pumps    *)
(* that hold the port, at most one has not been told to stop, however the   *)
(* jack's mode goes back and forth and the port comes and goes.             *)
Reads(s) == sess[s].pump = "open" /\ ~sess[s].stop
OneReader == \A s, u \in Ids : Reads(s) /\ Reads(u) => s = u

(* A line somebody dropped to power down what hangs on it stays dropped:    *)
(* neither a change of rate nor a terminal coming or going raises it while  *)
(* the session lives.  One case is excepted by name: another program that   *)
(* opens the tty raises both, and nothing puts them back before iod drives  *)
(* them again, for a command or a change of rate.                           *)
LinesKept ==
    hub # 0 /\ sess[hub].pump = "open" /\ ~combo /\ ~foreign => lines = sess[hub].want

=============================================================================
