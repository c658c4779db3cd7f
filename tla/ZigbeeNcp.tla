----------------------------- MODULE ZigbeeNcp -----------------------------
(***************************************************************************)
(* zigbee: the program that keeps the EM35x radio on openHC's firmware.     *)
(* One run finds the app (a "2" to a waiting bootloader, an ASH reset and   *)
(* the EZSP version), and when the app is behind, or only the bootloader    *)
(* answers, uploads an image over XMODEM.  The same steps put Control4's    *)
(* image back (--restore-stock) or flash by hand (--flash).  The radio      *)
(* keeps its own state while the program is killed and started again.       *)
(* Versions are numbers, 0 an app slot with nothing valid in it.            *)
(***************************************************************************)
EXTENDS Naturals

CONSTANTS
    Shipped,      \* the app a radio may come with
    Ours,         \* the bundled image
    Stock,        \* Control4's image, older than ours
    Blocks,       \* XMODEM blocks of an image
    MaxTries,     \* bound: tries of one block or of the end (10 and 5 in the code)
    MaxLosses,    \* bound: lost or late frames
    MaxKills,     \* bound: power cuts and restarts of the program
    MaxByHand     \* bound: runs by hand

VARIABLES
    radio,   \* mode, slot, blocks written, next ASH frame it accepts, has a bootloader,
             \* is reset by its port's DTR (the CA-1's)
    pc,      \* the host's next step
    task,    \* ensure, stock or flash
    host,    \* locals: app found, second find, round, tx, tries, block
    stale,   \* an XMODEM ACK still on its way
    losses, kills, byhand

vars == <<radio, pc, task, host, stale, losses, kills, byhand>>
bounds == <<losses, kills, byhand>>

Fresh == [found |-> 0, after |-> FALSE, round |-> 1, tx |-> 0, tries |-> 0, block |-> 1]
TypeOK ==
    /\ radio \in [mode : {"app", "leaving", "quiet", "menu", "upload"}, slot : {0, Ours, Stock} \cup Shipped,
                  blocks : 0..Blocks, expects : 0..7, btl : BOOLEAN, dtr : BOOLEAN]
    /\ pc \in {"idle", "poke", "reset", "version", "decide", "look", "relock", "reversion", "launch",
               "sleep", "prompt", "ask", "block", "eot", "run"}
    /\ task \in {"ensure", "stock", "flash"} /\ stale \in BOOLEAN
    /\ losses \in 0..MaxLosses /\ kills \in 0..MaxKills

load_image == IF task = "stock" THEN Stock ELSE Ours
Lose == losses < MaxLosses /\ losses' = losses + 1 /\ UNCHANGED <<kills, byhand>>
Goto(p, h) == pc' = p /\ host' = h
Again(h) == [h EXCEPT !.tries = @ + 1]
From0(h) == [h EXCEPT !.tries = 0]

-----------------------------------------------------------------------------
(* What the radio does with what reaches it.                                *)
HearsRun(r) == IF r.mode = "menu" /\ r.slot # 0 THEN [r EXCEPT !.mode = "app", !.expects = 0] ELSE r
HearsRst(r) ==
    CASE r.mode = "app" -> [r EXCEPT !.expects = 0]
      [] r.mode = "leaving" -> [r EXCEPT !.mode = "app", !.expects = 0]
      [] r.mode = "quiet" -> [r EXCEPT !.mode = "menu"]
      [] OTHER -> r
HearsLaunch(r) == IF r.btl THEN [r EXCEPT !.mode = "leaving"] ELSE r
HearsBlock(r, n) ==
    IF n = r.blocks + 1 THEN [r EXCEPT !.blocks = n, !.slot = 0]
    ELSE IF n <= r.blocks THEN r ELSE [r EXCEPT !.mode = "menu"]
HearsEot(r, v) == [r EXCEPT !.mode = "menu", !.slot = IF r.blocks = Blocks THEN v ELSE @]

(* A launch acknowledged: the app runs on for some seconds, then is quiet   *)
(* until a frame arrives, or has gone at once.                              *)
RadioLeaves ==
    /\ radio.mode = "leaving" /\ \E m \in {"quiet", "menu"} : radio' = [radio EXCEPT !.mode = m]
    /\ UNCHANGED <<pc, task, host, stale, bounds>>
RadioGivesUp ==
    /\ radio.mode = "upload" /\ pc \notin {"block", "eot"}
    /\ radio' = [radio EXCEPT !.mode = "menu"]
    /\ UNCHANGED <<pc, task, host, stale, bounds>>

-----------------------------------------------------------------------------
(* open_serial: the tty raises DTR, which resets the CA-1's radio into its  *)
(* bootloader.                                                             *)
open_serial(r) == IF r.dtr THEN [r EXCEPT !.mode = "menu"] ELSE r
Begin(t) ==
    /\ pc = "idle" /\ task' = t /\ Goto("poke", Fresh)
    /\ radio' = open_serial(radio) /\ UNCHANGED <<stale, losses, kills>>
main == Begin("ensure") /\ UNCHANGED byhand
restore == byhand < MaxByHand /\ byhand' = byhand + 1 /\ Begin("stock")
forced == byhand < MaxByHand /\ byhand' = byhand + 1 /\ Begin("flash")

(* find_app: the "2" goes out once; then two rounds of reset and version.   *)
find_app ==
    /\ pc = "poke" /\ Goto("reset", [host EXCEPT !.found = 0, !.round = 1])
    /\ \/ radio' = HearsRun(radio) /\ UNCHANGED bounds
       \/ radio' = radio /\ Lose
    /\ UNCHANGED <<task, stale>>

NextRound ==
    IF host.round = 1 THEN Goto("reset", [host EXCEPT !.round = 2, !.tries = 0])
    ELSE Goto("decide", From0(host))

(* Before a flash: a run by hand goes on whether or not the app answers.    *)
Lost == IF task = "flash" THEN Goto("launch", From0(host)) ELSE Goto("idle", Fresh)

(* Ash::reset: both sides number their frames from 0 again.                 *)
Unreset(p) == IF p = "reset" THEN NextRound
              ELSE IF task = "flash" THEN Goto("launch", [From0(host) EXCEPT !.tx = 0])
              ELSE Goto("idle", Fresh)
reset ==
    /\ pc \in {"reset", "relock"}
    /\ \/ /\ radio' = HearsRst(radio) /\ UNCHANGED bounds
          /\ IF radio.mode = "app"
             THEN Goto(IF pc = "reset" THEN "version" ELSE "reversion", [From0(host) EXCEPT !.tx = 0])
             ELSE Unreset(pc)
       \/ /\ radio' \in {radio, HearsRst(radio)} /\ Lose /\ Unreset(pc)
    /\ UNCHANGED <<task, stale>>

(* Ash::ezsp: three attempts, each a new ASH frame; the radio takes a frame *)
(* only under the number it expects.  done is the radio after the command,  *)
(* answered where the host goes with the reply, none where without.         *)
Attempt(done, answered, none) ==
    LET taken == radio.mode = "app" /\ radio.expects = host.tx
        executed == [done EXCEPT !.expects = (@ + 1) % 8]
        on == IF host.tries < 2 THEN Goto(pc, [Again(host) EXCEPT !.tx = (@ + 1) % 8]) ELSE none
    IN  \/ taken /\ radio' = executed /\ UNCHANGED bounds /\ answered
        \/ taken /\ radio' = executed /\ Lose /\ on
        \/ taken /\ radio' = radio /\ Lose /\ on
        \/ ~taken /\ UNCHANGED bounds /\ on
           /\ radio' = IF radio.mode \in {"leaving", "quiet"} THEN HearsRst(radio) ELSE radio

version ==
    /\ pc \in {"version", "reversion"}
    /\ Attempt(radio,
               IF pc = "version" THEN Goto("decide", [From0(host) EXCEPT !.found = radio.slot])
               ELSE Goto("launch", From0(host)),
               IF pc = "version" THEN NextRound ELSE Lost)
    /\ UNCHANGED <<task, stale>>

(* An update that fails looks for the app once more; the other two end.     *)
FlashFailed ==
    IF task = "ensure" /\ host.found # 0 THEN Goto("poke", [Fresh EXCEPT !.after = TRUE])
    ELSE Goto("idle", Fresh)

(* What ensure, restore and --flash do with the app they found.             *)
Finished ==
    \/ host.after
    \/ task = "ensure" /\ host.found >= Ours
    \/ task = "stock" /\ host.found # 0 /\ host.found < Ours
ensure ==
    /\ pc = "decide"
    /\ IF Finished THEN Goto("idle", Fresh)
       ELSE IF host.found # 0 THEN Goto("relock", host)
       ELSE Goto(IF task = "flash" THEN "prompt" ELSE "look", host)
    /\ UNCHANGED <<radio, task, stale, bounds>>

(* No app answered: does the bootloader?                                    *)
(* Mutant: a radio no app answers on is given up.                           *)
MutantResident == Goto("idle", Fresh)
Resident == Goto("prompt", From0(host))
at_prompt ==
    /\ pc = "look"
    /\ \/ UNCHANGED bounds /\ IF radio.mode = "menu" THEN Resident ELSE Goto("idle", Fresh)
       \/ Lose /\ Goto("idle", Fresh)
    /\ UNCHANGED <<radio, task, stale>>

launch_bootloader ==
    /\ pc = "launch"
    /\ Attempt(HearsLaunch(radio), IF radio.btl THEN Goto("sleep", From0(host)) ELSE FlashFailed, FlashFailed)
    /\ UNCHANGED <<task, stale>>

(* Seven seconds, then the frame that makes a quiet app jump.               *)
Jump ==
    /\ pc = "sleep" /\ radio.mode # "leaving" /\ Goto("prompt", host)
    /\ \/ radio' = HearsRst(radio) /\ UNCHANGED bounds
       \/ radio' = radio /\ Lose
    /\ UNCHANGED <<task, stale>>

Unprompted == IF host.tries < 2 THEN Goto("prompt", Again(host)) ELSE FlashFailed
flash ==
    /\ pc = "prompt"
    /\ \/ UNCHANGED bounds /\ IF radio.mode = "menu" THEN Goto("ask", From0(host)) ELSE Unprompted
       \/ Lose /\ Unprompted
    /\ UNCHANGED <<radio, task, stale>>

(* upload: "1", then the blocks, then the end.  What it has read is flushed *)
(* before each block, but not what is still on its way.                     *)
upload ==
    /\ pc = "ask"
    /\ \/ /\ radio.mode = "menu" /\ radio' = [radio EXCEPT !.mode = "upload", !.blocks = 0]
          /\ Goto("block", host) /\ UNCHANGED bounds
       \/ radio' = radio /\ Lose /\ FlashFailed
    /\ stale' = FALSE /\ UNCHANGED task

Acked == IF host.block = Blocks THEN Goto("eot", From0(host))
         ELSE Goto("block", [From0(host) EXCEPT !.block = @ + 1])
Unacked(p) == IF host.tries + 1 < MaxTries THEN Goto(p, Again(host)) ELSE FlashFailed
block ==
    /\ pc = "block"
    /\ \/ /\ radio' = HearsBlock(radio, host.block) /\ UNCHANGED <<bounds, stale>>
          /\ IF radio'.mode = "upload" THEN Acked ELSE FlashFailed
       \/ /\ radio' = HearsBlock(radio, host.block) /\ radio'.mode = "upload" /\ Lose
          /\ IF stale THEN Acked ELSE Unacked("block")
          /\ stale' = TRUE
       \/ /\ radio' = radio /\ Lose /\ stale' = FALSE
          /\ IF stale THEN Acked ELSE Unacked("block")
    /\ UNCHANGED task

End ==
    /\ pc = "eot" /\ stale' = FALSE
    /\ \/ /\ UNCHANGED bounds /\ radio' = IF radio.mode = "upload" THEN HearsEot(radio, load_image) ELSE radio
          /\ IF radio.mode = "upload" \/ stale THEN Goto("run", host) ELSE Unacked("eot")
       \/ /\ radio.mode = "upload" /\ radio' \in {radio, HearsEot(radio, load_image)} /\ Lose
          /\ IF stale THEN Goto("run", host) ELSE Unacked("eot")
    /\ UNCHANGED task

(* run_app, and the second look for the app.                                *)
run_app ==
    /\ pc = "run" /\ Goto("poke", [Fresh EXCEPT !.after = TRUE])
    /\ \/ radio' = HearsRun(radio) /\ UNCHANGED bounds
       \/ radio' = radio /\ Lose
    /\ UNCHANGED <<task, stale>>

(* The program is killed; with a power cut the radio starts over too.       *)
Killed ==
    /\ kills < MaxKills /\ kills' = kills + 1 /\ Goto("idle", Fresh) /\ stale' = FALSE
    /\ radio' \in {radio, [radio EXCEPT !.mode = IF radio.slot = 0 THEN "menu" ELSE "app", !.expects = 0]}
    /\ UNCHANGED <<task, losses, byhand>>

-----------------------------------------------------------------------------
Init ==
    /\ \E v \in Shipped, b \in BOOLEAN, d \in BOOLEAN :
         /\ d => b
         /\ radio = [mode |-> "app", slot |-> v, blocks |-> 0, expects |-> 0, btl |-> b, dtr |-> d]
    /\ pc = "idle" /\ task = "ensure" /\ host = Fresh /\ stale = FALSE
    /\ losses = 0 /\ kills = 0 /\ byhand = 0

Run == main \/ find_app \/ reset \/ version \/ ensure \/ at_prompt \/ launch_bootloader \/ Jump
       \/ flash \/ upload \/ block \/ End \/ run_app
Next == Run \/ restore \/ forced \/ RadioLeaves \/ RadioGivesUp \/ Killed

Spec == Init /\ [][Next]_vars
(* The program is started again whenever it has ended (every boot), runs    *)
(* on, and the radio's own timers fire.                                     *)
FairSpec == Spec /\ WF_vars(Run) /\ WF_vars(RadioLeaves) /\ WF_vars(RadioGivesUp)

-----------------------------------------------------------------------------
(* Whatever was lost or cut short, a radio with a bootloader ends up on an  *)
(* app no older than ours, and stays on it; one that its port's DTR resets  *)
(* leaves it only from an opening of the port until the run has ended.     *)
RadioRecovers ==
    radio.btl ~> [](/\ radio.slot >= Ours
                    /\ radio.mode = "app" \/ (radio.dtr /\ pc # "idle"))
=============================================================================
