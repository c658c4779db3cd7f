---------------------------- MODULE IomcuContacts ----------------------------
(***************************************************************************)
(* The contact cache of the kernel driver (gpio-ohc-iomcu.c): ohc_poll     *)
(* asks for the contact mask every poll_ms and stores it, or drops the     *)
(* cache when the part does not answer; ohc_gpio_get answers from the      *)
(* cache and falls back to an exchange of its own when there is none;      *)
(* ohc_flash drops the cache while the part is rewritten.  None of the     *)
(* three holds a lock over contact_mask and contacts_valid: io_lock covers *)
(* the exchange only, so an answer can be stored long after it was given.  *)
(*                                                                         *)
(* One contact stands for the mask: every bit is read and stored together. *)
(* An exchange is one action: acted upon and answered, or failed.  The     *)
(* answer to a failed exchange is never used, so nothing is late here.     *)
(* Stores are seen in program order, as on the x86 parts of these boards.  *)
(***************************************************************************)
EXTENDS Naturals

CONSTANTS
    Readers,     \* threads reading the contact's gpio line
    Ends,        \* TRUE: polling is switched off (poll_ms = 0) at some point
    MaxChanges   \* bound: changes of the contact, the part and poll_ms

VARIABLES
    contact,    \* the input as it is
    alive,      \* the part answers
    updating,   \* mcu->updating: ohc_flash holds the part
    polling,    \* poll_ms > 0
    mask,       \* mcu->contact_mask
    valid,      \* mcu->contacts_valid
    poll,       \* ohc_poll: "off", "scheduled", "got", "failed"
    pollMask,   \* the mask ohc_poll was answered
    rd,         \* per reader: "idle", "check", "got", "marked" or "cached"
    rdMask,     \* per reader: the mask its own exchange was answered
    out,        \* per reader: what ohc_gpio_get last returned
    changes     \* changes so far

vars == <<contact, alive, updating, polling, mask, valid, poll, pollMask,
          rd, rdMask, out, changes>>

part  == <<contact, alive, updating, polling, changes>>
cache == <<mask, valid>>
Fail == 99   \* -EIO

Levels == {0, 1}   \* open, closed

TypeOK ==
    /\ contact \in Levels
    /\ alive \in BOOLEAN /\ updating \in BOOLEAN /\ polling \in BOOLEAN
    /\ mask \in Levels
    /\ valid \in BOOLEAN
    /\ poll \in {"off", "scheduled", "got", "failed"}
    /\ pollMask \in Levels
    /\ rd \in [Readers -> {"idle", "check", "got", "marked", "cached"}]
    /\ rdMask \in [Readers -> Levels]
    /\ out \in [Readers -> Levels \cup {Fail}]
    /\ changes \in 0..MaxChanges

(* ohc_register_all: the part has answered, the first poll is scheduled    *)
(* when polling is on, and the cache is empty (kzalloc).                   *)
Init ==
    /\ contact \in Levels
    /\ alive = TRUE /\ updating = FALSE
    /\ polling \in BOOLEAN /\ (~Ends => polling)
    /\ mask = 0
    /\ valid = FALSE
    /\ poll = IF polling THEN "scheduled" ELSE "off"
    /\ pollMask = mask
    /\ rd = [r \in Readers |-> "idle"]
    /\ rdMask = [r \in Readers |-> mask]
    /\ out = [r \in Readers |-> Fail]
    /\ changes = 0

(* ohc_contacts_get can be answered: a request is refused while updating.  *)
Answers == alive /\ ~updating

-----------------------------------------------------------------------------
(* ohc_poll, on the workqueue: the exchange, then the store.               *)

PollAsk ==
    /\ poll = "scheduled"
    /\ Answers
    /\ poll' = "got"
    /\ pollMask' = contact
    /\ UNCHANGED <<part, cache, rd, rdMask, out>>

(* No answer, a refusal, or an answer that was lost.                       *)
PollFails ==
    /\ poll = "scheduled"
    /\ poll' = "failed"
    /\ UNCHANGED <<part, cache, pollMask, rd, rdMask, out>>

(* Rescheduled only while poll_ms > 0; nothing else schedules it again.    *)
Reschedule == poll' = IF polling THEN "scheduled" ELSE "off"

PollStore ==
    /\ poll = "got"
    /\ mask' = pollMask
    /\ valid' = TRUE
    /\ Reschedule
    /\ UNCHANGED <<part, pollMask, rd, rdMask, out>>

(* Mutant: a failed poll keeps the cache.                                  *)
MutantPollDrop ==
    /\ poll = "failed"
    /\ Reschedule
    /\ UNCHANGED <<part, cache, pollMask, rd, rdMask, out>>

(* A failed poll drops the cache.                                          *)
PollDrop ==
    /\ poll = "failed"
    /\ valid' = FALSE
    /\ Reschedule
    /\ UNCHANGED <<part, mask, pollMask, rd, rdMask, out>>

-----------------------------------------------------------------------------
(* ohc_gpio_get of a contact line.                                         *)

Enter(r) ==
    /\ rd[r] = "idle"
    /\ rd' = [rd EXCEPT ![r] = "check"]
    /\ UNCHANGED <<part, cache, poll, pollMask, rdMask, out>>

(* if (!mcu->contacts_valid): read once, without a lock.                   *)
UseCache(r) ==
    /\ rd[r] = "check"
    /\ valid
    /\ rd' = [rd EXCEPT ![r] = "cached"]
    /\ UNCHANGED <<part, cache, poll, pollMask, rdMask, out>>

AskLive(r) ==
    /\ rd[r] = "check"
    /\ ~valid
    /\ Answers
    /\ rd' = [rd EXCEPT ![r] = "got"]
    /\ rdMask' = [rdMask EXCEPT ![r] = contact]
    /\ UNCHANGED <<part, cache, poll, pollMask, out>>

AskFails(r) ==
    /\ rd[r] = "check"
    /\ ~valid
    /\ rd' = [rd EXCEPT ![r] = "idle"]
    /\ out' = [out EXCEPT ![r] = Fail]
    /\ UNCHANGED <<part, cache, poll, pollMask, rdMask>>

(* mcu->contact_mask = mask, then contacts_valid = true.                   *)
StoreLive(r) ==
    /\ rd[r] = "got"
    /\ mask' = rdMask[r]
    /\ rd' = [rd EXCEPT ![r] = "marked"]
    /\ UNCHANGED <<part, valid, poll, pollMask, rdMask, out>>

MarkLive(r) ==
    /\ rd[r] = "marked"
    /\ valid' = TRUE
    /\ rd' = [rd EXCEPT ![r] = "cached"]
    /\ UNCHANGED <<part, mask, poll, pollMask, rdMask, out>>

(* return !!(mcu->contact_mask & BIT(...)): the mask of this moment.       *)
Return(r) ==
    /\ rd[r] = "cached"
    /\ rd' = [rd EXCEPT ![r] = "idle"]
    /\ out' = [out EXCEPT ![r] = mask]
    /\ UNCHANGED <<part, cache, poll, pollMask, rdMask>>

-----------------------------------------------------------------------------
(* The world: the input moves, the part hangs or comes back, the driver    *)
(* rewrites it, and a user writes 0 to the module parameter poll_ms.       *)

Change ==
    /\ changes < MaxChanges
    /\ changes' = changes + 1

Move ==
    /\ Change
    /\ contact' \in Levels \ {contact}
    /\ UNCHANGED <<alive, updating, polling, cache, poll, pollMask, rd, rdMask, out>>

Hang ==
    /\ Change
    /\ alive
    /\ alive' = FALSE
    /\ UNCHANGED <<contact, updating, polling, cache, poll, pollMask, rd, rdMask, out>>

Recover ==
    /\ Change
    /\ ~alive
    /\ alive' = TRUE
    /\ UNCHANGED <<contact, updating, polling, cache, poll, pollMask, rd, rdMask, out>>

(* ohc_flash: updating = true, then contacts_valid = false.                *)
FlashBegin ==
    /\ Change
    /\ ~updating
    /\ updating' = TRUE
    /\ valid' = FALSE
    /\ UNCHANGED <<contact, alive, polling, mask, poll, pollMask, rd, rdMask, out>>

FlashEnd ==
    /\ updating
    /\ updating' = FALSE
    /\ alive' \in BOOLEAN
    /\ UNCHANGED <<contact, polling, changes, cache, poll, pollMask, rd, rdMask, out>>

PollOff ==
    /\ Change
    /\ Ends /\ polling
    /\ polling' = FALSE
    /\ UNCHANGED <<contact, alive, updating, cache, poll, pollMask, rd, rdMask, out>>

-----------------------------------------------------------------------------
Poller == PollAsk \/ PollFails \/ PollStore \/ PollDrop
Reader(r) ==
    \/ Enter(r) \/ UseCache(r) \/ AskLive(r) \/ AskFails(r)
    \/ StoreLive(r) \/ MarkLive(r) \/ Return(r)
World == Move \/ Hang \/ Recover \/ FlashBegin \/ FlashEnd \/ PollOff

Next == Poller \/ World \/ \E r \in Readers : Reader(r)

Spec == Init /\ [][Next]_vars

ReaderGoesOn(r) ==
    UseCache(r) \/ AskLive(r) \/ AskFails(r) \/ StoreLive(r) \/ MarkLive(r) \/ Return(r)

(* The workqueue and a read that has begun make progress; a flash ends;    *)
(* polls of a part that answers do not fail for ever.                      *)
Fairness ==
    /\ WF_vars(Poller)
    /\ SF_vars(PollAsk)
    /\ WF_vars(FlashEnd)
    /\ \A r \in Readers : WF_vars(ReaderGoesOn(r))

FairSpec == Spec /\ Fairness

-----------------------------------------------------------------------------
(* Properties.                                                             *)

(* The cache of a part that has stopped answering is empty in the end, and *)
(* stays so, however reads in flight interleave with the polls that fail.  *)
DeadPartIsNotCached == <>[](~Answers) /\ [](polling) => <>[](~valid)

(* While polling is on, the cache of a part that answers ends up showing   *)
(* the contact as it is.                                                   *)
CacheCatchesUp ==
    \A v \in Levels : <>[](Answers /\ contact = v) /\ [](polling) => <>[](valid => mask = v)

(* Both: the unlocked cache follows the part, dead or alive, whatever polls, *)
(* reads and a flash in flight still store (ohc_poll, ohc_gpio_get).        *)
CacheFollowsPart == DeadPartIsNotCached /\ CacheCatchesUp

=============================================================================
