---------------------------- MODULE StorageFiles ----------------------------
(***************************************************************************)
(* storaged's file browser on one folder of a drive: uploads stream into a  *)
(* temporary file beside the real name and are renamed into place; listing, *)
(* deleting and renaming act between their chunks.  All are tasks of one    *)
(* thread and lose it at every await: the temporary's name is the target's, *)
(* so two uploads of one name meet.                                        *)
(***************************************************************************)
EXTENDS Naturals, FiniteSets

CONSTANTS
    Uploads,    \* requests, all to the same name
    Chunks      \* bound: chunks of a body

Nothing == "nothing"
Inodes == Uploads    \* each upload's create makes at most one

VARIABLES
    tmp, real, other,   \* the inode behind the temporary name, the target and another name
    content,    \* content[i]: whose chunks are at which positions
    writes,     \* writes[u]: the inode u's handle is on
    at,         \* at[u]: chunks u has written
    overwrite,  \* overwrite[u]: may u replace a file of its name?
    crossed,    \* uploads that were under way at once (history)
    pc          \* new, create, body, synced, done, failed

fvars == <<tmp, real, other, content, writes, at, overwrite, crossed, pc>>

TypeOK ==
    /\ {tmp, real, other} \subseteq Inodes \cup {Nothing}
    /\ at \in [Uploads -> 0..Chunks]
    /\ crossed \subseteq Uploads
    /\ pc \in [Uploads -> {"new", "create", "body", "synced", "done", "failed"}]

Under(u) == pc[u] \in {"body", "synced"}

(* An upload that may not overwrite is refused when the name exists: looked *)
(* up before File::create is awaited.                                      *)
exists(u) ==
    /\ pc[u] = "new" /\ (real = Nothing \/ overwrite[u])
    /\ pc' = [pc EXCEPT ![u] = "create"]
    /\ UNCHANGED <<tmp, real, other, content, writes, at, overwrite, crossed>>

(* File::create truncates the temporary if another upload's is there.      *)
create(u) ==
    /\ pc[u] = "create" /\ pc' = [pc EXCEPT ![u] = "body"]
    /\ LET i == IF tmp = Nothing THEN u ELSE tmp
       IN tmp' = i /\ writes' = [writes EXCEPT ![u] = i] /\ content' = [content EXCEPT ![i] = {}]
    /\ LET beside == {w \in Uploads : Under(w)}
       IN crossed' = IF beside = {} THEN crossed ELSE crossed \cup beside \cup {u}
    /\ UNCHANGED <<real, other, at, overwrite>>

(* One frame of the body, at the handle's own position.                    *)
upload(u) ==
    /\ pc[u] = "body" /\ at[u] < Chunks
    /\ at' = [at EXCEPT ![u] = @ + 1]
    /\ content' = [content EXCEPT ![writes[u]] =
                     {c \in @ : c[1] # at[u] + 1} \cup {<<at[u] + 1, u>>}]
    /\ UNCHANGED <<tmp, real, other, writes, overwrite, crossed, pc>>

sync_all(u) ==
    /\ pc[u] = "body" /\ at[u] = Chunks /\ pc' = [pc EXCEPT ![u] = "synced"]
    /\ UNCHANGED <<tmp, real, other, content, writes, at, overwrite, crossed>>

(* The drive fills, or the client goes away: the temporary is removed.     *)
(* Mutant: it is renamed into place with what there is.                     *)
MutantAbandon(u) == real' = tmp /\ tmp' = Nothing
Abandon(u) == tmp' = Nothing /\ real' = real
Interrupted(u) ==
    /\ pc[u] \in {"body", "synced"} /\ Abandon(u) /\ pc' = [pc EXCEPT ![u] = "failed"]
    /\ UNCHANGED <<other, content, writes, at, overwrite, crossed>>

rename(u) ==
    /\ pc[u] = "synced"
    /\ IF tmp = Nothing THEN pc' = [pc EXCEPT ![u] = "failed"] /\ UNCHANGED <<tmp, real>>
       ELSE pc' = [pc EXCEPT ![u] = "done"] /\ real' = tmp /\ tmp' = Nothing
    /\ UNCHANGED <<other, content, writes, at, overwrite, crossed>>

files_delete ==
    /\ real # Nothing /\ real' = Nothing
    /\ UNCHANGED <<tmp, other, content, writes, at, overwrite, crossed, pc>>
files_rename ==
    /\ real # Nothing /\ other = Nothing /\ other' = real /\ real' = Nothing
    /\ UNCHANGED <<tmp, content, writes, at, overwrite, crossed, pc>>

FilesInit ==
    /\ tmp = Nothing /\ real = Nothing /\ other = Nothing
    /\ content = [i \in Inodes |-> {}] /\ writes = [u \in Uploads |-> Nothing]
    /\ at = [u \in Uploads |-> 0] /\ overwrite \in [Uploads -> BOOLEAN]
    /\ crossed = {} /\ pc = [u \in Uploads |-> "new"]

FilesNext ==
    \/ \E u \in Uploads :
          exists(u) \/ create(u) \/ upload(u) \/ sync_all(u) \/ Interrupted(u) \/ rename(u)
    \/ files_delete \/ files_rename

FilesSpec == FilesInit /\ [][FilesNext]_fvars

-----------------------------------------------------------------------------
(* What a listing shows under a real name is one upload's whole body: an    *)
(* interrupted upload never leaves a truncated file there.  Excepted is an  *)
(* inode that uploads under way at once had their handles on: they share a  *)
(* temporary name, and may put each other's half in place.                  *)
RealIsWhole ==
    \A i \in {real, other} \ {Nothing} :
        \/ \E u \in Uploads : content[i] = {<<n, u>> : n \in 1..Chunks}
        \/ \E u \in crossed : writes[u] = i
=============================================================================
