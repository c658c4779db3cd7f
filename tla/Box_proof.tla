----------------------------- MODULE Box_proof -----------------------------
(***************************************************************************)
(* Proofs about the daemons of a box (MCBox): an update, the Ethernet       *)
(* switch, the rear USB port, the samples, the file browser and the way     *)
(* back to Control4, each for every value of its constants.                 *)
(***************************************************************************)
EXTENDS MCBox, Integers, FiniteSetTheorems, SequenceTheorems, TLAPS

-----------------------------------------------------------------------------
(* sysmond's USB port: while the port is its user's, recovery is not at it. *)
UsbHeld == users => disabled /\ upc \in {"poll", "check"}

LEMMA UsbStep == UsbHeld /\ [Usb!Next]_(Usb!vars) => UsbHeld'
<1> SUFFICES ASSUME UsbHeld, [Usb!Next]_(Usb!vars) PROVE UsbHeld'
  OBVIOUS
<1>1. CASE Usb!UserOff \/ Usb!UserOn
  BY <1>1 DEF UsbHeld, Usb!UserOff, Usb!UserOn
<1>2. CASE Usb!Poll \/ Usb!Check
  BY <1>2 DEF UsbHeld, Usb!Poll, Usb!Check, Usb!Theirs
<1>3. CASE Usb!Cut \/ Usb!PowerUp
  BY <1>3 DEF UsbHeld, Usb!Cut, Usb!PowerUp
<1>4. CASE Usb!Short \/ Usb!UsbChanged \/ Usb!spawn \/ UNCHANGED Usb!vars
  BY <1>4 DEF UsbHeld, Usb!Short, Usb!UsbChanged, Usb!spawn, Usb!vars
<1> QED BY <1>1, <1>2, <1>3, <1>4 DEF Usb!Next

(* A port its user switched off stays off until the user switches it on     *)
(* (usb.rs: the watcher checks the attribute before it cuts), for any       *)
(* number of over-currents and restarts.                                    *)
THEOREM UsersOffStaysAlways == Usb!Spec => []UsersOffStays
<1>1. Usb!Init => UsbHeld
  BY DEF Usb!Init, UsbHeld
<1>2. UsbHeld => UsersOffStays
  BY DEF UsbHeld, UsersOffStays, Usb!UsersOffStays
<1> QED BY <1>1, <1>2, UsbStep, PTL DEF Usb!Spec

-----------------------------------------------------------------------------
(* updated: the types a check and an install keep.                         *)
Statuses ==
    [channel : Channels, latest : Nat, available : BOOLEAN, asset : Nat,
     state : {"idle", "checking", "downloading", "installing", "rebooting", "error"}]

(* A channel's newest is one of what it has offered, and no version number  *)
(* is ahead of those given out.                                             *)
Versions ==
    /\ newest \in Nat /\ published \in [Channels -> SUBSET (1..newest)]
    /\ \A c \in Channels : \E m \in published[c] \cup {0} :
          \A o \in published[c] \cup {0} : m >= o
    /\ images \in [kernel : 0..newest, initrd : 0..newest]
    /\ current \in 0..newest /\ fetched \in 0..newest
    /\ saved \in Channels
    /\ status \in Statuses /\ status.asset <= newest
    /\ asking \in Channels \cup {"none"}

(* One of a check and an install at a time, and the state says which.      *)
OneAtWork ==
    /\ asking # "none" => asking = status.channel /\ status.state = "checking"
    /\ thread \in {"none", "download", "kernel", "initrd", "reboot"}
    /\ thread = "download" => status.state = "downloading"
    /\ thread \in {"kernel", "initrd"} => status.state = "installing"
    /\ thread = "reboot" => status.state = "rebooting"

(* A release of a channel whose newest is not the initramfs on the disk.   *)
Newer(v) == \E c \in Channels : v \in published[c] /\ Update!pick(c) \notin {0, images.initrd}

(* The initramfs on the disk is the one that runs until the reboot.  What is *)
(* offered is not what runs; what an install under way was given, and the   *)
(* kernel one has left alone there, are of a channel whose newest release   *)
(* the initramfs is not.                                                    *)
Offered ==
    /\ thread # "reboot" => images.initrd = current
    /\ status.available => /\ status.asset \in published[status.channel]
                           /\ Update!pick(status.channel) \notin {0, current}
    /\ thread \in {"download", "kernel", "initrd"} => Newer(fetched)
    /\ images.kernel # images.initrd => Newer(images.kernel)
    /\ thread = "initrd" => images.kernel = fetched

UpdateInv == Versions /\ OneAtWork /\ Offered /\ UpToDateIsWhole

(* The newest release of a channel: the greatest of those offered.         *)
LEMMA Picked ==
  ASSUME Versions, NEW c \in Channels
  PROVE  /\ Update!pick(c) \in 0..newest
         /\ \A o \in published[c] : Update!pick(c) >= o
<1>1. PICK m \in published[c] \cup {0} : \A o \in published[c] \cup {0} : m >= o
  BY DEF Versions
<1>2. /\ Update!pick(c) \in published[c] \cup {0}
      /\ \A o \in published[c] \cup {0} : Update!pick(c) >= o
  BY <1>1 DEF Update!pick, Update!Max
<1> QED BY <1>2 DEF Versions

(* It is one of them, or none was offered.                                 *)
LEMMA PickedOne ==
  ASSUME Versions, NEW c \in Channels
  PROVE  Update!pick(c) \in published[c] \cup {0}
<1>1. PICK m \in published[c] \cup {0} : \A o \in published[c] \cup {0} : m >= o
  BY DEF Versions
<1> QED BY <1>1 DEF Update!pick, Update!Max

(* A release published is its channel's newest; the others' stay.          *)
LEMMA PublishedPick ==
  ASSUME Versions, NEW c \in Channels, Update!Publish(c)
  PROVE  /\ Versions'
         /\ Update!pick(c)' = newest + 1
         /\ \A d \in Channels \ {c} : Update!pick(d)' = Update!pick(d)
<1> DEFINE more == published[c] \cup {newest + 1} \cup {0}
<1>1. /\ newest \in Nat /\ newest' = newest + 1
      /\ published' = [published EXCEPT ![c] = @ \cup {newest + 1}]
      /\ published \in [Channels -> SUBSET (1..newest)]
  BY DEF Versions, Update!Publish
<1>2. published'[c] \cup {0} = more /\ \A d \in Channels \ {c} : published'[d] = published[d]
  BY <1>1
<1>3. \A o \in more : o \in Nat /\ newest + 1 >= o
  BY <1>1
<1>4. published' \in [Channels -> SUBSET (1..newest')]
  BY <1>1
<1>5. \A m \in more : (\A o \in more : m >= o) => m = newest + 1
  BY <1>1, <1>3
<1>6. Update!pick(c)' = newest + 1
  <2>1. Update!pick(c)' = CHOOSE x \in more : \A y \in more : x >= y
    BY <1>2 DEF Update!pick, Update!Max
  <2>2. \E x \in more : \A y \in more : x >= y
    BY <1>3
  <2> QED BY <2>1, <2>2, <1>5
<1>7. \A d \in Channels \ {c} : Update!pick(d)' = Update!pick(d)
  BY <1>2 DEF Update!pick
<1>8. \A d \in Channels : \E m \in published'[d] \cup {0} :
         \A o \in published'[d] \cup {0} : m >= o
  BY <1>2, <1>3 DEF Versions
<1>9. UNCHANGED <<saved, status, asking, fetched, images, current>>
  BY DEF Update!Publish, Update!work
<1>10. Versions'
  BY <1>1, <1>4, <1>8, <1>9 DEF Versions, Statuses
<1> QED BY <1>6, <1>7, <1>10

(* The steps that publish nothing leave every channel's newest as it was.  *)
LEMMA SamePick ==
  ASSUME published' = published
  PROVE  \A c \in Channels : Update!pick(c)' = Update!pick(c)
BY DEF Update!pick

(* A release stays one of a channel whose newest is not on the disk, while *)
(* the initramfs there stays, whatever is published.                       *)
LEMMA NewerKept ==
  ASSUME Versions, NEW v, Newer(v), images'.initrd = images.initrd,
         published' = published \/ \E c \in Channels : Update!Publish(c)
  PROVE  \E c \in Channels : v \in published'[c] /\ Update!pick(c)' \notin {0, images'.initrd}
<1>1. PICK c \in Channels : v \in published[c] /\ Update!pick(c) \notin {0, images.initrd}
  BY DEF Newer
<1>2. CASE published' = published
  BY <1>1, <1>2, SamePick
<1>3. ASSUME NEW d \in Channels, Update!Publish(d)
      PROVE  v \in published'[c] /\ Update!pick(c)' \notin {0, images'.initrd}
  <2>1. published' = [published EXCEPT ![d] = @ \cup {newest + 1}]
    BY <1>3 DEF Update!Publish
  <2>2. v \in published'[c]
    BY <1>1, <2>1 DEF Versions
  <2>3. newest \in Nat /\ images.initrd \in 0..newest
    BY DEF Versions
  <2>4. Update!pick(c)' = Update!pick(c) \/ Update!pick(c)' = newest + 1
    BY <1>3, PublishedPick
  <2> QED BY <1>1, <2>2, <2>3, <2>4
<1> QED BY <1>1, <1>2, <1>3

LEMMA UpdateStart == Update!Init => UpdateInv
<1> SUFFICES ASSUME Update!Init PROVE UpdateInv
  OBVIOUS
<1> USE UpdateConstants DEF UpdateConstants, Update!Init, Update!Fresh, Update!NoChannel
<1>1. status \in Statuses
  BY DEF Statuses
<1>2. Versions
  BY <1>1 DEF Versions
<1> QED
  BY <1>2 DEF UpdateInv, OneAtWork, Offered, UpToDateIsWhole, Update!UpToDateIsWhole

LEMMA UpdatePublish ==
  ASSUME UpdateInv, NEW c \in Channels, Update!Publish(c)
  PROVE  UpdateInv'
<1>1. /\ UNCHANGED <<saved, status, asking, thread, fetched, images, current>>
      /\ published' = [published EXCEPT ![c] = @ \cup {newest + 1}]
  BY DEF Update!Publish, Update!work
<1>2. Versions /\ Versions'
  BY PublishedPick DEF UpdateInv
<1>3. OneAtWork'
  BY <1>1 DEF UpdateInv, OneAtWork
<1>4. newest \in Nat /\ current <= newest /\ current \in Nat /\ status.channel \in Channels
  BY <1>2 DEF Versions, Statuses
<1>5. Update!pick(status.channel)' = Update!pick(status.channel)
      \/ Update!pick(status.channel)' = newest + 1
  BY <1>1, <1>2, <1>4, PublishedPick
<1>6. \A d \in Channels : published[d] \subseteq published'[d]
  BY <1>1, <1>2 DEF Versions
<1>7. /\ Newer(fetched) => Newer(fetched)'
      /\ Newer(images.kernel) => Newer(images.kernel)'
  BY <1>1, <1>2, NewerKept DEF Newer
<1>8. Offered'
  BY <1>1, <1>4, <1>5, <1>6, <1>7 DEF UpdateInv, Offered
<1>9. UpToDateIsWhole'
  BY <1>1, <1>6 DEF UpdateInv, UpToDateIsWhole, Update!UpToDateIsWhole, Update!Others
<1> QED BY <1>2, <1>3, <1>8, <1>9 DEF UpdateInv

(* A change of channel forgets what the old one offered.                   *)
LEMMA UpdateChannel ==
  ASSUME UpdateInv, NEW c \in Channels, ~Update!busy, Update!set_channel(c)
  PROVE  UpdateInv'
<1>1. /\ status' = [channel |-> c, latest |-> 0, available |-> FALSE, asset |-> 0,
                    state |-> status.state]
      /\ UNCHANGED <<published, newest, asking, thread, fetched, images, current>>
      /\ saved' = c
  BY DEF Update!set_channel, Update!Forget, Update!Fresh, Update!github
<1>2. Versions'
  BY <1>1 DEF UpdateInv, Versions, Statuses
<1>3. OneAtWork' /\ UpToDateIsWhole'
  BY <1>1 DEF UpdateInv, OneAtWork, Update!busy, UpToDateIsWhole, Update!UpToDateIsWhole
<1>4. /\ Newer(fetched) => Newer(fetched)'
      /\ Newer(images.kernel) => Newer(images.kernel)'
  BY <1>1, NewerKept DEF UpdateInv, Newer
<1>5. Offered'
  BY <1>1, <1>4 DEF UpdateInv, Offered
<1> QED BY <1>2, <1>3, <1>5 DEF UpdateInv

(* A check asks about the channel of the moment, and has it still when the *)
(* answer comes: the state is busy in between.                             *)
LEMMA UpdateCheck ==
  ASSUME UpdateInv,
         Update!check \/ Update!CheckBusy \/ Update!CheckFound \/ Update!CheckFailed
  PROVE  UpdateInv'
<1>1. /\ published' = published /\ newest' = newest
      /\ UNCHANGED <<saved, thread, fetched, images, current>>
  BY DEF Update!check, Update!CheckBusy, Update!CheckFound, Update!CheckFailed, Update!github
<1>2. /\ status \in Statuses /\ status.channel \in Channels /\ status.latest \in Nat
      /\ asking \in Channels \cup {"none"}
  BY DEF UpdateInv, Versions, Statuses
<1>3. \A c \in Channels : Update!pick(c)' = Update!pick(c)
  BY <1>1, SamePick
<1>8. /\ Newer(fetched) => Newer(fetched)'
      /\ Newer(images.kernel) => Newer(images.kernel)'
  BY <1>1, NewerKept DEF UpdateInv, Newer
<1>4. CASE Update!check
  <2>1. /\ status' = [status EXCEPT !.state = "checking"] /\ asking' = status.channel
        /\ ~Update!busy
    BY <1>4 DEF Update!check
  <2>2. Versions'
    BY <1>1, <1>2, <2>1 DEF UpdateInv, Versions, Statuses
  <2>3. OneAtWork' /\ UpToDateIsWhole'
    BY <1>1, <1>2, <2>1 DEF UpdateInv, OneAtWork, Update!busy, UpToDateIsWhole,
                            Update!UpToDateIsWhole, Statuses
  <2>4. Offered'
    BY <1>1, <1>2, <1>3, <1>8, <2>1 DEF UpdateInv, Offered, Statuses
  <2> QED BY <2>2, <2>3, <2>4 DEF UpdateInv
<1>5. CASE Update!CheckBusy
  <2>1. UNCHANGED <<status, asking>>
    BY <1>5 DEF Update!CheckBusy
  <2>2. Versions' /\ OneAtWork'
    BY <1>1, <2>1 DEF UpdateInv, Versions, OneAtWork
  <2>3. Offered'
    BY <1>1, <1>2, <1>3, <1>8, <2>1 DEF UpdateInv, Offered
  <2>4. UpToDateIsWhole'
    BY <1>1, <2>1 DEF UpdateInv, UpToDateIsWhole, Update!UpToDateIsWhole, Update!Others
  <2> QED BY <2>2, <2>3, <2>4 DEF UpdateInv
<1>6. CASE Update!CheckFound
  <2>1. /\ asking # "none" /\ asking' = "none"
        /\ asking = status.channel /\ status.state = "checking"
    BY <1>6 DEF Update!CheckFound, Update!NoChannel, UpdateInv, OneAtWork
  <2> DEFINE p == Update!pick(status.channel)
  <2>2. p \in 0..newest /\ newest \in Nat
    BY <1>2, Picked DEF UpdateInv, Versions
  <2>3. status' = [channel |-> status.channel, latest |-> p, available |-> p \notin {0, current},
                   asset |-> p, state |-> "idle"]
    BY <1>2, <1>6, <2>1 DEF Update!CheckFound, Statuses
  <2>4. p' = p
    BY <1>2, <1>3, <2>3
  <2>5. thread = "none" /\ images.initrd = current
    BY <2>1 DEF UpdateInv, OneAtWork, Offered
  <2> HIDE DEF p
  <2>6. Versions'
    BY <1>1, <1>2, <2>1, <2>2, <2>3 DEF UpdateInv, Versions, Statuses
  <2>7. OneAtWork'
    BY <1>1, <2>1, <2>5 DEF OneAtWork
  <2>8. Offered'
    <3>1. p \in published[status.channel] \cup {0}
      BY <1>2, PickedOne DEF UpdateInv, p
    <3>2. status'.available => p' \notin {0, current'}
      BY <1>1, <2>3, <2>4
    <3> QED BY <1>1, <1>8, <2>3, <2>5, <3>1, <3>2 DEF UpdateInv, Offered, p
  <2>9. UpToDateIsWhole'
    <3>1. SUFFICES ASSUME p # 0, p = current
          PROVE  images.kernel \in {p} \cup Update!Others
      BY <1>1, <2>3, <2>5 DEF UpToDateIsWhole, Update!UpToDateIsWhole, Update!Others
    <3>2. CASE images.kernel = images.initrd
      BY <2>5, <3>1, <3>2
    <3>3. CASE images.kernel # images.initrd
      <4>1. PICK c \in Channels : images.kernel \in published[c] /\ Update!pick(c) # images.initrd
        BY <3>3 DEF UpdateInv, Offered, Newer
      <4>2. c # status.channel
        BY <2>5, <3>1, <4>1 DEF p
      <4> QED BY <4>1, <4>2 DEF Update!Others
    <3> QED BY <3>2, <3>3
  <2> QED BY <2>6, <2>7, <2>8, <2>9 DEF UpdateInv
<1>7. CASE Update!CheckFailed
  <2>1. /\ status' = [status EXCEPT !.state = "error"] /\ asking' = "none"
        /\ asking # "none"
    BY <1>7 DEF Update!CheckFailed, Update!NoChannel
  <2>2. Versions'
    BY <1>1, <1>2, <2>1 DEF UpdateInv, Versions, Statuses
  <2>3. OneAtWork' /\ UpToDateIsWhole'
    BY <1>1, <1>2, <2>1 DEF UpdateInv, OneAtWork, UpToDateIsWhole,
                            Update!UpToDateIsWhole, Statuses
  <2>4. Offered'
    BY <1>1, <1>2, <1>3, <1>8, <2>1 DEF UpdateInv, Offered, Statuses
  <2> QED BY <2>2, <2>3, <2>4 DEF UpdateInv
<1> QED BY <1>4, <1>5, <1>6, <1>7

(* An install begins with what is on offer, and writes one image, then the *)
(* other; a failure leaves what is written.                                *)
LEMMA UpdateInstall ==
  ASSUME UpdateInv,
         Update!install \/ Update!Downloaded \/ Update!hc800 \/ Update!InstallFailed
  PROVE  UpdateInv'
<1>1. UNCHANGED <<published, newest, saved, asking, current>>
  BY DEF Update!install, Update!Downloaded, Update!hc800, Update!InstallFailed, Update!github
<1>2. /\ status \in Statuses /\ status.channel \in Channels /\ status.latest \in Nat
      /\ status.asset \in Nat /\ status.asset <= newest /\ newest \in Nat
      /\ asking \in Channels \cup {"none"}
      /\ images \in [kernel : 0..newest, initrd : 0..newest] /\ fetched \in 0..newest
  BY DEF UpdateInv, Versions, Statuses
<1>3. \A c \in Channels : Update!pick(c)' = Update!pick(c)
  BY <1>1, SamePick
<1>9. ASSUME NEW v, Newer(v), images'.initrd = images.initrd
      PROVE  \E c \in Channels : v \in published'[c] /\ Update!pick(c)' \notin {0, images'.initrd}
  BY <1>1, <1>9, NewerKept DEF UpdateInv
<1>4. CASE Update!install
  <2>1. /\ status' = [status EXCEPT !.state = "downloading"] /\ thread' = "download"
        /\ fetched' = status.asset /\ UNCHANGED images
        /\ ~Update!busy /\ status.available
    BY <1>4 DEF Update!install
  <2>2. thread = "none" /\ asking = "none"
    BY <2>1 DEF UpdateInv, OneAtWork, Update!busy
  <2>3. Versions'
    BY <1>1, <1>2, <2>1 DEF UpdateInv, Versions, Statuses
  <2>4. OneAtWork' /\ UpToDateIsWhole'
    BY <1>1, <1>2, <2>1, <2>2 DEF UpdateInv, OneAtWork, UpToDateIsWhole,
                                  Update!UpToDateIsWhole, Statuses
  <2>5. /\ Update!pick(status.channel) \notin {0, current} /\ images.initrd = current
        /\ status.asset \in published[status.channel]
    BY <2>1, <2>2 DEF UpdateInv, Offered
  <2>6. Newer(status.asset)
    BY <1>2, <2>5 DEF Newer
  <2>7. Newer(fetched)' /\ (Newer(images.kernel) => Newer(images.kernel)')
    BY <1>9, <2>1, <2>6 DEF Newer
  <2>8. Offered'
    BY <1>1, <1>2, <1>3, <2>1, <2>2, <2>5, <2>7 DEF UpdateInv, Offered, Statuses
  <2> QED BY <2>3, <2>4, <2>8 DEF UpdateInv
<1>5. CASE Update!Downloaded
  <2>1. /\ status' = [status EXCEPT !.state = "installing"] /\ thread' = "kernel"
        /\ thread = "download" /\ UNCHANGED <<fetched, images>>
    BY <1>5 DEF Update!Downloaded
  <2>2. Versions'
    BY <1>1, <1>2, <2>1 DEF UpdateInv, Versions, Statuses
  <2>3. OneAtWork' /\ UpToDateIsWhole'
    BY <1>1, <1>2, <2>1 DEF UpdateInv, OneAtWork, UpToDateIsWhole,
                            Update!UpToDateIsWhole, Statuses
  <2>4. Offered'
    <3>1. Newer(fetched)' /\ (Newer(images.kernel) => Newer(images.kernel)')
      BY <1>9, <2>1 DEF UpdateInv, Offered, Newer
    <3> QED BY <1>1, <1>2, <1>3, <2>1, <3>1 DEF UpdateInv, Offered, Statuses
  <2> QED BY <2>2, <2>3, <2>4 DEF UpdateInv
<1>6. CASE Update!hc800 /\ thread = "kernel"
  <2>1. /\ images' = [images EXCEPT !["kernel"] = fetched] /\ thread' = "initrd"
        /\ UNCHANGED <<status, fetched>>
    BY <1>6 DEF Update!hc800, Update!SwapOrder
  <2>2. images'.kernel = fetched /\ images'.initrd = images.initrd
        /\ images' \in [kernel : 0..newest, initrd : 0..newest]
    BY <1>2, <2>1
  <2>3. Versions'
    BY <1>1, <2>1, <2>2 DEF UpdateInv, Versions
  <2>4. OneAtWork' /\ UpToDateIsWhole'
    BY <1>1, <1>6, <2>1 DEF UpdateInv, OneAtWork, UpToDateIsWhole, Update!UpToDateIsWhole
  <2>5. Offered'
    <3>1. Newer(fetched)'
      BY <1>6, <1>9, <2>1, <2>2 DEF UpdateInv, Offered, Newer
    <3> QED BY <1>1, <1>2, <1>3, <1>6, <2>1, <2>2, <3>1 DEF UpdateInv, Offered
  <2> QED BY <2>3, <2>4, <2>5 DEF UpdateInv
<1>7. CASE Update!hc800 /\ thread = "initrd"
  <2>1. /\ images' = [images EXCEPT !["initrd"] = fetched] /\ thread' = "reboot"
        /\ status' = [status EXCEPT !.state = "rebooting"] /\ UNCHANGED fetched
    BY <1>7 DEF Update!hc800, Update!SwapOrder
  <2>2. images'.initrd = fetched /\ images'.kernel = images.kernel
        /\ images' \in [kernel : 0..newest, initrd : 0..newest]
    BY <1>2, <2>1
  <2>3. Versions'
    BY <1>1, <1>2, <2>1, <2>2 DEF UpdateInv, Versions, Statuses
  <2>4. OneAtWork' /\ UpToDateIsWhole'
    BY <1>1, <1>2, <1>7, <2>1 DEF UpdateInv, OneAtWork, UpToDateIsWhole,
                                  Update!UpToDateIsWhole, Statuses
  <2>5. images.kernel = fetched
    BY <1>7 DEF UpdateInv, Offered
  <2>6. Offered'
    BY <1>1, <1>2, <1>3, <2>1, <2>2, <2>5 DEF UpdateInv, Offered, Statuses
  <2> QED BY <2>3, <2>4, <2>6 DEF UpdateInv
<1>8. CASE Update!InstallFailed
  <2>1. /\ status' = [status EXCEPT !.state = "error"] /\ thread' = "none"
        /\ thread \in {"download", "kernel", "initrd"} /\ UNCHANGED <<fetched, images>>
    BY <1>8 DEF Update!InstallFailed
  <2>2. asking = "none"
    BY <2>1 DEF UpdateInv, OneAtWork
  <2>3. Versions'
    BY <1>1, <1>2, <2>1 DEF UpdateInv, Versions, Statuses
  <2>4. OneAtWork' /\ UpToDateIsWhole'
    BY <1>1, <1>2, <2>1, <2>2 DEF UpdateInv, OneAtWork, UpToDateIsWhole,
                                  Update!UpToDateIsWhole, Statuses
  <2>5. Offered'
    <3>1. Newer(images.kernel) => Newer(images.kernel)'
      BY <1>9, <2>1 DEF Newer
    <3> QED BY <1>1, <1>2, <1>3, <2>1, <3>1 DEF UpdateInv, Offered, Statuses
  <2> QED BY <2>3, <2>4, <2>5 DEF UpdateInv
<1> QED BY <1>4, <1>5, <1>6, <1>7, <1>8 DEF Update!hc800

(* A boot runs the initramfs of the disk and forgets everything but the    *)
(* saved channel.                                                          *)
LEMMA UpdateRestart ==
  ASSUME UpdateInv, Update!Restart
  PROVE  UpdateInv'
<1>1. /\ current' = images.initrd /\ asking' = "none" /\ thread' = "none" /\ fetched' = 0
      /\ status' = [channel |-> saved, latest |-> 0, available |-> FALSE, asset |-> 0,
                    state |-> "idle"]
      /\ UNCHANGED <<published, newest, saved, images>>
  BY DEF Update!Restart, Update!Fresh, Update!NoChannel, Update!github
<1>2. Versions'
  BY <1>1 DEF UpdateInv, Versions, Statuses
<1>3. OneAtWork' /\ UpToDateIsWhole'
  BY <1>1 DEF OneAtWork, UpToDateIsWhole, Update!UpToDateIsWhole
<1>4. Newer(images.kernel) => Newer(images.kernel)'
  BY <1>1, NewerKept DEF UpdateInv, Newer
<1>5. Offered'
  <2>1. thread = "reboot" => images.kernel = images.initrd \/ Newer(images.kernel)
    BY DEF UpdateInv, Offered
  <2> QED BY <1>1, <1>4, <2>1 DEF UpdateInv, Offered
<1> QED BY <1>2, <1>3, <1>5 DEF UpdateInv

LEMMA UpdateStep == UpdateInv /\ [Update!Next]_(Update!vars) => UpdateInv'
<1> SUFFICES ASSUME UpdateInv, [Update!Next]_(Update!vars) PROVE UpdateInv'
  OBVIOUS
<1>1. CASE Update!rest \/ Update!mqtt
  BY <1>1, UpdateChannel, UpdateCheck, UpdateInstall DEF Update!rest, Update!mqtt
<1>2. CASE Update!Reboot \/ Update!PowerCut
  BY <1>2, UpdateRestart DEF Update!Reboot, Update!PowerCut
<1>3. CASE UNCHANGED Update!vars
  <2>1. Versions' /\ OneAtWork'
    BY <1>3 DEF Update!vars, UpdateInv, Versions, OneAtWork
  <2>2. /\ Newer(fetched) => Newer(fetched)'
        /\ Newer(images.kernel) => Newer(images.kernel)'
    BY <1>3, NewerKept DEF Update!vars, UpdateInv, Newer
  <2>3. Offered'
    BY <1>3, <2>2 DEF Update!vars, UpdateInv, Offered, Update!pick
  <2>4. UpToDateIsWhole'
    BY <1>3 DEF Update!vars, UpdateInv, UpToDateIsWhole, Update!UpToDateIsWhole, Update!Others
  <2> QED BY <2>1, <2>2, <2>3, <2>4 DEF UpdateInv
<1> QED
  BY <1>1, <1>2, <1>3, UpdatePublish, UpdateCheck, UpdateInstall DEF Update!Next

(* A box that says it runs its channel's newest release has both images of  *)
(* it, or another channel's kernel, however checks, installs, changes of    *)
(* channel and power cuts fall into each other (install.rs hc800, which     *)
(* swaps the kernel first).                                                *)
THEOREM UpToDateIsWholeAlways == Update!Spec => []UpToDateIsWhole
<1>1. UpdateInv => UpToDateIsWhole
  BY DEF UpdateInv
<1> QED BY <1>1, UpdateStart, UpdateStep, PTL DEF Update!Spec

-----------------------------------------------------------------------------
(* storaged's file browser.  What the first k chunks of an upload make.    *)
Body(u, k) == {<<c, u>> : c \in 1..k}

FileTypes ==
    /\ {tmp, real, other} \subseteq Uploads \cup {"nothing"}
    /\ crossed \subseteq Uploads
    /\ at \in [Uploads -> 0..Chunks]
    /\ fpc \in [Uploads -> {"new", "create", "body", "synced", "done", "failed"}]
    /\ content \in [Uploads -> SUBSET (Nat \X Uploads)]
    /\ writes \in [Uploads -> Uploads \cup {"nothing"}]

Unborn(u) == fpc[u] \in {"new", "create"}

(* An upload under way alone, from its start on, has the temporary name to  *)
(* itself, on an inode of its own; somebody under way writes to the         *)
(* temporary; and what the real names show is either whole, with no handle  *)
(* left on it, or was shared by uploads that crossed.                       *)
FilesInv ==
    /\ FileTypes
    /\ \A u \in Uploads :
          /\ Files!Under(u) /\ u \notin crossed =>
                tmp = u /\ writes[u] = u /\ content[u] = Body(u, at[u])
          /\ fpc[u] = "synced" => at[u] = Chunks
          /\ Unborn(u) => at[u] = 0 /\ writes[u] = "nothing" /\ u \notin {tmp, real, other}
    /\ \A u, w \in Uploads : Files!Under(u) /\ Files!Under(w) /\ u # w => u \in crossed
    /\ tmp # "nothing" =>
          /\ tmp \notin {real, other}
          /\ \E v \in Uploads : Files!Under(v) /\ writes[v] = tmp
    /\ \A i \in {real, other} \ {"nothing"} :
          \/ \E u \in crossed : writes[u] = i
          \/ /\ content[i] = Body(i, Chunks)
             /\ \A w \in Uploads : Files!Under(w) => writes[w] # i

(* The frame after the first k lands behind them.                          *)
LEMMA NextFrame ==
  ASSUME NEW u, NEW k \in Nat
  PROVE  {c \in Body(u, k) : c[1] # k + 1} \cup {<<k + 1, u>>} = Body(u, k + 1)
<1>1. \A c \in Body(u, k) : c[1] # k + 1
  BY DEF Body
<1>2. {c \in Body(u, k) : c[1] # k + 1} = Body(u, k)
  BY <1>1
<1>3. 1..(k + 1) = 1..k \cup {k + 1}
  OBVIOUS
<1> QED BY <1>2, <1>3 DEF Body

LEMMA FilesStart == Files!FilesInit => FilesInv
<1> SUFFICES ASSUME Files!FilesInit PROVE FilesInv
  OBVIOUS
<1>1. FileTypes
  BY FilesConstants DEF FilesConstants, Files!FilesInit, Files!Nothing, Files!Inodes, FileTypes
<1>2. \A u \in Uploads : fpc[u] = "new" /\ at[u] = 0 /\ writes[u] = "nothing" /\ u # "nothing"
  BY FilesConstants DEF FilesConstants, Files!FilesInit, Files!Nothing
<1>3. tmp = "nothing" /\ real = "nothing" /\ other = "nothing"
  BY DEF Files!FilesInit, Files!Nothing
<1> QED
  BY <1>1, <1>2, <1>3 DEF FilesInv, Files!Under, Unborn

(* An upload that may begin has not touched anything yet.                  *)
LEMMA FilesExists ==
  ASSUME FilesInv, NEW u \in Uploads, Files!exists(u)
  PROVE  FilesInv'
<1>1. /\ fpc[u] = "new" /\ fpc' = [fpc EXCEPT ![u] = "create"]
      /\ UNCHANGED <<tmp, real, other, content, writes, at, crossed>>
  BY DEF Files!exists
<1>2. FileTypes'
  BY <1>1 DEF FilesInv, FileTypes
<1>3. \A w \in Uploads :
          /\ Files!Under(w)' <=> Files!Under(w)
          /\ Unborn(w)' <=> Unborn(w)
          /\ fpc'[w] = "synced" <=> fpc[w] = "synced"
  BY <1>1 DEF FilesInv, FileTypes, Files!Under, Unborn
<1> QED BY <1>1, <1>2, <1>3 DEF FilesInv

(* A new upload finds no temporary, or one somebody under way writes to: in *)
(* the second case all of them have crossed.                                *)
LEMMA FilesCreate ==
  ASSUME FilesInv, NEW u \in Uploads, Files!create(u)
  PROVE  FilesInv'
<1> USE FilesConstants DEF FilesConstants, Files!Nothing
<1> DEFINE beside == {w \in Uploads : Files!Under(w)}
<1>1. PICK i \in Uploads :
          /\ i = IF tmp = "nothing" THEN u ELSE tmp
          /\ tmp' = i /\ writes' = [writes EXCEPT ![u] = i]
          /\ content' = [content EXCEPT ![i] = {}]
  BY DEF Files!create, FilesInv, FileTypes
<1>2. /\ fpc[u] = "create" /\ fpc' = [fpc EXCEPT ![u] = "body"]
      /\ crossed' = IF beside = {} THEN crossed ELSE crossed \cup beside \cup {u}
      /\ UNCHANGED <<real, other, at>>
  BY DEF Files!create
<1>3. /\ u \notin {tmp, real, other} /\ at[u] = 0 /\ writes[u] = "nothing" /\ Body(u, 0) = {}
      /\ ~Files!Under(u)
  BY <1>2 DEF FilesInv, Unborn, Body, Files!Under
<1>4. i \notin {real, other}
  BY <1>1, <1>3 DEF FilesInv
<1> HIDE DEF beside
<1>5. beside \subseteq Uploads /\ \A w \in Uploads : w \in beside <=> Files!Under(w)
  BY DEF beside
<1>6. FileTypes'
  BY <1>1, <1>2, <1>5 DEF FilesInv, FileTypes
<1>7. /\ writes'[u] = i /\ fpc'[u] = "body" /\ at'[u] = 0 /\ content'[i] = {}
      /\ \A w \in Uploads \ {u} : fpc'[w] = fpc[w] /\ writes'[w] = writes[w] /\ at'[w] = at[w]
      /\ \A j \in Uploads \ {i} : content'[j] = content[j]
  BY <1>1, <1>2, <1>3 DEF FilesInv, FileTypes
<1>8. \A w \in Uploads : Files!Under(w)' <=> w = u \/ Files!Under(w)
  BY <1>7 DEF Files!Under
<1>9. \A v, w \in Uploads : (Files!Under(v) /\ Files!Under(w) /\ v # w)' => v \in crossed'
  BY <1>2, <1>5, <1>8 DEF FilesInv
<1>10. ASSUME NEW w \in Uploads, Files!Under(w)', w \notin crossed'
       PROVE  tmp' = w /\ writes'[w] = w /\ content'[w] = Body(w, at'[w])
  <2>1. w = u /\ beside = {}
    BY <1>2, <1>5, <1>8, <1>10
  <2>2. tmp = "nothing"
    BY <1>5, <2>1 DEF FilesInv
  <2> QED BY <1>1, <1>3, <1>7, <2>1, <2>2
<1>11. \A w \in Uploads : Unborn(w)' => Unborn(w) /\ w # u
  BY <1>7 DEF Unborn
<1>12. \A w \in Uploads : Unborn(w)' =>
          at'[w] = 0 /\ writes'[w] = "nothing" /\ w \notin {tmp', real', other'}
  BY <1>1, <1>2, <1>7, <1>11 DEF FilesInv
<1>13. \A w \in Uploads : fpc'[w] = "synced" => at'[w] = Chunks
  BY <1>7 DEF FilesInv
<1>14. \A j \in {real', other'} \ {"nothing"} :
          \/ \E w \in crossed' : writes'[w] = j
          \/ /\ content'[j] = Body(j, Chunks)
             /\ \A w \in Uploads : Files!Under(w)' => writes'[w] # j
  <2> SUFFICES ASSUME NEW j \in {real, other} \ {"nothing"}
               PROVE  \/ \E w \in crossed' : writes'[w] = j
                      \/ /\ content'[j] = Body(j, Chunks)
                         /\ \A w \in Uploads : Files!Under(w)' => writes'[w] # j
    BY <1>2
  <2>1. j \in Uploads \ {i}
    BY <1>4 DEF FilesInv, FileTypes
  <2>2. CASE \E w \in crossed : writes[w] = j
    BY <1>2, <1>3, <1>7, <2>2 DEF FilesInv, FileTypes
  <2>3. CASE content[j] = Body(j, Chunks) /\ \A w \in Uploads : Files!Under(w) => writes[w] # j
    BY <1>7, <1>8, <2>1, <2>3
  <2> QED BY <2>2, <2>3 DEF FilesInv
<1>15. tmp' \notin {real', other'} /\ \E v \in Uploads : Files!Under(v)' /\ writes'[v] = tmp'
  BY <1>1, <1>2, <1>4, <1>7, <1>8
<1> QED
  BY <1>6, <1>9, <1>10, <1>12, <1>13, <1>14, <1>15 DEF FilesInv

LEMMA FilesUpload ==
  ASSUME FilesInv, NEW u \in Uploads, Files!upload(u) \/ Files!sync_all(u)
  PROVE  FilesInv'
<1> USE FilesConstants DEF FilesConstants, Files!Nothing
<1>1. /\ fpc[u] = "body" /\ at[u] \in 0..Chunks /\ Files!Under(u)
      /\ UNCHANGED <<tmp, real, other, writes, crossed>>
  BY DEF Files!upload, Files!sync_all, FilesInv, FileTypes, Files!Under
<1>2. CASE Files!upload(u)
  <2> DEFINE more == {c \in content[writes[u]] : c[1] # at[u] + 1} \cup {<<at[u] + 1, u>>}
  <2>1. /\ at[u] < Chunks /\ at' = [at EXCEPT ![u] = @ + 1] /\ fpc' = fpc
        /\ content' = [content EXCEPT ![writes[u]] = more]
    BY <1>2 DEF Files!upload
  <2>2. writes[u] \in Uploads => more \in SUBSET (Nat \X Uploads)
    BY <1>1 DEF FilesInv, FileTypes
  <2>3. u \notin crossed => more = Body(u, at[u] + 1)
    BY <1>1, NextFrame DEF FilesInv
  <2> HIDE DEF more
  <2>4. FileTypes'
    <3>1. at' \in [Uploads -> 0..Chunks]
      BY <1>1, <2>1 DEF FilesInv, FileTypes
    <3>2. content' \in [Uploads -> SUBSET (Nat \X Uploads)]
      <4>1. \A i \in Uploads : content'[i] = IF i = writes[u] THEN more ELSE content[i]
        BY <2>1 DEF FilesInv, FileTypes
      <4>2. content' = [i \in Uploads |-> content'[i]]
        BY <2>1 DEF FilesInv, FileTypes
      <4> QED BY <2>2, <4>1, <4>2 DEF FilesInv, FileTypes
    <3> QED BY <1>1, <2>1, <3>1, <3>2 DEF FilesInv, FileTypes
  <2>5. /\ \A w \in Uploads \ {u} : at'[w] = at[w]
        /\ at'[u] = at[u] + 1
        /\ \A i \in Uploads : i # writes[u] => content'[i] = content[i]
    BY <1>1, <2>1 DEF FilesInv, FileTypes
  <2>6. ASSUME NEW w \in Uploads, Files!Under(w), w \notin crossed
        PROVE  content'[w] = Body(w, at'[w])
    <3>1. w = u
      BY <1>1, <2>6 DEF FilesInv
    <3> QED BY <1>1, <2>1, <2>3, <2>5, <2>6, <3>1 DEF FilesInv, FileTypes
  <2>7. \A w \in Uploads : /\ Files!Under(w)' <=> Files!Under(w)
                           /\ Unborn(w)' <=> Unborn(w)
    BY <2>1 DEF Files!Under, Unborn
  <2>8. \A i \in {real, other} \ {"nothing"} :
            content[i] = Body(i, Chunks) /\ (\A w \in Uploads : Files!Under(w) => writes[w] # i)
               => content'[i] = content[i]
    BY <1>1, <2>5 DEF FilesInv, FileTypes
  <2>9. fpc[u] # "synced" /\ ~Unborn(u)
    BY <1>1 DEF Unborn
  <2> QED
    BY <1>1, <2>1, <2>4, <2>5, <2>6, <2>7, <2>8, <2>9 DEF FilesInv
<1>3. CASE Files!sync_all(u)
  <2>1. /\ at[u] = Chunks /\ fpc' = [fpc EXCEPT ![u] = "synced"] /\ UNCHANGED <<at, content>>
    BY <1>3 DEF Files!sync_all
  <2>2. FileTypes'
    BY <1>1, <2>1 DEF FilesInv, FileTypes
  <2>3. fpc'[u] = "synced" /\ \A w \in Uploads \ {u} : fpc'[w] = fpc[w]
    BY <2>1 DEF FilesInv, FileTypes
  <2>4. \A w \in Uploads : /\ Files!Under(w)' <=> Files!Under(w)
                           /\ Unborn(w)' <=> Unborn(w)
    BY <1>1, <2>3 DEF Files!Under, Unborn
  <2> QED
    BY <1>1, <2>1, <2>2, <2>3, <2>4 DEF FilesInv
<1> QED BY <1>2, <1>3

LEMMA FilesEnd ==
  ASSUME FilesInv, NEW u \in Uploads, Files!Interrupted(u) \/ Files!rename(u)
  PROVE  FilesInv'
<1> USE FilesConstants DEF FilesConstants, Files!Nothing
<1>1. /\ Files!Under(u) /\ UNCHANGED <<other, content, writes, at, crossed>> /\ tmp' = "nothing"
  BY DEF Files!Interrupted, Files!rename, Files!Abandon, Files!Under
<1>2. \/ real' = real
      \/ real' = tmp /\ tmp # "nothing" /\ fpc[u] = "synced"
  BY DEF Files!Interrupted, Files!rename, Files!Abandon
<1>3. fpc' = [fpc EXCEPT ![u] = fpc'[u]] /\ fpc'[u] \in {"failed", "done"}
  BY DEF Files!Interrupted, Files!rename, FilesInv, FileTypes
<1>4. FileTypes'
  BY <1>1, <1>2, <1>3 DEF FilesInv, FileTypes
<1>5. \A w \in Uploads \ {u} : fpc'[w] = fpc[w]
  BY <1>3 DEF FilesInv, FileTypes
<1>6. ~Files!Under(u)' /\ ~Unborn(u)' /\ fpc'[u] # "synced" /\ ~Unborn(u)
  BY <1>1, <1>3 DEF Files!Under, Unborn
<1>7. \A w \in Uploads \ {u} : /\ Files!Under(w)' <=> Files!Under(w)
                               /\ Unborn(w)' <=> Unborn(w)
  BY <1>5 DEF Files!Under, Unborn
<1>8. \A w \in Uploads : Files!Under(w)' => w \in crossed
  BY <1>1, <1>6, <1>7 DEF FilesInv
<1>9. \A w \in Uploads : Unborn(w)' => w \notin {tmp', real', other'}
  BY <1>1, <1>2, <1>6, <1>7 DEF FilesInv
<1>10. ASSUME real' = tmp, tmp # "nothing", fpc[u] = "synced"
       PROVE  \/ \E w \in crossed : writes[w] = tmp
              \/ /\ content[tmp] = Body(tmp, Chunks)
                 /\ \A w \in Uploads : Files!Under(w)' => writes[w] # tmp
  <2>1. PICK v \in Uploads : Files!Under(v) /\ writes[v] = tmp
    BY <1>10 DEF FilesInv
  <2>2. CASE v \in crossed
    BY <2>1, <2>2
  <2>3. CASE v \notin crossed
    <3>1. v = u /\ \A w \in Uploads \ {u} : ~Files!Under(w)
      BY <1>1, <2>1, <2>3 DEF FilesInv
    <3>2. tmp = u /\ content[u] = Body(u, Chunks)
      BY <1>1, <1>10, <2>3, <3>1 DEF FilesInv
    <3> QED BY <1>6, <1>7, <3>1, <3>2
  <2> QED BY <2>2, <2>3
<1>11. \A i \in {real', other'} \ {"nothing"} :
          \/ \E w \in crossed' : writes'[w] = i
          \/ /\ content'[i] = Body(i, Chunks)
             /\ \A w \in Uploads : Files!Under(w)' => writes'[w] # i
  <2>1. \A i \in {real, other} \ {"nothing"} :
          \/ \E w \in crossed : writes[w] = i
          \/ /\ content[i] = Body(i, Chunks)
             /\ \A w \in Uploads : Files!Under(w)' => writes[w] # i
    BY <1>6, <1>7 DEF FilesInv
  <2> QED BY <1>1, <1>2, <1>10, <2>1
<1> QED
  BY <1>1, <1>4, <1>5, <1>6, <1>7, <1>8, <1>9, <1>11 DEF FilesInv

(* A real name never shows part of an upload: what a listing finds is one   *)
(* upload's whole body, whatever uploads were cut off and files deleted and *)
(* renamed before (files.rs upload), unless uploads that were under way at  *)
(* once shared its temporary.                                               *)
THEOREM RealIsWholeAlways == Files!FilesSpec => []RealIsWhole
<1>1. FilesInv /\ [Files!FilesNext]_(Files!fvars) => FilesInv'
  <2> SUFFICES ASSUME FilesInv, [Files!FilesNext]_(Files!fvars) PROVE FilesInv'
    OBVIOUS
  <2>1. CASE Files!files_delete \/ Files!files_rename
    <3>1. /\ {real', other'} \subseteq {real, other, "nothing"}
          /\ UNCHANGED <<tmp, content, writes, at, crossed, fpc>>
      BY <2>1 DEF Files!files_delete, Files!files_rename, Files!Nothing
    <3>2. FileTypes'
      BY <3>1 DEF FilesInv, FileTypes
    <3>3. \A u \in Uploads : /\ Files!Under(u)' <=> Files!Under(u)
                             /\ Unborn(u)' <=> Unborn(u)
      BY <3>1 DEF Files!Under, Unborn
    <3>4. \A u \in Uploads : u # "nothing"
      BY FilesConstants DEF FilesConstants
    <3> QED BY <3>1, <3>2, <3>3, <3>4 DEF FilesInv
  <2>2. CASE UNCHANGED Files!fvars
    BY <2>2 DEF Files!fvars, FilesInv, FileTypes, Files!Under, Unborn
  <2> QED
    BY <2>1, <2>2, FilesExists, FilesCreate, FilesUpload, FilesEnd DEF Files!FilesNext
<1>2. FilesInv => RealIsWhole
  BY DEF FilesInv, FileTypes, Body, RealIsWhole, Files!RealIsWhole, Files!Nothing
<1> QED BY <1>1, <1>2, FilesStart, PTL DEF Files!FilesSpec

-----------------------------------------------------------------------------
(* restore: the command under way, and what its steps so far have done.    *)
RunTypes ==
    run \in [cmd : {"none", "stock", "radio", "iomcu"},
             step : {"idle", "io", "poll", "radio", "arm", "reboot"},
             keep : BOOLEAN, absent : BOOLEAN, silent : BOOLEAN, changed : SUBSET {"io", "radio"}]

(* Each step belongs to the commands that have it, under openHC.           *)
RunSteps ==
    /\ run.step # "idle" => root = "openHC"
    /\ run.step \in {"io", "poll"} => run.cmd \in {"stock", "iomcu"}
    /\ run.step = "radio" => run.cmd \in {"stock", "radio"}
    /\ run.step \in {"arm", "reboot"} => run.cmd = "stock"

(* What Control4 will find: the radio restored, and the service that would  *)
(* bring openHC's firmware back stopped, from before the entry is armed;    *)
(* on the HC-800 the IO part too, unless the command saw no driver.         *)
RadioGoesBack ==
    /\ run.step = "arm" /\ ~run.keep /\ ~run.silent => chip = "c4" /\ ~service
    /\ armed /\ "radio" \notin excused => chip = "c4" /\ ~service
    /\ root \in {"bootinit", "stock"} /\ "radio" \notin excused => chip = "c4"
IoGoesBack ==
    kind = "hc800" =>
        /\ run.cmd = "stock" /\ run.step \in {"radio", "arm", "reboot"} /\ ~run.absent
              => io # "ours"
        /\ (armed \/ root = "stock") /\ "io" \notin excused => io # "ours"
        /\ root # "bootinit"

(* Once the entry or the flag was followed nothing of openHC is at work.   *)
OnlyUnderOurs == root \in {"bootinit", "stock"} => ~writing /\ ~armed

RestoreInv == RunTypes /\ RunSteps /\ RadioGoesBack /\ IoGoesBack /\ OnlyUnderOurs

LEMMA RestoreStart == Back!Init => RestoreInv
BY DEF Back!Init, Back!Idle, Back!Command, RestoreInv, RunTypes, RunSteps, RadioGoesBack,
       IoGoesBack, OnlyUnderOurs

(* The first step of a command, and the next of one under way.             *)
LEMMA CommandStarts ==
  ASSUME NEW cmd \in {"stock", "radio", "iomcu"}, NEW keep \in BOOLEAN,
         RestoreInv, Back!main(cmd, keep)
  PROVE  RestoreInv'
<1> DEFINE first == Back!After(Back!Command(cmd, "idle", keep), "start")
<1>1. /\ root = "openHC" /\ UNCHANGED <<kind, io, chip, writing, service, armed, root, excused>>
      /\ run' = Back!Command(cmd, first, keep)
  BY DEF Back!main
<1>2. run' = [cmd |-> cmd, step |-> first, keep |-> keep, absent |-> FALSE, silent |-> FALSE,
              changed |-> {}]
  BY <1>1 DEF Back!Command
<1>3. /\ first \in {"io", "radio", "arm"}
      /\ first = "io" => cmd \in {"stock", "iomcu"}
      /\ first = "radio" => cmd = "radio" \/ (cmd = "stock" /\ kind # "hc800")
      /\ first = "arm" => cmd = "stock" /\ keep /\ kind # "hc800"
  BY DEF Back!After, Back!Command
<1> HIDE DEF first
<1> QED
  BY <1>1, <1>2, <1>3 DEF RestoreInv, RunTypes, RunSteps, RadioGoesBack, IoGoesBack,
                          OnlyUnderOurs

(* The IO part: left as it is, not found, written, or given up.            *)
LEMMA IoSteps ==
  ASSUME RestoreInv, Back!restore_from_root \/ Back!upload \/ Back!mcu_reset \/ Back!Bind
  PROVE  RestoreInv'
<1>1. UNCHANGED <<kind, chip, service, armed, root, excused>>
  BY DEF Back!restore_from_root, Back!upload, Back!mcu_reset, Back!Bind
<1>2. RunTypes
  BY DEF RestoreInv
<1> DEFINE after == Back!After(run, "io")
<1>3. run.step \in {"io", "poll"} =>
         /\ after \in {"idle", "arm", "radio"}
         /\ after = "arm" => run.cmd = "stock" /\ run.keep
         /\ after = "radio" => run.cmd = "stock"
  BY DEF Back!After, RestoreInv, RunSteps
<1> HIDE DEF after
<1>4. CASE Back!restore_from_root
  <2>1. CASE io = "c4" /\ Back!Step(after) /\ UNCHANGED writing
    <3>1. run' = [run EXCEPT !.step = after] /\ run.step = "io" /\ UNCHANGED io
      BY <1>4, <2>1 DEF Back!Step, Back!restore_from_root
    <3> QED
      BY <1>1, <1>2, <1>3, <2>1, <3>1 DEF RestoreInv, RunTypes, RunSteps, RadioGoesBack,
                                          IoGoesBack, OnlyUnderOurs
  <2>2. CASE writing' = TRUE /\ Back!Step("poll")
    <3>1. run' = [run EXCEPT !.step = "poll"] /\ run.step = "io" /\ UNCHANGED io
      BY <1>4, <2>2 DEF Back!Step, Back!restore_from_root
    <3> QED
      BY <1>1, <1>2, <2>2, <3>1 DEF RestoreInv, RunTypes, RunSteps, RadioGoesBack,
                                    IoGoesBack, OnlyUnderOurs
  <2>3. CASE run' = Back!Idle /\ UNCHANGED writing
    <3>1. UNCHANGED io
      BY <1>4 DEF Back!restore_from_root
    <3> QED
      BY <1>1, <2>3, <3>1 DEF Back!Idle, Back!Command, RestoreInv, RunTypes, RunSteps,
                              RadioGoesBack, IoGoesBack, OnlyUnderOurs
  <2>4. CASE run' = [run EXCEPT !.step = after, !.absent = TRUE] /\ UNCHANGED writing
    <3>1. run.step = "io" /\ UNCHANGED io
      BY <1>4 DEF Back!restore_from_root
    <3>2. run' = [cmd |-> run.cmd, step |-> after, keep |-> run.keep, absent |-> TRUE,
                  silent |-> run.silent, changed |-> run.changed]
      BY <1>2, <2>4 DEF RunTypes
    <3> QED
      BY <1>1, <1>2, <1>3, <2>4, <3>1, <3>2 DEF RestoreInv, RunTypes, RunSteps, RadioGoesBack,
                                                IoGoesBack, OnlyUnderOurs
  <2> QED BY <1>4, <2>1, <2>2, <2>3, <2>4 DEF Back!restore_from_root, after
<1>5. CASE Back!Written
  <2>1. writing' = FALSE /\ io' \in {"c4", "none"}
    BY <1>5 DEF Back!Written
  <2>2. CASE UNCHANGED run
    BY <1>1, <2>1, <2>2 DEF RestoreInv, RunTypes, RunSteps, RadioGoesBack,
                            IoGoesBack, OnlyUnderOurs
  <2>3. CASE run' = Back!Idle
    BY <1>1, <2>1, <2>3
       DEF Back!Idle, Back!Command, RestoreInv, RunTypes, RunSteps, RadioGoesBack,
           IoGoesBack, OnlyUnderOurs
  <2>4. CASE /\ run.step = "poll"
             /\ run' = [run EXCEPT !.step = after, !.changed = @ \cup {"io"}]
    <3>1. run' = [cmd |-> run.cmd, step |-> after, keep |-> run.keep, absent |-> run.absent,
                  silent |-> run.silent, changed |-> run.changed \cup {"io"}]
      BY <1>2, <2>4 DEF RunTypes
    <3> QED
      BY <1>1, <1>2, <1>3, <2>1, <2>4, <3>1 DEF RestoreInv, RunTypes, RunSteps,
         RadioGoesBack, IoGoesBack, OnlyUnderOurs
  <2> QED BY <1>5, <2>2, <2>3, <2>4 DEF Back!Written, after
<1>6. CASE UNCHANGED <<run, io, writing>>
  BY <1>1, <1>6 DEF RestoreInv, RunTypes, RunSteps, RadioGoesBack, IoGoesBack, OnlyUnderOurs
<1> QED
  BY <1>4, <1>5, <1>6 DEF Back!upload, Back!mcu_reset, Back!Bind

(* The radio, and the service that puts openHC's firmware back.            *)
LEMMA RadioSteps ==
  ASSUME RestoreInv, Back!radio \/ Back!ensure
  PROVE  RestoreInv'
<1>1. UNCHANGED <<kind, io, writing, armed, root, excused>>
  BY DEF Back!radio, Back!ensure
<1>2. RunTypes
  BY DEF RestoreInv
<1> DEFINE after == Back!After(run, "radio")
<1>3. after \in {"idle", "arm"} /\ (after = "arm" <=> run.cmd # "radio")
  BY DEF Back!After
<1> HIDE DEF after
<1>4. CASE Back!ensure
  BY <1>1, <1>4 DEF Back!ensure, RestoreInv, RunTypes, RunSteps, RadioGoesBack,
                    IoGoesBack, OnlyUnderOurs
<1>5. CASE /\ run.step = "radio" /\ chip' = "c4" /\ service' = FALSE
           /\ run' = [run EXCEPT !.step = after, !.changed = @ \cup {"radio"}]
  <2>1. run' = [cmd |-> run.cmd, step |-> after, keep |-> run.keep, absent |-> run.absent,
                silent |-> run.silent, changed |-> run.changed \cup {"radio"}]
    BY <1>2, <1>5 DEF RunTypes
  <2> QED
    BY <1>1, <1>2, <1>3, <1>5, <2>1 DEF RestoreInv, RunTypes, RunSteps, RadioGoesBack,
                                        IoGoesBack, OnlyUnderOurs
<1>6. CASE /\ run.step = "radio" /\ service' = FALSE /\ chip' = chip
           /\ run' = [run EXCEPT !.step = after, !.silent = TRUE]
  <2>1. run' = [cmd |-> run.cmd, step |-> after, keep |-> run.keep, absent |-> run.absent,
                silent |-> TRUE, changed |-> run.changed]
    BY <1>2, <1>6 DEF RunTypes
  <2> QED
    BY <1>1, <1>2, <1>3, <1>6, <2>1 DEF RestoreInv, RunTypes, RunSteps, RadioGoesBack,
                                        IoGoesBack, OnlyUnderOurs
<1>7. CASE /\ run.step = "radio" /\ chip # "c4" /\ chip' \in {chip, "none"}
           /\ service' = TRUE /\ run' = [run EXCEPT !.step = "idle"]
  BY <1>1, <1>2, <1>7 DEF RestoreInv, RunTypes, RunSteps, RadioGoesBack, IoGoesBack,
                          OnlyUnderOurs
<1> QED BY <1>4, <1>5, <1>6, <1>7 DEF Back!radio, Back!Step, after

(* A boot: with the entry or the flag armed, into Control4's hands.        *)
LEMMA RestoreBoots ==
  ASSUME RestoreInv, root = "openHC", Back!Boot
  PROVE  RestoreInv'
<1>1. /\ armed' = FALSE /\ writing' = FALSE /\ run' = Back!Idle
      /\ root' = IF ~armed THEN "openHC" ELSE IF kind = "hc800" THEN "stock" ELSE "bootinit"
      /\ UNCHANGED <<kind, chip, excused>>
  BY DEF Back!Boot
<1>2. root' = "stock" => io' \in {"none", io}
  BY DEF Back!Boot
<1> QED
  BY <1>1, <1>2
     DEF Back!Idle, Back!Command, RestoreInv, RunTypes, RunSteps, RadioGoesBack, IoGoesBack,
         OnlyUnderOurs

LEMMA RestoreStep == RestoreInv /\ [Back!Next]_(Back!vars) => RestoreInv'
<1> SUFFICES ASSUME RestoreInv, [Back!Next]_(Back!vars) PROVE RestoreInv'
  OBVIOUS
<1>1. CASE Back!stock
  <2>1. UNCHANGED <<kind, io, chip, writing, service, root>> /\ run.step = "arm"
    BY <1>1 DEF Back!stock
  <2>2. CASE /\ armed' = TRUE /\ run' = [run EXCEPT !.step = "reboot"]
             /\ excused' = (IF run.keep \/ run.silent THEN {"radio"} ELSE {})
                           \cup (IF run.absent THEN {"io"} ELSE {})
    BY <2>1, <2>2 DEF RestoreInv, RunTypes, RunSteps, RadioGoesBack, IoGoesBack, OnlyUnderOurs
  <2>3. CASE run' = Back!Idle /\ UNCHANGED <<armed, excused>>
    BY <2>1, <2>3
       DEF Back!Idle, Back!Command, RestoreInv, RunTypes, RunSteps, RadioGoesBack,
           IoGoesBack, OnlyUnderOurs
  <2> QED BY <1>1, <2>2, <2>3 DEF Back!stock, Back!Step, Back!After
<1>2. CASE Back!Reboot \/ Back!Unplugged
  <2>1. root = "openHC" /\ Back!Boot
    BY <1>2 DEF Back!Reboot, Back!Unplugged, RestoreInv, RunSteps
  <2> QED BY <2>1, RestoreBoots
<1>3. CASE Back!KilledRestore
  BY <1>3
     DEF Back!KilledRestore, Back!Idle, Back!Command, RestoreInv, RunTypes, RunSteps,
         RadioGoesBack, IoGoesBack, OnlyUnderOurs
<1>4. CASE Back!NoFlash \/ Back!cmd_reimage_finalize \/ Back!recovery_reimage_p1
  BY <1>4 DEF Back!NoFlash, Back!cmd_reimage_finalize, Back!recovery_reimage_p1, RestoreInv,
              RunTypes, RunSteps, RadioGoesBack, IoGoesBack, OnlyUnderOurs
<1>5. CASE UNCHANGED Back!vars
  BY <1>5
     DEF Back!vars, RestoreInv, RunTypes, RunSteps, RadioGoesBack, IoGoesBack, OnlyUnderOurs
<1> QED
  BY <1>1, <1>2, <1>3, <1>4, <1>5, CommandStarts, IoSteps, RadioSteps DEF Back!Next

(* A box that boots Control4 again has no openHC firmware on its radio      *)
(* unless that was asked for or nothing answered, and none on an HC-800's   *)
(* IO part unless iod had its driver unbound when the command looked for    *)
(* it, on any board, through any number of commands, cuts, failures, resets *)
(* and boots of openHC in between (restore's stock, radio and iomcu).       *)
THEOREM StockIsStockAlways == Back!Spec => []StockIsStock
<1>1. RestoreInv => StockIsStock
  BY DEF RestoreInv, RadioGoesBack, IoGoesBack, StockIsStock, Back!StockIsStock
<1> QED BY <1>1, RestoreStart, RestoreStep, PTL DEF Back!Spec

-----------------------------------------------------------------------------
(* switchd: no port is in a bridge the kernel does not have.               *)
InABridge(k) == \A p \in Ports : k.master[p] # "none" => k.master[p] \in k.links

SwitchTypes ==
    known \subseteq present /\ present \subseteq Ports /\ addr \in [Switch!Interfaces -> BOOLEAN]

SwitchInv == InABridge(Switch!kernel) /\ SwitchTypes /\ HistoryFree

(* One application of any configuration to any kernel of that kind, with    *)
(* the ports a daemon knows.                                               *)
LEMMA AppliedAfresh ==
  ASSUME NEW c, NEW k, NEW ports \in SUBSET Ports, InABridge(k),
         k.addr \in [Switch!Interfaces -> BOOLEAN], Switch!apply(c, k, ports)
  PROVE  /\ InABridge(Switch!kernel)' /\ addr' \in [Switch!Interfaces -> BOOLEAN]
         /\ (cfg' = c /\ (known' = ports \/ known' = {}) => HistoryFree')
<1> USE DEF Switch!None
<1>1. /\ links' = Switch!build_bridge(c, k)
      /\ master' = [p \in Ports |-> Switch!MasterOf(c, k, ports, p)]
      /\ isup' = [p \in Ports |-> IF p \in ports THEN c.ports[p].enabled ELSE k.isup[p]]
      /\ addr' = [i \in Switch!Interfaces |-> Switch!AddressOf(c, k, ports, i)]
      /\ vlans' = [p \in Ports |-> Switch!program_vlans(c, k, ports, p)]
  BY DEF Switch!apply, Switch!Becomes, Switch!Applied
<1>2. InABridge(Switch!kernel)'
  <2> SUFFICES ASSUME NEW p \in Ports, master'[p] # "none" PROVE master'[p] \in links'
    BY DEF InABridge, Switch!kernel
  <2>1. CASE Switch!Bridged(c, p)
    BY <1>1, <2>1 DEF Switch!MasterOf, Switch!Bridged, Switch!build_bridge, InABridge
  <2>2. CASE ~Switch!Bridged(c, p)
    BY <1>1, <2>2 DEF Switch!MasterOf, Switch!build_bridge, Switch!nomaster, InABridge
  <2> QED BY <2>1, <2>2
<1>3. \A i \in Switch!Interfaces : Switch!AddressOf(c, k, ports, i) \in BOOLEAN
  BY DEF Switch!AddressOf, Switch!apply_l3
<1>4. addr' \in [Switch!Interfaces -> BOOLEAN]
  BY <1>1, <1>3
<1>5. ASSUME links' \subseteq {c.name}
      PROVE  /\ links' = Switch!build_bridge(c, Switch!Bare)
             /\ \A p \in ports : Switch!MasterOf(c, k, ports, p)
                                   = Switch!MasterOf(c, Switch!Bare, ports, p)
             /\ \A p \in ports : Switch!MasterOf(c, k, ports, p) \in {"none", c.name}
  <2>1. CASE c.mode = "isolated"
    <3>1. links' = k.links \ {c.name} /\ links' = {}
      BY <1>1, <1>5, <2>1 DEF Switch!build_bridge
    <3>2. c.name \notin k.links => \A p \in Ports : k.master[p] = "none"
      BY <3>1 DEF InABridge
    <3> QED
      BY <2>1, <3>1, <3>2 DEF Switch!build_bridge, Switch!MasterOf, Switch!Bridged, Switch!Bare,
                              Switch!nomaster
  <2>2. CASE c.mode # "isolated"
    BY <1>1, <1>5, <2>2 DEF Switch!build_bridge, Switch!MasterOf, Switch!Bridged, Switch!Bare,
                            Switch!nomaster
  <2> QED BY <2>1, <2>2
<1>6. \A i \in Switch!Interfaces : i \in ports \cup ({c.name} \ Ports) =>
         \/ Switch!AddressOf(c, k, ports, i) = Switch!AddressOf(c, Switch!Bare, ports, i)
         \/ Switch!AddressOf(c, k, ports, i) /\ Switch!LeftAlone(c, i)
  BY DEF Switch!AddressOf, Switch!Bare, Switch!apply_l3, Switch!LeftAlone, Switch!Bridged
<1>7. ASSUME links' \subseteq {c.name}, NEW p \in ports
      PROVE  /\ Switch!program_vlans(c, Switch!Bare, ports, p)
                  \subseteq Switch!program_vlans(c, k, ports, p)
             /\ \/ Switch!program_vlans(c, k, ports, p)
                     = Switch!program_vlans(c, Switch!Bare, ports, p)
                \/ Switch!MasterOf(c, k, ports, p) = c.name
  BY <1>5, <1>7 DEF Switch!program_vlans, Switch!Bare
<1> DEFINE fresh == Switch!Applied(c, Switch!Bare, ports)
<1>8. /\ fresh.links = Switch!build_bridge(c, Switch!Bare)
      /\ fresh.master = [p \in Ports |-> Switch!MasterOf(c, Switch!Bare, ports, p)]
      /\ fresh.isup = [p \in Ports |-> IF p \in ports THEN c.ports[p].enabled
                                       ELSE Switch!Bare.isup[p]]
      /\ fresh.addr = [i \in Switch!Interfaces |-> Switch!AddressOf(c, Switch!Bare, ports, i)]
      /\ fresh.vlans = [p \in Ports |-> Switch!program_vlans(c, Switch!Bare, ports, p)]
  BY DEF Switch!Applied
<1>9. ASSUME cfg' = c, known' = ports PROVE HistoryFree'
  <2>1. (Switch!Applied(cfg, Switch!Bare, known))' = fresh
    BY <1>9 DEF Switch!Applied, Switch!build_bridge, Switch!MasterOf, Switch!AddressOf,
                Switch!program_vlans
  <2> HIDE DEF fresh
  <2>2. ASSUME links' \subseteq {c.name}, NEW p \in ports
        PROVE  /\ master'[p] = fresh.master[p] /\ isup'[p] = fresh.isup[p]
               /\ fresh.vlans[p] \subseteq vlans'[p]
               /\ vlans'[p] = fresh.vlans[p] \/ master'[p] = c.name
    BY <1>1, <1>5, <1>7, <1>8, <2>2
  <2>3. ASSUME NEW i \in Switch!Interfaces, i \in ports \cup ({c.name} \ Ports)
        PROVE  addr'[i] = fresh.addr[i] \/ (addr'[i] /\ Switch!LeftAlone(c, i))
    BY <1>1, <1>6, <1>8, <2>3
  <2>4. links' \subseteq {c.name} => links' = fresh.links
    BY <1>5, <1>8
  <2>5. \A i \in Switch!Interfaces : Switch!LeftAlone(cfg, i)' = Switch!LeftAlone(c, i)
    BY <1>9 DEF Switch!LeftAlone, Switch!Bridged
  <2> QED BY <1>9, <2>1, <2>2, <2>3, <2>4, <2>5 DEF HistoryFree, Switch!HistoryFree
<1>10. known' = {} => HistoryFree'
  BY DEF HistoryFree, Switch!HistoryFree
<1> QED BY <1>2, <1>4, <1>9, <1>10

LEMMA SwitchStart == Switch!Init => SwitchInv
<1> SUFFICES ASSUME Switch!Init PROVE SwitchInv
  OBVIOUS
<1> USE DEF Switch!Init, Switch!None, Switch!default_for, Switch!Config, Switch!PortDefault
<1>1. InABridge(Switch!kernel) /\ SwitchTypes
  BY DEF InABridge, Switch!kernel, SwitchTypes
<1>2. /\ Switch!Applied(cfg, Switch!Bare, known).links = links
      /\ \A p \in known : Switch!Applied(cfg, Switch!Bare, known).master[p] = master[p]
  BY DEF Switch!Applied, Switch!Bare, Switch!build_bridge, Switch!MasterOf, Switch!Bridged
<1>3. \A p \in known : /\ Switch!Applied(cfg, Switch!Bare, known).isup[p] = TRUE
                       /\ isup[p] = TRUE
  BY DEF Switch!Applied
<1>4. \A i \in Switch!Interfaces : Switch!Applied(cfg, Switch!Bare, known).addr[i] = addr[i]
  BY DEF Switch!Applied, Switch!Bare, Switch!AddressOf, Switch!Bridged, Switch!apply_l3
<1>5. \A p \in Ports : Switch!Applied(cfg, Switch!Bare, known).vlans[p] = vlans[p]
  BY DEF Switch!Applied, Switch!Bare, Switch!program_vlans
<1> QED
  BY <1>1, <1>2, <1>3, <1>4, <1>5 DEF SwitchInv, SwitchTypes, HistoryFree, Switch!HistoryFree

LEMMA SwitchStep == SwitchInv /\ [Switch!Next]_(Switch!vars) => SwitchInv'
<1> SUFFICES ASSUME SwitchInv, [Switch!Next]_(Switch!vars) PROVE SwitchInv'
  OBVIOUS
<1>1. /\ InABridge(Switch!kernel) /\ InABridge(Switch!Bare)
      /\ Switch!kernel.addr \in [Switch!Interfaces -> BOOLEAN]
      /\ Switch!Bare.addr \in [Switch!Interfaces -> BOOLEAN]
  BY DEF SwitchInv, SwitchTypes, InABridge, Switch!kernel, Switch!Bare, Switch!None
<1>2. known \in SUBSET Ports /\ present \in SUBSET Ports
  BY DEF SwitchInv, SwitchTypes
<1>3. ASSUME NEW c, Switch!apply(c, Switch!kernel, known), cfg' = c, UNCHANGED <<present, known>>
      PROVE  SwitchInv'
  BY <1>1, <1>2, <1>3, AppliedAfresh DEF SwitchInv, SwitchTypes
<1>4. CASE UNCHANGED <<cfg, present, known, links, master, isup, addr, vlans, handoff, touched>>
  <2>1. HistoryFree'
    BY <1>4 DEF SwitchInv, HistoryFree, Switch!HistoryFree
  <2> QED BY <1>4, <2>1 DEF SwitchInv, SwitchTypes, InABridge, Switch!kernel
<1>5. ASSUME NEW c \in Configs, Switch!put_config(c) PROVE SwitchInv'
  BY <1>3, <1>4, <1>5 DEF Switch!put_config
<1>6. ASSUME NEW p \in Ports, NEW b \in BOOLEAN, Switch!set_port_enable(p, b)
      PROVE  SwitchInv'
  BY <1>3, <1>6 DEF Switch!set_port_enable
<1>7. ASSUME NEW p \in Ports, Switch!PortAppears(p) \/ \E b \in BOOLEAN : Switch!mqtt_loop(p, b)
      PROVE  SwitchInv'
  BY <1>7 DEF Switch!PortAppears, Switch!mqtt_loop, SwitchInv, SwitchTypes, InABridge,
              Switch!kernel, HistoryFree, Switch!HistoryFree
<1>8. CASE Switch!reapply
  BY <1>3, <1>8 DEF Switch!reapply
<1>9. CASE Switch!Start
  <2>1. Switch!apply(cfg', Switch!kernel, present) /\ known' = present /\ present' = present
    BY <1>9 DEF Switch!Start
  <2> QED BY <1>1, <1>2, <2>1, AppliedAfresh DEF SwitchInv, SwitchTypes
<1>10. CASE Switch!Boot
  <2>1. present' \in SUBSET Ports /\ known' = {}
    BY <1>10 DEF Switch!Boot
  <2>2. CASE Switch!Becomes(Switch!Bare)
    BY <1>1, <2>1, <2>2 DEF Switch!Becomes, Switch!kernel, InABridge, SwitchInv, SwitchTypes,
                            HistoryFree, Switch!HistoryFree
  <2>3. CASE Switch!apply(cfg', Switch!Bare, present')
    BY <1>1, <2>1, <2>3, AppliedAfresh DEF SwitchInv, SwitchTypes
  <2> QED BY <1>10, <2>2, <2>3 DEF Switch!Boot
<1>11. CASE UNCHANGED Switch!vars
  BY <1>4, <1>11 DEF Switch!vars
<1> QED BY <1>5, <1>6, <1>7, <1>8, <1>9, <1>10, <1>11 DEF Switch!Next

(* What an application leaves connected does not depend on what was there   *)
(* before it: it is what a boot would give this configuration (apply.rs),   *)
(* for any ports, bridges and configurations, after any sequence of them.   *)
THEOREM HistoryFreeAlways == Switch!Spec => []HistoryFree
<1>1. SwitchInv => HistoryFree
  BY DEF SwitchInv
<1> QED BY <1>1, SwitchStart, SwitchStep, PTL DEF Switch!Spec

-----------------------------------------------------------------------------
(* sysmond's history.  The sequences it is made of, and prefixes.          *)

(* SetToSeq lists a finite set.                                            *)
LEMMA Listed ==
  ASSUME NEW S, IsFiniteSet(S)
  PROVE  History!SetToSeq(S) \in Seq(S)
<1>1. Cardinality(S) \in Nat /\ ExistsBijection(1..Cardinality(S), S)
  BY FS_CardinalityType
<1>2. PICK f \in [1..Cardinality(S) -> S] :
         \A a, b \in 1..Cardinality(S) : f[a] = f[b] => a = b
  BY <1>1 DEF ExistsBijection, Bijection, Injection, IsInjective
<1>3. History!Cardinality(S) = Cardinality(S)
  BY Zenon DEF History!Cardinality, Cardinality
<1>4. History!SetToSeq(S) \in [1..Cardinality(S) -> S]
  BY <1>2, <1>3 DEF History!SetToSeq, History!IsInjective
<1> QED BY <1>1, <1>4

(* A prefix, element by element.                                           *)
LEMMA PrefixMeans ==
  ASSUME NEW S, NEW s \in Seq(S), NEW t \in Seq(S)
  PROVE  History!IsPrefix(s, t) <=>
            Len(s) <= Len(t) /\ \A i \in 1..Len(s) : s[i] = t[i]
<1>1. Len(s) \in Nat /\ Len(t) \in Nat
  OBVIOUS
<1>2. SubSeq(s, 1, Len(s)) = s
  OBVIOUS
<1>3. Len(s) <= Len(t) =>
         /\ SubSeq(t, 1, Len(s)) \in Seq(S) /\ Len(SubSeq(t, 1, Len(s))) = Len(s)
         /\ \A i \in 1..Len(s) : SubSeq(t, 1, Len(s))[i] = t[i]
  OBVIOUS
<1>4. Len(s) <= Len(t) =>
         (s = SubSeq(t, 1, Len(s)) <=> \A i \in 1..Len(s) : s[i] = t[i])
  BY <1>1, <1>3, SeqEqual
<1> QED BY <1>2, <1>4 DEF History!IsPrefix

(* What is added behind a list leaves its prefixes prefixes of it.         *)
LEMMA PrefixOfMore ==
  ASSUME NEW S, NEW s \in Seq(S), NEW t \in Seq(S), NEW u \in Seq(S),
         History!IsPrefix(s, t)
  PROVE  History!IsPrefix(s, t \o u) /\ t \o u \in Seq(S)
<1>1. Len(s) <= Len(t) /\ \A i \in 1..Len(s) : s[i] = t[i]
  BY PrefixMeans
<1>2. /\ t \o u \in Seq(S) /\ Len(t \o u) = Len(t) + Len(u)
      /\ \A i \in 1..Len(t) : (t \o u)[i] = t[i]
  OBVIOUS
<1>3. Len(s) \in Nat /\ Len(t) \in Nat /\ Len(u) \in Nat
  OBVIOUS
<1>4. Len(s) <= Len(t \o u) /\ \A i \in 1..Len(s) : s[i] = (t \o u)[i]
  BY <1>1, <1>2, <1>3
<1> QED BY <1>2, <1>4, PrefixMeans

(* The positions history_json keeps are positions of the ring.             *)
LEMMA KeptAt ==
  ASSUME NEW l \in Nat, NEW j \in 1..((l + Every - 1) \div Every)
  PROVE  l - (((l + Every - 1) \div Every) - j) * Every \in 1..l
<1> DEFINE kept == (l + Every - 1) \div Every
<1>1. Every \in Nat /\ Every >= 1
  BY HistoryConstants DEF HistoryConstants
<1>2. kept \in Nat /\ kept * Every <= l + Every - 1
  BY <1>1
<1>3. j \in Nat /\ 1 <= j /\ j <= kept
  BY <1>2
<1> HIDE DEF kept
<1>4. (kept - j) * Every = kept * Every - j * Every /\ j * Every >= Every /\ (kept - j) * Every >= 0
  BY <1>1, <1>2, <1>3
<1>5. (kept - j) * Every \in Int /\ kept * Every \in Int /\ j * Every \in Int
  BY <1>1, <1>2, <1>3
<1>6. l - (kept - j) * Every \in 1..l
  BY <1>1, <1>2, <1>4, <1>5
<1> QED BY <1>6 DEF kept

(* The names of the sensors, alone or qualified, and the samples of them.  *)
SeriesNames == {<<Slug[s]>> : s \in Sensors} \cup {<<Slug[s], s>> : s \in Sensors}
RingSamples == [at : Nat, v : Seq(Sensors \cup {"missing"}), is : Seq(SeriesNames)]

HistoryTypes ==
    /\ bound \subseteq Sensors /\ n \in Nat
    /\ series \in Seq(SeriesNames) /\ ring \in Seq(RingSamples)
    /\ history.series \in Seq(SeriesNames)

(* Both lists have grown from what each sample was taken against.          *)
HistoryInv ==
    /\ HistoryTypes
    /\ \A i \in 1..Len(ring) : History!IsPrefix(ring[i].is, series)
    /\ \A i \in DOMAIN history.samples :
          History!IsPrefix(history.samples[i].is, history.series)

(* The list with the sensors of the moment added behind it.                *)
LEMMA ExtendedList ==
  ASSUME HistoryTypes, NEW names, names = {History!NameOf(s) : s \in bound}
  PROVE  /\ History!Extended(names) \in Seq(SeriesNames)
         /\ \A s \in Seq(SeriesNames) :
               History!IsPrefix(s, series) => History!IsPrefix(s, History!Extended(names))
<1>1. names \subseteq SeriesNames
  BY DEF History!NameOf, SeriesNames, HistoryTypes
<1>2. IsFiniteSet(names)
  <2>1. IsFiniteSet(bound)
    BY HistoryConstants, FS_Subset DEF HistoryConstants, HistoryTypes
  <2> DEFINE f == [s \in bound |-> History!NameOf(s)]
  <2>2. f \in Surjection(bound, names)
    BY DEF Surjection
  <2> QED BY <2>1, <2>2, FS_Surjection
<1> DEFINE fresh == names \ History!ToSet(series)
<1>3. IsFiniteSet(fresh) /\ fresh \subseteq SeriesNames
  BY <1>1, <1>2, FS_Subset
<1>4. History!SetToSeq(fresh) \in Seq(fresh)
  BY <1>3, Listed
<1>5. History!SetToSeq(fresh) \in Seq(SeriesNames)
  BY <1>3, <1>4, SeqMonotonic
<1>6. History!Extended(names) = series \o History!SetToSeq(fresh)
  BY DEF History!Extended
<1> HIDE DEF fresh
<1>7. \A s \in Seq(SeriesNames) : History!IsPrefix(s, series) =>
         History!IsPrefix(s, series \o History!SetToSeq(fresh))
  BY <1>5, PrefixOfMore DEF HistoryTypes
<1>8. series \o History!SetToSeq(fresh) \in Seq(SeriesNames)
  BY <1>5, ConcatProperties DEF HistoryTypes
<1> QED BY <1>6, <1>7, <1>8

(* The values read against a list of names.                                *)
LEMMA ValuesRead ==
  ASSUME HistoryTypes, NEW list \in Seq(SeriesNames)
  PROVE  History!Values(list) \in Seq(Sensors \cup {"missing"})
<1>1. \A r \in History!readings : r[2] \in Sensors
  BY DEF History!readings, HistoryTypes
<1>2. \A x : (\E r \in History!readings : r[1] = x) =>
               (CHOOSE r \in History!readings : r[1] = x)[2] \in Sensors
  BY <1>1
<1>3. History!Values(list) \in [1..Len(list) -> Sensors \cup {"missing"}]
  BY <1>2 DEF History!Values, History!Missing
<1>4. Len(list) \in Nat
  OBVIOUS
<1> QED BY <1>3, <1>4

(* What goes out is samples of the ring, with the list of now.             *)
LEMMA Published ==
  ASSUME NEW list, NEW samples \in Seq(RingSamples)
  PROVE  LET doc == History!history_json(list, samples)
         IN  /\ doc.series = list
             /\ \A j \in DOMAIN doc.samples :
                   \E i \in 1..Len(samples) : doc.samples[j] = samples[i]
<1> DEFINE kept == (Len(samples) + Every - 1) \div Every
           doc == History!history_json(list, samples)
<1>1. /\ doc.series = list
      /\ doc.samples = [j \in 1..kept |-> samples[Len(samples) - (kept - j) * Every]]
  BY DEF History!history_json
<1>2. Len(samples) \in Nat
  OBVIOUS
<1>3. \A j \in 1..kept : Len(samples) - (kept - j) * Every \in 1..Len(samples)
  BY <1>2, KeptAt
<1> HIDE DEF kept, doc
<1>4. \A j \in DOMAIN doc.samples : \E i \in 1..Len(samples) : doc.samples[j] = samples[i]
  BY <1>1, <1>3
<1> QED BY <1>1, <1>4 DEF doc

LEMMA HistoryStart == History!HistoryInit => HistoryInv
<1> SUFFICES ASSUME History!HistoryInit PROVE HistoryInv
  OBVIOUS
<1>1. /\ ring \in Seq(RingSamples) /\ Len(ring) = 0 /\ series \in Seq(SeriesNames)
      /\ n \in Nat /\ bound \subseteq Sensors /\ history = History!history_json(series, ring)
  BY DEF History!HistoryInit
<1>2. /\ history.series = series
      /\ \A j \in DOMAIN history.samples : \E i \in 1..Len(ring) : history.samples[j] = ring[i]
  <2>1. ring \in Seq(RingSamples) /\ history = History!history_json(series, ring)
    BY <1>1
  <2> QED BY <2>1, Published
<1>3. 1..Len(ring) = {}
  BY <1>1
<1> QED BY <1>1, <1>2, <1>3 DEF HistoryInv, HistoryTypes

LEMMA HistoryPush ==
  ASSUME HistoryInv, History!push
  PROVE  HistoryInv'
<1> DEFINE names == {History!NameOf(s) : s \in bound}
           sample == [at |-> n + 1, v |-> History!Values(series'), is |-> series']
           before == IF Len(ring) = Cap THEN Tail(ring) ELSE ring
<1>1. /\ series' = History!Extended(names) /\ n' = n + 1 /\ UNCHANGED bound
      /\ ring' = Append(before, sample)
      /\ history' \in {history, History!history_json(series', ring')}
  BY DEF History!push
<1>2. /\ series' \in Seq(SeriesNames)
      /\ \A s \in Seq(SeriesNames) :
            History!IsPrefix(s, series) => History!IsPrefix(s, series')
  BY <1>1, ExtendedList DEF HistoryInv
<1>3. sample \in RingSamples
  BY <1>2, ValuesRead DEF HistoryInv, HistoryTypes, RingSamples
<1>4. /\ before \in Seq(RingSamples)
      /\ \A i \in 1..Len(before) : \E k \in 1..Len(ring) : before[i] = ring[k]
  <2>1. ring \in Seq(RingSamples) /\ Cap \in Nat \ {0} /\ Len(ring) \in Nat
    BY HistoryConstants DEF HistoryInv, HistoryTypes, HistoryConstants
  <2>2. CASE Len(ring) = Cap
    <3>1. /\ Tail(ring) \in Seq(RingSamples) /\ Len(Tail(ring)) = Len(ring) - 1
          /\ \A i \in 1..Len(Tail(ring)) : Tail(ring)[i] = ring[i + 1]
      BY <2>1, <2>2
    <3>2. \A i \in 1..Len(Tail(ring)) : i + 1 \in 1..Len(ring)
      BY <2>1, <3>1
    <3> QED BY <2>2, <3>1, <3>2
  <2>3. CASE Len(ring) # Cap
    BY <2>1, <2>3
  <2> QED BY <2>2, <2>3
<1>5. \A i \in 1..Len(before) : before[i].is \in Seq(SeriesNames)
                                /\ History!IsPrefix(before[i].is, series')
  <2>1. \A k \in 1..Len(ring) : ring[k] \in RingSamples /\ History!IsPrefix(ring[k].is, series)
    BY DEF HistoryInv, HistoryTypes
  <2>2. \A k \in 1..Len(ring) : ring[k].is \in Seq(SeriesNames)
                                /\ History!IsPrefix(ring[k].is, series')
    BY <1>2, <2>1 DEF RingSamples
  <2> QED BY <1>4, <2>2
<1>6. History!IsPrefix(sample.is, series')
  BY <1>2, PrefixMeans
<1> HIDE DEF before, sample, names
<1>7. /\ ring' \in Seq(RingSamples) /\ Len(ring') = Len(before) + 1 /\ Len(before) \in Nat
      /\ \A i \in 1..Len(before) : ring'[i] = before[i]
      /\ ring'[Len(before) + 1] = sample
  BY <1>1, <1>3, <1>4
<1>8. \A i \in 1..Len(ring') : History!IsPrefix(ring'[i].is, series')
  <2> SUFFICES ASSUME NEW i \in 1..Len(ring') PROVE History!IsPrefix(ring'[i].is, series')
    OBVIOUS
  <2>1. i \in 1..Len(before) \/ i = Len(before) + 1
    BY <1>7
  <2> QED BY <1>5, <1>6, <1>7, <2>1
<1>9. /\ history'.series \in Seq(SeriesNames)
      /\ \A i \in DOMAIN history'.samples :
            History!IsPrefix(history'.samples[i].is, history'.series)
  <2>1. CASE history' = history
    BY <2>1 DEF HistoryInv, HistoryTypes
  <2>2. CASE history' = History!history_json(series', ring')
    <3>1. /\ history'.series = series'
          /\ \A j \in DOMAIN history'.samples :
                \E i \in 1..Len(ring') : history'.samples[j] = ring'[i]
      BY <1>7, <2>2, Published
    <3> QED BY <1>2, <1>8, <3>1
  <2> QED BY <1>1, <2>1, <2>2
<1> QED
  BY <1>1, <1>2, <1>7, <1>8, <1>9 DEF HistoryInv, HistoryTypes

(* Every sample published or held still reads as it did when it was taken   *)
(* (history.rs push extends the list and renumbers nothing), for any        *)
(* sensors, ring and rate of publishing, as drivers come and go.            *)
THEOREM SamplesKeepMeaningAlways == History!HistorySpec => []SamplesKeepMeaning
<1>1. HistoryInv /\ [History!HistoryNext]_(History!hvars) => HistoryInv'
  <2>1. ASSUME HistoryInv, NEW s \in Sensors, History!Bind(s) PROVE HistoryInv'
    BY <2>1 DEF History!Bind, HistoryInv, HistoryTypes
  <2>2. HistoryInv /\ UNCHANGED History!hvars => HistoryInv'
    BY DEF History!hvars, HistoryInv, HistoryTypes
  <2> QED BY <2>1, <2>2, HistoryPush DEF History!HistoryNext
<1>2. HistoryInv => SamplesKeepMeaning
  <2> SUFFICES ASSUME HistoryInv PROVE SamplesKeepMeaning
    OBVIOUS
  <2> DEFINE held == [series |-> series, samples |-> ring]
  <2>1. held.series = series /\ held.samples = ring /\ DOMAIN ring = 1..Len(ring)
    BY DEF HistoryInv, HistoryTypes
  <2> HIDE DEF held
  <2>2. \A doc \in {history, held} :
           \A i \in DOMAIN doc.samples : History!IsPrefix(doc.samples[i].is, doc.series)
    BY <2>1 DEF HistoryInv
  <2> QED BY <2>2 DEF SamplesKeepMeaning, History!SamplesKeepMeaning, held
<1> QED BY <1>1, <1>2, HistoryStart, PTL DEF History!HistorySpec

-----------------------------------------------------------------------------
(* A behaviour of a box is one of each of its daemons (MCBox), so the six    *)
(* hold of it together, whichever daemon is at work.                        *)
THEOREM BoxIsSafe ==
  Spec => [](/\ UpToDateIsWhole /\ HistoryFree /\ UsersOffStays
             /\ SamplesKeepMeaning /\ RealIsWhole /\ StockIsStock)
<1>1. Init => /\ Update!Init /\ Switch!Init /\ Usb!Init /\ History!HistoryInit
              /\ Files!FilesInit /\ Back!Init
  BY DEF Init
<1>2. [Next]_vars => /\ [Update!Next]_(Update!vars) /\ [Switch!Next]_(Switch!vars)
                     /\ [Usb!Next]_(Usb!vars)
  BY DEF Next, vars, updated, switchd, usb, Update!vars, Switch!vars, Usb!vars
<1>3. [Next]_vars => /\ [History!HistoryNext]_(History!hvars)
                     /\ [Files!FilesNext]_(Files!fvars) /\ [Back!Next]_(Back!vars)
  BY DEF Next, vars, hist, files, restore, History!hvars, Files!fvars, Back!vars
<1>4. Usb!Init => UsbHeld
  BY DEF Usb!Init, UsbHeld
<1>5. UsbHeld => UsersOffStays
  BY DEF UsbHeld, UsersOffStays, Usb!UsersOffStays
<1> QED
  BY <1>1, <1>2, <1>3, <1>4, <1>5, UsbStep, UpToDateIsWholeAlways, HistoryFreeAlways,
     SamplesKeepMeaningAlways, RealIsWholeAlways, StockIsStockAlways, PTL
     DEF Spec, Update!Spec, Switch!Spec, History!HistorySpec, Files!FilesSpec, Back!Spec
=============================================================================
