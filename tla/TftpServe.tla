------------------------------ MODULE TftpServe ------------------------------
(***************************************************************************)
(* The flasher's TFTP server (flasher: transport/src/tftp.rs), which feeds  *)
(* the kernel and the initramfs to a controller's bootloader one block at a *)
(* time, each acknowledged before the next.                                *)
(*                                                                          *)
(* The link keeps order and may lose or delay a datagram; the client is a   *)
(* bootloader (external): it asks again until data comes, takes the block   *)
(* it expects and acknowledges again the one it has.                       *)
(***************************************************************************)
EXTENDS Integers, Sequences

CONSTANTS
    FileBlocks,     \* blocks of the file, the last one short
    Wrap,           \* block numbers are modulo this: 2^16
    Tries,          \* sends of a block before giving up
    MaxTimeouts,    \* bound: reads that time out while an answer is on its way
    MaxLosses       \* bound: datagrams lost

VARIABLES
    request,    \* read requests waiting at port 69
    server,     \* idle, send, wait, sent or failed
    block,      \* the block being sent, counted from 1
    tries,      \* sends of it so far
    data,       \* DATA on their way, by their block number
    acks,       \* ACKs on their way
    got,        \* blocks the client has
    from,       \* the block each of them was, as the server counts
    wire,       \* what each DATA on its way carries
    ntimeouts, nlosses

tftp == <<request, server, block, tries>>
client == <<got, from>>
link == <<data, acks, wire>>
tftpvars == <<tftp, client, link, ntimeouts, nlosses>>

TypeOK ==
    /\ request \in Nat
    /\ server \in {"idle", "send", "wait", "sent", "failed"}
    /\ block \in 1..FileBlocks /\ tries \in 0..Tries
    /\ \A i \in DOMAIN data : data[i] \in 0..Wrap - 1
    /\ \A i \in DOMAIN acks : acks[i] \in 0..Wrap - 1
    /\ Len(wire) = Len(data)
    /\ got \in 0..FileBlocks /\ Len(from) = got
    /\ ntimeouts \in 0..MaxTimeouts /\ nlosses \in 0..MaxLosses

(* u16::wrapping_add.                                                      *)
Number(b) == b % Wrap

Lose == nlosses < MaxLosses /\ nlosses' = nlosses + 1

(* serve_loop: a request for a file there is; the others are answered with  *)
(* an error and change nothing.  Requests that came meanwhile wait.        *)
serve_loop ==
    /\ server = "idle" /\ request > 0
    /\ request' = request - 1
    /\ server' = "send" /\ block' = 1 /\ tries' = 0
    /\ UNCHANGED <<client, link, ntimeouts, nlosses>>

(* Mutant: one try fewer.                                                  *)
MutantSendBlock ==
    /\ server = "send"
    /\ IF tries < Tries - 1
       THEN /\ tries' = tries + 1 /\ server' = "wait"
            /\ data' = Append(data, Number(block)) /\ wire' = Append(wire, block)
       ELSE server' = "failed" /\ UNCHANGED <<tries, data, wire>>
    /\ UNCHANGED <<request, block, client, acks, ntimeouts, nlosses>>

(* send_file: the block, up to Tries times.                                *)
SendBlock ==
    /\ server = "send"
    /\ IF tries < Tries
       THEN /\ tries' = tries + 1 /\ server' = "wait"
            /\ data' = Append(data, Number(block)) /\ wire' = Append(wire, block)
       ELSE server' = "failed" /\ UNCHANGED <<tries, data, wire>>
    /\ UNCHANGED <<request, block, client, acks, ntimeouts, nlosses>>

(* Mutant: any answer acknowledges.                                         *)
MutantIsAck(a) == TRUE

IsAck(a) == a = Number(block)

(* An acknowledgement of this block moves on, the last one ends it; any     *)
(* other uses up a try.                                                    *)
RecvAck ==
    /\ server = "wait" /\ acks # <<>>
    /\ acks' = Tail(acks)
    /\ IF ~IsAck(Head(acks)) THEN server' = "send" /\ UNCHANGED <<block, tries>>
       ELSE IF block = FileBlocks THEN server' = "sent" /\ UNCHANGED <<block, tries>>
       ELSE server' = "send" /\ block' = block + 1 /\ tries' = 0
    /\ UNCHANGED <<request, client, data, wire, ntimeouts, nlosses>>

(* 800 ms without one: it was lost, or it is late.                         *)
RecvTimeout ==
    /\ server = "wait" /\ acks = <<>>
    /\ IF data = <<>> THEN UNCHANGED ntimeouts
       ELSE ntimeouts < MaxTimeouts /\ ntimeouts' = ntimeouts + 1
    /\ server' = "send"
    /\ UNCHANGED <<request, block, tries, client, link, nlosses>>

-----------------------------------------------------------------------------
(* The client and the link.                                                *)

(* The bootloader takes what it expects, and says again what it has.       *)
ClientData(lost) ==
    /\ data # <<>>
    /\ data' = Tail(data) /\ wire' = Tail(wire)
    /\ IF Head(data) = Number(got + 1) /\ got < FileBlocks
       THEN got' = got + 1 /\ from' = Append(from, Head(wire))
       ELSE UNCHANGED client
    /\ IF lost THEN Lose /\ UNCHANGED acks
       ELSE /\ UNCHANGED nlosses
            /\ acks' = IF Head(data) \in {Number(got), Number(got + 1)}
                       THEN Append(acks, Head(data)) ELSE acks
    /\ UNCHANGED <<tftp, ntimeouts>>

DataLost ==
    /\ data # <<>> /\ Lose
    /\ data' = Tail(data) /\ wire' = Tail(wire)
    /\ UNCHANGED <<tftp, client, acks, ntimeouts>>

TftpInit ==
    /\ request = 1 /\ server = "idle" /\ block = 1 /\ tries = 0
    /\ data = <<>> /\ acks = <<>> /\ wire = <<>>
    /\ got = 0 /\ from = <<>>
    /\ ntimeouts = 0 /\ nlosses = 0

Server == serve_loop \/ SendBlock \/ RecvAck \/ RecvTimeout
Client == \E lost \in BOOLEAN : ClientData(lost)

TftpNext == Server \/ Client \/ DataLost

TftpSpec == TftpInit /\ [][TftpNext]_tftpvars /\ WF_tftpvars(Server) /\ WF_tftpvars(Client)

-----------------------------------------------------------------------------
(* Properties.                                                             *)

(* A transfer the server calls complete was received, each block once and   *)
(* in its place, whatever was lost, resent or answered late on the way: an  *)
(* acknowledgement of another block never passes for this one's, though     *)
(* only 16 bits tell them apart.                                            *)
SentIsReceived == server = "sent" => from = [b \in 1..FileBlocks |-> b]

(* "Up to a handful of resends per block covers a dropped datagram": while  *)
(* losses and late answers together are fewer than the tries of one block, *)
(* the whole file goes over, in order, its numbers wrapping, though every   *)
(* resend leaves an acknowledgement behind that costs the next block a try. *)
GoesThrough == []SentIsReceived /\ <>(server = "sent")

=============================================================================
