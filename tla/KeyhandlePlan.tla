---------------------------- MODULE KeyhandlePlan ----------------------------
(***************************************************************************)
(* How a payload is cut into keyhandles (src/protocol/chunk.js,            *)
(* planKeyhandleChunks), sent one by one (sendChunked), and read by the    *)
(* key, which takes each keyhandle apart into packets of PACKET_DATA bytes *)
(* and reads every packet but the very last one as full.                   *)
(*                                                                         *)
(* The bytes are not modelled, only how many the key reads.                *)
(***************************************************************************)
EXTENDS Naturals, Sequences

CONSTANT MaxLength   (* the longest payload tried *)

ASSUME MaxLengthAssumption == MaxLength \in Nat

PACKET_DATA == 57
MAX_PAYLOAD == 245
HEADER == 10
MIN_DATA == 16
POISONED == {48, 70}

(* What the seal adds: nothing under transit v1, transit.OVERHEAD under v2 *)
Overheads == {0, 20}

VARIABLES
  length,      (* the payload's                                            *)
  overhead,
  pc,
  remaining,   (* `remaining`, then `last`                                 *)
  sizes,       (* `sizes`                                                  *)
  index,       (* keyhandles sent                                          *)
  offset,      (* bytes of the payload in them                             *)
  read         (* bytes the key has read of them                           *)

vars == <<length, overhead, pc, remaining, sizes, index, offset, read>>

TypeOK ==
  /\ length \in 1 .. MaxLength /\ overhead \in Overheads
  /\ pc \in {"slice", "reshape", "send", "sent", "refused"}
  /\ remaining \in Nat
  /\ sizes \in Seq(1 .. MAX_PAYLOAD)
  /\ index \in 0 .. Len(sizes)
  /\ offset \in 0 .. length /\ read \in Nat

Init ==
  /\ length \in 1 .. MaxLength /\ overhead \in Overheads
  /\ pc = "slice"
  /\ remaining = length /\ sizes = <<>>
  /\ index = 0 /\ offset = 0 /\ read = 0

room == MAX_PAYLOAD - overhead

fullAny == room
(* `full`: the most whole packets a sealed keyhandle has room for.         *)
full == (room \div PACKET_DATA) * PACKET_DATA

(* ctap.dataRegionLength: the payload with the padding encodeRequest adds. *)
dataRegionLength(n) ==
  LET padded == IF n < MIN_DATA THEN MIN_DATA ELSE n
  IN IF HEADER + padded \in POISONED THEN padded + 1 ELSE padded

SealedIsExact(n) == dataRegionLength(n + overhead) = n + overhead

Slice ==
  /\ pc = "slice" /\ remaining > full
  /\ sizes' = Append(sizes, full)
  /\ remaining' = remaining - full
  /\ UNCHANGED <<length, overhead, pc, index, offset, read>>

Sliced ==
  /\ pc = "slice" /\ remaining <= full
  /\ pc' = "reshape"
  /\ UNCHANGED <<length, overhead, remaining, sizes, index, offset, read>>

(* A packet moves from the keyhandle before into one that would be padded. *)
Moves == ~SealedIsExact(remaining) /\ sizes # <<>> /\ remaining + PACKET_DATA <= room

last == IF Moves THEN remaining + PACKET_DATA ELSE remaining

Reshape ==
  /\ pc = "reshape" /\ SealedIsExact(last)
  /\ pc' = "send"
  /\ remaining' = last
  /\ sizes' = Append(IF Moves THEN [sizes EXCEPT ![Len(sizes)] = @ - PACKET_DATA] ELSE sizes,
                     last)
  /\ UNCHANGED <<length, overhead, index, offset, read>>

Refuse ==
  /\ pc = "reshape" /\ ~SealedIsExact(last)
  /\ pc' = "refused"
  /\ UNCHANGED <<length, overhead, remaining, sizes, index, offset, read>>

-----------------------------------------------------------------------------
Packets(n) == (n + PACKET_DATA - 1) \div PACKET_DATA

(* The key reads the whole data region, padding and all, in full packets   *)
(* but for the last of the final keyhandle (external).                     *)
KeyReads(n, final) ==
  LET plain == dataRegionLength(n + overhead) - overhead
  IN IF final THEN plain ELSE Packets(plain) * PACKET_DATA

SendChunk ==
  /\ pc = "send" /\ index < Len(sizes)
  /\ LET left == length - offset
         size == IF sizes[index + 1] < left THEN sizes[index + 1] ELSE left
     IN /\ offset' = offset + size
        /\ read' = read + KeyReads(size, offset' = length)
        /\ pc' = IF offset' = length THEN "sent" ELSE "send"
  /\ index' = index + 1
  /\ UNCHANGED <<length, overhead, remaining, sizes>>

Next == Slice \/ Sliced \/ Reshape \/ Refuse \/ SendChunk

Spec == Init /\ [][Next]_vars

-----------------------------------------------------------------------------
(* After each keyhandle the key has read exactly the bytes sent, so the    *)
(* payload it hashes is the payload: no keyhandle is padded, and none but  *)
(* the final one ends in a short packet.                                   *)
ReadsWhatIsSent == read = offset

(* Every keyhandle fits, the sender's loop ends with the last of the plan, *)
(* and with all of the payload sent.                                       *)
PlanFits ==
  /\ \A i \in 1 .. Len(sizes) : 0 < sizes[i] /\ sizes[i] <= room
  /\ pc = "sent" => index = Len(sizes) /\ offset = length
  /\ pc = "send" => index < Len(sizes)

(* Cutting makes every payload of more than one keyhandle sendable but     *)
(* these: under v1 a remainder of 3 bytes is padded, and the 60 it becomes *)
(* with a packet more is a length the key would take for a credential.     *)
RefusesOnlyThese ==
  pc = "refused" =>
    \/ length <= full /\ ~SealedIsExact(length)
    \/ overhead = 0 /\ length % full = 3

(* All of it: a payload that is not refused is sent whole, in keyhandles   *)
(* that fit, and the key reads it as it is; and few are refused.           *)
PayloadIsRead == ReadsWhatIsSent /\ PlanFits /\ RefusesOnlyThese
=============================================================================
