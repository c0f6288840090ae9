----------------------------- MODULE PlanProofs -----------------------------
(***************************************************************************)
(* Theorems about what is planned: how a payload of any length is cut into *)
(* keyhandles, what an agent's plan and its budget promise, and who is in  *)
(* the room a plan is sent to.                                             *)
(***************************************************************************)
EXTENDS KeyhandlePlan, AgentPlan, EdgeBudget, Room, Integers, SequenceTheorems,
        FiniteSetTheorems, WellFoundedInduction, TLAPS

-----------------------------------------------------------------------------
(* The keyhandle plan: the key reads exactly the bytes sent, and only the  *)
(* lengths RefusesOnlyThese names are refused.                             *)

(* Before the plan is made, every size is a full keyhandle.                *)
Slicing ==
  pc \in {"slice", "reshape", "refused"} =>
    /\ index = 0 /\ offset = 0 /\ read = 0
    /\ remaining >= 1
    /\ \A i \in 1 .. Len(sizes) : sizes[i] = full
    /\ length = remaining + full * Len(sizes)
    /\ pc # "slice" => remaining <= full
    /\ pc = "refused" => ~SealedIsExact(last)

(* What the last keyhandle but one gave to the last.                       *)
Moved == IF Len(sizes) > 1 THEN full - sizes[Len(sizes) - 1] ELSE 0

Planned ==
  pc \in {"send", "sent"} =>
    /\ Len(sizes) >= 1
    /\ remaining = sizes[Len(sizes)] /\ SealedIsExact(remaining)
    /\ remaining >= 1 /\ remaining <= room
    /\ \A i \in 1 .. Len(sizes) : i < Len(sizes) - 1 => sizes[i] = full
    /\ Len(sizes) > 1 => sizes[Len(sizes) - 1] \in {full, full - PACKET_DATA}
    /\ length = full * (Len(sizes) - 1) - Moved + remaining

Sending ==
  pc \in {"send", "sent"} =>
    /\ read = offset
    /\ pc = "send" => /\ index < Len(sizes)
                      /\ offset = full * index - (IF index = Len(sizes) - 1 THEN Moved ELSE 0)
    /\ pc = "sent" => index = Len(sizes) /\ offset = length

PlanInv == TypeOK /\ Slicing /\ Planned /\ Sending

(* The room in a keyhandle, and the payload that fills whole packets of it.*)
LEMMA FullValues ==
  ASSUME overhead \in Overheads
  PROVE  \/ overhead = 0 /\ full = 228 /\ room = 245
         \/ overhead = 20 /\ full = 171 /\ room = 225
  BY SMT DEF Overheads, full, room, MAX_PAYLOAD, PACKET_DATA

(* A keyhandle of whole packets, the two sizes the plan uses, is sealed    *)
(* without padding and read in full packets.                               *)
LEMMA WholePacketsRead ==
  ASSUME overhead \in Overheads, NEW n \in {full, full - PACKET_DATA}
  PROVE  KeyReads(n, FALSE) = n
<1>1. CASE overhead = 0 /\ full = 228
  <2>1. n \in {228, 171}
    BY <1>1, SMT DEF PACKET_DATA
  <2>2. dataRegionLength(n + overhead) = n + overhead
    BY <1>1, <2>1, SMT DEF dataRegionLength, MIN_DATA, HEADER, POISONED
  <2>3. Packets(n) * PACKET_DATA = n
    BY <2>1, SMT DEF Packets, PACKET_DATA
  <2> QED
    BY <1>1, <2>1, <2>2, <2>3, SMT DEF KeyReads
<1>2. CASE overhead = 20 /\ full = 171
  <2>1. n \in {171, 114}
    BY <1>2, SMT DEF PACKET_DATA
  <2>2. dataRegionLength(n + overhead) = n + overhead
    BY <1>2, <2>1, SMT DEF dataRegionLength, MIN_DATA, HEADER, POISONED
  <2>3. Packets(n) * PACKET_DATA = n
    BY <2>1, SMT DEF Packets, PACKET_DATA
  <2> QED
    BY <1>2, <2>1, <2>2, <2>3, SMT DEF KeyReads
<1> QED
  BY <1>1, <1>2, FullValues

(* A final keyhandle that is sealed without padding is read as it is.      *)
LEMMA FinalRead ==
  ASSUME overhead \in Overheads, NEW n \in Nat, SealedIsExact(n)
  PROVE  KeyReads(n, TRUE) = n
  BY SMT DEF SealedIsExact, KeyReads, Overheads

(* Nothing is planned at first.                                            *)
LEMMA InitPlan == Init => PlanInv
<1> SUFFICES ASSUME Init PROVE PlanInv
  OBVIOUS
<1>1. TypeOK
  BY MaxLengthAssumption, SMT DEF Init, TypeOK
<1>2. full \in Nat
  BY FullValues, SMT DEF Init
<1>3. full * Len(sizes) = 0
  BY <1>2, SMT DEF Init
<1>4. Slicing
  BY <1>3, MaxLengthAssumption, SMT DEF Init, Slicing
<1> QED
  BY <1>1, <1>4, SMT DEF Init, PlanInv, Planned, Sending

(* Another full keyhandle.                                                 *)
LEMMA SlicePlan == PlanInv /\ Slice => PlanInv'
<1> SUFFICES ASSUME PlanInv, Slice PROVE PlanInv'
  OBVIOUS
<1> USE DEF PlanInv, Slice
<1>1. full' = full /\ room' = room /\ full \in 1 .. MAX_PAYLOAD
  BY FullValues, SMT DEF full, room, TypeOK, MAX_PAYLOAD
<1>2. sizes' \in Seq(1 .. MAX_PAYLOAD) /\ Len(sizes') = Len(sizes) + 1
  BY <1>1, SMT DEF TypeOK
<1>3. \A i \in 1 .. Len(sizes') : sizes'[i] = full
  BY <1>1, <1>2, SMT DEF Slicing, TypeOK
<1>4. TypeOK'
  BY <1>1, <1>2, FullValues, SMT DEF TypeOK, Slicing
<1>5. length = remaining' + full * Len(sizes') /\ remaining' >= 1
  <2>1. Len(sizes) \in Nat /\ remaining \in Nat /\ overhead \in Overheads
    BY SMT DEF TypeOK
  <2>2. length = remaining + full * Len(sizes) /\ remaining > full /\ remaining' = remaining - full
    BY DEF Slicing
  <2>3. CASE full = 228
    BY <1>2, <2>1, <2>2, <2>3, SMT
  <2>4. CASE full = 171
    BY <1>2, <2>1, <2>2, <2>4, SMT
  <2> QED
    BY <2>1, <2>3, <2>4, FullValues
<1>6. Slicing'
  BY <1>1, <1>3, <1>5, SMT DEF Slicing
<1> QED
  BY <1>4, <1>6, SMT DEF Planned, Sending

(* What is left fits in one.                                               *)
LEMMA SlicedPlan == PlanInv /\ Sliced => PlanInv'
<1> SUFFICES ASSUME PlanInv, Sliced PROVE PlanInv'
  OBVIOUS
<1> USE DEF PlanInv, Sliced
<1>1. full' = full
  BY DEF full, room
<1>2. TypeOK'
  BY SMT DEF TypeOK
<1>3. Slicing'
  BY <1>1, SMT DEF Slicing, TypeOK
<1> QED
  BY <1>2, <1>3, SMT DEF Planned, Sending

(* The plan is refused over its last keyhandle.                            *)
LEMMA RefusePlan == PlanInv /\ Refuse => PlanInv'
<1> SUFFICES ASSUME PlanInv, Refuse PROVE PlanInv'
  OBVIOUS
<1> USE DEF PlanInv, Refuse
<1>1. full' = full /\ last' = last /\ (SealedIsExact(last))' = SealedIsExact(last)
  BY DEF full, room, last, Moves, SealedIsExact
<1>2. TypeOK'
  BY SMT DEF TypeOK
<1>3. Slicing'
  BY <1>1, SMT DEF Slicing, TypeOK
<1> QED
  BY <1>2, <1>3, SMT DEF Planned, Sending

(* The last keyhandle, reshaped or not, ends the plan.                     *)
LEMMA ReshapePlan == PlanInv /\ Reshape => PlanInv'
<1> SUFFICES ASSUME PlanInv, Reshape PROVE PlanInv'
  OBVIOUS
<1> DEFINE n == Len(sizes)
<1>1. /\ n \in Nat /\ sizes \in Seq(1 .. MAX_PAYLOAD) /\ remaining \in Nat
      /\ overhead \in Overheads /\ length \in Nat
      /\ index = 0 /\ offset = 0 /\ read = 0
      /\ remaining >= 1 /\ remaining <= full
      /\ \A i \in 1 .. n : sizes[i] = full
      /\ length = remaining + full * n
  BY SMT DEF PlanInv, Reshape, TypeOK, Slicing
<1>2. UNCHANGED <<length, overhead, index, offset, read>> /\ full' = full /\ room' = room
  BY DEF Reshape, full, room
<1>3. /\ full \in Nat /\ room \in Nat /\ full <= room /\ room <= 245 /\ full > PACKET_DATA
      /\ full = 228 \/ full = 171
  BY <1>1, FullValues, SMT DEF PACKET_DATA
<1>4. CASE ~Moves
  <2>1. sizes' = Append(sizes, remaining) /\ remaining' = remaining
    BY <1>4 DEF Reshape, last
  <2>2. sizes' \in Seq(1 .. MAX_PAYLOAD) /\ Len(sizes') = n + 1
    BY <1>1, <1>3, <2>1, SMT DEF MAX_PAYLOAD
  <2>3. \A i \in 1 .. n : sizes'[i] = full
    BY <1>1, <2>1, SMT
  <2>4. sizes'[n + 1] = remaining
    BY <1>1, <2>1, SMT
  <2>5. Moved' = 0
    BY <1>1, <1>2, <1>3, <2>2, <2>3, SMT DEF Moved
  <2>6. (SealedIsExact(remaining))'
    <3>1. SealedIsExact(last) /\ last = remaining
      BY <1>4 DEF Reshape, last
    <3> QED
      BY <1>2, <2>1, <3>1 DEF SealedIsExact
  <2>7. TypeOK'
    BY <1>1, <1>2, <2>1, <2>2, SMT DEF PlanInv, TypeOK, Reshape
  <2>8. Planned'
    <3>1. length' = full' * (Len(sizes') - 1) - Moved' + remaining'
      BY <1>1, <1>2, <1>3, <2>1, <2>2, <2>5, SMT
    <3>2. Len(sizes') > 1 => sizes'[Len(sizes') - 1] \in {full', full' - PACKET_DATA}
      BY <1>1, <1>2, <2>2, <2>3, SMT
    <3>3. \A i \in 1 .. Len(sizes') : i < Len(sizes') - 1 => sizes'[i] = full'
      BY <1>1, <1>2, <2>2, <2>3, SMT
    <3>4. remaining' >= 1 /\ remaining' <= room' /\ Len(sizes') >= 1
      BY <1>1, <1>2, <1>3, <2>1, <2>2, SMT
    <3>5. remaining' = sizes'[Len(sizes')]
      BY <1>1, <2>1, <2>2, <2>4, SMT
    <3> QED
      BY <2>6, <3>1, <3>2, <3>3, <3>4, <3>5 DEF Planned
  <2>9. Sending'
    BY <1>1, <1>2, <1>3, <2>2, <2>5, SMT DEF Sending, Reshape
  <2> QED
    BY <2>7, <2>8, <2>9 DEF PlanInv, Slicing, Reshape
<1>5. CASE Moves
  <2>1. n >= 1 /\ remaining + PACKET_DATA <= room
    BY <1>1, <1>5, SMT DEF Moves
  <2> DEFINE cut == [sizes EXCEPT ![n] = full - PACKET_DATA]
  <2>2. sizes' = Append(cut, remaining + PACKET_DATA) /\ remaining' = remaining + PACKET_DATA
    <3>1. sizes[n] = full
      BY <1>1, <2>1, SMT
    <3> QED
      BY <1>5, <3>1 DEF Reshape, last
  <2>3. cut \in Seq(1 .. MAX_PAYLOAD) /\ Len(cut) = n
    BY <1>1, <1>3, <2>1, SMT DEF MAX_PAYLOAD, PACKET_DATA
  <2>4. \A i \in 1 .. n - 1 : cut[i] = full
    BY <1>1, <2>1, SMT
  <2>5. cut[n] = full - PACKET_DATA
    BY <1>1, <2>1, SMT
  <2> HIDE DEF cut
  <2>6. sizes' \in Seq(1 .. MAX_PAYLOAD) /\ Len(sizes') = n + 1
    <3>1. remaining + PACKET_DATA \in 1 .. MAX_PAYLOAD
      BY <1>1, <1>3, <2>1, SMT DEF MAX_PAYLOAD, PACKET_DATA
    <3> QED
      BY <2>2, <2>3, <3>1, SMT
  <2>7. \A i \in 1 .. n : sizes'[i] = cut[i]
    BY <1>1, <2>2, <2>3, SMT
  <2>8. sizes'[n + 1] = remaining + PACKET_DATA
    BY <1>1, <2>2, <2>3, SMT
  <2>9. Moved' = PACKET_DATA
    BY <1>1, <1>2, <1>3, <2>1, <2>5, <2>6, <2>7, SMT DEF Moved, PACKET_DATA
  <2>10. (SealedIsExact(remaining))'
    <3>1. SealedIsExact(last) /\ last = remaining + PACKET_DATA
      BY <1>5 DEF Reshape, last
    <3> QED
      BY <1>2, <2>2, <3>1 DEF SealedIsExact
  <2>11. TypeOK'
    BY <1>1, <1>2, <2>2, <2>6, SMT DEF PlanInv, TypeOK, Reshape, PACKET_DATA
  <2>12. length = full * n - PACKET_DATA + remaining'
    BY <1>1, <1>3, <2>2, SMT DEF PACKET_DATA
  <2>13. Planned'
    <3>1. length' = full' * (Len(sizes') - 1) - Moved' + remaining'
      BY <1>1, <1>2, <1>3, <2>6, <2>9, <2>12, SMT
    <3>2. sizes'[Len(sizes') - 1] = full' - PACKET_DATA
      BY <1>1, <1>2, <2>1, <2>5, <2>6, <2>7, SMT
    <3>3. \A i \in 1 .. Len(sizes') : i < Len(sizes') - 1 => sizes'[i] = full'
      BY <1>1, <1>2, <2>4, <2>6, <2>7, SMT
    <3>4. remaining' >= 1 /\ remaining' <= room'
      BY <1>1, <1>2, <2>1, <2>2, SMT DEF PACKET_DATA
    <3>5. Len(sizes') >= 1 /\ remaining' = sizes'[Len(sizes')]
      BY <1>1, <2>2, <2>6, <2>8, SMT
    <3>6. Len(sizes') > 1 => sizes'[Len(sizes') - 1] \in {full', full' - PACKET_DATA}
      BY <3>2
    <3> QED
      BY <2>10, <3>1, <3>3, <3>4, <3>5, <3>6 DEF Planned
  <2>14. Sending'
    BY <1>1, <1>2, <1>3, <2>1, <2>6, <2>9, SMT DEF Sending, Reshape
  <2> QED
    BY <2>11, <2>13, <2>14 DEF PlanInv, Slicing, Reshape
<1> QED
  BY <1>4, <1>5

(* All but the final keyhandle are whole packets; the final one is what    *)
(* the plan made of the rest.                                              *)
LEMMA SendPlan == PlanInv /\ SendChunk => PlanInv'
<1> SUFFICES ASSUME PlanInv, SendChunk PROVE PlanInv'
  OBVIOUS
<1> DEFINE n == Len(sizes)
           left == length - offset
           size == IF sizes[index + 1] < left THEN sizes[index + 1] ELSE left
<1>1. /\ n \in Nat /\ n >= 1 /\ sizes \in Seq(1 .. MAX_PAYLOAD) /\ index \in Nat /\ index < n
      /\ remaining \in Nat /\ remaining >= 1 /\ overhead \in Overheads /\ length \in Nat
      /\ offset \in Nat /\ read = offset /\ SealedIsExact(remaining)
      /\ remaining = sizes[n]
      /\ \A i \in 1 .. n : i < n - 1 => sizes[i] = full
      /\ n > 1 => sizes[n - 1] \in {full, full - PACKET_DATA}
      /\ offset = full * index - (IF index = n - 1 THEN Moved ELSE 0)
      /\ length = full * (n - 1) - Moved + remaining
  BY SMT DEF PlanInv, SendChunk, TypeOK, Planned, Sending
<1>2. /\ UNCHANGED <<length, overhead, remaining, sizes>> /\ index' = index + 1
      /\ full' = full /\ room' = room /\ Moved' = Moved
  BY DEF SendChunk, full, room, Moved
<1>3. /\ offset' = offset + size
      /\ read' = read + KeyReads(size, offset' = length)
      /\ pc' = IF offset' = length THEN "sent" ELSE "send"
  BY DEF SendChunk
<1>4. full = 228 \/ full = 171
  BY <1>1, FullValues
<1>5. Moved = IF n > 1 THEN full - sizes[n - 1] ELSE 0
  BY DEF Moved
<1>6. CASE index = n - 1
  <2>1. left = remaining /\ sizes[index + 1] = remaining
    <3>1. offset = full * (n - 1) - Moved
      BY <1>1, <1>6, SMT
    <3>2. Moved \in Int
      <4>1. CASE n > 1
        <5>1. sizes[n - 1] \in Int /\ full \in Int
          BY <1>1, <1>4, <4>1, SMT DEF PACKET_DATA
        <5> QED
          BY <1>5, <4>1, <5>1, SMT
      <4>2. CASE ~(n > 1)
        BY <1>5, <4>2, SMT
      <4> QED
        BY <4>1, <4>2
    <3>3. full * (n - 1) \in Int
      BY <1>1, <1>4, SMT
    <3>4. length = offset + remaining
      <4> DEFINE whole == full * (n - 1)
      <4>1. whole \in Int /\ offset = whole - Moved /\ length = whole - Moved + remaining
        BY <1>1, <3>1, <3>3
      <4> HIDE DEF whole
      <4> QED
        BY <1>1, <3>2, <4>1, SMT
    <3>5. index + 1 = n
      BY <1>1, <1>6, SMT
    <3> QED
      BY <1>1, <3>4, <3>5, SMT
  <2>2. size = remaining
    BY <1>1, <2>1, SMT
  <2>3. offset' = length
    BY <1>1, <1>3, <2>1, <2>2, SMT
  <2>4. KeyReads(remaining, TRUE) = remaining
    BY <1>1, FinalRead
  <2>5. read' = offset'
    <3>1. (offset' = length) = TRUE
      BY <2>3
    <3>2. read' = read + KeyReads(remaining, TRUE)
      BY <1>3, <2>2, <3>1
    <3> QED
      BY <1>1, <1>3, <2>2, <2>4, <3>2
  <2>6. pc' = "sent" /\ index' = n
    BY <1>1, <1>2, <1>3, <1>6, <2>3, SMT
  <2>7. TypeOK'
    BY <1>1, <1>2, <2>3, <2>5, <2>6, SMT DEF PlanInv, TypeOK
  <2>8. Planned'
    BY <1>2, <2>6 DEF PlanInv, Planned, SealedIsExact, SendChunk
  <2>9. Sending'
    BY <1>2, <2>3, <2>5, <2>6, SMT DEF Sending
  <2> QED
    BY <2>6, <2>7, <2>8, <2>9 DEF PlanInv, Slicing
<1>7. CASE index # n - 1
  <2>1. index + 1 \in 1 .. n /\ index < n - 1 /\ n > 1
    BY <1>1, <1>7, SMT
  <2>2. sizes[index + 1] \in {full, full - PACKET_DATA}
    <3>1. CASE index + 1 < n - 1
      BY <1>1, <2>1, <3>1
    <3>2. CASE index + 1 = n - 1
      BY <1>1, <2>1, <3>2
    <3> QED
      BY <1>1, <2>1, <3>1, <3>2, SMT
  <2>3. Moved \in {0, PACKET_DATA}
    BY <1>1, <1>4, <1>5, <2>1, SMT DEF PACKET_DATA
  <2>4. offset = full * index
    BY <1>1, <1>4, <1>7, SMT
  <2>5. sizes[index + 1] = full - (IF index + 1 = n - 1 THEN Moved ELSE 0)
    <3>1. CASE index + 1 < n - 1
      BY <1>1, <1>4, <2>1, <3>1, SMT
    <3>2. CASE index + 1 = n - 1
      BY <1>1, <1>4, <1>5, <2>1, <2>2, <3>2, SMT DEF PACKET_DATA
    <3> QED
      BY <1>1, <2>1, <3>1, <3>2, SMT
  <2>6. left = full * (n - 1 - index) - Moved + remaining
    <3>1. CASE full = 228
      <4>1. length = 228 * (n - 1) - Moved + remaining /\ offset = 228 * index
        BY <1>1, <2>4, <3>1
      <4>2. Moved \in {0, 57} /\ n \in Nat /\ index \in Nat /\ remaining \in Nat
        BY <1>1, <2>3 DEF PACKET_DATA
      <4>3. left = 228 * (n - 1 - index) - Moved + remaining
        BY <4>1, <4>2, SMT
      <4> QED
        BY <3>1, <4>3
    <3>2. CASE full = 171
      <4>1. length = 171 * (n - 1) - Moved + remaining /\ offset = 171 * index
        BY <1>1, <2>4, <3>2
      <4>2. Moved \in {0, 57} /\ n \in Nat /\ index \in Nat /\ remaining \in Nat
        BY <1>1, <2>3 DEF PACKET_DATA
      <4>3. left = 171 * (n - 1 - index) - Moved + remaining
        BY <4>1, <4>2, SMT
      <4> QED
        BY <3>2, <4>3
    <3> QED
      BY <1>4, <3>1, <3>2
  <2>7. sizes[index + 1] < left
    <3>1. CASE full = 228
      <4>1. /\ left = 228 * (n - 1 - index) - Moved + remaining
            /\ sizes[index + 1] = 228 - (IF index + 1 = n - 1 THEN Moved ELSE 0)
        BY <2>5, <2>6, <3>1
      <4>2. /\ Moved \in {0, 57} /\ n \in Nat /\ index \in Nat /\ index < n - 1
            /\ remaining \in Nat /\ remaining >= 1
        BY <1>1, <2>1, <2>3 DEF PACKET_DATA
      <4> HIDE DEF left
      <4>3. CASE index + 1 = n - 1
        BY <4>1, <4>2, <4>3, SMT
      <4>4. CASE index + 1 < n - 1
        BY <4>1, <4>2, <4>4, SMT
      <4> QED
        BY <4>2, <4>3, <4>4, SMT
    <3>2. CASE full = 171
      <4>1. /\ left = 171 * (n - 1 - index) - Moved + remaining
            /\ sizes[index + 1] = 171 - (IF index + 1 = n - 1 THEN Moved ELSE 0)
        BY <2>5, <2>6, <3>2
      <4>2. /\ Moved \in {0, 57} /\ n \in Nat /\ index \in Nat /\ index < n - 1
            /\ remaining \in Nat /\ remaining >= 1
        BY <1>1, <2>1, <2>3 DEF PACKET_DATA
      <4> HIDE DEF left
      <4>3. CASE index + 1 = n - 1
        BY <4>1, <4>2, <4>3, SMT
      <4>4. CASE index + 1 < n - 1
        BY <4>1, <4>2, <4>4, SMT
      <4> QED
        BY <4>2, <4>3, <4>4, SMT
    <3> QED
      BY <1>4, <3>1, <3>2
  <2>8. size = sizes[index + 1] /\ size \in {full, full - PACKET_DATA}
    BY <2>2, <2>7
  <2> HIDE DEF size
  <2>9. offset' # length /\ offset' \in 0 .. length
    <3>1. size < left
      BY <2>7, <2>8
    <3>2. size \in Nat
      BY <1>4, <2>8, SMT DEF PACKET_DATA
    <3>3. offset \in Nat /\ length \in Nat /\ offset' = offset + size /\ size < length - offset
      BY <1>1, <1>3, <3>1
    <3> QED
      BY <3>2, <3>3, SMT
  <2>10. read' = offset'
    <3>1. (offset' = length) = FALSE
      BY <2>9
    <3>2. read' = read + KeyReads(size, FALSE)
      BY <1>3, <3>1
    <3>3. KeyReads(size, FALSE) = size
      BY <1>1, <2>8, WholePacketsRead
    <3> QED
      BY <1>1, <1>3, <3>2, <3>3
  <2>11. pc' = "send"
    BY <1>3, <2>9
  <2>12. offset' = full * index' - (IF index' = n - 1 THEN Moved ELSE 0)
    <3>1. CASE full = 228
      BY <1>1, <1>2, <1>3, <2>3, <2>4, <2>5, <2>8, <3>1, SMT DEF PACKET_DATA
    <3>2. CASE full = 171
      BY <1>1, <1>2, <1>3, <2>3, <2>4, <2>5, <2>8, <3>2, SMT DEF PACKET_DATA
    <3> QED
      BY <1>4, <3>1, <3>2
  <2>13. TypeOK'
    BY <1>1, <1>2, <2>1, <2>9, <2>10, <2>11, SMT DEF PlanInv, TypeOK
  <2>14. Planned'
    BY <1>2, <2>11 DEF PlanInv, Planned, SealedIsExact, SendChunk
  <2>15. Sending'
    BY <1>1, <1>2, <2>1, <2>10, <2>11, <2>12, SMT DEF Sending
  <2> QED
    BY <2>11, <2>13, <2>14, <2>15 DEF PlanInv, Slicing
<1> QED
  BY <1>6, <1>7

(* A step that changes nothing keeps the plan.                             *)
LEMMA StutterPlan == PlanInv /\ UNCHANGED vars => PlanInv'
BY DEF PlanInv, TypeOK, Slicing, Planned, Sending, Moved, SealedIsExact, last, Moves,
       full, room, dataRegionLength, vars

(* The plan and the count of bytes sent, for every payload length.         *)
THEOREM PlanHolds == Spec => []PlanInv
<1>1. PlanInv /\ [Next]_vars => PlanInv'
  BY SlicePlan, SlicedPlan, ReshapePlan, RefusePlan, SendPlan, StutterPlan DEF Next
<1> QED
  BY <1>1, InitPlan, PTL DEF Spec

(* The key reads exactly the bytes sent: planKeyhandleChunks lets no       *)
(* keyhandle be padded and none but the last end in a short packet.        *)
THEOREM ReadsAlways == Spec => []ReadsWhatIsSent
<1>1. PlanInv => ReadsWhatIsSent
  BY DEF PlanInv, Slicing, Sending, ReadsWhatIsSent, TypeOK
<1> QED
  BY <1>1, PlanHolds, PTL

(* Every keyhandle fits a request, and sendChunked ends with the last of   *)
(* the plan and all of the payload sent.                                   *)
THEOREM FitsAlways == Spec => []PlanFits
<1>1. PlanInv => PlanFits
  <2> SUFFICES ASSUME PlanInv PROVE PlanFits
    OBVIOUS
  <2>1. /\ full \in Nat /\ room \in Nat /\ full <= room /\ full > PACKET_DATA
    BY FullValues, SMT DEF PlanInv, TypeOK, PACKET_DATA
  <2>2. ASSUME NEW i \in 1 .. Len(sizes) PROVE 0 < sizes[i]
    <3>1. sizes \in Seq(1 .. MAX_PAYLOAD)
      BY DEF PlanInv, TypeOK
    <3>2. sizes[i] \in 1 .. MAX_PAYLOAD
      BY <3>1, ElementOfSeq
    <3>3. \A k \in 1 .. MAX_PAYLOAD : 0 < k
      BY SMT DEF MAX_PAYLOAD
    <3> QED
      BY <3>2, <3>3
  <2>3. ASSUME NEW i \in 1 .. Len(sizes) PROVE sizes[i] <= room
    <3>1. CASE pc \in {"slice", "reshape", "refused"}
      BY <2>1, <3>1, SMT DEF PlanInv, Slicing
    <3>2. CASE pc \in {"send", "sent"}
      <4>1. i < Len(sizes) - 1 \/ i = Len(sizes) - 1 \/ i = Len(sizes)
        BY SMT DEF PlanInv, TypeOK
      <4>2. CASE i < Len(sizes) - 1
        BY <2>1, <3>2, <4>2, SMT DEF PlanInv, Planned
      <4>3. CASE i = Len(sizes) - 1
        <5>1. Len(sizes) > 1
          BY <4>3, SMT DEF PlanInv, TypeOK
        <5>2. sizes[i] \in {full, full - PACKET_DATA}
          BY <3>2, <4>3, <5>1 DEF PlanInv, Planned
        <5> QED
          BY <2>1, <5>2, SMT DEF PACKET_DATA
      <4>4. CASE i = Len(sizes)
        BY <3>2, <4>4 DEF PlanInv, Planned
      <4> QED
        BY <4>1, <4>2, <4>3, <4>4
    <3> QED
      BY <3>1, <3>2 DEF PlanInv, TypeOK
  <2> QED
    BY <2>2, <2>3 DEF PlanInv, Sending, PlanFits
<1> QED
  BY <1>1, PlanHolds, PTL

(* A remainder that would be padded once more is not sent; this is the     *)
(* only place where a long payload is given up.                            *)
LEMMA LastRefused ==
  ASSUME overhead \in Overheads, remaining \in Nat, remaining >= 1, remaining <= full,
         sizes # <<>>, ~SealedIsExact(last)
  PROVE  overhead = 0 /\ remaining = 3
<1>1. CASE overhead = 0 /\ full = 228 /\ room = 245
  <2>1. CASE Moves
    <3>1. last = remaining + 57 /\ ~SealedIsExact(remaining)
      BY <2>1 DEF last, Moves, PACKET_DATA
    <3> QED
      BY <1>1, <3>1, SMT DEF SealedIsExact, dataRegionLength, MIN_DATA, HEADER, POISONED
  <2>2. CASE ~Moves
    <3>1. last = remaining
      BY <2>2 DEF last
    <3>2. remaining + 57 > room
      BY <1>1, <2>2, <3>1, SMT DEF Moves, PACKET_DATA
    <3> QED
      BY <1>1, <3>1, <3>2, SMT DEF SealedIsExact, dataRegionLength, MIN_DATA, HEADER, POISONED
  <2> QED
    BY <2>1, <2>2
<1>2. CASE overhead = 20 /\ full = 171 /\ room = 225
  <2>1. CASE Moves
    <3>1. last = remaining + 57 /\ ~SealedIsExact(remaining)
      BY <2>1 DEF last, Moves, PACKET_DATA
    <3> QED
      BY <1>2, <3>1, SMT DEF SealedIsExact, dataRegionLength, MIN_DATA, HEADER, POISONED
  <2>2. CASE ~Moves
    <3>1. last = remaining
      BY <2>2 DEF last
    <3>2. remaining + 57 > room
      BY <1>2, <2>2, <3>1, SMT DEF Moves, PACKET_DATA
    <3> QED
      BY <1>2, <3>1, <3>2, SMT DEF SealedIsExact, dataRegionLength, MIN_DATA, HEADER, POISONED
  <2> QED
    BY <2>1, <2>2
<1> QED
  BY <1>1, <1>2, FullValues

(* planKeyhandleChunks refuses no payload of more than one keyhandle but   *)
(* those of 3 bytes over whole keyhandles, and these under v1 alone.       *)
THEOREM RefusesFew == Spec => []RefusesOnlyThese
<1>1. PlanInv => RefusesOnlyThese
  <2> SUFFICES ASSUME PlanInv, pc = "refused"
               PROVE  \/ length <= full /\ ~SealedIsExact(length)
                      \/ overhead = 0 /\ length % full = 3
    BY DEF RefusesOnlyThese
  <2>1. /\ remaining \in Nat /\ remaining >= 1 /\ remaining <= full /\ overhead \in Overheads
        /\ Len(sizes) \in Nat /\ length = remaining + full * Len(sizes)
        /\ ~SealedIsExact(last) /\ sizes \in Seq(1 .. MAX_PAYLOAD)
    BY SMT DEF PlanInv, TypeOK, Slicing
  <2>2. CASE sizes = <<>>
    <3>1. last = remaining
      BY <2>2 DEF last, Moves
    <3>2. length = remaining
      <4>1. full \in Nat
        BY <2>1, FullValues
      <4>2. Len(sizes) = 0
        BY <2>2, EmptySeq
      <4> QED
        BY <2>1, <4>1, <4>2, SMT
    <3> QED
      BY <2>1, <3>1, <3>2
  <2>3. CASE sizes # <<>>
    <3>1. overhead = 0 /\ remaining = 3
      BY <2>1, <2>3, LastRefused
    <3>2. full = 228
      BY <3>1, FullValues, SMT DEF Overheads
    <3>3. length = 3 + 228 * Len(sizes)
      BY <2>1, <3>1, <3>2
    <3>4. length % 228 = 3
      BY <2>1, <3>3, SMT
    <3> QED
      BY <3>1, <3>2, <3>4
  <2> QED
    BY <2>2, <2>3
<1> QED
  BY <1>1, PlanHolds, PTL

(* A payload of any length goes through planKeyhandleChunks and            *)
(* sendChunked as it is, or is one of the few that are refused.            *)
THEOREM PayloadAlwaysRead == Spec => []PayloadIsRead
BY ReadsAlways, FitsAlways, RefusesFew, PTL DEF PayloadIsRead

-----------------------------------------------------------------------------
(***************************************************************************)
(* Agents.  First an agent's plan: one device runs it, and the agent is    *)
(* told what the owner says of it.  Then the agent's budget: a command has *)
(* one paid use at most.                                                   *)
(*                                                                         *)
(* A plan is never a draft again once it was submitted, so the mirror a    *)
(* claim is made of is never replaced by one nobody has claimed.  A        *)
(* plan_data call writes back the copy it read: nothing is lost by it only *)
(* because nothing but the mark `shown` has changed since, or `lapped` is  *)
(* said.                                                                   *)
(***************************************************************************)

(* The plan's states, the copies of it, and what a device sends.           *)
PlanStates == Ends \cup {"none", "draft", "submitted", "running"}
Copies == [state : PlanStates, sent : SUBSET Items, results : SUBSET Items, shown : BOOLEAN]
Mirrors == [state : PlanStates, by : SUBSET Devices, results : SUBSET Items]
Sent == [op : {"none", "claim", "update"}, state : Ends \cup {"none", "running"},
         results : SUBSET Items]

(* How often a plan_data call's list names each item.                      *)
Listings == [Items -> 0 .. MaxNamed]

(* Every variable has its type.                                            *)
PTyped ==
  /\ plan \in Copies /\ mirror \in Mirrors
  /\ agentState \in {"unknown", "pending", "accepted", "blocked"}
  /\ ask \in [Devices -> Sent]
  /\ runs \in [Devices -> {"no", "mine", "running", "over"}]
  /\ reading \in [DataCalls -> [of : Copies, times : Listings]]
  /\ received \in [Devices -> [Items -> Nat]]
  /\ unseen \in BOOLEAN /\ lapped \in BOOLEAN
  /\ mirror.by = {} \/ \E d \in Devices : mirror.by = {d}

(* Before it is submitted nobody runs a plan, nobody is being given data   *)
(* and nothing was done; the mirror is the draft's, or none.               *)
PlanBegun == plan.state \notin {"none", "draft"}
NotBegun ==
  /\ ~PlanBegun =>
       /\ \A d \in Devices : runs[d] = "no"
       /\ mirror.by = {} /\ mirror.results = {} /\ plan.results = {} /\ plan.sent = {}
       /\ mirror = NoMirror \/ mirror.state = "draft"
       /\ \A k \in DataCalls : reading[k] = NotReading
  /\ plan.state = "none" => mirror = NoMirror
  /\ \A k \in DataCalls : reading[k] # NotReading => reading[k].of.state \notin {"none", "draft"}

(* Who runs it is who the room has it by.                                  *)
Runners ==
  /\ \A d, e \in Devices : runs[d] # "no" /\ runs[e] # "no" => d = e
  /\ mirror # NoMirror => \A d \in Devices : runs[d] # "no" => mirror.by = {d}

(* Unless somebody came between: one call at most holds a copy, and it is  *)
(* the agent's, or was until the agent was shown it; what was sent once is *)
(* not in what it will send.                                               *)
Holds ==
  \A k \in DataCalls : reading[k] # NotReading =>
    /\ \A j \in DataCalls : reading[j] # NotReading => j = k
    /\ reading[k].of = plan \/ (~unseen /\ reading[k].of = [plan EXCEPT !.shown = FALSE])
    /\ Named(reading[k].times) \cap plan.sent = {}

(* What a device was sent came of one call, and is marked.                 *)
SentOnce ==
  \A d \in Devices, i \in Items :
    received[d][i] <= MaxNamed /\ (received[d][i] > 0 => i \in plan.sent)

(* The two copies say the same, and what was said is not marked shown.     *)
Alike ==
  /\ mirror # NoMirror => plan.state = mirror.state /\ plan.results = mirror.results
  /\ unseen => ~plan.shown

PInv == PTyped /\ NotBegun /\ Runners /\ (~lapped => Holds /\ SentOnce /\ Alike)

-----------------------------------------------------------------------------
(* A call that holds no copy.                                              *)
LEMMA NotReadingIs == NotReading \in [of : Copies, times : Listings]
<1>1. [i \in Items |-> 0] \in Listings
  BY NamedAssumption DEF Listings
<1>2. NoPlan \in Copies
  BY DEF NoPlan, Copies, PlanStates
<1>3. QED BY <1>1, <1>2 DEF NotReading

(* No plan, nobody there: the invariant holds.                             *)
LEMMA PlanAtFirst ==
  ASSUME PlanInit
  PROVE  PInv
<1> USE DEF PlanInit, NoPlan, NoMirror, NoAsk
<1>1. PTyped
  BY NotReadingIs DEF PTyped, Copies, Mirrors, Sent, PlanStates, Ends
<1>2. NotBegun
  BY DEF NotBegun, PlanBegun
<1>3. Runners
  BY DEF Runners
<1>4. Holds /\ SentOnce /\ Alike
  BY NamedAssumption DEF Holds, SentOnce, Alike
<1>5. QED BY <1>1, <1>2, <1>3, <1>4 DEF PInv

(* A new plan, or a draft with an item less: shown, where the agent is not *)
(* blocked, as the draft it is.                                            *)
LEMMA DraftHolds ==
  ASSUME PInv, PlanNew \/ PlanRemove
  PROVE  PInv'
<1>1. /\ plan.state \in {"none", "draft"} /\ ~PlanBegun
      /\ unseen' = FALSE /\ Shows("draft")
      /\ runs' = runs /\ ask' = ask /\ reading' = reading /\ received' = received /\ lapped' = lapped
  BY DEF PlanBegun, PlanNew, PlanRemove, Saves
<1>2. plan.results = {} /\ plan.sent = {} /\ mirror.by = {} /\ mirror.results = {}
  BY <1>1 DEF PInv, NotBegun
<1>3. plan' = [state |-> "draft", sent |-> {}, results |-> {}, shown |-> TRUE]
  <2>1. CASE PlanNew
    BY <2>1 DEF PlanNew, Saves, NoPlan
  <2>2. CASE PlanRemove
    <3>1. plan' = [plan EXCEPT !.shown = TRUE] /\ plan.state = "draft" /\ plan \in Copies
      BY <2>2 DEF PlanRemove, Saves, PInv, PTyped
    <3>2. QED BY <1>2, <3>1 DEF Copies
  <2>3. QED BY <2>1, <2>2
<1>4. mirror' = NoMirror \/ mirror' = [state |-> "draft", by |-> {}, results |-> {}]
  <2>1. CASE agentState = "blocked"
    <3>1. mirror' = mirror /\ mirror \in Mirrors /\ (mirror = NoMirror \/ mirror.state = "draft")
      BY <1>1, <2>1 DEF Shows, PInv, PTyped, NotBegun
    <3>2. QED BY <1>2, <3>1 DEF Mirrors
  <2>2. CASE agentState # "blocked"
    BY <1>1, <2>2 DEF Shows, NoMirror
  <2>3. QED BY <2>1, <2>2
<1>5. /\ plan'.state = "draft" /\ plan'.sent = {} /\ plan'.results = {} /\ plan'.shown = TRUE
      /\ plan' \in Copies
  BY <1>3 DEF Copies, PlanStates
<1>6. /\ mirror'.by = {} /\ mirror'.results = {} /\ mirror' \in Mirrors
      /\ mirror' = NoMirror \/ mirror'.state = "draft"
  BY <1>4 DEF NoMirror, Mirrors, PlanStates
<1>7. PTyped'
  <2>1. agentState' \in {"unknown", "pending", "accepted", "blocked"}
    BY <1>1 DEF Shows, PInv, PTyped
  <2>2. QED BY <1>1, <1>5, <1>6, <2>1 DEF PInv, PTyped
<1>8. NotBegun' /\ Runners'
  BY <1>1, <1>5, <1>6 DEF PInv, NotBegun, Runners, PlanBegun
<1>9. ~lapped' => Holds' /\ Alike'
  BY <1>1, <1>5, <1>6 DEF PInv, NotBegun, Holds, Alike
<1>10. ~lapped' => SentOnce'
  BY <1>1, <1>2, <1>5 DEF PInv, SentOnce
<1>11. QED BY <1>7, <1>8, <1>9, <1>10 DEF PInv

(* The draft is submitted: the room has a new mirror of it, by nobody.     *)
LEMMA PlanSubmitHolds ==
  ASSUME PInv, PlanSubmit
  PROVE  PInv'
<1>1. /\ plan.state = "draft" /\ ~PlanBegun
      /\ unseen' = FALSE /\ agentState' = agentState
      /\ runs' = runs /\ ask' = ask /\ reading' = reading /\ received' = received /\ lapped' = lapped
  BY DEF PlanBegun, PlanSubmit, Saves
<1>2. plan.results = {} /\ plan.sent = {} /\ \A k \in DataCalls : reading[k] = NotReading
  BY <1>1 DEF PInv, NotBegun
<1>3. plan' = [state |-> "submitted", sent |-> {}, results |-> {}, shown |-> TRUE]
  <2>1. plan' = [[plan EXCEPT !.state = "submitted"] EXCEPT !.shown = TRUE] /\ plan \in Copies
    BY DEF PlanSubmit, Saves, PInv, PTyped
  <2>2. QED BY <1>2, <2>1 DEF Copies
<1>4. mirror' = [state |-> "submitted", by |-> {}, results |-> {}]
  BY DEF PlanSubmit, NoMirror
<1>5. /\ plan'.state = "submitted" /\ plan'.sent = {} /\ plan'.results = {} /\ plan'.shown = TRUE
      /\ plan' \in Copies
      /\ mirror'.state = "submitted" /\ mirror'.by = {} /\ mirror'.results = {} /\ mirror' \in Mirrors
  BY <1>3, <1>4 DEF Copies, Mirrors, PlanStates
<1>6. PTyped'
  BY <1>1, <1>5 DEF PInv, PTyped
<1>7. NotBegun' /\ Runners'
  BY <1>1, <1>5 DEF PInv, NotBegun, Runners, PlanBegun
<1>8. ~lapped' => Holds' /\ SentOnce' /\ Alike'
  BY <1>1, <1>2, <1>5 DEF PInv, Holds, SentOnce, Alike
<1>9. QED BY <1>6, <1>7, <1>8 DEF PInv

(* What a plan_data call holds when it began.                              *)
LEMMA PlanDataHolds ==
  ASSUME PInv, NEW k \in DataCalls, NEW times \in Listings, PlanData(k, times)
  PROVE  PInv'
<1>1. /\ plan.state = "running" /\ Named(times) \cap plan.sent = {}
      /\ plan' = plan /\ mirror' = mirror /\ agentState' = agentState /\ ask' = ask /\ runs' = runs
      /\ received' = received /\ unseen' = unseen
      /\ lapped' = (lapped \/ HeldByACall)
  BY DEF PlanData
<1>2. reading' = [reading EXCEPT ![k] = [of |-> plan, times |-> times]]
  BY DEF PlanData
<1>3. reading \in [DataCalls -> [of : Copies, times : Listings]] /\ plan \in Copies
  BY DEF PInv, PTyped
<1>4. /\ reading' \in [DataCalls -> [of : Copies, times : Listings]]
      /\ reading'[k].of = plan /\ reading'[k].times = times
      /\ \A j \in DataCalls \ {k} : reading'[j] = reading[j]
  BY <1>2, <1>3
<1>5. PTyped'
  BY <1>1, <1>4 DEF PInv, PTyped
<1>6. NotBegun' /\ Runners'
  BY <1>1, <1>4 DEF PInv, NotBegun, Runners, PlanBegun
<1>7. ~lapped' => Holds'
  BY <1>1, <1>4 DEF Holds, HeldByACall
<1>8. ~lapped' => SentOnce' /\ Alike'
  BY <1>1 DEF PInv, SentOnce, Alike
<1>9. QED BY <1>5, <1>6, <1>7, <1>8 DEF PInv

(* The data goes to the devices that are there: the agent's copy becomes   *)
(* the one the call held, with what was sent.                              *)
LEMMA DataGoesHolds ==
  ASSUME PInv, NEW k \in DataCalls, DataGoes(k)
  PROVE  PInv'
<1> DEFINE r == reading[k]
<1>1. /\ r # NotReading
      /\ mirror' = mirror /\ agentState' = agentState /\ ask' = ask /\ runs' = runs
      /\ lapped' = lapped
      /\ reading' = [reading EXCEPT ![k] = NotReading]
  BY DEF DataGoes
<1>2. /\ reading \in [DataCalls -> [of : Copies, times : Listings]] /\ plan \in Copies
      /\ NotReading \in [of : Copies, times : Listings]
      /\ r.of \in Copies /\ r.times \in Listings
  BY NotReadingIs DEF PInv, PTyped
<1>3. /\ reading' \in [DataCalls -> [of : Copies, times : Listings]]
      /\ reading'[k] = NotReading /\ \A j \in DataCalls \ {k} : reading'[j] = reading[j]
  BY <1>1, <1>2
<1>4. PlanBegun
  BY <1>1 DEF PInv, NotBegun
<1>5. CASE mirror.state = "running" /\ online # {}
  <2>1. /\ received' = [d \in Devices |-> [i \in Items |->
               received[d][i] + (IF d \in online THEN r.times[i] ELSE 0)]]
        /\ plan' = [r.of EXCEPT !.sent = @ \cup Named(r.times), !.shown = TRUE]
        /\ unseen' = (unseen /\ plan # r.of)
    BY <1>5 DEF DataGoes
  <2> HIDE DEF r
  <2>a. PICK sent \in SUBSET Items : sent = Named(r.times)
    BY DEF Named
  <2>2. /\ plan' \in Copies /\ plan'.state = r.of.state /\ plan'.results = r.of.results
        /\ plan'.sent = r.of.sent \cup Named(r.times)
        /\ plan'.shown = TRUE
    BY <1>2, <2>1, <2>a DEF Copies
  <2>3. /\ received' \in [Devices -> [Items -> Nat]]
        /\ \A d \in Devices, i \in Items :
             \/ received'[d][i] = received[d][i]
             \/ /\ i \in Named(r.times) /\ r.times[i] <= MaxNamed
                /\ received'[d][i] = received[d][i] + r.times[i]
    <3>1. r.times \in [Items -> 0 .. MaxNamed] /\ received \in [Devices -> [Items -> Nat]]
      BY <1>2 DEF PInv, PTyped, Listings
    <3>2. ASSUME NEW d \in Devices, NEW i \in Items
          PROVE  /\ received[d][i] \in Nat /\ r.times[i] \in Nat /\ r.times[i] <= MaxNamed
                 /\ received'[d][i] = received[d][i] + (IF d \in online THEN r.times[i] ELSE 0)
      BY <2>1, <3>1, NamedAssumption
    <3>3. \A d \in Devices, i \in Items :
             received[d][i] + (IF d \in online THEN r.times[i] ELSE 0) \in Nat
      BY <3>2
    <3>4. received' \in [Devices -> [Items -> Nat]]
      BY <2>1, <3>3
    <3>5. QED BY <3>2, <3>4 DEF Named
  <2>4. unseen' \in BOOLEAN
    BY <2>1
  <2>5. PTyped'
    BY <1>1, <1>3, <2>2, <2>3, <2>4 DEF PInv, PTyped
  <2>6. r.of.state \notin {"none", "draft"}
    BY <1>1 DEF PInv, NotBegun, r
  <2>7. NotBegun' /\ Runners'
    BY <1>1, <1>4, <2>2, <2>6 DEF PInv, NotBegun, Runners, PlanBegun
  <2>8. ASSUME ~lapped PROVE Holds' /\ SentOnce' /\ Alike'
    <3>1. /\ \A j \in DataCalls : reading'[j] = NotReading
          /\ r.of = plan \/ (~unseen /\ r.of = [plan EXCEPT !.shown = FALSE])
          /\ Named(r.times) \cap plan.sent = {}
      BY <1>1, <1>3, <2>8 DEF PInv, Holds, r
    <3>2. /\ r.of.state = plan.state /\ r.of.results = plan.results /\ r.of.sent = plan.sent
          /\ unseen => r.of = plan
      BY <1>2, <3>1 DEF Copies
    <3>3. SentOnce'
      <4>1. plan'.sent = plan.sent \cup Named(r.times)
        BY <2>2, <3>2
      <4>2. ASSUME NEW d \in Devices, NEW i \in Items
            PROVE  received'[d][i] <= MaxNamed /\ (received'[d][i] > 0 => i \in plan'.sent)
        <5>1. /\ received[d][i] \in Nat /\ received[d][i] <= MaxNamed
              /\ received[d][i] > 0 => i \in plan.sent
          BY <2>8 DEF PInv, PTyped, SentOnce
        <5>2. CASE received'[d][i] = received[d][i]
          BY <4>1, <5>1, <5>2
        <5>3. CASE i \in Named(r.times) /\ r.times[i] <= MaxNamed
                   /\ received'[d][i] = received[d][i] + r.times[i]
          <6>1. received[d][i] = 0
            BY <3>1, <5>1, <5>3
          <6>2. r.times[i] \in Nat
            BY <1>2, NamedAssumption DEF Listings
          <6>3. QED BY <4>1, <5>3, <6>1, <6>2
        <5>4. QED BY <2>3, <5>2, <5>3
      <4>3. QED BY <4>2 DEF SentOnce
    <3>4. Alike'
      BY <1>1, <2>1, <2>2, <2>8, <3>2 DEF PInv, Alike
    <3>5. QED BY <3>1, <3>3, <3>4 DEF Holds
  <2>9. QED BY <1>1, <2>5, <2>7, <2>8 DEF PInv
<1>6. CASE ~(mirror.state = "running" /\ online # {})
  <2>1. received' = received /\ plan' = plan /\ unseen' = unseen
    BY <1>6 DEF DataGoes
  <2>2. PTyped'
    BY <1>1, <1>3, <2>1 DEF PInv, PTyped
  <2>3. NotBegun' /\ Runners'
    BY <1>1, <1>4, <2>1 DEF PInv, NotBegun, Runners, PlanBegun
  <2>4. ~lapped' => Holds' /\ SentOnce' /\ Alike'
    BY <1>1, <1>3, <2>1 DEF PInv, Holds, SentOnce, Alike
  <2>5. QED BY <2>2, <2>3, <2>4 DEF PInv
<1>7. QED BY <1>5, <1>6

(* A call whose digests do not match lets go of its copy.                  *)
LEMMA DataRefusedHolds ==
  ASSUME PInv, NEW k \in DataCalls, DataRefused(k)
  PROVE  PInv'
<1>1. /\ plan' = plan /\ mirror' = mirror /\ agentState' = agentState /\ ask' = ask /\ runs' = runs
      /\ received' = received /\ unseen' = unseen /\ lapped' = lapped
      /\ reading' = [reading EXCEPT ![k] = NotReading]
  BY DEF DataRefused
<1>2. /\ reading \in [DataCalls -> [of : Copies, times : Listings]]
      /\ NotReading \in [of : Copies, times : Listings]
  BY NotReadingIs DEF PInv, PTyped
<1>3. /\ reading' \in [DataCalls -> [of : Copies, times : Listings]]
      /\ reading'[k] = NotReading /\ \A j \in DataCalls \ {k} : reading'[j] = reading[j]
  BY <1>1, <1>2
<1>4. PTyped'
  BY <1>1, <1>3 DEF PInv, PTyped
<1>5. NotBegun' /\ Runners'
  BY <1>1, <1>3 DEF PInv, NotBegun, Runners, PlanBegun
<1>6. ~lapped' => Holds' /\ SentOnce' /\ Alike'
  BY <1>1, <1>3 DEF PInv, Holds, SentOnce, Alike
<1>7. QED BY <1>4, <1>5, <1>6 DEF PInv

(* The agent is shown its copy: by finishing the plan, or by waiting for   *)
(* it.  A call that holds the copy holds it as it was before.              *)
LEMMA ShownHolds ==
  ASSUME PInv, PlanFinish \/ PlanWait
  PROVE  PInv'
<1>1. /\ plan' = [plan EXCEPT !.shown = TRUE] /\ unseen' = FALSE
      /\ mirror' = mirror /\ agentState' = agentState /\ ask' = ask /\ runs' = runs
      /\ reading' = reading /\ received' = received
  BY DEF PlanFinish, PlanWait, Saves
<1>2. lapped' = lapped \/ (lapped' = (lapped \/ HeldByACall))
  BY DEF PlanFinish, PlanWait
<1>3. plan \in Copies /\ reading \in [DataCalls -> [of : Copies, times : Listings]]
  BY DEF PInv, PTyped
<1>4. /\ plan' \in Copies /\ plan'.state = plan.state /\ plan'.sent = plan.sent
      /\ plan'.results = plan.results /\ plan'.shown = TRUE
  BY <1>1, <1>3 DEF Copies
<1>5. lapped' \in BOOLEAN
  BY <1>2 DEF PInv, PTyped
<1>6. PTyped'
  BY <1>1, <1>4, <1>5 DEF PInv, PTyped
<1>7. NotBegun' /\ Runners'
  BY <1>1, <1>4 DEF PInv, NotBegun, Runners, PlanBegun
<1>8. ASSUME ~lapped' PROVE Holds' /\ SentOnce' /\ Alike'
  <2>1. ~lapped
    BY <1>2, <1>8
  <2>2. ASSUME NEW k \in DataCalls, reading[k] # NotReading
        PROVE reading[k].of = plan' \/ reading[k].of = [plan' EXCEPT !.shown = FALSE]
    <3>1. PlanWait
      BY <1>8, <2>1, <2>2 DEF PlanFinish, HeldByACall
    <3>2. plan.shown = FALSE
      BY <1>3, <3>1 DEF PlanWait, Copies
    <3>3. reading[k].of = plan \/ reading[k].of = [plan EXCEPT !.shown = FALSE]
      BY <2>1, <2>2 DEF PInv, Holds
    <3>4. plan = [plan EXCEPT !.shown = FALSE]
      BY <1>3, <3>2 DEF Copies
    <3>5. [plan' EXCEPT !.shown = FALSE] = plan
      BY <1>1, <1>3, <3>2 DEF Copies
    <3>6. QED BY <3>3, <3>4, <3>5
  <2>3. Holds'
    BY <1>1, <1>4, <2>1, <2>2 DEF PInv, Holds
  <2>4. SentOnce' /\ Alike'
    BY <1>1, <1>4, <2>1 DEF PInv, SentOnce, Alike
  <2>5. QED BY <2>3, <2>4
<1>9. QED BY <1>6, <1>7, <1>8 DEF PInv

(* Nothing is said of the copies a call holds but by these three.          *)
LEMMA HoldsAgain ==
  ASSUME Holds, plan' = plan, reading' = reading, unseen' = unseen
  PROVE  Holds'
<1> SUFFICES ASSUME NEW k \in DataCalls, reading'[k] # NotReading
             PROVE  /\ \A j \in DataCalls : reading'[j] # NotReading => j = k
                    /\ \/ reading'[k].of = plan'
                       \/ ~unseen' /\ reading'[k].of = [plan' EXCEPT !.shown = FALSE]
                    /\ Named(reading'[k].times) \cap plan'.sent = {}
  BY DEF Holds
<1>1. /\ \A j \in DataCalls : reading[j] # NotReading => j = k
      /\ reading[k].of = plan \/ (~unseen /\ reading[k].of = [plan EXCEPT !.shown = FALSE])
      /\ Named(reading[k].times) \cap plan.sent = {}
  BY DEF Holds
<1>2. QED BY <1>1

(* What is on its way, who is there and how far a device is, changes       *)
(* nothing that is said of the plan, so long as no device begins to run.   *)
LEMMA DeviceHolds ==
  ASSUME PInv, plan' = plan, mirror' = mirror, reading' = reading, received' = received,
         unseen' = unseen, lapped' = lapped, agentState' = agentState,
         ask' \in [Devices -> Sent],
         runs' \in [Devices -> {"no", "mine", "running", "over"}],
         \A d \in Devices : runs[d] = "no" => runs'[d] = "no"
  PROVE  PInv'
<1>1. /\ plan' = plan /\ mirror' = mirror /\ reading' = reading /\ received' = received
      /\ unseen' = unseen /\ lapped' = lapped
  OBVIOUS
<1>2. PTyped'
  BY <1>1 DEF PInv, PTyped
<1>3. NotBegun'
  BY <1>1 DEF PInv, NotBegun, PlanBegun
<1>4. Runners'
  BY <1>1 DEF PInv, Runners
<1>5. ~lapped' => Holds' /\ SentOnce' /\ Alike'
  <2>1. Holds => Holds'
    BY <1>1, HoldsAgain
  <2>2. SentOnce => SentOnce'
    BY <1>1, Zenon DEF SentOnce
  <2>3. Alike => Alike'
    BY <1>1 DEF Alike
  <2>4. QED BY <1>1, <2>1, <2>2, <2>3 DEF PInv
<1>6. QED BY <1>2, <1>3, <1>4, <1>5 DEF PInv

(* A device sends a claim, a decline or a report, arrives or leaves.       *)
LEMMA OwnersStepsHold ==
  ASSUME PInv, NEW d \in Devices,
         \/ TapApprove(d) \/ TapDecline(d) \/ Arrives(d) \/ Leaves(d)
         \/ \E state \in Ends \cup {"none", "running"}, results \in SUBSET Items :
              Reports(d, state, results)
  PROVE  PInv'
<1>1. ask \in [Devices -> Sent] /\ runs \in [Devices -> {"no", "mine", "running", "over"}]
  BY DEF PInv, PTyped
<1>2. NoAsk \in Sent
  BY DEF NoAsk, Sent
<1>3. ASSUME NEW what \in Sent, Sends(d, what),
             runs' \in [Devices -> {"no", "mine", "running", "over"}],
             \A e \in Devices : runs[e] = "no" => runs'[e] = "no"
      PROVE  PInv'
  <2>1. ask' \in [Devices -> Sent]
    BY <1>1, <1>3 DEF Sends
  <2>2. QED BY <1>3, <2>1, DeviceHolds DEF Sends
<1>4. CASE TapApprove(d)
  <2>1. [NoAsk EXCEPT !.op = "claim"] \in Sent
    BY DEF NoAsk, Sent
  <2>2. QED BY <1>1, <1>3, <1>4, <2>1 DEF TapApprove
<1>5. CASE TapDecline(d)
  <2>1. [NoAsk EXCEPT !.op = "update", !.state = "declined"] \in Sent
    BY DEF NoAsk, Sent, Ends
  <2>2. QED BY <1>1, <1>3, <1>5, <2>1 DEF TapDecline
<1>6. CASE Arrives(d)
  BY <1>1, <1>6, DeviceHolds DEF Arrives
<1>7. CASE Leaves(d)
  <2>1. ask' \in [Devices -> Sent]
    BY <1>1, <1>2, <1>7 DEF Leaves
  <2>2. /\ runs' \in [Devices -> {"no", "mine", "running", "over"}]
        /\ \A e \in Devices : runs[e] = "no" => runs'[e] = "no"
    BY <1>1, <1>7 DEF Leaves
  <2>3. QED BY <1>7, <2>1, <2>2, DeviceHolds DEF Leaves
<1>8. ASSUME NEW state \in Ends \cup {"none", "running"}, NEW results \in SUBSET Items,
             Reports(d, state, results)
      PROVE  PInv'
  <2>1. [op |-> "update", state |-> state, results |-> results] \in Sent
    BY DEF Sent
  <2>2. runs[d] \in {"mine", "running"}
    BY <1>8 DEF Reports
  <2>3. /\ runs' \in [Devices -> {"no", "mine", "running", "over"}]
        /\ \A e \in Devices : runs[e] = "no" => runs'[e] = "no"
    BY <1>1, <1>8, <2>2 DEF Reports
  <2>4. QED BY <1>3, <1>8, <2>1, <2>3 DEF Reports
<1>9. QED BY <1>4, <1>5, <1>6, <1>7, <1>8

(* The owner blocks, removes or accepts the agent: its mirror stays, or is *)
(* gone with who ran it.                                                   *)
LEMMA OwnerSetsHolds ==
  ASSUME PInv, NEW state \in {"accepted", "blocked", "removed"}, OwnerSets(state)
  PROVE  PInv'
<1>1. /\ plan' = plan /\ ask' = ask /\ runs' = runs /\ reading' = reading /\ received' = received
      /\ unseen' = unseen /\ lapped' = lapped
      /\ mirror' = mirror \/ mirror' = NoMirror
      /\ agentState' \in {"unknown", "pending", "accepted", "blocked"}
  BY DEF OwnerSets
<1>2. NoMirror \in Mirrors /\ NoMirror.by = {} /\ NoMirror.results = {}
  BY DEF NoMirror, Mirrors, PlanStates
<1>3. PTyped'
  BY <1>1, <1>2 DEF PInv, PTyped
<1>4. NotBegun'
  BY <1>1, <1>2 DEF PInv, NotBegun, PlanBegun
<1>5. Runners'
  BY <1>1 DEF PInv, Runners
<1>6. ~lapped' => Holds' /\ SentOnce' /\ Alike'
  <2>1. Holds => Holds'
    BY <1>1, HoldsAgain
  <2>2. SentOnce => SentOnce'
    BY <1>1, Zenon DEF SentOnce
  <2>3. Alike => Alike'
    BY <1>1 DEF Alike
  <2>4. QED BY <1>1, <2>1, <2>2, <2>3 DEF PInv
<1>7. QED BY <1>3, <1>4, <1>5, <1>6 DEF PInv

(* A claim is taken of a plan that was submitted and that no other device  *)
(* has: while the room knows of it, who runs it is who it has it by.       *)
LEMMA TakesClaimHolds ==
  ASSUME PInv, NEW d \in Devices, TakesClaim(d)
  PROVE  PInv'
<1>1. /\ plan' = plan /\ reading' = reading /\ received' = received
      /\ unseen' = unseen /\ lapped' = lapped /\ agentState' = agentState
      /\ ask' = [ask EXCEPT ![d] = NoAsk]
  BY DEF TakesClaim
<1>2. /\ ask \in [Devices -> Sent] /\ runs \in [Devices -> {"no", "mine", "running", "over"}]
      /\ mirror \in Mirrors /\ NoAsk \in Sent
  BY DEF PInv, PTyped, NoAsk, Sent
<1>3. ask' \in [Devices -> Sent]
  BY <1>1, <1>2
<1>4. CASE mirror # NoMirror /\ MayClaim(d)
  <2>1. /\ mirror' = [mirror EXCEPT !.by = {d}]
        /\ runs' = [runs EXCEPT ![d] = IF d \in online THEN "mine" ELSE @]
    BY <1>4 DEF TakesClaim
  <2>2. /\ mirror' \in Mirrors /\ mirror'.by = {d} /\ mirror'.state = mirror.state
        /\ mirror'.results = mirror.results
    BY <1>2, <2>1 DEF Mirrors
  <2>3. /\ runs' \in [Devices -> {"no", "mine", "running", "over"}]
        /\ \A e \in Devices \ {d} : runs'[e] = runs[e]
    BY <1>2, <2>1
  <2>4. PlanBegun
    <3>1. CASE mirror.by = {d}
      BY <3>1 DEF PInv, NotBegun
    <3>2. CASE mirror.by = {} /\ mirror.state = "submitted"
      BY <1>4, <3>2 DEF PInv, NotBegun
    <3>3. QED BY <1>4, <3>1, <3>2 DEF MayClaim
  <2>5. \A e \in Devices : runs[e] # "no" => e = d
    BY <1>4 DEF PInv, Runners, MayClaim
  <2>6. PTyped'
    BY <1>1, <1>3, <2>2, <2>3 DEF PInv, PTyped
  <2>7. NotBegun'
    BY <1>1, <2>4 DEF PInv, NotBegun, PlanBegun
  <2>8. Runners'
    BY <2>2, <2>3, <2>5 DEF Runners
  <2>9. ~lapped' => Holds' /\ SentOnce' /\ Alike'
    <3>1. Holds => Holds'
      BY <1>1, HoldsAgain
    <3>2. SentOnce => SentOnce'
      BY <1>1, Zenon DEF SentOnce
    <3>3. Alike => Alike'
      BY <1>1, <1>4, <2>2 DEF Alike
    <3>4. QED BY <1>1, <3>1, <3>2, <3>3 DEF PInv
  <2>10. QED BY <2>6, <2>7, <2>8, <2>9 DEF PInv
<1>5. CASE ~(mirror # NoMirror /\ MayClaim(d))
  <2>1. mirror' = mirror /\ runs' = runs
    BY <1>5 DEF TakesClaim
  <2>2. QED BY <1>1, <1>2, <1>3, <2>1, DeviceHolds
<1>6. QED BY <1>4, <1>5

(* What a device says of the plan, taken by the room and told to the       *)
(* agent: the copies change alike, and the agent has not seen it.          *)
LEMMA TakesUpdateHolds ==
  ASSUME PInv, NEW d \in Devices, TakesUpdate(d)
  PROVE  PInv'
<1>1. /\ runs' = runs /\ reading' = reading /\ received' = received /\ agentState' = agentState
      /\ ask' = [ask EXCEPT ![d] = NoAsk]
  BY DEF TakesUpdate
<1>2. /\ ask \in [Devices -> Sent] /\ mirror \in Mirrors /\ plan \in Copies /\ NoAsk \in Sent
      /\ runs \in [Devices -> {"no", "mine", "running", "over"}]
  BY DEF PInv, PTyped, NoAsk, Sent
<1>3. ask' \in [Devices -> Sent]
  BY <1>1, <1>2
<1>4. CASE mirror # NoMirror /\ mirror.by \subseteq {d} /\ plan.state # "draft"
  <2> DEFINE state(copy) == IF ask[d].state = "none" THEN copy.state ELSE ask[d].state
             given == ask[d].results
  <2>1. /\ mirror' = [mirror EXCEPT !.state = state(mirror), !.results = @ \cup given]
        /\ Says([plan EXCEPT !.state = state(plan), !.results = @ \cup given])
        /\ lapped' = (lapped \/ HeldByACall)
    BY <1>2, <1>4 DEF TakesUpdate, Mirrors, Copies
  <2>2. given \in SUBSET Items /\ ask[d].state \in Ends \cup {"none", "running"}
    BY <1>2 DEF Sent
  <2>3. state(mirror) \in PlanStates /\ state(plan) \in PlanStates
    BY <1>2, <2>2 DEF PlanStates, Mirrors, Copies
  <2>4. PlanBegun
    BY <1>4 DEF PInv, NotBegun, PlanBegun
  <2>5. state(plan) \notin {"none", "draft"}
    BY <2>2, <2>4 DEF PlanBegun, Ends
  <2>6. plan.state = mirror.state => state(plan) = state(mirror)
    OBVIOUS
  <2> HIDE DEF state, given
  <2>7. /\ mirror' \in Mirrors /\ mirror'.by = mirror.by /\ mirror'.state = state(mirror)
        /\ mirror'.results = mirror.results \cup given
    BY <1>2, <2>1, <2>2, <2>3 DEF Mirrors
  <2>8. /\ plan' \in Copies /\ plan'.state = state(plan) /\ plan'.sent = plan.sent
        /\ plan'.results = plan.results \cup given /\ plan'.shown = FALSE
        /\ unseen' = TRUE
    BY <1>2, <2>1, <2>2, <2>3 DEF Copies, Says
  <2>9. lapped' \in BOOLEAN
    BY <2>1 DEF PInv, PTyped
  <2>10. PTyped'
    BY <1>1, <1>3, <2>7, <2>8, <2>9 DEF PInv, PTyped
  <2>11. NotBegun'
    BY <1>1, <2>5, <2>8 DEF PInv, NotBegun, PlanBegun
  <2>12. Runners'
    BY <1>1, <1>4, <2>7 DEF PInv, Runners
  <2>13. ASSUME ~lapped' PROVE Holds' /\ SentOnce' /\ Alike'
    <3>1. ~lapped /\ \A k \in DataCalls : reading[k] = NotReading
      BY <2>1, <2>13 DEF HeldByACall
    <3>2. Holds'
      BY <1>1, <3>1 DEF Holds
    <3>3. SentOnce'
      BY <1>1, <2>8, <3>1 DEF PInv, SentOnce
    <3>4. Alike'
      BY <1>4, <2>6, <2>7, <2>8, <3>1 DEF PInv, Alike
    <3>5. QED BY <3>2, <3>3, <3>4
  <2>14. QED BY <2>10, <2>11, <2>12, <2>13 DEF PInv
<1>5. CASE ~(mirror # NoMirror /\ mirror.by \subseteq {d} /\ plan.state # "draft")
  <2>1. mirror' = mirror /\ plan' = plan /\ unseen' = unseen /\ lapped' = lapped
    BY <1>5 DEF TakesUpdate
  <2>2. QED BY <1>1, <1>2, <1>3, <2>1, DeviceHolds
<1>6. QED BY <1>4, <1>5

(* Every step of the agent, the room and the devices keeps the invariant.  *)
LEMMA PlanKept ==
  ASSUME PInv, [PlanNext]_planVars
  PROVE  PInv'
<1>1. CASE UNCHANGED planVars
  <2>1. /\ plan' = plan /\ mirror' = mirror /\ reading' = reading /\ received' = received
        /\ unseen' = unseen /\ lapped' = lapped
        /\ agentState' = agentState /\ ask' = ask /\ runs' = runs
    BY <1>1 DEF planVars
  <2>2. ask \in [Devices -> Sent] /\ runs \in [Devices -> {"no", "mine", "running", "over"}]
    BY DEF PInv, PTyped
  <2>3. QED BY <2>1, <2>2, DeviceHolds
<1>2. ASSUME NEW k \in DataCalls,
             DataGoes(k) \/ DataRefused(k) \/ \E times \in Listings : PlanData(k, times)
      PROVE  PInv'
  BY <1>2, DataGoesHolds, DataRefusedHolds, PlanDataHolds
<1>3. ASSUME NEW d \in Devices,
             \/ TapApprove(d) \/ TapDecline(d) \/ Arrives(d) \/ Leaves(d)
             \/ TakesClaim(d) \/ TakesUpdate(d)
             \/ \E state \in Ends \cup {"none", "running"}, results \in SUBSET Items :
                  Reports(d, state, results)
      PROVE  PInv'
  BY <1>3, OwnersStepsHold, TakesClaimHolds, TakesUpdateHolds
<1>4. QED
  BY <1>1, <1>2, <1>3, DraftHolds, PlanSubmitHolds, ShownHolds, OwnerSetsHolds DEF PlanNext, Listings

(* The invariant holds in every state, for any devices, items and calls.   *)
THEOREM PlanInvariant == PlanSpec => []PInv
BY PlanAtFirst, PlanKept, PTL DEF PlanSpec

(* "two Approves never open two budgets" (OneRunner): one device at most   *)
(* runs a plan and it is the one the room has it by, whatever claims       *)
(* cross, whichever devices leave or forget, and if the agent is blocked   *)
(* meanwhile.                                                              *)
THEOREM OneDeviceRuns == PlanSpec => []OneRunner
<1>1. ASSUME PInv PROVE OneRunner
  <2>1. mirror.by = {} \/ \E d \in Devices : mirror.by = {d}
    BY <1>1 DEF PInv, PTyped
  <2>2. Cardinality(mirror.by) <= 1
    BY <2>1, FS_EmptySet, FS_Singleton
  <2>3. PlanTypeOK
    BY <1>1, <2>2 DEF PInv, PTyped, PlanTypeOK, Copies, PlanStates
  <2>4. QED BY <1>1, <2>3 DEF PInv, Runners, OneRunner
<1>2. QED BY <1>1, PlanInvariant, PTL

(* Unless the owner's word, or another plan_data, came while a call        *)
(* awaited its digests: the agent's copy says what the room's says, what   *)
(* the owner said is not marked seen before the agent was shown it, and no *)
(* plan_data sends what another has sent (AgentIsTold).                    *)
THEOREM AgentHearsTheOwner == PlanSpec => []AgentIsTold
<1>1. ASSUME PInv PROVE AgentIsTold
  <2>1. ASSUME ~lapped, NEW d \in Devices, NEW i \in Items
        PROVE  /\ received[d][i] <= MaxNamed
               /\ \A k \in DataCalls : reading[k].times[i] > 0 => received[d][i] = 0
    <3>1. received[d][i] \in Nat /\ received[d][i] <= MaxNamed /\ (received[d][i] > 0 => i \in plan.sent)
      BY <1>1, <2>1 DEF PInv, PTyped, SentOnce
    <3>2. ASSUME NEW k \in DataCalls, reading[k].times[i] > 0 PROVE i \notin plan.sent
      <4>1. reading[k] # NotReading
        BY <3>2 DEF NotReading
      <4>2. i \in Named(reading[k].times)
        BY <3>2 DEF Named
      <4>3. QED BY <1>1, <2>1, <4>1, <4>2 DEF PInv, Holds
    <3>3. QED BY <3>1, <3>2
  <2>2. QED BY <1>1, <2>1 DEF PInv, Alike, AgentIsTold
<1>2. QED BY <1>1, PlanInvariant, PTL

-----------------------------------------------------------------------------
(* The budgets of EdgeBudget: for any signs, commands and budgets, and     *)
(* whatever answers are lost.                                              *)

(* The inductive invariant.                                                *)

IsUse(n) == n \in 1 .. Len(ring) /\ ring[n].op = "use"

(* A sign is past the key once the key may have linked its use.            *)
PastKey == {"pickup", "newest", "look", "owes?", "told", "failed"}

Shapes ==
  /\ \E S : ring \in Seq(S)
  /\ sign = [s \in Signs |-> [at |-> sign[s].at, with |-> sign[s].with, before |-> sign[s].before]]
  /\ exec = [e \in Execs |-> [at |-> exec[e].at, used |-> exec[e].used, links |-> exec[e].links]]

UsesArePast ==
  \A n : IsUse(n) => ring[n].sign \in Signs /\ sign[ring[n].sign].at \in PastKey

OneUseEach ==
  \A m, n : IsUse(m) /\ IsUse(n) /\ ring[m].sign = ring[n].sign => m = n

Asks(s, e) == s \in Signs /\ ExecOf[s] = e /\ sign[s].at # "none"

OneSignEach ==
  \A e \in Execs :
    /\ \A s : Asks(s, e) => exec[e].used
    /\ \A s, t : Asks(s, e) /\ Asks(t, e) => s = t

IInv == Shapes /\ UsesArePast /\ OneUseEach /\ OneSignEach

-----------------------------------------------------------------------------
(* What a chain keeps when links are added.                                *)
LEMMA Extended ==
  ASSUME NEW S, NEW r \in Seq(S), NEW T, NEW m \in Seq(T)
  PROVE  /\ \E U : r \o m \in Seq(U)
         /\ Len(r) \in Nat /\ Len(m) \in Nat /\ Len(r \o m) = Len(r) + Len(m)
         /\ \A i \in 1 .. Len(r) : (r \o m)[i] = r[i]
         /\ \A i \in 1 .. Len(m) : (r \o m)[Len(r) + i] = m[i]
<1>1. r \in Seq(S \cup T) /\ m \in Seq(S \cup T)
  OBVIOUS
<1>2. r \o m \in Seq(S \cup T)
  BY <1>1
<1>3. QED BY <1>1, <1>2

(* One link more.                                                          *)
LEMMA OneMore ==
  ASSUME NEW S, NEW r \in Seq(S), NEW l
  PROVE  /\ \E U : r \o <<l>> \in Seq(U)
         /\ Len(r) \in Nat /\ Len(r \o <<l>>) = Len(r) + 1
         /\ \A i \in 1 .. Len(r) : (r \o <<l>>)[i] = r[i]
         /\ (r \o <<l>>)[Len(r) + 1] = l
<1>1. r \in Seq(S \cup {l}) /\ <<l>> \in Seq(S \cup {l})
  OBVIOUS
<1>2. r \o <<l>> \in Seq(S \cup {l})
  BY <1>1
<1>3. QED BY <1>1, <1>2

(* The steps that neither link a use nor begin a sign, in three parts.     *)
NoUseLinked ==
  /\ \E S : ring' \in Seq(S)
  /\ \A n : n \in 1 .. Len(ring') /\ ring'[n].op = "use" => IsUse(n) /\ ring'[n] = ring[n]

SignsGoOn ==
  /\ sign' = [s \in Signs |-> [at |-> sign'[s].at, with |-> sign'[s].with, before |-> sign'[s].before]]
  /\ \A s \in Signs : /\ sign'[s].at # "none" => sign[s].at # "none"
                      /\ sign[s].at \in PastKey => sign'[s].at \in PastKey

UsedStays ==
  /\ exec' = [e \in Execs |-> [at |-> exec'[e].at, used |-> exec'[e].used, links |-> exec'[e].links]]
  /\ \A e \in Execs : exec[e].used => exec'[e].used

(* Such a step keeps the invariant.                                        *)
LEMMA QuietSteps ==
  IInv /\ NoUseLinked /\ SignsGoOn /\ UsedStays => IInv'
<1> SUFFICES ASSUME IInv, NoUseLinked, SignsGoOn, UsedStays PROVE IInv'
  OBVIOUS
<1>1. Shapes'
  BY DEF Shapes, NoUseLinked, SignsGoOn, UsedStays
<1>2. \A n : IsUse(n)' => IsUse(n) /\ ring'[n] = ring[n]
  BY DEF IsUse, NoUseLinked
<1>3. UsesArePast'
  BY <1>2 DEF IInv, UsesArePast, SignsGoOn
<1>4. OneUseEach'
  BY <1>2 DEF IInv, OneUseEach
<1>5. OneSignEach'
  <2>1. \A s, e : Asks(s, e)' => Asks(s, e)
    BY DEF Asks, SignsGoOn
  <2>2. QED BY <2>1 DEF IInv, OneSignEach, UsedStays
<1>6. QED BY <1>1, <1>3, <1>4, <1>5 DEF IInv

(* What a step leaves alone, the part it is about bears.                   *)
LEMMA RingStays ==
  ASSUME IInv, ring' = ring PROVE NoUseLinked
BY DEF IInv, Shapes, NoUseLinked, IsUse

(* The same of the signs.                                                  *)
LEMMA SignsStay ==
  ASSUME IInv, sign' = sign PROVE SignsGoOn
BY DEF IInv, Shapes, SignsGoOn

(* The same of the commands.                                               *)
LEMMA ExecsStay ==
  ASSUME IInv, exec' = exec PROVE UsedStays
BY DEF IInv, Shapes, UsedStays

(* Links that are no uses.                                                 *)
LEMMA OthersLinked ==
  ASSUME IInv, NEW T, NEW more \in Seq(T), ring' = ring \o more,
         \A i \in 1 .. Len(more) : more[i].op # "use"
  PROVE  NoUseLinked
<1>1. PICK S : ring \in Seq(S)
  BY DEF IInv, Shapes
<1>2. /\ \E U : ring' \in Seq(U)
      /\ Len(ring) \in Nat /\ Len(more) \in Nat /\ Len(ring') = Len(ring) + Len(more)
      /\ \A i \in 1 .. Len(ring) : ring'[i] = ring[i]
      /\ \A i \in 1 .. Len(more) : ring'[Len(ring) + i] = more[i]
  BY <1>1, Extended
<1>3. ASSUME NEW n, n \in 1 .. Len(ring'), ring'[n].op = "use"
      PROVE  IsUse(n) /\ ring'[n] = ring[n]
  <2>1. CASE n \in 1 .. Len(ring)
    BY <1>2, <1>3, <2>1 DEF IsUse
  <2>2. CASE n \notin 1 .. Len(ring)
    <3>1. n - Len(ring) \in 1 .. Len(more) /\ n = Len(ring) + (n - Len(ring))
      BY <1>2, <1>3, <2>2
    <3>2. ring'[n] = more[n - Len(ring)]
      BY <1>2, <3>1
    <3>3. QED BY <1>3, <3>1, <3>2
  <2>3. QED BY <2>1, <2>2
<1>4. QED BY <1>2, <1>3 DEF NoUseLinked

(* One link that is no use, and a receipt with an end behind it.           *)
LEMMA OneLinked ==
  ASSUME IInv, NEW l, ring' = ring \o <<l>>, l.op # "use" PROVE NoUseLinked
<1>1. <<l>> \in Seq({l}) /\ Len(<<l>>) = 1 /\ <<l>>[1] = l
  OBVIOUS
<1>2. \A i \in 1 .. Len(<<l>>) : <<l>>[i].op # "use"
  BY <1>1
<1>3. QED BY <1>1, <1>2, OthersLinked

(* Two links behind the chain, neither of them a use.                      *)
LEMMA TwoLinked ==
  ASSUME IInv, NEW k, NEW r \in Seq({k}), Len(r) = 1, r[1] = k, NEW l,
         ring' = ring \o (r \o <<l>>), k.op # "use", l.op # "use"
  PROVE  NoUseLinked
<1>1. /\ \E U : r \o <<l>> \in Seq(U)
      /\ Len(r) \in Nat /\ Len(r \o <<l>>) = Len(r) + 1
      /\ \A i \in 1 .. Len(r) : (r \o <<l>>)[i] = r[i]
      /\ (r \o <<l>>)[Len(r) + 1] = l
  BY OneMore
<1> DEFINE more == r \o <<l>>
<1>2. ring' = ring \o more
  OBVIOUS
<1>3. /\ \E U : more \in Seq(U)
      /\ Len(more) = Len(r) + 1
      /\ \A i \in 1 .. Len(r) : more[i] = r[i]
      /\ more[Len(r) + 1] = l
  BY <1>1, Zenon
<1> HIDE DEF more
<1>4. \A i \in 1 .. Len(more) : more[i].op # "use"
  BY <1>3
<1>5. QED BY <1>2, <1>3, <1>4, OthersLinked

(* A budget is ended.                                                      *)
LEMMA Revoked ==
  ASSUME IInv, NEW b, NEW by, Revokes(b, by) PROVE NoUseLinked
<1>1. CASE b \in live
  BY <1>1, OneLinked DEF Revokes, Links, End, Link
<1>2. CASE b \notin live
  BY <1>2, RingStays DEF Revokes
<1>3. QED BY <1>1, <1>2

(* A sign goes from one stage to another.                                  *)
LEMMA SignGoesOn ==
  ASSUME IInv, NEW s \in Signs, sign[s].at # "none", NEW at, To(s, at),
         sign[s].at \in PastKey => at \in PastKey
  PROVE  SignsGoOn
BY DEF IInv, Shapes, SignsGoOn, To

(* A command is opened or closed, or told of links.                        *)
LEMMA ExecGoesOn ==
  ASSUME IInv, NEW e \in Execs, NEW new,
         \/ exec' = [exec EXCEPT ![e].at = new]
         \/ exec' = [exec EXCEPT ![e].links = new]
  PROVE  UsedStays
<1>1. CASE exec' = [exec EXCEPT ![e].at = new]
  BY <1>1 DEF IInv, Shapes, UsedStays
<1>2. CASE exec' = [exec EXCEPT ![e].links = new]
  BY <1>2 DEF IInv, Shapes, UsedStays
<1>3. QED BY <1>1, <1>2

(* A command is used.                                                      *)
LEMMA ExecUsed ==
  ASSUME IInv, NEW e \in Execs, NEW new, exec' = [exec EXCEPT ![e].used = new]
  PROVE  /\ exec'[e].used = new
         /\ \A f \in Execs : f # e => exec'[f] = exec[f]
         /\ exec' = [f \in Execs |-> [at |-> exec'[f].at, used |-> exec'[f].used, links |-> exec'[f].links]]
<1> DEFINE old == exec[e]
           one == [old EXCEPT !.used = new]
<1>1. /\ exec = [f \in Execs |-> exec[f]]
      /\ \A f \in Execs : exec[f] = [at |-> exec[f].at, used |-> exec[f].used, links |-> exec[f].links]
  BY DEF IInv, Shapes
<1>2. old = [at |-> old.at, used |-> old.used, links |-> old.links]
  BY <1>1
<1>3. exec' = [exec EXCEPT ![e] = one]
  OBVIOUS
<1> HIDE DEF old
<1>4. one.used = new /\ one = [at |-> one.at, used |-> one.used, links |-> one.links]
  BY <1>2
<1> HIDE DEF one
<1>5. exec' = [f \in Execs |-> IF f = e THEN one ELSE exec[f]]
  BY <1>1, <1>3
<1>6. exec'[e] = one /\ \A f \in Execs : f # e => exec'[f] = exec[f]
  BY <1>5
<1>7. \A f \in Execs : exec'[f] = [at |-> exec'[f].at, used |-> exec'[f].used, links |-> exec'[f].links]
  BY <1>1, <1>4, <1>6
<1>8. exec' = [f \in Execs |-> exec'[f]]
  BY <1>5
<1>9. QED BY <1>4, <1>6, <1>7, <1>8

(* A command is told of links.                                             *)
LEMMA ToldOfLinks ==
  ASSUME IInv, NEW s \in Signs, NEW links, Tells(s, links)
  PROVE  UsedStays
<1>1. CASE Party(s) = "plan"
  BY <1>1, ExecsStay DEF Tells
<1>2. CASE Party(s) # "plan"
  <2>1. ExecOf[s] \in Execs
    BY <1>2, BudgetAssumption DEF Party
  <2>2. exec' = [exec EXCEPT ![ExecOf[s]].links = exec[ExecOf[s]].links \cup links]
    BY <1>2 DEF Tells
  <2>3. QED BY <2>1, <2>2, ExecGoesOn
<1>3. QED BY <1>1, <1>2

-----------------------------------------------------------------------------
(* The three steps that are not quiet.                                     *)

(* A sign begins: it is the first of its command, or a plan's.             *)
LEMMA SignBegins ==
  ASSUME IInv, NEW s \in Signs, NEW b, Begins(s, b), ring' = ring, UsedStays,
         ExecOf[s] \in Execs => ~exec[ExecOf[s]].used /\ exec'[ExecOf[s]].used
  PROVE  IInv'
<1>1. /\ sign[s].at = "none"
      /\ \A t \in Signs \ {s} : sign'[t] = sign[t]
      /\ sign' = [t \in Signs |-> [at |-> sign'[t].at, with |-> sign'[t].with, before |-> sign'[t].before]]
  <2> DEFINE at == IF b = 0 \/ book[b].ended \/ book[b].owed # {} THEN Failed(s) ELSE "head"
             begun == [at |-> at, with |-> b, before |-> 0]
  <2>1. sign[s].at = "none" /\ sign' = [sign EXCEPT ![s] = begun]
    BY Zenon DEF Begins
  <2> HIDE DEF at
  <2>2. QED BY <2>1 DEF IInv, Shapes
<1>2. Shapes'
  BY <1>1 DEF IInv, Shapes, UsedStays
<1>3. UsesArePast'
  <2>1. \A n : IsUse(n)' => IsUse(n) /\ ring'[n].sign \in Signs \ {s} /\ ring'[n] = ring[n]
    BY <1>1 DEF IInv, UsesArePast, IsUse, PastKey
  <2>2. QED BY <1>1, <2>1 DEF IInv, UsesArePast
<1>4. OneUseEach'
  BY DEF IInv, OneUseEach, IsUse
<1>5. OneSignEach'
  <2>1. ASSUME NEW e \in Execs, NEW t, Asks(t, e)', t # s
        PROVE  Asks(t, e) /\ exec[e].used /\ e # ExecOf[s]
    BY <1>1, <2>1 DEF IInv, OneSignEach, Asks
  <2>2. ASSUME NEW e \in Execs, NEW t, Asks(t, e)' PROVE exec'[e].used
    <3>1. CASE t = s
      BY <2>2, <3>1 DEF Asks
    <3>2. CASE t # s
      BY <2>1, <2>2, <3>2 DEF UsedStays
    <3>3. QED BY <3>1, <3>2
  <2>3. ASSUME NEW e \in Execs, NEW t, NEW u, Asks(t, e)', Asks(u, e)' PROVE t = u
    <3>1. CASE t = s \/ u = s
      BY <2>1, <2>3, <3>1 DEF Asks
    <3>2. CASE t # s /\ u # s
      BY <2>1, <2>3, <3>2 DEF IInv, OneSignEach
    <3>3. QED BY <3>1, <3>2
  <2>4. QED BY <2>2, <2>3 DEF OneSignEach
<1>6. QED BY <1>2, <1>3, <1>4, <1>5 DEF IInv

(* The key links the use of a sign that was not past it.                   *)
LEMMA UseLinked ==
  ASSUME IInv, NEW s \in Signs, SignPaid(s)
  PROVE  IInv'
<1>1. PICK b : ring' = ring \o <<Use(s, b)>>
  BY DEF SignPaid, Links
<1>2. PICK at \in {"pickup", "look"} : To(s, at)
  BY DEF SignPaid
<1>3. sign[s].at = "sign" /\ exec' = exec
  BY DEF SignPaid
<1>4. PICK S : ring \in Seq(S)
  BY DEF IInv, Shapes
<1>5. Use(s, b).op = "use" /\ Use(s, b).sign = s
  BY DEF Use, Link
<1>6. /\ \E U : ring' \in Seq(U)
      /\ Len(ring) \in Nat /\ Len(ring') = Len(ring) + 1
      /\ \A i \in 1 .. Len(ring) : ring'[i] = ring[i]
      /\ ring'[Len(ring) + 1] = Use(s, b)
  <2> DEFINE l == Use(s, b)
  <2>1. ring' = ring \o <<l>>
    BY <1>1
  <2> HIDE DEF l
  <2>2. /\ \E U : ring \o <<l>> \in Seq(U)
        /\ Len(ring) \in Nat /\ Len(ring \o <<l>>) = Len(ring) + 1
        /\ \A i \in 1 .. Len(ring) : (ring \o <<l>>)[i] = ring[i]
        /\ (ring \o <<l>>)[Len(ring) + 1] = l
    BY <1>4, OneMore
  <2>3. /\ \E U : ring' \in Seq(U)
        /\ Len(ring) \in Nat /\ Len(ring') = Len(ring) + 1
        /\ \A i \in 1 .. Len(ring) : ring'[i] = ring[i]
        /\ ring'[Len(ring) + 1] = l
    BY <2>1, <2>2, Zenon
  <2>4. QED BY <2>3 DEF l
<1>7. SignsGoOn /\ sign'[s].at \in PastKey
  BY <1>2, <1>3 DEF IInv, Shapes, SignsGoOn, To, PastKey
<1>8. Shapes' /\ OneSignEach'
  BY <1>3, <1>6, <1>7 DEF IInv, Shapes, SignsGoOn, OneSignEach, Asks
<1>9. \A n : IsUse(n)' => \/ n = Len(ring) + 1 /\ ring'[n].sign = s
                          \/ IsUse(n) /\ ring'[n] = ring[n]
  BY <1>5, <1>6 DEF IsUse
<1>10. \A n : IsUse(n) => ring[n].sign # s
  BY <1>3 DEF IInv, UsesArePast, PastKey
<1>11. UsesArePast'
  BY <1>7, <1>9 DEF IInv, UsesArePast, SignsGoOn
<1>12. OneUseEach'
  BY <1>9, <1>10 DEF IInv, OneUseEach
<1>13. QED BY <1>8, <1>11, <1>12 DEF IInv

-----------------------------------------------------------------------------
(* The first state, and every step.                                        *)
LEMMA InitHolds == BudgetInit => IInv
<1> SUFFICES ASSUME BudgetInit PROVE IInv
  OBVIOUS
<1>1. Shapes
  BY DEF BudgetInit, Shapes, NoUse, Shut
<1>2. \A n : ~IsUse(n)
  BY DEF BudgetInit, IsUse
<1>3. \A s, e : ~Asks(s, e)
  BY DEF BudgetInit, Asks, NoUse
<1>4. QED BY <1>1, <1>2, <1>3 DEF IInv, UsesArePast, OneUseEach, OneSignEach

(* The stages of a sign, but for its use.                                  *)
LEMMA SignSteps ==
  ASSUME IInv, NEW s \in Signs,
         \/ ReadHead(s) \/ StartTx(s) \/ SignRefused(s) \/ SignPressed(s) \/ SignUnheard(s)
         \/ Look(s) \/ Pickup(s) \/ KeyOwed(s)
  PROVE  IInv'
<1>1. CASE ReadHead(s)
  <2>1. SignsGoOn
    <3>1. PICK at : sign' = [sign EXCEPT ![s].before = Len(ring), ![s].at = at]
      BY <1>1 DEF ReadHead
    <3> DEFINE len == Len(ring)
               old == sign[s]
               mid == [old EXCEPT !.before = len]
               one == [mid EXCEPT !.at = at]
    <3>2. sign[s].at \notin PastKey \cup {"none"}
      BY <1>1 DEF ReadHead, PastKey
    <3>3. sign = [t \in Signs |-> [at |-> sign[t].at, with |-> sign[t].with, before |-> sign[t].before]]
      BY DEF IInv, Shapes
    <3>4. old = [at |-> old.at, with |-> old.with, before |-> old.before]
      BY <3>3
    <3>5. sign' = [t \in Signs |-> IF t = s THEN one ELSE sign[t]]
      BY <3>1, <3>3
    <3> HIDE DEF old, len
    <3>6. one = [at |-> one.at, with |-> one.with, before |-> one.before]
      <4>1. mid = [at |-> mid.at, with |-> mid.with, before |-> mid.before]
        BY <3>4
      <4> HIDE DEF mid
      <4>2. QED BY <4>1
    <3> HIDE DEF one
    <3>7. /\ \A t \in Signs \ {s} : sign'[t] = sign[t]
          /\ sign' = [t \in Signs |->
                        [at |-> sign'[t].at, with |-> sign'[t].with, before |-> sign'[t].before]]
      BY <3>3, <3>5, <3>6
    <3>8. QED BY <3>2, <3>7 DEF SignsGoOn
  <2>2. QED BY <1>1, <2>1, RingStays, ExecsStay, QuietSteps DEF ReadHead
<1>2. CASE StartTx(s)
  <2>1. SignsGoOn
    BY <1>2, SignGoesOn DEF StartTx, PastKey
  <2>2. QED BY <1>2, <2>1, RingStays, ExecsStay, QuietSteps DEF StartTx
<1>3. CASE SignRefused(s)
  <2>1. SignsGoOn
    BY <1>3, SignGoesOn DEF SignRefused, PastKey
  <2>2. QED BY <1>3, <2>1, RingStays, ExecsStay, QuietSteps DEF SignRefused
<1>4. CASE SignPressed(s)
  <2>1. SignsGoOn
    BY <1>4, SignGoesOn DEF SignPressed, PastKey
  <2>2. QED BY <1>4, <2>1, RingStays, ExecsStay, QuietSteps DEF SignPressed
<1>5. CASE SignUnheard(s)
  <2>1. SignsGoOn
    BY <1>5, SignGoesOn DEF SignUnheard, PastKey
  <2>2. QED BY <1>5, <2>1, RingStays, ExecsStay, QuietSteps DEF SignUnheard
<1>6. CASE Look(s)
  <2>1. SignsGoOn
    BY <1>6, SignGoesOn DEF Look, Failed, PastKey
  <2>2. QED BY <1>6, <2>1, RingStays, ExecsStay, QuietSteps DEF Look
<1>7. CASE Pickup(s)
  <2>1. SignsGoOn
    BY <1>7, SignGoesOn DEF Pickup, Failed, PastKey
  <2>2. UsedStays
    BY <1>7, ExecsStay, ToldOfLinks DEF Pickup
  <2>3. QED BY <1>7, <2>1, <2>2, RingStays, QuietSteps DEF Pickup
<1>8. CASE KeyOwed(s)
  <2>1. SignsGoOn
    BY <1>8, SignGoesOn DEF KeyOwed, PastKey
  <2>2. UsedStays
    BY <1>8, ToldOfLinks DEF KeyOwed
  <2>3. QED BY <1>8, <2>1, <2>2, RingStays, QuietSteps DEF KeyOwed
<1>9. QED BY <1>1, <1>2, <1>3, <1>4, <1>5, <1>6, <1>7, <1>8

(* The commands.                                                           *)
LEMMA ExecSteps ==
  ASSUME IInv, NEW e \in Execs, ExecAsked(e) \/ ExecOpens(e) \/ ExecCloses(e)
  PROVE  IInv'
<1>1. \E at : exec' = [exec EXCEPT ![e].at = at]
  BY DEF ExecAsked, ExecOpens, ExecCloses
<1>2. ring' = ring /\ sign' = sign
  BY DEF ExecAsked, ExecOpens, ExecCloses
<1>3. QED BY <1>1, <1>2, RingStays, SignsStay, ExecGoesOn, QuietSteps

(* Budgets, receipts and plans: no sign moves, no command is used.         *)
LEMMA BudgetSteps ==
  ASSUME IInv,
         \/ \E k \in Kinds : BudgetAsked(k) \/ PhoneGrants(k) \/ PhoneDeclines(k) \/ BudgetOpens(k)
         \/ ContinueAsked \/ ContinueRevokes \/ EndAsked \/ EndRevokes \/ KeyLocks \/ OtherLinks
         \/ \E n \in 1 .. Len(ring) : AgentFiles(n)
         \/ \E w \in {"agent", "plan"} : FileReceipt(w) \/ AskNewest(w)
         \/ PlanReceipts \/ PlanEnds \/ PlanRevokes
  PROVE  IInv'
<1> SUFFICES NoUseLinked /\ sign' = sign /\ exec' = exec
  BY SignsStay, ExecsStay, QuietSteps
<1>1. CASE \E k \in Kinds : BudgetAsked(k) \/ PhoneDeclines(k) \/ BudgetOpens(k)
  BY <1>1, RingStays DEF BudgetAsked, PhoneDeclines, BudgetOpens
<1>2. CASE \E k \in Kinds : PhoneGrants(k)
  BY <1>2, RingStays, OneLinked DEF PhoneGrants, Links, Open, Link
<1>3. CASE ContinueAsked \/ EndAsked \/ KeyLocks \/ PlanReceipts \/ PlanEnds
  BY <1>3, RingStays DEF ContinueAsked, EndAsked, KeyLocks, PlanReceipts, PlanEnds
<1>4. CASE ContinueRevokes
  BY <1>4, RingStays, Revoked DEF ContinueRevokes
<1>5. CASE EndRevokes
  BY <1>5, RingStays, Revoked DEF EndRevokes
<1>6. CASE PlanRevokes
  BY <1>6, RingStays, Revoked DEF PlanRevokes
<1>7. CASE OtherLinks
  BY <1>7, OneLinked DEF OtherLinks, Links, Other, Link
<1>8. CASE \E n \in 1 .. Len(ring) : AgentFiles(n)
  BY <1>8, RingStays DEF AgentFiles
<1>9. CASE \E w \in {"agent", "plan"} : AskNewest(w)
  BY <1>9, RingStays DEF AskNewest
<1>10. CASE \E w \in {"agent", "plan"} : FileReceipt(w)
  <2>1. PICK w \in {"agent", "plan"} : FileReceipt(w)
    BY <1>10
  <2> DEFINE n == filing[w].of
             receipt == Receipt(n)
             end == End(ring[n].of, "key")
  <2>2. \/ ring' = ring
        \/ ring' = ring \o (<<receipt>> \o <<end>>)
        \/ ring' = ring \o (<<receipt>> \o <<>>)
    BY <2>1 DEF FileReceipt, Links
  <2>3. receipt.op # "use" /\ end.op # "use"
    BY DEF Receipt, End, Link
  <2> HIDE DEF receipt, end
  <2>4. ASSUME ring' = ring \o (<<receipt>> \o <<end>>) PROVE NoUseLinked
    <3>1. <<receipt>> \in Seq({receipt}) /\ Len(<<receipt>>) = 1 /\ <<receipt>>[1] = receipt
      OBVIOUS
    <3>2. QED BY <2>3, <2>4, <3>1, TwoLinked
  <2>5. ASSUME ring' = ring \o (<<receipt>> \o <<>>) PROVE NoUseLinked
    <3>1. <<receipt>> \in Seq({receipt}) /\ <<receipt>> \o <<>> = <<receipt>>
      OBVIOUS
    <3>2. ring' = ring \o <<receipt>>
      BY <2>5, <3>1, Zenon
    <3>3. QED BY <2>3, <3>2, OneLinked
  <2>6. NoUseLinked
    BY <2>2, <2>3, <2>4, <2>5, RingStays
  <2>7. sign' = sign /\ exec' = exec
    BY <2>1, Zenon DEF FileReceipt
  <2>8. QED BY <2>6, <2>7, Zenon
<1>11. QED
  BY <1>1, <1>2, <1>3, <1>4, <1>5, <1>6, <1>7, <1>8, <1>9, <1>10

(* All of them: a sign begins for a command not used yet, or for a plan.   *)
LEMMA StepHolds == IInv /\ [BudgetNext]_budgetVars => IInv'
<1> SUFFICES ASSUME IInv, [BudgetNext]_budgetVars PROVE IInv'
  OBVIOUS
<1>1. ASSUME NEW s \in Signs, SignAsked(s) PROVE IInv'
  <2>1. ExecOf[s] # "plan" /\ ExecOf[s] \in Execs
    BY <1>1, BudgetAssumption DEF SignAsked, Party
  <2>2. ~exec[ExecOf[s]].used /\ exec' = [exec EXCEPT ![ExecOf[s]].used = TRUE]
    BY <1>1 DEF SignAsked
  <2>3. UsedStays /\ exec'[ExecOf[s]].used
    <3> DEFINE new == TRUE
    <3>1. exec' = [exec EXCEPT ![ExecOf[s]].used = new] /\ new
      BY <2>2, Zenon
    <3>2. /\ exec'[ExecOf[s]].used = new
          /\ \A f \in Execs : f # ExecOf[s] => exec'[f] = exec[f]
          /\ exec' = [f \in Execs |->
                        [at |-> exec'[f].at, used |-> exec'[f].used, links |-> exec'[f].links]]
      <4> HIDE DEF new
      <4>1. QED BY <2>1, <3>1, ExecUsed
    <3>3. exec'[ExecOf[s]].used
      BY <3>1, <3>2, Zenon
    <3>4. \A e \in Execs : exec[e].used => exec'[e].used
      BY <3>2, <3>3, Zenon
    <3>5. QED BY <3>2, <3>3, <3>4, Zenon DEF UsedStays
  <2>4. QED BY <1>1, <2>2, <2>3, SignBegins DEF SignAsked
<1>2. ASSUME NEW s \in Signs, PlanSigns(s) PROVE IInv'
  <2>1. ExecOf[s] \notin Execs
    BY <1>2, BudgetAssumption DEF PlanSigns, PlanItems
  <2>2. QED BY <1>2, <2>1, SignBegins, ExecsStay DEF PlanSigns
<1>3. CASE UNCHANGED budgetVars
  BY <1>3, RingStays, SignsStay, ExecsStay, QuietSteps DEF budgetVars
<1>4. CASE BudgetNext
  BY <1>1, <1>2, <1>4, SignSteps, ExecSteps, BudgetSteps, UseLinked DEF BudgetNext, Working
<1>5. QED BY <1>3, <1>4

(* The invariant of every behaviour.                                       *)
LEMMA IInvHolds == BudgetSpec => []IInv
BY InitHolds, StepHolds, PTL DEF BudgetSpec

(* A command has one paid use at most (agent.js paid(): `exec.used`).      *)
THEOREM OnePaidUse == BudgetSpec => []OnePaidEach
<1>1. IInv => OnePaidEach
  <2> SUFFICES ASSUME IInv, NEW e \in Execs, NEW m \in UsesIn(e), NEW n \in UsesIn(e)
               PROVE  m = n
    BY DEF OnePaidEach
  <2>1. IsUse(m) /\ IsUse(n) /\ ExecOf[ring[m].sign] = e /\ ExecOf[ring[n].sign] = e
    BY DEF UsesIn, IsUse
  <2>2. Asks(ring[m].sign, e) /\ Asks(ring[n].sign, e)
    BY <2>1 DEF IInv, UsesArePast, PastKey, Asks
  <2>3. QED BY <2>1, <2>2 DEF IInv, OneSignEach, OneUseEach
<1>2. QED BY <1>1, IInvHolds, PTL

-----------------------------------------------------------------------------
(* The inductive invariant of the budgets, in parts.                       *)

IsOpen(b) == b \in 1 .. Len(ring) /\ ring[b].op = "open"

(* Links: as BudgetTypeOK has them, and from no sign but one asked for.    *)
LinkOf(i) ==
  /\ ring[i].op \in {"open", "use", "receipt", "end", "other"}
  /\ ring[i].by \in {"service", "plan", "continue", "end", "key", "other"}
  /\ ring[i].op = "use" => ring[i].sign \in Signs
  /\ ring[i].op \in {"use", "end"} => ring[i].of \in 1 .. i - 1 /\ ring[ring[i].of].op = "open"
  /\ ring[i].op = "receipt" => ring[i].of \in 1 .. i - 1 /\ ring[ring[i].of].op = "use"
LinksOf == \A i \in 1 .. Len(ring) : LinkOf(i)

(* The budgets: what is opened, by whom; none pays more than its uses.     *)
OpenedBy(b, p) == IsOpen(b) /\ ring[b].by = p
BudgetsOf ==
  /\ \A b \in live : IsOpen(b)
  /\ \A b \in DOMAIN book : IsOpen(b)
  /\ budget # 0 => budget \in DOMAIN book /\ ring[budget].by = "service"
  /\ \A b : SpentOf(b) <= Uses

(* The client's ledger of a budget: it counts no more than the key spent.  *)
BookShape ==
  book = [c \in DOMAIN book |-> [owed |-> book[c].owed, ended |-> book[c].ended, spent |-> book[c].spent]]

Ledgers ==
  /\ BookShape
  /\ \A b \in DOMAIN book :
       /\ \A n \in book[b].owed : IsUse(n)
       /\ book[b].ended \in BOOLEAN
       /\ book[b].spent \in Nat /\ book[b].spent <= SpentOf(b)

(* The bounds on faults.                                                   *)
Faults ==
  /\ faults = [lost |-> faults.lost, others |-> faults.others, locked |-> faults.locked]
  /\ faults.lost \in 0 .. MaxLost /\ faults.others \in 0 .. MaxOthers

(* The requests: a grant is of a budget not in the book yet.               *)
ServiceKinds == {"budget", "continue", "end"}
OwnerOf(k) == IF k = "plan" THEN "plan" ELSE "service"
PlanIsOn == {"running", "signing", "filing", "ending", "failing", "done", "ended"}
AskingShape == asking = [j \in Kinds |-> [at |-> asking[j].at, of |-> asking[j].of]]

RequestOf(k) ==
  /\ asking[k].at = "granted" => asking[k].of \notin DOMAIN book /\ OpenedBy(asking[k].of, OwnerOf(k))
  /\ asking[k].at = "revoke" => k # "plan" /\ asking[k].of \in DOMAIN book
  /\ asking[k].at \in {"asked", "granted"} => k # "end"

PlanRequest ==
  LET at == asking["plan"].at
      of == asking["plan"].of
  IN  /\ at \in {"none", "asked", "granted", "failed"} \cup PlanIsOn
      /\ at \in PlanIsOn => of \in DOMAIN book
      /\ at # "granted" => of \in {0} \cup DOMAIN book
      /\ of \in DOMAIN book => ring[of].by = "plan"

OneGrantEach ==
  \A k, j \in Kinds :
    k # j /\ asking[k].at = "granted" /\ asking[j].at = "granted" => asking[k].of # asking[j].of

RequestsMade == AskingShape /\ (\A k \in Kinds : RequestOf(k)) /\ PlanRequest /\ OneGrantEach

(* A filing is of a use; the plan's is of the one its budget has owing, so *)
(* that the filing over, nothing is owed in it.                            *)
FilingShape ==
  filing = [w \in {"agent", "plan"} |-> [at |-> filing[w].at, of |-> filing[w].of, with |-> filing[w].with]]

FilingOf(w) ==
  /\ filing[w].at \in {"none", "file", "newest", "head"}
  /\ filing[w].at = "none" <=> filing[w] = NotFiling
  /\ filing[w].at # "none" => IsUse(filing[w].of)
  /\ filing[w].at \in {"newest", "head"} => filing[w].with # 0
  /\ filing[w].at = "head" => filing[w].of \notin Owed

AgentFiling ==
  filing["agent"].with # 0 => filing["agent"].with \in DOMAIN book /\ ring[filing["agent"].with].by = "service"

PlanFiling ==
  /\ filing["plan"].at # "none" <=> asking["plan"].at = "filing"
  /\ filing["plan"].at # "none" =>
       /\ filing["plan"].with = asking["plan"].of
       /\ filing["plan"].at = "file" => filing["plan"].of \in PlanBook.owed
       /\ PlanBook.owed \subseteq {filing["plan"].of}

Filings == FilingShape /\ (\A w \in {"agent", "plan"} : FilingOf(w)) /\ AgentFiling /\ PlanFiling

(* A sign under way is of a budget of its party; one the service had no    *)
(* budget for any more failed before its first call.                       *)
OfABudget(s) == sign[s].with \in DOMAIN book /\ ring[sign[s].with].by = Party(s)
OfNone(s) == Party(s) = "service" /\ sign[s].with = 0 /\ sign[s].at \in {"owes?", "failed"}
Stages ==
  \A s \in Signs :
    /\ sign[s].at \in {"none", "head", "start", "sign"} \cup PastKey
    /\ sign[s].before \in 0 .. Len(ring)
    /\ sign[s].at = "none" => sign[s] = NoUse
    /\ sign[s].at # "none" => OfABudget(s) \/ OfNone(s)
    /\ sign[s].at = "owes?" => Party(s) = "service"

(* A TX start is of a sign under way, over the head that sign read.        *)
Starts ==
  /\ \A t \in started : /\ t = [by |-> t.by, over |-> t.over]
                        /\ t.by \in Signs /\ sign[t.by].at \notin {"none", "head"}
                        /\ t.over = sign[t.by].before
  /\ \A n : IsUse(n) => n = sign[ring[n].sign].before + 1 /\ sign[ring[n].sign].with # 0

(* The key takes no TX start and pays no use while a receipt is owed.      *)
OneDebt == \A m, n \in Owed : m = n

(* How a use that is owed is known, stage by stage: a sign whose answer    *)
(* came picks its use up where it is, over the head it read, unless an     *)
(* answer was lost by then.                                                *)
KnownAt(n, s) ==
  LET noted == n \in book[sign[s].with].owed
  IN  /\ sign[s].at \in {"newest", "look"} => faults.lost >= 1
      /\ sign[s].at = "owes?" => noted \/ faults.lost >= 1
      /\ sign[s].at = "told" => noted
      /\ sign[s].at = "failed" =>
           \/ noted
           \/ Party(s) = "service" /\ Said(n, FALSE) \in exec[ExecOf[s]].links /\ faults.lost >= 1
           \/ Party(s) = "plan" /\ faults.lost = 1 /\ n < Len(ring)
           \/ faults.lost > 1
DebtsKnown == \A n \in Owed : KnownAt(n, ring[n].sign)

(* What a command is told.  While it is at work and nobody crossed it, the *)
(* key owes for no other: that is why it may take what is owed for its own *)
(* (agent.js:133-136).                                                     *)
AtWork(e) == exec[e].at = "open" \/ \E t \in InUse : ExecOf[t] = e
ToldLinks ==
  \A e \in Execs :
    /\ exec[e].links # {} => exec[e].used
    /\ \A l \in exec[e].links : l.ok => IsUse(l.seq) /\ sign[ring[l.seq].sign].at = "told"
    /\ e \notin crossed => \A l \in exec[e].links : l.seq \in UsesIn(e)
    /\ e \notin crossed /\ AtWork(e) => Owed \subseteq UsesIn(e)

(* The last use of a budget that lives is owed: the key ends the budget    *)
(* behind the receipt.  So a client that counted every use and receipted   *)
(* what it knew of has a budget that is gone.                              *)
LastOwed == \A n : IsUse(n) /\ ring[n].of \in live /\ StepOf(n) = Uses => n \in Owed
SpentKnown ==
  \A b \in DOMAIN book : book[b].spent >= Uses =>
     \E n : IsUse(n) /\ ring[n].of = b /\ StepOf(n) = Uses /\ (n \in book[b].owed \/ n \notin Owed)

(* A plan signs one item at a time and files what it owes before it goes   *)
(* on; it fails by a lost answer, or over an item that was not signed.     *)
PlanStages ==
  /\ asking["plan"].at \in {"none", "asked"} => asking["plan"].of = 0
  /\ \A s \in Begun : sign[s].with = asking["plan"].of /\ asking["plan"].of \in DOMAIN book
  /\ asking["plan"].at # "signing" => \A s \in Begun : sign[s].at \in Done
  /\ asking["plan"].at = "signing" =>
       \A s, t \in Begun : sign[s].at \notin Done /\ sign[t].at \notin Done => s = t
  /\ asking["plan"].at = "running" => PlanBook.owed = {}
  /\ asking["plan"].at = "signing" /\ (\E s \in Begun : sign[s].at \notin Done) => PlanBook.owed = {}
  /\ asking["plan"].at = "signing" => \A m, n \in PlanBook.owed : m = n
  /\ asking["plan"].at = "ending" => PlanBook.owed = {}
  /\ faults.lost = 0 => asking["plan"].at # "failing" /\ filing["plan"].at # "newest"
  /\ asking["plan"].at = "failed" /\ asking["plan"].of # 0 /\ faults.lost = 0 =>
       \E s \in PlanItems : sign[s].at # "told"

(* An end is asked for with nothing owing in the ledger, and what owes     *)
(* after that was signed beside it.                                        *)
Unsettled(b) == {n \in Owed : ring[n].of = b /\ sign[ring[n].sign].with = b}
EndSettled ==
  asking["end"].at = "revoke" /\ "end" \notin crossed /\ faults.lost = 0 => Unsettled(asking["end"].of) = {}

(* One request to the service at a time: it holds the newest.              *)
ServiceBooks == {b \in DOMAIN book : ring[b].by = "service"}
Held ==
  "asked" \notin crossed =>
    /\ \A k, j \in ServiceKinds : asking[k] # Idle /\ asking[j] # Idle => k = j
    /\ \A b \in ServiceBooks : (\A c \in ServiceBooks : c <= b) => budget = b \/ book[b].ended
    /\ \A k \in ServiceKinds : asking[k].at = "granted" => \A c \in ServiceBooks : c < asking[k].of
    /\ asking["end"].at = "revoke" => asking["end"].of = budget

BInv ==
  /\ LinksOf /\ BudgetsOf /\ Ledgers /\ Faults /\ RequestsMade /\ Filings /\ Stages /\ Starts
  /\ OneDebt /\ DebtsKnown /\ ToldLinks /\ EndedIsGone /\ LastOwed /\ SpentKnown
  /\ PlanStages /\ EndSettled /\ Held

-----------------------------------------------------------------------------
(* What the chain keeps, and what is owed on it.                           *)

Grows ==
  /\ Len(ring) \in Nat /\ Len(ring') \in Nat /\ Len(ring) <= Len(ring')
  /\ \A i \in 1 .. Len(ring) : ring'[i] = ring[i]

Linked(l) ==
  /\ Len(ring) \in Nat /\ Len(ring') = Len(ring) + 1
  /\ \A i \in 1 .. Len(ring) : ring'[i] = ring[i]
  /\ ring'[Len(ring) + 1] = l

LinkedTwo(k, l) ==
  /\ Len(ring) \in Nat /\ Len(ring') = Len(ring) + 2
  /\ \A i \in 1 .. Len(ring) : ring'[i] = ring[i]
  /\ ring'[Len(ring) + 1] = k /\ ring'[Len(ring) + 2] = l

(* One link behind the chain.                                              *)
LEMMA LinkedOne ==
  ASSUME IInv, NEW l, ring' = ring \o <<l>> PROVE Linked(l)
<1>1. PICK S : ring \in Seq(S)
  BY DEF IInv, Shapes
<1>2. /\ \E U : ring \o <<l>> \in Seq(U)
      /\ Len(ring) \in Nat /\ Len(ring \o <<l>>) = Len(ring) + 1
      /\ \A i \in 1 .. Len(ring) : (ring \o <<l>>)[i] = ring[i]
      /\ (ring \o <<l>>)[Len(ring) + 1] = l
  BY <1>1, OneMore
<1>3. QED BY <1>2, Zenon DEF Linked

(* Any more links.                                                         *)
LEMMA LinkedMore ==
  ASSUME IInv, NEW T, NEW more \in Seq(T), ring' = ring \o more
  PROVE  /\ Len(ring) \in Nat /\ Len(more) \in Nat /\ Len(ring') = Len(ring) + Len(more)
         /\ \A i \in 1 .. Len(ring) : ring'[i] = ring[i]
         /\ \A i \in 1 .. Len(more) : ring'[Len(ring) + i] = more[i]
<1>1. PICK S : ring \in Seq(S)
  BY DEF IInv, Shapes
<1>2. QED BY <1>1, Extended

(* Two of them.                                                            *)
LEMMA LinkedBoth ==
  ASSUME IInv, NEW k, NEW l, ring' = ring \o (<<k>> \o <<l>>) PROVE LinkedTwo(k, l)
<1>1. PICK S : ring \in Seq(S)
  BY DEF IInv, Shapes
<1> DEFINE more == <<k>> \o <<l>>
<1>2. more \in Seq({k, l}) /\ Len(more) = 2 /\ more[1] = k /\ more[2] = l
  OBVIOUS
<1>3. ring' = ring \o more
  OBVIOUS
<1> HIDE DEF more
<1>4. /\ Len(ring) \in Nat /\ Len(more) \in Nat /\ Len(ring') = Len(ring) + Len(more)
      /\ \A i \in 1 .. Len(ring) : ring'[i] = ring[i]
      /\ \A i \in 1 .. Len(more) : ring'[Len(ring) + i] = more[i]
  BY <1>2, <1>3, LinkedMore
<1>5. /\ Len(ring) \in Nat /\ Len(ring') = Len(ring) + 2
      /\ \A i \in 1 .. Len(ring) : ring'[i] = ring[i]
      /\ \A i \in 1 .. 2 : ring'[Len(ring) + i] = more[i]
  BY <1>2, <1>4
<1>6. QED BY <1>2, <1>5 DEF LinkedTwo

(* The chain's length is a number.                                         *)
LEMMA ChainIsFinite == IInv => Len(ring) \in Nat
BY DEF IInv, Shapes

(* Each of them is a chain that grows.                                     *)
LEMMA ChainGrows ==
  ASSUME IInv, ring' = ring \/ (\E l : Linked(l)) \/ (\E k, l : LinkedTwo(k, l)) PROVE Grows
<1>1. CASE ring' = ring
  BY <1>1, ChainIsFinite DEF Grows
<1>2. CASE \E l : Linked(l)
  BY <1>2 DEF Grows, Linked
<1>3. CASE \E k, l : LinkedTwo(k, l)
  BY <1>3 DEF Grows, LinkedTwo
<1>4. QED BY <1>1, <1>2, <1>3

(* A use is owed until its receipt.                                        *)
LEMMA OwedMeans ==
  ASSUME IInv
  PROVE  \A n : n \in Owed <=> IsUse(n) /\ \A j \in 1 .. Len(ring) : ~IsReceipt(j, n)
BY ChainIsFinite DEF Owed, OwedAt, IsUse

(* The same of the next state.                                             *)
LEMMA OwedMeansNext ==
  ASSUME IInv'
  PROVE  \A n : n \in Owed' <=> IsUse(n)' /\ \A j \in 1 .. Len(ring') : ~IsReceipt(j, n)'
<1>1. Len(ring') \in Nat
  BY DEF IInv, Shapes
<1>2. QED BY <1>1 DEF Owed, OwedAt, IsUse, IsReceipt

(* What was linked is linked, what was receipted stays so.                 *)
LEMMA PastStays ==
  ASSUME IInv, IInv', Grows
  PROVE  /\ \A n : IsUse(n) => IsUse(n)' /\ ring'[n] = ring[n]
         /\ \A n \in 1 .. Len(ring) : n \notin Owed => n \notin Owed'
         /\ \A n \in 1 .. Len(ring) : IsUse(n)' => IsUse(n)
<1>1. \A n : IsUse(n) => IsUse(n)' /\ ring'[n] = ring[n]
  BY DEF Grows, IsUse
<1>2. \A n \in 1 .. Len(ring) : IsUse(n)' => IsUse(n)
  BY DEF Grows, IsUse
<1>3. ASSUME NEW n \in 1 .. Len(ring), n \in Owed' PROVE n \in Owed
  <2>1. IsUse(n)
    BY <1>2, <1>3, OwedMeansNext
  <2>2. \A j \in 1 .. Len(ring) : IsReceipt(j, n) => j \in 1 .. Len(ring') /\ IsReceipt(j, n)'
    BY DEF Grows, IsReceipt
  <2>3. QED BY <1>3, <2>1, <2>2, OwedMeans, OwedMeansNext
<1>4. QED BY <1>1, <1>2, <1>3

(* With no use linked and no receipt, what is owed stays as it is.         *)
LEMMA OwedStays ==
  ASSUME IInv, IInv', Grows,
         \A i \in 1 .. Len(ring') : i \notin 1 .. Len(ring) => ring'[i].op \notin {"use", "receipt"}
  PROVE  Owed' = Owed
<1>1. \A n : IsUse(n)' => IsUse(n)
  BY PastStays DEF IsUse
<1>2. \A j \in 1 .. Len(ring'), n \in 1 .. Len(ring) : IsReceipt(j, n)' => j \in 1 .. Len(ring) /\ IsReceipt(j, n)
  BY DEF Grows, IsReceipt
<1>3. \A n : n \in Owed => n \in Owed'
  BY <1>2, PastStays, OwedMeans, OwedMeansNext DEF IsUse
<1>4. \A n : n \in Owed' => n \in Owed
  BY <1>1, PastStays, OwedMeansNext DEF IsUse
<1>5. QED BY <1>3, <1>4

-----------------------------------------------------------------------------
(* The steps of a budget.                                                  *)

UsesUpTo(b, i) == {n \in 1 .. i : ring[n].op = "use" /\ ring[n].of = b}

(* They are counted.                                                       *)
LEMMA StepsAreCounted ==
  ASSUME NEW b, NEW i \in Nat
  PROVE  IsFiniteSet(UsesUpTo(b, i)) /\ SpentAt(b, i) = Cardinality(UsesUpTo(b, i)) /\ SpentAt(b, i) \in Nat
<1>1. IsFiniteSet(1 .. i)
  BY FS_Interval
<1>2. IsFiniteSet(UsesUpTo(b, i))
  BY <1>1, FS_Subset DEF UsesUpTo
<1>3. SpentAt(b, i) = Cardinality(UsesUpTo(b, i))
  BY DEF SpentAt, UsesUpTo
<1>4. QED BY <1>2, <1>3, FS_CardinalityType

(* A use's step is among its budget's.                                     *)
LEMMA StepsGoUp ==
  ASSUME NEW b, NEW i \in Nat, NEW j \in Nat, i <= j PROVE SpentAt(b, i) <= SpentAt(b, j)
<1>1. UsesUpTo(b, i) \subseteq UsesUpTo(b, j)
  BY DEF UsesUpTo
<1>2. QED BY <1>1, StepsAreCounted, FS_Subset

(* Links behind do not change them.                                        *)
LEMMA StepsStay ==
  ASSUME Grows, NEW b, NEW i \in 0 .. Len(ring) PROVE SpentAt(b, i)' = SpentAt(b, i)
<1>1. {n \in 1 .. i : ring'[n].op = "use" /\ ring'[n].of = b} = {n \in 1 .. i : ring[n].op = "use" /\ ring[n].of = b}
  BY DEF Grows
<1>2. QED BY <1>1, Zenon DEF SpentAt

(* The same of the step of one use.                                        *)
LEMMA StepOfStays ==
  ASSUME Grows, NEW n \in 1 .. Len(ring) PROVE StepOf(n)' = StepOf(n)
<1>1. {m \in 1 .. n : ring'[m].op = "use" /\ ring'[m].of = ring'[n].of}
        = {m \in 1 .. n : ring[m].op = "use" /\ ring[m].of = ring[n].of}
  BY DEF Grows
<1>2. QED BY <1>1, Zenon DEF StepOf, SpentAt

(* Links that are no uses count for no budget.                             *)
LEMMA SpentStays ==
  ASSUME Grows, NEW b,
         \A i \in 1 .. Len(ring') : i \notin 1 .. Len(ring) => ~(ring'[i].op = "use" /\ ring'[i].of = b)
  PROVE  SpentOf(b)' = SpentOf(b)
<1>1. {n \in 1 .. Len(ring') : ring'[n].op = "use" /\ ring'[n].of = b}
        = {n \in 1 .. Len(ring) : ring[n].op = "use" /\ ring[n].of = b}
  BY DEF Grows
<1>2. QED BY <1>1, Zenon DEF SpentOf, SpentAt

(* A use counts once for its own.                                          *)
LEMMA SpentOnce ==
  ASSUME NEW l, Linked(l), l.op = "use"
  PROVE  SpentOf(l.of)' = SpentOf(l.of) + 1 /\ SpentOf(l.of) \in Nat
<1> DEFINE b == l.of
           new == {n \in 1 .. Len(ring) + 1 : ring'[n].op = "use" /\ ring'[n].of = b}
<1>1. Len(ring) \in Nat /\ Len(ring') = Len(ring) + 1
  BY DEF Linked
<1>2. new = UsesUpTo(b, Len(ring)) \cup {Len(ring) + 1}
  BY <1>1 DEF Linked, UsesUpTo
<1>3. Len(ring) + 1 \notin UsesUpTo(b, Len(ring))
  BY <1>1 DEF UsesUpTo
<1>4. IsFiniteSet(UsesUpTo(b, Len(ring))) /\ SpentOf(b) = Cardinality(UsesUpTo(b, Len(ring))) /\ SpentOf(b) \in Nat
  BY <1>1, StepsAreCounted DEF SpentOf
<1>5. Cardinality(new) = SpentOf(b) + 1
  BY <1>2, <1>3, <1>4, FS_AddElement
<1>6. SpentOf(l.of)' = Cardinality(new)
  BY <1>1 DEF SpentOf, SpentAt
<1>7. QED BY <1>4, <1>5, <1>6

-----------------------------------------------------------------------------
(* What a step does to the chain: nothing that counts, a receipt, a use.   *)

GoodLink(l) ==
  /\ l.op \in {"open", "use", "receipt", "end", "other"}
  /\ l.by \in {"service", "plan", "continue", "end", "key", "other"}
  /\ l.op = "use" => l.sign \in Signs
  /\ l.op \in {"use", "end"} => l.of \in 1 .. Len(ring) /\ ring[l.of].op = "open"
  /\ l.op = "receipt" => l.of \in 1 .. Len(ring) /\ ring[l.of].op = "use"

NothingPaid ==
  /\ Grows /\ LinksOf'
  /\ \A n : IsUse(n)' => IsUse(n)
  /\ \A b : SpentOf(b)' = SpentOf(b)

Plain == NothingPaid /\ Owed' = Owed
Receipted(n) == NothingPaid /\ Owed' = Owed \ {n}

(* Good links make a good chain.                                           *)
LEMMA GoodChain ==
  ASSUME LinksOf, Grows, \A i \in 1 .. Len(ring') : i \notin 1 .. Len(ring) => GoodLink(ring'[i])
  PROVE  LinksOf'
<1> SUFFICES ASSUME NEW i \in 1 .. Len(ring') PROVE LinkOf(i)'
  BY DEF LinksOf
<1>1. CASE i \in 1 .. Len(ring)
  BY <1>1 DEF LinksOf, LinkOf, Grows
<1>2. CASE i \notin 1 .. Len(ring)
  BY <1>2 DEF GoodLink, LinkOf, Grows
<1>3. QED BY <1>1, <1>2

(* A step that leaves the chain alone.                                     *)
LEMMA NoLink ==
  ASSUME IInv, IInv', LinksOf, ring' = ring PROVE Plain
<1>1. Grows
  BY ChainGrows
<1>2. LinksOf'
  BY <1>1, GoodChain
<1>3. \A b : SpentOf(b)' = SpentOf(b)
  BY <1>1, SpentStays
<1>4. Owed' = Owed
  BY <1>1, OwedStays
<1>5. QED BY <1>1, <1>2, <1>3, <1>4 DEF Plain, NothingPaid, IsUse

(* An opening, an end or a link of another.                                *)
LEMMA PlainLink ==
  ASSUME IInv, IInv', LinksOf, NEW l, Linked(l), GoodLink(l), l.op \in {"open", "end", "other"}
  PROVE  Plain
<1>1. Grows
  BY ChainGrows
<1>2. \A i \in 1 .. Len(ring') : i \notin 1 .. Len(ring) => ring'[i] = l
  BY DEF Linked
<1>3. LinksOf'
  BY <1>1, <1>2, GoodChain
<1>4. \A b : SpentOf(b)' = SpentOf(b)
  BY <1>1, <1>2, SpentStays
<1>5. Owed' = Owed
  BY <1>1, <1>2, OwedStays
<1>6. \A n : IsUse(n)' => IsUse(n)
  BY <1>1, <1>2 DEF IsUse, Grows
<1>7. QED BY <1>1, <1>3, <1>4, <1>5, <1>6 DEF Plain, NothingPaid

(* A receipt, and no other with it.                                        *)
LEMMA ReceiptPaysOff ==
  ASSUME IInv, IInv', Grows, NEW n \in 1 .. Len(ring),
         \E j \in 1 .. Len(ring') : IsReceipt(j, n)',
         \A i \in 1 .. Len(ring') : i \notin 1 .. Len(ring) =>
            ring'[i].op # "use" /\ (ring'[i].op = "receipt" => ring'[i].of = n)
  PROVE  Owed' = Owed \ {n}
<1>1. \A m : m \in Owed' => m \in Owed /\ m # n
  <2> SUFFICES ASSUME NEW m, m \in Owed' PROVE m \in Owed /\ m # n
    OBVIOUS
  <2>1. IsUse(m)' /\ m # n
    BY OwedMeansNext
  <2>2. m \in 1 .. Len(ring)
    BY <2>1 DEF IsUse
  <2>3. QED BY <2>1, <2>2, PastStays
<1>2. \A m : m \in Owed /\ m # n => m \in Owed'
  <2> SUFFICES ASSUME NEW m, m \in Owed, m # n PROVE m \in Owed'
    OBVIOUS
  <2>1. IsUse(m)' /\ \A j \in 1 .. Len(ring) : ~IsReceipt(j, m)
    BY OwedMeans, PastStays
  <2>2. \A j \in 1 .. Len(ring') : ~IsReceipt(j, m)'
    BY <2>1 DEF IsReceipt, Grows
  <2>3. QED BY <2>1, <2>2, OwedMeansNext
<1>3. QED BY <1>1, <1>2

(* A receipt, with or without the end the key puts behind it.              *)
LEMMA ReceiptLinks ==
  ASSUME IInv, IInv', LinksOf, NEW k, GoodLink(k), k.op = "receipt",
         \/ Linked(k)
         \/ \E l : LinkedTwo(k, l) /\ GoodLink(l) /\ l.op = "end"
  PROVE  Receipted(k.of)
<1>1. Grows
  BY ChainGrows
<1>2. \A i \in 1 .. Len(ring') : i \notin 1 .. Len(ring) =>
         GoodLink(ring'[i]) /\ (ring'[i] = k \/ ring'[i].op = "end")
  BY DEF Linked, LinkedTwo
<1>3. ring'[Len(ring) + 1] = k /\ Len(ring) + 1 \in 1 .. Len(ring')
  BY <1>1 DEF Linked, LinkedTwo
<1>4. LinksOf'
  BY <1>1, <1>2, GoodChain
<1>5. \A b : SpentOf(b)' = SpentOf(b)
  BY <1>1, <1>2, SpentStays
<1>6. k.of \in 1 .. Len(ring)
  BY DEF GoodLink
<1>7. Owed' = Owed \ {k.of}
  <2>1. \E j \in 1 .. Len(ring') : IsReceipt(j, k.of)'
    BY <1>3 DEF IsReceipt
  <2>2. \A i \in 1 .. Len(ring') : i \notin 1 .. Len(ring) =>
            ring'[i].op # "use" /\ (ring'[i].op = "receipt" => ring'[i].of = k.of)
    BY <1>2
  <2>3. QED BY <1>1, <1>6, <2>1, <2>2, ReceiptPaysOff
<1>8. \A n : IsUse(n)' => IsUse(n)
  BY <1>1, <1>2 DEF IsUse, Grows
<1>9. QED BY <1>1, <1>4, <1>5, <1>7, <1>8 DEF Receipted, NothingPaid

(* A use.                                                                  *)
LEMMA UseLinks ==
  ASSUME IInv, IInv', LinksOf, NEW l, Linked(l), GoodLink(l), l.op = "use",
         NEW new, new = Len(ring) + 1
  PROVE  /\ Grows /\ LinksOf'
         /\ Owed' = Owed \cup {new}
         /\ \A n : IsUse(n)' => IsUse(n) \/ n = new
         /\ SpentOf(l.of)' = SpentOf(l.of) + 1 /\ SpentOf(l.of) \in Nat
         /\ \A b : b # l.of => SpentOf(b)' = SpentOf(b)
         /\ StepOf(new)' = SpentOf(l.of)'
<1>1. Grows
  BY ChainGrows
<1>2. \A i \in 1 .. Len(ring') : i \notin 1 .. Len(ring) => ring'[i] = l
  BY DEF Linked
<1>3. LinksOf'
  BY <1>1, <1>2, GoodChain
<1>4. IsUse(new)' /\ \A n : IsUse(n)' => IsUse(n) \/ n = new
  BY <1>1, <1>2 DEF IsUse, Linked
<1>5. \A m : m \in Owed => m \in Owed'
  <2> SUFFICES ASSUME NEW m, m \in Owed PROVE m \in Owed'
    OBVIOUS
  <2>1. IsUse(m)' /\ \A j \in 1 .. Len(ring) : ~IsReceipt(j, m)
    BY <1>1, OwedMeans, PastStays
  <2>2. \A j \in 1 .. Len(ring') : ~IsReceipt(j, m)'
    BY <1>1, <1>2, <2>1 DEF IsReceipt, Grows
  <2>3. QED BY <2>1, <2>2, OwedMeansNext
<1>6. new \in Owed'
  <2>1. \A j \in 1 .. Len(ring') : ~IsReceipt(j, new)'
    <3> SUFFICES ASSUME NEW j \in 1 .. Len(ring') PROVE ~(ring'[j].op = "receipt" /\ ring'[j].of = new)
      BY DEF IsReceipt, Linked
    <3>1. CASE j \in 1 .. Len(ring)
      BY <1>1, <3>1 DEF LinksOf, LinkOf, Grows
    <3>2. CASE j \notin 1 .. Len(ring)
      BY <1>2, <3>2
    <3>3. QED BY <3>1, <3>2
  <2>2. QED BY <1>4, <2>1, OwedMeansNext
<1>7. \A m : m \in Owed' => m \in Owed \/ m = new
  BY <1>1, <1>4, PastStays, OwedMeansNext DEF IsUse
<1>8. \A b : b # l.of => SpentOf(b)' = SpentOf(b)
  BY <1>1, <1>2, SpentStays
<1>9. SpentOf(l.of)' = SpentOf(l.of) + 1 /\ SpentOf(l.of) \in Nat
  BY SpentOnce
<1>10. StepOf(new)' = SpentOf(l.of)'
  BY DEF StepOf, SpentOf, Linked
<1>11. QED BY <1>1, <1>3, <1>4, <1>5, <1>6, <1>7, <1>8, <1>9, <1>10

-----------------------------------------------------------------------------
(* What each assignment of the model does, point by point.                 *)

Entered(b, o, e, n) ==
  /\ DOMAIN book' = DOMAIN book /\ BookShape'
  /\ \A c \in DOMAIN book : c # b => book'[c] = book[c]
  /\ book'[b].owed = o /\ book'[b].ended = e /\ book'[b].spent = n

(* One record of the book is replaced.                                     *)
LEMMA EntryReplaced ==
  ASSUME BookShape, NEW b \in DOMAIN book, NEW o, NEW e, NEW n,
         book' = [book EXCEPT ![b] = [owed |-> o, ended |-> e, spent |-> n]]
  PROVE  Entered(b, o, e, n)
BY DEF BookShape, Entered

(* A use is noted in its sign's budget.                                    *)
LEMMA NotesIt ==
  ASSUME BookShape, NEW s, NEW n, sign[s].with \in DOMAIN book, Notes(s, n)
  PROVE  Entered(sign[s].with, book[sign[s].with].owed \cup {n}, book[sign[s].with].ended,
                 IF ring[n].of = sign[s].with /\ StepOf(n) > book[sign[s].with].spent
                 THEN StepOf(n) ELSE book[sign[s].with].spent)
<1> DEFINE b == sign[s].with
           old == book[b]
           spent == IF ring[n].of = b /\ StepOf(n) > old.spent THEN StepOf(n) ELSE old.spent
           owed == old.owed \cup {n}
           mid == [old EXCEPT !.owed = owed]
           one == [mid EXCEPT !.spent = spent]
<1>1. old = [owed |-> old.owed, ended |-> old.ended, spent |-> old.spent]
  BY DEF BookShape
<1>2. book' = [book EXCEPT ![b] = [book[b] EXCEPT !.owed = owed, !.spent = spent]]
  BY DEF Notes
<1>3. [book[b] EXCEPT !.owed = owed, !.spent = spent] = one
  OBVIOUS
<1>4. one = [owed |-> owed, ended |-> old.ended, spent |-> spent]
  <2> HIDE DEF owed, spent, old
  <2>1. mid = [owed |-> owed, ended |-> old.ended, spent |-> old.spent]
    BY <1>1
  <2> HIDE DEF mid
  <2>2. QED BY <2>1
<1> HIDE DEF one, owed, spent
<1>5. book' = [book EXCEPT ![b] = [owed |-> owed, ended |-> old.ended, spent |-> spent]]
  BY <1>2, <1>3, <1>4, Zenon
<1>6. b \in DOMAIN book
  OBVIOUS
<1>7. Entered(b, owed, old.ended, spent)
  BY <1>5, <1>6, EntryReplaced
<1>8. QED BY <1>7, Zenon DEF owed, spent

(* A budget is taken for ended.                                            *)
LEMMA EndsIt ==
  ASSUME BookShape, NEW b \in DOMAIN book, book' = [book EXCEPT ![b].ended = TRUE]
  PROVE  Entered(b, book[b].owed, TRUE, book[b].spent)
<1> DEFINE old == book[b]
           yes == TRUE
<1>1. old = [owed |-> old.owed, ended |-> old.ended, spent |-> old.spent]
  BY DEF BookShape
<1>2. book' = [book EXCEPT ![b] = [old EXCEPT !.ended = yes]]
  OBVIOUS
<1>3. [old EXCEPT !.ended = yes] = [owed |-> old.owed, ended |-> yes, spent |-> old.spent]
  <2> HIDE DEF old, yes
  <2>1. QED BY <1>1
<1>4. book' = [book EXCEPT ![b] = [owed |-> old.owed, ended |-> yes, spent |-> old.spent]]
  BY <1>2, <1>3, Zenon
<1>5. Entered(b, old.owed, yes, old.spent)
  <2> HIDE DEF yes
  <2>1. QED BY <1>4, EntryReplaced
<1>6. QED BY <1>5, Zenon

(* A receipt is filed in a budget.                                         *)
LEMMA FilesIt ==
  ASSUME BookShape, NEW w, filing[w].with \in DOMAIN book, filing[w].with # 0, Filed(w)
  PROVE  Entered(filing[w].with, book[filing[w].with].owed \ {filing[w].of},
                 book[filing[w].with].ended
                   \/ (book[filing[w].with].owed \ {filing[w].of} = {} /\ book[filing[w].with].spent >= Uses),
                 book[filing[w].with].spent)
<1> DEFINE b == filing[w].with
           old == book[b]
           owed == old.owed \ {filing[w].of}
           ended == old.ended \/ (owed = {} /\ book[b].spent >= Uses)
           mid == [old EXCEPT !.owed = owed]
           one == [mid EXCEPT !.ended = ended]
<1>1. old = [owed |-> old.owed, ended |-> old.ended, spent |-> old.spent]
  BY DEF BookShape
<1>2. book' = [book EXCEPT ![b] = [book[b] EXCEPT !.owed = owed, !.ended = ended]]
  BY DEF Filed
<1>3. [book[b] EXCEPT !.owed = owed, !.ended = ended] = one
  OBVIOUS
<1>4. one = [owed |-> owed, ended |-> ended, spent |-> old.spent]
  <2> HIDE DEF owed, ended, old
  <2>1. mid = [owed |-> owed, ended |-> old.ended, spent |-> old.spent]
    BY <1>1
  <2> HIDE DEF mid
  <2>2. QED BY <2>1
<1> HIDE DEF one, owed, ended
<1>5. book' = [book EXCEPT ![b] = [owed |-> owed, ended |-> ended, spent |-> old.spent]]
  BY <1>2, <1>3, <1>4, Zenon
<1>6. Entered(b, owed, ended, old.spent)
  BY <1>5, EntryReplaced
<1>7. QED BY <1>6, Zenon DEF owed, ended

(* A stage of a sign.                                                      *)
LEMMA GoesTo ==
  ASSUME IInv, NEW s \in Signs, NEW at, To(s, at)
  PROVE  /\ \A t \in Signs : t # s => sign'[t] = sign[t]
         /\ sign'[s].at = at /\ sign'[s].with = sign[s].with /\ sign'[s].before = sign[s].before
BY DEF IInv, Shapes, To

(* A request, or a plan, goes on.                                          *)
LEMMA AsksFor ==
  ASSUME AskingShape, NEW k \in Kinds, NEW at, NEW of, Asked(k, at, of)
  PROVE  /\ AskingShape'
         /\ \A j \in Kinds : j # k => asking'[j] = asking[j]
         /\ asking'[k].at = at /\ asking'[k].of = of
BY DEF Asked, AskingShape

(* A filing is set.                                                        *)
LEMMA FilingSet ==
  ASSUME FilingShape, NEW w \in {"agent", "plan"}, NEW at, NEW of, NEW with,
         filing' = [filing EXCEPT ![w] = [at |-> at, of |-> of, with |-> with]]
  PROVE  /\ FilingShape'
         /\ \A v \in {"agent", "plan"} : v # w => filing'[v] = filing[v]
         /\ filing'[w] = [at |-> at, of |-> of, with |-> with]
BY DEF FilingShape

(* A filing goes on.                                                       *)
LEMMA FilingGoesOn ==
  ASSUME FilingShape, NEW w \in {"agent", "plan"}, NEW at, Then(w, at)
  PROVE  /\ FilingShape'
         /\ \A v \in {"agent", "plan"} : v # w => filing'[v] = filing[v]
         /\ filing'[w] = [at |-> at, of |-> filing[w].of, with |-> filing[w].with]
<1> DEFINE old == filing[w]
<1>1. old = [at |-> old.at, of |-> old.of, with |-> old.with]
  BY DEF FilingShape
<1>2. filing' = [filing EXCEPT ![w] = [old EXCEPT !.at = at]]
  BY DEF Then
<1>3. [old EXCEPT !.at = at] = [at |-> at, of |-> old.of, with |-> old.with]
  <2> HIDE DEF old
  <2>1. QED BY <1>1
<1>4. filing' = [filing EXCEPT ![w] = [at |-> at, of |-> old.of, with |-> old.with]]
  BY <1>2, <1>3, Zenon
<1> DEFINE of == old.of
           with == old.with
<1>5. filing' = [filing EXCEPT ![w] = [at |-> at, of |-> of, with |-> with]]
  BY <1>4, Zenon
<1>6. /\ FilingShape'
      /\ \A v \in {"agent", "plan"} : v # w => filing'[v] = filing[v]
      /\ filing'[w] = [at |-> at, of |-> of, with |-> with]
  <2> HIDE DEF of, with
  <2>1. QED BY <1>5 DEF FilingShape
<1>7. QED BY <1>6, Zenon

(* An answer is heard, or one more is lost.                                *)
LEMMA HeardOrLost ==
  ASSUME Faults, NEW how, Heard(how)
  PROVE  /\ Faults'
         /\ how = "answered" => faults' = faults
         /\ how # "answered" => faults'.lost = faults.lost + 1
         /\ faults'.lost >= faults.lost
<1>1. CASE how = "answered"
  BY <1>1 DEF Heard, Faults
<1>2. CASE how # "answered"
  <2>1. faults.lost < MaxLost /\ faults' = [faults EXCEPT !.lost = faults.lost + 1]
    BY <1>2 DEF Heard
  <2> DEFINE more == faults.lost + 1
  <2>2. faults' = [lost |-> more, others |-> faults.others, locked |-> faults.locked]
    <3> HIDE DEF more
    <3>1. faults' = [faults EXCEPT !.lost = more]
      BY <2>1 DEF more
    <3>2. QED BY <3>1 DEF Faults
  <2>3. QED BY <1>2, <2>1, <2>2, BudgetAssumption DEF Faults
<1>3. QED BY <1>1, <1>2

-----------------------------------------------------------------------------
(* What the actions do to the chain.                                       *)

(* A grant opens a budget on the chain.                                    *)
LEMMA GrantLinks ==
  ASSUME IInv, IInv', LinksOf, NEW k \in Kinds, PhoneGrants(k)
  PROVE  /\ Plain
         /\ Owed = {} => Linked(Open(OwnerOf(k)))
<1>1. CASE Owed = {}
  <2>1. ring' = ring \o <<Open(OwnerOf(k))>>
    BY <1>1 DEF PhoneGrants, Links, OwnerOf
  <2>2. Linked(Open(OwnerOf(k)))
    BY <2>1, LinkedOne
  <2>3. GoodLink(Open(OwnerOf(k))) /\ Open(OwnerOf(k)).op = "open"
    BY DEF GoodLink, Open, Link, OwnerOf
  <2>4. QED BY <2>2, <2>3, PlainLink
<1>2. CASE Owed # {}
  BY <1>2, NoLink DEF PhoneGrants
<1>3. QED BY <1>1, <1>2

(* An end is linked behind a budget that lives.                            *)
LEMMA RevokeLinks ==
  ASSUME IInv, IInv', LinksOf, NEW b, IsOpen(b), NEW by \in {"continue", "end"}, Revokes(b, by)
  PROVE  Plain /\ live' = live \ {b} /\ (ring' = ring \/ Linked(End(b, by)))
<1>1. CASE b \in live
  <2>1. ring' = ring \o <<End(b, by)>>
    BY <1>1 DEF Revokes, Links
  <2>2. Linked(End(b, by))
    BY <2>1, LinkedOne
  <2>3. GoodLink(End(b, by)) /\ End(b, by).op = "end"
    BY DEF GoodLink, End, Link, IsOpen
  <2>4. QED BY <2>2, <2>3, PlainLink DEF Revokes
<1>2. CASE b \notin live
  BY <1>2, NoLink DEF Revokes
<1>3. QED BY <1>1, <1>2

(* A link of another.                                                      *)
LEMMA OtherIsPlain ==
  ASSUME IInv, IInv', LinksOf, OtherLinks PROVE Plain
<1>1. Linked(Other)
  BY LinkedOne DEF OtherLinks, Links
<1>2. GoodLink(Other) /\ Other.op = "other"
  BY DEF GoodLink, Other, Link
<1>3. QED BY <1>1, <1>2, PlainLink

EndsLast(n) == ring[n].of \in live /\ SpentOf(ring[n].of) = Uses

(* A receipt is taken; behind a budget's last the key ends it.             *)
LEMMA ReceiptTaken ==
  ASSUME IInv, IInv', LinksOf, NEW n \in Owed,
         Links(<<Receipt(n)>> \o IF EndsLast(n) THEN <<End(ring[n].of, "key")>> ELSE <<>>)
  PROVE  /\ Receipted(n)
         /\ \/ Linked(Receipt(n)) /\ ~EndsLast(n)
            \/ LinkedTwo(Receipt(n), End(ring[n].of, "key")) /\ EndsLast(n)
<1> DEFINE end == End(ring[n].of, "key")
           receipt == Receipt(n)
<1>1. IsUse(n)
  BY OwedMeans
<1>2. LinkOf(n)
  BY <1>1 DEF LinksOf, IsUse
<1>3. GoodLink(receipt) /\ receipt.op = "receipt" /\ receipt.of = n
  BY <1>1 DEF GoodLink, Receipt, Link, IsUse
<1>4. GoodLink(end) /\ end.op = "end"
  BY <1>1, <1>2, ChainIsFinite DEF GoodLink, End, Link, IsUse, LinkOf
<1>5. ring' = ring \o (<<receipt>> \o IF EndsLast(n) THEN <<end>> ELSE <<>>)
  BY DEF Links
<1> HIDE DEF receipt, end
<1>6. CASE EndsLast(n)
  <2>1. ring' = ring \o (<<receipt>> \o <<end>>)
    BY <1>5, <1>6
  <2>2. LinkedTwo(receipt, end)
    BY <2>1, LinkedBoth
  <2>3. Receipted(n)
    BY <1>3, <1>4, <2>2, ReceiptLinks
  <2>4. QED BY <1>6, <2>2, <2>3 DEF receipt, end
<1>7. CASE ~EndsLast(n)
  <2>1. <<receipt>> \in Seq({receipt}) /\ <<receipt>> \o <<>> = <<receipt>>
    OBVIOUS
  <2>2. ring' = ring \o <<receipt>>
    BY <1>5, <1>7, <2>1, Zenon
  <2>3. Linked(receipt)
    BY <2>2, LinkedOne
  <2>4. Receipted(n)
    BY <1>3, <2>3, ReceiptLinks
  <2>5. QED BY <1>7, <2>3, <2>4 DEF receipt
<1>8. QED BY <1>6, <1>7

(* A receipt is sent, and taken or not.                                    *)
LEMMA ReceiptStep ==
  ASSUME IInv, IInv', LinksOf, NEW w \in {"agent", "plan"}, FileReceipt(w), NEW n, n = filing[w].of
  PROVE  \/ Plain /\ ring' = ring /\ live' = live
         \/ /\ n \in Owed /\ Receipted(n)
            /\ live' = IF EndsLast(n) THEN live \ {ring[n].of} ELSE live
            /\ \/ Linked(Receipt(n)) /\ ~EndsLast(n)
               \/ LinkedTwo(Receipt(n), End(ring[n].of, "key")) /\ EndsLast(n)
<1>1. \/ UNCHANGED <<ring, live>>
      \/ /\ n \in Owed
         /\ Links(<<Receipt(n)>> \o IF EndsLast(n) THEN <<End(ring[n].of, "key")>> ELSE <<>>)
         /\ live' = IF EndsLast(n) THEN live \ {ring[n].of} ELSE live
  BY DEF FileReceipt, EndsLast
<1>2. CASE UNCHANGED <<ring, live>>
  BY <1>2, NoLink
<1>3. QED BY <1>1, <1>2, ReceiptTaken, Zenon

(* A use is paid by a budget with uses left, of its party.                 *)
LEMMA PaidLinks ==
  ASSUME IInv, IInv', LinksOf, BudgetsOf, Starts, NEW s \in Signs, SignPaid(s), NEW n, n = Len(ring) + 1
  PROVE  \E b \in Payers(s) :
           /\ Linked(Use(s, b)) /\ Grows /\ LinksOf'
           /\ ring'[n] = Use(s, b) /\ n = sign[s].before + 1
           /\ Owed = {} /\ Owed' = {n}
           /\ \A m : IsUse(m)' => IsUse(m) \/ m = n
           /\ SpentOf(b)' = SpentOf(b) + 1 /\ SpentOf(b) \in Nat
           /\ \A c : c # b => SpentOf(c)' = SpentOf(c)
           /\ StepOf(n)' = SpentOf(b)'
<1>1. PICK b \in Payers(s) : ring' = ring \o <<Use(s, b)>>
  BY DEF SignPaid, Links
<1> DEFINE l == Use(s, b)
<1>2. Linked(l)
  BY <1>1, LinkedOne
<1>3. GoodLink(l) /\ l.op = "use" /\ l.of = b
  BY DEF GoodLink, Use, Link, Party, Payers, BudgetsOf, IsOpen
<1>4. Owed = {} /\ n = sign[s].before + 1
  <2>1. Owed = {} /\ [by |-> s, over |-> Len(ring)] \in started
    BY DEF SignPaid, Matches
  <2>2. sign[s].before = Len(ring)
    BY <2>1 DEF Starts
  <2>3. QED BY <2>1, <2>2
<1>5. ring'[n] = l
  BY <1>2 DEF Linked
<1> HIDE DEF l
<1>6. /\ Grows /\ LinksOf'
      /\ Owed' = Owed \cup {n}
      /\ \A m : IsUse(m)' => IsUse(m) \/ m = n
      /\ SpentOf(l.of)' = SpentOf(l.of) + 1 /\ SpentOf(l.of) \in Nat
      /\ \A c : c # l.of => SpentOf(c)' = SpentOf(c)
      /\ StepOf(n)' = SpentOf(l.of)'
  BY <1>2, <1>3, UseLinks
<1>7. QED BY <1>2, <1>3, <1>4, <1>5, <1>6, Zenon DEF l

-----------------------------------------------------------------------------
(* Filing: how a call about a receipt ends.                                *)

FilingStep(w) ==
  /\ UNCHANGED <<budget, sign, exec, crossed>>
  /\ \/ Filed(w) /\ filing[w].of \notin Owed'
     \/ /\ filing[w].at = "file" /\ filing[w].with # 0
        /\ \/ Then(w, "newest") /\ faults'.lost >= 1
           \/ Then(w, "head") /\ filing[w].of \notin Owed'
     \/ /\ NotFiled(w)
        /\ \/ filing[w].at = "newest" \/ faults'.lost >= 1
           \/ filing[w].at = "file" /\ (filing[w].with = 0 \/ filing[w].of \notin book[filing[w].with].owed)

Taken(how, n) == how # "unheard" /\ n \in Owed

(* A receipt is sent.                                                      *)
LEMMA FilesOrAsks ==
  ASSUME IInv, IInv', LinksOf, Faults, NEW w \in {"agent", "plan"}, FileReceipt(w)
  PROVE  FilingStep(w) /\ Faults' /\ faults'.lost >= faults.lost
<1> DEFINE n == filing[w].of
           b == filing[w].with
<1>1. PICK how \in Hows :
        /\ Heard(how)
        /\ Taken(how, n) => /\ Links(<<Receipt(n)>> \o IF EndsLast(n) THEN <<End(ring[n].of, "key")>> ELSE <<>>)
                            /\ live' = IF EndsLast(n) THEN live \ {ring[n].of} ELSE live
        /\ ~Taken(how, n) => UNCHANGED <<ring, live, started>>
        /\ CASE how = "answered" /\ Taken(how, n) -> Filed(w)
             [] how = "answered" /\ ~Taken(how, n) /\ b # 0 /\ n \in book[b].owed -> Then(w, "head")
             [] how # "answered" /\ b # 0 -> Then(w, "newest")
             [] OTHER -> NotFiled(w)
  BY DEF FileReceipt, Taken, EndsLast
<1>2. Faults' /\ faults'.lost >= faults.lost /\ (how # "answered" => faults'.lost >= 1)
  BY <1>1, HeardOrLost DEF Faults
<1>3. UNCHANGED <<budget, sign, exec, crossed>> /\ filing[w].at = "file"
  BY DEF FileReceipt
<1>4. ASSUME Taken(how, n) PROVE n \notin Owed'
  <2>1. n \in Owed /\ Links(<<Receipt(n)>> \o IF EndsLast(n) THEN <<End(ring[n].of, "key")>> ELSE <<>>)
    BY <1>1, <1>4 DEF Taken
  <2>2. Receipted(n)
    <3>1. PICK m : m = n
      OBVIOUS
    <3>2. Receipted(m)
      BY <2>1, <3>1, ReceiptTaken, Zenon
    <3>3. QED BY <3>1, <3>2
  <2>3. QED BY <2>2 DEF Receipted
<1>5. ASSUME how = "answered", ~Taken(how, n) PROVE n \notin Owed'
  <2>1. ring' = ring /\ n \notin Owed
    BY <1>1, <1>5 DEF Taken
  <2>2. Owed' = Owed
    BY <2>1, NoLink DEF Plain
  <2>3. QED BY <2>1, <2>2
<1>6. CASE how = "answered" /\ Taken(how, n)
  BY <1>1, <1>2, <1>3, <1>4, <1>6 DEF FilingStep
<1>7. CASE how = "answered" /\ ~Taken(how, n) /\ b # 0 /\ n \in book[b].owed
  BY <1>1, <1>2, <1>3, <1>5, <1>7 DEF FilingStep
<1>8. CASE how # "answered" /\ b # 0
  BY <1>1, <1>2, <1>3, <1>8 DEF FilingStep
<1>9. CASE ~(how = "answered" /\ Taken(how, n)) /\ (b = 0 \/ (how = "answered" /\ n \notin book[b].owed))
  <2>1. NotFiled(w)
    BY <1>1, <1>9
  <2>2. QED BY <1>2, <1>3, <1>9, <2>1 DEF FilingStep
<1>10. QED BY <1>6, <1>7, <1>8, <1>9

(* The newest link is asked for.                                           *)
LEMMA AsksIfFiled ==
  ASSUME IInv, IInv', LinksOf, Faults, Filings, NEW w \in {"agent", "plan"}, AskNewest(w)
  PROVE  FilingStep(w) /\ Faults' /\ faults'.lost >= faults.lost /\ Plain /\ live' = live
<1>1. PICK how \in {"answered", "unheard"} :
        /\ Heard(how)
        /\ IF how = "answered" /\ (filing[w].at = "head" \/ IsReceipt(Len(ring), filing[w].of))
           THEN Filed(w) ELSE NotFiled(w)
  BY DEF AskNewest
<1>2. Faults' /\ faults'.lost >= faults.lost /\ (how # "answered" => faults'.lost >= 1)
  BY <1>1, HeardOrLost DEF Faults
<1>3. UNCHANGED <<budget, sign, exec, crossed, ring, live>> /\ filing[w].at \in {"newest", "head"}
  BY DEF AskNewest
<1>4. Plain
  BY <1>3, NoLink
<1>5. ASSUME filing[w].at = "head" \/ IsReceipt(Len(ring), filing[w].of) PROVE filing[w].of \notin Owed'
  <2>1. CASE filing[w].at = "head"
    BY <1>4, <2>1 DEF Filings, FilingOf, Plain
  <2>2. CASE IsReceipt(Len(ring), filing[w].of)
    <3>1. CASE Len(ring) \in 1 .. Len(ring)
      BY <1>4, <2>2, <3>1, OwedMeans DEF Plain
    <3>2. CASE Len(ring) \notin 1 .. Len(ring)
      <4>1. \A m : ~IsUse(m)
        BY <3>2, ChainIsFinite DEF IsUse
      <4>2. QED BY <1>4, <4>1, OwedMeans DEF Plain
    <3>3. QED BY <3>1, <3>2
  <2>3. QED BY <1>5, <2>1, <2>2
<1>6. FilingStep(w)
  BY <1>1, <1>2, <1>3, <1>5 DEF FilingStep
<1>7. QED BY <1>2, <1>3, <1>4, <1>6

-----------------------------------------------------------------------------
(* What a step does to the book.                                           *)

Opens(k) ==
  /\ asking[k].at = "granted" /\ Plain /\ live' = live
  /\ book' = [c \in DOMAIN book \cup {asking[k].of} |-> IF c = asking[k].of THEN NewBook ELSE book[c]]

EndsOne(b) ==
  b \in DOMAIN book /\ Plain /\ live' = live \ {b} /\ Entered(b, book[b].owed, TRUE, book[b].spent)

NotesOne(s, n) ==
  /\ sign[s].at \in {"look", "pickup", "newest"} /\ IsUse(n) /\ ring[n].sign = s /\ Plain /\ live' = live
  /\ Notes(s, n) /\ sign'[s].at \in {"told", Failed(s)}

FilesOne(w) ==
  /\ filing[w].with \in DOMAIN book /\ filing[w].with # 0
  /\ Filed(w) /\ filing[w].of \notin Owed'

BookStep ==
  \/ book' = book
  \/ \E k \in Kinds : Opens(k)
  \/ \E b : EndsOne(b)
  \/ \E s \in Signs : \E n : NotesOne(s, n)
  \/ \E w \in {"agent", "plan"} : FilesOne(w)

(* Whom a filing is for is in the book.                                    *)
LEMMA FilingHasABook ==
  ASSUME BInv, NEW w \in {"agent", "plan"}, filing[w].at # "none", filing[w].with # 0
  PROVE  filing[w].with \in DOMAIN book
<1>1. CASE w = "agent"
  BY <1>1 DEF BInv, Filings, AgentFiling
<1>2. CASE w = "plan"
  BY <1>2 DEF BInv, Filings, PlanFiling, RequestsMade, PlanRequest, PlanIsOn
<1>3. QED BY <1>1, <1>2

(* Of the steps of a sign, two note what they find.                        *)
LEMMA SignBooks ==
  ASSUME IInv, IInv', BInv, NEW s \in Signs, Look(s) \/ Pickup(s) PROVE BookStep
<1>1. sign[s].at \in {"look", "pickup", "newest"} /\ ring' = ring /\ live' = live
  BY DEF Look, Pickup
<1>2. Plain
  BY <1>1, NoLink DEF BInv
<1>3. book' = book \/ \E n : IsUseOf(n, s) /\ Notes(s, n) /\ \E at \in {"told", Failed(s)} : To(s, at)
  BY DEF Look, Pickup
<1>4. \A at : To(s, at) => sign'[s].at = at
  BY GoesTo
<1>5. QED BY <1>1, <1>2, <1>3, <1>4 DEF BookStep, NotesOne, IsUseOf, IsUse

(* An end that was heard.                                                  *)
LEMMA EndBooks ==
  ASSUME IInv, IInv', BInv, EndRevokes \/ PlanRevokes PROVE BookStep
<1>1. CASE EndRevokes
  <2> DEFINE b == asking["end"].of
  <2>1. b \in DOMAIN book /\ IsOpen(b)
    BY <1>1 DEF EndRevokes, BInv, RequestsMade, RequestOf, BudgetsOf, Kinds
  <2>2. CASE book' = book
    BY <2>2 DEF BookStep
  <2>3. CASE book' # book
    <3>1. Revokes(b, "end") /\ book' = [book EXCEPT ![b].ended = TRUE]
      BY <1>1, <2>3 DEF EndRevokes
    <3>2. Plain /\ live' = live \ {b}
      BY <2>1, <3>1, RevokeLinks DEF BInv
    <3>3. Entered(b, book[b].owed, TRUE, book[b].spent)
      BY <2>1, <3>1, EndsIt DEF BInv, Ledgers
    <3>4. EndsOne(b)
      BY <2>1, <3>2, <3>3 DEF EndsOne
    <3>5. QED BY <3>4 DEF BookStep
  <2>4. QED BY <2>2, <2>3
<1>2. CASE PlanRevokes
  <2> DEFINE b == asking["plan"].of
  <2>1. b \in DOMAIN book /\ IsOpen(b)
    BY <1>2 DEF PlanRevokes, BInv, RequestsMade, PlanRequest, PlanIsOn, BudgetsOf
  <2>2. CASE book' = book
    BY <2>2 DEF BookStep
  <2>3. CASE book' # book
    <3>1. Revokes(b, "end") /\ book' = [book EXCEPT ![b].ended = TRUE]
      BY <1>2, <2>3 DEF PlanRevokes
    <3>2. Plain /\ live' = live \ {b}
      BY <2>1, <3>1, RevokeLinks DEF BInv
    <3>3. Entered(b, book[b].owed, TRUE, book[b].spent)
      BY <2>1, <3>1, EndsIt DEF BInv, Ledgers
    <3>4. EndsOne(b)
      BY <2>1, <3>2, <3>3 DEF EndsOne
    <3>5. QED BY <3>4 DEF BookStep
  <2>4. QED BY <2>2, <2>3
<1>3. QED BY <1>1, <1>2

(* A receipt filed.                                                        *)
LEMMA FilingBooks ==
  ASSUME IInv, IInv', BInv, NEW w \in {"agent", "plan"}, FileReceipt(w) \/ AskNewest(w) PROVE BookStep
<1>1. FilingStep(w)
  BY FilesOrAsks, AsksIfFiled DEF BInv
<1>2. filing[w].at # "none"
  BY DEF FileReceipt, AskNewest
<1>3. book' = book \/ (Filed(w) /\ filing[w].of \notin Owed')
  BY <1>1 DEF FilingStep, NotFiled, Then
<1>4. CASE filing[w].with = 0
  BY <1>3, <1>4 DEF Filed, BookStep
<1>5. CASE filing[w].with # 0
  BY <1>2, <1>3, <1>5, FilingHasABook DEF BookStep, FilesOne
<1>6. QED BY <1>4, <1>5

(* Every step.                                                             *)
LEMMA BookSteps ==
  ASSUME IInv, IInv', BInv, [BudgetNext]_budgetVars PROVE BookStep
<1>1. CASE \E s \in Signs : ReadHead(s) \/ StartTx(s) \/ SignPaid(s) \/ SignRefused(s) \/ SignPressed(s)
                              \/ SignUnheard(s) \/ KeyOwed(s) \/ PlanSigns(s) \/ SignAsked(s)
  BY <1>1 DEF ReadHead, StartTx, SignPaid, SignRefused, SignPressed, SignUnheard, KeyOwed, PlanSigns,
              SignAsked, BookStep
<1>2. CASE \E s \in Signs : Look(s) \/ Pickup(s)
  BY <1>2, SignBooks
<1>3. CASE \E w \in {"agent", "plan"} : FileReceipt(w) \/ AskNewest(w)
  BY <1>3, FilingBooks
<1>4. CASE EndRevokes \/ PlanRevokes
  BY <1>4, EndBooks
<1>5. CASE \E k \in Kinds : BudgetOpens(k)
  <2>1. PICK k \in Kinds : BudgetOpens(k)
    BY <1>5
  <2>2. ring' = ring /\ live' = live /\ asking[k].at = "granted"
    BY <2>1 DEF BudgetOpens
  <2>3. Plain
    BY <2>2, NoLink DEF BInv
  <2>4. book' = book \/ Opens(k)
    BY <2>1, <2>2, <2>3 DEF BudgetOpens, Opens
  <2>5. QED BY <2>4 DEF BookStep
<1>6. CASE \/ PlanReceipts \/ PlanEnds \/ ContinueAsked \/ ContinueRevokes \/ EndAsked \/ KeyLocks \/ OtherLinks
           \/ \E n \in 1 .. Len(ring) : AgentFiles(n)
           \/ \E e \in Execs : ExecAsked(e) \/ ExecOpens(e) \/ ExecCloses(e)
           \/ \E k \in Kinds : BudgetAsked(k) \/ PhoneGrants(k) \/ PhoneDeclines(k)
           \/ UNCHANGED budgetVars
  BY <1>6 DEF PlanReceipts, PlanEnds, ContinueAsked, ContinueRevokes, EndAsked, KeyLocks, OtherLinks, AgentFiles,
              ExecAsked, ExecOpens, ExecCloses, BudgetAsked, PhoneGrants, PhoneDeclines, budgetVars, BookStep
<1>7. QED BY <1>1, <1>2, <1>3, <1>4, <1>5, <1>6, Zenon DEF BudgetNext, Working

-----------------------------------------------------------------------------
(* What every step keeps.                                                  *)

(* What a step links: nothing that ends or pays, an end, a use, a receipt. *)
NoEnd ==
  \A i \in 1 .. Len(ring') :
    i \notin 1 .. Len(ring) => ~(ring'[i].op = "end" /\ ring'[i].by \in {"end", "key"})

EndLinked(b) ==
  /\ (EndRevokes /\ b = asking["end"].of) \/ (PlanRevokes /\ b = asking["plan"].of)
  /\ Linked(End(b, "end")) /\ Plain

ReceiptLinked(w, n) ==
  /\ FileReceipt(w) /\ n = filing[w].of /\ n \in Owed /\ Receipted(n)
  /\ live' = IF EndsLast(n) THEN live \ {ring[n].of} ELSE live
  /\ \/ Linked(Receipt(n)) /\ ~EndsLast(n)
     \/ LinkedTwo(Receipt(n), End(ring[n].of, "key")) /\ EndsLast(n)

ChainStep ==
  \/ Plain /\ NoEnd
  \/ \E b : EndLinked(b)
  \/ \E w \in {"agent", "plan"} : \E n : ReceiptLinked(w, n)
  \/ \E s \in Signs : SignPaid(s)

(* The chain, step by step.                                                *)
LEMMA ChainLinks ==
  ASSUME IInv, IInv', BInv, [BudgetNext]_budgetVars PROVE ChainStep
<1>1. CASE ring' = ring
  BY <1>1, NoLink DEF BInv, NoEnd, ChainStep
<1>2. ASSUME NEW l, Linked(l), ~(l.op = "end" /\ l.by \in {"end", "key"}) PROVE NoEnd
  BY <1>2 DEF Linked, NoEnd
<1>3. CASE \E k \in Kinds : PhoneGrants(k)
  <2>1. PICK k \in Kinds : PhoneGrants(k)
    BY <1>3
  <2>2. ring' = ring \/ (Plain /\ Linked(Open(OwnerOf(k))))
    BY <2>1, GrantLinks DEF BInv, PhoneGrants
  <2>3. Open(OwnerOf(k)).op = "open"
    BY DEF Open, Link
  <2>4. QED BY <1>1, <1>2, <2>2, <2>3 DEF ChainStep
<1>4. CASE ContinueRevokes
  <2>1. ring' = ring \/ Revokes(asking["continue"].of, "continue")
    BY <1>4 DEF ContinueRevokes
  <2>2. IsOpen(asking["continue"].of)
    BY <1>4 DEF ContinueRevokes, BInv, RequestsMade, RequestOf, BudgetsOf, Kinds
  <2>3. ring' = ring \/ (Plain /\ Linked(End(asking["continue"].of, "continue")))
    BY <2>1, <2>2, RevokeLinks DEF BInv
  <2>4. End(asking["continue"].of, "continue").by = "continue"
    BY DEF End, Link
  <2>5. QED BY <1>1, <1>2, <2>3, <2>4 DEF ChainStep
<1>5. CASE EndRevokes
  <2>1. ring' = ring \/ Revokes(asking["end"].of, "end")
    BY <1>5 DEF EndRevokes
  <2>2. IsOpen(asking["end"].of)
    BY <1>5 DEF EndRevokes, BInv, RequestsMade, RequestOf, BudgetsOf, Kinds
  <2>3. ring' = ring \/ EndLinked(asking["end"].of)
    BY <1>5, <2>1, <2>2, RevokeLinks DEF BInv, EndLinked
  <2>4. QED BY <1>1, <2>3 DEF ChainStep
<1>6. CASE PlanRevokes
  <2>1. ring' = ring \/ Revokes(asking["plan"].of, "end")
    BY <1>6 DEF PlanRevokes
  <2>2. IsOpen(asking["plan"].of)
    BY <1>6 DEF PlanRevokes, BInv, RequestsMade, PlanRequest, PlanIsOn, BudgetsOf
  <2>3. ring' = ring \/ EndLinked(asking["plan"].of)
    BY <1>6, <2>1, <2>2, RevokeLinks DEF BInv, EndLinked
  <2>4. QED BY <1>1, <2>3 DEF ChainStep
<1>7. CASE OtherLinks
  <2>1. ring' = ring \o <<Other>>
    BY <1>7 DEF OtherLinks, Links
  <2>2. Linked(Other) /\ Plain
    BY <1>7, <2>1, LinkedOne, OtherIsPlain DEF BInv
  <2>3. Other.op = "other"
    BY DEF Other, Link
  <2>4. QED BY <1>2, <2>2, <2>3 DEF ChainStep
<1>8. ASSUME NEW w \in {"agent", "plan"}, FileReceipt(w) PROVE ChainStep
  <2>1. PICK n : n = filing[w].of
    OBVIOUS
  <2>2. ring' = ring \/ ReceiptLinked(w, n)
    BY <1>8, <2>1, ReceiptStep, Zenon DEF BInv, ReceiptLinked
  <2>3. QED BY <1>1, <2>2 DEF ChainStep
<1>9. CASE \/ \E s \in Signs : \/ ReadHead(s) \/ StartTx(s) \/ SignRefused(s) \/ SignPressed(s)
                               \/ SignUnheard(s) \/ KeyOwed(s) \/ PlanSigns(s) \/ SignAsked(s)
                               \/ Look(s) \/ Pickup(s)
           \/ PlanReceipts \/ PlanEnds \/ ContinueAsked \/ EndAsked \/ KeyLocks
           \/ \E n \in 1 .. Len(ring) : AgentFiles(n)
           \/ \E e \in Execs : ExecAsked(e) \/ ExecOpens(e) \/ ExecCloses(e)
           \/ \E k \in Kinds : BudgetAsked(k) \/ PhoneDeclines(k) \/ BudgetOpens(k)
           \/ \E w \in {"agent", "plan"} : AskNewest(w)
           \/ UNCHANGED budgetVars
  <2>1. ring' = ring
    BY <1>9 DEF ReadHead, StartTx, SignRefused, SignPressed, SignUnheard, KeyOwed, PlanSigns, SignAsked,
                Look, Pickup, PlanReceipts, PlanEnds, ContinueAsked, EndAsked, KeyLocks, AgentFiles, ExecAsked,
                ExecOpens, ExecCloses, BudgetAsked, PhoneDeclines, BudgetOpens, AskNewest, budgetVars
  <2>2. QED BY <1>1, <2>1
<1>10. ASSUME NEW s \in Signs, SignPaid(s) PROVE ChainStep
  BY <1>10 DEF ChainStep
<1>11. QED BY <1>3, <1>4, <1>5, <1>6, <1>7, <1>8, <1>9, <1>10, Zenon DEF BudgetNext, Working

(* Only a use that is paid is owed anew.                                   *)
LEMMA ChainSteps ==
  ASSUME IInv, IInv', BInv, [BudgetNext]_budgetVars
  PROVE  (NothingPaid /\ Owed' \subseteq Owed) \/ \E s \in Signs : SignPaid(s)
<1>1. CASE Plain
  BY <1>1 DEF Plain
<1>2. ASSUME NEW n, Receipted(n) PROVE NothingPaid /\ Owed' \subseteq Owed
  BY <1>2 DEF Receipted
<1>3. QED BY <1>1, <1>2, ChainLinks DEF ChainStep, EndLinked, ReceiptLinked

(* It grows, and no budget pays back.                                      *)
LEMMA ChainKept ==
  ASSUME IInv, IInv', BInv, [BudgetNext]_budgetVars
  PROVE  /\ Grows /\ LinksOf'
         /\ \A b : SpentOf(b) \in Nat /\ SpentOf(b)' \in Nat /\ SpentOf(b)' >= SpentOf(b)
<1>1. Len(ring) \in Nat /\ Len(ring') \in Nat
  BY DEF IInv, Shapes
<1>2. ASSUME NEW b PROVE SpentOf(b) \in Nat
  BY <1>1, StepsAreCounted DEF SpentOf
<1>3. CASE NothingPaid
  <2>1. \A b : SpentOf(b)' = SpentOf(b)
    BY <1>3 DEF NothingPaid
  <2>2. QED BY <1>2, <1>3, <2>1 DEF NothingPaid
<1>4. CASE \E s \in Signs : SignPaid(s)
  <2>1. PICK s \in Signs : SignPaid(s)
    BY <1>4
  <2>2. PICK n : n = Len(ring) + 1
    OBVIOUS
  <2>3. PICK b \in Payers(s) :
           /\ Grows /\ LinksOf'
           /\ SpentOf(b)' = SpentOf(b) + 1 /\ SpentOf(b) \in Nat
           /\ \A c : c # b => SpentOf(c)' = SpentOf(c)
    BY <2>1, <2>2, PaidLinks, Zenon DEF BInv
  <2>4. ASSUME NEW c PROVE SpentOf(c)' \in Nat /\ SpentOf(c)' >= SpentOf(c)
    BY <1>2, <2>3
  <2>5. QED BY <1>2, <2>3, <2>4
<1>5. QED BY <1>3, <1>4, ChainSteps

(* Answers are lost, never found again.                                    *)
LEMMA FaultSteps ==
  ASSUME IInv, IInv', BInv, [BudgetNext]_budgetVars
  PROVE  Faults' /\ faults'.lost >= faults.lost
<1> USE DEF BInv
<1>1. CASE faults' = faults
  BY <1>1 DEF Faults
<1>2. CASE \E how : Heard(how)
  BY <1>2, HeardOrLost
<1>3. CASE KeyLocks
  <2> DEFINE yes == TRUE
  <2>1. faults' = [faults EXCEPT !.locked = yes]
    BY <1>3 DEF KeyLocks
  <2>2. faults' = [lost |-> faults.lost, others |-> faults.others, locked |-> yes]
    <3> HIDE DEF yes
    <3>1. QED BY <2>1 DEF Faults
  <2>3. QED BY <2>2 DEF Faults
<1>4. CASE OtherLinks
  <2> DEFINE more == faults.others + 1
  <2>1. faults' = [faults EXCEPT !.others = more] /\ faults.others < MaxOthers
    BY <1>4 DEF OtherLinks
  <2>2. faults' = [lost |-> faults.lost, others |-> more, locked |-> faults.locked]
    <3> HIDE DEF more
    <3>1. QED BY <2>1 DEF Faults
  <2>3. QED BY <2>1, <2>2, BudgetAssumption DEF Faults
<1>5. CASE \E s \in Signs : ReadHead(s) \/ StartTx(s) \/ SignPaid(s) \/ SignUnheard(s) \/ KeyOwed(s) \/ Look(s) \/ Pickup(s)
  BY <1>2, <1>5 DEF ReadHead, StartTx, SignPaid, SignUnheard, KeyOwed, Look, Pickup
<1>6. CASE \/ \E s \in Signs : SignRefused(s) \/ SignPressed(s) \/ PlanSigns(s) \/ SignAsked(s)
           \/ PlanReceipts \/ PlanEnds \/ ContinueAsked \/ EndAsked
           \/ \E n \in 1 .. Len(ring) : AgentFiles(n)
           \/ \E e \in Execs : ExecAsked(e) \/ ExecOpens(e) \/ ExecCloses(e)
           \/ \E k \in Kinds : BudgetAsked(k) \/ PhoneDeclines(k) \/ PhoneGrants(k)
           \/ UNCHANGED budgetVars
  BY <1>1, <1>6 DEF SignRefused, SignPressed, PlanSigns, SignAsked, PlanReceipts, PlanEnds, ContinueAsked, EndAsked,
              AgentFiles, ExecAsked, ExecOpens, ExecCloses, BudgetAsked, PhoneDeclines, PhoneGrants, budgetVars
<1>7. CASE \E k \in Kinds : BudgetOpens(k)
  BY <1>2, <1>7 DEF BudgetOpens
<1>8. CASE \E w \in {"agent", "plan"} : FileReceipt(w) \/ AskNewest(w)
  BY <1>2, <1>8 DEF FileReceipt, AskNewest
<1>9. CASE ContinueRevokes \/ EndRevokes \/ PlanRevokes
  BY <1>1, <1>2, <1>9 DEF ContinueRevokes, EndRevokes, PlanRevokes
<1>10. QED BY <1>3, <1>4, <1>5, <1>6, <1>7, <1>8, <1>9, Zenon DEF BudgetNext, Working

BooksKept ==
  /\ BookShape'
  /\ \A b \in DOMAIN book :
       /\ b \in DOMAIN book' /\ (book[b].ended => book'[b].ended)
       /\ \A n \in book[b].owed : n \in Owed' => n \in book'[b].owed
  /\ \A b \in DOMAIN book' : b \in DOMAIN book \/ (book'[b] = NewBook /\ OpenedBy(b, ring[b].by))

(* A book that is opened, is empty.                                        *)
LEMMA OpensIt ==
  ASSUME BInv, NEW k \in Kinds, Opens(k), NEW b, b = asking[k].of
  PROVE  /\ DOMAIN book' = DOMAIN book \cup {b} /\ b \notin DOMAIN book /\ BookShape'
         /\ \A c \in DOMAIN book : book'[c] = book[c]
         /\ book'[b] = NewBook /\ OpenedBy(b, OwnerOf(k))
<1>1. b \notin DOMAIN book /\ OpenedBy(b, OwnerOf(k))
  BY DEF BInv, RequestsMade, RequestOf, Opens
<1>2. book' = [c \in DOMAIN book \cup {b} |-> IF c = b THEN NewBook ELSE book[c]]
  BY DEF Opens
<1>3. \A c \in DOMAIN book : book[c] = [owed |-> book[c].owed, ended |-> book[c].ended, spent |-> book[c].spent]
  BY DEF BInv, Ledgers, BookShape
<1>4. NewBook = [owed |-> NewBook.owed, ended |-> NewBook.ended, spent |-> NewBook.spent]
  BY DEF NewBook
<1>5. \A c \in DOMAIN book \cup {b} :
        book'[c] = [owed |-> book'[c].owed, ended |-> book'[c].ended, spent |-> book'[c].spent]
  BY <1>1, <1>2, <1>3, <1>4
<1>6. BookShape'
  BY <1>2, <1>5 DEF BookShape
<1>7. QED BY <1>1, <1>2, <1>6

(* What is owed of a budget is forgotten only when it is receipted.        *)
LEMMA BooksAreKept ==
  ASSUME IInv, IInv', BInv, BookStep PROVE BooksKept
<1> USE DEF BInv, Ledgers
<1>1. CASE book' = book
  BY <1>1 DEF BooksKept, BookShape
<1>2. ASSUME NEW k \in Kinds, Opens(k) PROVE BooksKept
  <2>1. PICK b : b = asking[k].of
    OBVIOUS
  <2>2. /\ DOMAIN book' = DOMAIN book \cup {b} /\ b \notin DOMAIN book /\ BookShape'
        /\ \A c \in DOMAIN book : book'[c] = book[c]
        /\ book'[b] = NewBook /\ OpenedBy(b, OwnerOf(k))
    BY <1>2, <2>1, OpensIt
  <2>3. QED BY <2>2 DEF BooksKept, OpenedBy
<1>3. ASSUME NEW b, EndsOne(b) PROVE BooksKept
  BY <1>3 DEF EndsOne, Entered, BooksKept
<1>4. ASSUME NEW s \in Signs, NEW n, NotesOne(s, n) PROVE BooksKept
  <2> DEFINE b == sign[s].with
             spent == IF ring[n].of = sign[s].with /\ StepOf(n) > book[sign[s].with].spent
                      THEN StepOf(n) ELSE book[sign[s].with].spent
  <2>1. b \in DOMAIN book
    BY <1>4 DEF Stages, OfABudget, OfNone, NotesOne
  <2>2. Entered(b, book[b].owed \cup {n}, book[b].ended, spent)
    BY <1>4, <2>1, NotesIt DEF NotesOne
  <2> HIDE DEF spent
  <2>3. QED BY <2>1, <2>2 DEF Entered, BooksKept
<1>5. ASSUME NEW w \in {"agent", "plan"}, FilesOne(w) PROVE BooksKept
  <2> DEFINE b == filing[w].with
             ended == book[filing[w].with].ended
                        \/ (book[filing[w].with].owed \ {filing[w].of} = {} /\ book[filing[w].with].spent >= Uses)
  <2>1. b \in DOMAIN book /\ filing[w].of \notin Owed'
    BY <1>5 DEF FilesOne
  <2>2. Entered(b, book[b].owed \ {filing[w].of}, ended, book[b].spent)
    BY <1>5, FilesIt DEF FilesOne
  <2>3. book[b].ended => ended
    OBVIOUS
  <2> HIDE DEF ended
  <2>4. QED BY <2>1, <2>2, <2>3 DEF Entered, BooksKept
<1>6. QED BY <1>1, <1>2, <1>3, <1>4, <1>5 DEF BookStep

(* The ledgers stay in order.                                              *)
LEMMA LedgersHold ==
  ASSUME IInv, IInv', BInv, BookStep, Grows,
         \A b : SpentOf(b) \in Nat /\ SpentOf(b)' \in Nat /\ SpentOf(b)' >= SpentOf(b)
  PROVE  Ledgers'
<1> USE DEF BInv
<1> DEFINE Fine(o, e, p, b) == (\A n \in o : IsUse(n)') /\ e \in BOOLEAN /\ p \in Nat /\ p <= SpentOf(b)'
<1>1. \A b \in DOMAIN book : Fine(book[b].owed, book[b].ended, book[b].spent, b)
  BY PastStays DEF Ledgers
<1>2. BookShape'
  BY BooksAreKept DEF BooksKept
<1> SUFFICES ASSUME NEW b \in DOMAIN book' PROVE Fine(book'[b].owed, book'[b].ended, book'[b].spent, b)
  BY <1>2 DEF Ledgers
<1>3. CASE book' = book
  BY <1>1, <1>3
<1>4. ASSUME NEW k \in Kinds, Opens(k) PROVE Fine(book'[b].owed, book'[b].ended, book'[b].spent, b)
  <2>1. PICK a : a = asking[k].of
    OBVIOUS
  <2>2. /\ DOMAIN book' = DOMAIN book \cup {a}
        /\ \A c \in DOMAIN book : book'[c] = book[c]
        /\ book'[a] = NewBook
    BY <1>4, <2>1, OpensIt
  <2>3. CASE b = a
    <3>1. book'[b].owed = {} /\ book'[b].ended = FALSE /\ book'[b].spent = 0
      BY <2>2, <2>3 DEF NewBook
    <3>2. 0 <= SpentOf(b)'
      <4>1. SpentOf(b)' \in Nat
        OBVIOUS
      <4>2. QED BY <4>1
    <3>3. \A n \in book'[b].owed : IsUse(n)'
      BY <3>1
    <3>4. book'[b].ended \in BOOLEAN
      BY <3>1, Zenon
    <3>5. book'[b].spent \in Nat
      BY <3>1
    <3>6. book'[b].spent <= SpentOf(b)'
      BY <3>1, <3>2
    <3>7. QED BY <3>3, <3>4, <3>5, <3>6
  <2>4. CASE b # a
    BY <1>1, <2>2, <2>4
  <2>5. QED BY <2>3, <2>4
<1>5. ASSUME NEW c, EndsOne(c) PROVE Fine(book'[b].owed, book'[b].ended, book'[b].spent, b)
  BY <1>1, <1>5 DEF EndsOne, Entered
<1>6. ASSUME NEW s \in Signs, NEW n, NotesOne(s, n) PROVE Fine(book'[b].owed, book'[b].ended, book'[b].spent, b)
  <2> DEFINE c == sign[s].with
             spent == IF ring[n].of = sign[s].with /\ StepOf(n) > book[sign[s].with].spent
                      THEN StepOf(n) ELSE book[sign[s].with].spent
  <2>1. c \in DOMAIN book
    BY <1>6 DEF Stages, OfABudget, OfNone, NotesOne
  <2>2. Entered(c, book[c].owed \cup {n}, book[c].ended, spent)
    BY <1>6, <2>1, NotesIt DEF NotesOne, Ledgers
  <2>3. IsUse(n) /\ IsUse(n)'
    BY <1>6, PastStays DEF NotesOne
  <2>4. n \in Nat /\ n <= Len(ring) /\ Len(ring) \in Nat
    BY <2>3, ChainIsFinite DEF IsUse
  <2>5. ASSUME ring[n].of = c PROVE StepOf(n) \in Nat /\ StepOf(n) <= SpentOf(c)
    BY <2>4, <2>5, StepsAreCounted, StepsGoUp DEF StepOf, SpentOf
  <2>6. ASSUME NEW d, d = c PROVE spent \in Nat /\ spent <= SpentOf(d)'
    <3>1. book[c].spent \in Nat /\ book[c].spent <= SpentOf(c)
      BY <2>1 DEF Ledgers
    <3>2. SpentOf(d) \in Nat /\ SpentOf(d)' \in Nat /\ SpentOf(d)' >= SpentOf(d) /\ SpentOf(d) = SpentOf(c)
      BY <2>6
    <3>3. QED BY <2>5, <3>1, <3>2
  <2> HIDE DEF spent
  <2>7. CASE b = c
    <3>1. spent \in Nat /\ spent <= SpentOf(b)'
      BY <2>6, <2>7
    <3>2. QED BY <1>1, <2>1, <2>2, <2>3, <2>7, <3>1 DEF Entered
  <2>8. CASE b # c
    BY <1>1, <2>1, <2>2, <2>8 DEF Entered
  <2>9. QED BY <2>7, <2>8
<1>7. ASSUME NEW w \in {"agent", "plan"}, FilesOne(w) PROVE Fine(book'[b].owed, book'[b].ended, book'[b].spent, b)
  <2> DEFINE c == filing[w].with
             ended == book[filing[w].with].ended
                        \/ (book[filing[w].with].owed \ {filing[w].of} = {} /\ book[filing[w].with].spent >= Uses)
  <2>1. c \in DOMAIN book
    BY <1>7 DEF FilesOne
  <2>2. Entered(c, book[c].owed \ {filing[w].of}, ended, book[c].spent)
    BY <1>7, FilesIt DEF FilesOne, Ledgers
  <2>3. ended \in BOOLEAN
    OBVIOUS
  <2> HIDE DEF ended
  <2>4. QED BY <1>1, <2>1, <2>2, <2>3 DEF Entered
<1>8. QED BY <1>3, <1>4, <1>5, <1>6, <1>7 DEF BookStep

-----------------------------------------------------------------------------
(* The budgets.                                                            *)

(* A budget begins to live by a grant only.                                *)
LEMMA LiveSteps ==
  ASSUME [BudgetNext]_budgetVars
  PROVE  live' \subseteq live \/ \E k \in Kinds : PhoneGrants(k) /\ Owed = {}
<1>1. CASE \E k \in Kinds : PhoneGrants(k)
  BY <1>1 DEF PhoneGrants
<1>2. CASE ContinueRevokes \/ EndRevokes \/ PlanRevokes
  BY <1>2 DEF ContinueRevokes, EndRevokes, PlanRevokes, Revokes
<1>3. CASE \E w \in {"agent", "plan"} : FileReceipt(w)
  BY <1>3 DEF FileReceipt
<1>4. CASE \/ \E s \in Signs : \/ ReadHead(s) \/ StartTx(s) \/ SignRefused(s) \/ SignPressed(s)
                               \/ SignUnheard(s) \/ KeyOwed(s) \/ PlanSigns(s) \/ SignAsked(s)
                               \/ Look(s) \/ Pickup(s) \/ SignPaid(s)
           \/ PlanReceipts \/ PlanEnds \/ ContinueAsked \/ EndAsked \/ KeyLocks \/ OtherLinks
           \/ \E n \in 1 .. Len(ring) : AgentFiles(n)
           \/ \E e \in Execs : ExecAsked(e) \/ ExecOpens(e) \/ ExecCloses(e)
           \/ \E k \in Kinds : BudgetAsked(k) \/ PhoneDeclines(k) \/ BudgetOpens(k)
           \/ \E w \in {"agent", "plan"} : AskNewest(w)
           \/ UNCHANGED budgetVars
  BY <1>4 DEF ReadHead, StartTx, SignRefused, SignPressed, SignUnheard, KeyOwed, PlanSigns, SignAsked, SignPaid,
              Look, Pickup, PlanReceipts, PlanEnds, ContinueAsked, EndAsked, KeyLocks, OtherLinks, AgentFiles,
              ExecAsked, ExecOpens, ExecCloses, BudgetAsked, PhoneDeclines, BudgetOpens, AskNewest, budgetVars
<1>5. QED BY <1>1, <1>2, <1>3, <1>4, Zenon DEF BudgetNext, Working

(* The service holds another budget by opening it only.                    *)
LEMMA BudgetIsOpened ==
  ASSUME IInv, IInv', BInv, [BudgetNext]_budgetVars
  PROVE  \/ budget' \in {budget, 0}
         \/ \E k \in {"budget", "continue", "end"} : BudgetOpens(k) /\ Opens(k) /\ budget' = asking[k].of
<1>1. CASE \E k \in Kinds : BudgetOpens(k)
  <2>1. PICK k \in Kinds : BudgetOpens(k)
    BY <1>1
  <2>2. ring' = ring /\ live' = live /\ asking[k].at = "granted"
    BY <2>1 DEF BudgetOpens
  <2>3. Plain
    BY <2>2, NoLink DEF BInv
  <2>4. budget' = budget \/ (Opens(k) /\ k # "plan" /\ budget' = asking[k].of)
    BY <2>1, <2>2, <2>3 DEF BudgetOpens, Opens
  <2>5. QED BY <2>1, <2>4 DEF Kinds
<1>2. CASE \/ \E s \in Signs : \/ ReadHead(s) \/ StartTx(s) \/ SignRefused(s) \/ SignPressed(s)
                               \/ SignUnheard(s) \/ KeyOwed(s) \/ PlanSigns(s) \/ SignAsked(s)
                               \/ Look(s) \/ Pickup(s) \/ SignPaid(s)
           \/ PlanReceipts \/ PlanEnds \/ PlanRevokes \/ ContinueAsked \/ ContinueRevokes
           \/ EndAsked \/ EndRevokes \/ KeyLocks \/ OtherLinks
           \/ \E n \in 1 .. Len(ring) : AgentFiles(n)
           \/ \E e \in Execs : ExecAsked(e) \/ ExecOpens(e) \/ ExecCloses(e)
           \/ \E k \in Kinds : BudgetAsked(k) \/ PhoneDeclines(k) \/ PhoneGrants(k)
           \/ \E w \in {"agent", "plan"} : FileReceipt(w) \/ AskNewest(w)
           \/ UNCHANGED budgetVars
  BY <1>2 DEF ReadHead, StartTx, SignRefused, SignPressed, SignUnheard, KeyOwed, PlanSigns, SignAsked, SignPaid,
              Look, Pickup, PlanReceipts, PlanEnds, PlanRevokes, ContinueAsked, ContinueRevokes, EndAsked, EndRevokes,
              KeyLocks, OtherLinks, AgentFiles, ExecAsked, ExecOpens, ExecCloses, BudgetAsked, PhoneDeclines,
              PhoneGrants, FileReceipt, AskNewest, budgetVars
<1>3. QED BY <1>1, <1>2, Zenon DEF BudgetNext, Working

(* No budget pays more than its uses.                                      *)
LEMMA UsesBound ==
  ASSUME IInv, IInv', BInv, [BudgetNext]_budgetVars
  PROVE  \A b : SpentOf(b)' <= Uses
<1>1. CASE NothingPaid
  BY <1>1 DEF NothingPaid, BInv, BudgetsOf
<1>2. CASE \E s \in Signs : SignPaid(s)
  <2>1. PICK s \in Signs : SignPaid(s)
    BY <1>2
  <2>2. PICK n : n = Len(ring) + 1
    OBVIOUS
  <2>3. PICK b \in Payers(s) :
           /\ SpentOf(b)' = SpentOf(b) + 1 /\ SpentOf(b) \in Nat
           /\ \A c : c # b => SpentOf(c)' = SpentOf(c)
    BY <2>1, <2>2, PaidLinks, Zenon DEF BInv
  <2>4. SpentOf(b) < Uses
    BY <2>3 DEF Payers
  <2>5. SpentOf(b)' <= Uses
    BY <2>3, <2>4, BudgetAssumption
  <2>6. QED BY <2>3, <2>5 DEF BInv, BudgetsOf
<1>3. QED BY <1>1, <1>2, ChainSteps

(* An opening stays one.                                                   *)
LEMMA OpenStays ==
  ASSUME Grows PROVE \A b : IsOpen(b) => IsOpen(b)' /\ ring'[b] = ring[b]
BY DEF Grows, IsOpen

(* The budgets stay what they are.                                         *)
LEMMA BudgetsHold ==
  ASSUME IInv, IInv', BInv, [BudgetNext]_budgetVars, Grows, BooksKept
  PROVE  BudgetsOf'
<1> USE DEF BInv
<1>1. \A b \in live' : IsOpen(b)'
  <2>1. CASE live' \subseteq live
    BY <2>1, OpenStays DEF BudgetsOf
  <2>2. CASE \E k \in Kinds : PhoneGrants(k) /\ Owed = {}
    <3>1. PICK k \in Kinds : PhoneGrants(k) /\ Owed = {}
      BY <2>2
    <3>2. Linked(Open(OwnerOf(k)))
      BY <3>1, GrantLinks
    <3>3. PICK n : n = Len(ring) + 1
      OBVIOUS
    <3>4. live' = live \cup {n}
      BY <3>1, <3>3 DEF PhoneGrants
    <3>5. IsOpen(n)'
      BY <3>2, <3>3 DEF Linked, IsOpen, Open, Link
    <3>6. QED BY <3>4, <3>5, OpenStays DEF BudgetsOf
  <2>3. QED BY <2>1, <2>2, LiveSteps
<1>2. \A b \in DOMAIN book' : IsOpen(b)'
  BY OpenStays DEF BudgetsOf, BooksKept, OpenedBy
<1>3. budget' # 0 => budget' \in DOMAIN book' /\ ring'[budget'].by = "service"
  <2>1. CASE budget' \in {budget, 0}
    BY <2>1, OpenStays DEF BudgetsOf, BooksKept
  <2>2. CASE \E k \in {"budget", "continue", "end"} : BudgetOpens(k) /\ Opens(k) /\ budget' = asking[k].of
    <3>1. PICK k \in {"budget", "continue", "end"} : Opens(k) /\ budget' = asking[k].of
      BY <2>2
    <3>2. PICK b : b = asking[k].of
      OBVIOUS
    <3>3. b \in DOMAIN book' /\ OpenedBy(b, "service")
      BY <3>1, <3>2, OpensIt DEF OwnerOf, Kinds
    <3>4. QED BY <3>1, <3>2, <3>3, OpenStays DEF OpenedBy
  <2>3. QED BY <2>1, <2>2, BudgetIsOpened
<1>4. QED BY <1>1, <1>2, <1>3, UsesBound DEF BudgetsOf

-----------------------------------------------------------------------------
(* The requests.                                                           *)

(* A book is begun by an opening only.                                     *)
LEMMA DomainKept ==
  ASSUME [BudgetNext]_budgetVars, ~ \E k \in Kinds : BudgetOpens(k) PROVE DOMAIN book' = DOMAIN book
<1>1. CASE \E s \in Signs : Look(s) \/ Pickup(s)
  BY <1>1 DEF Look, Pickup, Notes
<1>2. CASE EndRevokes \/ PlanRevokes
  BY <1>2 DEF EndRevokes, PlanRevokes
<1>3. CASE \E w \in {"agent", "plan"} : FileReceipt(w) \/ AskNewest(w)
  BY <1>3 DEF FileReceipt, AskNewest, Filed, NotFiled, Then
<1>4. CASE \/ \E s \in Signs : \/ ReadHead(s) \/ StartTx(s) \/ SignRefused(s) \/ SignPressed(s)
                               \/ SignUnheard(s) \/ KeyOwed(s) \/ PlanSigns(s) \/ SignAsked(s) \/ SignPaid(s)
           \/ PlanReceipts \/ PlanEnds \/ ContinueAsked \/ ContinueRevokes \/ EndAsked \/ KeyLocks \/ OtherLinks
           \/ \E n \in 1 .. Len(ring) : AgentFiles(n)
           \/ \E e \in Execs : ExecAsked(e) \/ ExecOpens(e) \/ ExecCloses(e)
           \/ \E k \in Kinds : BudgetAsked(k) \/ PhoneDeclines(k) \/ PhoneGrants(k)
           \/ UNCHANGED budgetVars
  BY <1>4 DEF ReadHead, StartTx, SignRefused, SignPressed, SignUnheard, KeyOwed, PlanSigns, SignAsked, SignPaid,
              PlanReceipts, PlanEnds, ContinueAsked, ContinueRevokes, EndAsked, KeyLocks, OtherLinks, AgentFiles,
              ExecAsked, ExecOpens, ExecCloses, BudgetAsked, PhoneDeclines, PhoneGrants, budgetVars
<1>5. QED BY <1>1, <1>2, <1>3, <1>4, Zenon DEF BudgetNext, Working

(* A request that is as it should be, leaves the others so.                *)
LEMMA RequestSet ==
  ASSUME BInv, Grows, BooksKept, NEW k \in Kinds, NEW at, NEW of, Asked(k, at, of),
         \A b \in DOMAIN book' : b \in DOMAIN book \/ (asking[k].at = "granted" /\ b = asking[k].of),
         at = "granted" => /\ of \notin DOMAIN book' /\ OpenedBy(of, OwnerOf(k))' /\ k # "end"
                           /\ of \notin 1 .. Len(ring),
         at = "revoke" => k # "plan" /\ of \in DOMAIN book',
         at = "asked" => k # "end",
         k = "plan" => /\ at \in {"none", "asked", "granted", "failed"} \cup PlanIsOn
                       /\ at \in PlanIsOn => of \in DOMAIN book'
                       /\ at # "granted" => of \in {0} \cup DOMAIN book'
                       /\ of \in DOMAIN book' => ring'[of].by = "plan"
  PROVE  RequestsMade'
<1>1. /\ AskingShape'
      /\ \A j \in Kinds : j # k => asking'[j] = asking[j]
      /\ asking'[k].at = at /\ asking'[k].of = of
  BY AsksFor DEF BInv, RequestsMade
<1>2. \A j \in Kinds : RequestOf(j) /\ (asking[j].at = "granted" => IsOpen(asking[j].of))
  BY DEF BInv, RequestsMade, RequestOf, OpenedBy
<1>3. OneGrantEach /\ PlanRequest
  BY DEF BInv, RequestsMade
<1>4. ASSUME NEW j \in Kinds, j # k PROVE RequestOf(j)'
  <2>1. RequestOf(j) /\ asking'[j] = asking[j]
    BY <1>1, <1>2, <1>4
  <2>2. PICK b : b = asking[j].of
    OBVIOUS
  <2>3. ASSUME asking[j].at = "granted" PROVE b \notin DOMAIN book' /\ OpenedBy(b, OwnerOf(j))'
    <3>1. b \notin DOMAIN book /\ OpenedBy(b, OwnerOf(j))
      BY <2>1, <2>2, <2>3 DEF RequestOf
    <3>2. asking[k].at = "granted" => b # asking[k].of
      BY <1>3, <1>4, <2>2, <2>3 DEF OneGrantEach
    <3>3. OpenedBy(b, OwnerOf(j))'
      BY <3>1, OpenStays DEF OpenedBy
    <3>4. QED BY <3>1, <3>2, <3>3
  <2>4. QED BY <2>1, <2>2, <2>3 DEF RequestOf, BooksKept, OpenedBy, IsOpen
<1>5. RequestOf(k)'
  <2>1. asking'[k].at = "granted" => asking'[k].of \notin DOMAIN book' /\ OpenedBy(asking[k].of, OwnerOf(k))'
    BY <1>1 DEF OpenedBy, IsOpen
  <2>2. QED BY <1>1, <2>1 DEF RequestOf, OpenedBy, IsOpen
<1>6. PlanRequest'
  <2>1. CASE k = "plan"
    BY <1>1, <2>1 DEF PlanRequest
  <2>2. CASE k # "plan"
    <3>1. asking'["plan"] = asking["plan"] /\ "plan" \in Kinds
      BY <1>1, <2>2 DEF Kinds
    <3>2. ASSUME asking["plan"].of \in DOMAIN book' PROVE asking["plan"].of \in DOMAIN book
      <4>1. CASE asking["plan"].at = "granted"
        BY <1>3, <2>2, <3>1, <3>2, <4>1 DEF OneGrantEach
      <4>2. CASE asking["plan"].at # "granted"
        <5>1. \A b \in DOMAIN book' : b \in 1 .. Len(ring)
          BY <1>2 DEF BInv, BudgetsOf, IsOpen
        <5>2. asking["plan"].of # 0
          BY <3>2, <5>1
        <5>3. QED BY <1>3, <4>2, <5>2 DEF PlanRequest
      <4>3. QED BY <4>1, <4>2
    <3>3. asking["plan"].of \in DOMAIN book => ring'[asking["plan"].of] = ring[asking["plan"].of]
      BY OpenStays DEF BInv, BudgetsOf
    <3>4. QED BY <1>3, <3>1, <3>2, <3>3 DEF PlanRequest, BooksKept
  <2>3. QED BY <2>1, <2>2
<1>7. OneGrantEach'
  <2>1. \A j \in Kinds : j # k /\ asking'[j].at = "granted" => asking'[j].of \in 1 .. Len(ring)
    BY <1>1, <1>2 DEF IsOpen
  <2>2. QED BY <1>1, <1>3, <2>1 DEF OneGrantEach
<1>8. QED BY <1>1, <1>4, <1>5, <1>6, <1>7 DEF RequestsMade

(* No request.                                                             *)
LEMMA RequestsStay ==
  ASSUME BInv, Grows, DOMAIN book' = DOMAIN book, asking' = asking PROVE RequestsMade'
<1>1. \A j \in Kinds : RequestOf(j)'
  <2> SUFFICES ASSUME NEW j \in Kinds PROVE RequestOf(j)'
    OBVIOUS
  <2>1. PICK b : b = asking[j].of
    OBVIOUS
  <2>2. OpenedBy(b, OwnerOf(j)) => OpenedBy(b, OwnerOf(j))'
    BY OpenStays DEF OpenedBy
  <2>3. QED BY <2>1, <2>2 DEF BInv, RequestsMade, RequestOf, OpenedBy, IsOpen
<1>2. PlanRequest'
  <2>1. asking["plan"].of \in DOMAIN book => ring'[asking["plan"].of] = ring[asking["plan"].of]
    BY OpenStays DEF BInv, BudgetsOf
  <2>2. QED BY <2>1 DEF BInv, RequestsMade, PlanRequest
<1>3. QED BY <1>1, <1>2 DEF BInv, RequestsMade, OneGrantEach, AskingShape

(* A plan goes on, with its budget.                                        *)
LEMMA PlanGoesOn ==
  ASSUME BInv, Grows, BooksKept, DOMAIN book' = DOMAIN book, asking["plan"].at \in PlanIsOn,
         NEW at \in PlanIsOn \cup {"failed"}, Asked("plan", at, asking["plan"].of)
  PROVE  RequestsMade'
<1>1. asking["plan"].of \in DOMAIN book /\ ring[asking["plan"].of].by = "plan"
  BY DEF BInv, RequestsMade, PlanRequest
<1>2. ring'[asking["plan"].of] = ring[asking["plan"].of]
  BY <1>1, OpenStays DEF BInv, BudgetsOf
<1>3. "plan" \in Kinds /\ at \notin {"granted", "revoke", "asked"}
  BY DEF Kinds, PlanIsOn
<1>4. QED BY <1>1, <1>2, <1>3, RequestSet

(* A request is over, or a plan that has no budget.                        *)
LEMMA RequestOver ==
  ASSUME BInv, Grows, BooksKept, NEW k \in Kinds, Asked(k, Gone(k), 0),
         \A b \in DOMAIN book' : b \in DOMAIN book \/ (asking[k].at = "granted" /\ b = asking[k].of)
  PROVE  RequestsMade'
<1>1. Gone(k) \notin {"granted", "revoke", "asked"} /\ (k = "plan" => Gone(k) = "failed") /\ "failed" \notin PlanIsOn
  BY DEF Gone, PlanIsOn
<1>2. 0 \notin DOMAIN book'
  <2>1. ASSUME NEW b \in DOMAIN book' PROVE b \in 1 .. Len(ring)
    <3>1. CASE b \in DOMAIN book
      BY <3>1 DEF BInv, BudgetsOf, IsOpen
    <3>2. CASE b \notin DOMAIN book
      BY <3>2 DEF BooksKept, OpenedBy, IsOpen
    <3>3. QED BY <3>1, <3>2
  <2>2. QED BY <2>1
<1>3. QED BY <1>1, <1>2, RequestSet

(* The steps that ask for nothing.                                         *)
LEMMA AskNothing ==
  ASSUME [BudgetNext]_budgetVars, 
         \/ \E s \in Signs : \/ ReadHead(s) \/ StartTx(s) \/ SignRefused(s) \/ SignPressed(s)
                             \/ SignUnheard(s) \/ KeyOwed(s) \/ SignAsked(s) \/ SignPaid(s)
                             \/ Look(s) \/ Pickup(s)
         \/ KeyLocks \/ OtherLinks
         \/ \E n \in 1 .. Len(ring) : AgentFiles(n)
         \/ \E e \in Execs : ExecAsked(e) \/ ExecOpens(e) \/ ExecCloses(e)
         \/ UNCHANGED budgetVars
  PROVE  asking' = asking
BY DEF ReadHead, StartTx, SignRefused, SignPressed, SignUnheard, KeyOwed, SignAsked, SignPaid, Look, Pickup,
       KeyLocks, OtherLinks, AgentFiles, ExecAsked, ExecOpens, ExecCloses, budgetVars

(* The requests to the service.                                            *)
LEMMA ServiceRequests ==
  ASSUME IInv, IInv', BInv, Grows, BooksKept, DOMAIN book' = DOMAIN book,
         \/ \E k \in Kinds : BudgetAsked(k) \/ PhoneDeclines(k) \/ PhoneGrants(k)
         \/ ContinueAsked \/ ContinueRevokes \/ EndAsked \/ EndRevokes
  PROVE  RequestsMade'
<1>1. ASSUME NEW k \in Kinds, BudgetAsked(k) PROVE RequestsMade'
  <2>1. Asked(k, "asked", 0) /\ k \in {"budget", "plan"}
    BY <1>1 DEF BudgetAsked
  <2>2. 0 \notin DOMAIN book /\ "asked" \notin PlanIsOn
    BY ChainIsFinite DEF BInv, BudgetsOf, IsOpen, PlanIsOn
  <2>3. QED BY <2>1, <2>2, RequestSet
<1>2. ASSUME NEW k \in Kinds, PhoneDeclines(k) PROVE RequestsMade'
  BY <1>2, RequestOver DEF PhoneDeclines
<1>3. ASSUME NEW k \in Kinds, PhoneGrants(k) PROVE RequestsMade'
  <2>1. CASE Owed = {}
    <3>1. PICK n : n = Len(ring) + 1
      OBVIOUS
    <3>2. Asked(k, "granted", n) /\ asking[k].at = "asked"
      BY <1>3, <2>1, <3>1 DEF PhoneGrants
    <3>3. Linked(Open(OwnerOf(k)))
      BY <1>3, <2>1, GrantLinks DEF BInv
    <3>4. OpenedBy(n, OwnerOf(k))' /\ ring'[n].by = OwnerOf(k)
      BY <3>1, <3>3 DEF Linked, OpenedBy, IsOpen, Open, Link
    <3>5. n \notin DOMAIN book' /\ n \notin 1 .. Len(ring)
      BY <3>1, ChainIsFinite DEF BInv, BudgetsOf, IsOpen
    <3>6. k # "end"
      BY <3>2 DEF BInv, RequestsMade, RequestOf
    <3>7. "granted" \notin PlanIsOn
      BY DEF PlanIsOn
    <3>8. QED BY <3>2, <3>4, <3>5, <3>6, <3>7, RequestSet
  <2>2. CASE Owed # {}
    BY <1>3, <2>2, RequestOver DEF PhoneGrants
  <2>3. QED BY <2>1, <2>2
<1>4. CASE ContinueAsked \/ EndAsked
  <2>1. CASE asking' = asking
    BY <2>1, RequestsStay
  <2>2. CASE asking' # asking
    <3>1. PICK k \in {"continue", "end"} : Asked(k, "revoke", budget)
      BY <1>4, <2>2 DEF ContinueAsked, EndAsked
    <3>2. budget \in DOMAIN book
      BY <1>4 DEF ContinueAsked, EndAsked, BInv, BudgetsOf
    <3>3. k \in Kinds
      BY DEF Kinds
    <3>4. QED BY <3>1, <3>2, <3>3, RequestSet
  <2>3. QED BY <2>1, <2>2
<1>5. CASE ContinueRevokes
  <2>1. \E at \in {"asked", "none"} : Asked("continue", at, 0)
    BY <1>5 DEF ContinueRevokes
  <2>2. QED BY <2>1, RequestSet DEF Kinds
<1>6. CASE EndRevokes
  <2>1. Asked("end", "none", 0)
    BY <1>6 DEF EndRevokes
  <2>2. QED BY <2>1, RequestSet DEF Kinds
<1>7. QED BY <1>1, <1>2, <1>3, <1>4, <1>5, <1>6

(* The plan.                                                               *)
LEMMA PlanRequests ==
  ASSUME IInv, IInv', BInv, Grows, BooksKept, DOMAIN book' = DOMAIN book,
         \/ \E s \in Signs : PlanSigns(s)
         \/ PlanReceipts \/ PlanEnds \/ PlanRevokes
         \/ \E w \in {"agent", "plan"} : FileReceipt(w) \/ AskNewest(w)
  PROVE  RequestsMade'
<1>1. CASE (\E s \in Signs : PlanSigns(s)) \/ PlanReceipts \/ PlanEnds \/ PlanRevokes
  <2>1. asking["plan"].at \in PlanIsOn
    BY <1>1 DEF PlanSigns, PlanReceipts, PlanEnds, PlanRevokes, PlanIsOn
  <2>2. \E at \in PlanIsOn \cup {"failed"} : Asked("plan", at, asking["plan"].of)
    BY <1>1 DEF PlanSigns, PlanReceipts, PlanEnds, PlanRevokes, PlanIsOn, Result
  <2>3. QED BY <2>1, <2>2, PlanGoesOn
<1>2. ASSUME NEW w \in {"agent", "plan"}, FileReceipt(w) \/ AskNewest(w) PROVE RequestsMade'
  <2>1. FilingStep(w)
    BY <1>2, FilesOrAsks, AsksIfFiled DEF BInv
  <2>2. CASE asking' = asking
    BY <2>2, RequestsStay
  <2>3. CASE asking' # asking
    <3>1. w = "plan" /\ \E at \in {"running", "failing"} : Asked("plan", at, filing["plan"].with)
      BY <2>1, <2>3 DEF FilingStep, Filed, NotFiled, Then
    <3>2. filing["plan"].at # "none"
      BY <1>2, <3>1 DEF FileReceipt, AskNewest
    <3>3. filing["plan"].with = asking["plan"].of /\ asking["plan"].at \in PlanIsOn
      BY <3>2 DEF BInv, Filings, PlanFiling, PlanIsOn
    <3>4. QED BY <3>1, <3>3, PlanGoesOn DEF PlanIsOn
  <2>4. QED BY <2>2, <2>3
<1>3. QED BY <1>1, <1>2

(* All of them.                                                            *)
LEMMA RequestsHold ==
  ASSUME IInv, IInv', BInv, [BudgetNext]_budgetVars, Grows, BooksKept PROVE RequestsMade'
<1>1. ASSUME NEW k \in Kinds, BudgetOpens(k) PROVE RequestsMade'
  <2>1. asking[k].at = "granted" /\ ring' = ring /\ live' = live
    BY <1>1 DEF BudgetOpens
  <2>2. Plain
    BY <2>1, NoLink DEF BInv
  <2>3. PICK b : b = asking[k].of
    OBVIOUS
  <2>4. CASE book' = book
    <3>1. Asked(k, Gone(k), 0)
      <4>1. b \notin DOMAIN book
        BY <2>1, <2>3 DEF BInv, RequestsMade, RequestOf
      <4>2. b \notin DOMAIN book'
        BY <2>4, <4>1
      <4>3. book' # [c \in DOMAIN book \cup {b} |-> IF c = b THEN NewBook ELSE book[c]]
        BY <4>2
      <4>4. QED BY <1>1, <2>3, <4>3 DEF BudgetOpens
    <3>2. QED BY <2>4, <3>1, RequestOver
  <2>5. CASE book' # book
    <3>1. Opens(k)
      BY <1>1, <2>1, <2>2, <2>5 DEF BudgetOpens, Opens
    <3>2. DOMAIN book' = DOMAIN book \cup {b} /\ OpenedBy(b, OwnerOf(k))
      BY <2>3, <3>1, OpensIt
    <3>3. ring'[b].by = OwnerOf(k)
      BY <3>2, OpenStays DEF OpenedBy
    <3>4. CASE k = "plan"
      <4>1. Asked(k, "running", b)
        BY <1>1, <2>3, <2>5, <3>4 DEF BudgetOpens
      <4>2. QED BY <2>1, <2>3, <3>2, <3>3, <3>4, <4>1, RequestSet DEF OwnerOf, PlanIsOn
    <3>5. CASE k # "plan"
      <4>1. Asked(k, Gone(k), 0)
        BY <1>1, <2>5, <3>5 DEF BudgetOpens, Gone
      <4>2. QED BY <2>1, <2>3, <3>2, <4>1, RequestOver
    <3>6. QED BY <3>4, <3>5
  <2>6. QED BY <2>4, <2>5
<1>2. ASSUME ~ \E k \in Kinds : BudgetOpens(k) PROVE RequestsMade'
  <2>1. DOMAIN book' = DOMAIN book
    BY <1>2, DomainKept
  <2>2. CASE \/ \E s \in Signs : \/ ReadHead(s) \/ StartTx(s) \/ SignRefused(s) \/ SignPressed(s)
                             \/ SignUnheard(s) \/ KeyOwed(s) \/ SignAsked(s) \/ SignPaid(s)
                             \/ Look(s) \/ Pickup(s)
             \/ KeyLocks \/ OtherLinks
             \/ \E n \in 1 .. Len(ring) : AgentFiles(n)
             \/ \E e \in Execs : ExecAsked(e) \/ ExecOpens(e) \/ ExecCloses(e)
             \/ UNCHANGED budgetVars
    BY <2>1, <2>2, AskNothing, RequestsStay
  <2>3. QED BY <1>2, <2>1, <2>2, ServiceRequests, PlanRequests, Zenon DEF BudgetNext, Working
<1>3. QED BY <1>1, <1>2

-----------------------------------------------------------------------------
(* The filings.                                                            *)

(* What a plan's budget owes, only the plan's signs and filings change.    *)
LEMMA PlanBookKept ==
  ASSUME IInv, IInv', BInv, BookStep, NEW p, p = asking["plan"].of, p \in DOMAIN book,
         asking["plan"].at # "signing", ~Filed("plan")
  PROVE  p \in DOMAIN book' /\ book'[p].owed = book[p].owed
<1> USE DEF BInv
<1>1. ring[p].by = "plan"
  BY DEF RequestsMade, PlanRequest
<1>2. CASE book' = book
  BY <1>2
<1>3. ASSUME NEW k \in Kinds, Opens(k) PROVE book'[p] = book[p] /\ p \in DOMAIN book'
  <2>1. PICK a : a = asking[k].of
    OBVIOUS
  <2>2. QED BY <1>3, <2>1, OpensIt
<1>4. ASSUME NEW b, EndsOne(b) PROVE book'[p].owed = book[p].owed /\ p \in DOMAIN book'
  BY <1>4 DEF EndsOne, Entered
<1>5. ASSUME NEW s \in Signs, NEW n, NotesOne(s, n) PROVE book'[p] = book[p] /\ p \in DOMAIN book'
  <2>1. sign[s].with \in DOMAIN book /\ ring[sign[s].with].by = Party(s)
    BY <1>5 DEF NotesOne, Stages, OfABudget, OfNone
  <2>2. sign[s].at \notin Done \cup {"none"}
    BY <1>5 DEF NotesOne, Done
  <2>3. Party(s) # "plan"
    BY <2>2 DEF PlanStages, Party, PlanItems, Begun
  <2>4. sign[s].with # p
    BY <1>1, <2>1, <2>3
  <2>5. PICK o, e, m : Entered(sign[s].with, o, e, m)
    BY <1>5, <2>1, NotesIt DEF NotesOne, Ledgers
  <2>6. QED BY <2>4, <2>5 DEF Entered
<1>6. ASSUME NEW w \in {"agent", "plan"}, FilesOne(w) PROVE book'[p] = book[p] /\ p \in DOMAIN book'
  <2>1. w = "agent" /\ filing[w].with # 0
    BY <1>6 DEF FilesOne
  <2>2. filing[w].with # p
    BY <1>1, <2>1 DEF Filings, AgentFiling
  <2>3. PICK o, e, m : Entered(filing[w].with, o, e, m)
    BY <1>6, FilesIt DEF FilesOne, Ledgers
  <2>4. QED BY <2>2, <2>3 DEF Entered
<1>7. QED BY <1>2, <1>3, <1>4, <1>5, <1>6 DEF BookStep

(* A filing that is left alone.                                            *)
LEMMA FilingStays ==
  ASSUME IInv, IInv', BInv, Grows, NEW w \in {"agent", "plan"}, filing'[w] = filing[w]
  PROVE  FilingOf(w)'
<1>1. filing[w].at # "none" => IsUse(filing[w].of) /\ filing[w].of \in 1 .. Len(ring)
  BY DEF BInv, Filings, FilingOf, IsUse
<1>2. PICK n : n = filing[w].of
  OBVIOUS
<1>3. (IsUse(n) => IsUse(n)') /\ (n \in 1 .. Len(ring) /\ n \notin Owed => n \notin Owed')
  BY PastStays
<1>4. QED BY <1>1, <1>2, <1>3 DEF BInv, Filings, FilingOf, IsUse

(* The agent's.                                                            *)
LEMMA AgentFilingStays ==
  ASSUME BInv, Grows, BooksKept, filing'["agent"].with = filing["agent"].with
  PROVE  AgentFiling'
<1>1. filing["agent"].with # 0 => ring'[filing["agent"].with] = ring[filing["agent"].with]
  BY OpenStays DEF BInv, Filings, AgentFiling, BudgetsOf
<1>2. QED BY <1>1 DEF BInv, Filings, AgentFiling, BooksKept

(* A plan that files, files on.                                            *)
LEMMA PlanFilingStays ==
  ASSUME IInv, IInv', BInv, BookStep, filing'["plan"] = filing["plan"],
         \/ asking'["plan"] = asking["plan"]
         \/ asking["plan"].at # "filing" /\ asking'["plan"].at # "filing"
  PROVE  PlanFiling'
<1>1. CASE filing["plan"].at = "none"
  BY <1>1 DEF BInv, Filings, PlanFiling
<1>2. CASE filing["plan"].at # "none"
  <2>1. asking["plan"].at = "filing" /\ asking'["plan"] = asking["plan"]
    BY <1>2 DEF BInv, Filings, PlanFiling
  <2>2. PICK p : p = asking["plan"].of
    OBVIOUS
  <2>3. p \in DOMAIN book
    BY <2>1, <2>2 DEF BInv, RequestsMade, PlanRequest, PlanIsOn
  <2>4. ~Filed("plan")
    <3>1. ASSUME Filed("plan") PROVE filing'["plan"] = NotFiling
      BY <3>1 DEF Filed, BInv, Filings, FilingShape
    <3>2. QED BY <1>2, <3>1 DEF NotFiling
  <2>5. book'[p].owed = book[p].owed
    BY <2>1, <2>2, <2>3, <2>4, PlanBookKept
  <2>6. QED BY <1>2, <2>1, <2>2, <2>5 DEF BInv, Filings, PlanFiling, PlanBook
<1>3. QED BY <1>1, <1>2

(* A call about a receipt.                                                 *)
LEMMA FilingGoes ==
  ASSUME IInv, IInv', BInv, Grows, BookStep, BooksKept, NEW w \in {"agent", "plan"}, FilingStep(w),
         filing[w].at # "none"
  PROVE  Filings'
<1> USE DEF BInv
<1> DEFINE o == filing[w].of
           b == filing[w].with
<1>1. IsUse(o) /\ FilingShape
  BY DEF Filings, FilingOf
<1>2. CASE Filed(w) \/ NotFiled(w)
  <2>1. /\ FilingShape' /\ \A v \in {"agent", "plan"} : v # w => filing'[v] = filing[v]
        /\ filing'[w] = NotFiling
    <3>1. filing' = [filing EXCEPT ![w] = [at |-> "none", of |-> 0, with |-> 0]]
      BY <1>2 DEF Filed, NotFiled, NotFiling
    <3>2. QED BY <1>1, <3>1 DEF FilingShape, NotFiling
  <2>2. \A v \in {"agent", "plan"} : FilingOf(v)'
    <3>1. FilingOf(w)'
      BY <2>1 DEF FilingOf, NotFiling
    <3>2. QED BY <2>1, <3>1, FilingStays
  <2>3. AgentFiling'
    <3>1. CASE w = "agent"
      BY <2>1, <3>1 DEF AgentFiling, NotFiling
    <3>2. CASE w # "agent"
      BY <2>1, <3>2, AgentFilingStays
    <3>3. QED BY <3>1, <3>2
  <2>4. PlanFiling'
    <3>1. CASE w = "plan"
      <4>1. \E at \in {"running", "failing"} : Asked("plan", at, b)
        BY <1>2, <3>1 DEF Filed, NotFiled
      <4>2. asking'["plan"].at \in {"running", "failing"}
        BY <4>1, AsksFor DEF RequestsMade, Kinds
      <4>3. QED BY <2>1, <3>1, <4>2 DEF PlanFiling, NotFiling
    <3>2. CASE w # "plan"
      BY <1>2, <2>1, <3>2, PlanFilingStays DEF Filed, NotFiled
    <3>3. QED BY <3>1, <3>2
  <2>5. QED BY <2>1, <2>2, <2>3, <2>4 DEF Filings
<1>3. ASSUME NEW at \in {"newest", "head"}, Then(w, at), at = "head" => o \notin Owed', b # 0, filing[w].at = "file"
      PROVE  Filings'
  <2>1. /\ FilingShape' /\ \A v \in {"agent", "plan"} : v # w => filing'[v] = filing[v]
        /\ filing'[w] = [at |-> at, of |-> o, with |-> b]
    BY <1>1, <1>3, FilingGoesOn
  <2>2. filing'[w].at = at /\ filing'[w].of = o /\ filing'[w].with = b
    BY <2>1
  <2>3. \A v \in {"agent", "plan"} : FilingOf(v)'
    <3>1. PICK n : n = o
      OBVIOUS
    <3>2. IsUse(n)'
      BY <1>1, <3>1, PastStays
    <3>3. filing'[w] # NotFiling
      BY <2>2 DEF NotFiling
    <3>4. FilingOf(w)'
      BY <1>3, <2>2, <3>1, <3>2, <3>3 DEF FilingOf, IsUse
    <3>5. QED BY <2>1, <3>4, FilingStays
  <2>4. AgentFiling'
    BY <2>1, <2>2, AgentFilingStays
  <2>5. asking' = asking /\ book' = book
    BY <1>3 DEF Then
  <2>6. PlanFiling'
    <3>1. CASE w = "plan"
      BY <1>3, <2>2, <2>5, <3>1 DEF Filings, PlanFiling, PlanBook
    <3>2. CASE w # "plan"
      BY <2>1, <2>5, <3>2, PlanFilingStays
    <3>3. QED BY <3>1, <3>2
  <2>7. QED BY <2>1, <2>3, <2>4, <2>6 DEF Filings
<1>4. QED BY <1>2, <1>3 DEF FilingStep

(* Who else asks for something asks of the service, or not while filing.   *)
LEMMA OthersAsk ==
  ASSUME AskingShape,
         \/ \E s \in Signs : PlanSigns(s)
         \/ PlanEnds \/ PlanRevokes
         \/ \E k \in Kinds : BudgetAsked(k) \/ PhoneDeclines(k) \/ PhoneGrants(k) \/ BudgetOpens(k)
         \/ ContinueAsked \/ ContinueRevokes \/ EndAsked \/ EndRevokes
  PROVE  \/ asking'["plan"] = asking["plan"]
         \/ asking["plan"].at # "filing" /\ asking'["plan"].at # "filing"
<1>1. "plan" \in Kinds /\ "end" \in Kinds /\ "continue" \in Kinds
  BY DEF Kinds
<1>2. CASE (\E s \in Signs : PlanSigns(s)) \/ PlanEnds \/ PlanRevokes
  <2>1. asking["plan"].at # "filing"
    BY <1>2 DEF PlanSigns, PlanEnds, PlanRevokes
  <2>2. \E at, of : Asked("plan", at, of) /\ at # "filing"
    BY <1>2 DEF PlanSigns, PlanEnds, PlanRevokes, Result
  <2>3. QED BY <1>1, <2>1, <2>2, AsksFor
<1>3. ASSUME NEW k \in Kinds, BudgetAsked(k) \/ PhoneDeclines(k) \/ PhoneGrants(k) \/ BudgetOpens(k)
      PROVE  \/ asking'["plan"] = asking["plan"]
             \/ asking["plan"].at # "filing" /\ asking'["plan"].at # "filing"
  <2>1. asking[k].at # "filing"
    BY <1>3 DEF BudgetAsked, PhoneDeclines, PhoneGrants, BudgetOpens, Idle
  <2>2. \E at, of : Asked(k, at, of) /\ at # "filing"
    BY <1>3 DEF BudgetAsked, PhoneDeclines, PhoneGrants, BudgetOpens, Gone
  <2>3. QED BY <1>1, <2>1, <2>2, AsksFor
<1>4. CASE ContinueAsked \/ ContinueRevokes \/ EndAsked \/ EndRevokes
  <2>1. asking' = asking \/ \E k \in {"continue", "end"} : \E at, of : Asked(k, at, of)
    BY <1>4 DEF ContinueAsked, ContinueRevokes, EndAsked, EndRevokes
  <2>2. QED BY <1>1, <2>1, AsksFor
<1>5. QED BY <1>2, <1>3, <1>4

(* All steps.                                                              *)
LEMMA FilingsHold ==
  ASSUME IInv, IInv', BInv, [BudgetNext]_budgetVars, Grows, BookStep, BooksKept PROVE Filings'
<1> USE DEF BInv
<1>1. ASSUME NEW w \in {"agent", "plan"}, FileReceipt(w) \/ AskNewest(w) PROVE Filings'
  <2>1. FilingStep(w)
    BY <1>1, FilesOrAsks, AsksIfFiled
  <2>2. filing[w].at # "none"
    BY <1>1 DEF FileReceipt, AskNewest
  <2>3. QED BY <1>1, <2>1, <2>2, FilingGoes
<1>2. ASSUME NEW n \in 1 .. Len(ring), AgentFiles(n) PROVE Filings'
  <2>1. filing' = [filing EXCEPT !["agent"] = [at |-> "file", of |-> n, with |-> budget]]
        /\ asking' = asking
    BY <1>2 DEF AgentFiles, Files
  <2>2. FilingShape' /\ filing'["plan"] = filing["plan"]
        /\ filing'["agent"].at = "file" /\ filing'["agent"].of = n /\ filing'["agent"].with = budget
    BY <2>1 DEF Filings, FilingShape
  <2>3. IsUse(n)
    BY <1>2, OwedMeans DEF AgentFiles, Ledgers, BudgetsOf
  <2>4. IsUse(n)'
    BY <2>3, PastStays
  <2>5. FilingOf("agent")'
    BY <2>2, <2>4 DEF FilingOf, IsUse, NotFiling
  <2>6. AgentFiling'
    <3>1. budget # 0 => budget \in DOMAIN book' /\ ring'[budget].by = "service"
      BY OpenStays DEF BudgetsOf, BooksKept
    <3>2. QED BY <2>2, <3>1 DEF AgentFiling
  <2>7. QED BY <2>1, <2>2, <2>5, <2>6, FilingStays, PlanFilingStays DEF Filings
<1>3. ASSUME PlanReceipts, filing' # filing PROVE Filings'
  <2> DEFINE p == asking["plan"].of
  <2>1. PICK n \in PlanBook.owed : Files("plan", n, p) /\ Asked("plan", "filing", p)
    BY <1>3 DEF PlanReceipts
  <2>2. asking["plan"].at = "signing" /\ book' = book
    BY <1>3 DEF PlanReceipts
  <2>3. filing' = [filing EXCEPT !["plan"] = [at |-> "file", of |-> n, with |-> p]]
    BY <2>1 DEF Files
  <2>4. FilingShape' /\ filing'["agent"] = filing["agent"]
        /\ filing'["plan"].at = "file" /\ filing'["plan"].of = n /\ filing'["plan"].with = p
    BY <2>3 DEF Filings, FilingShape
  <2>5. p \in DOMAIN book
    BY <2>2 DEF RequestsMade, PlanRequest, PlanIsOn
  <2>6. IsUse(n)
    BY <2>1, <2>5 DEF Ledgers, PlanBook
  <2>7. IsUse(n)'
    BY <2>6, PastStays
  <2>8. FilingOf("plan")'
    BY <2>4, <2>7 DEF FilingOf, IsUse, NotFiling
  <2>9. PlanFiling'
    <3>1. asking'["plan"].at = "filing" /\ asking'["plan"].of = p
      BY <2>1, AsksFor DEF RequestsMade, Kinds
    <3>2. PlanBook.owed \subseteq {n}
      BY <2>1, <2>2 DEF PlanStages
    <3>3. QED BY <2>1, <2>2, <2>4, <3>1, <3>2 DEF PlanFiling, PlanBook
  <2>10. QED BY <2>4, <2>8, <2>9, FilingStays, AgentFilingStays DEF Filings
<1>4. ASSUME filing' = filing,
             \/ asking'["plan"] = asking["plan"]
             \/ asking["plan"].at # "filing" /\ asking'["plan"].at # "filing"
      PROVE  Filings'
  <2>1. FilingShape'
    BY <1>4 DEF Filings, FilingShape
  <2>2. QED BY <1>4, <2>1, FilingStays, AgentFilingStays, PlanFilingStays DEF Filings
<1>5. ASSUME PlanReceipts, filing' = filing PROVE Filings'
  <2>1. \/ Asked("plan", "running", asking["plan"].of)
        \/ \E n : Files("plan", n, asking["plan"].of)
    BY <1>5 DEF PlanReceipts
  <2>2. asking["plan"].at = "signing" /\ filing["plan"].at = "none"
    BY <1>5 DEF PlanReceipts, Filings, PlanFiling
  <2>3. ASSUME NEW n, Files("plan", n, asking["plan"].of) PROVE FALSE
    <3>1. filing' = [filing EXCEPT !["plan"] = [at |-> "file", of |-> n, with |-> asking["plan"].of]]
      BY <2>3 DEF Files
    <3>2. filing'["plan"].at = "file"
      BY <3>1 DEF Filings, FilingShape
    <3>3. QED BY <1>5, <2>2, <3>2
  <2>4. asking'["plan"].at = "running"
    BY <2>1, <2>3, AsksFor DEF RequestsMade, Kinds
  <2>5. QED BY <1>4, <1>5, <2>2, <2>4
<1>6. CASE \/ \E s \in Signs : PlanSigns(s)
           \/ PlanEnds \/ PlanRevokes
           \/ \E k \in Kinds : BudgetAsked(k) \/ PhoneDeclines(k) \/ PhoneGrants(k) \/ BudgetOpens(k)
           \/ ContinueAsked \/ ContinueRevokes \/ EndAsked \/ EndRevokes
  <2>1. filing' = filing
    BY <1>6 DEF PlanSigns, PlanEnds, PlanRevokes, BudgetAsked, PhoneDeclines, PhoneGrants, BudgetOpens,
                ContinueAsked, ContinueRevokes, EndAsked, EndRevokes
  <2>2. QED BY <1>4, <1>6, <2>1, OthersAsk DEF RequestsMade
<1>7. CASE \/ \E s \in Signs : \/ ReadHead(s) \/ StartTx(s) \/ SignRefused(s) \/ SignPressed(s)
                               \/ SignUnheard(s) \/ KeyOwed(s) \/ SignAsked(s) \/ SignPaid(s)
                               \/ Look(s) \/ Pickup(s)
           \/ KeyLocks \/ OtherLinks
           \/ \E e \in Execs : ExecAsked(e) \/ ExecOpens(e) \/ ExecCloses(e)
           \/ UNCHANGED budgetVars
  <2>1. filing' = filing /\ asking' = asking
    BY <1>7 DEF ReadHead, StartTx, SignRefused, SignPressed, SignUnheard, KeyOwed, SignAsked, SignPaid, Look, Pickup,
                KeyLocks, OtherLinks, ExecAsked, ExecOpens, ExecCloses, budgetVars
  <2>2. QED BY <1>4, <2>1
<1>8. QED BY <1>1, <1>2, <1>3, <1>5, <1>6, <1>7, Zenon DEF BudgetNext, Working

-----------------------------------------------------------------------------
(* The stages of a sign.                                                   *)

Follows(s, from, to) ==
  \/ from = "start" /\ to \in {"sign", Failed(s)}
  \/ from = "sign" /\ to \in {"pickup", "look"}
  \/ from = "pickup" /\ to \in {"told", "newest"}
  \/ from = "newest" /\ to \in {"told", Failed(s)}
  \/ from = "look" /\ to = Failed(s)
  \/ from = "owes?" /\ to = "failed"

OthersWait(s) == \A t \in Signs : t # s => sign'[t] = sign[t]

MovesOn(s) ==
  /\ OthersWait(s) /\ sign'[s].with = sign[s].with
  /\ \/ sign[s].at = "head" /\ sign'[s].before = Len(ring) /\ sign'[s].at \in {"start", Failed(s)}
     \/ sign'[s].before = sign[s].before /\ Follows(s, sign[s].at, sign'[s].at)

BeginsIn(s, b) ==
  /\ OthersWait(s) /\ sign[s].at = "none" /\ sign'[s].with = b /\ sign'[s].before = 0
  /\ \/ sign'[s].at = "head" /\ ~book[b].ended /\ book[b].owed = {}
     \/ sign'[s].at = Failed(s)

(* The head is read.                                                       *)
LEMMA HeadIsRead ==
  ASSUME IInv, NEW s \in Signs, ReadHead(s) PROVE MovesOn(s)
<1>1. PICK at : sign' = [sign EXCEPT ![s].before = Len(ring), ![s].at = at] /\ at \in {"start", Failed(s)}
  BY DEF ReadHead
<1> DEFINE len == Len(ring)
           old == sign[s]
           mid == [old EXCEPT !.before = len]
           one == [mid EXCEPT !.at = at]
<1>2. sign = [t \in Signs |-> [at |-> sign[t].at, with |-> sign[t].with, before |-> sign[t].before]]
  BY DEF IInv, Shapes
<1>3. old = [at |-> old.at, with |-> old.with, before |-> old.before]
  BY <1>2
<1>4. sign' = [t \in Signs |-> IF t = s THEN one ELSE sign[t]]
  BY <1>1, <1>2
<1>5. one = [at |-> at, with |-> old.with, before |-> len]
  <2> HIDE DEF old, len
  <2>1. mid = [at |-> old.at, with |-> old.with, before |-> len]
    BY <1>3
  <2> HIDE DEF mid
  <2>2. QED BY <2>1
<1> HIDE DEF one
<1>6. sign'[s] = one /\ OthersWait(s)
  BY <1>4 DEF OthersWait
<1>7. sign[s].at = "head"
  BY DEF ReadHead
<1>8. sign'[s].at = at /\ sign'[s].with = sign[s].with /\ sign'[s].before = Len(ring)
  BY <1>5, <1>6
<1>9. QED BY <1>1, <1>6, <1>7, <1>8 DEF MovesOn

(* The other steps of a use.                                               *)
LEMMA UseMoves ==
  ASSUME IInv, NEW s \in Signs,
         \/ StartTx(s) \/ SignPaid(s) \/ SignRefused(s) \/ SignPressed(s) \/ SignUnheard(s)
         \/ Look(s) \/ Pickup(s) \/ KeyOwed(s)
  PROVE  MovesOn(s)
<1>1. \E at : To(s, at) /\ Follows(s, sign[s].at, at)
  <2>1. CASE StartTx(s) \/ SignPaid(s) \/ SignRefused(s) \/ SignPressed(s) \/ SignUnheard(s)
    BY <2>1 DEF StartTx, SignPaid, SignRefused, SignPressed, SignUnheard, Follows
  <2>2. CASE Look(s) \/ Pickup(s) \/ KeyOwed(s)
    BY <2>2 DEF Look, Pickup, KeyOwed, Follows
  <2>3. QED BY <2>1, <2>2
<1>2. QED BY <1>1, GoesTo DEF MovesOn, OthersWait

(* A sign begins.                                                          *)
LEMMA UseBegins ==
  ASSUME IInv, NEW s \in Signs, NEW b, Begins(s, b) PROVE BeginsIn(s, b)
<1> DEFINE at == IF b = 0 \/ book[b].ended \/ book[b].owed # {} THEN Failed(s) ELSE "head"
           begun == [at |-> at, with |-> b, before |-> 0]
<1>1. sign[s].at = "none" /\ sign' = [sign EXCEPT ![s] = begun]
  BY Zenon DEF Begins
<1>2. at = Failed(s) \/ (at = "head" /\ ~book[b].ended /\ book[b].owed = {})
  OBVIOUS
<1> HIDE DEF at
<1>3. sign'[s] = begun /\ OthersWait(s)
  BY <1>1 DEF IInv, Shapes, OthersWait
<1>4. QED BY <1>1, <1>2, <1>3 DEF BeginsIn

(* With no budget it fails.                                                *)
LEMMA NoneBegins ==
  ASSUME IInv, NEW s \in Signs, Party(s) = "service", Begins(s, 0)
  PROVE  sign'[s].at = "owes?"
<1> DEFINE begun == [at |-> Failed(s), with |-> 0, before |-> 0]
<1>1. sign' = [sign EXCEPT ![s] = begun]
  BY DEF Begins
<1>2. begun.at = "owes?"
  BY DEF Failed
<1> HIDE DEF begun
<1>3. sign'[s] = begun
  BY <1>1 DEF IInv, Shapes
<1>4. QED BY <1>2, <1>3

SignStep ==
  \/ sign' = sign
  \/ \E s \in Signs : MovesOn(s)
  \/ \E s \in Signs : SignAsked(s) /\ BeginsIn(s, budget)
  \/ \E s \in Signs : PlanSigns(s) /\ BeginsIn(s, asking["plan"].of)

(* Every step moves one sign at most.                                      *)
LEMMA SignsMove ==
  ASSUME IInv, [BudgetNext]_budgetVars PROVE SignStep
<1>1. ASSUME NEW s \in Signs, SignAsked(s) \/ PlanSigns(s) PROVE SignStep
  BY <1>1, UseBegins DEF SignAsked, PlanSigns, SignStep
<1>2. ASSUME NEW s \in Signs,
             \/ ReadHead(s) \/ StartTx(s) \/ SignPaid(s) \/ SignRefused(s) \/ SignPressed(s) \/ SignUnheard(s)
             \/ Look(s) \/ Pickup(s) \/ KeyOwed(s)
      PROVE  SignStep
  BY <1>2, HeadIsRead, UseMoves DEF SignStep
<1>3. CASE \/ PlanReceipts \/ PlanEnds \/ PlanRevokes \/ ContinueAsked \/ ContinueRevokes
           \/ EndAsked \/ EndRevokes \/ KeyLocks \/ OtherLinks
           \/ \E n \in 1 .. Len(ring) : AgentFiles(n)
           \/ \E e \in Execs : ExecAsked(e) \/ ExecOpens(e) \/ ExecCloses(e)
           \/ \E k \in Kinds : BudgetAsked(k) \/ PhoneDeclines(k) \/ PhoneGrants(k) \/ BudgetOpens(k)
           \/ \E w \in {"agent", "plan"} : FileReceipt(w) \/ AskNewest(w)
           \/ UNCHANGED budgetVars
  <2>1. sign' = sign
    BY <1>3 DEF PlanReceipts, PlanEnds, PlanRevokes, ContinueAsked, ContinueRevokes, EndAsked, EndRevokes,
              KeyLocks, OtherLinks, AgentFiles, ExecAsked, ExecOpens, ExecCloses, BudgetAsked, PhoneDeclines,
              PhoneGrants, BudgetOpens, FileReceipt, AskNewest, budgetVars
  <2>2. QED BY <2>1 DEF SignStep
<1>4. QED BY <1>1, <1>2, <1>3, Zenon DEF BudgetNext, Working

(* A sign that waits, and one that moves, stay with their budget.          *)
LEMMA StagesHold ==
  ASSUME IInv, IInv', BInv, SignStep, Grows, BooksKept PROVE Stages'
<1> USE DEF BInv
<1>1. sign' = [s \in Signs |-> [at |-> sign'[s].at, with |-> sign'[s].with, before |-> sign'[s].before]]
  BY DEF IInv, Shapes
<1>2. ASSUME NEW b \in DOMAIN book PROVE b \in DOMAIN book' /\ ring'[b] = ring[b]
  BY <1>2, OpenStays DEF BooksKept, BudgetsOf
<1>3. Len(ring) \in Nat /\ Len(ring') \in Nat /\ Len(ring) <= Len(ring')
  BY DEF Grows
<1> DEFINE Fine(s, at, with, before) ==
             /\ at \in {"none", "head", "start", "sign"} \cup PastKey
             /\ before \in 0 .. Len(ring')
             /\ at # "none" => \/ with \in DOMAIN book' /\ ring'[with].by = Party(s)
                               \/ Party(s) = "service" /\ with = 0 /\ at \in {"owes?", "failed"}
             /\ at = "owes?" => Party(s) = "service"
<1>4. ASSUME NEW s \in Signs, sign'[s] = sign[s] PROVE Fine(s, sign'[s].at, sign'[s].with, sign'[s].before)
  <2>1. sign[s].at \in {"none", "head", "start", "sign"} \cup PastKey /\ (sign[s].at = "owes?" => Party(s) = "service")
    BY DEF Stages
  <2>2. sign[s].before \in 0 .. Len(ring')
    BY <1>3 DEF Stages
  <2>3. ASSUME sign[s].at # "none"
        PROVE  (sign[s].with \in DOMAIN book' /\ ring'[sign[s].with].by = Party(s)) \/ OfNone(s)
    BY <1>2, <2>3 DEF Stages, OfABudget
  <2>4. QED BY <1>4, <2>1, <2>2, <2>3 DEF OfNone
<1>5. ASSUME NEW s \in Signs, MovesOn(s) PROVE Fine(s, sign'[s].at, sign'[s].with, sign'[s].before) /\ sign'[s].at # "none"
  <2>1. sign[s].at # "none"
    BY <1>5 DEF MovesOn, Follows
  <2>2. sign'[s].at \in {"start", "sign"} \cup PastKey /\ (sign'[s].at = "owes?" => Party(s) = "service")
    BY <1>5 DEF MovesOn, Follows, PastKey, Failed, Party
  <2>3. sign'[s].before \in 0 .. Len(ring')
    BY <1>3, <1>5 DEF MovesOn, Stages
  <2>4. (sign[s].with \in DOMAIN book' /\ ring'[sign[s].with].by = Party(s)) \/ OfNone(s)
    BY <1>2, <2>1 DEF Stages, OfABudget
  <2>5. sign'[s].with = sign[s].with
    BY <1>5 DEF MovesOn
  <2>6. sign'[s].at # "none"
    BY <2>2 DEF PastKey
  <2>8. OfNone(s) => sign'[s].at = "failed"
    BY <1>5 DEF MovesOn, Follows, OfNone
  <2>7. QED BY <2>2, <2>3, <2>4, <2>5, <2>6, <2>8 DEF OfNone
<1>6. ASSUME NEW s \in Signs, NEW b \in DOMAIN book, BeginsIn(s, b), ring[b].by = Party(s)
      PROVE  Fine(s, sign'[s].at, sign'[s].with, sign'[s].before) /\ sign'[s].at # "none"
  BY <1>2, <1>3, <1>6 DEF BeginsIn, PastKey, Failed, Party
<1>7. ASSUME NEW s \in Signs, SignAsked(s) /\ BeginsIn(s, budget)
      PROVE  Fine(s, sign'[s].at, sign'[s].with, sign'[s].before) /\ sign'[s].at # "none"
  <2>1. CASE budget # 0
    <3>1. budget \in DOMAIN book /\ ring[budget].by = Party(s)
      BY <1>7, <2>1 DEF SignAsked, BudgetsOf
    <3>2. QED BY <1>6, <1>7, <3>1
  <2>2. CASE budget = 0
    <3>1. sign'[s].at = "owes?" /\ Party(s) = "service" /\ sign'[s].with = 0 /\ sign'[s].before = 0
      BY <1>7, <2>2, NoneBegins DEF SignAsked, BeginsIn
    <3>2. QED BY <1>3, <3>1 DEF PastKey
  <2>3. QED BY <2>1, <2>2
<1>8. ASSUME NEW s \in Signs, PlanSigns(s) /\ BeginsIn(s, asking["plan"].of)
      PROVE  asking["plan"].of \in DOMAIN book /\ ring[asking["plan"].of].by = Party(s)
  BY <1>8 DEF PlanSigns, RequestsMade, PlanRequest, PlanIsOn, PlanItems, Party
<1> DEFINE All(s) == Fine(s, sign'[s].at, sign'[s].with, sign'[s].before) /\ (sign'[s].at = "none" => sign'[s] = NoUse)
<1>9. ASSUME NEW s \in Signs, sign'[s] = sign[s] PROVE All(s)
  BY <1>4, <1>9 DEF Stages
<1>10. ASSUME NEW s \in Signs, OthersWait(s), Fine(s, sign'[s].at, sign'[s].with, sign'[s].before) /\ sign'[s].at # "none"
       PROVE  \A t \in Signs : All(t)
  BY <1>9, <1>10 DEF OthersWait
<1>11. \A s \in Signs : All(s)
  <2>1. CASE sign' = sign
    BY <1>9, <2>1
  <2>2. ASSUME NEW s \in Signs, MovesOn(s) PROVE \A t \in Signs : All(t)
    BY <1>5, <1>10, <2>2 DEF MovesOn
  <2>3. ASSUME NEW s \in Signs, SignAsked(s) /\ BeginsIn(s, budget) PROVE \A t \in Signs : All(t)
    BY <1>7, <1>10, <2>3 DEF BeginsIn
  <2>4. ASSUME NEW s \in Signs, PlanSigns(s) /\ BeginsIn(s, asking["plan"].of) PROVE \A t \in Signs : All(t)
    BY <1>6, <1>8, <1>10, <2>4 DEF BeginsIn
  <2>5. QED BY <2>1, <2>2, <2>3, <2>4 DEF SignStep
<1>12. QED BY <1>11 DEF Stages, OfABudget, OfNone

-----------------------------------------------------------------------------
(* TX starts.                                                              *)

(* A sign that has read its head keeps it, and its budget.                 *)
LEMMA SignsPast ==
  ASSUME SignStep, NEW s \in Signs, sign[s].at \notin {"none", "head"}
  PROVE  /\ sign'[s].before = sign[s].before /\ sign'[s].with = sign[s].with
         /\ sign'[s].at \notin {"none", "head"}
         /\ sign'[s].at # sign[s].at => MovesOn(s) /\ Follows(s, sign[s].at, sign'[s].at)
<1>1. CASE sign' = sign
  BY <1>1
<1>2. ASSUME NEW u \in Signs, OthersWait(u), u # s PROVE sign'[s] = sign[s]
  BY <1>2 DEF OthersWait
<1>3. ASSUME NEW u \in Signs, MovesOn(u), u # s PROVE sign'[s] = sign[s]
  BY <1>2, <1>3 DEF MovesOn
<1>4. ASSUME NEW u \in Signs, NEW b, BeginsIn(u, b) PROVE sign'[s] = sign[s]
  BY <1>2, <1>4 DEF BeginsIn
<1>5. ASSUME MovesOn(s)
      PROVE  /\ sign'[s].before = sign[s].before /\ sign'[s].with = sign[s].with
             /\ Follows(s, sign[s].at, sign'[s].at) /\ sign'[s].at \notin {"none", "head"}
  BY <1>5 DEF MovesOn, Follows, Failed
<1>6. QED BY <1>1, <1>3, <1>4, <1>5 DEF SignStep

(* A TX start is made by a sign for the head it read.                      *)
LEMMA StartSteps ==
  ASSUME [BudgetNext]_budgetVars
  PROVE  \/ started' \subseteq started
         \/ \E s \in Signs : StartTx(s) /\ started' = {[by |-> s, over |-> sign[s].before]}
<1>1. ASSUME NEW s \in Signs, StartTx(s)
      PROVE  started' = started \/ started' = {[by |-> s, over |-> sign[s].before]}
  BY <1>1 DEF StartTx
<1>2. CASE \E s \in Signs : \/ ReadHead(s) \/ SignPaid(s) \/ SignRefused(s) \/ SignPressed(s) \/ SignUnheard(s)
                            \/ Look(s) \/ Pickup(s) \/ KeyOwed(s) \/ PlanSigns(s) \/ SignAsked(s)
  BY <1>2 DEF ReadHead, SignPaid, SignRefused, SignPressed, SignUnheard, Look, Pickup, KeyOwed, PlanSigns,
              SignAsked, Links
<1>3. CASE \/ PlanReceipts \/ PlanEnds \/ PlanRevokes \/ ContinueAsked \/ ContinueRevokes
           \/ EndAsked \/ EndRevokes \/ KeyLocks \/ OtherLinks
           \/ \E n \in 1 .. Len(ring) : AgentFiles(n)
           \/ \E e \in Execs : ExecAsked(e) \/ ExecOpens(e) \/ ExecCloses(e)
           \/ \E k \in Kinds : BudgetAsked(k) \/ PhoneDeclines(k) \/ PhoneGrants(k) \/ BudgetOpens(k)
           \/ UNCHANGED budgetVars
  BY <1>3 DEF PlanReceipts, PlanEnds, PlanRevokes, ContinueAsked, ContinueRevokes, EndAsked, EndRevokes,
              KeyLocks, OtherLinks, AgentFiles, ExecAsked, ExecOpens, ExecCloses, BudgetAsked, PhoneDeclines,
              PhoneGrants, BudgetOpens, budgetVars, Links, Revokes
<1>4. CASE \E w \in {"agent", "plan"} : FileReceipt(w) \/ AskNewest(w)
  BY <1>4 DEF FileReceipt, AskNewest, Links
<1>5. QED BY <1>1, <1>2, <1>3, <1>4, Zenon DEF BudgetNext, Working

(* The uses of the next state: those there were, or the one paid.          *)
LEMMA UseSteps ==
  ASSUME IInv, IInv', BInv, [BudgetNext]_budgetVars
  PROVE  \/ Owed' \subseteq Owed /\ \A n : IsUse(n)' => IsUse(n)
         \/ \E s \in Signs : \E b \in Payers(s) : \E n :
              /\ SignPaid(s) /\ MovesOn(s) /\ n = Len(ring) + 1
              /\ IsUse(n)' /\ ring'[n] = Use(s, b) /\ n = sign[s].before + 1
              /\ Owed = {} /\ Owed' = {n} /\ \A m : IsUse(m)' => IsUse(m) \/ m = n
              /\ SpentOf(b)' = SpentOf(b) + 1 /\ StepOf(n)' = SpentOf(b)'
<1>1. CASE NothingPaid /\ Owed' \subseteq Owed
  BY <1>1 DEF NothingPaid
<1>2. ASSUME NEW s \in Signs, SignPaid(s)
      PROVE  \E b \in Payers(s) : \E n :
              /\ SignPaid(s) /\ MovesOn(s) /\ n = Len(ring) + 1
              /\ IsUse(n)' /\ ring'[n] = Use(s, b) /\ n = sign[s].before + 1
              /\ Owed = {} /\ Owed' = {n} /\ \A m : IsUse(m)' => IsUse(m) \/ m = n
              /\ SpentOf(b)' = SpentOf(b) + 1 /\ StepOf(n)' = SpentOf(b)'
  <2>1. PICK n : n = Len(ring) + 1
    OBVIOUS
  <2>2. MovesOn(s)
    BY <1>2, UseMoves
  <2>3. PICK b \in Payers(s) :
          /\ Linked(Use(s, b)) /\ ring'[n] = Use(s, b) /\ n = sign[s].before + 1
          /\ Owed = {} /\ Owed' = {n} /\ \A m : IsUse(m)' => IsUse(m) \/ m = n
          /\ SpentOf(b)' = SpentOf(b) + 1 /\ StepOf(n)' = SpentOf(b)'
    BY <1>2, <2>1, PaidLinks, Zenon DEF BInv
  <2>4. Use(s, b).op = "use"
    BY DEF Use, Link
  <2>5. n \in 1 .. Len(ring')
    BY <2>1, <2>3 DEF Linked
  <2>6. IsUse(n)'
    BY <2>3, <2>4, <2>5 DEF IsUse
  <2>7. QED BY <1>2, <2>1, <2>2, <2>3, <2>6
<1>3. QED BY <1>1, <1>2, ChainSteps, Zenon

(* A sign pays over the head it read.                                      *)
LEMMA StartsHold ==
  ASSUME IInv, IInv', BInv, [BudgetNext]_budgetVars, SignStep, Grows PROVE Starts'
<1> USE DEF BInv
<1>1. ASSUME NEW t, t \in started
      PROVE  t = [by |-> t.by, over |-> t.over] /\ t.by \in Signs /\ sign'[t.by].at \notin {"none", "head"}
             /\ t.over = sign'[t.by].before
  BY <1>1, SignsPast DEF Starts
<1>2. ASSUME NEW s \in Signs, StartTx(s), NEW t, t = [by |-> s, over |-> sign[s].before]
      PROVE  t = [by |-> t.by, over |-> t.over] /\ t.by \in Signs /\ sign'[t.by].at \notin {"none", "head"}
             /\ t.over = sign'[t.by].before
  <2>1. sign[s].at \notin {"none", "head"}
    BY <1>2 DEF StartTx
  <2>2. QED BY <1>2, <2>1, SignsPast
<1>3. \A t \in started' : /\ t = [by |-> t.by, over |-> t.over] /\ t.by \in Signs
                          /\ sign'[t.by].at \notin {"none", "head"} /\ t.over = sign'[t.by].before
  BY <1>1, <1>2, StartSteps
<1> DEFINE Paid(n, s) == n = sign'[s].before + 1 /\ sign'[s].with # 0
<1>4. ASSUME NEW n, IsUse(n) PROVE Paid(n, ring'[n].sign)
  <2>1. ring'[n] = ring[n] /\ n = sign[ring[n].sign].before + 1 /\ sign[ring[n].sign].with # 0
    BY <1>4, PastStays DEF Starts
  <2>2. ring[n].sign \in Signs /\ sign[ring[n].sign].at \notin {"none", "head"}
    BY <1>4 DEF IInv, UsesArePast, PastKey
  <2>3. QED BY <2>1, <2>2, SignsPast
<1>5. ASSUME NEW s \in Signs, NEW b, NEW n, SignPaid(s), ring'[n] = Use(s, b), n = sign[s].before + 1
      PROVE  Paid(n, ring'[n].sign)
  <2>1. sign[s].at = "sign"
    BY <1>5 DEF SignPaid
  <2>2. sign'[s].before = sign[s].before /\ sign'[s].with = sign[s].with
    BY <2>1, SignsPast
  <2>3. Use(s, b).sign = s
    BY DEF Use, Link
  <2>4. sign[s].with \in DOMAIN book
    BY <2>1 DEF Stages, OfABudget, OfNone
  <2>5. sign[s].with # 0
    BY <2>4 DEF BudgetsOf, IsOpen
  <2>6. QED BY <1>5, <2>2, <2>3, <2>5
<1>6. \A n : IsUse(n)' => Paid(n, ring'[n].sign)
  BY <1>4, <1>5, UseSteps
<1>7. QED BY <1>3, <1>6 DEF Starts

(* One use is owed at a time: the key pays none before its receipt.        *)
LEMMA OneDebtHolds ==
  ASSUME IInv, IInv', BInv, [BudgetNext]_budgetVars PROVE OneDebt'
<1>1. CASE Owed' \subseteq Owed
  BY <1>1 DEF BInv, OneDebt
<1>2. CASE \E n : Owed' = {n}
  BY <1>2 DEF OneDebt
<1>3. QED BY <1>1, <1>2, UseSteps

-----------------------------------------------------------------------------
(* What commands are told, and what is owed.                               *)

(* A command is told.                                                      *)
LEMMA TellsThem ==
  ASSUME IInv, NEW s \in Signs, NEW links, Tells(s, links)
  PROVE  /\ \A e \in Execs : exec'[e].at = exec[e].at /\ exec[e].links \subseteq exec'[e].links
         /\ \A e \in Execs : Party(s) = "plan" \/ e # ExecOf[s] => exec'[e] = exec[e]
         /\ Party(s) # "plan" => exec'[ExecOf[s]].links = exec[ExecOf[s]].links \cup links
<1>1. exec = [e \in Execs |-> [at |-> exec[e].at, used |-> exec[e].used, links |-> exec[e].links]]
  BY DEF IInv, Shapes
<1>2. CASE Party(s) = "plan"
  BY <1>2 DEF Tells
<1>3. CASE Party(s) # "plan"
  <2>1. PICK f \in Execs : f = ExecOf[s]
    BY <1>3, BudgetAssumption DEF Party
  <2> DEFINE more == exec[f].links \cup links
             one == [exec[f] EXCEPT !.links = more]
  <2>2. exec' = [exec EXCEPT ![f] = one]
    BY <1>3, <2>1 DEF Tells
  <2>3. one = [at |-> exec[f].at, used |-> exec[f].used, links |-> more]
    <3>1. exec[f] = [at |-> exec[f].at, used |-> exec[f].used, links |-> exec[f].links]
      BY <1>1
    <3> HIDE DEF more
    <3>2. QED BY <3>1
  <2> HIDE DEF one
  <2>4. exec'[f] = one /\ \A e \in Execs : e # f => exec'[e] = exec[e]
    BY <1>1, <2>2
  <2>5. QED BY <1>3, <2>1, <2>3, <2>4
<1>4. QED BY <1>2, <1>3

(* A command is told of nothing by the other steps.                        *)
LEMMA CommandSteps ==
  ASSUME IInv, [BudgetNext]_budgetVars
  PROVE  \/ \A e \in Execs : exec'[e] = exec[e]
         \/ \E s \in Signs : SignAsked(s) /\ \A e \in Execs : exec'[e].at = exec[e].at /\ exec'[e].links = exec[e].links
         \/ \E f \in Execs : /\ ExecAsked(f) \/ ExecOpens(f) \/ ExecCloses(f)
                             /\ (exec'[f].at = "open" => Owed = {} /\ sign' = sign)
                             /\ \A e \in Execs : exec'[e].links = exec[e].links /\ (e # f => exec'[e] = exec[e])
         \/ \E s \in Signs : Pickup(s) \/ KeyOwed(s)
<1>1. exec = [e \in Execs |-> [at |-> exec[e].at, used |-> exec[e].used, links |-> exec[e].links]]
  BY DEF IInv, Shapes
<1>2. ASSUME NEW s \in Signs, SignAsked(s)
      PROVE  \A e \in Execs : exec'[e].at = exec[e].at /\ exec'[e].links = exec[e].links
  <2>1. PICK new, f : exec' = [exec EXCEPT ![f].used = new]
    BY <1>2, Zenon DEF SignAsked
  <2>2. QED BY <1>1, <2>1
<1>3. ASSUME NEW f \in Execs, NEW at, exec' = [exec EXCEPT ![f].at = at]
      PROVE  exec'[f].at = at /\ \A e \in Execs : exec'[e].links = exec[e].links /\ (e # f => exec'[e] = exec[e])
  BY <1>1, <1>3
<1>4. ASSUME NEW f \in Execs, ExecAsked(f) \/ ExecOpens(f) \/ ExecCloses(f)
      PROVE  /\ (exec'[f].at = "open" => Owed = {} /\ sign' = sign)
             /\ \A e \in Execs : exec'[e].links = exec[e].links /\ (e # f => exec'[e] = exec[e])
  <2>1. CASE ExecAsked(f) \/ ExecCloses(f)
    BY <1>3, <2>1 DEF ExecAsked, ExecCloses
  <2>2. CASE ExecOpens(f)
    <3> DEFINE at == IF Owed = {} /\ budget \in live THEN "open" ELSE "shut"
    <3>1. exec' = [exec EXCEPT ![f].at = at] /\ sign' = sign
      BY <2>2 DEF ExecOpens
    <3>2. at = "open" => Owed = {}
      OBVIOUS
    <3> HIDE DEF at
    <3>3. QED BY <1>3, <3>1, <3>2
  <2>3. QED BY <1>4, <2>1, <2>2
<1>5. CASE \E s \in Signs : \/ ReadHead(s) \/ StartTx(s) \/ SignPaid(s) \/ SignRefused(s) \/ SignPressed(s)
                            \/ SignUnheard(s) \/ Look(s) \/ PlanSigns(s)
  BY <1>5 DEF ReadHead, StartTx, SignPaid, SignRefused, SignPressed, SignUnheard, Look, PlanSigns
<1>6. CASE \/ PlanReceipts \/ PlanEnds \/ PlanRevokes \/ ContinueAsked \/ ContinueRevokes
           \/ EndAsked \/ EndRevokes \/ KeyLocks \/ OtherLinks
           \/ \E n \in 1 .. Len(ring) : AgentFiles(n)
           \/ \E k \in Kinds : BudgetAsked(k) \/ PhoneDeclines(k) \/ PhoneGrants(k) \/ BudgetOpens(k)
           \/ UNCHANGED budgetVars
  BY <1>6 DEF PlanReceipts, PlanEnds, PlanRevokes, ContinueAsked, ContinueRevokes, EndAsked, EndRevokes,
              KeyLocks, OtherLinks, AgentFiles, BudgetAsked, PhoneDeclines, PhoneGrants, BudgetOpens, budgetVars
<1>7. CASE \E w \in {"agent", "plan"} : FileReceipt(w) \/ AskNewest(w)
  <2>1. exec' = exec
    BY <1>7, Zenon DEF FileReceipt, AskNewest
  <2>2. QED BY <2>1
<1>8. QED BY <1>2, <1>4, <1>5, <1>6, <1>7, Zenon DEF BudgetNext, Working

(* What a command was told of, it is.                                      *)
LEMMA LinksKept ==
  ASSUME IInv, [BudgetNext]_budgetVars
  PROVE  \A e \in Execs : exec[e].links \subseteq exec'[e].links
<1>1. CASE \E s \in Signs : Pickup(s) \/ KeyOwed(s)
  <2>1. PICK s \in Signs : Pickup(s) \/ KeyOwed(s)
    BY <1>1
  <2>2. exec' = exec \/ \E links : Tells(s, links)
    BY <2>1 DEF Pickup, KeyOwed
  <2>3. QED BY <2>2, TellsThem
<1>2. QED BY <1>1, CommandSteps

(* A sign that was paid is of a budget.                                    *)
LEMMA PaidByABudget ==
  ASSUME IInv, BInv, NEW n, IsUse(n) PROVE OfABudget(ring[n].sign)
BY DEF BInv, Starts, Stages, OfNone, IInv, UsesArePast, PastKey

(* A use is found where it is, and noted.                                  *)
LEMMA FoundIsNoted ==
  ASSUME IInv, BInv, NEW s \in Signs, NEW m, IsUseOf(m, s), Notes(s, m), sign[s].at # "none",
         NEW n, IsUse(n), ring[n].sign = s
  PROVE  m = n /\ n \in book'[sign[s].with].owed
<1>1. IsUse(m) /\ ring[m].sign = s
  BY DEF IsUseOf, IsUse
<1>2. m = n
  BY <1>1 DEF IInv, OneUseEach
<1>3. sign[s].with \in DOMAIN book /\ BookShape
  BY PaidByABudget DEF BInv, Ledgers, OfABudget
<1>4. book'[sign[s].with].owed = book[sign[s].with].owed \cup {m}
  BY <1>3, NotesIt DEF Entered
<1>5. QED BY <1>2, <1>4

(* A debt found or missed, as its sign looks for it.                       *)
LEMMA DebtsFound ==
  ASSUME IInv, IInv', BInv, BooksKept, NEW n \in Owed, NEW s \in Signs, s = ring[n].sign,
         Look(s) \/ Pickup(s) \/ KeyOwed(s), MovesOn(s), faults'.lost >= faults.lost,
         NEW lost, lost = faults.lost, NEW more, more = faults'.lost,
         NEW b, b = sign[s].with, NEW at, at = sign'[s].at, n \in Owed'
  PROVE  /\ at \in {"newest", "look"} => more >= 1
         /\ at = "owes?" => n \in book'[b].owed \/ more >= 1
         /\ at = "told" => n \in book'[b].owed
         /\ at = "failed" =>
              \/ n \in book'[b].owed
              \/ Party(s) = "service" /\ Said(n, FALSE) \in exec'[ExecOf[s]].links /\ more >= 1
              \/ Party(s) = "plan" /\ more = 1 /\ n < Len(ring)
              \/ more > 1
<1> USE DEF BInv
<1>1. IsUse(n) /\ n = sign[s].before + 1 /\ IsUseOf(n, s) /\ n \in 1 .. Len(ring)
  BY OwedMeans DEF Starts, IsUse, IsUseOf
<1>2. KnownAt(n, s)
  BY DEF DebtsKnown
<1>3. lost \in Nat /\ more \in Nat /\ lost <= more /\ Len(ring) \in Nat
  <2>1. lost \in Nat /\ MaxLost \in Nat
    BY BudgetAssumption DEF Faults
  <2>2. ASSUME NEW how, Heard(how) PROVE more \in Nat
    BY <2>1, <2>2, HeardOrLost, BudgetAssumption DEF Faults
  <2>3. \E how : Heard(how)
    BY DEF Look, Pickup, KeyOwed
  <2>4. QED BY <2>1, <2>2, <2>3, ChainIsFinite
<1>4. Failed(s) = (IF Party(s) = "plan" THEN "failed" ELSE "owes?") /\ Party(s) \in {"plan", "service"}
  BY DEF Failed, Party
<1>5. CASE Look(s)
  <2>1. PICK how \in {"answered", "unheard"} :
          /\ Heard(how)
          /\ IF how = "answered" /\ IsUseOf(sign[s].before + 1, s)
             THEN Notes(s, sign[s].before + 1) ELSE UNCHANGED book
    BY <1>5 DEF Look
  <2>2. sign[s].at = "look" /\ at = Failed(s) /\ lost >= 1
    BY <1>2, <1>5, GoesTo DEF Look, KnownAt
  <2>3. CASE how = "answered"
    <3>1. Notes(s, n)
      BY <1>1, <2>1, <2>3
    <3>2. n \in book'[b].owed
      BY <1>1, <2>2, <3>1, FoundIsNoted
    <3>3. QED BY <1>3, <1>4, <2>2, <3>2
  <2>4. CASE how # "answered"
    <3>1. more = lost + 1
      BY <2>1, <2>4, HeardOrLost
    <3>2. more >= 1 /\ more > 1
      BY <1>3, <2>2, <3>1
    <3>3. at \in {"failed", "owes?"}
      BY <1>4, <2>2
    <3>4. QED BY <3>2, <3>3
  <2>5. QED BY <2>3, <2>4
<1>6. CASE Pickup(s)
  <2>1. sign[s].at \in {"pickup", "newest"}
    BY <1>6 DEF Pickup
  <2>2. PICK m : m = IF sign[s].at = "pickup" THEN sign[s].before + 1 ELSE Len(ring)
    OBVIOUS
  <2>3. PICK how \in {"answered", "unheard"} :
          /\ Heard(how)
          /\ IF how = "answered" /\ IsUseOf(m, s) THEN Notes(s, m) ELSE UNCHANGED <<book, exec>>
          /\ To(s, IF how = "answered" /\ IsUseOf(m, s) THEN "told"
                   ELSE IF sign[s].at = "pickup" THEN "newest" ELSE Failed(s))
    BY <1>6, <2>2 DEF Pickup
  <2>4. CASE how = "answered" /\ IsUseOf(m, s)
    <3>1. n \in book'[b].owed
      BY <1>1, <2>1, <2>3, <2>4, FoundIsNoted
    <3>2. at = "told"
      BY <2>3, <2>4, GoesTo
    <3>3. QED BY <3>1, <3>2
  <2>5. CASE ~(how = "answered" /\ IsUseOf(m, s))
    <3>1. at = IF sign[s].at = "pickup" THEN "newest" ELSE Failed(s)
      BY <2>3, <2>5, GoesTo
    <3>2. how # "answered" => more = lost + 1
      BY <2>3, HeardOrLost
    <3>3. CASE sign[s].at = "pickup"
      <4>1. m = n
        BY <1>1, <2>2, <3>3
      <4>2. more = lost + 1
        <5>1. IsUseOf(m, s)
          BY <1>1, <4>1, Zenon
        <5>2. how # "answered"
          BY <2>5, <5>1, Zenon
        <5>3. QED BY <3>2, <5>2, Zenon
      <4>3. more >= 1
        BY <1>3, <4>2
      <4>4. at = "newest"
        BY <3>1, <3>3
      <4>5. QED BY <4>3, <4>4
    <3>4. CASE sign[s].at = "newest"
      <4>1. m = Len(ring) /\ lost >= 1 /\ at = Failed(s)
        BY <1>2, <2>2, <3>1, <3>4 DEF KnownAt
      <4>2. CASE how = "answered"
        <5>1. ~IsUseOf(m, s)
          BY <2>5, <4>2, Zenon
        <5>2. n # m
          BY <1>1, <5>1, Zenon
        <5>3. n < Len(ring)
          <6>1. n \in 1 .. Len(ring) /\ Len(ring) \in Nat /\ n # Len(ring)
            BY <1>1, <1>3, <4>1, <5>2, Zenon
          <6>2. QED BY <6>1
        <5>4. at = "failed" => Party(s) = "plan"
          BY <1>4, <4>1
        <5>5. at \in {"failed", "owes?"}
          BY <1>4, <4>1
        <5>6. more >= 1 /\ (more = 1 \/ more > 1)
          BY <1>3, <4>1
        <5>7. QED BY <5>3, <5>4, <5>5, <5>6
      <4>3. CASE how # "answered"
        <5>1. more = lost + 1
          BY <3>2, <4>3, Zenon
        <5>2. more >= 1 /\ more > 1
          BY <1>3, <4>1, <5>1
        <5>3. at \in {"failed", "owes?"}
          BY <1>4, <4>1
        <5>4. QED BY <5>2, <5>3
      <4>4. QED BY <4>2, <4>3
    <3>5. QED BY <2>1, <3>3, <3>4
  <2>6. QED BY <2>4, <2>5
<1>7. CASE KeyOwed(s)
  <2>1. sign[s].at = "owes?" /\ at = "failed" /\ Party(s) = "service"
    BY <1>7, GoesTo DEF KeyOwed, Stages
  <2>2. CASE n \in book[b].owed
    <3>1. OfABudget(s)
      BY OwedMeans, PaidByABudget
    <3>3. n \in book'[b].owed
      BY <2>2, <3>1 DEF BooksKept, OfABudget
    <3>2. QED BY <2>1, <3>3
  <2>3. CASE n \notin book[b].owed
    <3>1. lost >= 1
      BY <1>2, <2>1, <2>3 DEF KnownAt
    <3>2. PICK how \in {"answered", "unheard"} :
            /\ Heard(how)
            /\ Tells(s, IF how = "unheard" THEN {}
                   ELSE {Said(k, FALSE) : k \in {k \in Owed : Said(k, TRUE) \notin exec[ExecOf[s]].links}})
      BY <1>7 DEF KeyOwed
    <3>3. CASE how = "unheard"
      <4>1. more > 1
        BY <1>3, <3>1, <3>2, <3>3, HeardOrLost
      <4>2. QED BY <2>1, <4>1
    <3>4. CASE how = "answered"
      <4>1. ExecOf[s] \in Execs
        BY <2>1, BudgetAssumption DEF Party
      <4>2. Said(n, TRUE) \notin exec[ExecOf[s]].links
        <5>1. Said(n, TRUE).seq = n /\ Said(n, TRUE).ok
          BY Zenon DEF Said
        <5>2. QED BY <2>1, <4>1, <5>1 DEF ToldLinks
      <4>3. Said(n, FALSE) \in exec'[ExecOf[s]].links
        <5> DEFINE said == {Said(k, FALSE) : k \in {k \in Owed : Said(k, TRUE) \notin exec[ExecOf[s]].links}}
        <5>1. Said(n, FALSE) \in said
          BY <4>2
        <5>2. Tells(s, said)
          BY <3>2, <3>4
        <5> HIDE DEF said
        <5>3. exec'[ExecOf[s]].links = exec[ExecOf[s]].links \cup said
          BY <2>1, <5>2, TellsThem
        <5>4. QED BY <5>1, <5>3
      <4>4. more >= 1
        BY <1>3, <3>1
      <4>5. QED BY <2>1, <4>3, <4>4
    <3>5. QED BY <3>2, <3>3, <3>4
  <2>4. QED BY <2>2, <2>3
<1>8. QED BY <1>5, <1>6, <1>7

(* A sign that looks for its use is moved by its own steps only.           *)
LEMMA LookingMoves ==
  ASSUME IInv, [BudgetNext]_budgetVars, NEW s \in Signs, sign[s].at \in PastKey
  PROVE  sign'[s] = sign[s] \/ Look(s) \/ Pickup(s) \/ KeyOwed(s)
<1>1. ASSUME NEW u \in Signs, u # s,
             \/ ReadHead(u) \/ StartTx(u) \/ SignPaid(u) \/ SignRefused(u) \/ SignPressed(u) \/ SignUnheard(u)
             \/ Look(u) \/ Pickup(u) \/ KeyOwed(u)
      PROVE  sign'[s] = sign[s]
  BY <1>1, HeadIsRead, UseMoves DEF MovesOn, OthersWait
<1>2. ASSUME NEW u \in Signs, SignAsked(u) \/ PlanSigns(u) PROVE sign'[s] = sign[s]
  <2>1. u # s
    BY <1>2 DEF SignAsked, PlanSigns, Begins, PastKey
  <2>2. \E b : BeginsIn(u, b)
    BY <1>2, UseBegins DEF SignAsked, PlanSigns
  <2>3. QED BY <2>1, <2>2 DEF BeginsIn, OthersWait
<1>3. ~(ReadHead(s) \/ StartTx(s) \/ SignPaid(s) \/ SignRefused(s) \/ SignPressed(s) \/ SignUnheard(s))
  BY DEF ReadHead, StartTx, SignPaid, SignRefused, SignPressed, SignUnheard, PastKey
<1>4. CASE \/ PlanReceipts \/ PlanEnds \/ PlanRevokes \/ ContinueAsked \/ ContinueRevokes
           \/ EndAsked \/ EndRevokes \/ KeyLocks \/ OtherLinks
           \/ \E n \in 1 .. Len(ring) : AgentFiles(n)
           \/ \E e \in Execs : ExecAsked(e) \/ ExecOpens(e) \/ ExecCloses(e)
           \/ \E k \in Kinds : BudgetAsked(k) \/ PhoneDeclines(k) \/ PhoneGrants(k) \/ BudgetOpens(k)
           \/ \E w \in {"agent", "plan"} : FileReceipt(w) \/ AskNewest(w)
           \/ UNCHANGED budgetVars
  BY <1>4 DEF PlanReceipts, PlanEnds, PlanRevokes, ContinueAsked, ContinueRevokes, EndAsked, EndRevokes,
              KeyLocks, OtherLinks, AgentFiles, ExecAsked, ExecOpens, ExecCloses, BudgetAsked, PhoneDeclines,
              PhoneGrants, BudgetOpens, FileReceipt, AskNewest, budgetVars
<1>5. ASSUME NEW u \in Signs,
             \/ ReadHead(u) \/ StartTx(u) \/ SignPaid(u) \/ SignRefused(u) \/ SignPressed(u) \/ SignUnheard(u)
             \/ Look(u) \/ Pickup(u) \/ KeyOwed(u)
      PROVE  sign'[s] = sign[s] \/ Look(s) \/ Pickup(s) \/ KeyOwed(s)
  <2>1. CASE u # s
    BY <1>1, <1>5, <2>1
  <2>2. CASE u = s
    BY <1>3, <1>5, <2>2, Zenon
  <2>3. QED BY <2>1, <2>2
<1>6. QED BY <1>2, <1>4, <1>5, Zenon DEF BudgetNext, Working

(* What makes a debt known in the next state.                              *)
LEMMA KnownSoon ==
  ASSUME NEW n, NEW s, NEW b, b = sign'[s].with, NEW at, at = sign'[s].at, NEW more, more = faults'.lost,
         at \in {"newest", "look"} => more >= 1,
         at = "owes?" => n \in book'[b].owed \/ more >= 1,
         at = "told" => n \in book'[b].owed,
         at = "failed" =>
           \/ n \in book'[b].owed
           \/ Party(s) = "service" /\ Said(n, FALSE) \in exec'[ExecOf[s]].links /\ more >= 1
           \/ Party(s) = "plan" /\ more = 1 /\ n < Len(ring')
           \/ more > 1
  PROVE  KnownAt(n, s)'
BY Zenon DEF KnownAt

(* A debt that is left as it was.                                          *)
LEMMA DebtsStay ==
  ASSUME IInv, BInv, Grows, BooksKept, NEW n \in Owed, n \in Owed', NEW s \in Signs, s = ring[n].sign,
         sign'[s] = sign[s], \A e \in Execs : exec[e].links \subseteq exec'[e].links,
         NEW lost \in Nat, lost = faults.lost, NEW more \in Nat, more = faults'.lost, lost <= more
  PROVE  KnownAt(n, s)'
<1> USE DEF BInv
<1>1. KnownAt(n, s)
  BY DEF DebtsKnown
<1>2. PICK b : b = sign[s].with /\ b = sign'[s].with
  OBVIOUS
<1>3. PICK at : at = sign[s].at /\ at = sign'[s].at
  OBVIOUS
<1>4. IsUse(n) /\ n \in 1 .. Len(ring)
  BY OwedMeans DEF IsUse
<1>5. at # "none"
  BY <1>3, <1>4 DEF IInv, UsesArePast, PastKey
<1>6. n \in book[b].owed => n \in book'[b].owed
  BY <1>2, <1>4, PaidByABudget DEF OfABudget, BooksKept
<1>7. Party(s) = "service" /\ Said(n, FALSE) \in exec[ExecOf[s]].links => Said(n, FALSE) \in exec'[ExecOf[s]].links
  <2>1. Party(s) = "service" => ExecOf[s] \in Execs
    BY BudgetAssumption DEF Party
  <2>2. QED BY <2>1
<1>8. (at \in {"newest", "look"} => more >= 1) /\ (at = "owes?" => n \in book'[b].owed \/ more >= 1)
  <2>1. (at \in {"newest", "look"} => lost >= 1) /\ (at = "owes?" => n \in book[b].owed \/ lost >= 1)
    BY <1>1, <1>2, <1>3 DEF KnownAt
  <2>2. lost >= 1 => more >= 1
    OBVIOUS
  <2>3. QED BY <1>6, <2>1, <2>2, Zenon
<1>9. at = "told" => n \in book'[b].owed
  <2>1. at = "told" => n \in book[b].owed
    BY <1>1, <1>2, <1>3 DEF KnownAt
  <2>2. QED BY <1>6, <2>1
<1>10. ASSUME at = "failed"
       PROVE  \/ n \in book'[b].owed
              \/ Party(s) = "service" /\ Said(n, FALSE) \in exec'[ExecOf[s]].links /\ more >= 1
              \/ Party(s) = "plan" /\ more = 1 /\ n < Len(ring')
              \/ more > 1
  <2>1. \/ n \in book[b].owed
        \/ Party(s) = "service" /\ Said(n, FALSE) \in exec[ExecOf[s]].links /\ lost >= 1
        \/ Party(s) = "plan" /\ lost = 1 /\ n < Len(ring)
        \/ lost > 1
    BY <1>1, <1>2, <1>3, <1>10 DEF KnownAt
  <2>2. (lost >= 1 => more >= 1) /\ (lost = 1 => more = 1 \/ more > 1) /\ (lost > 1 => more > 1)
    OBVIOUS
  <2>3. n < Len(ring) => n < Len(ring')
    BY <1>4 DEF Grows
  <2>4. QED BY <1>6, <1>7, <2>1, <2>2, <2>3, Zenon
<1>11. QED BY <1>2, <1>3, <1>8, <1>9, <1>10, KnownSoon, Zenon

(* What is owed is known.                                                  *)
LEMMA DebtsKnownHold ==
  ASSUME IInv, IInv', BInv, [BudgetNext]_budgetVars, SignStep, Grows, BooksKept, Faults',
         faults'.lost >= faults.lost
  PROVE  DebtsKnown'
<1> USE DEF BInv
<1>1. PICK lost, more : lost = faults.lost /\ more = faults'.lost
  OBVIOUS
<1>2. lost \in Nat /\ more \in Nat /\ lost <= more
  <2>1. MaxLost \in Nat
    BY BudgetAssumption
  <2>2. QED BY <1>1, <2>1 DEF Faults
<1>3. \A e \in Execs : exec[e].links \subseteq exec'[e].links
  BY LinksKept
<1>4. ASSUME NEW n \in Owed, n \in Owed' PROVE KnownAt(n, ring[n].sign)' /\ ring'[n] = ring[n]
  <2>1. IsUse(n) /\ ring'[n] = ring[n]
    BY <1>4, OwedMeans, PastStays
  <2>2. PICK s \in Signs : s = ring[n].sign /\ s = ring'[n].sign
    BY <2>1 DEF IInv, UsesArePast
  <2>3. sign[s].at \in PastKey
    BY <2>1, <2>2 DEF IInv, UsesArePast
  <2>4. CASE sign'[s] = sign[s]
    <3>1. KnownAt(n, s)'
      BY <1>1, <1>2, <1>3, <1>4, <2>2, <2>4, DebtsStay
    <3>2. QED BY <2>1, <2>2, <3>1
  <2>5. CASE Look(s) \/ Pickup(s) \/ KeyOwed(s)
    <3>1. PICK b, at : b = sign[s].with /\ at = sign'[s].at
      OBVIOUS
    <3>2. MovesOn(s)
      BY <2>5, UseMoves
    <3>3. b = sign'[s].with
      BY <3>1, <3>2 DEF MovesOn
    <3>4. /\ at \in {"newest", "look"} => more >= 1
          /\ at = "owes?" => n \in book'[b].owed \/ more >= 1
          /\ at = "told" => n \in book'[b].owed
          /\ at = "failed" =>
               \/ n \in book'[b].owed
               \/ Party(s) = "service" /\ Said(n, FALSE) \in exec'[ExecOf[s]].links /\ more >= 1
               \/ Party(s) = "plan" /\ more = 1 /\ n < Len(ring)
               \/ more > 1
      BY <1>1, <1>4, <2>2, <2>5, <3>1, <3>2, DebtsFound, Zenon
    <3>5. n < Len(ring) => n < Len(ring')
      BY <2>1 DEF Grows, IsUse
    <3>6. KnownAt(n, s)'
      <4>1. at = "failed" =>
              \/ n \in book'[b].owed
              \/ Party(s) = "service" /\ Said(n, FALSE) \in exec'[ExecOf[s]].links /\ more >= 1
              \/ Party(s) = "plan" /\ more = 1 /\ n < Len(ring')
              \/ more > 1
        BY <3>4, <3>5, Zenon
      <4>2. /\ at \in {"newest", "look"} => more >= 1
            /\ at = "owes?" => n \in book'[b].owed \/ more >= 1
            /\ at = "told" => n \in book'[b].owed
        BY <3>4, Zenon
      <4>3. b = sign'[s].with /\ at = sign'[s].at /\ more = faults'.lost
        BY <1>1, <3>1, <3>3
      <4> HIDE DEF BInv
      <4>4. QED BY <4>1, <4>2, <4>3, Zenon DEF KnownAt
    <3>7. QED BY <2>1, <2>2, <3>6
  <2>6. QED BY <2>3, <2>4, <2>5, LookingMoves
<1>5. ASSUME NEW s \in Signs, NEW n, SignPaid(s), ring'[n].sign = s PROVE KnownAt(n, s)'
  <2>1. PICK how \in {"answered", "lost"} :
          Heard(how) /\ To(s, IF how = "answered" THEN "pickup" ELSE "look")
    BY <1>5 DEF SignPaid
  <2>2. PICK b, at : b = sign'[s].with /\ at = sign'[s].at
    OBVIOUS
  <2>3. at = IF how = "answered" THEN "pickup" ELSE "look"
    BY <2>1, <2>2, GoesTo
  <2>4. at \in {"newest", "look"} => more >= 1
    BY <1>1, <1>2, <2>1, <2>3, HeardOrLost
  <2>5. at \notin {"owes?", "told", "failed"}
    BY <2>3
  <2>6. QED BY <1>1, <2>2, <2>4, <2>5, KnownSoon, Zenon
<1>6. CASE Owed' \subseteq Owed
  <2>1. ASSUME NEW n \in Owed' PROVE KnownAt(n, ring[n].sign)' /\ ring'[n] = ring[n]
    BY <1>4, <1>6, <2>1
  <2>2. ASSUME NEW n \in Owed', NEW s, s = ring'[n].sign PROVE KnownAt(n, s)'
    <3>1. s = ring[n].sign
      BY <2>1, <2>2
    <3>2. QED BY <2>1, <3>1
  <2>3. QED BY <2>2, Zenon DEF DebtsKnown, KnownAt
<1>7. ASSUME NEW s \in Signs, NEW b, NEW n, SignPaid(s), ring'[n] = Use(s, b), Owed' = {n} PROVE DebtsKnown'
  <2>1. ring'[n].sign = s
    BY <1>7 DEF Use, Link
  <2>2. KnownAt(n, s)'
    BY <1>5, <1>7, <2>1
  <2>3. ASSUME NEW m \in Owed', NEW t, t = ring'[m].sign PROVE KnownAt(m, t)'
    BY <1>7, <2>1, <2>2, <2>3
  <2>4. QED BY <2>3, Zenon DEF DebtsKnown, KnownAt
<1>8. QED BY <1>6, <1>7, UseSteps

(* Who is at work, was.                                                    *)
LEMMA WorkStays ==
  ASSUME IInv, BInv, [BudgetNext]_budgetVars, SignStep, NEW e \in Execs, AtWork(e)'
  PROVE  AtWork(e) \/ (Owed = {} /\ sign' = sign)
<1> USE DEF BInv
<1>1. ASSUME NEW s \in Signs, MovesOn(s), sign'[s].at \notin Done \cup {"none"} PROVE sign[s].at \notin Done \cup {"none"}
  BY <1>1 DEF MovesOn, Follows, Done
<1>2. ASSUME NEW t \in Signs, t \in InUse', ExecOf[t] = e PROVE AtWork(e)
  <2>1. sign'[t].at \notin Done \cup {"none"}
    BY <1>2 DEF InUse
  <2>2. ASSUME sign[t].at \notin Done \cup {"none"} PROVE AtWork(e)
    BY <1>2, <2>2 DEF AtWork, InUse
  <2>3. CASE sign' = sign
    BY <2>1, <2>2, <2>3
  <2>4. ASSUME NEW s \in Signs, MovesOn(s) PROVE AtWork(e)
    BY <1>1, <2>1, <2>2, <2>4 DEF MovesOn, OthersWait
  <2>5. ASSUME NEW s \in Signs, SignAsked(s) /\ BeginsIn(s, budget) PROVE AtWork(e)
    <3>1. CASE t = s
      BY <1>2, <2>5, <3>1 DEF SignAsked, AtWork
    <3>2. CASE t # s
      BY <2>1, <2>2, <2>5, <3>2 DEF BeginsIn, OthersWait
    <3>3. QED BY <3>1, <3>2
  <2>6. ASSUME NEW s \in Signs, PlanSigns(s) /\ BeginsIn(s, asking["plan"].of) PROVE AtWork(e)
    <3>1. t # s
      BY <1>2, <2>6, BudgetAssumption DEF PlanSigns, PlanItems
    <3>2. QED BY <2>1, <2>2, <2>6, <3>1 DEF BeginsIn, OthersWait
  <2>7. QED BY <2>3, <2>4, <2>5, <2>6 DEF SignStep
<1>3. ASSUME exec'[e].at = "open", exec[e].at # "open" PROVE Owed = {} /\ sign' = sign
  <2>1. ASSUME NEW s \in Signs, Pickup(s) \/ KeyOwed(s) PROVE FALSE
    <3>1. exec' = exec \/ \E links : Tells(s, links)
      BY <2>1 DEF Pickup, KeyOwed
    <3>2. exec'[e].at = exec[e].at
      BY <3>1, TellsThem
    <3>3. QED BY <1>3, <3>2
  <2>2. QED BY <1>3, <2>1, CommandSteps
<1>4. InUse' \subseteq Signs
  BY DEF InUse
<1>5. CASE \E t \in InUse' : ExecOf[t] = e
  BY <1>2, <1>4, <1>5
<1>6. CASE exec'[e].at = "open"
  BY <1>3, <1>6 DEF AtWork
<1>7. QED BY <1>5, <1>6 DEF AtWork

(* Nobody crosses back.                                                    *)
LEMMA CrossedGrows ==
  ASSUME [BudgetNext]_budgetVars PROVE crossed \subseteq crossed'
<1>1. CASE \E s \in Signs : \/ ReadHead(s) \/ StartTx(s) \/ SignPaid(s) \/ SignRefused(s) \/ SignPressed(s)
                            \/ SignUnheard(s) \/ Look(s) \/ Pickup(s) \/ KeyOwed(s) \/ PlanSigns(s) \/ SignAsked(s)
  BY <1>1 DEF ReadHead, StartTx, SignPaid, SignRefused, SignPressed, SignUnheard, Look, Pickup, KeyOwed,
              PlanSigns, SignAsked
<1>2. CASE \/ PlanReceipts \/ PlanEnds \/ PlanRevokes \/ ContinueAsked \/ ContinueRevokes
           \/ EndAsked \/ EndRevokes \/ KeyLocks \/ OtherLinks
           \/ \E n \in 1 .. Len(ring) : AgentFiles(n)
           \/ \E e \in Execs : ExecAsked(e) \/ ExecOpens(e) \/ ExecCloses(e)
           \/ \E k \in Kinds : BudgetAsked(k) \/ PhoneDeclines(k) \/ PhoneGrants(k) \/ BudgetOpens(k)
           \/ UNCHANGED budgetVars
  BY <1>2 DEF PlanReceipts, PlanEnds, PlanRevokes, ContinueAsked, ContinueRevokes, EndAsked, EndRevokes,
              KeyLocks, OtherLinks, AgentFiles, ExecAsked, ExecOpens, ExecCloses, BudgetAsked, PhoneDeclines,
              PhoneGrants, BudgetOpens, budgetVars
<1>3. CASE \E w \in {"agent", "plan"} : FileReceipt(w) \/ AskNewest(w)
  <2>1. crossed' = crossed
    BY <1>3, Zenon DEF FileReceipt, AskNewest
  <2>2. QED BY <2>1
<1>4. QED BY <1>1, <1>2, <1>3, Zenon DEF BudgetNext, Working

(* What a command is told by a step.                                       *)
LEMMA NewsOf ==
  ASSUME IInv, IInv', BInv, [BudgetNext]_budgetVars, NEW e \in Execs, NEW l \in exec'[e].links, l \notin exec[e].links
  PROVE  /\ exec[e].used
         /\ l.ok => IsUse(l.seq) /\ ring[l.seq].sign \in Signs /\ sign'[ring[l.seq].sign].at = "told"
         /\ e \notin crossed => l.seq \in UsesIn(e)
<1> USE DEF BInv
<1>1. PICK s \in Signs : Pickup(s) \/ KeyOwed(s)
  BY CommandSteps
<1>2. sign[s].at \in {"pickup", "newest", "owes?"}
  BY <1>1 DEF Pickup, KeyOwed
<1>3. ASSUME NEW links, Tells(s, links) PROVE Party(s) # "plan" /\ e = ExecOf[s] /\ l \in links
  BY <1>3, TellsThem
<1>4. ASSUME e = ExecOf[s] PROVE exec[e].used /\ s \in InUse /\ AtWork(e)
  <2>1. Asks(s, e)
    BY <1>2, <1>4 DEF Asks
  <2>2. s \in InUse
    BY <1>2 DEF InUse, Done
  <2>3. QED BY <1>4, <2>1, <2>2 DEF IInv, OneSignEach, AtWork
<1>5. CASE Pickup(s)
  <2>1. PICK m : IsUseOf(m, s) /\ Tells(s, {Said(m, TRUE)}) /\ To(s, "told")
    <3>1. exec' # exec
      OBVIOUS
    <3>2. QED BY <1>5, <3>1, Zenon DEF Pickup
  <2>2. PICK said : said = Said(m, TRUE)
    OBVIOUS
  <2>3. l = Said(m, TRUE) /\ e = ExecOf[s]
    <3>1. PICK links : links = {said}
      OBVIOUS
    <3>2. Tells(s, links)
      BY <2>1, <2>2, <3>1, Zenon
    <3>3. l \in links /\ e = ExecOf[s]
      BY <1>3, <3>2
    <3>4. l = said
      BY <3>1, <3>3
    <3>5. QED BY <2>2, <3>3, <3>4, Zenon
  <2>4. l.seq = m
    BY <2>3, Zenon DEF Said
  <2>5. IsUse(m) /\ ring[m].sign = s /\ m \in UsesIn(e)
    BY <2>1, <2>3 DEF IsUseOf, IsUse, UsesIn
  <2>6. sign'[s].at = "told"
    BY <2>1, GoesTo
  <2>7. QED BY <1>4, <2>3, <2>4, <2>5, <2>6
<1>6. CASE KeyOwed(s)
  <2>1. PICK how \in {"answered", "unheard"} :
          Tells(s, IF how = "unheard" THEN {}
                   ELSE {Said(k, FALSE) : k \in {k \in Owed : Said(k, TRUE) \notin exec[ExecOf[s]].links}})
    BY <1>6 DEF KeyOwed
  <2>2. l \in {Said(k, FALSE) : k \in {k \in Owed : Said(k, TRUE) \notin exec[ExecOf[s]].links}} /\ e = ExecOf[s]
    BY <1>3, <2>1
  <2>3. PICK k \in Owed : l = Said(k, FALSE)
    BY <2>2
  <2>4. l.seq = k /\ ~l.ok
    BY <2>3, Zenon DEF Said
  <2>5. e \notin crossed => k \in UsesIn(e)
    BY <1>4, <2>2 DEF ToldLinks
  <2>6. QED BY <1>4, <2>2, <2>4, <2>5, Zenon
<1>7. QED BY <1>1, <1>5, <1>6

(* A command that is used, stays so.                                       *)
LEMMA UsedKept ==
  ASSUME IInv, [BudgetNext]_budgetVars, NEW e \in Execs, exec[e].used PROVE exec'[e].used
<1>1. ASSUME NEW s \in Signs, SignAsked(s) PROVE exec'[e].used
  <2> DEFINE yes == TRUE
  <2>1. exec' = [exec EXCEPT ![ExecOf[s]].used = yes] /\ yes
    BY <1>1, Zenon DEF SignAsked
  <2>2. ExecOf[s] \in Execs
    BY <1>1, BudgetAssumption DEF SignAsked, Party
  <2> HIDE DEF yes
  <2>3. PICK g \in Execs : g = ExecOf[s]
    BY <2>2
  <2>4. exec' = [exec EXCEPT ![g].used = yes]
    BY <2>1, <2>3
  <2>5. exec'[ExecOf[s]].used = yes /\ \A f \in Execs : f # ExecOf[s] => exec'[f] = exec[f]
    <3>1. exec'[g].used = yes /\ \A f \in Execs : f # g => exec'[f] = exec[f]
      BY <2>4, ExecUsed
    <3>2. QED BY <2>3, <3>1, Zenon
  <2>6. CASE e = ExecOf[s]
    BY <2>1, <2>5, <2>6, Zenon
  <2>7. CASE e # ExecOf[s]
    BY <2>5, <2>7
  <2>8. QED BY <2>6, <2>7
<1>2. ASSUME NEW f \in Execs, ExecAsked(f) \/ ExecOpens(f) \/ ExecCloses(f) PROVE exec'[e].used
  <2>1. \E at : exec' = [exec EXCEPT ![f].at = at]
    BY <1>2 DEF ExecAsked, ExecOpens, ExecCloses
  <2>2. UsedStays
    BY <2>1, ExecGoesOn
  <2>3. QED BY <2>2 DEF UsedStays
<1>3. ASSUME NEW s \in Signs, Pickup(s) \/ KeyOwed(s) PROVE exec'[e].used
  <2>1. exec' = exec \/ \E links : Tells(s, links)
    BY <1>3 DEF Pickup, KeyOwed
  <2>2. UsedStays
    BY <2>1, ToldOfLinks, ExecsStay
  <2>3. QED BY <2>2 DEF UsedStays
<1>4. QED BY <1>1, <1>2, <1>3, CommandSteps, Zenon

(* What commands are told, stays true.                                     *)
LEMMA ToldHolds ==
  ASSUME IInv, IInv', BInv, [BudgetNext]_budgetVars, SignStep, Grows PROVE ToldLinks'
<1> USE DEF BInv
<1>1. \A n : IsUse(n) => IsUse(n)' /\ ring'[n] = ring[n]
  BY PastStays
<1>2. \A e \in Execs : UsesIn(e) \subseteq UsesIn(e)'
  BY <1>1 DEF UsesIn, IsUse
<1>3. crossed \subseteq crossed'
  BY CrossedGrows
<1>4. ASSUME NEW e \in Execs, exec[e].used PROVE exec'[e].used
  BY <1>4, UsedKept
<1>5. ASSUME NEW e \in Execs, NEW l \in exec'[e].links
      PROVE  exec'[e].used /\ (e \notin crossed' => l.seq \in UsesIn(e)')
  <2>1. CASE l \in exec[e].links
    BY <1>2, <1>3, <1>4, <2>1 DEF ToldLinks
  <2>2. CASE l \notin exec[e].links
    BY <1>2, <1>3, <1>4, <2>2, NewsOf
  <2>3. QED BY <2>1, <2>2
<1>6. ASSUME NEW e \in Execs, NEW l \in exec'[e].links, l.ok
      PROVE  IsUse(l.seq)' /\ sign'[ring'[l.seq].sign].at = "told"
  <2>1. ASSUME NEW s \in Signs, sign[s].at = "told" PROVE sign'[s].at = "told"
    BY <2>1, SignsPast DEF Follows
  <2>2. CASE l \in exec[e].links
    <3>1. IsUse(l.seq) /\ sign[ring[l.seq].sign].at = "told"
      BY <1>6, <2>2 DEF ToldLinks
    <3>2. ring[l.seq].sign \in Signs
      BY <3>1 DEF IInv, UsesArePast
    <3>3. QED BY <1>1, <2>1, <3>1, <3>2
  <2>3. CASE l \notin exec[e].links
    BY <1>1, <1>6, <2>3, NewsOf
  <2>4. QED BY <2>2, <2>3
<1>7. ASSUME NEW e \in Execs, e \notin crossed', AtWork(e)' PROVE Owed' \subseteq UsesIn(e)'
  <2>1. AtWork(e) \/ (Owed = {} /\ sign' = sign)
    BY <1>7, WorkStays
  <2>2. e \notin crossed
    BY <1>3, <1>7
  <2>3. CASE Owed' \subseteq Owed
    BY <1>2, <2>1, <2>2, <2>3 DEF ToldLinks
  <2>4. ASSUME NEW s \in Signs, NEW b, NEW n, SignPaid(s), MovesOn(s), ring'[n] = Use(s, b), Owed' = {n}, IsUse(n)'
        PROVE  Owed' \subseteq UsesIn(e)'
    <3>1. Use(s, b).sign = s
      BY DEF Use, Link
    <3>2. CASE e = ExecOf[s]
      BY <2>4, <3>1, <3>2 DEF UsesIn, IsUse
    <3>3. CASE e # ExecOf[s]
      <4>1. sign' # sign
        BY <2>4 DEF MovesOn, Follows, SignPaid
      <4>2. AtWork(e)
        BY <2>1, <4>1
      <4>3. e \in Beside(s)
        BY <4>2 DEF Beside, AtWork
      <4>4. e \in crossed'
        BY <2>4, <3>3, <4>3 DEF SignPaid
      <4>5. QED BY <1>7, <4>4
    <3>4. QED BY <3>2, <3>3
  <2>5. QED BY <2>3, <2>4, UseSteps
<1>8. QED BY <1>5, <1>6, <1>7 DEF ToldLinks

-----------------------------------------------------------------------------
(* How budgets end.                                                        *)

(* A use of before, as it was.                                             *)
LEMMA UsesStay ==
  ASSUME IInv, IInv', BInv, Grows, NEW n, IsUse(n)
  PROVE  /\ n \in 1 .. Len(ring) /\ ring'[n] = ring[n] /\ IsUse(n)' /\ StepOf(n)' = StepOf(n)
         /\ (n \notin Owed => n \notin Owed')
         /\ ring[n].of \in 1 .. n - 1 /\ n \in Nat /\ StepOf(n) \in Nat /\ StepOf(n) <= Uses
<1>1. n \in 1 .. Len(ring) /\ Len(ring) \in Nat
  BY ChainIsFinite DEF IsUse
<1>2. ring'[n] = ring[n] /\ IsUse(n)' /\ StepOf(n)' = StepOf(n)
  BY <1>1, PastStays, StepOfStays
<1>3. n \notin Owed => n \notin Owed'
  BY <1>1, PastStays
<1>4. ring[n].of \in 1 .. n - 1
  BY <1>1 DEF BInv, LinksOf, LinkOf, IsUse
<1>5. n \in Nat
  BY <1>1
<1>6. StepOf(n) \in Nat /\ StepOf(n) <= SpentOf(ring[n].of)
  BY <1>1, <1>5, StepsGoUp, StepsAreCounted DEF StepOf, SpentOf
<1>7. SpentOf(ring[n].of) \in Nat
  BY <1>1, StepsAreCounted DEF SpentOf
<1>8. SpentOf(ring[n].of) <= Uses /\ Uses \in Nat
  BY BudgetAssumption DEF BInv, BudgetsOf
<1>9. StepOf(n) <= Uses
  BY <1>6, <1>7, <1>8
<1>10. QED BY <1>1, <1>2, <1>3, <1>4, <1>5, <1>6, <1>9

(* Of the budgets there were, those that live lived.                       *)
LEMMA LivesOn ==
  ASSUME IInv, BInv, [BudgetNext]_budgetVars, NEW b \in 1 .. Len(ring), b \in live' PROVE b \in live
<1>1. CASE live' \subseteq live
  BY <1>1
<1>2. CASE \E k \in Kinds : PhoneGrants(k)
  <2>1. live' \subseteq live \cup {Len(ring) + 1}
    BY <1>2 DEF PhoneGrants
  <2>2. b # Len(ring) + 1
    BY ChainIsFinite
  <2>3. QED BY <2>1, <2>2
<1>3. QED BY <1>1, <1>2, LiveSteps

(* What is owed no more, was receipted; the last use, with its budget.     *)
LEMMA LastOwedHolds ==
  ASSUME IInv, IInv', BInv, [BudgetNext]_budgetVars, Grows PROVE LastOwed'
<1> USE DEF BInv
<1>1. ASSUME NEW n, IsUse(n), ring[n].of \in live', StepOf(n) = Uses PROVE n \in Owed'
  <2>1. /\ n \in 1 .. Len(ring) /\ ring[n].of \in 1 .. n - 1 /\ n \in Nat /\ Len(ring) \in Nat
        /\ StepOf(n) \in Nat
    BY <1>1, UsesStay, ChainIsFinite
  <2>2. ring[n].of \in 1 .. Len(ring)
    BY <2>1
  <2>3. ring[n].of \in live
    BY <1>1, <2>2, LivesOn
  <2>4. n \in Owed
    BY <1>1, <2>3 DEF LastOwed
  <2>5. CASE Plain
    BY <2>4, <2>5 DEF Plain
  <2>6. CASE \E s \in Signs : SignPaid(s)
    BY <2>4, <2>6 DEF SignPaid
  <2>7. ASSUME NEW w, NEW m, ReceiptLinked(w, m) PROVE n \in Owed'
    <3>1. m \in Owed /\ Owed' = Owed \ {m}
      BY <2>7 DEF ReceiptLinked, Receipted
    <3>2. CASE n # m
      BY <2>4, <3>1, <3>2
    <3>3. CASE n = m
      <4>1. SpentOf(ring[n].of) = Uses
        <5>1. StepOf(n) <= SpentOf(ring[n].of)
          BY <2>1, StepsGoUp DEF StepOf, SpentOf
        <5>2. SpentOf(ring[n].of) \in Nat
          BY <2>1, StepsAreCounted DEF SpentOf
        <5>3. SpentOf(ring[n].of) <= Uses /\ Uses \in Nat
          BY BudgetAssumption DEF BudgetsOf
        <5>4. QED BY <1>1, <5>1, <5>2, <5>3
      <4>2. EndsLast(n)
        BY <2>3, <4>1 DEF EndsLast
      <4>3. ring[n].of \notin live'
        BY <2>7, <3>3, <4>2 DEF ReceiptLinked
      <4>4. QED BY <1>1, <4>3
    <3>4. QED BY <3>2, <3>3
  <2>8. QED BY <2>5, <2>6, <2>7, ChainLinks DEF ChainStep, EndLinked
<1>2. ASSUME NEW n, IsUse(n)', ring'[n].of \in live', StepOf(n)' = Uses PROVE n \in Owed'
  <2>1. CASE IsUse(n)
    BY <1>1, <1>2, <2>1, UsesStay
  <2>2. CASE ~IsUse(n)
    BY <1>2, <2>2, UseSteps
  <2>3. QED BY <2>1, <2>2
<1>3. QED BY <1>2 DEF LastOwed

(* A budget taken for spent had its last use noted, or receipted.          *)
LEMMA SpentKnownHolds ==
  ASSUME IInv, IInv', BInv, [BudgetNext]_budgetVars, Grows, BookStep, BooksKept PROVE SpentKnown'
<1> USE DEF BInv
<1>1. ASSUME NEW b \in DOMAIN book, book[b].spent >= Uses
      PROVE  \E n : IsUse(n)' /\ ring'[n].of = b /\ StepOf(n)' = Uses /\ (n \in book'[b].owed \/ n \notin Owed')
  <2>1. PICK n : IsUse(n) /\ ring[n].of = b /\ StepOf(n) = Uses /\ (n \in book[b].owed \/ n \notin Owed)
    BY <1>1 DEF SpentKnown
  <2>2. IsUse(n)' /\ ring'[n].of = b /\ StepOf(n)' = Uses /\ (n \notin Owed => n \notin Owed')
    BY <2>1, UsesStay
  <2>3. n \in book[b].owed => n \in book'[b].owed \/ n \notin Owed'
    BY DEF BooksKept
  <2>4. QED BY <2>1, <2>2, <2>3
<1>2. ASSUME NEW s \in Signs, NEW n, NotesOne(s, n), NEW b, b = sign[s].with, ring[n].of = b,
             StepOf(n) >= Uses, book'[b].owed = book[b].owed \cup {n}
      PROVE  \E m : IsUse(m)' /\ ring'[m].of = b /\ StepOf(m)' = Uses /\ (m \in book'[b].owed \/ m \notin Owed')
  <2>1. IsUse(n)
    BY <1>2 DEF NotesOne
  <2>2. IsUse(n)' /\ ring'[n].of = b /\ StepOf(n)' = StepOf(n) /\ StepOf(n) \in Nat /\ StepOf(n) <= Uses
    BY <1>2, <2>1, UsesStay
  <2>3. StepOf(n)' = Uses
    BY <1>2, <2>2, BudgetAssumption
  <2>4. QED BY <1>2, <2>2, <2>3
<1>3. ASSUME NEW b \in DOMAIN book', book'[b].spent >= Uses
      PROVE  \E n : IsUse(n)' /\ ring'[n].of = b /\ StepOf(n)' = Uses /\ (n \in book'[b].owed \/ n \notin Owed')
  <2>1. CASE b \notin DOMAIN book
    <3>1. book'[b].spent = 0
      BY <2>1 DEF BooksKept, NewBook
    <3>2. QED BY <1>3, <3>1, BudgetAssumption
  <2>2. CASE b \in DOMAIN book /\ book'[b].spent = book[b].spent
    BY <1>1, <1>3, <2>2
  <2>3. CASE b \in DOMAIN book
    <3>1. CASE book' = book
      BY <2>2, <2>3, <3>1
    <3>2. ASSUME NEW k \in Kinds, Opens(k) PROVE book'[b].spent = book[b].spent
      BY <2>3, <3>2, OpensIt
    <3>3. ASSUME NEW c, EndsOne(c) PROVE book'[b].spent = book[b].spent
      BY <2>3, <3>3 DEF EndsOne, Entered
    <3>4. ASSUME NEW w, FilesOne(w) PROVE book'[b].spent = book[b].spent
      BY <2>3, <3>4, FilesIt DEF FilesOne, Entered, Ledgers
    <3>5. ASSUME NEW s \in Signs, NEW n, NotesOne(s, n), book'[b].spent # book[b].spent
          PROVE  \E m : IsUse(m)' /\ ring'[m].of = b /\ StepOf(m)' = Uses /\ (m \in book'[b].owed \/ m \notin Owed')
      <4>1. sign[s].with \in DOMAIN book
        BY <3>5 DEF Stages, OfABudget, OfNone, NotesOne
      <4>2. Entered(sign[s].with, book[sign[s].with].owed \cup {n}, book[sign[s].with].ended,
                 IF ring[n].of = sign[s].with /\ StepOf(n) > book[sign[s].with].spent
                 THEN StepOf(n) ELSE book[sign[s].with].spent)
        BY <3>5, <4>1, NotesIt DEF NotesOne, Ledgers
      <4>3. b = sign[s].with
        BY <2>3, <3>5, <4>2 DEF Entered
      <4>4. /\ book'[b].owed = book[b].owed \cup {n}
            /\ book'[b].spent = IF ring[n].of = b /\ StepOf(n) > book[b].spent THEN StepOf(n) ELSE book[b].spent
        BY <4>2, <4>3 DEF Entered
      <4>5. ring[n].of = b /\ book'[b].spent = StepOf(n)
        BY <3>5, <4>4
      <4>6. StepOf(n) >= Uses
        BY <1>3, <4>5
      <4>7. QED BY <1>2, <3>5, <4>3, <4>4, <4>5, <4>6
    <3>6. CASE book'[b].spent = book[b].spent
      BY <2>2, <2>3, <3>6
    <3>7. QED BY <3>1, <3>2, <3>3, <3>4, <3>5, <3>6 DEF BookStep
  <2>4. QED BY <2>1, <2>3
<1>4. QED BY <1>3, Zenon DEF SpentKnown

(* A budget taken for ended has.                                           *)
LEMMA EndedHolds ==
  ASSUME IInv, IInv', BInv, [BudgetNext]_budgetVars, Grows, BookStep, BooksKept, LastOwed'
  PROVE  EndedIsGone'
<1> USE DEF BInv
<1>1. ASSUME NEW b \in DOMAIN book', book'[b].ended, b \in live' PROVE FALSE
  <2>1. b \in DOMAIN book
    <3>1. CASE b \notin DOMAIN book
      <4>1. book'[b].ended = FALSE
        BY <3>1 DEF BooksKept, NewBook
      <4>2. QED BY <1>1, <4>1
    <3>2. QED BY <3>1
  <2>2. b \in live
    BY <1>1, <2>1, LivesOn DEF BudgetsOf, IsOpen
  <2>3. ~book[b].ended
    BY <2>1, <2>2 DEF EndedIsGone
  <2>4. CASE book' = book
    BY <1>1, <2>3, <2>4
  <2>5. ASSUME NEW k \in Kinds, Opens(k) PROVE FALSE
    BY <1>1, <2>1, <2>3, <2>5, OpensIt
  <2>6. ASSUME NEW c, EndsOne(c) PROVE FALSE
    <3>1. b # c
      BY <1>1, <2>6 DEF EndsOne
    <3>2. QED BY <1>1, <2>1, <2>3, <2>6, <3>1 DEF EndsOne, Entered
  <2>7. ASSUME NEW s \in Signs, NEW n, NotesOne(s, n) PROVE FALSE
    <3>1. sign[s].with \in DOMAIN book
      BY <2>7 DEF Stages, OfABudget, OfNone, NotesOne
    <3>2. Entered(sign[s].with, book[sign[s].with].owed \cup {n}, book[sign[s].with].ended,
                 IF ring[n].of = sign[s].with /\ StepOf(n) > book[sign[s].with].spent
                 THEN StepOf(n) ELSE book[sign[s].with].spent)
      BY <2>7, <3>1, NotesIt DEF NotesOne, Ledgers
    <3>3. book'[b].ended = book[b].ended
      BY <2>1, <3>2 DEF Entered
    <3>4. QED BY <1>1, <2>3, <3>3
  <2>8. ASSUME NEW w \in {"agent", "plan"}, FilesOne(w) PROVE FALSE
    <3>1. PICK c, f : c = filing[w].with /\ f = filing[w].of
      OBVIOUS
    <3>2. Entered(c, book[c].owed \ {f}, book[c].ended \/ (book[c].owed \ {f} = {} /\ book[c].spent >= Uses),
                  book[c].spent) /\ f \notin Owed' /\ c \in DOMAIN book
      BY <2>8, <3>1, FilesIt DEF FilesOne, Ledgers
    <3>3. b = c
      BY <1>1, <2>1, <2>3, <3>2 DEF Entered
    <3>4. book[b].owed \ {f} = {} /\ book[b].spent >= Uses
      BY <1>1, <2>3, <3>2, <3>3, Zenon DEF Entered
    <3>5. PICK n : IsUse(n) /\ ring[n].of = b /\ StepOf(n) = Uses /\ (n \in book[b].owed \/ n \notin Owed)
      BY <2>1, <3>4 DEF SpentKnown
    <3>6. n \notin Owed'
      BY <3>2, <3>4, <3>5, UsesStay
    <3>7. IsUse(n)' /\ ring'[n].of = b /\ StepOf(n)' = Uses
      BY <3>5, UsesStay
    <3>8. QED BY <1>1, <3>6, <3>7 DEF LastOwed
  <2>9. QED BY <2>4, <2>5, <2>6, <2>7, <2>8, Zenon DEF BookStep
<1>2. QED BY <1>1 DEF EndedIsGone

-----------------------------------------------------------------------------
(* The plan.                                                               *)

(* A plan's items, as signs go on.                                         *)
LEMMA ItemSteps ==
  ASSUME IInv, BInv, SignStep
  PROVE  /\ \A s \in Begun : /\ s \in Begun' /\ sign'[s].with = sign[s].with
                             /\ (sign[s].at \in Done => sign'[s] = sign[s])
         /\ \A s \in Begun' : s \in Begun \/ (PlanSigns(s) /\ BeginsIn(s, asking["plan"].of))
<1>1. \A s : s \in Begun <=> s \in Signs /\ ExecOf[s] = "plan" /\ sign[s].at # "none"
  BY DEF Begun, PlanItems
<1>2. \A s : s \in Begun' <=> s \in Signs /\ ExecOf[s] = "plan" /\ sign'[s].at # "none"
  BY DEF Begun, PlanItems
<1>3. CASE sign' = sign
  BY <1>1, <1>2, <1>3
<1>4. ASSUME NEW u \in Signs, MovesOn(u) PROVE
         /\ \A s \in Begun : /\ s \in Begun' /\ sign'[s].with = sign[s].with
                             /\ (sign[s].at \in Done => sign'[s] = sign[s])
         /\ \A s \in Begun' : s \in Begun
  <2>1. sign[u].at \notin Done \cup {"none"} /\ sign'[u].at # "none" /\ sign'[u].with = sign[u].with
    BY <1>4 DEF MovesOn, Follows, Failed, Done
  <2>2. \A s \in Signs : s # u => sign'[s] = sign[s]
    BY <1>4 DEF MovesOn, OthersWait
  <2>3. QED BY <1>1, <1>2, <2>1, <2>2
<1>5. ASSUME NEW u \in Signs, NEW b, BeginsIn(u, b) PROVE
         /\ \A s \in Begun : /\ s \in Begun' /\ sign'[s].with = sign[s].with
                             /\ (sign[s].at \in Done => sign'[s] = sign[s])
         /\ \A s \in Begun' : s \in Begun \/ (s = u /\ Party(u) = "plan")
  BY <1>1, <1>2, <1>5 DEF BeginsIn, OthersWait, Party
<1>6. ASSUME NEW u \in Signs, SignAsked(u) PROVE Party(u) # "plan"
  BY <1>6 DEF SignAsked
<1>7. QED BY <1>3, <1>4, <1>5, <1>6 DEF SignStep

(* Whose items are signed by the steps of others.                          *)
LEMMA ItemsWait ==
  ASSUME IInv, BInv, SignStep, ~ \E s \in Signs : PlanSigns(s)
  PROVE  Begun' = Begun /\ \A s \in PlanItems : sign[s].at \in Done \cup {"none"} => sign'[s] = sign[s]
<1>1. Begun' = Begun
  <2>1. Begun \subseteq Signs /\ Begun' \subseteq Signs
    BY DEF Begun, PlanItems
  <2>2. QED BY <2>1, ItemSteps
<1>2. ASSUME NEW s \in PlanItems, sign[s].at \in Done PROVE sign'[s] = sign[s]
  BY <1>2, ItemSteps DEF Begun, Done
<1>3. ASSUME NEW s \in PlanItems, sign[s].at = "none" PROVE sign'[s] = sign[s]
  <2>1. s \in Signs /\ s \notin Begun /\ s \notin Begun'
    BY <1>1, <1>3 DEF Begun, PlanItems
  <2>2. sign'[s].at = "none"
    BY <1>3, <2>1 DEF Begun
  <2>3. CASE sign' = sign
    BY <2>3
  <2>4. ASSUME NEW u \in Signs, MovesOn(u) PROVE sign'[s] = sign[s]
    <3>1. sign[u].at # "none"
      BY <2>4 DEF MovesOn, Follows
    <3>2. QED BY <1>3, <2>1, <2>4, <3>1 DEF MovesOn, OthersWait
  <2>5. ASSUME NEW u \in Signs, SignAsked(u), BeginsIn(u, budget) PROVE sign'[s] = sign[s]
    <3>1. u # s
      BY <1>3, <2>5 DEF SignAsked, Party, PlanItems
    <3>2. QED BY <2>1, <2>5, <3>1 DEF BeginsIn, OthersWait
  <2>6. QED BY <2>3, <2>4, <2>5 DEF SignStep
<1>4. QED BY <1>1, <1>2, <1>3

(* What a plan's budget owes, a sign of its own adds to.                   *)
LEMMA PlanBookSteps ==
  ASSUME IInv, IInv', BInv, BookStep, NEW p, p = asking["plan"].of, p \in DOMAIN book, ~Filed("plan")
  PROVE  /\ p \in DOMAIN book'
         /\ \/ book'[p].owed = book[p].owed
            \/ /\ asking["plan"].at = "signing"
               /\ \E s \in Begun : \E n : /\ sign[s].at \notin Done /\ sign'[s].at \in Done
                                          /\ book'[p].owed = book[p].owed \cup {n}
<1> USE DEF BInv
<1>1. CASE asking["plan"].at # "signing"
  BY <1>1, PlanBookKept
<1>2. ring[p].by = "plan"
  BY DEF RequestsMade, PlanRequest
<1>3. CASE asking["plan"].at = "signing"
  <2>1. CASE book' = book
    BY <2>1
  <2>2. ASSUME NEW k \in Kinds, Opens(k) PROVE book'[p] = book[p] /\ p \in DOMAIN book'
    <3>1. PICK a : a = asking[k].of
      OBVIOUS
    <3>2. QED BY <2>2, <3>1, OpensIt
  <2>3. ASSUME NEW b, EndsOne(b) PROVE book'[p].owed = book[p].owed /\ p \in DOMAIN book'
    BY <2>3 DEF EndsOne, Entered
  <2>4. ASSUME NEW s \in Signs, NEW n, NotesOne(s, n)
        PROVE  /\ p \in DOMAIN book'
               /\ \/ book'[p].owed = book[p].owed
                  \/ \E t \in Begun : \E m : /\ sign[t].at \notin Done /\ sign'[t].at \in Done
                                             /\ book'[p].owed = book[p].owed \cup {m}
    <3>1. sign[s].with \in DOMAIN book /\ ring[sign[s].with].by = Party(s)
      BY <2>4 DEF NotesOne, Stages, OfABudget, OfNone
    <3>2. PICK e, m : Entered(sign[s].with, book[sign[s].with].owed \cup {n}, e, m)
      BY <2>4, <3>1, NotesIt DEF NotesOne, Ledgers
    <3>3. CASE sign[s].with # p
      BY <3>2, <3>3 DEF Entered
    <3>4. CASE sign[s].with = p
      <4>1. Party(s) = "plan"
        BY <1>2, <3>1, <3>4
      <4>2. s \in Begun /\ sign[s].at \notin Done /\ sign'[s].at \in Done
        BY <2>4, <4>1 DEF NotesOne, Begun, PlanItems, Party, Done, Failed
      <4>3. book'[p].owed = book[p].owed \cup {n} /\ p \in DOMAIN book'
        BY <3>1, <3>2, <3>4 DEF Entered
      <4>4. QED BY <4>2, <4>3
    <3>5. QED BY <3>3, <3>4
  <2>5. ASSUME NEW w \in {"agent", "plan"}, FilesOne(w) PROVE book'[p] = book[p] /\ p \in DOMAIN book'
    <3>1. w = "agent" /\ filing[w].with # 0
      BY <2>5 DEF FilesOne
    <3>2. filing[w].with # p
      BY <1>2, <3>1 DEF Filings, AgentFiling
    <3>3. PICK o, e, m : Entered(filing[w].with, o, e, m)
      BY <2>5, FilesIt DEF FilesOne, Ledgers
    <3>4. QED BY <3>2, <3>3 DEF Entered
  <2>6. QED BY <1>3, <2>1, <2>2, <2>3, <2>4, <2>5 DEF BookStep
<1>4. QED BY <1>1, <1>3

(* A plan that is left where it is.                                        *)
LEMMA PlanStill ==
  ASSUME IInv, IInv', BInv, SignStep, BookStep, Faults', faults'.lost >= faults.lost,
         ~ \E s \in Signs : PlanSigns(s), asking'["plan"] = asking["plan"],
         faults'.lost = 0 => filing'["plan"].at # "newest"
  PROVE  PlanStages'
<1> USE DEF BInv
<1>1. PICK p, at : p = asking["plan"].of /\ p = asking'["plan"].of /\ at = asking["plan"].at /\ at = asking'["plan"].at
  OBVIOUS
<1>2. Begun' = Begun /\ \A s \in PlanItems : sign[s].at \in Done \cup {"none"} => sign'[s] = sign[s]
  BY ItemsWait
<1>3. \A s \in Begun : /\ s \in Signs /\ s \in PlanItems /\ sign'[s].with = sign[s].with
                       /\ (sign'[s].at \notin Done => sign[s].at \notin Done)
  BY <1>2, ItemSteps DEF Begun, PlanItems
<1>4. ~Filed("plan")
  <2>1. ASSUME Filed("plan") PROVE FALSE
    <3>1. asking'["plan"].at = "running" /\ asking'["plan"].of = filing["plan"].with
      <4>1. "plan" \in Kinds /\ \E b : b = filing["plan"].with /\ Asked("plan", "running", b)
        BY <2>1 DEF Filed, Kinds
      <4>2. QED BY <4>1, AsksFor DEF RequestsMade
    <3>2. filing["plan"].at = "none"
      BY <3>1 DEF Filings, PlanFiling
    <3>3. filing["plan"].with = 0
      BY <3>2 DEF Filings, FilingOf, NotFiling
    <3>4. 0 \in DOMAIN book
      BY <3>1, <3>3 DEF RequestsMade, PlanRequest, PlanIsOn
    <3>5. QED BY <3>4, ChainIsFinite DEF BudgetsOf, IsOpen
  <2>2. QED BY <2>1
<1>5. ASSUME p \in DOMAIN book
      PROVE  /\ p \in DOMAIN book'
             /\ \/ book'[p].owed = book[p].owed
                \/ /\ at = "signing"
                   /\ \E s \in Begun : \E n : /\ sign[s].at \notin Done /\ sign'[s].at \in Done
                                              /\ book'[p].owed = book[p].owed \cup {n}
  BY <1>1, <1>4, <1>5, PlanBookSteps
<1>6. at \in {"running", "signing", "ending"} => p \in DOMAIN book
  BY <1>1 DEF RequestsMade, PlanRequest, PlanIsOn
<1>7. (at \in {"none", "asked"} => p = 0) /\ \A s \in Begun : sign'[s].with = p /\ p \in DOMAIN book'
  BY <1>1, <1>3, <1>5 DEF PlanStages
<1>8. /\ at # "signing" => \A s \in Begun : sign'[s].at \in Done
      /\ at = "signing" => \A s, t \in Begun : sign'[s].at \notin Done /\ sign'[t].at \notin Done => s = t
  BY <1>1, <1>3 DEF PlanStages
<1>9. at \in {"running", "ending"} => book'[p].owed = {}
  BY <1>1, <1>5, <1>6 DEF PlanStages, PlanBook
<1>10. ASSUME at = "signing"
       PROVE  /\ (\E s \in Begun : sign'[s].at \notin Done) => book'[p].owed = {}
              /\ \A m, n \in book'[p].owed : m = n
  <2>1. /\ (\E s \in Begun : sign[s].at \notin Done) => book[p].owed = {}
        /\ \A m, n \in book[p].owed : m = n
        /\ \A s, t \in Begun : sign[s].at \notin Done /\ sign[t].at \notin Done => s = t
    BY <1>1, <1>10 DEF PlanStages, PlanBook
  <2>2. CASE book'[p].owed = book[p].owed
    BY <1>3, <2>1, <2>2
  <2>3. ASSUME NEW s \in Begun, NEW n, sign[s].at \notin Done, sign'[s].at \in Done,
               book'[p].owed = book[p].owed \cup {n}
        PROVE  /\ (\E t \in Begun : sign'[t].at \notin Done) => book'[p].owed = {}
               /\ \A m, k \in book'[p].owed : m = k
    BY <1>3, <2>1, <2>3
  <2>4. QED BY <1>5, <1>6, <1>10, <2>2, <2>3
<1>11. faults'.lost = 0 => faults.lost = 0
  BY BudgetAssumption DEF Faults
<1>12. faults'.lost = 0 => at # "failing"
  BY <1>1, <1>11 DEF PlanStages
<1>13. at = "failed" /\ p # 0 /\ faults'.lost = 0 => \E s \in PlanItems : sign'[s].at # "told"
  <2>1. ASSUME at = "failed", p # 0, faults'.lost = 0 PROVE \E s \in PlanItems : sign'[s].at # "told"
    <3>1. PICK s \in PlanItems : sign[s].at # "told"
      BY <1>1, <1>11, <2>1 DEF PlanStages
    <3>2. sign[s].at \in Done \cup {"none"}
      BY <1>1, <2>1 DEF PlanStages, Begun
    <3>3. sign'[s] = sign[s]
      BY <1>2, <3>2
    <3>4. QED BY <3>1, <3>3
  <2>2. QED BY <2>1
<1>14. QED BY <1>1, <1>2, <1>7, <1>8, <1>9, <1>10, <1>12, <1>13 DEF PlanStages, PlanBook

(* A plan that goes from one stage to another, its items waiting.          *)
LEMMA PlanSet ==
  ASSUME sign' = sign, NEW at, at = asking'["plan"].at, NEW p, p = asking'["plan"].of,
         Begun # {} => p = asking["plan"].of /\ p \in DOMAIN book',
         \A s \in Begun : sign[s].with = asking["plan"].of /\ sign[s].at \in Done,
         at \in {"none", "asked"} => p = 0, at # "signing",
         at \in {"running", "ending"} => book'[p].owed = {},
         faults'.lost = 0 => at # "failing" /\ filing'["plan"].at # "newest",
         at = "failed" /\ p # 0 /\ faults'.lost = 0 => \E s \in PlanItems : sign[s].at # "told"
  PROVE  PlanStages'
<1>1. Begun' = Begun
  BY DEF Begun
<1>2. QED BY <1>1 DEF PlanStages, PlanBook

(* No item is begun before the plan has its budget.                        *)
LEMMA NoItems ==
  ASSUME IInv, BInv, asking["plan"].of \notin DOMAIN book \/ asking["plan"].at \in {"none", "asked"} PROVE Begun = {}
<1>1. 0 \notin DOMAIN book
  BY ChainIsFinite DEF BInv, BudgetsOf, IsOpen
<1>2. QED BY <1>1 DEF BInv, PlanStages

(* An item of the plan begins.                                             *)
LEMMA PlanItemBegins ==
  ASSUME IInv, IInv', BInv, SignStep, Faults', NEW s \in Signs, PlanSigns(s) PROVE PlanStages'
<1> USE DEF BInv
<1>1. PICK p : p = asking["plan"].of
  OBVIOUS
<1>2. asking'["plan"].at = "signing" /\ asking'["plan"].of = p /\ book' = book /\ filing' = filing /\ faults' = faults
  BY <1>1, AsksFor DEF PlanSigns, RequestsMade, Kinds
<1>3. asking["plan"].at = "running" /\ s \in PlanItems \ Begun
  BY DEF PlanSigns
<1>4. p \in DOMAIN book /\ book[p].owed = {}
  BY <1>1, <1>3 DEF RequestsMade, PlanRequest, PlanIsOn, PlanStages, PlanBook
<1>5. BeginsIn(s, p)
  BY <1>1, UseBegins DEF PlanSigns
<1>6. \A t \in Begun' : t = s \/ (t \in Begun /\ sign'[t] = sign[t])
  BY <1>5 DEF BeginsIn, OthersWait, Begun, PlanItems
<1>7. \A t \in Begun : sign[t].at \in Done /\ sign[t].with = p
  BY <1>1, <1>3 DEF PlanStages
<1>8. \A t \in Begun' : sign'[t].with = p
  BY <1>5, <1>6, <1>7 DEF BeginsIn
<1>9. \A t, u \in Begun' : sign'[t].at \notin Done /\ sign'[u].at \notin Done => t = u
  BY <1>6, <1>7
<1>10. faults.lost = 0 => filing["plan"].at # "newest"
  BY DEF PlanStages
<1>11. QED BY <1>2, <1>4, <1>8, <1>9, <1>10 DEF PlanStages, PlanBook

(* The plan's budget is asked for.                                         *)
LEMMA PlanAsks ==
  ASSUME IInv, IInv', BInv, [BudgetNext]_budgetVars, NEW k, k = "plan",
         BudgetAsked(k) \/ PhoneGrants(k) \/ PhoneDeclines(k) \/ BudgetOpens(k)
  PROVE  PlanStages'
<1> USE DEF BInv
<1>1. Begun = {}
  BY NoItems DEF BudgetAsked, PhoneGrants, PhoneDeclines, BudgetOpens, Idle, RequestsMade, RequestOf, Kinds
<1>2. sign' = sign /\ filing' = filing
  BY DEF BudgetAsked, PhoneGrants, PhoneDeclines, BudgetOpens
<1>3. PICK at, p : at = asking'["plan"].at /\ p = asking'["plan"].of
  OBVIOUS
<1>4. faults'.lost = 0 => filing["plan"].at # "newest"
  <2>1. faults'.lost = 0 => faults.lost = 0
    BY FaultSteps, BudgetAssumption DEF Faults
  <2>2. QED BY <2>1 DEF PlanStages
<1>5. \/ at \in {"asked", "failed"} /\ p = 0
      \/ at = "granted"
      \/ at = "running" /\ book'[p].owed = {}
  <2>1. \A a, o : Asked(k, a, o) => at = a /\ p = o
    BY <1>3, AsksFor DEF RequestsMade, Kinds
  <2>2. CASE BudgetAsked(k) \/ PhoneDeclines(k)
    BY <2>1, <2>2 DEF BudgetAsked, PhoneDeclines, Gone
  <2>3. CASE PhoneGrants(k)
    BY <2>1, <2>3 DEF PhoneGrants, Gone
  <2>4. CASE BudgetOpens(k)
    <3>1. PICK b : b = asking[k].of
      OBVIOUS
    <3>2. \/ Asked(k, "failed", 0)
          \/ /\ book' = [c \in DOMAIN book \cup {b} |-> IF c = b THEN NewBook ELSE book[c]]
             /\ Asked(k, "running", b)
      BY <2>4, <3>1 DEF BudgetOpens, Gone
    <3>3. NewBook.owed = {}
      BY DEF NewBook
    <3>4. QED BY <2>1, <3>2, <3>3
  <2>5. QED BY <2>2, <2>3, <2>4
<1>6. QED BY <1>1, <1>2, <1>3, <1>4, <1>5, PlanSet

(* The plan goes on.                                                       *)
LEMMA PlanGoes ==
  ASSUME IInv, IInv', BInv, [BudgetNext]_budgetVars, BooksKept, BookStep,
         PlanReceipts \/ PlanEnds \/ PlanRevokes
  PROVE  PlanStages'
<1> USE DEF BInv
<1>1. PICK p, at : p = asking["plan"].of /\ at = asking'["plan"].at
  OBVIOUS
<1>2. sign' = sign /\ p \in DOMAIN book /\ p \in DOMAIN book'
  BY <1>1 DEF PlanReceipts, PlanEnds, PlanRevokes, RequestsMade, PlanRequest, PlanIsOn, BooksKept
<1>3. \A s \in Begun : sign[s].with = asking["plan"].of /\ sign[s].at \in Done
  BY DEF PlanReceipts, PlanEnds, PlanRevokes, PlanStages
<1>4. \A a : Asked("plan", a, p) => at = a /\ asking'["plan"].of = p
  BY <1>1, AsksFor DEF RequestsMade, Kinds
<1>5. (faults'.lost = 0 => faults.lost = 0 /\ asking["plan"].at # "failing" /\ filing["plan"].at # "newest")
  <2>1. faults'.lost = 0 => faults.lost = 0
    BY FaultSteps, BudgetAssumption DEF Faults
  <2>2. QED BY <2>1 DEF PlanStages
<1>6. Result = "failed" => \E s \in PlanItems : sign[s].at # "told"
  BY DEF Result
<1>7. Result \in {"ended", "done", "failed"}
  BY DEF Result
<1>8. CASE PlanReceipts
  <2>1. book' = book /\ faults' = faults
    BY <1>8 DEF PlanReceipts
  <2>2. \/ book[p].owed = {} /\ Asked("plan", "running", p) /\ filing' = filing
        \/ (\E n : Files("plan", n, p)) /\ Asked("plan", "filing", p)
    BY <1>1, <1>8 DEF PlanReceipts, PlanBook
  <2>3. filing'["plan"].at \in {filing["plan"].at, "file"}
    <3>1. ASSUME NEW n, Files("plan", n, p) PROVE filing'["plan"].at = "file"
      <4>1. filing' = [filing EXCEPT !["plan"] = [at |-> "file", of |-> n, with |-> p]]
        BY <3>1 DEF Files
      <4>2. QED BY <4>1 DEF Filings, FilingShape
    <3>2. QED BY <2>2, <3>1
  <2>4. at \in {"running", "filing"} /\ asking'["plan"].of = p /\ (at = "running" => book[p].owed = {})
    BY <1>4, <2>2
  <2>5. QED BY <1>1, <1>2, <1>3, <1>5, <2>1, <2>3, <2>4, PlanSet
<1>9. CASE PlanEnds
  <2>1. book' = book /\ faults' = faults /\ filing' = filing /\ asking["plan"].at = "running"
    BY <1>9 DEF PlanEnds
  <2>2. book[p].owed = {}
    BY <1>1, <2>1 DEF PlanStages, PlanBook
  <2>3. Asked("plan", Result, p) \/ Asked("plan", "ending", p)
    BY <1>1, <1>9 DEF PlanEnds
  <2>4. at \in {"ending", Result} /\ asking'["plan"].of = p
    BY <1>4, <2>3
  <2>5. QED BY <1>1, <1>2, <1>3, <1>5, <1>6, <1>7, <2>1, <2>2, <2>4, PlanSet
<1>10. CASE PlanRevokes
  <2>1. filing' = filing /\ asking["plan"].at \in {"ending", "failing"}
    BY <1>10 DEF PlanRevokes
  <2>2. /\ asking'["plan"].of = p /\ at \in {"failed", "failing", Result}
        /\ at = "failing" => faults'.lost # 0
        /\ asking["plan"].at = "ending" => at # "failed" \/ Result = "failed"
    <3>1. CASE asking["plan"].at = "failing" /\ PlanBook.owed # {}
      BY <1>1, <1>4, <1>10, <3>1 DEF PlanRevokes
    <3>2. CASE ~(asking["plan"].at = "failing" /\ PlanBook.owed # {})
      <4>1. PICK how \in Hows :
              /\ Heard(how)
              /\ Asked("plan", IF asking["plan"].at = "failing" THEN "failed"
                               ELSE IF how = "answered" THEN Result ELSE "failing", p)
        BY <1>1, <1>10, <3>2 DEF PlanRevokes
      <4>2. how # "answered" => faults'.lost # 0
        <5>1. how # "answered" => faults'.lost = faults.lost + 1
          BY <4>1, HeardOrLost
        <5>2. faults.lost \in Nat
          BY BudgetAssumption DEF Faults
        <5>3. QED BY <5>1, <5>2
      <4>3. at = IF asking["plan"].at = "failing" THEN "failed" ELSE IF how = "answered" THEN Result ELSE "failing"
        BY <1>4, <4>1
      <4>4. asking'["plan"].of = p
        BY <1>4, <4>1
      <4>5. QED BY <1>7, <2>1, <4>2, <4>3, <4>4
    <3>3. QED BY <3>1, <3>2
  <2>3. at = "failed" /\ faults'.lost = 0 => \E s \in PlanItems : sign[s].at # "told"
    BY <1>5, <1>6, <2>1, <2>2
  <2>4. at \notin {"none", "asked", "signing", "running", "ending"}
    BY <1>7, <2>2
  <2>5. QED BY <1>1, <1>2, <1>3, <1>5, <2>1, <2>2, <2>3, <2>4, PlanSet
<1>11. QED BY <1>8, <1>9, <1>10

(* The plan's receipt.                                                     *)
LEMMA PlanFiles ==
  ASSUME IInv, IInv', BInv, [BudgetNext]_budgetVars, SignStep, BooksKept, BookStep, Faults',
         faults'.lost >= faults.lost, ~ \E s \in Signs : PlanSigns(s),
         FilingStep("plan"), filing["plan"].at # "none"
  PROVE  PlanStages'
<1> USE DEF BInv
<1>1. PICK p, at : p = asking["plan"].of /\ at = asking'["plan"].at
  OBVIOUS
<1>2. /\ asking["plan"].at = "filing" /\ filing["plan"].with = p
      /\ filing["plan"].at = "file" => filing["plan"].of \in book[p].owed
      /\ book[p].owed \subseteq {filing["plan"].of}
  BY <1>1 DEF Filings, PlanFiling, PlanBook
<1>3. p \in DOMAIN book /\ p \in DOMAIN book' /\ p # 0
  <2>1. p \in DOMAIN book
    BY <1>1, <1>2 DEF RequestsMade, PlanRequest, PlanIsOn
  <2>2. QED BY <2>1, ChainIsFinite DEF BooksKept, BudgetsOf, IsOpen
<1>4. \A a : Asked("plan", a, p) => at = a /\ asking'["plan"].of = p
  BY <1>1, AsksFor DEF RequestsMade, Kinds
<1>5. sign' = sign
  BY DEF FilingStep
<1>6. \A s \in Begun : sign[s].with = asking["plan"].of /\ sign[s].at \in Done
  BY <1>2 DEF PlanStages
<1>7. faults'.lost = 0 => faults.lost = 0
  BY BudgetAssumption DEF Faults
<1>8. faults'.lost = 0 => filing["plan"].at # "newest"
  BY <1>7 DEF PlanStages
<1>9. filing' = [filing EXCEPT !["plan"] = NotFiling] => filing'["plan"].at = "none"
  BY DEF Filings, FilingShape, NotFiling
<1>10. CASE Filed("plan")
  <2>1. Asked("plan", "running", p) /\ filing' = [filing EXCEPT !["plan"] = NotFiling]
    BY <1>2, <1>10 DEF Filed
  <2>2. book'[p].owed = {}
    BY <1>2, <1>3, <1>10, FilesIt DEF Entered, Ledgers
  <2>3. at = "running" /\ asking'["plan"].of = p /\ filing'["plan"].at = "none"
    BY <1>4, <1>9, <2>1
  <2>4. QED BY <1>1, <1>3, <1>5, <1>6, <2>2, <2>3, PlanSet
<1>11. CASE NotFiled("plan") /\ ~Filed("plan")
  <2>1. Asked("plan", "failing", p) /\ filing' = [filing EXCEPT !["plan"] = NotFiling]
    BY <1>2, <1>11 DEF NotFiled
  <2>2. at = "failing" /\ asking'["plan"].of = p /\ filing'["plan"].at = "none"
    BY <1>4, <1>9, <2>1
  <2>3. faults'.lost # 0
    <3>1. \/ filing["plan"].at = "newest"
          \/ faults'.lost >= 1
      <4>1. ~Then("plan", "newest") /\ ~Then("plan", "head")
        <5>1. ASSUME NEW a, Then("plan", a) PROVE FALSE
          <6>1. asking' = asking
            BY <5>1 DEF Then
          <6>2. QED BY <1>1, <1>2, <2>2, <6>1
        <5>2. QED BY <5>1
      <4>2. QED BY <1>2, <1>3, <1>11, <4>1 DEF FilingStep
    <3>2. QED BY <1>8, <3>1
  <2>4. QED BY <1>1, <1>3, <1>5, <1>6, <2>2, <2>3, PlanSet
<1>12. ASSUME NEW a \in {"newest", "head"}, Then("plan", a), a = "newest" => faults'.lost >= 1 PROVE PlanStages'
  <2>1. asking' = asking /\ filing'["plan"].at = a
    <3>1. Then("plan", a) /\ FilingShape
      BY <1>12 DEF Filings
    <3>2. filing'["plan"] = [at |-> a, of |-> filing["plan"].of, with |-> filing["plan"].with]
      BY <3>1, FilingGoesOn
    <3>3. QED BY <1>12, <3>2 DEF Then
  <2>2. faults'.lost = 0 => filing'["plan"].at # "newest"
    BY <1>12, <2>1
  <2>3. QED BY <2>1, <2>2, PlanStill
<1>13. QED BY <1>10, <1>11, <1>12, Zenon DEF FilingStep

(* Every step.                                                             *)
LEMMA PlanStagesHold ==
  ASSUME IInv, IInv', BInv, [BudgetNext]_budgetVars, SignStep, BooksKept, BookStep, Faults',
         faults'.lost >= faults.lost
  PROVE  PlanStages'
<1> USE DEF BInv
<1>1. CASE \E s \in Signs : PlanSigns(s)
  BY <1>1, PlanItemBegins
<1> SUFFICES ASSUME ~ \E s \in Signs : PlanSigns(s) PROVE PlanStages'
  BY <1>1
<1>2. ASSUME asking'["plan"] = asking["plan"], filing'["plan"] = filing["plan"] PROVE PlanStages'
  <2>1. faults'.lost = 0 => faults.lost = 0
    BY BudgetAssumption DEF Faults
  <2>2. faults'.lost = 0 => filing'["plan"].at # "newest"
    BY <1>2, <2>1 DEF PlanStages
  <2>3. QED BY <1>2, <2>2, PlanStill
<1>3. ASSUME NEW k \in Kinds, BudgetAsked(k) \/ PhoneDeclines(k) \/ PhoneGrants(k) \/ BudgetOpens(k) PROVE PlanStages'
  <2>1. CASE k = "plan"
    BY <1>3, <2>1, PlanAsks
  <2>2. CASE k # "plan"
    <3>1. filing' = filing /\ \E at, of : Asked(k, at, of)
      BY <1>3 DEF BudgetAsked, PhoneDeclines, PhoneGrants, BudgetOpens
    <3>2. asking'["plan"] = asking["plan"]
      BY <2>2, <3>1, AsksFor DEF RequestsMade, Kinds
    <3>3. QED BY <1>2, <3>1, <3>2
  <2>3. QED BY <2>1, <2>2
<1>4. CASE ContinueAsked \/ ContinueRevokes \/ EndAsked \/ EndRevokes
  <2>1. filing' = filing /\ (asking' = asking \/ \E k \in {"continue", "end"} : \E at, of : Asked(k, at, of))
    BY <1>4 DEF ContinueAsked, ContinueRevokes, EndAsked, EndRevokes
  <2>2. asking'["plan"] = asking["plan"]
    BY <2>1, AsksFor DEF RequestsMade, Kinds
  <2>3. QED BY <1>2, <2>1, <2>2
<1>5. CASE PlanReceipts \/ PlanEnds \/ PlanRevokes
  BY <1>5, PlanGoes
<1>6. ASSUME NEW w \in {"agent", "plan"}, FileReceipt(w) \/ AskNewest(w) PROVE PlanStages'
  <2>1. FilingStep(w) /\ filing[w].at # "none"
    BY <1>6, FilesOrAsks, AsksIfFiled DEF FileReceipt, AskNewest
  <2>2. CASE w = "plan"
    BY <2>1, <2>2, PlanFiles
  <2>3. CASE w = "agent"
    <3>1. asking' = asking
      BY <2>1, <2>3 DEF FilingStep, Filed, NotFiled, Then
    <3>2. \/ filing' = [filing EXCEPT !["agent"] = NotFiling]
          \/ \E at : filing' = [filing EXCEPT !["agent"].at = at]
      BY <2>1, <2>3 DEF FilingStep, Filed, NotFiled, Then
    <3>3. filing'["plan"] = filing["plan"]
      BY <3>2 DEF Filings, FilingShape
    <3>4. QED BY <1>2, <3>1, <3>3
  <2>4. QED BY <2>2, <2>3
<1>7. ASSUME NEW n \in 1 .. Len(ring), AgentFiles(n) PROVE PlanStages'
  <2>1. filing' = [filing EXCEPT !["agent"] = [at |-> "file", of |-> n, with |-> budget]] /\ asking' = asking
    BY <1>7 DEF AgentFiles, Files
  <2>2. filing'["plan"] = filing["plan"]
    BY <2>1 DEF Filings, FilingShape
  <2>3. QED BY <1>2, <2>1, <2>2
<1>8. CASE \/ \E s \in Signs : \/ ReadHead(s) \/ StartTx(s) \/ SignRefused(s) \/ SignPressed(s)
                               \/ SignUnheard(s) \/ KeyOwed(s) \/ SignAsked(s) \/ SignPaid(s)
                               \/ Look(s) \/ Pickup(s)
           \/ KeyLocks \/ OtherLinks
           \/ \E e \in Execs : ExecAsked(e) \/ ExecOpens(e) \/ ExecCloses(e)
           \/ UNCHANGED budgetVars
  <2>1. filing' = filing /\ asking' = asking
    BY <1>8 DEF ReadHead, StartTx, SignRefused, SignPressed, SignUnheard, KeyOwed, SignAsked, SignPaid, Look, Pickup,
                KeyLocks, OtherLinks, ExecAsked, ExecOpens, ExecCloses, budgetVars
  <2>2. QED BY <1>2, <2>1
<1>9. QED BY <1>3, <1>4, <1>5, <1>6, <1>7, <1>8, Zenon DEF BudgetNext, Working

-----------------------------------------------------------------------------
(* What an end leaves.                                                     *)

(* The end of a budget is asked for and goes its way alone.                *)
LEMMA EndRequests ==
  ASSUME IInv, IInv', BInv, [BudgetNext]_budgetVars
  PROVE  asking'["end"] = asking["end"] \/ EndAsked \/ EndRevokes
<1> USE DEF BInv
<1>1. \A k \in Kinds : \A at, of : Asked(k, at, of) => k = "end" \/ asking'["end"] = asking["end"]
  BY AsksFor DEF RequestsMade, Kinds
<1>2. ASSUME NEW k \in Kinds, BudgetAsked(k) \/ PhoneDeclines(k) \/ PhoneGrants(k) \/ BudgetOpens(k)
      PROVE  asking'["end"] = asking["end"]
  <2>1. k # "end"
    BY <1>2 DEF BudgetAsked, PhoneDeclines, PhoneGrants, BudgetOpens, RequestsMade, RequestOf
  <2>2. \E at, of : Asked(k, at, of)
    BY <1>2 DEF BudgetAsked, PhoneDeclines, PhoneGrants, BudgetOpens
  <2>3. QED BY <1>1, <2>1, <2>2
<1>3. CASE ContinueAsked \/ ContinueRevokes
  <2>1. "continue" \in Kinds /\ \E at, of : Asked("continue", at, of)
    BY <1>3 DEF ContinueAsked, ContinueRevokes, Kinds
  <2>2. QED BY <1>1, <2>1
<1>4. CASE (\E s \in Signs : PlanSigns(s)) \/ PlanReceipts \/ PlanEnds \/ PlanRevokes
  <2>1. "plan" \in Kinds /\ \E at, of : Asked("plan", at, of)
    BY <1>4 DEF PlanSigns, PlanReceipts, PlanEnds, PlanRevokes, Kinds
  <2>2. QED BY <1>1, <2>1
<1>5. ASSUME NEW w \in {"agent", "plan"}, FileReceipt(w) \/ AskNewest(w) PROVE asking'["end"] = asking["end"]
  <2>1. FilingStep(w)
    BY <1>5, FilesOrAsks, AsksIfFiled
  <2>2. asking' = asking \/ \E at, of : Asked("plan", at, of)
    BY <2>1 DEF FilingStep, Filed, NotFiled, Then
  <2>3. "plan" \in Kinds
    BY DEF Kinds
  <2>4. QED BY <1>1, <2>2, <2>3
<1>6. CASE \/ \E s \in Signs : \/ ReadHead(s) \/ StartTx(s) \/ SignRefused(s) \/ SignPressed(s)
                               \/ SignUnheard(s) \/ KeyOwed(s) \/ SignAsked(s) \/ SignPaid(s)
                               \/ Look(s) \/ Pickup(s)
           \/ KeyLocks \/ OtherLinks
           \/ \E n \in 1 .. Len(ring) : AgentFiles(n)
           \/ \E e \in Execs : ExecAsked(e) \/ ExecOpens(e) \/ ExecCloses(e)
           \/ UNCHANGED budgetVars
  BY <1>6, AskNothing
<1>7. QED BY <1>2, <1>3, <1>4, <1>5, <1>6, Zenon DEF BudgetNext, Working

(* With every answer heard, what a budget's use owes is noted in it.       *)
LEMMA DebtIsNoted ==
  ASSUME IInv, BInv, faults.lost = 0, NEW n \in Owed, NEW s, s = ring[n].sign, sign[s].at \in Done
  PROVE  n \in book[sign[s].with].owed
<1>1. KnownAt(n, s)
  BY DEF BInv, DebtsKnown
<1>2. QED BY <1>1 DEF KnownAt, Done

(* An end is settled when it is asked for, and no use comes after.         *)
LEMMA EndSettledHolds ==
  ASSUME IInv, IInv', BInv, [BudgetNext]_budgetVars, SignStep, Grows, Faults', faults'.lost >= faults.lost
  PROVE  EndSettled'
<1> USE DEF BInv
<1>1. SUFFICES ASSUME asking'["end"].at = "revoke", "end" \notin crossed', faults'.lost = 0,
                      NEW n \in Owed', NEW b, b = asking'["end"].of, NEW s, s = ring'[n].sign,
                      ring'[n].of = b, sign'[s].with = b
               PROVE  FALSE
  BY DEF EndSettled, Unsettled
<1>2. "end" \notin crossed /\ faults.lost = 0
  BY <1>1, CrossedGrows, BudgetAssumption DEF Faults
<1>3. ASSUME n \in Owed PROVE IsUse(n) /\ s = ring[n].sign /\ s \in Signs /\ sign[s].at \in PastKey
                              /\ ring[n].of = b /\ sign[s].with = b
  <2>1. IsUse(n) /\ ring'[n] = ring[n]
    BY <1>3, OwedMeans, PastStays
  <2>2. s = ring[n].sign /\ s \in Signs /\ sign[s].at \in PastKey
    BY <1>1, <2>1 DEF IInv, UsesArePast
  <2>3. sign'[s].with = sign[s].with
    BY <2>2, SignsPast DEF PastKey
  <2>4. QED BY <1>1, <2>1, <2>2, <2>3
<1>4. CASE asking'["end"] = asking["end"]
  <2>1. CASE n \in Owed
    BY <1>1, <1>2, <1>3, <1>4, <2>1 DEF EndSettled, Unsettled
  <2>2. CASE n \notin Owed
    <3>1. PICK u \in Signs : SignPaid(u)
      BY <2>2, UseSteps
    <3>2. "end" \in Beside(u)
      BY <1>1, <1>4 DEF Beside
    <3>3. ExecOf[u] # "end"
      BY BudgetAssumption
    <3>4. "end" \in crossed'
      BY <3>1, <3>2, <3>3 DEF SignPaid
    <3>5. QED BY <1>1, <3>4
  <2>3. QED BY <2>1, <2>2
<1>5. CASE EndAsked
  <2>1. book[budget].owed = {} /\ sign' = sign /\ ring' = ring /\ asking["end"] = Idle
    BY <1>5 DEF EndAsked
  <2>2. b = budget
    <3>1. asking' = asking \/ Asked("end", "revoke", budget)
      BY <1>5 DEF EndAsked
    <3>2. asking' # asking
      BY <1>1, <2>1 DEF Idle
    <3>3. QED BY <1>1, <3>1, <3>2, AsksFor DEF RequestsMade, Kinds
  <2>3. Owed' = Owed
    BY <2>1, NoLink DEF Plain
  <2>4. IsUse(n) /\ s = ring[n].sign /\ s \in Signs /\ sign[s].at \in PastKey /\ sign[s].with = budget
    BY <1>3, <2>2, <2>3
  <2>5. s \notin InUse
    <3>1. CASE s \in InUse
      <4>1. "end" \in {"end" : t \in {t \in InUse : sign[t].with = budget}}
        BY <2>4, <3>1
      <4>2. "end" \in crossed'
        BY <1>5, <4>1 DEF EndAsked
      <4>3. QED BY <1>1, <4>2
    <3>2. QED BY <3>1
  <2>6. sign[s].at \in Done
    BY <2>4, <2>5 DEF InUse, PastKey
  <2>7. n \in book[budget].owed
    BY <1>2, <2>3, <2>4, <2>6, DebtIsNoted
  <2>8. QED BY <2>1, <2>7
<1>6. CASE EndRevokes
  <2>1. Asked("end", "none", 0)
    BY <1>6 DEF EndRevokes
  <2>2. asking'["end"].at = "none"
    BY <2>1, AsksFor DEF RequestsMade, Kinds
  <2>3. QED BY <1>1, <2>2
<1>7. QED BY <1>4, <1>5, <1>6, EndRequests

(* What was owed at a link, was.                                           *)
LEMMA OwedAtStays ==
  ASSUME Grows, NEW i \in 1 .. Len(ring) PROVE OwedAt(i)' = OwedAt(i)
<1>1. \A j \in 1 .. i : ring'[j] = ring[j]
  BY DEF Grows
<1>2. QED BY <1>1 DEF OwedAt, IsReceipt

(* No end leaves a use owing.                                              *)
LEMMA EndsLeaveNothing ==
  ASSUME IInv, IInv', BInv, [BudgetNext]_budgetVars, SignStep, Grows, Faults', faults'.lost >= faults.lost,
         EndsOwingNothing
  PROVE  EndsOwingNothing'
<1> USE DEF BInv
<1>1. SUFFICES ASSUME NEW i \in 1 .. Len(ring'), ring'[i].op = "end", ring'[i].by \in {"end", "key"},
                      "end" \notin crossed', faults'.lost = 0,
                      NEW n \in OwedAt(i)', NEW b, b = ring'[i].of, NEW s, s = ring'[n].sign,
                      ring'[n].of = b, sign'[s].with = b
               PROVE  FALSE
  BY DEF EndsOwingNothing
<1>2. "end" \notin crossed /\ faults.lost = 0
  BY <1>1, CrossedGrows, BudgetAssumption DEF Faults
<1>3. ASSUME IsUse(n) PROVE s = ring[n].sign /\ s \in Signs /\ sign[s].at \in PastKey
                            /\ ring[n].of = b /\ sign[s].with = b
  <2>1. ring'[n] = ring[n]
    BY <1>3, PastStays
  <2>2. s = ring[n].sign /\ s \in Signs /\ sign[s].at \in PastKey
    BY <1>1, <1>3, <2>1 DEF IInv, UsesArePast
  <2>3. sign'[s].with = sign[s].with
    BY <2>2, SignsPast DEF PastKey
  <2>4. QED BY <1>1, <2>1, <2>2, <2>3
<1>4. CASE i \in 1 .. Len(ring)
  <2>1. ring'[i] = ring[i] /\ n \in OwedAt(i)
    BY <1>1, <1>4, OwedAtStays DEF Grows
  <2>2. IsUse(n)
    BY <1>4, <2>1, ChainIsFinite DEF OwedAt, IsUse
  <2>3. QED BY <1>1, <1>2, <1>3, <1>4, <2>1, <2>2 DEF EndsOwingNothing
<1>5. ASSUME i = Len(ring') PROVE n \in Owed'
  BY <1>1, <1>5 DEF Owed
<1>6. ASSUME NEW c, EndLinked(c) PROVE i \in 1 .. Len(ring)
  <2>1. SUFFICES ASSUME i \notin 1 .. Len(ring) PROVE FALSE
    OBVIOUS
  <2>2. i = Len(ring') /\ ring'[i] = End(c, "end")
    BY <1>6, <2>1 DEF EndLinked, Linked
  <2>3. b = c
    BY <1>1, <2>2 DEF End, Link
  <2>4. n \in Owed
    BY <1>5, <1>6, <2>2 DEF EndLinked, Plain
  <2>5. IsUse(n) /\ s = ring[n].sign /\ s \in Signs /\ sign[s].at \in PastKey /\ ring[n].of = b /\ sign[s].with = b
    BY <1>3, <2>4, OwedMeans
  <2>6. CASE EndRevokes /\ c = asking["end"].of
    BY <1>2, <2>3, <2>4, <2>5, <2>6 DEF EndRevokes, EndSettled, Unsettled
  <2>7. CASE PlanRevokes /\ c = asking["plan"].of
    <3>1. asking["plan"].at = "ending"
      BY <1>2, <2>7 DEF PlanRevokes, PlanStages
    <3>2. book[b].owed = {}
      BY <2>3, <2>7, <3>1 DEF PlanStages, PlanBook
    <3>3. ring[b].by = "plan"
      BY <2>3, <2>7, <3>1 DEF RequestsMade, PlanRequest, PlanIsOn
    <3>4. s \in Begun
      <4>1. OfABudget(s)
        BY <2>5, PaidByABudget
      <4>2. QED BY <2>5, <3>3, <4>1 DEF OfABudget, Begun, PlanItems, Party, PastKey
    <3>5. sign[s].at \in Done
      BY <3>1, <3>4 DEF PlanStages
    <3>6. n \in book[b].owed
      BY <1>2, <2>4, <2>5, <3>5, DebtIsNoted
    <3>7. QED BY <3>2, <3>6
  <2>8. QED BY <1>6, <2>6, <2>7 DEF EndLinked
<1>7. ASSUME NEW w, NEW m, ReceiptLinked(w, m) PROVE i \in 1 .. Len(ring)
  <2>1. SUFFICES ASSUME i \notin 1 .. Len(ring) PROVE FALSE
    OBVIOUS
  <2>2. Receipt(m).op = "receipt"
    BY DEF Receipt, Link
  <2>3. i = Len(ring')
    BY <1>1, <1>7, <2>1, <2>2 DEF ReceiptLinked, Linked, LinkedTwo
  <2>4. n \in Owed \ {m} /\ m \in Owed
    BY <1>5, <1>7, <2>3 DEF ReceiptLinked, Receipted
  <2>5. QED BY <2>4 DEF OneDebt
<1>8. ASSUME NEW u \in Signs, SignPaid(u) PROVE i \in 1 .. Len(ring)
  <2>1. PICK m : m = Len(ring) + 1
    OBVIOUS
  <2>2. PICK c \in Payers(u) : Linked(Use(u, c)) /\ ring'[m] = Use(u, c)
    BY <1>8, <2>1, PaidLinks, Zenon
  <2>3. Use(u, c).op = "use"
    BY DEF Use, Link
  <2>4. QED BY <1>1, <2>1, <2>2, <2>3 DEF Linked
<1>9. QED BY <1>1, <1>4, <1>6, <1>7, <1>8, ChainLinks DEF ChainStep, NoEnd

-----------------------------------------------------------------------------
(* What the service holds.                                                 *)

HeldStep ==
  /\ \A k \in ServiceKinds :
       asking'[k] # Idle => asking[k] # Idle \/ \A j \in ServiceKinds : j # k => asking'[j] = Idle
  /\ budget' = budget \/ (budget \in DOMAIN book /\ book'[budget].ended)
  /\ \A k \in ServiceKinds : asking'[k].at = "granted" => asking'[k] = asking[k] \/ asking'[k].of = Len(ring) + 1
  /\ asking'["end"].at = "revoke" => asking'["end"].of = budget'

(* Such a step keeps the newest held.                                      *)
LEMMA HeldKept ==
  ASSUME IInv, BInv, BooksKept, ServiceBooks' = ServiceBooks, "asked" \notin crossed, HeldStep
  PROVE  Held'
<1> USE DEF BInv
<1>1. ASSUME NEW k \in ServiceKinds, NEW j \in ServiceKinds, asking'[k] # Idle, asking'[j] # Idle PROVE k = j
  BY <1>1 DEF Held, HeldStep
<1>2. ASSUME NEW b \in ServiceBooks', \A c \in ServiceBooks' : c <= b PROVE budget' = b \/ book'[b].ended
  <2>1. b \in DOMAIN book /\ (budget = b \/ book[b].ended)
    BY <1>2 DEF Held, ServiceBooks
  <2>2. CASE book[b].ended
    BY <2>1, <2>2 DEF BooksKept
  <2>3. CASE budget = b
    BY <2>3 DEF HeldStep
  <2>4. QED BY <2>1, <2>2, <2>3
<1>3. ASSUME NEW k \in ServiceKinds, asking'[k].at = "granted", NEW c \in ServiceBooks'
      PROVE  c < asking'[k].of
  <2>1. CASE asking'[k] = asking[k]
    BY <1>3, <2>1 DEF Held
  <2>2. CASE asking'[k].of = Len(ring) + 1
    <3>1. c \in 1 .. Len(ring)
      BY <1>3 DEF ServiceBooks, BudgetsOf, IsOpen
    <3>2. QED BY <2>2, <3>1, ChainIsFinite
  <2>3. QED BY <1>3, <2>1, <2>2 DEF HeldStep
<1>4. QED BY <1>1, <1>2, <1>3 DEF Held, HeldStep

(* The books of the service, with no budget opened.                        *)
LEMMA ServiceBooksStay ==
  ASSUME BInv, Grows, DOMAIN book' = DOMAIN book PROVE ServiceBooks' = ServiceBooks
<1>1. \A b \in DOMAIN book : ring'[b] = ring[b]
  BY OpenStays DEF BInv, BudgetsOf
<1>2. QED BY <1>1 DEF ServiceBooks

(* Steps that ask nothing of the service.                                  *)
LEMMA HeldStill ==
  ASSUME BInv, "asked" \notin crossed, budget' = budget, \A k \in ServiceKinds : asking'[k] = asking[k]
  PROVE  HeldStep
BY DEF BInv, Held, HeldStep, ServiceKinds

(* Steps that ask something of it.                                         *)
LEMMA HeldAsked ==
  ASSUME BInv, "asked" \notin crossed, NEW k \in ServiceKinds, NEW at, NEW of, Asked(k, at, of),
         asking[k] # Idle \/ \A j \in ServiceKinds : asking[j] = Idle,
         at = "granted" => of = Len(ring) + 1,
         at = "revoke" => k # "end" \/ of = budget,
         budget' = budget \/ (k = "end" /\ at # "revoke" /\ budget \in DOMAIN book /\ book'[budget].ended)
  PROVE  HeldStep
<1>1. k \in Kinds /\ k # "plan" /\ \A j \in ServiceKinds : j \in Kinds
  BY DEF ServiceKinds, Kinds
<1>2. \A j \in Kinds : j # k => asking'[j] = asking[j]
  BY <1>1, AsksFor DEF BInv, RequestsMade
<1>3. asking'[k].at = at /\ asking'[k].of = of
  BY <1>1, AsksFor DEF BInv, RequestsMade
<1>4. ASSUME NEW j \in ServiceKinds, asking'[j] # Idle, asking[j] = Idle
      PROVE  \A i \in ServiceKinds : i # j => asking'[i] = Idle
  BY <1>1, <1>2, <1>4
<1>5. ASSUME NEW j \in ServiceKinds, asking'[j].at = "granted"
      PROVE  asking'[j] = asking[j] \/ asking'[j].of = Len(ring) + 1
  BY <1>1, <1>2, <1>3, <1>5
<1>6. ASSUME asking'["end"].at = "revoke" PROVE asking'["end"].of = budget'
  <2>1. CASE k = "end"
    BY <1>3, <1>6, <2>1
  <2>2. CASE k # "end"
    BY <1>1, <1>2, <1>6, <2>2 DEF BInv, Held, Kinds
  <2>3. QED BY <2>1, <2>2
<1>7. QED BY <1>4, <1>5, <1>6 DEF HeldStep

(* Of the steps that open nothing.                                         *)
LEMMA HeldSteps ==
  ASSUME IInv, IInv', BInv, [BudgetNext]_budgetVars, "asked" \notin crossed, "asked" \notin crossed',
         ~ \E k \in Kinds : BudgetOpens(k)
  PROVE  HeldStep
<1> USE DEF BInv
<1>1. \A k \in ServiceKinds : k \in Kinds /\ k # "plan"
  BY DEF ServiceKinds, Kinds
<1>2. \A k \in Kinds : k = "plan" \/ k \in ServiceKinds
  BY DEF ServiceKinds, Kinds
<1>3. ASSUME budget' = budget, asking' = asking \/ \E at, of : Asked("plan", at, of) PROVE HeldStep
  <2>1. "plan" \in Kinds
    BY DEF Kinds
  <2>2. \A k \in ServiceKinds : asking'[k] = asking[k]
    BY <1>1, <1>3, <2>1, AsksFor DEF RequestsMade
  <2>3. QED BY <1>3, <2>2, HeldStill
<1>4. ASSUME Together = {} PROVE \A j \in ServiceKinds : asking[j] = Idle
  BY <1>1, <1>4 DEF Together
<1>5. \A k \in Kinds : asking[k].at # "none" => asking[k] # Idle
  BY DEF Idle
<1>6. ASSUME NEW k \in Kinds, BudgetAsked(k) PROVE HeldStep
  <2>1. Asked(k, "asked", 0) /\ budget' = budget /\ (k # "plan" => Together = {})
    BY <1>6 DEF BudgetAsked, Together
  <2>2. CASE k = "plan"
    BY <1>3, <2>1, <2>2
  <2>3. CASE k \in ServiceKinds
    BY <1>1, <1>4, <2>1, <2>3, HeldAsked
  <2>4. QED BY <1>2, <2>2, <2>3
<1>7. ASSUME NEW k \in Kinds, PhoneDeclines(k) \/ PhoneGrants(k) PROVE HeldStep
  <2>1. PICK n : n = Len(ring) + 1
    OBVIOUS
  <2>2. budget' = budget /\ asking[k].at = "asked" /\ (Asked(k, Gone(k), 0) \/ Asked(k, "granted", n))
    BY <1>7, <2>1 DEF PhoneDeclines, PhoneGrants
  <2>3. Gone(k) \notin {"granted", "revoke"}
    BY DEF Gone
  <2>4. CASE k = "plan"
    BY <1>3, <2>2, <2>4
  <2>5. CASE k \in ServiceKinds
    BY <1>5, <2>1, <2>2, <2>3, <2>5, HeldAsked
  <2>6. QED BY <1>2, <2>4, <2>5
<1>8. CASE ContinueAsked
  <2>1. Asked("continue", "revoke", budget) /\ budget' = budget /\ Together = {}
    BY <1>8 DEF ContinueAsked, Together
  <2>2. QED BY <1>4, <2>1, HeldAsked DEF ServiceKinds
<1>9. CASE ContinueRevokes
  <2>1. budget' = budget /\ asking["continue"].at = "revoke" /\ \E at \in {"asked", "none"} : Asked("continue", at, 0)
    BY <1>9 DEF ContinueRevokes
  <2>2. QED BY <1>1, <1>5, <2>1, HeldAsked DEF ServiceKinds
<1>10. CASE EndAsked
  <2>1. Together = {} /\ asking["end"] = Idle /\ budget # 0
    BY <1>10 DEF EndAsked, Together
  <2>2. CASE book[budget].ended
    <3>1. budget' = 0 /\ asking' = asking /\ book' = book
      BY <1>10, <2>2 DEF EndAsked
    <3>2. budget \in DOMAIN book
      BY <2>1 DEF BudgetsOf
    <3>3. asking'["end"].at # "revoke"
      BY <2>1, <3>1 DEF Idle
    <3>4. QED BY <2>2, <3>1, <3>2, <3>3 DEF HeldStep
  <2>3. CASE ~book[budget].ended
    <3>1. Asked("end", "revoke", budget) /\ budget' = budget
      BY <1>10, <2>3 DEF EndAsked
    <3>2. QED BY <1>4, <2>1, <3>1, HeldAsked DEF ServiceKinds
  <2>4. QED BY <2>2, <2>3
<1>11. CASE EndRevokes
  <2>1. Asked("end", "none", 0) /\ asking["end"].at = "revoke" /\ asking["end"].of = budget
    BY <1>11 DEF EndRevokes, Held
  <2>2. asking["end"].of \in DOMAIN book
    BY <2>1 DEF RequestsMade, RequestOf, Kinds
  <2>3. budget' = budget \/ (budget \in DOMAIN book /\ book'[budget].ended)
    BY <1>11, <2>1, <2>2 DEF EndRevokes, Ledgers, BookShape
  <2>4. QED BY <1>1, <1>5, <2>1, <2>3, HeldAsked DEF ServiceKinds
<1>12. CASE (\E s \in Signs : PlanSigns(s)) \/ PlanReceipts \/ PlanEnds \/ PlanRevokes
  BY <1>3, <1>12 DEF PlanSigns, PlanReceipts, PlanEnds, PlanRevokes
<1>13. ASSUME NEW w \in {"agent", "plan"}, FileReceipt(w) \/ AskNewest(w) PROVE HeldStep
  <2>1. FilingStep(w)
    BY <1>13, FilesOrAsks, AsksIfFiled
  <2>2. QED BY <1>3, <2>1 DEF FilingStep, Filed, NotFiled, Then
<1>14. CASE \/ \E s \in Signs : \/ ReadHead(s) \/ StartTx(s) \/ SignRefused(s) \/ SignPressed(s)
                                \/ SignUnheard(s) \/ KeyOwed(s) \/ SignAsked(s) \/ SignPaid(s)
                                \/ Look(s) \/ Pickup(s)
            \/ KeyLocks \/ OtherLinks
            \/ \E n \in 1 .. Len(ring) : AgentFiles(n)
            \/ \E e \in Execs : ExecAsked(e) \/ ExecOpens(e) \/ ExecCloses(e)
            \/ UNCHANGED budgetVars
  <2>1. budget' = budget
    BY <1>14 DEF ReadHead, StartTx, SignRefused, SignPressed, SignUnheard, KeyOwed, SignAsked, SignPaid, Look, Pickup,
       KeyLocks, OtherLinks, AgentFiles, ExecAsked, ExecOpens, ExecCloses, budgetVars
  <2>2. QED BY <1>3, <1>14, <2>1, AskNothing
<1>15. CASE \E k \in Kinds : BudgetAsked(k) \/ PhoneDeclines(k) \/ PhoneGrants(k)
  BY <1>6, <1>7, <1>15
<1>16. CASE \E w \in {"agent", "plan"} : FileReceipt(w) \/ AskNewest(w)
  BY <1>13, <1>16
<1> HIDE DEF BInv
<1>17. QED BY <1>8, <1>9, <1>10, <1>11, <1>12, <1>14, <1>15, <1>16, Zenon DEF BudgetNext, Working

(* An opening is of the newest.                                            *)
LEMMA HeldOpens ==
  ASSUME IInv, IInv', BInv, Grows, BooksKept, "asked" \notin crossed, NEW k \in Kinds, BudgetOpens(k)
  PROVE  Held'
<1> USE DEF BInv
<1>1. asking[k].at = "granted" /\ ring' = ring /\ live' = live /\ asking[k] # Idle
  BY DEF BudgetOpens, Idle
<1>2. Plain
  BY <1>1, NoLink
<1>3. PICK b : b = asking[k].of
  OBVIOUS
<1>4. k = "plan" \/ k \in ServiceKinds
  BY DEF Kinds, ServiceKinds
<1>5. CASE book' = book
  <2>1. Asked(k, Gone(k), 0) /\ budget' = budget
    <3>1. b \notin DOMAIN book'
      BY <1>1, <1>3, <1>5 DEF RequestsMade, RequestOf
    <3>2. book' # [c \in DOMAIN book \cup {b} |-> IF c = b THEN NewBook ELSE book[c]]
      BY <3>1
    <3>3. QED BY <1>3, <3>2 DEF BudgetOpens
  <2>2. ServiceBooks' = ServiceBooks
    BY <1>5, ServiceBooksStay
  <2>3. Gone(k) \notin {"granted", "revoke"}
    BY DEF Gone
  <2>4. CASE k = "plan"
    <3>1. \A j \in ServiceKinds : asking'[j] = asking[j]
      BY <2>1, <2>4, AsksFor DEF RequestsMade, ServiceKinds, Kinds
    <3>2. QED BY <2>1, <2>2, <3>1, HeldStill, HeldKept
  <2>5. CASE k \in ServiceKinds
    BY <1>1, <2>1, <2>2, <2>3, <2>5, HeldAsked, HeldKept
  <2>6. QED BY <1>4, <2>4, <2>5
<1>6. CASE book' # book
  <2>1. Opens(k)
    BY <1>1, <1>2, <1>6 DEF BudgetOpens, Opens
  <2>2. DOMAIN book' = DOMAIN book \cup {b} /\ ring[b].by = OwnerOf(k)
    BY <1>3, <2>1, OpensIt DEF OpenedBy
  <2>3. CASE k = "plan"
    <3>1. Asked(k, "running", b) /\ budget' = budget
      BY <1>3, <1>6, <2>3 DEF BudgetOpens
    <3>2. \A j \in ServiceKinds : asking'[j] = asking[j]
      BY <2>3, <3>1, AsksFor DEF RequestsMade, ServiceKinds, Kinds
    <3>3. ServiceBooks' = ServiceBooks
      BY <1>1, <2>2, <2>3 DEF ServiceBooks, OwnerOf
    <3>4. QED BY <3>1, <3>2, <3>3, HeldStill, HeldKept
  <2>4. CASE k \in ServiceKinds
    <3>1. Asked(k, "none", 0) /\ budget' = b /\ k # "plan"
      BY <1>3, <1>6, <2>4 DEF BudgetOpens, ServiceKinds
    <3>2. \A j \in Kinds : j # k => asking'[j] = asking[j]
      BY <3>1, AsksFor DEF RequestsMade
    <3>3. asking'[k] = Idle
      BY <3>1, AsksFor DEF RequestsMade, AskingShape, Idle
    <3>4. \A j \in ServiceKinds : asking'[j] = Idle
      <4>1. \A j \in ServiceKinds : j # k => asking[j] = Idle
        BY <1>1, <2>4 DEF Held
      <4>2. \A j \in ServiceKinds : j \in Kinds
        BY DEF ServiceKinds, Kinds
      <4>3. QED BY <3>2, <3>3, <4>1, <4>2
    <3>5. ServiceBooks' = ServiceBooks \cup {b}
      BY <1>1, <2>2, <3>1 DEF ServiceBooks, OwnerOf
    <3>6. \A c \in ServiceBooks : c < b
      BY <1>1, <1>3, <2>4 DEF Held
    <3>7. b \in Nat /\ \A c \in ServiceBooks : c \in Nat
      <4>1. \A c \in DOMAIN book : c \in 1 .. Len(ring)
        BY DEF BudgetsOf, IsOpen
      <4>2. b \in 1 .. Len(ring)
        BY <1>1, <1>3 DEF RequestsMade, RequestOf, OpenedBy, IsOpen
      <4>3. QED BY <4>1, <4>2 DEF ServiceBooks
    <3>8. ASSUME NEW c \in ServiceBooks', \A d \in ServiceBooks' : d <= c PROVE budget' = c
      BY <3>1, <3>5, <3>6, <3>7, <3>8
    <3>9. Idle.at = "none" /\ "end" \in ServiceKinds
      BY DEF Idle, ServiceKinds
    <3>10. QED BY <3>4, <3>8, <3>9 DEF Held
  <2>5. QED BY <1>4, <2>3, <2>4
<1>7. QED BY <1>5, <1>6

(* The newest is held.                                                     *)
LEMMA HeldHolds ==
  ASSUME IInv, IInv', BInv, [BudgetNext]_budgetVars, Grows, BooksKept PROVE Held'
<1>1. CASE "asked" \in crossed'
  BY <1>1 DEF Held
<1>2. CASE "asked" \notin crossed'
  <2>1. "asked" \notin crossed
    BY <1>2, CrossedGrows
  <2>2. CASE \E k \in Kinds : BudgetOpens(k)
    BY <2>1, <2>2, HeldOpens
  <2>3. CASE ~ \E k \in Kinds : BudgetOpens(k)
    <3>1. DOMAIN book' = DOMAIN book
      BY <2>3, DomainKept
    <3>2. QED BY <1>2, <2>1, <2>3, <3>1, ServiceBooksStay, HeldSteps, HeldKept
  <2>4. QED BY <2>2, <2>3
<1>3. QED BY <1>1, <1>2

-----------------------------------------------------------------------------
(* Nothing is asked, linked or owed to begin with.                         *)
LEMMA BudgetsBegin == BudgetInit => BInv /\ EndsOwingNothing
<1> SUFFICES ASSUME BudgetInit PROVE BInv /\ EndsOwingNothing
  OBVIOUS
<1>1. Len(ring) = 0 /\ live = {} /\ started = {} /\ budget = 0 /\ crossed = {}
  BY DEF BudgetInit
<1>2. DOMAIN book = {} /\ book = <<>>
  BY DEF BudgetInit
<1>3. \A s \in Signs : sign[s] = NoUse /\ sign[s].at = "none" /\ sign[s].before = 0
  BY DEF BudgetInit, NoUse
<1>4. \A e \in Execs : exec[e].links = {} /\ exec[e].at = "shut"
  BY DEF BudgetInit, Shut
<1>5. \A k \in Kinds : asking[k] = Idle /\ asking[k].at = "none" /\ asking[k].of = 0
  BY DEF BudgetInit, Idle
<1>6. \A w \in {"agent", "plan"} : filing[w] = NotFiling /\ filing[w].at = "none" /\ filing[w].with = 0
  BY DEF BudgetInit, NotFiling
<1>7. ~ \E n : IsUse(n)
  BY <1>1 DEF IsUse
<1>8. Owed = {}
  BY <1>1 DEF Owed, OwedAt
<1>9. \A b : SpentOf(b) = 0
  <2> SUFFICES ASSUME NEW b PROVE SpentAt(b, 0) = 0
    BY <1>1 DEF SpentOf
  <2>1. UsesUpTo(b, 0) = {}
    BY DEF UsesUpTo
  <2>2. QED BY <2>1, StepsAreCounted, FS_EmptySet
<1>10. InUse = {} /\ Begun = {}
  BY <1>3 DEF InUse, Begun, PlanItems
<1>11. "plan" \in Kinds /\ "end" \in Kinds /\ ServiceKinds \subseteq Kinds
  BY DEF Kinds, ServiceKinds
<1>12. LinksOf
  BY <1>1 DEF LinksOf
<1>13. BudgetsOf
  BY <1>1, <1>2, <1>9, BudgetAssumption DEF BudgetsOf
<1>14. Ledgers
  BY <1>2 DEF Ledgers, BookShape
<1>15. Faults
  BY BudgetAssumption DEF BudgetInit, Faults
<1>16. RequestsMade
  <2>1. AskingShape
    BY <1>5 DEF BudgetInit, AskingShape, Idle
  <2>2. QED BY <1>2, <1>5, <1>11, <2>1 DEF RequestsMade, RequestOf, PlanRequest, PlanIsOn, OneGrantEach
<1>17. Filings
  <2>1. FilingShape
    BY <1>6 DEF BudgetInit, FilingShape, NotFiling
  <2>2. QED BY <1>5, <1>6, <1>11, <2>1 DEF Filings, FilingOf, AgentFiling, PlanFiling
<1>18. Stages
  BY <1>1, <1>3 DEF Stages
<1>19. Starts /\ OneDebt /\ DebtsKnown /\ EndedIsGone /\ LastOwed /\ SpentKnown /\ EndSettled
  BY <1>1, <1>2, <1>5, <1>7, <1>8, <1>11 DEF Starts, OneDebt, DebtsKnown, EndedIsGone, LastOwed, SpentKnown, EndSettled
<1>20. ToldLinks
  BY <1>4, <1>8 DEF ToldLinks
<1>21. PlanStages
  BY <1>5, <1>6, <1>10, <1>11 DEF PlanStages
<1>22. Held
  BY <1>2, <1>5, <1>11 DEF Held, ServiceBooks
<1>23. EndsOwingNothing
  BY <1>1 DEF EndsOwingNothing
<1>24. QED BY <1>12, <1>13, <1>14, <1>15, <1>16, <1>17, <1>18, <1>19, <1>20, <1>21, <1>22, <1>23 DEF BInv

(* No step breaks it.                                                      *)
LEMMA BudgetsGoOn ==
  ASSUME IInv, BInv, EndsOwingNothing, [BudgetNext]_budgetVars PROVE IInv' /\ BInv' /\ EndsOwingNothing'
<1>1. IInv'
  BY StepHolds
<1>2. /\ Grows /\ LinksOf'
      /\ \A b : SpentOf(b) \in Nat /\ SpentOf(b)' \in Nat /\ SpentOf(b)' >= SpentOf(b)
  BY <1>1, ChainKept, Zenon
<1>3. BookStep /\ SignStep /\ Faults' /\ faults'.lost >= faults.lost
  BY <1>1, BookSteps, SignsMove, FaultSteps, Zenon
<1>4. BooksKept
  BY <1>1, <1>3, BooksAreKept, Zenon
<1>5. Ledgers'
  BY <1>1, <1>2, <1>3, LedgersHold, Zenon
<1>6. BudgetsOf' /\ RequestsMade' /\ Held'
  BY <1>1, <1>2, <1>4, BudgetsHold, RequestsHold, HeldHolds, Zenon
<1>7. Filings' /\ SpentKnown'
  BY <1>1, <1>2, <1>3, <1>4, FilingsHold, SpentKnownHolds, Zenon
<1>8. Stages' /\ Starts' /\ ToldLinks' /\ OneDebt' /\ LastOwed'
  BY <1>1, <1>2, <1>3, <1>4, StagesHold, StartsHold, ToldHolds, OneDebtHolds, LastOwedHolds, Zenon
<1>9. DebtsKnown' /\ PlanStages' /\ EndSettled' /\ EndsOwingNothing'
  BY <1>1, <1>2, <1>3, <1>4, DebtsKnownHold, PlanStagesHold, EndSettledHolds, EndsLeaveNothing, Zenon
<1>10. EndedIsGone'
  BY <1>1, <1>2, <1>3, <1>4, <1>8, EndedHolds, Zenon
<1>11. QED BY <1>1, <1>2, <1>3, <1>5, <1>6, <1>7, <1>8, <1>9, <1>10, Zenon DEF BInv

(* It holds throughout.                                                    *)
LEMMA BInvHolds == BudgetSpec => [](IInv /\ BInv /\ EndsOwingNothing)
<1>1. BudgetInit => IInv /\ BInv /\ EndsOwingNothing
  BY InitHolds, BudgetsBegin
<1>2. IInv /\ BInv /\ EndsOwingNothing /\ [BudgetNext]_budgetVars => (IInv /\ BInv /\ EndsOwingNothing)'
  BY BudgetsGoOn
<1>3. QED BY <1>1, <1>2, PTL DEF BudgetSpec

(* A use the key pays has one asker, who comes to know of it, and whose    *)
(* command is told of no other's (agent.js:133-136, client.js:203-210): for *)
(* any signs, commands and budgets, with links of others, locks and lost   *)
(* answers at any step.                                                    *)
THEOREM EveryUseHasItsAsker == BudgetSpec => []UsesAreTheirOwn
<1>1. ASSUME IInv, BInv PROVE BudgetTypeOK
  <2> USE <1>1 DEF BInv
  <2>1. \A i \in 1 .. Len(ring) :
          /\ ring[i].op \in {"open", "use", "receipt", "end", "other"}
          /\ ring[i].by \in {"service", "plan", "continue", "end", "key", "other"}
          /\ ring[i].op = "use" => ring[i].sign \in Signs
          /\ ring[i].op \in {"use", "end"} => ring[i].of < i /\ ring[ring[i].of].op = "open"
          /\ ring[i].op = "receipt" => ring[i].of < i /\ ring[ring[i].of].op = "use"
    BY ChainIsFinite DEF LinksOf, LinkOf
  <2>2. \A b \in live \cup DOMAIN book : ring[b].op = "open"
    BY DEF BudgetsOf, IsOpen
  <2>3. \A t \in started : t.by \in Signs /\ t.over \in 0 .. Len(ring)
    BY DEF Starts, Stages
  <2>4. budget \in {0} \cup DOMAIN book
    BY DEF BudgetsOf
  <2>5. \A b \in DOMAIN book : book[b].owed \subseteq 1 .. Len(ring) /\ book[b].spent <= SpentOf(b)
    BY DEF Ledgers, IsUse
  <2>6. \A s \in Signs : sign[s].with \in {0} \cup DOMAIN book
    BY DEF Stages, OfABudget, OfNone, NoUse
  <2>7. \A e \in Execs : exec[e].links # {} => exec[e].used
    BY DEF ToldLinks
  <2>8. faults.lost <= MaxLost /\ faults.others <= MaxOthers
    BY BudgetAssumption DEF Faults
  <2>9. QED BY <2>1, <2>2, <2>3, <2>4, <2>5, <2>6, <2>7, <2>8, Zenon DEF BudgetTypeOK
<1>2. BInv => ToldOfItsOwn
  BY DEF BInv, ToldLinks, ToldOfItsOwn
<1>3. BInv => DebtIsKnown
  BY DEF BInv, DebtsKnown, KnownAt, DebtIsKnown, Done
<1>4. BudgetSpec => []BudgetTypeOK /\ []ToldOfItsOwn /\ []DebtIsKnown
  BY <1>1, <1>2, <1>3, BInvHolds, PTL
<1>5. BudgetTypeOK /\ OnePaidEach /\ ToldOfItsOwn /\ DebtIsKnown => UsesAreTheirOwn
  BY DEF UsesAreTheirOwn
<1>6. QED BY <1>4, <1>5, OnePaidUse, PTL

(* A budget ends once and owing nothing, the service holds its newest until *)
(* it ended (client.js:242-256, agent.js setBudget), and a plan that says   *)
(* "failed" has a cause (plan.js runPlan): for any signs, commands and      *)
(* budgets, whatever else the key does.                                     *)
THEOREM EveryBudgetEndsClean == BudgetSpec => []BudgetsEndClean
<1>1. ASSUME BInv PROVE HeldByService
  <2>1. SUFFICES ASSUME "asked" \notin crossed, NEW b \in ServiceBooks, \A c \in ServiceBooks : c <= b
                 PROVE  budget = b \/ book[b].ended
    BY DEF HeldByService, ServiceBooks
  <2>2. QED BY <1>1, <2>1 DEF BInv, Held
<1>2. ASSUME BInv PROVE PlanFailsForACause
  <2>1. 0 \notin DOMAIN book
    BY <1>2 DEF BInv, BudgetsOf, IsOpen
  <2>2. QED BY <1>2, <2>1 DEF BInv, PlanStages, PlanFailsForACause
<1>3. IInv /\ BInv /\ EndsOwingNothing => BudgetsEndClean
  BY <1>1, <1>2 DEF BInv, BudgetsEndClean
<1>4. QED BY <1>3, BInvHolds, PTL

-----------------------------------------------------------------------------
(* The room: for any members, sockets and requests.                        *)

(* The inductive invariant.                                                *)
RoomMessages ==
  [t : {"join", "request", "answer"}, who : Members, id : Nat, of : Conns]
MemberMessages ==
  [t : {"request", "answer", "up", "down", "gone"}, who : Members, id : Nat, of : Conns]
    \cup [t : {"joined"}, who : Members, id : Nat, of : Conns, peers : SUBSET Members]

AfterJoin == {m \in RoomMessages : m.t # "join"}

RoomTypes ==
  /\ listed \subseteq Conns /\ closing \subseteq listed
  /\ joinedAt \in [Conns -> Nat]
  /\ toRoom \in [Conns -> Seq(RoomMessages)] /\ toMember \in [Conns -> Seq(MemberMessages)]
  /\ client \in [Conns -> {"none", "joining", "in", "gone"}]
  /\ peers \in [Conns -> SUBSET Members]
  /\ asked \in [Conns -> SUBSET [id : Nat, to : Members]]
  /\ toAnswer \in [Conns -> SUBSET RoomMessages]
  /\ number \in [Conns -> Nat]

Bounded == \E b \in Nat : \A s \in Conns : joinedAt[s] <= b

(* A socket's life: it is listed from its dial until its close, its first  *)
(* message joins and it hears nothing before.                              *)
LifeOf(s) ==
  /\ s \in listed => client[s] # "none"
  /\ s \notin listed => client[s] \in {"none", "gone"} /\ toRoom[s] = <<>> /\ ~HasJoined(s)
  /\ client[s] = "none" => toMember[s] = <<>>
  /\ s \in listed /\ ~HasJoined(s) =>
       /\ toMember[s] = <<>> /\ client[s] # "in"
       /\ Len(toRoom[s]) = 1 /\ toRoom[s][1].t = "join"
  /\ HasJoined(s) => toRoom[s] \in Seq(AfterJoin)
  /\ client[s] # "in" => peers[s] = {} /\ asked[s] = {} /\ toAnswer[s] = {}
Lives == \A s \in Conns : LifeOf(s)

(* A member's sockets but its newest are closing.                          *)
OldClose ==
  \A s, c \in Conns :
    MemberOf(s) = MemberOf(c) /\ s # c /\ HasJoined(s) /\ joinedAt[s] <= joinedAt[c] => s \in closing

(* What a member will list once it has heard what is on its way.           *)
Adds(m, d) == (m.t = "joined" /\ d \in m.peers) \/ (m.t = "up" /\ m.who = d)
Removes(m, d) == m.t = "down" /\ m.who = d
WillList(p, q, d) ==
  \/ d \in p /\ \A i \in 1 .. Len(q) : ~Removes(q[i], d)
  \/ \E i \in 1 .. Len(q) : Adds(q[i], d) /\ \A j \in 1 .. Len(q) : j > i => ~Removes(q[j], d)
Lists(s, d) == WillList(peers[s], toMember[s], d)

Active(s) == HasJoined(s) /\ s \notin closing /\ client[s] # "gone"
Presence ==
  /\ announced \subseteq There
  /\ \A s \in Conns : Active(s) =>
       \A d \in Members :
         /\ Lists(s, d) => d \in There /\ d # MemberOf(s)
         /\ d \in announced /\ d # MemberOf(s) => Lists(s, d)

(* A request and its answer name the member and the socket it was made on. *)
FromSocket(s) ==
  {m \in RoomMessages : /\ m.t = "request" => MemberOf(m.of) = MemberOf(s)
                        /\ m.t = "answer" => MemberOf(m.of) = m.who}
ToSocket(s) ==
  {m \in MemberMessages : /\ m.t = "request" => m.who = MemberOf(m.of)
                          /\ m.t = "answer" => MemberOf(m.of) = MemberOf(s)}
Requests ==
  /\ \A s \in Conns : toRoom[s] \in Seq(FromSocket(s))
  /\ \A s \in Conns : toMember[s] \in Seq(ToSocket(s))
  /\ \A s \in Conns : \A m \in toAnswer[s] : m.t = "request" /\ m.who = MemberOf(m.of)
  /\ \A a \in answers : MemberOf(a.of) = MemberOf(a.on)

RoomInv == RoomTypes /\ Bounded /\ Lives /\ OldClose /\ Presence /\ Requests

-----------------------------------------------------------------------------
(* A queue, and what will be listed once it is heard.                      *)
LEMMA NothingOnTheWay ==
  ASSUME NEW p, NEW d PROVE WillList(p, <<>>, d) <=> d \in p
<1>1. Len(<<>>) = 0
  BY EmptySeq
<1>2. 1 .. Len(<<>>) = {}
  BY <1>1
<1>3. QED BY <1>2 DEF WillList

(* One message more.                                                     *)
LEMMA OneMoreToHear ==
  ASSUME NEW S, NEW q \in Seq(S), NEW m \in S, NEW p, NEW d
  PROVE  WillList(p, Append(q, m), d) <=> Adds(m, d) \/ (~Removes(m, d) /\ WillList(p, q, d))
<1> DEFINE r == Append(q, m)
           n == Len(q)
<1>1. /\ n \in Nat /\ Len(r) = n + 1
      /\ \A i \in 1 .. n : r[i] = q[i]
      /\ r[n + 1] = m
  BY AppendProperties, LenProperties
<1> HIDE DEF r
<1>2. \A i : i \in 1 .. Len(r) <=> i \in 1 .. n \/ i = n + 1
  BY <1>1
<1>3. ~(Adds(m, d) /\ Removes(m, d))
  BY DEF Adds, Removes
<1>4. ASSUME WillList(p, r, d) PROVE Adds(m, d) \/ (~Removes(m, d) /\ WillList(p, q, d))
  <2>1. CASE d \in p /\ \A i \in 1 .. Len(r) : ~Removes(r[i], d)
    BY <2>1, <1>1, <1>2 DEF WillList
  <2>2. ASSUME NEW i \in 1 .. Len(r), Adds(r[i], d), \A j \in 1 .. Len(r) : j > i => ~Removes(r[j], d)
        PROVE  Adds(m, d) \/ (~Removes(m, d) /\ WillList(p, q, d))
    <3>1. CASE i = n + 1
      BY <3>1, <2>2, <1>1
    <3>2. CASE i \in 1 .. n
      <4>1. n + 1 > i /\ n + 1 \in 1 .. Len(r)
        BY <3>2, <1>1
      <4>2. ~Removes(m, d)
        BY <4>1, <2>2, <1>1
      <4>3. Adds(q[i], d) /\ \A j \in 1 .. n : j > i => ~Removes(q[j], d)
        BY <3>2, <2>2, <1>1, <1>2
      <4>4. QED BY <3>2, <4>2, <4>3 DEF WillList
    <3>3. QED BY <3>1, <3>2, <1>2
  <2>3. QED BY <1>4, <2>1, <2>2 DEF WillList
<1>5. ASSUME Adds(m, d) PROVE WillList(p, r, d)
  <2>1. n + 1 \in 1 .. Len(r) /\ Adds(r[n + 1], d)
    BY <1>1, <1>5
  <2>2. \A j \in 1 .. Len(r) : ~(j > n + 1)
    BY <1>1
  <2>3. QED BY <2>1, <2>2 DEF WillList
<1>6. ASSUME ~Removes(m, d), WillList(p, q, d) PROVE WillList(p, r, d)
  <2>1. CASE d \in p /\ \A i \in 1 .. n : ~Removes(q[i], d)
    <3>1. \A i \in 1 .. Len(r) : ~Removes(r[i], d)
      BY <2>1, <1>1, <1>2, <1>6
    <3>2. QED BY <2>1, <3>1 DEF WillList
  <2>2. ASSUME NEW i \in 1 .. n, Adds(q[i], d), \A j \in 1 .. n : j > i => ~Removes(q[j], d)
        PROVE  WillList(p, r, d)
    <3>1. i \in 1 .. Len(r) /\ Adds(r[i], d)
      BY <2>2, <1>1, <1>2
    <3>2. \A j \in 1 .. Len(r) : j > i => ~Removes(r[j], d)
      BY <2>2, <1>1, <1>2, <1>6
    <3>3. QED BY <3>1, <3>2 DEF WillList
  <2>3. QED BY <1>6, <2>1, <2>2 DEF WillList
<1>7. QED BY <1>4, <1>5, <1>6 DEF r

(* One message less, and what is listed as it says.                      *)
LEMMA OneHeard ==
  ASSUME NEW S, NEW q \in Seq(S), q # <<>>, NEW p, NEW o, NEW d,
         d \in o <=> Adds(Head(q), d) \/ (~Removes(Head(q), d) /\ d \in p)
  PROVE  WillList(o, Tail(q), d) <=> WillList(p, q, d)
<1> DEFINE r == Tail(q)
           n == Len(q)
<1>1. /\ n \in Nat /\ n >= 1 /\ Len(r) = n - 1
      /\ \A i \in 1 .. Len(r) : r[i] = q[i + 1]
      /\ Head(q) = q[1]
  BY HeadTailProperties, LenProperties, EmptySeq
<1> HIDE DEF r
<1>2. \A i : i \in 1 .. n <=> i = 1 \/ (i \in Int /\ i - 1 \in 1 .. Len(r))
  BY <1>1
<1>3. \A i \in 1 .. n : i # 1 => i - 1 \in 1 .. Len(r) /\ r[i - 1] = q[i]
  BY <1>1
<1>4. \A i \in 1 .. Len(r) : i + 1 \in 1 .. n /\ r[i] = q[i + 1]
  BY <1>1
<1>5. ~(Adds(Head(q), d) /\ Removes(Head(q), d))
  BY DEF Adds, Removes
<1>6. ASSUME WillList(p, q, d) PROVE WillList(o, r, d)
  <2>1. CASE d \in p /\ \A i \in 1 .. n : ~Removes(q[i], d)
    <3>1. 1 \in 1 .. n
      BY <1>1
    <3>2. d \in o
      BY <2>1, <3>1, <1>1
    <3>3. \A i \in 1 .. Len(r) : ~Removes(r[i], d)
      BY <2>1, <1>4
    <3>4. QED BY <3>2, <3>3 DEF WillList
  <2>2. ASSUME NEW i \in 1 .. n, Adds(q[i], d), \A j \in 1 .. n : j > i => ~Removes(q[j], d)
        PROVE  WillList(o, r, d)
    <3>1. CASE i = 1
      <4>1. d \in o
        BY <3>1, <2>2, <1>1
      <4>2. \A j \in 1 .. Len(r) : j + 1 > i /\ j + 1 \in 1 .. n /\ r[j] = q[j + 1]
        BY <3>1, <1>4
      <4>3. \A j \in 1 .. Len(r) : ~Removes(r[j], d)
        BY <4>2, <2>2
      <4>4. QED BY <4>1, <4>3 DEF WillList
    <3>2. CASE i # 1
      <4>1. i - 1 \in 1 .. Len(r) /\ Adds(r[i - 1], d)
        BY <3>2, <2>2, <1>3
      <4>2. \A j \in 1 .. Len(r) : j > i - 1 => j + 1 > i /\ j + 1 \in 1 .. n /\ r[j] = q[j + 1]
        BY <1>4
      <4>3. \A j \in 1 .. Len(r) : j > i - 1 => ~Removes(r[j], d)
        BY <4>2, <2>2
      <4>4. QED BY <4>1, <4>3 DEF WillList
    <3>3. QED BY <3>1, <3>2
  <2>3. QED BY <1>6, <2>1, <2>2 DEF WillList
<1>7. ASSUME WillList(o, r, d) PROVE WillList(p, q, d)
  <2>1. CASE d \in o /\ \A i \in 1 .. Len(r) : ~Removes(r[i], d)
    <3>1. \A j \in 1 .. n : j > 1 => ~Removes(q[j], d)
      BY <2>1, <1>3
    <3>2. CASE Adds(Head(q), d)
      <4>1. 1 \in 1 .. n /\ Adds(q[1], d)
        BY <3>2, <1>1
      <4>2. QED BY <4>1, <3>1 DEF WillList
    <3>3. CASE ~Removes(Head(q), d) /\ d \in p
      <4>1. \A i \in 1 .. n : ~Removes(q[i], d)
        BY <3>1, <3>3, <1>1
      <4>2. QED BY <4>1, <3>3 DEF WillList
    <3>4. QED BY <2>1, <3>2, <3>3
  <2>2. ASSUME NEW i \in 1 .. Len(r), Adds(r[i], d), \A j \in 1 .. Len(r) : j > i => ~Removes(r[j], d)
        PROVE  WillList(p, q, d)
    <3>1. i + 1 \in 1 .. n /\ Adds(q[i + 1], d)
      BY <2>2, <1>4
    <3>2. \A j \in 1 .. n : j > i + 1 => j # 1 /\ j - 1 > i /\ j - 1 \in 1 .. Len(r) /\ r[j - 1] = q[j]
      BY <1>3
    <3>3. \A j \in 1 .. n : j > i + 1 => ~Removes(q[j], d)
      BY <3>2, <2>2
    <3>4. QED BY <3>1, <3>3 DEF WillList
  <2>3. QED BY <1>7, <2>1, <2>2 DEF WillList
<1>8. QED BY <1>6, <1>7 DEF r

-----------------------------------------------------------------------------
(* A member's newest socket.                                               *)
LEMMA AMember == ASSUME NEW s \in Conns PROVE MemberOf(s) \in Members
BY DEF Conns, MemberOf

(* Of numbers under a bound one is the last.                             *)
LEMMA LastOfBounded ==
  ASSUME NEW T, T # {}, NEW f, \A x \in T : f[x] \in Nat, NEW b \in Nat, \A x \in T : f[x] <= b
  PROVE  \E x \in T : \A y \in T : f[y] <= f[x]
<1> DEFINE D == {b - f[x] : x \in T}
<1>1. D \subseteq Nat /\ D # {}
  OBVIOUS
<1>2. IsWellFoundedOn(OpToRel(<, Nat), Nat)
  BY NatLessThanWellFounded
<1> HIDE DEF D
<1>3. PICK m \in D : \A y \in D : ~(<<y, m>> \in OpToRel(<, Nat))
  BY <1>1, <1>2, WFMin, Zenon
<1>4. \A y \in D : ~(y < m)
  <2>1. SUFFICES ASSUME NEW y \in D PROVE ~(y < m)
    OBVIOUS
  <2>2. y \in Nat /\ m \in Nat
    BY <1>1
  <2>3. <<y, m>> \in Nat \X Nat /\ <<y, m>>[1] = y /\ <<y, m>>[2] = m
    BY <2>2
  <2>4. QED BY <1>3, <2>3 DEF OpToRel
<1>5. PICK x \in T : m = b - f[x]
  BY <1>3 DEF D
<1>6. \A y \in T : b - f[y] \in D
  BY DEF D
<1>7. \A y \in T : f[y] <= f[x]
  BY <1>4, <1>5, <1>6
<1>8. QED BY <1>7

(* A member that is there has a newest socket.                           *)
LEMMA NewestIs ==
  ASSUME joinedAt \in [Conns -> Nat], Bounded, NEW d \in There
  PROVE  /\ Newest(d) \in Conns /\ MemberOf(Newest(d)) = d /\ HasJoined(Newest(d))
         /\ \A c \in Conns : MemberOf(c) = d /\ HasJoined(c) => joinedAt[c] <= joinedAt[Newest(d)]
<1> DEFINE T == JoinedOf(d)
<1>1. T # {} /\ T \subseteq Conns
  BY DEF There, JoinedOf
<1>2. PICK b \in Nat : \A s \in Conns : joinedAt[s] <= b
  BY DEF Bounded
<1>3. \A x \in T : joinedAt[x] \in Nat /\ joinedAt[x] <= b
  BY <1>1, <1>2
<1> HIDE DEF T
<1>4. \E x \in T : \A y \in T : joinedAt[y] <= joinedAt[x]
  BY <1>1, <1>3, LastOfBounded
<1>5. Newest(d) \in T /\ \A y \in T : joinedAt[y] <= joinedAt[Newest(d)]
  BY <1>4 DEF Newest, T
<1>6. QED BY <1>5 DEF T, JoinedOf

(* An active socket is its member's newest.                                *)
LEMMA ActiveIsNewest ==
  ASSUME RoomTypes, Bounded, OldClose, NEW s \in Conns, Active(s)
  PROVE  MemberOf(s) \in There /\ s = Newest(MemberOf(s))
<1>1. MemberOf(s) \in There
  BY AMember DEF There, JoinedOf, Active
<1>2. /\ Newest(MemberOf(s)) \in Conns /\ MemberOf(Newest(MemberOf(s))) = MemberOf(s)
      /\ joinedAt[s] <= joinedAt[Newest(MemberOf(s))]
  BY <1>1, NewestIs DEF RoomTypes, Active
<1>3. QED BY <1>1, <1>2 DEF OldClose, Active

-----------------------------------------------------------------------------
(* What a step does to a queue, a message, a socket it is not about.       *)
LEMMA Shorter ==
  ASSUME NEW S, NEW q \in Seq(S), q # <<>>
  PROVE  Head(q) \in S /\ Tail(q) \in Seq(S) /\ Head(q) = q[1] /\ (Len(q) = 1 => Tail(q) = <<>>)
<1>1. Head(q) \in S /\ Tail(q) \in Seq(S) /\ Len(Tail(q)) = Len(q) - 1 /\ Head(q) = q[1]
  BY HeadTailProperties, LenProperties, EmptySeq
<1>2. \A r \in Seq(S) : Len(r) = 0 => r = <<>>
  BY EmptySeq
<1>3. Len(q) = 1 => Len(Tail(q)) = 0
  BY <1>1
<1>4. QED BY <1>1, <1>2, <1>3

(* A request or an answer, passed on in its sender's name.               *)
LEMMA Passed ==
  ASSUME NEW m \in AfterJoin, NEW d \in Members
  PROVE  LET n == [m EXCEPT !.who = d]
         IN  n \in MemberMessages /\ n.t = m.t /\ n.who = d /\ n.of = m.of
BY DEF AfterJoin, RoomMessages, MemberMessages

(* A request made into its answer.                                       *)
LEMMA Answering ==
  ASSUME NEW m \in RoomMessages
  PROVE  LET n == [m EXCEPT !.t = "answer"]
         IN  n \in RoomMessages /\ n.t = "answer" /\ n.who = m.who /\ n.of = m.of
BY DEF RoomMessages

(* What Told does to each queue.                                         *)
LEMMA ToldIs ==
  ASSUME RoomTypes, NEW m \in MemberMessages, NEW them
  PROVE  /\ Told(them, m) \in [Conns -> Seq(MemberMessages)]
         /\ \A s \in Conns : Told(them, m)[s] = IF s \in them \ closing THEN Append(toMember[s], m)
                                                ELSE toMember[s]
<1>1. \A s \in Conns : Append(toMember[s], m) \in Seq(MemberMessages)
  BY AppendProperties DEF RoomTypes
<1>2. QED BY <1>1 DEF Told, RoomTypes

(* A socket a step is not about.                                         *)
LEMMA OtherLife ==
  ASSUME NEW c \in Conns, LifeOf(c), c \in listed' <=> c \in listed, client'[c] = client[c],
         toRoom'[c] = toRoom[c], joinedAt'[c] = joinedAt[c], peers'[c] = peers[c],
         asked'[c] = asked[c], toAnswer'[c] = toAnswer[c],
         toMember'[c] = toMember[c] \/ HasJoined(c)
  PROVE  LifeOf(c)'
BY DEF LifeOf, HasJoined

(* A step nobody comes or leaves by, and that keeps what will be listed. *)
LEMMA PresenceStays ==
  ASSUME Presence, announced' = announced, There' = There,
         \A s \in Conns : Active(s)' =>
           Active(s) /\ \A d \in Members : Lists(s, d)' <=> Lists(s, d)
  PROVE  Presence'
BY DEF Presence

(* Who has joined stays as it is.                                          *)
LEMMA SameJoined ==
  ASSUME joinedAt' = joinedAt
  PROVE  There' = There /\ (\A s : HasJoined(s)' <=> HasJoined(s)) /\ (Bounded => Bounded')
BY DEF There, JoinedOf, HasJoined, Bounded

(* Sockets that close, nobody joining.                                   *)
LEMMA SameOld ==
  ASSUME OldClose, joinedAt' = joinedAt, closing \subseteq closing' PROVE OldClose'
BY DEF OldClose, HasJoined

-----------------------------------------------------------------------------
(* The room before anyone dials.                                         *)
LEMMA RoomInitHolds == RoomAssumption /\ RoomInit => RoomInv
<1> SUFFICES ASSUME RoomAssumption, RoomInit PROVE RoomInv
  OBVIOUS
<1>1. \A S : <<>> \in Seq(S)
  BY EmptySeq
<1>2. RoomTypes
  BY <1>1 DEF RoomInit, RoomTypes
<1>3. Bounded
  <2>1. 0 \in Nat /\ \A s \in Conns : joinedAt[s] <= 0
    BY DEF RoomInit
  <2>2. QED BY <2>1 DEF Bounded
<1>4. \A s \in Conns : ~HasJoined(s)
  BY DEF RoomInit, HasJoined
<1>5. Lives
  BY <1>1, <1>4 DEF RoomInit, Lives, LifeOf
<1>6. OldClose
  BY <1>4 DEF OldClose
<1>7. Presence
  BY <1>4 DEF RoomInit, Presence, Active
<1>8. Requests
  BY <1>1 DEF RoomInit, Requests
<1>9. QED BY <1>2, <1>3, <1>5, <1>6, <1>7, <1>8 DEF RoomInv

(* The steps of a member's end alone, and the join deadline.               *)
LEMMA OverdueStep ==
  ASSUME RoomInv, NEW s \in Conns, JoinOverdue(s) PROVE RoomInv'
<1>1. RoomTypes'
  BY DEF RoomInv, RoomTypes, JoinOverdue, clientVars
<1>2. Bounded' /\ There' = There /\ \A c : HasJoined(c)' <=> HasJoined(c)
  BY SameJoined DEF RoomInv, JoinOverdue
<1>3. Lives'
  <2>1. \A c \in Conns : LifeOf(c)'
    BY OtherLife DEF RoomInv, Lives, JoinOverdue, clientVars
  <2>2. QED BY <2>1 DEF Lives
<1>4. OldClose'
  BY SameOld DEF RoomInv, JoinOverdue
<1>5. Presence'
  <2>1. \A c \in Conns : Active(c)' => Active(c) /\ \A d \in Members : Lists(c, d)' <=> Lists(c, d)
    BY <1>2 DEF Active, Lists, JoinOverdue, clientVars
  <2>2. QED BY <1>2, <2>1, PresenceStays DEF RoomInv, JoinOverdue
<1>6. Requests'
  BY DEF RoomInv, Requests, JoinOverdue, clientVars
<1>7. QED BY <1>1, <1>2, <1>3, <1>4, <1>5, <1>6 DEF RoomInv

(* A request given up.                                                   *)
LEMMA NoAnswerStep ==
  ASSUME RoomInv, NEW s \in Conns, NEW q \in asked[s], NoAnswer(s, q) PROVE RoomInv'
<1>1. RoomTypes'
  BY DEF RoomInv, RoomTypes, NoAnswer
<1>2. Bounded' /\ There' = There /\ \A c : HasJoined(c)' <=> HasJoined(c)
  BY SameJoined DEF RoomInv, NoAnswer
<1>3. Lives'
  <2>1. \A c \in Conns : c # s => LifeOf(c)'
    BY OtherLife DEF RoomInv, Lives, NoAnswer, RoomTypes
  <2>2. LifeOf(s)'
    BY <1>2 DEF RoomInv, Lives, LifeOf, NoAnswer, RoomTypes
  <2>3. QED BY <2>1, <2>2 DEF Lives
<1>4. OldClose'
  BY SameOld DEF RoomInv, NoAnswer
<1>5. Presence'
  <2>1. \A c \in Conns : Active(c)' => Active(c) /\ \A d \in Members : Lists(c, d)' <=> Lists(c, d)
    BY <1>2 DEF Active, Lists, NoAnswer
  <2>2. QED BY <1>2, <2>1, PresenceStays DEF RoomInv, NoAnswer
<1>6. Requests'
  BY DEF RoomInv, Requests, NoAnswer
<1>7. QED BY <1>1, <1>2, <1>3, <1>4, <1>5, <1>6 DEF RoomInv

(* A socket lost at the member's end.                                    *)
LEMMA DropsStep ==
  ASSUME RoomInv, NEW s \in Conns, Drops(s) PROVE RoomInv'
<1>1. \A S : <<>> \in Seq(S)
  BY EmptySeq
<1>2. RoomTypes'
  BY <1>1 DEF RoomInv, RoomTypes, Drops
<1>3. Bounded' /\ There' = There /\ \A c : HasJoined(c)' <=> HasJoined(c)
  BY SameJoined DEF RoomInv, Drops
<1>4. Lives'
  <2>1. \A c \in Conns : c # s => LifeOf(c)'
    BY OtherLife DEF RoomInv, Lives, Drops, RoomTypes
  <2>2. LifeOf(s)'
    BY <1>3 DEF RoomInv, Lives, LifeOf, Drops, RoomTypes
  <2>3. QED BY <2>1, <2>2 DEF Lives
<1>5. OldClose'
  BY SameOld DEF RoomInv, Drops
<1>6. Presence'
  <2>1. \A c \in Conns : Active(c)' => Active(c) /\ \A d \in Members : Lists(c, d)' <=> Lists(c, d)
    BY <1>3 DEF Active, Lists, Drops, RoomInv, RoomTypes
  <2>2. QED BY <1>3, <2>1, PresenceStays DEF RoomInv, Drops
<1>7. Requests'
  BY <1>1 DEF RoomInv, Requests, Drops, RoomTypes
<1>8. QED BY <1>2, <1>3, <1>4, <1>5, <1>6, <1>7 DEF RoomInv

(* A dial.                                                               *)
LEMMA ConnectStep ==
  ASSUME RoomInv, NEW s \in Conns, Connect(s) PROVE RoomInv'
<1> DEFINE m == Message("join", MemberOf(s), 0, s)
<1>1. m \in RoomMessages /\ m.t = "join"
  BY AMember DEF Message, RoomMessages
<1>2. \A S : m \in S => <<m>> \in Seq(S) /\ Len(<<m>>) = 1 /\ <<m>>[1] = m
  OBVIOUS
<1>3. m \in FromSocket(s)
  BY <1>1 DEF FromSocket
<1>4. s \notin listed /\ ~HasJoined(s) /\ toMember[s] = <<>>
  BY DEF RoomInv, Lives, LifeOf, Connect
<1>5. toRoom' = [toRoom EXCEPT ![s] = <<m>>]
  BY DEF Connect
<1> HIDE DEF m
<1>6. RoomTypes'
  BY <1>1, <1>2, <1>5 DEF RoomInv, RoomTypes, Connect
<1>7. Bounded' /\ There' = There /\ \A c : HasJoined(c)' <=> HasJoined(c)
  BY SameJoined DEF RoomInv, Connect
<1>8. Lives'
  <2>1. \A c \in Conns : c # s => LifeOf(c)'
    BY OtherLife, <1>5 DEF RoomInv, Lives, Connect, RoomTypes
  <2>2. LifeOf(s)'
    BY <1>1, <1>2, <1>4, <1>5, <1>7 DEF RoomInv, Lives, LifeOf, Connect, RoomTypes
  <2>3. QED BY <2>1, <2>2 DEF Lives
<1>9. OldClose'
  BY SameOld DEF RoomInv, Connect
<1>10. Presence'
  <2>1. \A c \in Conns : Active(c)' => Active(c) /\ \A d \in Members : Lists(c, d)' <=> Lists(c, d)
    BY <1>4, <1>7 DEF Active, Lists, Connect, RoomInv, RoomTypes
  <2>2. QED BY <1>7, <2>1, PresenceStays DEF RoomInv, Connect
<1>11. Requests'
  BY <1>2, <1>3, <1>5 DEF RoomInv, Requests, Connect, RoomTypes
<1>12. QED BY <1>6, <1>7, <1>8, <1>9, <1>10, <1>11 DEF RoomInv

(* Something more is sent to the room on a socket that is in.              *)
LEMMA SentStep ==
  ASSUME RoomInv, RoomTypes', NEW s \in Conns, client[s] = "in", NEW m \in RoomMessages,
         m \in FromSocket(s), m.t # "join",
         toRoom' = [toRoom EXCEPT ![s] = Append(@, m)],
         \A c \in Conns : toAnswer'[c] \subseteq toAnswer[c],
         \A c \in Conns : c # s => asked'[c] = asked[c] /\ toAnswer'[c] = toAnswer[c],
         UNCHANGED <<listed, joinedAt, closing, toMember, client, peers, answers, announced>>
  PROVE  RoomInv'
<1>1. HasJoined(s) /\ s \in listed
  BY DEF RoomInv, Lives, LifeOf
<1>2. Bounded' /\ There' = There /\ \A c : HasJoined(c)' <=> HasJoined(c)
  BY SameJoined DEF RoomInv
<1>3. Lives'
  <2>1. \A c \in Conns : c # s => LifeOf(c)'
    BY OtherLife DEF RoomInv, Lives, RoomTypes
  <2>2. toRoom[s] \in Seq(AfterJoin) /\ m \in AfterJoin
    BY <1>1 DEF RoomInv, Lives, LifeOf, AfterJoin
  <2>3. toRoom'[s] \in Seq(AfterJoin)
    BY <2>2, AppendProperties DEF RoomInv, RoomTypes
  <2>4. LifeOf(s)'
    BY <1>1, <1>2, <2>3 DEF RoomInv, Lives, LifeOf
  <2>5. QED BY <2>1, <2>4 DEF Lives
<1>4. OldClose'
  BY SameOld DEF RoomInv
<1>5. Presence'
  <2>1. \A c \in Conns : Active(c)' => Active(c) /\ \A d \in Members : Lists(c, d)' <=> Lists(c, d)
    BY <1>2 DEF Active, Lists
  <2>2. QED BY <1>2, <2>1, PresenceStays DEF RoomInv
<1>6. Requests'
  <2>1. Append(toRoom[s], m) \in Seq(FromSocket(s))
    BY AppendProperties DEF RoomInv, Requests
  <2>2. \A c \in Conns : toRoom'[c] \in Seq(FromSocket(c))
    BY <2>1 DEF RoomInv, Requests, RoomTypes
  <2>3. QED BY <2>2 DEF RoomInv, Requests
<1>7. QED BY <1>2, <1>3, <1>4, <1>5, <1>6 DEF RoomInv

(* A request.                                                            *)
LEMMA AskStep ==
  ASSUME RoomInv, NEW s \in Conns, NEW d \in Members, AskPeer(s, d) PROVE RoomInv'
<1> DEFINE n == number[s] + 1
           m == Message("request", d, n, s)
<1>1. n \in Nat
  BY DEF RoomInv, RoomTypes
<1>2. /\ number' = [number EXCEPT ![s] = n] /\ number'[s] = n
      /\ asked' = [asked EXCEPT ![s] = @ \cup {[id |-> n, to |-> d]}]
      /\ toRoom' = [toRoom EXCEPT ![s] = Append(@, m)]
  BY DEF AskPeer, RoomInv, RoomTypes
<1> HIDE DEF n
<1>3. m \in RoomMessages /\ m.t = "request" /\ m.of = s
  BY <1>1 DEF Message, RoomMessages
<1>4. m \in FromSocket(s)
  BY <1>3 DEF FromSocket
<1> HIDE DEF m
<1>5. Append(toRoom[s], m) \in Seq(RoomMessages)
  BY <1>3, AppendProperties DEF RoomInv, RoomTypes
<1>6. RoomTypes'
  BY <1>1, <1>2, <1>5 DEF RoomInv, RoomTypes, AskPeer
<1>7. /\ client[s] = "in" /\ m.t # "join"
      /\ \A c \in Conns : toAnswer'[c] \subseteq toAnswer[c]
      /\ \A c \in Conns : c # s => asked'[c] = asked[c] /\ toAnswer'[c] = toAnswer[c]
      /\ UNCHANGED <<listed, joinedAt, closing, toMember, client, peers, answers, announced>>
  BY <1>2, <1>3 DEF AskPeer, RoomInv, RoomTypes
<1>8. QED BY <1>2, <1>3, <1>4, <1>6, <1>7, SentStep

(* An answer.                                                            *)
LEMMA AnswersStep ==
  ASSUME RoomInv, NEW s \in Conns, NEW q \in toAnswer[s], Answers(s, q) PROVE RoomInv'
<1> DEFINE m == [q EXCEPT !.t = "answer"]
<1>1. q \in RoomMessages /\ q.t = "request" /\ q.who = MemberOf(q.of)
  BY DEF RoomInv, RoomTypes, Requests
<1>2. m \in RoomMessages /\ m.t = "answer" /\ m.who = q.who /\ m.of = q.of
  BY <1>1, Answering
<1>3. toRoom' = [toRoom EXCEPT ![s] = Append(@, m)]
  BY DEF Answers
<1> HIDE DEF m
<1>4. m \in FromSocket(s)
  BY <1>1, <1>2 DEF FromSocket
<1>5. Append(toRoom[s], m) \in Seq(RoomMessages)
  BY <1>2, AppendProperties DEF RoomInv, RoomTypes
<1>6. RoomTypes'
  BY <1>3, <1>5 DEF RoomInv, RoomTypes, Answers
<1>7. /\ client[s] = "in" /\ m.t # "join"
      /\ \A c \in Conns : toAnswer'[c] \subseteq toAnswer[c]
      /\ \A c \in Conns : c # s => asked'[c] = asked[c] /\ toAnswer'[c] = toAnswer[c]
      /\ UNCHANGED <<listed, joinedAt, closing, toMember, client, peers, answers, announced>>
  BY <1>2 DEF Answers, RoomInv, RoomTypes
<1>8. QED BY <1>2, <1>3, <1>4, <1>6, <1>7, SentStep

-----------------------------------------------------------------------------
(* A member hears what came first.                                         *)
LEMMA HearsEffect ==
  ASSUME RoomInv, NEW s \in Conns, MemberHears(s), NEW d \in Members
  PROVE  d \in peers'[s] <=>
           \/ Adds(Head(toMember[s]), d)
           \/ ~Removes(Head(toMember[s]), d) /\ d \in peers[s]
<1> DEFINE m == Head(toMember[s])
<1>1. m \in MemberMessages
  BY Shorter DEF MemberHears, RoomInv, RoomTypes
<1>2. peers'[s] = CASE m.t = "joined" -> peers[s] \cup m.peers
                    [] m.t = "up" -> peers[s] \cup {m.who}
                    [] m.t = "down" -> peers[s] \ {m.who}
                    [] OTHER -> peers[s]
  BY DEF MemberHears, RoomInv, RoomTypes
<1> HIDE DEF m
<1>3. CASE m.t = "joined"
  BY <1>2, <1>3 DEF Adds, Removes, m
<1>4. CASE m.t = "up"
  BY <1>2, <1>4 DEF Adds, Removes, m
<1>5. CASE m.t = "down"
  BY <1>2, <1>5 DEF Adds, Removes, m
<1>6. CASE m.t \notin {"joined", "up", "down"}
  BY <1>2, <1>6 DEF Adds, Removes, m
<1>7. QED BY <1>3, <1>4, <1>5, <1>6

(* That keeps the invariant.                                             *)
LEMMA HearsStep ==
  ASSUME RoomInv, NEW s \in Conns, MemberHears(s) PROVE RoomInv'
<1> DEFINE m == Head(toMember[s])
           q == Tail(toMember[s])
<1>1. /\ client[s] \in {"joining", "in"} /\ toMember[s] # <<>>
      /\ toMember' = [toMember EXCEPT ![s] = q]
      /\ client' = [client EXCEPT ![s] = "in"]
      /\ UNCHANGED <<listed, joinedAt, closing, toRoom, number, announced>>
  BY DEF MemberHears
<1>2. m \in MemberMessages /\ q \in Seq(MemberMessages)
  BY <1>1, Shorter DEF RoomInv, RoomTypes
<1>3. m \in ToSocket(s) /\ q \in Seq(ToSocket(s))
  BY <1>1, Shorter DEF RoomInv, Requests
<1>4. HasJoined(s)
  BY <1>1 DEF RoomInv, Lives, LifeOf
<1>5. Bounded' /\ There' = There /\ \A c : HasJoined(c)' <=> HasJoined(c)
  BY <1>1, SameJoined DEF RoomInv
<1>6. PICK p, a :
        /\ peers' = [peers EXCEPT ![s] = p] /\ p \subseteq Members
        /\ asked' = [asked EXCEPT ![s] = @ \ a]
  <2>1. /\ \E p : peers' = [peers EXCEPT ![s] = p]
        /\ \E a : asked' = [asked EXCEPT ![s] = @ \ a]
    BY DEF MemberHears
  <2>2. PICK p : peers' = [peers EXCEPT ![s] = p]
    BY <2>1
  <2>3. p = CASE m.t = "joined" -> peers[s] \cup m.peers
              [] m.t = "up" -> peers[s] \cup {m.who}
              [] m.t = "down" -> peers[s] \ {m.who}
              [] OTHER -> peers[s]
    BY <2>2 DEF MemberHears, RoomInv, RoomTypes
  <2>4. peers[s] \subseteq Members
    BY DEF RoomInv, RoomTypes
  <2>5. p \subseteq Members
    BY <1>2, <2>3, <2>4 DEF MemberMessages
  <2>6. QED BY <2>1, <2>2, <2>5
<1>7. toAnswer' = IF m.t = "request" THEN [toAnswer EXCEPT ![s] = @ \cup {m}] ELSE toAnswer
  BY DEF MemberHears
<1>8. \A x \in answers' : x \in answers \/ (m.t = "answer" /\ x.of = m.of /\ x.on = s)
  BY DEF MemberHears
<1>9. m.t = "request" => m \in RoomMessages
  BY <1>2 DEF MemberMessages, RoomMessages
<1> HIDE DEF m, q
<1>10. RoomTypes'
  <2>1. toAnswer' \in [Conns -> SUBSET RoomMessages]
    BY <1>7, <1>9 DEF RoomInv, RoomTypes
  <2>2. asked' \in [Conns -> SUBSET [id : Nat, to : Members]]
    BY <1>6 DEF RoomInv, RoomTypes
  <2>3. peers' \in [Conns -> SUBSET Members]
    BY <1>6 DEF RoomInv, RoomTypes
  <2>4. QED BY <1>1, <1>2, <2>1, <2>2, <2>3 DEF RoomInv, RoomTypes
<1>11. Lives'
  <2>1. \A c \in Conns : c # s => LifeOf(c)'
    BY <1>1, <1>6, <1>7, OtherLife DEF RoomInv, Lives, RoomTypes
  <2>2. s \in listed
    BY <1>4 DEF RoomInv, Lives, LifeOf
  <2>3. LifeOf(s)'
    BY <1>1, <1>4, <1>5, <2>2 DEF RoomInv, Lives, LifeOf, RoomTypes
  <2>4. QED BY <2>1, <2>3 DEF Lives
<1>12. OldClose'
  BY <1>1, SameOld DEF RoomInv
<1>13. Presence'
  <2>1. \A d \in Members : Lists(s, d)' <=> Lists(s, d)
    <3>1. SUFFICES ASSUME NEW d \in Members PROVE Lists(s, d)' <=> Lists(s, d)
      OBVIOUS
    <3>2. d \in peers'[s] <=> \/ Adds(Head(toMember[s]), d)
                              \/ ~Removes(Head(toMember[s]), d) /\ d \in peers[s]
      BY HearsEffect
    <3>3. toMember[s] \in Seq(MemberMessages) /\ toMember'[s] = Tail(toMember[s])
      BY <1>1 DEF RoomInv, RoomTypes, q
    <3>4. WillList(peers'[s], Tail(toMember[s]), d) <=> WillList(peers[s], toMember[s], d)
      BY <1>1, <3>2, <3>3, OneHeard
    <3>5. QED BY <3>3, <3>4 DEF Lists
  <2>2. \A c \in Conns : c # s =>
          peers'[c] = peers[c] /\ toMember'[c] = toMember[c] /\ client'[c] = client[c]
    BY <1>1, <1>6 DEF RoomInv, RoomTypes
  <2>3. client[s] # "gone"
    BY <1>1
  <2>4. \A c \in Conns : Active(c)' => Active(c) /\ \A d \in Members : Lists(c, d)' <=> Lists(c, d)
    BY <1>1, <1>5, <2>1, <2>2, <2>3 DEF Active, Lists
  <2>5. QED BY <1>1, <1>5, <2>4, PresenceStays DEF RoomInv
<1>14. Requests'
  <2>1. \A c \in Conns : toMember'[c] \in Seq(ToSocket(c))
    BY <1>1, <1>3 DEF RoomInv, Requests, RoomTypes
  <2>2. \A c \in Conns : \A x \in toAnswer'[c] : x.t = "request" /\ x.who = MemberOf(x.of)
    BY <1>3, <1>7 DEF RoomInv, Requests, RoomTypes, ToSocket
  <2>3. \A x \in answers' : MemberOf(x.of) = MemberOf(x.on)
    BY <1>3, <1>8 DEF RoomInv, Requests, ToSocket
  <2>4. QED BY <1>1, <2>1, <2>2, <2>3 DEF RoomInv, Requests
<1>15. QED BY <1>5, <1>10, <1>11, <1>12, <1>13, <1>14 DEF RoomInv

-----------------------------------------------------------------------------
(* The room passes something on, or says that whom it is for is gone.      *)
LEMMA PassStep ==
  ASSUME RoomInv, NEW s \in Conns, s \in listed, toRoom[s] # <<>>,
         toRoom' = [toRoom EXCEPT ![s] = Tail(@)], Head(toRoom[s]).t # "join",
         Pass(s, Head(toRoom[s])), UNCHANGED <<clientVars, listed>>
  PROVE  RoomInv'
<1> DEFINE m == Head(toRoom[s])
<1>1. HasJoined(s)
  <2>1. ~HasJoined(s) => toRoom[s][1].t = "join"
    BY DEF RoomInv, Lives, LifeOf
  <2>2. Head(toRoom[s]) = toRoom[s][1]
    BY Shorter DEF RoomInv, RoomTypes
  <2>3. QED BY <2>1, <2>2
<1>2. /\ m \in RoomMessages /\ Tail(toRoom[s]) \in Seq(RoomMessages)
      /\ m \in FromSocket(s) /\ Tail(toRoom[s]) \in Seq(FromSocket(s))
  BY Shorter DEF RoomInv, RoomTypes, Requests
<1>3. m \in AfterJoin /\ Tail(toRoom[s]) \in Seq(AfterJoin)
  BY <1>1, Shorter DEF RoomInv, Lives, LifeOf
<1>4. m.who \in Members /\ m.t \in {"request", "answer"}
  BY <1>3 DEF AfterJoin, RoomMessages
<1> HIDE DEF m
<1>5. PICK x, n :
        /\ x \in Conns /\ HasJoined(x) /\ n \in ToSocket(x)
        /\ n.t \in {"request", "answer", "gone"}
        /\ toMember' = Told({x}, n)
  <2>1. CASE m.who \in There
    <3> DEFINE x == Newest(m.who)
               n == [m EXCEPT !.who = MemberOf(s)]
    <3>1. x \in Conns /\ HasJoined(x) /\ MemberOf(x) = m.who
      BY <2>1, NewestIs DEF RoomInv, RoomTypes
    <3>2. n \in MemberMessages /\ n.t = m.t /\ n.who = MemberOf(s) /\ n.of = m.of
      BY <1>3, AMember, Passed
    <3>3. toMember' = Told({x}, n)
      BY <2>1 DEF Pass, m
    <3> HIDE DEF x, n
    <3>4. n \in ToSocket(x)
      BY <1>2, <3>1, <3>2 DEF ToSocket, FromSocket
    <3>5. QED BY <1>4, <3>1, <3>2, <3>3, <3>4
  <2>2. CASE m.who \notin There
    <3> DEFINE n == Message("gone", m.who, 0, s)
    <3>1. n \in MemberMessages /\ n.t = "gone"
      BY <1>4 DEF Message, MemberMessages
    <3>2. toMember' = Told({s}, n)
      BY <2>2 DEF Pass, m
    <3> HIDE DEF n
    <3>3. n \in ToSocket(s)
      BY <3>1 DEF ToSocket
    <3>4. QED BY <1>1, <3>1, <3>2, <3>3
  <2>3. QED BY <2>1, <2>2
<1>6. n \in MemberMessages
  BY <1>5 DEF ToSocket
<1>7. /\ toMember' \in [Conns -> Seq(MemberMessages)]
      /\ \A c \in Conns : c # x => toMember'[c] = toMember[c]
      /\ toMember'[x] = toMember[x] \/ toMember'[x] = Append(toMember[x], n)
  BY <1>5, <1>6, ToldIs DEF RoomInv
<1>8. UNCHANGED <<joinedAt, closing, announced, client, peers, asked, toAnswer, number, answers,
                  listed>>
  BY DEF Pass, clientVars
<1>9. Bounded' /\ There' = There /\ \A c : HasJoined(c)' <=> HasJoined(c)
  BY <1>8, SameJoined DEF RoomInv
<1>10. RoomTypes'
  BY <1>2, <1>7, <1>8 DEF RoomInv, RoomTypes
<1>11. Lives'
  <2>1. \A c \in Conns : c # s => LifeOf(c)'
    BY <1>5, <1>7, <1>8, OtherLife DEF RoomInv, Lives, RoomTypes
  <2>2. s \in listed /\ toRoom'[s] \in Seq(AfterJoin)
    BY <1>3 DEF RoomInv, RoomTypes
  <2>3. LifeOf(s)'
    BY <1>1, <1>8, <1>9, <2>2 DEF RoomInv, Lives, LifeOf
  <2>4. QED BY <2>1, <2>3 DEF Lives
<1>12. OldClose'
  BY <1>8, SameOld DEF RoomInv
<1>13. Presence'
  <2>1. \A d \in Members : ~Adds(n, d) /\ ~Removes(n, d)
    BY <1>5 DEF Adds, Removes
  <2>2. \A d \in Members :
          WillList(peers[x], Append(toMember[x], n), d) <=> WillList(peers[x], toMember[x], d)
    BY <1>5, <1>6, <2>1, OneMoreToHear DEF RoomInv, RoomTypes
  <2>3. \A c \in Conns : Active(c)' => Active(c) /\ \A d \in Members : Lists(c, d)' <=> Lists(c, d)
    BY <1>7, <1>8, <1>9, <2>2 DEF Active, Lists
  <2>4. QED BY <1>8, <1>9, <2>3, PresenceStays DEF RoomInv
<1>14. Requests'
  <2>1. Append(toMember[x], n) \in Seq(ToSocket(x))
    BY <1>5, AppendProperties DEF RoomInv, Requests
  <2>2. \A c \in Conns : toMember'[c] \in Seq(ToSocket(c))
    BY <1>7, <2>1 DEF RoomInv, Requests
  <2>3. \A c \in Conns : toRoom'[c] \in Seq(FromSocket(c))
    BY <1>2 DEF RoomInv, Requests, RoomTypes
  <2>4. QED BY <1>8, <2>2, <2>3 DEF RoomInv, Requests
<1>15. QED BY <1>9, <1>10, <1>11, <1>12, <1>13, <1>14 DEF RoomInv

-----------------------------------------------------------------------------
(* A join: what it does to the sockets, and that it keeps the invariant.   *)
LEMMA JoinEffect ==
  ASSUME RoomInv, NEW s \in Conns, ~HasJoined(s), Join(s)
  PROVE  /\ joinedAt' \in [Conns -> Nat] /\ Bounded'
         /\ \A c \in Conns : c # s => joinedAt'[c] = joinedAt[c]
         /\ HasJoined(s)' /\ There' = There \cup {MemberOf(s)}
         /\ \A c \in Conns : c # s /\ MemberOf(c) = MemberOf(s) => joinedAt[c] < joinedAt'[s]
<1> DEFINE o == MemberOf(s)
           n == Now(o)
<1>1. joinedAt' = [joinedAt EXCEPT ![s] = n]
  BY DEF Join
<1>2. o \in Members
  BY AMember
<1>3. /\ joinedAt \in [Conns -> Nat]
      /\ \A c \in Conns : joinedAt[c] \in Nat
  BY DEF RoomInv, RoomTypes
<1>4. /\ n \in Nat /\ n # 0
      /\ \A c \in Conns : MemberOf(c) = o => joinedAt[c] < n
      /\ \A b \in Nat : (\A c \in Conns : joinedAt[c] <= b) => n <= b + 1
  <2>1. CASE o \in There
    <3>1. /\ Newest(o) \in Conns
          /\ \A c \in Conns : MemberOf(c) = o /\ HasJoined(c) => joinedAt[c] <= joinedAt[Newest(o)]
      BY <2>1, <1>3, NewestIs DEF RoomInv
    <3>2. n = joinedAt[Newest(o)] + 1
      BY <2>1 DEF Now
    <3>3. joinedAt[Newest(o)] \in Nat
      BY <3>1, <1>3
    <3> HIDE DEF n, o
    <3>4. \A c \in Conns : MemberOf(c) = o => joinedAt[c] = 0 \/ joinedAt[c] <= joinedAt[Newest(o)]
      BY <3>1 DEF HasJoined
    <3>5. QED BY <3>1, <3>2, <3>3, <3>4, <1>3
  <2>2. CASE o \notin There
    <3>1. n = 1
      BY <2>2 DEF Now
    <3>2. \A c \in Conns : MemberOf(c) = o => joinedAt[c] = 0
      BY <2>2, <1>2 DEF There, JoinedOf, HasJoined
    <3>3. QED BY <3>1, <3>2
  <2>3. QED BY <2>1, <2>2
<1> HIDE DEF n
<1>5. /\ joinedAt' \in [Conns -> Nat] /\ joinedAt'[s] = n
      /\ \A c \in Conns : c # s => joinedAt'[c] = joinedAt[c]
  BY <1>1, <1>3, <1>4
<1>6. Bounded'
  <2>1. PICK b \in Nat : \A c \in Conns : joinedAt[c] <= b
    BY DEF RoomInv, Bounded
  <2>2. b + 1 \in Nat /\ \A c \in Conns : joinedAt'[c] <= b + 1
    BY <2>1, <1>3, <1>4, <1>5
  <2>3. QED BY <2>2 DEF Bounded
<1>7. \A c \in Conns : HasJoined(c)' <=> HasJoined(c) \/ c = s
  BY <1>4, <1>5 DEF HasJoined
<1>8. There' = There \cup {o}
  <2>1. \A d \in Members : d \in There' <=> \E c \in Conns : MemberOf(c) = d /\ HasJoined(c)'
    BY DEF There, JoinedOf
  <2>2. \A d \in Members : d \in There <=> \E c \in Conns : MemberOf(c) = d /\ HasJoined(c)
    BY DEF There, JoinedOf
  <2>3. There \subseteq Members /\ There' \subseteq Members
    BY DEF There
  <2>4. \A d \in Members : d \in There' <=> d \in There \/ d = o
    BY <2>1, <2>2, <1>7
  <2>5. QED BY <2>3, <2>4, <1>2
<1>9. QED BY <1>4, <1>5, <1>6, <1>7, <1>8

(* Whom a join tells what.                                               *)
LEMMA JoinTells ==
  ASSUME RoomInv, NEW s \in Conns, ~HasJoined(s), s \in listed, Join(s)
  PROVE  LET o == MemberOf(s)
             joined == JoinedNow(s, There \ {o})
             up == Message("up", o, 0, s)
             others == {Newest(d) : d \in There \ {o}}
         IN  /\ joined \in MemberMessages /\ up \in MemberMessages
             /\ toMember' \in [Conns -> Seq(MemberMessages)]
             /\ toMember'[s] = IF s \in closing THEN <<>> ELSE Append(<<>>, joined)
             /\ \A c \in Conns : c # s =>
                  toMember'[c] = IF o \notin There /\ c \in others \ closing
                                 THEN Append(toMember[c], up) ELSE toMember[c]
             /\ closing' = closing \cup {Newest(d) : d \in There \cap {o}}
             /\ announced' = IF o \in There THEN announced ELSE announced \cup {o}
<1> DEFINE o == MemberOf(s)
           joined == JoinedNow(s, There \ {o})
           up == Message("up", o, 0, s)
           others == {Newest(d) : d \in There \ {o}}
           replaced == {Newest(d) : d \in There \cap {o}}
           said == Told({s}, joined)
<1>1. o \in Members /\ There \subseteq Members
  BY AMember DEF There
<1>2. joined \in MemberMessages
  BY <1>1 DEF JoinedNow, MemberMessages
<1>3. up \in MemberMessages
  BY <1>1 DEF Message, MemberMessages
<1>4. /\ closing' = closing \cup replaced
      /\ toMember' = IF replaced # {} THEN said
                     ELSE [c \in Conns |-> IF c \in others \ closing
                                           THEN Append(said[c], up) ELSE said[c]]
      /\ announced' = IF replaced = {} THEN announced \cup {o} ELSE announced
  BY DEF Join
<1>5. replaced = {} <=> o \notin There
  OBVIOUS
<1>6. \A c \in others : HasJoined(c)
  BY <1>1, NewestIs DEF RoomInv, RoomTypes
<1>7. s \notin others
  BY <1>6
<1>8. toMember[s] = <<>>
  BY DEF RoomInv, Lives, LifeOf
<1> HIDE DEF joined, up, others, replaced
<1>9. /\ said \in [Conns -> Seq(MemberMessages)]
      /\ \A c \in Conns : said[c] = IF c \in {s} \ closing THEN Append(toMember[c], joined)
                                    ELSE toMember[c]
  BY <1>2, ToldIs DEF RoomInv
<1> HIDE DEF said
<1>10. \A c \in Conns : Append(said[c], up) \in Seq(MemberMessages)
  BY <1>3, <1>9, AppendProperties
<1>11. toMember' \in [Conns -> Seq(MemberMessages)]
  BY <1>4, <1>9, <1>10
<1>12. toMember'[s] = IF s \in closing THEN <<>> ELSE Append(<<>>, joined)
  BY <1>4, <1>7, <1>8, <1>9
<1>13. \A c \in Conns : c # s =>
         toMember'[c] = IF o \notin There /\ c \in others \ closing THEN Append(toMember[c], up)
                        ELSE toMember[c]
  BY <1>4, <1>5, <1>9
<1>14. /\ closing' = closing \cup replaced
       /\ announced' = IF o \in There THEN announced ELSE announced \cup {o}
  BY <1>4, <1>5
<1>15. QED BY <1>2, <1>3, <1>11, <1>12, <1>13, <1>14 DEF joined, up, others, replaced

(* Each active socket but the one that joined keeps what it lists, and     *)
(* lists the member that came to be there.                                 *)
LEMMA JoinPresence ==
  ASSUME RoomInv, NEW s \in Conns, ~HasJoined(s), s \in listed, Join(s),
         UNCHANGED <<client, peers>>
  PROVE  Presence'
<1> DEFINE o == MemberOf(s)
           joined == JoinedNow(s, There \ {o})
           up == Message("up", o, 0, s)
           others == {Newest(d) : d \in There \ {o}}
<1>1. /\ joined \in MemberMessages /\ up \in MemberMessages
      /\ toMember'[s] = IF s \in closing THEN <<>> ELSE Append(<<>>, joined)
      /\ \A c \in Conns : c # s =>
           toMember'[c] = IF o \notin There /\ c \in others \ closing
                          THEN Append(toMember[c], up) ELSE toMember[c]
      /\ closing' = closing \cup {Newest(d) : d \in There \cap {o}}
      /\ announced' = IF o \in There THEN announced ELSE announced \cup {o}
  BY JoinTells
<1>2. o \in Members /\ There \subseteq Members
  BY AMember DEF There
<1>3. /\ \A c \in Conns : c # s => joinedAt'[c] = joinedAt[c]
      /\ There' = There \cup {o}
  BY JoinEffect
<1>4. announced' \subseteq There'
  BY <1>1, <1>3 DEF RoomInv, Presence
<1>5. \A d : /\ Adds(joined, d) <=> d \in There \ {o}
             /\ ~Removes(joined, d)
             /\ Adds(up, d) <=> d = o
             /\ ~Removes(up, d)
  BY DEF JoinedNow, Message, Adds, Removes
<1> HIDE DEF joined, up
<1>6. ASSUME Active(s)', NEW d \in Members
      PROVE  /\ Lists(s, d)' => d \in There' /\ d # MemberOf(s)
             /\ d \in announced' /\ d # MemberOf(s) => Lists(s, d)'
  <2>1. s \notin closing
    BY <1>6, <1>1 DEF Active
  <2>2. peers'[s] = {} /\ toMember'[s] = Append(<<>>, joined)
    BY <2>1, <1>1 DEF RoomInv, Lives, LifeOf
  <2>3. <<>> \in Seq(MemberMessages)
    BY EmptySeq
  <2>4. ~WillList({}, <<>>, d)
    BY NothingOnTheWay
  <2>5. WillList({}, Append(<<>>, joined), d) <=> d \in There \ {o}
    BY <2>3, <2>4, <1>1, <1>5, OneMoreToHear
  <2>6. Lists(s, d)' <=> d \in There \ {o}
    BY <2>2, <2>5 DEF Lists
  <2>7. QED BY <2>6, <1>3, <1>4
<1>7. ASSUME NEW c \in Conns, c # s, Active(c)', NEW d \in Members
      PROVE  /\ Lists(c, d)' => d \in There' /\ d # MemberOf(c)
             /\ d \in announced' /\ d # MemberOf(c) => Lists(c, d)'
  <2>1. Active(c)
    BY <1>7, <1>1, <1>3 DEF Active, HasJoined
  <2>2. MemberOf(c) \in There /\ c = Newest(MemberOf(c))
    BY <2>1, ActiveIsNewest DEF RoomInv
  <2>3. MemberOf(c) # o
    BY <2>2, <1>7, <1>1 DEF Active
  <2>4. c \in others \ closing
    BY <2>1, <2>2, <2>3 DEF Active
  <2>5. /\ Lists(c, d) => d \in There /\ d # MemberOf(c)
        /\ d \in announced /\ d # MemberOf(c) => Lists(c, d)
    BY <2>1 DEF RoomInv, Presence
  <2> HIDE DEF others
  <2>6. CASE o \in There
    <3>1. Lists(c, d)' <=> Lists(c, d)
      BY <2>6, <1>7, <1>1 DEF Lists
    <3>2. QED BY <3>1, <2>5, <2>6, <1>1, <1>3
  <2>7. CASE o \notin There
    <3>1. toMember'[c] = Append(toMember[c], up) /\ toMember[c] \in Seq(MemberMessages)
      BY <2>7, <2>4, <1>7, <1>1 DEF RoomInv, RoomTypes
    <3>2. WillList(peers[c], Append(toMember[c], up), d) <=> d = o \/ WillList(peers[c], toMember[c], d)
      BY <3>1, <1>1, <1>5, OneMoreToHear
    <3>3. Lists(c, d)' <=> d = o \/ Lists(c, d)
      BY <3>1, <3>2 DEF Lists
    <3>4. QED BY <3>3, <2>3, <2>5, <2>7, <1>1, <1>3
  <2>8. QED BY <2>6, <2>7
<1>8. QED BY <1>4, <1>6, <1>7 DEF Presence

(* A join keeps the invariant.                                           *)
LEMMA JoinStep ==
  ASSUME RoomInv, NEW s \in Conns, s \in listed, toRoom[s] # <<>>,
         toRoom' = [toRoom EXCEPT ![s] = Tail(@)], Head(toRoom[s]).t = "join",
         Join(s), UNCHANGED <<clientVars, listed>>
  PROVE  RoomInv'
<1>1. ~HasJoined(s)
  <2>1. HasJoined(s) => Head(toRoom[s]) \in AfterJoin
    BY Shorter DEF RoomInv, Lives, LifeOf
  <2>2. QED BY <2>1 DEF AfterJoin
<1>2. Tail(toRoom[s]) = <<>>
  BY <1>1, Shorter DEF RoomInv, RoomTypes, Lives, LifeOf
<1>3. /\ joinedAt' \in [Conns -> Nat] /\ Bounded'
      /\ \A c \in Conns : c # s => joinedAt'[c] = joinedAt[c]
      /\ HasJoined(s)'
      /\ \A c \in Conns : c # s /\ MemberOf(c) = MemberOf(s) => joinedAt[c] < joinedAt'[s]
  BY <1>1, JoinEffect
<1> DEFINE o == MemberOf(s)
           joined == JoinedNow(s, There \ {o})
           up == Message("up", o, 0, s)
           others == {Newest(d) : d \in There \ {o}}
<1>4. /\ joined \in MemberMessages /\ up \in MemberMessages
      /\ toMember' \in [Conns -> Seq(MemberMessages)]
      /\ toMember'[s] = IF s \in closing THEN <<>> ELSE Append(<<>>, joined)
      /\ \A c \in Conns : c # s =>
           toMember'[c] = IF o \notin There /\ c \in others \ closing
                          THEN Append(toMember[c], up) ELSE toMember[c]
      /\ closing' = closing \cup {Newest(d) : d \in There \cap {o}}
  BY <1>1, JoinTells
<1>5. joined.t = "joined" /\ up.t = "up"
  BY DEF JoinedNow, Message
<1>6. \A c \in others : HasJoined(c)
  BY NewestIs DEF RoomInv, RoomTypes
<1> HIDE DEF joined, up, others
<1>7. UNCHANGED <<client, peers, asked, toAnswer, number, answers, listed>>
  BY DEF clientVars
<1>8. \A S : <<>> \in Seq(S)
  BY EmptySeq
<1>9. closing' \subseteq listed
  <2>1. \A d \in There : Newest(d) \in listed
    <3>1. \A d \in There : Newest(d) \in Conns /\ HasJoined(Newest(d))
      BY NewestIs DEF RoomInv, RoomTypes
    <3>2. QED BY <3>1 DEF RoomInv, Lives, LifeOf
  <2>2. QED BY <2>1, <1>4 DEF RoomInv, RoomTypes
<1>10. RoomTypes'
  BY <1>2, <1>3, <1>4, <1>7, <1>8, <1>9 DEF RoomInv, RoomTypes
<1>11. Lives'
  <2>1. \A c \in Conns : c # s => LifeOf(c)'
    BY <1>3, <1>4, <1>6, <1>7, OtherLife DEF RoomInv, Lives, RoomTypes
  <2>2. toRoom'[s] = <<>>
    BY <1>2 DEF RoomInv, RoomTypes
  <2>3. LifeOf(s)'
    BY <1>1, <1>3, <1>7, <1>8, <2>2 DEF RoomInv, Lives, LifeOf
  <2>4. QED BY <2>1, <2>3 DEF Lives
<1>12. OldClose'
  <2>1. SUFFICES ASSUME NEW x \in Conns, NEW c \in Conns, MemberOf(x) = MemberOf(c), x # c,
                        HasJoined(x)', joinedAt'[x] <= joinedAt'[c]
                 PROVE  x \in closing'
    BY DEF OldClose
  <2>2. CASE c # s /\ x # s
    BY <2>1, <2>2, <1>3, <1>4 DEF RoomInv, OldClose, HasJoined
  <2>3. CASE x = s
    <3>1. joinedAt'[c] < joinedAt'[s] /\ joinedAt'[c] \in Nat /\ joinedAt'[s] \in Nat
      BY <2>1, <2>3, <1>3
    <3>2. QED BY <3>1, <2>1, <2>3
  <2>4. CASE c = s /\ x # s
    <3>1. HasJoined(x) /\ MemberOf(x) = o
      BY <2>1, <2>4, <1>3 DEF HasJoined
    <3>2. o \in There
      BY <3>1, AMember DEF There, JoinedOf
    <3>3. /\ Newest(o) \in Conns /\ MemberOf(Newest(o)) = o
          /\ joinedAt[x] <= joinedAt[Newest(o)]
      BY <3>1, <3>2, NewestIs DEF RoomInv, RoomTypes
    <3>4. x = Newest(o) \/ x \in closing
      BY <3>1, <3>3 DEF RoomInv, OldClose
    <3>5. QED BY <3>2, <3>4, <1>4
  <2>5. QED BY <2>2, <2>3, <2>4
<1>13. Presence'
  BY <1>1, <1>7, JoinPresence
<1>14. Requests'
  <2>1. joined \in ToSocket(s) /\ \A c \in Conns : up \in ToSocket(c)
    BY <1>4, <1>5 DEF ToSocket
  <2>2. toMember'[s] \in Seq(ToSocket(s))
    BY <2>1, <1>4, <1>8, AppendProperties
  <2>3. \A c \in Conns : Append(toMember[c], up) \in Seq(ToSocket(c))
    BY <2>1, AppendProperties DEF RoomInv, Requests
  <2>4. \A c \in Conns : c # s => toMember'[c] \in Seq(ToSocket(c))
    BY <2>3, <1>4 DEF RoomInv, Requests
  <2>5. \A c \in Conns : toRoom'[c] \in Seq(FromSocket(c))
    BY <1>2, <1>8 DEF RoomInv, Requests, RoomTypes
  <2>6. QED BY <1>7, <2>2, <2>4, <2>5 DEF RoomInv, Requests
<1>15. QED BY <1>3, <1>10, <1>11, <1>12, <1>13, <1>14 DEF RoomInv

-----------------------------------------------------------------------------
(* A socket's close completes.                                             *)
LEMMA CloseEffect ==
  ASSUME RoomInv, NEW s \in Conns, SocketCloses(s)
  PROVE  /\ joinedAt' \in [Conns -> Nat] /\ Bounded'
         /\ \A c \in Conns : c # s => joinedAt'[c] = joinedAt[c]
         /\ \A c \in Conns : HasJoined(c)' <=> HasJoined(c) /\ c # s
         /\ There' \subseteq There
         /\ \A d \in There : d # MemberOf(s) \/ s # Newest(d) => d \in There'
<1>1. joinedAt' = [joinedAt EXCEPT ![s] = 0] /\ joinedAt \in [Conns -> Nat]
  BY DEF SocketCloses, RoomInv, RoomTypes
<1>2. \A c \in Conns : HasJoined(c)' <=> HasJoined(c) /\ c # s
  BY <1>1 DEF HasJoined
<1>3. Bounded'
  <2>1. PICK b \in Nat : \A c \in Conns : joinedAt[c] <= b
    BY DEF RoomInv, Bounded
  <2>2. \A c \in Conns : joinedAt'[c] <= b
    BY <2>1, <1>1
  <2>3. QED BY <2>2 DEF Bounded
<1>4. \A d \in Members : d \in There' <=> \E c \in Conns : MemberOf(c) = d /\ HasJoined(c)'
  BY DEF There, JoinedOf
<1>5. \A d \in Members : d \in There <=> \E c \in Conns : MemberOf(c) = d /\ HasJoined(c)
  BY DEF There, JoinedOf
<1>6. There \subseteq Members /\ There' \subseteq Members
  BY DEF There
<1>7. There' \subseteq There
  BY <1>2, <1>4, <1>5, <1>6
<1>8. ASSUME NEW d \in There, d # MemberOf(s) \/ s # Newest(d) PROVE d \in There'
  <2>1. PICK c \in Conns : c = Newest(d)
    BY <1>1, NewestIs DEF RoomInv
  <2>2. MemberOf(c) = d /\ HasJoined(c)
    BY <2>1, <1>1, NewestIs DEF RoomInv
  <2>3. HasJoined(c)'
    BY <2>1, <2>2, <1>2, <1>8
  <2>4. QED BY <2>2, <2>3, <1>4, <1>6
<1>9. QED BY <1>1, <1>2, <1>3, <1>7, <1>8

(* Whom a close tells: the others, if the socket was its member's newest.*)
LEMMA CloseTells ==
  ASSUME RoomInv, NEW s \in Conns, SocketCloses(s)
  PROVE  LET o == MemberOf(s)
             down == Message("down", o, 0, s)
             others == {Newest(d) : d \in There \ {o}}
             newest == HasJoined(s) /\ s = Newest(o)
         IN  /\ down \in MemberMessages /\ toMember' \in [Conns -> Seq(MemberMessages)]
             /\ \A c \in Conns : toMember'[c] = IF newest /\ c \in others \ closing
                                                THEN Append(toMember[c], down) ELSE toMember[c]
             /\ \A c \in others : HasJoined(c)
             /\ announced' = IF newest THEN announced \ {o} ELSE announced
<1> DEFINE o == MemberOf(s)
           down == Message("down", o, 0, s)
           others == {Newest(d) : d \in There \ {o}}
           newest == HasJoined(s) /\ s = Newest(o)
<1>1. o \in Members /\ There \subseteq Members
  BY AMember DEF There
<1>2. down \in MemberMessages
  BY <1>1 DEF Message, MemberMessages
<1>3. \A d \in There : Newest(d) \in Conns /\ MemberOf(Newest(d)) = d /\ HasJoined(Newest(d))
  BY NewestIs DEF RoomInv, RoomTypes
<1>4. \A c \in others : HasJoined(c)
  BY <1>3
<1>5. Left(s).tells <=> newest
  <2>1. Left(s).tells <=> HasJoined(s) /\ ~\E c \in Joined \ {s} : MemberOf(c) = o
    BY Zenon DEF Left
  <2>2. HasJoined(s) => o \in There
    BY <1>1 DEF There, JoinedOf
  <2>3. CASE HasJoined(s) /\ s = Newest(o)
    <3>1. \A c \in Joined \ {s} : MemberOf(c) # o
      BY <2>3, <1>3 DEF Joined
    <3>2. QED BY <2>1, <2>3, <3>1
  <2>4. CASE HasJoined(s) /\ s # Newest(o)
    <3>1. Newest(o) \in Joined \ {s} /\ MemberOf(Newest(o)) = o
      BY <2>2, <2>4, <1>3 DEF Joined
    <3>2. QED BY <2>1, <2>4, <3>1
  <2>5. QED BY <2>1, <2>3, <2>4
<1>6. newest => \A c : c \in Left(s).them <=> c \in others
  <2>1. SUFFICES ASSUME newest, NEW c PROVE c \in Left(s).them <=> c \in others
    OBVIOUS
  <2>2. c \in Left(s).them <=> c \in Joined /\ c # s
    BY DEF Left
  <2>3. o \in There
    BY <2>1, <1>1 DEF There, JoinedOf
  <2>4. c \in Joined <=> c \in others \/ c = s
    BY <2>1, <2>3 DEF Joined
  <2>5. s \notin others
    BY <1>3
  <2>6. QED BY <2>2, <2>4, <2>5
<1>7. /\ toMember' = IF Left(s).tells THEN Told(Left(s).them, down) ELSE toMember
      /\ announced' = announced \ {d \in {o} : HasJoined(s) /\ s = Newest(d)}
  BY DEF SocketCloses
<1> HIDE DEF down, others
<1>8. /\ Told(Left(s).them, down) \in [Conns -> Seq(MemberMessages)]
      /\ \A c \in Conns : Told(Left(s).them, down)[c] =
           IF c \in Left(s).them \ closing THEN Append(toMember[c], down) ELSE toMember[c]
  BY <1>2, ToldIs DEF RoomInv
<1>9. toMember' \in [Conns -> Seq(MemberMessages)]
  BY <1>7, <1>8 DEF RoomInv, RoomTypes
<1>10. \A c \in Conns : toMember'[c] = IF newest /\ c \in others \ closing
                                       THEN Append(toMember[c], down) ELSE toMember[c]
  BY <1>5, <1>6, <1>7, <1>8
<1>11. announced' = IF newest THEN announced \ {o} ELSE announced
  <2>1. {d \in {o} : HasJoined(s) /\ s = Newest(d)} = IF newest THEN {o} ELSE {}
    OBVIOUS
  <2>2. QED BY <2>1, <1>7
<1>12. QED BY <1>2, <1>4, <1>9, <1>10, <1>11 DEF down, others

(* Each active socket lists the member no more, if it is not there.      *)
LEMMA ClosePresence ==
  ASSUME RoomInv, NEW s \in Conns, SocketCloses(s) PROVE Presence'
<1> DEFINE o == MemberOf(s)
           down == Message("down", o, 0, s)
           others == {Newest(d) : d \in There \ {o}}
           newest == HasJoined(s) /\ s = Newest(o)
<1>1. /\ down \in MemberMessages
      /\ \A c \in Conns : toMember'[c] = IF newest /\ c \in others \ closing
                                         THEN Append(toMember[c], down) ELSE toMember[c]
      /\ announced' = IF newest THEN announced \ {o} ELSE announced
  BY CloseTells
<1>2. \A d : ~Adds(down, d) /\ (Removes(down, d) <=> d = o)
  BY DEF Message, Adds, Removes
<1>3. /\ \A c \in Conns : HasJoined(c)' <=> HasJoined(c) /\ c # s
      /\ There' \subseteq There
      /\ \A d \in There : d # o \/ s # Newest(d) => d \in There'
  BY CloseEffect
<1>4. closing' = closing \ {s} /\ UNCHANGED <<client, peers>>
  BY DEF SocketCloses, clientVars
<1>5. o \in There => (s = Newest(o) => HasJoined(s))
  BY NewestIs DEF RoomInv, RoomTypes
<1>6. \A d \in There : (d = o => ~newest) => d \in There'
  BY <1>3, <1>5
<1> HIDE DEF down
<1>7. announced' \subseteq There'
  BY <1>1, <1>6 DEF RoomInv, Presence
<1>8. ASSUME NEW c \in Conns, Active(c)', NEW d \in Members
      PROVE  /\ Lists(c, d)' => d \in There' /\ d # MemberOf(c)
             /\ d \in announced' /\ d # MemberOf(c) => Lists(c, d)'
  <2>1. Active(c) /\ c # s
    BY <1>8, <1>3, <1>4 DEF Active
  <2>2. MemberOf(c) \in There /\ c = Newest(MemberOf(c))
    BY <2>1, ActiveIsNewest DEF RoomInv
  <2>3. /\ Lists(c, d) => d \in There /\ d # MemberOf(c)
        /\ d \in announced /\ d # MemberOf(c) => Lists(c, d)
    BY <2>1 DEF RoomInv, Presence
  <2>4. CASE newest
    <3>1. MemberOf(c) # o
      BY <2>1, <2>2, <2>4
    <3>2. c \in others \ closing
      BY <2>1, <2>2, <3>1 DEF Active
    <3>3. toMember'[c] = Append(toMember[c], down) /\ toMember[c] \in Seq(MemberMessages)
      BY <2>4, <3>2, <1>1 DEF RoomInv, RoomTypes
    <3>4. WillList(peers[c], Append(toMember[c], down), d) <=>
            d # o /\ WillList(peers[c], toMember[c], d)
      BY <3>3, <1>1, <1>2, OneMoreToHear
    <3>5. Lists(c, d)' <=> d # o /\ Lists(c, d)
      BY <3>3, <3>4, <1>4 DEF Lists
    <3>6. QED BY <3>5, <2>3, <2>4, <1>1, <1>6
  <2>5. CASE ~newest
    <3>1. Lists(c, d)' <=> Lists(c, d)
      BY <2>5, <1>1, <1>4 DEF Lists
    <3>2. QED BY <3>1, <2>3, <2>5, <1>1, <1>6
  <2>6. QED BY <2>4, <2>5
<1>9. QED BY <1>7, <1>8 DEF Presence

(* A close keeps the invariant.                                          *)
LEMMA CloseStep ==
  ASSUME RoomInv, NEW s \in Conns, SocketCloses(s) PROVE RoomInv'
<1> DEFINE o == MemberOf(s)
           down == Message("down", o, 0, s)
           others == {Newest(d) : d \in There \ {o}}
           newest == HasJoined(s) /\ s = Newest(o)
<1>1. /\ down \in MemberMessages /\ toMember' \in [Conns -> Seq(MemberMessages)]
      /\ \A c \in Conns : toMember'[c] = IF newest /\ c \in others \ closing
                                         THEN Append(toMember[c], down) ELSE toMember[c]
      /\ \A c \in others : HasJoined(c)
  BY CloseTells
<1>2. down.t = "down"
  BY DEF Message
<1>3. \A c \in Conns : \/ toMember'[c] = toMember[c]
                       \/ HasJoined(c) /\ toMember'[c] = Append(toMember[c], down)
  BY <1>1
<1> HIDE DEF down, others, newest
<1>4. /\ joinedAt' \in [Conns -> Nat] /\ Bounded'
      /\ \A c \in Conns : c # s => joinedAt'[c] = joinedAt[c]
      /\ \A c \in Conns : HasJoined(c)' <=> HasJoined(c) /\ c # s
  BY CloseEffect
<1>5. /\ s \in listed /\ client[s] = "gone"
      /\ listed' = listed \ {s} /\ closing' = closing \ {s}
      /\ toRoom' = [toRoom EXCEPT ![s] = <<>>]
      /\ UNCHANGED <<client, peers, asked, toAnswer, number, answers>>
  BY DEF SocketCloses, clientVars
<1>6. \A S : <<>> \in Seq(S)
  BY EmptySeq
<1>7. RoomTypes'
  BY <1>1, <1>4, <1>5, <1>6 DEF RoomInv, RoomTypes
<1>8. Lives'
  <2>1. \A c \in Conns : c # s => LifeOf(c)'
    BY <1>3, <1>4, <1>5, OtherLife DEF RoomInv, Lives, RoomTypes
  <2>2. LifeOf(s)'
    BY <1>4, <1>5 DEF RoomInv, Lives, LifeOf, RoomTypes
  <2>3. QED BY <2>1, <2>2 DEF Lives
<1>9. OldClose'
  <2>1. SUFFICES ASSUME NEW x \in Conns, NEW c \in Conns, MemberOf(x) = MemberOf(c), x # c,
                        HasJoined(x)', joinedAt'[x] <= joinedAt'[c]
                 PROVE  x \in closing'
    BY DEF OldClose
  <2>2. HasJoined(x) /\ x # s /\ joinedAt'[x] = joinedAt[x]
    BY <2>1, <1>4
  <2>3. c # s
    <3>1. SUFFICES ASSUME c = s PROVE FALSE
      OBVIOUS
    <3>2. joinedAt'[c] = 0
      BY <3>1, <1>4 DEF HasJoined
    <3>3. joinedAt[x] \in Nat /\ joinedAt[x] # 0
      BY <2>2 DEF HasJoined, RoomInv, RoomTypes
    <3>4. QED BY <3>2, <3>3, <2>1, <2>2
  <2>4. joinedAt[x] <= joinedAt[c]
    BY <2>1, <2>2, <2>3, <1>4
  <2>5. x \in closing
    BY <2>1, <2>2, <2>4 DEF RoomInv, OldClose
  <2>6. QED BY <2>2, <2>5, <1>5
<1>10. Presence'
  BY ClosePresence
<1>11. Requests'
  <2>1. \A c \in Conns : down \in ToSocket(c)
    BY <1>1, <1>2 DEF ToSocket
  <2>2. \A c \in Conns : Append(toMember[c], down) \in Seq(ToSocket(c))
    BY <2>1, AppendProperties DEF RoomInv, Requests
  <2>3. \A c \in Conns : toMember'[c] \in Seq(ToSocket(c))
    BY <2>2, <1>3 DEF RoomInv, Requests
  <2>4. \A c \in Conns : toRoom'[c] \in Seq(FromSocket(c))
    BY <1>5, <1>6 DEF RoomInv, Requests, RoomTypes
  <2>5. QED BY <1>5, <2>3, <2>4 DEF RoomInv, Requests
<1>12. QED BY <1>4, <1>7, <1>8, <1>9, <1>10, <1>11 DEF RoomInv

(* Every step of the room.                                               *)
LEMMA RoomStepHolds == RoomInv /\ [RoomNext]_roomVars => RoomInv'
<1> SUFFICES ASSUME RoomInv, [RoomNext]_roomVars PROVE RoomInv'
  OBVIOUS
<1>1. ASSUME UNCHANGED roomVars PROVE RoomInv'
  BY <1>1 DEF roomVars, RoomInv, RoomTypes, Bounded, Lives, LifeOf, OldClose, Presence, Requests,
       Active, Lists, There, JoinedOf, HasJoined
<1>2. ASSUME NEW s \in Conns, RoomHears(s) PROVE RoomInv'
  <2>1. /\ s \in listed /\ toRoom[s] # <<>>
        /\ toRoom' = [toRoom EXCEPT ![s] = Tail(@)]
        /\ UNCHANGED <<clientVars, listed>>
    BY <1>2 DEF RoomHears
  <2>2. CASE Head(toRoom[s]).t = "join"
    <3>1. Join(s)
      BY <1>2, <2>2 DEF RoomHears
    <3>2. QED BY <2>1, <2>2, <3>1, JoinStep
  <2>3. CASE Head(toRoom[s]).t # "join"
    <3>1. Pass(s, Head(toRoom[s]))
      BY <1>2, <2>3 DEF RoomHears
    <3>2. QED BY <2>1, <2>3, <3>1, PassStep
  <2>4. QED BY <2>2, <2>3
<1>3. ASSUME NEW s \in Conns, \E d \in Members : AskPeer(s, d) PROVE RoomInv'
  BY <1>3, AskStep
<1>4. ASSUME NEW s \in Conns, \E m \in toAnswer[s] : Answers(s, m) PROVE RoomInv'
  BY <1>4, AnswersStep
<1>5. ASSUME NEW s \in Conns, \E q \in asked[s] : NoAnswer(s, q) PROVE RoomInv'
  BY <1>5, NoAnswerStep
<1>6. QED BY <1>1, <1>2, <1>3, <1>4, <1>5, CloseStep, OverdueStep, ConnectStep, HearsStep, DropsStep,
             Zenon DEF RoomNext

(* The invariant of the room.                                              *)
THEOREM RoomInvariant == RoomSpec => []RoomInv
<1>1. RoomInit => RoomInv
  BY RoomAssumption, RoomInitHolds
<1>2. QED BY <1>1, RoomStepHolds, PTL DEF RoomSpec

(* With nothing on its way every listed socket is active.                  *)
LEMMA RoomInvAgrees == RoomInv => RoomAgrees
<1> SUFFICES ASSUME RoomInv PROVE RoomAgrees
  OBVIOUS
<1>1. RoomTypeOK
  BY DEF RoomInv, RoomTypes, Lives, LifeOf, RoomTypeOK
<1>2. ASSUME RoomIsQuiet, NEW s \in listed
      PROVE  LET others == {MemberOf(c) : c \in listed \ {s}}
             IN  peers[s] \subseteq others /\ others \cap announced \subseteq peers[s]
  <2> DEFINE others == {MemberOf(c) : c \in listed \ {s}}
  <2>1. listed \subseteq Conns
    BY DEF RoomInv, RoomTypes
  <2>2. \A c \in listed : Active(c)
    BY <1>2, <2>1 DEF RoomIsQuiet, RoomInv, Lives, LifeOf, Active
  <2>3. \A c \in listed : MemberOf(c) \in There /\ c = Newest(MemberOf(c))
    BY <2>1, <2>2, ActiveIsNewest DEF RoomInv
  <2>4. \A d \in There : Newest(d) \in listed /\ MemberOf(Newest(d)) = d
    <3>1. \A d \in There : Newest(d) \in Conns /\ MemberOf(Newest(d)) = d /\ HasJoined(Newest(d))
      BY NewestIs DEF RoomInv, RoomTypes
    <3>2. QED BY <3>1 DEF RoomInv, Lives, LifeOf
  <2>5. \A d : d \in others <=> d \in There /\ d # MemberOf(s)
    BY <2>3, <2>4
  <2> HIDE DEF others
  <2>6. \A d \in Members : Lists(s, d) <=> d \in peers[s]
    <3>1. toMember[s] = <<>>
      BY <1>2 DEF RoomIsQuiet
    <3>2. QED BY <3>1, NothingOnTheWay DEF Lists
  <2>7. \A d \in Members : /\ Lists(s, d) => d \in There /\ d # MemberOf(s)
                           /\ d \in announced /\ d # MemberOf(s) => Lists(s, d)
    BY <2>1, <2>2 DEF RoomInv, Presence
  <2>8. peers[s] \subseteq Members /\ There \subseteq Members
    BY <2>1 DEF RoomInv, RoomTypes, There
  <2>9. peers[s] \subseteq others
    BY <2>5, <2>6, <2>7, <2>8
  <2>10. others \cap announced \subseteq peers[s]
    BY <2>5, <2>6, <2>7, <2>8
  <2>11. QED BY <2>9, <2>10 DEF others
<1>3. \A a \in answers : MemberOf(a.of) = MemberOf(a.on)
  BY DEF RoomInv, Requests
<1>4. QED BY <1>1, <1>2, <1>3, Zenon DEF RoomAgrees

(* Room.RoomAgrees: with nothing on its way, each member lists the members *)
(* that are there, but for one let in as "replaced" that nobody was told   *)
(* of, and no answer reaches another member's request.                     *)
THEOREM RoomAlwaysAgrees == RoomSpec => []RoomAgrees
BY RoomInvariant, RoomInvAgrees, PTL
=============================================================================
