--------------------------- MODULE Verify_proofs ---------------------------
(***************************************************************************)
(* Theorems about Verify, for every set of keys and every number of frames.*)
(***************************************************************************)
EXTENDS Verify, SequenceTheorems, TLAPS

(* The i-th frame that side s ever writes, if its key is k.                *)
Stream(k, s, i) ==
    IF i = 1 THEN Nonce(s)
    ELSE IF i = 2 THEN hmac(k, Nonce(Peer(s)))
    ELSE Data

(* How far a side has come says how much it has written and read, and what *)
(* it knows of the keys.                                                   *)
Progress(s) ==
    /\ side[s].pc \in {"silent", "start"} => side[s].written = 0 /\ side[s].read = 0
    /\ side[s].pc = "peer_nonce" => side[s].written = 1 /\ side[s].read = 0
    /\ side[s].pc = "prove" =>
         /\ side[s].written = 1
         /\ side[s].read = 1
         /\ side[s].peer_nonce = Nonce(Peer(s))
    /\ side[s].pc = "peer_proof" => side[s].written = 2 /\ side[s].read = 1
    /\ side[s].pc = "verified" => side[s].written >= 2 /\ side[s].read >= 2

ProgressInv == \A s \in Sides : Progress(s)

(* What is under way continues the stream where the reader has stopped.    *)
WireInv ==
    \A s \in Sides : \A i \in 1..Len(wire[s]) :
        wire[s][i] = Stream(key[s], s, side[Peer(s)].read + i)

(* Nothing is lost while the connection lasts.                             *)
CountInv ==
    Connected => \A s \in Sides :
        side[Peer(s)].read + Len(wire[s]) = side[s].written

VerifyInv == TypeOK /\ ProgressInv /\ WireInv /\ CountInv /\ VerdictIsRight

-----------------------------------------------------------------------------
(* Each side is the peer of its peer, and there are no others.             *)
LEMMA PeerType ==
    ASSUME NEW s \in Sides
    PROVE  Peer(s) \in Sides /\ Peer(s) # s /\ Peer(Peer(s)) = s /\ Sides = {s, Peer(s)}
BY DEF Sides, Peer

(* What the sides write are frames.                                        *)
LEMMA FrameTypes ==
    ASSUME NEW s \in Sides, NEW k \in Keys, NEW f \in Frames
    PROVE  Nonce(s) \in Frames /\ Data \in Frames /\ hmac(k, f) \in Frames
BY DEF Nonce, Data, hmac, Frame, Frames

(* Writing the next frame of the stream keeps the wires in order.          *)
LEMMA WriteKeepsWires ==
    ASSUME TypeOK, WireInv, CountInv, NEW s \in Sides, NEW frame \in Frames,
           Write(s, frame),
           frame = Stream(key[s], s, side[s].written + 1),
           side'[s].written = side[s].written + 1,
           side'[s].read = side[s].read,
           side'[Peer(s)] = side[Peer(s)],
           UNCHANGED <<reliable, key, open, broken>>
    PROVE  wire' \in [Sides -> Seq(Frames)] /\ WireInv' /\ CountInv'
<1>. DEFINE p == Peer(s)
<1>1. p \in Sides /\ p # s /\ Peer(p) = s /\ Sides = {s, p}
  BY PeerType
<1>2. /\ wire[s] \in Seq(Frames)
      /\ wire[p] \in Seq(Frames)
      /\ Len(wire[s]) \in Nat
      /\ side[p].read \in Nat
      /\ side[s].written \in Nat
  BY <1>1 DEF TypeOK
<1>3. Connected' = Connected
  BY DEF Connected
<1>4. \A t \in Sides : side'[t].read = side[t].read
  BY <1>1
<1>5. CASE ~Connected
  BY <1>1, <1>3, <1>4, <1>5 DEF Write, TypeOK, WireInv, CountInv
<1>6. CASE Connected
  <2>1. /\ wire'[s] = Append(wire[s], frame)
        /\ wire'[p] = wire[p]
        /\ wire' \in [Sides -> Seq(Frames)]
    BY <1>1, <1>2, <1>6 DEF Write, TypeOK
  <2>2. /\ Len(wire'[s]) = Len(wire[s]) + 1
        /\ \A i \in 1..Len(wire[s]) : wire'[s][i] = wire[s][i]
        /\ wire'[s][Len(wire[s]) + 1] = frame
    BY <1>2, <2>1, AppendProperties
  <2>3. side[p].read + Len(wire[s]) = side[s].written
    BY <1>1, <1>6 DEF CountInv
  <2>4. \A i \in 1..Len(wire'[s]) : wire'[s][i] = Stream(key[s], s, side[p].read + i)
    <3>. SUFFICES ASSUME NEW i \in 1..Len(wire'[s])
                  PROVE  wire'[s][i] = Stream(key[s], s, side[p].read + i)
      OBVIOUS
    <3>1. CASE i \in 1..Len(wire[s])
      BY <2>2, <3>1 DEF WireInv
    <3>2. CASE i = Len(wire[s]) + 1
      <4>1. side[p].read + (Len(wire[s]) + 1) = side[s].written + 1
        <5>1. \A a, b, c \in Nat : a + b = c => a + (b + 1) = c + 1
          OBVIOUS
        <5>. QED
          BY <1>2, <2>3, <5>1
      <4>. QED
        BY <2>2, <3>2, <4>1
    <3>. QED
      BY <1>2, <2>2, <3>1, <3>2
  <2>5. WireInv'
    <3>1. \A i \in 1..Len(wire'[p]) :
             wire'[p][i] = Stream(key'[p], p, side'[s].read + i)
      BY <1>1, <1>4, <2>1 DEF WireInv
    <3>2. \A i \in 1..Len(wire'[s]) :
             wire'[s][i] = Stream(key'[s], s, side'[p].read + i)
      BY <1>1, <1>4, <2>4
    <3>. QED
      BY <1>1, <3>1, <3>2 DEF WireInv
  <2>6. CountInv'
    <3>1. side'[p].read + Len(wire'[s]) = side'[s].written
      BY <1>1, <1>2, <2>2, <2>3
    <3>2. side'[s].read + Len(wire'[p]) = side'[p].written
      BY <1>1, <1>6, <2>1 DEF CountInv
    <3>. QED
      BY <1>1, <3>1, <3>2 DEF CountInv
  <2>. QED
    BY <2>1, <2>5, <2>6
<1>. QED
  BY <1>5, <1>6

(* Reading a frame keeps the wires in order, and the frame is the next one *)
(* of the stream.                                                          *)
LEMMA ReadKeepsWires ==
    ASSUME TypeOK, WireInv, CountInv, NEW s \in Sides, Read(s),
           side'[s].written = side[s].written,
           side'[s].read = side[s].read + 1,
           side'[Peer(s)] = side[Peer(s)],
           UNCHANGED <<reliable, key, open, broken>>
    PROVE  wire' \in [Sides -> Seq(Frames)] /\ WireInv' /\ CountInv'
<1>. DEFINE p == Peer(s)
<1>1. p \in Sides /\ p # s /\ Peer(p) = s /\ Sides = {s, p}
  BY PeerType
<1>2. /\ wire[s] \in Seq(Frames)
      /\ wire[p] \in Seq(Frames)
      /\ wire[p] # << >>
      /\ side[s].read \in Nat
  BY <1>1 DEF TypeOK, Read, Readable
<1>3. /\ wire'[p] = Tail(wire[p])
      /\ wire'[s] = wire[s]
      /\ Tail(wire[p]) \in Seq(Frames)
      /\ Len(Tail(wire[p])) = Len(wire[p]) - 1
      /\ \A i \in 1..Len(Tail(wire[p])) : Tail(wire[p])[i] = wire[p][i + 1]
      /\ Len(wire[p]) \in Nat \ {0}
  BY <1>1, <1>2, HeadTailProperties, EmptySeq DEF Read, TypeOK
<1>4. wire' \in [Sides -> Seq(Frames)]
  BY <1>1, <1>3 DEF Read, TypeOK
<1>5. Connected' = Connected
  BY DEF Connected
<1>6. \A i \in 1..Len(wire'[p]) : wire'[p][i] = Stream(key[p], p, side'[s].read + i)
  <2>. SUFFICES ASSUME NEW i \in 1..Len(wire'[p])
                PROVE  wire'[p][i] = Stream(key[p], p, side'[s].read + i)
    OBVIOUS
  <2>1. i + 1 \in 1..Len(wire[p])
    BY <1>3
  <2>2. wire[p][i + 1] = Stream(key[p], p, side[s].read + (i + 1))
    BY <1>1, <2>1 DEF WireInv
  <2>3. side[s].read + (i + 1) = (side[s].read + 1) + i
    BY <1>2
  <2>. QED
    BY <1>3, <2>2, <2>3
<1>7. WireInv'
  <2>1. \A i \in 1..Len(wire'[s]) : wire'[s][i] = Stream(key'[s], s, side'[p].read + i)
    BY <1>1, <1>3 DEF WireInv
  <2>. QED
    BY <1>1, <1>6, <2>1 DEF WireInv
<1>8. CountInv'
  <2>. SUFFICES ASSUME Connected
                PROVE  \A t \in Sides : side'[Peer(t)].read + Len(wire'[t]) = side'[t].written
    BY <1>5 DEF CountInv
  <2>1. side'[s].read + Len(wire'[p]) = side'[p].written
    <3>1. side[s].read + Len(wire[p]) = side[p].written
      BY <1>1 DEF CountInv
    <3>2. (side[s].read + 1) + (Len(wire[p]) - 1) = side[s].read + Len(wire[p])
      BY <1>2, <1>3
    <3>. QED
      BY <1>3, <3>1, <3>2
  <2>2. side'[p].read + Len(wire'[s]) = side'[s].written
    BY <1>1, <1>3 DEF CountInv
  <2>. QED
    BY <1>1, <2>1, <2>2
<1>. QED
  BY <1>4, <1>7, <1>8

(* The frame at the head of a wire is the next one of the stream.          *)
LEMMA HeadOfStream ==
    ASSUME TypeOK, WireInv, NEW s \in Sides, Readable(s)
    PROVE  /\ Got(s) = Stream(key[Peer(s)], Peer(s), side[s].read + 1)
           /\ Got(s) \in Frames
<1>1. /\ Peer(s) \in Sides
      /\ Peer(Peer(s)) = s
      /\ wire[Peer(s)] \in Seq(Frames)
      /\ wire[Peer(s)] # << >>
  BY PeerType DEF TypeOK, Readable
<1>2. Got(s) = wire[Peer(s)][1] /\ 1 \in 1..Len(wire[Peer(s)])
  BY <1>1, EmptySeq DEF Got
<1>. QED
  BY <1>1, <1>2, HeadTailProperties DEF WireInv, Got

(* Losing the end of what is under way, on a connection that has ended.    *)
LEMMA LossKeepsWires ==
    ASSUME TypeOK, WireInv, ~Connected', UNCHANGED <<reliable, key, side>>,
           NEW n \in [Sides -> Nat],
           \A s \in Sides : n[s] <= Len(wire[s]),
           wire' = [s \in Sides |-> SubSeq(wire[s], 1, n[s])]
    PROVE  wire' \in [Sides -> Seq(Frames)] /\ WireInv' /\ CountInv'
<1>1. ASSUME NEW s \in Sides
      PROVE  /\ wire'[s] \in Seq(Frames)
             /\ \A i \in 1..Len(wire'[s]) : i \in 1..Len(wire[s]) /\ wire'[s][i] = wire[s][i]
  <2>1. wire[s] \in Seq(Frames) /\ n[s] \in Nat /\ n[s] <= Len(wire[s])
    BY DEF TypeOK
  <2>2. \A i \in 1..n[s] : wire[s][i] \in Frames
    BY <2>1, ElementOfSeq
  <2>3. /\ wire'[s] = SubSeq(wire[s], 1, n[s])
        /\ Len(wire'[s]) = n[s]
        /\ \A i \in 1..n[s] : wire'[s][i] = wire[s][i]
    BY <2>1, <2>2
  <2>4. wire'[s] \in Seq(Frames)
    BY <2>1, <2>2, <2>3, SubSeqProperties
  <2>. QED
    BY <2>1, <2>3, <2>4
<1>2. wire' \in [Sides -> Seq(Frames)]
  BY <1>1
<1>3. WireInv'
  BY <1>1 DEF WireInv
<1>. QED
  BY <1>2, <1>3 DEF CountInv

-----------------------------------------------------------------------------
(* What a side's record is made of.                                        *)
SideRecords ==
    [pc : {"silent", "start", "peer_nonce", "prove", "peer_proof",
           "verified", "lost", "mismatch", "failed"},
     peer_nonce : Frames \cup {None}, written : Nat, read : Nat]

(* What an action does to the invariant, without what it does to wires.    *)
RestOfInv ==
    /\ reliable \in BOOLEAN
    /\ key \in [Sides -> Keys]
    /\ side \in [Sides -> SideRecords]
    /\ open \in [Sides -> BOOLEAN]
    /\ broken \in BOOLEAN
    /\ event \in [Sides -> {None, "connected", "connection_failed",
                            "verification_failed"}]
    /\ ProgressInv
    /\ VerdictIsRight

(* The invariant holds initially.                                          *)
LEMMA InitInv == Init => VerifyInv
<1>. SUFFICES ASSUME Init PROVE VerifyInv
  OBVIOUS
<1>1. PICK silent \in SUBSET Sides :
         side = [s \in Sides |->
                [pc |-> IF s \in silent THEN "silent" ELSE "start",
                 peer_nonce |-> None, written |-> 0, read |-> 0]]
  BY DEF Init
<1>2. wire \in [Sides -> Seq(Frames)] /\ \A s \in Sides : Len(wire[s]) = 0
  BY EmptySeq DEF Init
<1>3. TypeOK
  BY <1>1, <1>2 DEF Init, TypeOK
<1>4. ProgressInv /\ VerdictIsRight
  BY <1>1 DEF ProgressInv, Progress, VerdictIsRight
<1>5. WireInv
  BY <1>2 DEF WireInv
<1>6. CountInv
  BY <1>1, <1>2, PeerType DEF CountInv
<1>. QED
  BY <1>3, <1>4, <1>5, <1>6 DEF VerifyInv

(* Sending the nonce keeps the invariant: it is the first frame.           *)
LEMMA SendNonceStep ==
    ASSUME VerifyInv, NEW s \in Sides, SendNonce(s)
    PROVE  VerifyInv'
<1>1. Peer(s) \in Sides /\ Peer(s) # s
  BY PeerType
<1>2. side[s].written = 0
  BY DEF SendNonce, VerifyInv, ProgressInv, Progress
<1>3. Nonce(s) \in Frames
  BY DEF Nonce, Frame, Frames
<1>4. Nonce(s) = Stream(key[s], s, side[s].written + 1)
  BY <1>2 DEF Stream
<1>5. /\ side'[s].written = side[s].written + 1
      /\ side'[s].read = side[s].read
      /\ side'[Peer(s)] = side[Peer(s)]
  BY <1>1 DEF SendNonce, VerifyInv, TypeOK
<1>6. wire' \in [Sides -> Seq(Frames)] /\ WireInv' /\ CountInv'
  BY <1>3, <1>4, <1>5, WriteKeepsWires DEF SendNonce, VerifyInv
<1>7. RestOfInv'
  <2>1. ProgressInv'
    <3>1. \A t \in Sides \ {s} : side'[t] = side[t]
      BY DEF SendNonce, VerifyInv, TypeOK
    <3>2. Progress(s)'
      BY <1>2 DEF SendNonce, VerifyInv, TypeOK, ProgressInv, Progress
    <3>3. \A t \in Sides \ {s} : Progress(t)'
      BY <3>1 DEF VerifyInv, ProgressInv, Progress
    <3>. QED
      BY <3>2, <3>3 DEF ProgressInv
  <2>2. side' \in [Sides -> SideRecords]
    <3>1. side'[s] \in SideRecords
      <4>1. side[s] \in SideRecords
        BY DEF VerifyInv, TypeOK, SideRecords
      <4>2. side'[s] = [pc |-> "peer_nonce", peer_nonce |-> side[s].peer_nonce,
                        written |-> side[s].written + 1, read |-> side[s].read]
        BY <4>1 DEF SendNonce, SideRecords, VerifyInv, TypeOK
      <4>. QED
        BY <4>1, <4>2 DEF SideRecords
    <3>2. \A t \in Sides \ {s} : side'[t] = side[t] /\ side[t] \in SideRecords
      BY DEF SendNonce, VerifyInv, TypeOK, SideRecords
    <3>. QED
      BY <3>1, <3>2 DEF SendNonce, VerifyInv, TypeOK
  <2>3. VerdictIsRight'
    BY DEF SendNonce, VerifyInv, TypeOK, VerdictIsRight
  <2>. QED
    BY <2>1, <2>2, <2>3 DEF SendNonce, VerifyInv, TypeOK, RestOfInv
<1>. QED
  BY <1>6, <1>7 DEF VerifyInv, TypeOK, RestOfInv, SideRecords

(* Sending the proof does: it is the second frame.                         *)
LEMMA SendProofStep ==
    ASSUME VerifyInv, NEW s \in Sides, SendProof(s)
    PROVE  VerifyInv'
<1>. DEFINE proof == hmac(key[s], side[s].peer_nonce)
<1>1. Peer(s) \in Sides /\ Peer(s) # s
  BY PeerType
<1>2. side[s].written = 1 /\ side[s].peer_nonce = Nonce(Peer(s))
  BY DEF SendProof, VerifyInv, ProgressInv, Progress
<1>3. proof \in Frames
  <2>1. key[s] \in Keys /\ Nonce(Peer(s)) \in Frames
    BY <1>1 DEF VerifyInv, TypeOK, Nonce, Frame, Frames
  <2>. QED
    BY <1>2, <2>1, FrameTypes
<1>4. proof = Stream(key[s], s, side[s].written + 1)
  BY <1>2 DEF Stream
<1>5. /\ side'[s].written = side[s].written + 1
      /\ side'[s].read = side[s].read
      /\ side'[Peer(s)] = side[Peer(s)]
  BY <1>1 DEF SendProof, VerifyInv, TypeOK
<1>6. wire' \in [Sides -> Seq(Frames)] /\ WireInv' /\ CountInv'
  BY <1>3, <1>4, <1>5, WriteKeepsWires DEF SendProof, VerifyInv
<1>7. RestOfInv'
  <2>1. ProgressInv'
    <3>1. \A t \in Sides \ {s} : side'[t] = side[t]
      BY DEF SendProof, VerifyInv, TypeOK
    <3>2. Progress(s)'
      BY <1>2 DEF SendProof, VerifyInv, TypeOK, ProgressInv, Progress
    <3>3. \A t \in Sides \ {s} : Progress(t)'
      BY <3>1 DEF VerifyInv, ProgressInv, Progress
    <3>. QED
      BY <3>2, <3>3 DEF ProgressInv
  <2>2. side' \in [Sides -> SideRecords]
    <3>1. side'[s] \in SideRecords
      <4>1. side[s] \in SideRecords
        BY DEF VerifyInv, TypeOK, SideRecords
      <4>2. side'[s] = [pc |-> "peer_proof", peer_nonce |-> side[s].peer_nonce,
                        written |-> side[s].written + 1, read |-> side[s].read]
        BY <4>1 DEF SendProof, SideRecords, VerifyInv, TypeOK
      <4>. QED
        BY <4>1, <4>2 DEF SideRecords
    <3>2. \A t \in Sides \ {s} : side'[t] = side[t] /\ side[t] \in SideRecords
      BY DEF SendProof, VerifyInv, TypeOK, SideRecords
    <3>. QED
      BY <3>1, <3>2 DEF SendProof, VerifyInv, TypeOK
  <2>3. VerdictIsRight'
    BY DEF SendProof, VerifyInv, TypeOK, VerdictIsRight
  <2>. QED
    BY <2>1, <2>2, <2>3 DEF SendProof, VerifyInv, TypeOK, RestOfInv
<1>. QED
  BY <1>6, <1>7 DEF VerifyInv, TypeOK, RestOfInv, SideRecords

(* Sending data does: what follows the proof is data.                      *)
LEMMA SendDataStep ==
    ASSUME VerifyInv, NEW s \in Sides, SendData(s)
    PROVE  VerifyInv'
<1>1. Peer(s) \in Sides /\ Peer(s) # s
  BY PeerType
<1>2. side[s].written \in Nat /\ side[s].written >= 2
  BY DEF SendData, InUse, VerifyInv, TypeOK, ProgressInv, Progress
<1>3. Data \in Frames
  BY DEF Data, Frame, Frames
<1>4. Data = Stream(key[s], s, side[s].written + 1)
  BY <1>2 DEF Stream
<1>5. /\ side'[s].written = side[s].written + 1
      /\ side'[s].read = side[s].read
      /\ side'[Peer(s)] = side[Peer(s)]
  BY <1>1 DEF SendData, VerifyInv, TypeOK
<1>6. wire' \in [Sides -> Seq(Frames)] /\ WireInv' /\ CountInv'
  BY <1>3, <1>4, <1>5, WriteKeepsWires DEF SendData, VerifyInv
<1>7. RestOfInv'
  <2>1. ProgressInv'
    <3>1. \A t \in Sides \ {s} : side'[t] = side[t]
      BY DEF SendData, InUse, VerifyInv, TypeOK
    <3>2. Progress(s)'
      BY <1>2 DEF SendData, InUse, VerifyInv, TypeOK, ProgressInv, Progress
    <3>3. \A t \in Sides \ {s} : Progress(t)'
      BY <3>1 DEF VerifyInv, ProgressInv, Progress
    <3>. QED
      BY <3>2, <3>3 DEF ProgressInv
  <2>2. side' \in [Sides -> SideRecords]
    <3>1. side'[s] \in SideRecords
      <4>1. side[s] \in SideRecords
        BY DEF VerifyInv, TypeOK, SideRecords
      <4>2. side'[s] = [side[s] EXCEPT !.written = @ + 1]
        BY DEF SendData, VerifyInv, TypeOK
      <4>. QED
        BY <1>2, <4>1, <4>2 DEF SideRecords
    <3>2. \A t \in Sides \ {s} : side'[t] = side[t] /\ side[t] \in SideRecords
      BY DEF SendData, InUse, VerifyInv, TypeOK, SideRecords
    <3>. QED
      BY <3>1, <3>2 DEF SendData, InUse, VerifyInv, TypeOK
  <2>3. VerdictIsRight'
    BY DEF SendData, InUse, VerifyInv, TypeOK, VerdictIsRight
  <2>. QED
    BY <2>1, <2>2, <2>3 DEF SendData, InUse, VerifyInv, TypeOK, RestOfInv
<1>. QED
  BY <1>6, <1>7 DEF VerifyInv, TypeOK, RestOfInv, SideRecords

(* The first frame a side reads is the nonce of its peer.                  *)
LEMMA ReadNonceStep ==
    ASSUME VerifyInv, NEW s \in Sides, ReadNonce(s)
    PROVE  VerifyInv'
<1>1. Peer(s) \in Sides /\ Peer(s) # s
  BY PeerType
<1>2. side[s].read = 0 /\ side[s].written = 1
  BY DEF ReadNonce, VerifyInv, ProgressInv, Progress
<1>3. Got(s) = Nonce(Peer(s)) /\ Got(s) \in Frames
  BY <1>2, HeadOfStream DEF ReadNonce, Read, VerifyInv, Stream
<1>4. /\ side'[s].written = side[s].written
      /\ side'[s].read = side[s].read + 1
      /\ side'[Peer(s)] = side[Peer(s)]
  BY <1>1 DEF ReadNonce, VerifyInv, TypeOK
<1>5. wire' \in [Sides -> Seq(Frames)] /\ WireInv' /\ CountInv'
  BY <1>4, ReadKeepsWires DEF ReadNonce, VerifyInv
<1>6. RestOfInv'
  <2>1. ProgressInv'
    <3>1. \A t \in Sides \ {s} : side'[t] = side[t]
      BY DEF ReadNonce, VerifyInv, TypeOK
    <3>2. Progress(s)'
      BY <1>2, <1>3 DEF ReadNonce, VerifyInv, TypeOK, ProgressInv, Progress
    <3>3. \A t \in Sides \ {s} : Progress(t)'
      BY <3>1 DEF VerifyInv, ProgressInv, Progress
    <3>. QED
      BY <3>2, <3>3 DEF ProgressInv
  <2>2. side' \in [Sides -> SideRecords]
    <3>1. side'[s] \in SideRecords
      <4>1. side[s] \in SideRecords
        BY DEF VerifyInv, TypeOK, SideRecords
      <4>2. side'[s] = [pc |-> "prove", peer_nonce |-> Got(s),
                        written |-> side[s].written, read |-> side[s].read + 1]
        BY <4>1 DEF ReadNonce, SideRecords, VerifyInv, TypeOK
      <4>. QED
        BY <1>3, <4>1, <4>2 DEF SideRecords
    <3>2. \A t \in Sides \ {s} : side'[t] = side[t] /\ side[t] \in SideRecords
      BY DEF ReadNonce, VerifyInv, TypeOK, SideRecords
    <3>. QED
      BY <3>1, <3>2 DEF ReadNonce, VerifyInv, TypeOK
  <2>3. VerdictIsRight'
    BY DEF ReadNonce, VerifyInv, TypeOK, VerdictIsRight
  <2>. QED
    BY <2>1, <2>2, <2>3 DEF ReadNonce, VerifyInv, TypeOK, RestOfInv
<1>. QED
  BY <1>5, <1>6 DEF VerifyInv, TypeOK, RestOfInv, SideRecords

(* The second frame is the peer's proof, which is the expected one exactly *)
(* when the keys are equal.                                                *)
LEMMA ReadProofStep ==
    ASSUME VerifyInv, NEW s \in Sides, ReadProof(s)
    PROVE  VerifyInv'
<1>1. Peer(s) \in Sides /\ Peer(s) # s /\ Peer(Peer(s)) = s
  BY PeerType
<1>2. side[s].read = 1 /\ side[s].written = 2
  BY DEF ReadProof, VerifyInv, ProgressInv, Progress
<1>3. Got(s) = hmac(key[Peer(s)], Nonce(s))
  BY <1>1, <1>2, HeadOfStream DEF ReadProof, Read, VerifyInv, Stream
<1>4. Got(s) = Expected(s) <=> key[s] = key[Peer(s)]
  BY <1>3 DEF Expected, hmac, Nonce, Frame
<1>5. key[s] = key[Peer(s)] <=> key["a"] = key["b"]
  BY DEF Sides, Peer
<1>6. /\ side'[s].written = side[s].written
      /\ side'[s].read = side[s].read + 1
      /\ side'[Peer(s)] = side[Peer(s)]
  BY <1>1 DEF ReadProof, VerifyInv, TypeOK
<1>7. wire' \in [Sides -> Seq(Frames)] /\ WireInv' /\ CountInv'
  BY <1>6, ReadKeepsWires DEF ReadProof, VerifyInv
<1>8. RestOfInv'
  <2>1. CASE Got(s) = Expected(s)
    BY <1>2, <1>4, <1>5, <2>1
       DEF ReadProof, VerifyInv, TypeOK, ProgressInv, Progress, VerdictIsRight, RestOfInv, SideRecords
  <2>2. CASE Got(s) # Expected(s)
    BY <1>2, <1>4, <1>5, <2>2
       DEF ReadProof, VerifyInv, TypeOK, ProgressInv, Progress, VerdictIsRight, RestOfInv, SideRecords
  <2>. QED
    BY <2>1, <2>2
<1>. QED
  BY <1>7, <1>8 DEF VerifyInv, TypeOK, RestOfInv, SideRecords

(* Reading data does: the reader is beyond the second frame.               *)
LEMMA ReceiveDataStep ==
    ASSUME VerifyInv, NEW s \in Sides, ReceiveData(s)
    PROVE  VerifyInv'
<1>1. Peer(s) \in Sides /\ Peer(s) # s
  BY PeerType
<1>2. /\ side'[s].written = side[s].written
      /\ side'[s].read = side[s].read + 1
      /\ side'[Peer(s)] = side[Peer(s)]
  BY <1>1 DEF ReceiveData, VerifyInv, TypeOK
<1>3. wire' \in [Sides -> Seq(Frames)] /\ WireInv' /\ CountInv'
  BY <1>2, ReadKeepsWires DEF ReceiveData, VerifyInv
<1>4. RestOfInv'
  <2>1. ProgressInv'
    <3>1. \A t \in Sides \ {s} : side'[t] = side[t]
      BY DEF ReceiveData, InUse, VerifyInv, TypeOK
    <3>2. Progress(s)'
      BY DEF ReceiveData, InUse, VerifyInv, TypeOK, ProgressInv, Progress
    <3>3. \A t \in Sides \ {s} : Progress(t)'
      BY <3>1 DEF VerifyInv, ProgressInv, Progress
    <3>. QED
      BY <3>2, <3>3 DEF ProgressInv
  <2>2. side' \in [Sides -> SideRecords]
    <3>1. side'[s] \in SideRecords
      <4>1. side[s] \in SideRecords
        BY DEF VerifyInv, TypeOK, SideRecords
      <4>2. side'[s] = [side[s] EXCEPT !.read = @ + 1]
        BY DEF ReceiveData, VerifyInv, TypeOK
      <4>. QED
        BY <4>1, <4>2 DEF SideRecords
    <3>2. \A t \in Sides \ {s} : side'[t] = side[t] /\ side[t] \in SideRecords
      BY DEF ReceiveData, InUse, VerifyInv, TypeOK, SideRecords
    <3>. QED
      BY <3>1, <3>2 DEF ReceiveData, InUse, VerifyInv, TypeOK
  <2>3. VerdictIsRight'
    BY DEF ReceiveData, InUse, VerifyInv, TypeOK, VerdictIsRight
  <2>. QED
    BY <2>1, <2>2, <2>3 DEF ReceiveData, InUse, VerifyInv, TypeOK, RestOfInv
<1>. QED
  BY <1>3, <1>4 DEF VerifyInv, TypeOK, RestOfInv, SideRecords

(* A side that gives up, or that finds the channel broken, reads no more.  *)
LEMMA EndStep ==
    ASSUME VerifyInv, NEW s \in Sides, NetworkError(s) \/ ReceiveFails(s)
    PROVE  VerifyInv'
<1>. DEFINE pc == IF NetworkError(s) THEN "failed" ELSE "lost"
<1>1. /\ side' = [side EXCEPT ![s].pc = pc]
      /\ UNCHANGED <<reliable, key, wire, open, broken, event>>
  BY DEF NetworkError, ReceiveFails
<1>2. pc = "lost" => key["a"] = key["b"]
  BY DEF ReceiveFails, InUse, VerifyInv, VerdictIsRight
<1>3. pc \in {"failed", "lost"}
  OBVIOUS
<1>. HIDE DEF pc
<1>4. RestOfInv'
  BY <1>1, <1>2, <1>3 DEF VerifyInv, TypeOK, ProgressInv, Progress, VerdictIsRight, RestOfInv, SideRecords
<1>5. \A t \in Sides : side'[t].read = side[t].read /\ side'[t].written = side[t].written
  BY <1>1 DEF VerifyInv, TypeOK
<1>6. WireInv' /\ CountInv'
  BY <1>1, <1>5, PeerType DEF VerifyInv, WireInv, CountInv, Connected
<1>7. wire' \in [Sides -> Seq(Frames)]
  BY <1>1 DEF VerifyInv, TypeOK
<1>. QED
  BY <1>4, <1>6, <1>7 DEF VerifyInv, TypeOK, RestOfInv, SideRecords

(* A socket that is closed ends the connection.                            *)
LEMMA CloseStep ==
    ASSUME VerifyInv, NEW s \in Sides, CloseSocket(s), UNCHANGED <<reliable, key, side, broken>>,
           event' \in [Sides -> {None, "connected", "connection_failed",
                                 "verification_failed"}]
    PROVE  VerifyInv'
<1>1. PICK m \in 0..Len(wire[s]) : wire' = [wire EXCEPT ![s] = SubSeq(@, 1, m)]
  BY DEF CloseSocket
<1>. DEFINE n == [t \in Sides |-> IF t = s THEN m ELSE Len(wire[t])]
<1>2. \A t \in Sides : wire[t] \in Seq(Frames) /\ Len(wire[t]) \in Nat
  BY DEF VerifyInv, TypeOK
<1>3. n \in [Sides -> Nat] /\ \A t \in Sides : n[t] <= Len(wire[t])
  BY <1>1, <1>2
<1>4. \A t \in Sides : SubSeq(wire[t], 1, Len(wire[t])) = wire[t]
  BY <1>2, SubSeqFull
<1>5. wire' = [t \in Sides |-> SubSeq(wire[t], 1, n[t])]
  BY <1>1, <1>4 DEF VerifyInv, TypeOK
<1>6. ~Connected' /\ open' \in [Sides -> BOOLEAN]
  BY DEF CloseSocket, Connected, Sides, VerifyInv, TypeOK
<1>. HIDE DEF n
<1>7. wire' \in [Sides -> Seq(Frames)] /\ WireInv' /\ CountInv'
  BY <1>3, <1>5, <1>6, LossKeepsWires DEF VerifyInv
<1>8. RestOfInv'
  BY <1>6 DEF VerifyInv, TypeOK, ProgressInv, Progress, VerdictIsRight, RestOfInv, SideRecords
<1>. QED
  BY <1>7, <1>8 DEF VerifyInv, TypeOK, RestOfInv, SideRecords

(* A failed verification closes its socket.                                *)
LEMMA PostFailedStep ==
    ASSUME VerifyInv, NEW s \in Sides, PostFailed(s)
    PROVE  VerifyInv'
<1>1. event' \in [Sides -> {None, "connected", "connection_failed", "verification_failed"}]
  BY DEF PostFailed, VerifyInv, TypeOK
<1>. QED
  BY <1>1, CloseStep DEF PostFailed

(* So does the reset of a session.                                         *)
LEMMA ResetStep ==
    ASSUME VerifyInv, NEW s \in Sides, _reset_channel_attempt(s)
    PROVE  VerifyInv'
<1>1. event' \in [Sides -> {None, "connected", "connection_failed", "verification_failed"}]
  BY DEF _reset_channel_attempt, VerifyInv, TypeOK
<1>. QED
  BY <1>1, CloseStep DEF _reset_channel_attempt

(* A reset connection delivers no more than what was under way.            *)
LEMMA BreakStep ==
    ASSUME VerifyInv, Break
    PROVE  VerifyInv'
<1>1. PICK k \in 0..Len(wire["a"]), m \in 0..Len(wire["b"]) :
         wire' = [s \in Sides |-> SubSeq(wire[s], 1, IF s = "a" THEN k ELSE m)]
  BY DEF Break
<1>. DEFINE n == [s \in Sides |-> IF s = "a" THEN k ELSE m]
<1>2. \A t \in Sides : wire[t] \in Seq(Frames) /\ Len(wire[t]) \in Nat
  BY DEF VerifyInv, TypeOK
<1>3. n \in [Sides -> Nat] /\ \A t \in Sides : n[t] <= Len(wire[t])
  BY <1>1, <1>2 DEF Sides
<1>4. wire' = [t \in Sides |-> SubSeq(wire[t], 1, n[t])]
  BY <1>1
<1>5. ~Connected' /\ broken' \in BOOLEAN
  BY DEF Break, Connected
<1>. HIDE DEF n
<1>6. UNCHANGED <<reliable, key, side, open, event>>
  BY DEF Break
<1>7. wire' \in [Sides -> Seq(Frames)] /\ WireInv' /\ CountInv'
  BY <1>3, <1>4, <1>5, <1>6, LossKeepsWires DEF VerifyInv
<1>8. RestOfInv'
  BY <1>5, <1>6 DEF VerifyInv, TypeOK, ProgressInv, Progress, VerdictIsRight, RestOfInv, SideRecords
<1>. QED
  BY <1>7, <1>8 DEF VerifyInv, TypeOK, RestOfInv, SideRecords

(* Posting an event touches nothing else.                                  *)
LEMMA PostConnectedStep ==
    ASSUME VerifyInv, NEW s \in Sides, PostConnected(s)
    PROVE  VerifyInv'
BY DEF PostConnected, VerifyInv, TypeOK, ProgressInv, Progress, WireInv, CountInv, Connected,
       VerdictIsRight

(* A stuttering step keeps the invariant.                                  *)
LEMMA StutterStep ==
    ASSUME VerifyInv, UNCHANGED vars
    PROVE  VerifyInv'
BY DEF vars, VerifyInv, TypeOK, ProgressInv, Progress, WireInv, CountInv, Connected, VerdictIsRight

-----------------------------------------------------------------------------
(* The invariant is inductive.                                             *)
THEOREM VerifyInvariant == Spec => []VerifyInv
<1>1. VerifyInv /\ [Next]_vars => VerifyInv'
  <2>. SUFFICES ASSUME VerifyInv, [Next]_vars
                PROVE  VerifyInv'
    OBVIOUS
  <2>1. CASE UNCHANGED vars
    BY <2>1, StutterStep
  <2>2. CASE Break
    BY <2>2, BreakStep
  <2>3. CASE Rest
    BY <2>3, StutterStep DEF Rest
  <2>4. ASSUME NEW s \in Sides, verify_channel(s)
        PROVE  VerifyInv'
    BY <2>4, SendNonceStep, ReadNonceStep, SendProofStep, ReadProofStep, EndStep
       DEF verify_channel
  <2>5. ASSUME NEW s \in Sides, PostConnected(s) \/ PostFailed(s)
        PROVE  VerifyInv'
    BY <2>5, PostConnectedStep, PostFailedStep
  <2>6. ASSUME NEW s \in Sides,
               SendData(s) \/ _receive_worker(s) \/ _reset_channel_attempt(s)
        PROVE  VerifyInv'
    BY <2>6, SendDataStep, ReceiveDataStep, EndStep, ResetStep DEF _receive_worker
  <2>. QED
    BY <2>1, <2>2, <2>3, <2>4, <2>5, <2>6 DEF Next, Worker
<1>. QED
  BY InitInv, <1>1, PTL DEF Spec

(* Every variable keeps its type.                                          *)
THEOREM TypeCorrect == Spec => []TypeOK
<1>1. VerifyInv => TypeOK
  BY DEF VerifyInv
<1>. QED
  BY VerifyInvariant, <1>1, PTL

(* Whatever the network does, sides that verify each other have the same   *)
(* key, and a mismatch is only raised when the keys are different.         *)
THEOREM VerdictsAreRight == Spec => []VerdictIsRight
<1>1. VerifyInv => VerdictIsRight
  BY DEF VerifyInv
<1>. QED
  BY VerifyInvariant, <1>1, PTL

(* verify_channel reads its two frames and no more: each reader, also the  *)
(* one that uses the channel afterwards, finds the kind of frame it is     *)
(* there for.                                                              *)
THEOREM StreamStaysInStep == Spec => []StreamInStep
<1>1. VerifyInv => StreamInStep
  <2>. SUFFICES ASSUME VerifyInv, NEW s \in Sides, Readable(s)
                PROVE  /\ side[s].pc = "peer_nonce" => Got(s).type = "nonce"
                       /\ side[s].pc \in {"prove", "peer_proof"} => Got(s).type = "proof"
                       /\ side[s].pc = "verified" => Got(s).type = "data"
    BY DEF StreamInStep
  <2>1. Got(s) = Stream(key[Peer(s)], Peer(s), side[s].read + 1)
    BY HeadOfStream DEF VerifyInv
  <2>2. side[s].read \in Nat
    BY DEF VerifyInv, TypeOK
  <2>3. CASE side[s].pc = "peer_nonce"
    <3>1. side[s].read + 1 = 1
      BY <2>3 DEF VerifyInv, ProgressInv, Progress
    <3>2. Got(s) = Nonce(Peer(s))
      BY <2>1, <3>1 DEF Stream
    <3>. QED
      BY <2>3, <3>2 DEF Nonce, Frame
  <2>4. CASE side[s].pc \in {"prove", "peer_proof"}
    BY <2>1, <2>4 DEF VerifyInv, ProgressInv, Progress, Stream, hmac, Frame
  <2>5. CASE side[s].pc = "verified"
    BY <2>1, <2>2, <2>5 DEF VerifyInv, ProgressInv, Progress, Stream, Data, Frame
  <2>. QED
    BY <2>3, <2>4, <2>5
<1>. QED
  BY VerifyInvariant, <1>1, PTL
=============================================================================
