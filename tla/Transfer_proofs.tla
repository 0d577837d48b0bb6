-------------------------- MODULE Transfer_proofs --------------------------
(***************************************************************************)
(* Theorems about Transfer, for every batch, chunk size, capacity of the   *)
(* connection, and number of Sends and channel tests.                      *)
(***************************************************************************)
EXTENDS Transfer, SequenceTheorems, FiniteSetTheorems, TLAPS

-----------------------------------------------------------------------------
(***************************************************************************)
(* Where files, frames and threads come from.                              *)
(***************************************************************************)

FilesOf(s) == {s} \X Batches(s) \X (1..Len(Batch))

(* A frame about a file is about a file of its writer.                     *)
FramesOf(s) == {f \in Frames : f.type \in {"file", "data", "checksum"} => f.file \in FilesOf(s)}

SendWorkers ==
    [pc : {"idle", "header", "data", "checksum", "done", "ended", "failed"},
     k : Nat, pos : Nat, length : Nat]

Readers ==
    [pc : {"header", "data", "checksum", "pong", "error", "closed"},
     file : Files \cup {NoFile}, remaining : Int, got : Nat, intact : BOOLEAN]

(* A send worker is at a file of its batch, and at the last one when it    *)
(* writes "done"; there is data to write while it writes data.             *)
SenderInv ==
    \A s \in Sides : \A n \in Batches(s) :
        /\ senders[s][n].k \in 1..Len(Batch)
        /\ senders[s][n].pc = "done" => senders[s][n].k = Len(Batch)
        /\ senders[s][n].pc = "data" => senders[s][n].pos < senders[s][n].length

WireInv == \A s \in Sides : wire[s] \in Seq(FramesOf(s))

(* A reader in the middle of a file is at a file of its peer.              *)
ReaderInv ==
    \A s \in Sides : recv[s].pc \in {"data", "checksum"} => recv[s].file \in FilesOf(Peer(s))

OriginInv == TypeOK /\ SenderInv /\ WireInv /\ ReaderInv

-----------------------------------------------------------------------------
(***************************************************************************)
(* Lemmas about the operators of Transfer.                                 *)
(***************************************************************************)

(* Each side is the peer of its peer.                                      *)
LEMMA Peers ==
    ASSUME NEW s \in Sides
    PROVE  /\ Peer(s) \in Sides /\ Peer(s) # s /\ Peer(Peer(s)) = s
           /\ Sides = {s, Peer(s)}
BY DEF Sides, Peer

(* The files are those of the two sides.                                   *)
LEMMA FilesBySide ==
    /\ \A s \in Sides : FilesOf(s) \subseteq Files
    /\ \A s \in Sides : \A n \in Batches(s) : \A k \in 1..Len(Batch) : <<s, n, k>> \in FilesOf(s)
BY DEF Files, FilesOf

(* A file of the batch has a length.                                       *)
LEMMA BatchLengths == \A k \in 1..Len(Batch) : Batch[k] \in Nat
BY TransferAssumption, ElementOfSeq

(* The batch has a first file.                                             *)
LEMMA BatchSize == Len(Batch) \in Nat /\ 1 \in 1..Len(Batch)
BY TransferAssumption, LenProperties

(* Step changes one thread and leaves the others.                          *)
LEMMA StepChanges ==
    ASSUME DOMAIN senders = Sides,
           \A t \in Sides : senders[t] \in [Batches(t) -> SendWorkers],
           NEW s \in Sides, NEW n \in Batches(s), NEW record \in SendWorkers,
           Step(s, n, record)
    PROVE  /\ DOMAIN senders' = Sides
           /\ \A t \in Sides : senders'[t] \in [Batches(t) -> SendWorkers]
           /\ senders'[s][n] = record
           /\ \A t \in Sides : \A m \in Batches(t) :
                 <<t, m>> # <<s, n>> => senders'[t][m] = senders[t][m]
<1>1. senders' = [senders EXCEPT ![s] = [senders[s] EXCEPT ![n] = record]]
  BY DEF Step
<1>2. /\ senders'[s] = [senders[s] EXCEPT ![n] = record]
      /\ \A t \in Sides : t # s => senders'[t] = senders[t]
      /\ DOMAIN senders' = Sides
  BY <1>1
<1>3. [senders[s] EXCEPT ![n] = record] \in [Batches(s) -> SendWorkers]
  OBVIOUS
<1>4. /\ senders'[s][n] = record
      /\ \A m \in Batches(s) : m # n => senders'[s][m] = senders[s][m]
  BY <1>2
<1>. QED
  BY <1>2, <1>3, <1>4

(* A frame that is written goes behind the others.                         *)
LEMMA WriteAppends ==
    ASSUME wire \in [Sides -> Seq(Frames)], WireInv,
           NEW s \in Sides, NEW frame \in FramesOf(s), Write(s, frame)
    PROVE  /\ wire' \in [Sides -> Seq(Frames)] /\ WireInv'
           /\ wire'[s] = Append(wire[s], frame) /\ wire'[Peer(s)] = wire[Peer(s)]
<1>1. wire' = [wire EXCEPT ![s] = Append(@, frame)]
  BY DEF Write
<1>2. /\ wire'[s] = Append(wire[s], frame)
      /\ \A t \in Sides : t # s => wire'[t] = wire[t]
  BY <1>1
<1>3. frame \in Frames
  BY DEF FramesOf
<1>4. Append(wire[s], frame) \in Seq(Frames) /\ Append(wire[s], frame) \in Seq(FramesOf(s))
  BY <1>3, AppendProperties DEF WireInv
<1>5. wire' \in [Sides -> Seq(Frames)]
  BY <1>1, <1>4
<1>6. WireInv'
  BY <1>2, <1>4 DEF WireInv, FramesOf, FilesOf, Batches, Frames, Files
<1>. QED
  BY <1>2, <1>5, <1>6, Peers

(* A reader takes the frame its peer wrote first.                          *)
LEMMA ReadTakesHead ==
    ASSUME wire \in [Sides -> Seq(Frames)], WireInv,
           NEW s \in Sides, NEW pc, Read(s, pc)
    PROVE  /\ wire' \in [Sides -> Seq(Frames)] /\ WireInv'
           /\ wire[Peer(s)] # << >> /\ Got(s) = Head(wire[Peer(s)])
           /\ Got(s) \in FramesOf(Peer(s))
           /\ wire'[Peer(s)] = Tail(wire[Peer(s)]) /\ wire'[s] = wire[s]
<1>1. wire' = [wire EXCEPT ![Peer(s)] = Tail(@)] /\ wire[Peer(s)] # << >>
  BY DEF Read
<1>2. wire'[Peer(s)] = Tail(wire[Peer(s)]) /\ \A t \in Sides : t # Peer(s) => wire'[t] = wire[t]
  BY <1>1, Peers
<1>3. /\ Tail(wire[Peer(s)]) \in Seq(Frames)
      /\ Tail(wire[Peer(s)]) \in Seq(FramesOf(Peer(s)))
      /\ Got(s) = Head(wire[Peer(s)]) /\ Got(s) \in FramesOf(Peer(s))
  BY <1>1, Peers, HeadTailProperties DEF WireInv, Got
<1>4. wire' \in [Sides -> Seq(Frames)]
  BY <1>1, <1>3
<1>5. WireInv'
  BY <1>2, <1>3 DEF WireInv, FramesOf, FilesOf, Batches, Frames, Files
<1>. QED
  BY <1>1, <1>2, <1>3, <1>4, <1>5, Peers

(* What is lost when a side closes is the end of what it wrote.            *)
LEMMA CloseCuts ==
    ASSUME wire \in [Sides -> Seq(Frames)], WireInv,
           NEW s \in Sides, NEW n \in 0..Len(wire[s]),
           wire' = [wire EXCEPT ![s] = SubSeq(@, 1, n)]
    PROVE  /\ wire' \in [Sides -> Seq(Frames)] /\ WireInv'
           /\ wire'[s] = SubSeq(wire[s], 1, n) /\ wire'[Peer(s)] = wire[Peer(s)]
<1>1. wire'[s] = SubSeq(wire[s], 1, n) /\ \A t \in Sides : t # s => wire'[t] = wire[t]
  OBVIOUS
<1>2. wire[s] \in Seq(Frames) /\ wire[s] \in Seq(FramesOf(s)) /\ Len(wire[s]) \in Nat
  BY LenProperties DEF WireInv
<1>3. \A i \in 1..n : i \in 1..Len(wire[s])
  BY <1>2
<1>4. SubSeq(wire[s], 1, n) \in Seq(Frames) /\ SubSeq(wire[s], 1, n) \in Seq(FramesOf(s))
  BY <1>2, <1>3, SubSeqProperties
<1>5. wire' \in [Sides -> Seq(Frames)]
  BY <1>4
<1>6. WireInv'
  BY <1>1, <1>4 DEF WireInv, FramesOf, FilesOf, Batches, Frames, Files
<1>. QED
  BY <1>1, <1>5, <1>6, Peers

-----------------------------------------------------------------------------
(***************************************************************************)
(* Types, and where frames and files come from.                            *)
(***************************************************************************)

(* At the start nothing is on its way and every thread is at its first     *)
(* file.                                                                   *)
LEMMA InitOrigin == Init => OriginInv
<1>. SUFFICES ASSUME Init PROVE OriginInv
  OBVIOUS
<1>1. TypeOK
  <2>1. \A s \in Sides : [n \in Batches(s) |-> [pc |-> "idle", k |-> 1, pos |-> 0, length |-> 0]]
            \in [Batches(s) -> SendWorkers]
    BY DEF SendWorkers
  <2>2. DOMAIN senders = Sides /\ \A s \in Sides : senders[s] \in [Batches(s) -> SendWorkers]
    BY <2>1 DEF Init
  <2>3. /\ wire \in [Sides -> Seq(Frames)]
        /\ received \in [Sides -> Seq(Files)]
        /\ partial \in [Sides -> SUBSET Files]
    BY EmptySeq DEF Init
  <2>4. open \in [Sides -> BOOLEAN] /\ verified \in [Sides -> BOOLEAN]
    BY DEF Init
  <2>5. pings \in [Sides -> Nat] /\ pinged \in [Sides -> Nat] /\ pongs \in [Sides -> Nat]
    BY DEF Init
  <2>6. recv \in [Sides -> [pc : {"header", "data", "checksum", "pong", "error", "closed"},
            file : Files \cup {NoFile}, remaining : Int, got : Nat, intact : BOOLEAN]]
    BY DEF Init
  <2>. QED
    BY <2>2, <2>3, <2>4, <2>5, <2>6 DEF TypeOK, SendWorkers
<1>2. SenderInv
  BY BatchSize DEF Init, SenderInv
<1>3. WireInv
  BY EmptySeq DEF Init, WireInv
<1>4. ReaderInv
  BY DEF Init, ReaderInv
<1>. QED
  BY <1>1, <1>2, <1>3, <1>4 DEF OriginInv

(* What a step of a send worker does, seen from outside: the thread goes   *)
(* from one record to another, and writes one frame or none.               *)
Moves(s, n, record) ==
    /\ record \in SendWorkers
    /\ record.k \in 1..Len(Batch)
    /\ record.pc = "done" => record.k = Len(Batch)
    /\ record.pc = "data" => record.pos < record.length
    /\ Step(s, n, record)
    /\ UNCHANGED <<open, verified, pings, pinged, recv, received, partial, pongs>>

(* Starting a batch, and a worker that fails, write nothing.               *)
LEMMA StartOrFailMoves ==
    ASSUME OriginInv, NEW s \in Sides, NEW n \in Batches(s),
           on_send_files(s, n) \/ SendFails(s, n)
    PROVE  \E record \in SendWorkers :
               /\ Moves(s, n, record) /\ UNCHANGED wire
               /\ record.pc \in {"header", "failed"} /\ record.k = senders[s][n].k
<1>1. senders[s][n] \in SendWorkers /\ senders[s][n].k \in 1..Len(Batch)
  BY DEF OriginInv, TypeOK, SendWorkers, SenderInv
<1>2. CASE on_send_files(s, n)
  <2>1. [senders[s][n] EXCEPT !.pc = "header"] \in SendWorkers
    BY <1>1 DEF SendWorkers
  <2>2. Moves(s, n, [senders[s][n] EXCEPT !.pc = "header"])
    BY <1>1, <1>2, <2>1 DEF on_send_files, Moves, SendWorkers
  <2>. QED
    BY <1>1, <1>2, <2>1, <2>2 DEF on_send_files, SendWorkers
<1>3. CASE SendFails(s, n)
  <2>1. [senders[s][n] EXCEPT !.pc = "failed"] \in SendWorkers
    BY <1>1 DEF SendWorkers
  <2>2. Moves(s, n, [senders[s][n] EXCEPT !.pc = "failed"])
    BY <1>1, <1>3, <2>1 DEF SendFails, Moves, SendWorkers
  <2>. QED
    BY <1>1, <1>3, <2>1, <2>2 DEF SendFails, SendWorkers
<1>. QED
  BY <1>2, <1>3

(* A header announces the current file of the worker, which goes on with   *)
(* the data or, of an empty file, with the checksum.                       *)
LEMMA SendHeaderMoves ==
    ASSUME OriginInv, NEW s \in Sides, NEW n \in Batches(s), SendHeader(s, n)
    PROVE  \E record \in SendWorkers : \E frame \in FramesOf(s) :
               /\ Moves(s, n, record) /\ Write(s, frame)
               /\ senders[s][n].pc = "header" /\ record.k = senders[s][n].k
               /\ frame = Frame("file", <<s, n, record.k>>, Batch[record.k], 1)
               /\ record.length \in ActualLengths(Batch[record.k])
               /\ record.pos = 0 /\ record.pc = AfterData(0, record.length)
<1>. DEFINE k == senders[s][n].k
<1>1. senders[s][n] \in SendWorkers /\ k \in 1..Len(Batch) /\ k \in Nat
  BY DEF OriginInv, TypeOK, SendWorkers, SenderInv
<1>2. Batch[k] \in Nat
  BY <1>1, BatchLengths
<1>3. PICK length \in ActualLengths(Batch[k]) :
         Step(s, n, [pc |-> AfterData(0, length), k |-> k, pos |-> 0, length |-> length])
  BY DEF SendHeader
<1>4. length \in Nat
  BY <1>2 DEF ActualLengths
<1>. DEFINE record == [pc |-> AfterData(0, length), k |-> k, pos |-> 0, length |-> length]
            frame == Frame("file", <<s, n, k>>, Batch[k], 1)
<1>5. record \in SendWorkers
  BY <1>1, <1>4 DEF AfterData, SendWorkers
<1>6. <<s, n, k>> \in FilesOf(s)
  BY <1>1, FilesBySide
<1>7. frame \in FramesOf(s)
  BY <1>2, <1>6, FilesBySide DEF FramesOf, Frames, Frame, Types
<1>8. UNCHANGED <<open, verified, pings, pinged, recv, received, partial, pongs>>
  BY DEF SendHeader
<1>9. Moves(s, n, record)
  BY <1>1, <1>3, <1>4, <1>5, <1>8 DEF Moves, AfterData
<1>10. Write(s, frame) /\ senders[s][n].pc = "header"
  BY DEF SendHeader
<1>. HIDE DEF record, frame
<1>11. record.k = k /\ record.length = length /\ record.pos = 0 /\ record.pc = AfterData(0, length)
  BY DEF record
<1>12. frame = Frame("file", <<s, n, record.k>>, Batch[record.k], 1)
  BY <1>11 DEF frame
<1>. QED
  BY <1>3, <1>5, <1>7, <1>9, <1>10, <1>11, <1>12

(* A chunk is what follows what was written of the file, and at least one  *)
(* byte.                                                                   *)
LEMMA SendChunkMoves ==
    ASSUME OriginInv, NEW s \in Sides, NEW n \in Batches(s), SendChunk(s, n)
    PROVE  \E record \in SendWorkers : \E len \in Nat \ {0} : \E frame \in FramesOf(s) :
               /\ Moves(s, n, record) /\ Write(s, frame)
               /\ senders[s][n].pc = "data"
               /\ record.k = senders[s][n].k /\ record.length = senders[s][n].length
               /\ senders[s][n].pos + len <= record.length
               /\ frame = Frame("data", <<s, n, record.k>>, senders[s][n].pos, len)
               /\ record.pos = senders[s][n].pos + len
               /\ record.pc = AfterData(record.pos, record.length)
<1>. DEFINE t == senders[s][n]
            len == Smaller(ChunkSize, t.length - t.pos)
            record == [t EXCEPT !.pos = @ + len, !.pc = AfterData(t.pos + len, t.length)]
            frame == Frame("data", <<s, n, t.k>>, t.pos, len)
<1>1. t \in SendWorkers /\ t.k \in 1..Len(Batch) /\ t.pc = "data" /\ t.pos < t.length
  BY DEF OriginInv, TypeOK, SendWorkers, SenderInv, SendChunk
<1>2. t.pos \in Nat /\ t.length \in Nat /\ t.k \in Nat
  BY <1>1 DEF SendWorkers
<1>3. len \in Nat \ {0} /\ t.pos + len <= t.length
  <2>1. ChunkSize \in Nat \ {0}
    BY TransferAssumption
  <2>2. t.length - t.pos \in Nat \ {0}
    BY <1>1, <1>2
  <2>3. (len = ChunkSize /\ ChunkSize < t.length - t.pos) \/ len = t.length - t.pos
    BY DEF Smaller
  <2>. HIDE DEF t, len
  <2>. QED
    BY <1>2, <2>1, <2>2, <2>3
<1>4. Write(s, frame) /\ Step(s, n, record)
      /\ UNCHANGED <<open, verified, pings, pinged, recv, received, partial, pongs>>
  BY DEF SendChunk
<1>. HIDE DEF len
<1>5. /\ record.pc = AfterData(t.pos + len, t.length) /\ record.k = t.k
      /\ record.pos = t.pos + len /\ record.length = t.length
      /\ record \in SendWorkers
  <2>1. AfterData(t.pos + len, t.length) \in {"data", "checksum"}
    BY DEF AfterData
  <2>2. t.pos + len \in Nat
    BY <1>2, <1>3
  <2>. HIDE DEF t
  <2>3. record \in SendWorkers
    BY <1>1, <2>1, <2>2 DEF SendWorkers
  <2>. QED
    BY <1>1, <2>3 DEF SendWorkers
<1>6. frame \in FramesOf(s)
  BY <1>1, <1>2, <1>3, FilesBySide DEF FramesOf, Frames, Frame, Types
<1>. HIDE DEF record
<1>7. Moves(s, n, record)
  BY <1>1, <1>2, <1>3, <1>4, <1>5 DEF Moves, AfterData
<1>. QED
  BY <1>1, <1>3, <1>4, <1>5, <1>6, <1>7

(* After the checksum of a file comes the header of the next, or "done".   *)
LEMMA SendChecksumMoves ==
    ASSUME OriginInv, NEW s \in Sides, NEW n \in Batches(s), SendChecksum(s, n)
    PROVE  \E record \in SendWorkers : \E frame \in FramesOf(s) :
               /\ Moves(s, n, record) /\ Write(s, frame)
               /\ senders[s][n].pc = "checksum"
               /\ frame = Frame("checksum", <<s, n, senders[s][n].k>>, senders[s][n].length, 1)
               /\ \/ /\ record.pc = "header" /\ record.k = senders[s][n].k + 1
                     /\ senders[s][n].k < Len(Batch)
                  \/ /\ record.pc = "done" /\ record.k = senders[s][n].k
                     /\ senders[s][n].k = Len(Batch)
<1>. DEFINE t == senders[s][n]
            last == t.k = Len(Batch)
            record == [t EXCEPT !.pc = IF last THEN "done" ELSE "header",
                                !.k = IF last THEN @ ELSE @ + 1]
            frame == Frame("checksum", <<s, n, t.k>>, t.length, 1)
<1>1. t \in SendWorkers /\ t.k \in 1..Len(Batch) /\ t.pc = "checksum"
  BY DEF OriginInv, TypeOK, SendWorkers, SenderInv, SendChecksum
<1>2. t.length \in Nat /\ t.k \in Nat /\ Len(Batch) \in Nat
  BY <1>1, BatchSize DEF SendWorkers
<1>3. Write(s, frame) /\ Step(s, n, record)
      /\ UNCHANGED <<open, verified, pings, pinged, recv, received, partial, pongs>>
  BY DEF SendChecksum
<1>4. frame \in FramesOf(s)
  BY <1>1, <1>2, FilesBySide DEF FramesOf, Frames, Frame, Types
<1>5. record \in SendWorkers
  <2>1. (IF last THEN t.k ELSE t.k + 1) \in Nat
    BY <1>2
  <2>2. (IF last THEN "done" ELSE "header") \in {"header", "done"}
    OBVIOUS
  <2>. HIDE DEF t, last
  <2>. QED
    BY <1>1, <2>1, <2>2 DEF SendWorkers
<1>6. \/ record.pc = "header" /\ record.k = t.k + 1 /\ t.k < Len(Batch)
      \/ record.pc = "done" /\ record.k = t.k /\ t.k = Len(Batch)
  BY <1>1, <1>2 DEF SendWorkers
<1>7. Moves(s, n, record)
  BY <1>2, <1>1, <1>3, <1>5, <1>6 DEF Moves
<1>. HIDE DEF record
<1>. QED
  BY <1>1, <1>3, <1>4, <1>5, <1>6, <1>7

(* The last frame of a batch is "done".                                    *)
LEMMA SendDoneMoves ==
    ASSUME OriginInv, NEW s \in Sides, NEW n \in Batches(s), SendDone(s, n)
    PROVE  \E record \in SendWorkers : \E frame \in FramesOf(s) :
               /\ Moves(s, n, record) /\ Write(s, frame)
               /\ frame = Control("done") /\ senders[s][n].pc = "done"
               /\ record.pc = "ended" /\ record.k = senders[s][n].k
<1>. DEFINE record == [senders[s][n] EXCEPT !.pc = "ended"]
<1>1. senders[s][n] \in SendWorkers /\ senders[s][n].k \in 1..Len(Batch)
  BY DEF OriginInv, TypeOK, SendWorkers, SenderInv
<1>2. Control("done") \in FramesOf(s)
  BY DEF FramesOf, Frames, Control, Frame, Types
<1>3. record \in SendWorkers /\ record.pc = "ended" /\ record.k = senders[s][n].k
  BY <1>1 DEF SendWorkers
<1>4. /\ Write(s, Control("done")) /\ Step(s, n, record) /\ senders[s][n].pc = "done"
      /\ UNCHANGED <<open, verified, pings, pinged, recv, received, partial, pongs>>
  BY DEF SendDone
<1>. HIDE DEF record
<1>5. Moves(s, n, record)
  BY <1>1, <1>3, <1>4 DEF Moves
<1>. QED
  BY <1>2, <1>3, <1>4, <1>5

(* A thread that moves keeps the types of everything else.                 *)
LEMMA MovesOrigin ==
    ASSUME OriginInv, NEW s \in Sides, NEW n \in Batches(s), NEW record \in SendWorkers,
           Moves(s, n, record),
           wire' \in [Sides -> Seq(Frames)] /\ WireInv'
    PROVE  OriginInv'
<1>1. DOMAIN senders = Sides /\ \A t \in Sides : senders[t] \in [Batches(t) -> SendWorkers]
  BY DEF OriginInv, TypeOK, SendWorkers
<1>2. /\ DOMAIN senders' = Sides
      /\ \A t \in Sides : senders'[t] \in [Batches(t) -> SendWorkers]
      /\ senders'[s][n] = record
      /\ \A t \in Sides : \A m \in Batches(t) :
            <<t, m>> # <<s, n>> => senders'[t][m] = senders[t][m]
  BY <1>1, StepChanges DEF Moves
<1>3. /\ record.k \in 1..Len(Batch)
      /\ record.pc = "done" => record.k = Len(Batch)
      /\ record.pc = "data" => record.pos < record.length
      /\ UNCHANGED <<open, verified, pings, pinged, recv, received, partial, pongs>>
  BY DEF Moves
<1>4. TypeOK'
  BY <1>2, <1>3 DEF OriginInv, TypeOK, SendWorkers, Batches, Files
<1>5. SenderInv'
  <2>. SUFFICES ASSUME NEW t \in Sides, NEW m \in Batches(t)
                PROVE  /\ senders'[t][m].k \in 1..Len(Batch)
                       /\ senders'[t][m].pc = "done" => senders'[t][m].k = Len(Batch)
                       /\ senders'[t][m].pc = "data" => senders'[t][m].pos < senders'[t][m].length
    BY DEF SenderInv, Batches
  <2>1. CASE <<t, m>> = <<s, n>>
    BY <1>2, <1>3, <2>1
  <2>2. CASE <<t, m>> # <<s, n>>
    BY <1>2, <2>2 DEF OriginInv, SenderInv
  <2>. QED
    BY <2>1, <2>2
<1>6. ReaderInv'
  BY <1>3 DEF OriginInv, ReaderInv, FilesOf, Batches
<1>. QED
  BY <1>4, <1>5, <1>6 DEF OriginInv

(* A step that leaves the send workers alone keeps what is known of them.  *)
LEMMA OthersOrigin ==
    ASSUME OriginInv, UNCHANGED senders,
           wire' \in [Sides -> Seq(Frames)] /\ WireInv',
           recv' \in [Sides -> Readers] /\ ReaderInv',
           open' \in [Sides -> BOOLEAN], verified' \in [Sides -> BOOLEAN],
           pings' \in [Sides -> Nat], pinged' \in [Sides -> Nat], pongs' \in [Sides -> Nat],
           received' \in [Sides -> Seq(Files)], partial' \in [Sides -> SUBSET Files]
    PROVE  OriginInv'
<1>1. TypeOK'
  BY DEF OriginInv, TypeOK, Readers, Batches, Files
<1>2. SenderInv'
  BY DEF OriginInv, SenderInv, Batches
<1>. QED
  BY <1>1, <1>2 DEF OriginInv

(* A reader goes from one record to another.                               *)
LEMMA ReaderGoes ==
    ASSUME OriginInv, NEW s \in Sides, NEW r \in Readers,
           recv' = [recv EXCEPT ![s] = r],
           r.pc \in {"data", "checksum"} => r.file \in FilesOf(Peer(s))
    PROVE  /\ recv' \in [Sides -> Readers] /\ ReaderInv'
           /\ recv'[s] = r /\ recv'[Peer(s)] = recv[Peer(s)]
<1>1. recv \in [Sides -> Readers]
  BY DEF OriginInv, TypeOK, Readers
<1>2. recv' \in [Sides -> Readers] /\ recv'[s] = r
      /\ \A t \in Sides : t # s => recv'[t] = recv[t]
  BY <1>1
<1>3. ReaderInv'
  BY <1>2 DEF OriginInv, ReaderInv, FilesOf, Batches
<1>. QED
  BY <1>2, <1>3, Peers

(* Become changes only where the reader is.                                *)
LEMMA BecomeGoes ==
    ASSUME OriginInv, NEW s \in Sides, NEW pc \in {"header", "pong", "error", "closed"},
           Become(s, pc)
    PROVE  /\ recv' \in [Sides -> Readers] /\ ReaderInv'
           /\ recv'[s].pc = pc /\ recv'[s].file = recv[s].file
           /\ recv'[Peer(s)] = recv[Peer(s)]
<1>1. recv \in [Sides -> Readers]
  BY DEF OriginInv, TypeOK, Readers
<1>2. [recv[s] EXCEPT !.pc = pc] \in Readers
  BY <1>1 DEF Readers
<1>3. recv' = [recv EXCEPT ![s] = [recv[s] EXCEPT !.pc = pc]]
  BY DEF Become
<1>4. [recv[s] EXCEPT !.pc = pc].pc = pc /\ [recv[s] EXCEPT !.pc = pc].file = recv[s].file
  BY <1>1 DEF Readers
<1>. HIDE DEF Readers
<1>. QED
  BY <1>2, <1>3, <1>4, ReaderGoes

(* What reading a header does, by the type of the frame.                   *)
LEMMA ReadHeaderGoes ==
    ASSUME OriginInv, NEW s \in Sides, ReadHeader(s)
    PROVE  /\ Read(s, "header")
           /\ UNCHANGED <<open, verified, senders, pings, pinged, received>>
           /\ \/ /\ Got(s).type = "file"
                 /\ \E r \in Readers :
                       /\ recv' = [recv EXCEPT ![s] = r]
                       /\ r.pc = AfterRead(Got(s).n) /\ r.file = Got(s).file
                       /\ r.remaining = Got(s).n /\ r.got = 0 /\ r.intact
                       /\ r.file \in FilesOf(Peer(s))
                 /\ partial' = [partial EXCEPT ![s] = @ \cup {Got(s).file}]
                 /\ UNCHANGED pongs
              \/ Got(s).type = "ping" /\ Become(s, "pong") /\ UNCHANGED <<partial, pongs>>
              \/ /\ Got(s).type = "pong"
                 /\ pongs' = [pongs EXCEPT ![s] = @ + 1]
                 /\ UNCHANGED <<recv, partial>>
              \/ Got(s).type = "done" /\ UNCHANGED <<recv, partial, pongs>>
              \/ /\ Got(s).type \in {"data", "checksum"}
                 /\ Become(s, "error") /\ UNCHANGED <<partial, pongs>>
<1>1. Read(s, "header") /\ UNCHANGED <<open, verified, senders, pings, pinged, received>>
  BY DEF ReadHeader
<1>2. Got(s) \in FramesOf(Peer(s))
  BY <1>1, ReadTakesHead DEF OriginInv, TypeOK
<1>3. Got(s).type \in Types /\ Got(s).n \in Nat
  BY <1>2 DEF FramesOf, Frames
<1>4. CASE Got(s).type = "file"
  <2>. DEFINE r == [pc |-> AfterRead(Got(s).n), file |-> Got(s).file,
                    remaining |-> Got(s).n, got |-> 0, intact |-> TRUE]
  <2>1. recv' = [recv EXCEPT ![s] = r]
        /\ partial' = [partial EXCEPT ![s] = @ \cup {Got(s).file}] /\ UNCHANGED pongs
    BY <1>4 DEF ReadHeader
  <2>2. Got(s).file \in FilesOf(Peer(s)) /\ Got(s).file \in Files
    BY <1>2, <1>4, FilesBySide, Peers DEF FramesOf
  <2>3. r \in Readers
    BY <1>3, <2>2 DEF Readers, AfterRead
  <2>. QED
    BY <1>1, <1>4, <2>1, <2>2, <2>3
<1>5. CASE Got(s).type = "ping"
  BY <1>1, <1>5 DEF ReadHeader
<1>6. CASE Got(s).type = "pong"
  BY <1>1, <1>6 DEF ReadHeader
<1>7. CASE Got(s).type = "done"
  BY <1>1, <1>7 DEF ReadHeader
<1>8. CASE Got(s).type \in {"data", "checksum"}
  BY <1>1, <1>8 DEF ReadHeader
<1>. QED
  BY <1>3, <1>4, <1>5, <1>6, <1>7, <1>8 DEF Types

(* What reading data does: the reader stays at its file until no byte of   *)
(* it remains.                                                             *)
LEMMA ReadDataGoes ==
    ASSUME OriginInv, NEW s \in Sides, ReadData(s)
    PROVE  /\ Read(s, "data")
           /\ UNCHANGED <<open, verified, senders, pings, pinged, received, partial, pongs>>
           /\ recv[s].file \in FilesOf(Peer(s))
           /\ \E r \in Readers :
                 /\ recv' = [recv EXCEPT ![s] = r]
                 /\ r.remaining = recv[s].remaining - Got(s).len
                 /\ r.pc = AfterRead(r.remaining)
                 /\ r.file = recv[s].file /\ r.got = recv[s].got + Got(s).len
                 /\ r.intact = (/\ recv[s].intact /\ Got(s).type = "data"
                                /\ Got(s).file = recv[s].file /\ Got(s).n = recv[s].got)
<1>. DEFINE left == recv[s].remaining - Got(s).len
            whole == /\ recv[s].intact /\ Got(s).type = "data"
                     /\ Got(s).file = recv[s].file /\ Got(s).n = recv[s].got
            r == [recv[s] EXCEPT !.remaining = left, !.got = @ + Got(s).len,
                                 !.pc = AfterRead(left), !.intact = whole]
<1>1. Read(s, "data") /\ recv' = [recv EXCEPT ![s] = r]
      /\ UNCHANGED <<open, verified, senders, pings, pinged, received, partial, pongs>>
  BY DEF ReadData
<1>2. Got(s) \in FramesOf(Peer(s))
  BY <1>1, ReadTakesHead DEF OriginInv, TypeOK
<1>3. Got(s).len \in Nat
  BY <1>2 DEF FramesOf, Frames
<1>4. recv[s] \in Readers /\ recv[s].pc = "data"
  BY <1>1 DEF OriginInv, TypeOK, Readers, Read
<1>5. left \in Int /\ recv[s].got + Got(s).len \in Nat
  BY <1>3, <1>4 DEF Readers
<1>6. whole \in BOOLEAN /\ AfterRead(left) \in {"data", "checksum"}
  BY DEF AfterRead
<1>7. recv[s].file \in FilesOf(Peer(s))
  BY <1>4 DEF OriginInv, ReaderInv
<1>. HIDE DEF left, whole
<1>8. /\ r \in Readers
      /\ r.remaining = left /\ r.got = recv[s].got + Got(s).len /\ r.pc = AfterRead(left)
      /\ r.intact = whole /\ r.file = recv[s].file
  BY <1>4, <1>5, <1>6 DEF Readers
<1>. HIDE DEF r
<1>. QED
  BY <1>1, <1>7, <1>8 DEF left, whole

(* What reading a checksum does: the file is accepted, removed, or left.   *)
LEMMA ReadChecksumGoes ==
    ASSUME OriginInv, NEW s \in Sides, ReadChecksum(s)
    PROVE  /\ Read(s, "checksum")
           /\ UNCHANGED <<open, verified, senders, pings, pinged, pongs>>
           /\ recv[s].file \in FilesOf(Peer(s)) /\ recv[s].file \in Files
           /\ \/ /\ Got(s).type = "checksum" /\ SameDigest(recv[s], Got(s))
                 /\ received' = [received EXCEPT ![s] = Append(@, recv[s].file)]
                 /\ partial' = [partial EXCEPT ![s] = @ \ {recv[s].file}]
                 /\ Become(s, "header")
              \/ /\ ~(Got(s).type = "checksum" /\ SameDigest(recv[s], Got(s)))
                 /\ partial' \in {partial, [partial EXCEPT ![s] = @ \ {recv[s].file}]}
                 /\ Become(s, "error")
                 /\ UNCHANGED received
<1>1. Read(s, "checksum") /\ UNCHANGED <<open, verified, senders, pings, pinged, pongs>>
  BY DEF ReadChecksum
<1>2. recv[s].file \in FilesOf(Peer(s)) /\ recv[s].file \in Files
  BY <1>1, FilesBySide, Peers DEF Read, OriginInv, ReaderInv
<1>3. CASE Got(s).type = "checksum" /\ SameDigest(recv[s], Got(s))
  BY <1>1, <1>2, <1>3 DEF ReadChecksum
<1>4. CASE Got(s).type = "checksum" /\ ~SameDigest(recv[s], Got(s))
  BY <1>1, <1>2, <1>4 DEF ReadChecksum
<1>5. CASE Got(s).type # "checksum"
  BY <1>1, <1>2, <1>5 DEF ReadChecksum
<1>. QED
  BY <1>3, <1>4, <1>5

(* The send workers.                                                       *)
LEMMA SendWorkerOrigin ==
    ASSUME OriginInv, NEW s \in Sides, NEW n \in Batches(s),
           on_send_files(s, n) \/ SendWorker(s, n)
    PROVE  OriginInv'
<1>1. wire \in [Sides -> Seq(Frames)] /\ WireInv
  BY DEF OriginInv, TypeOK
<1>2. CASE on_send_files(s, n) \/ SendFails(s, n)
  <2>1. PICK record \in SendWorkers : Moves(s, n, record) /\ UNCHANGED wire
    BY <1>2, StartOrFailMoves
  <2>2. wire' \in [Sides -> Seq(Frames)] /\ WireInv'
    BY <1>1, <2>1 DEF WireInv, FramesOf, FilesOf, Batches, Frames, Files
  <2>. QED
    BY <2>1, <2>2, MovesOrigin
<1>3. CASE SendHeader(s, n) \/ SendChunk(s, n) \/ SendChecksum(s, n) \/ SendDone(s, n)
  <2>1. PICK record \in SendWorkers : \E frame \in FramesOf(s) :
            Moves(s, n, record) /\ Write(s, frame)
    <3>1. CASE SendHeader(s, n)
      BY <3>1, SendHeaderMoves
    <3>2. CASE SendChunk(s, n)
      BY <3>2, SendChunkMoves
    <3>3. CASE SendChecksum(s, n)
      BY <3>3, SendChecksumMoves
    <3>4. CASE SendDone(s, n)
      BY <3>4, SendDoneMoves
    <3>. QED
      BY <1>3, <3>1, <3>2, <3>3, <3>4
  <2>2. wire' \in [Sides -> Seq(Frames)] /\ WireInv'
    BY <1>1, <2>1, WriteAppends
  <2>. QED
    BY <2>1, <2>2, MovesOrigin
<1>. QED
  BY <1>2, <1>3 DEF SendWorker

(* When nothing is written or read, the frames stay what they are.         *)
LEMMA SameWire ==
    ASSUME OriginInv, UNCHANGED wire
    PROVE  wire' \in [Sides -> Seq(Frames)] /\ WireInv'
BY DEF OriginInv, TypeOK, WireInv, FramesOf, FilesOf, Batches, Frames, Files

(* So do the readers when none of them moves.                              *)
LEMMA SameReaders ==
    ASSUME OriginInv, UNCHANGED recv
    PROVE  recv' \in [Sides -> Readers] /\ ReaderInv'
BY DEF OriginInv, TypeOK, ReaderInv, Readers, FilesOf, Batches, Files

(* Pings and pongs are frames about no file.                               *)
LEMMA ControlFrames ==
    \A s \in Sides : Control("ping") \in FramesOf(s) /\ Control("pong") \in FramesOf(s)
BY DEF FramesOf, Frames, Control, Frame, Types

(* The channel test.                                                       *)
LEMMA PingOrigin ==
    ASSUME OriginInv, NEW s \in Sides, on_test_channel(s) \/ PingWorker(s)
    PROVE  OriginInv'
<1>1. recv' \in [Sides -> Readers] /\ ReaderInv'
  BY SameReaders DEF on_test_channel, PingWorker
<1>2. UNCHANGED <<open, verified, senders, received, partial, pongs>>
  BY DEF on_test_channel, PingWorker
<1>3. wire' \in [Sides -> Seq(Frames)] /\ WireInv'
  <2>1. UNCHANGED wire \/ Write(s, Control("ping"))
    BY DEF on_test_channel, PingWorker
  <2>. QED
    BY <2>1, SameWire, WriteAppends, ControlFrames DEF OriginInv, TypeOK
<1>4. pings' \in [Sides -> Nat] /\ pinged' \in [Sides -> Nat]
  <2>1. pings \in [Sides -> Nat] /\ pinged \in [Sides -> Nat]
    BY DEF OriginInv, TypeOK
  <2>2. CASE on_test_channel(s)
    BY <2>1, <2>2 DEF on_test_channel
  <2>3. CASE PingWorker(s)
    <3>1. pings[s] > 0 /\ pings' = [pings EXCEPT ![s] = @ - 1] /\ UNCHANGED pinged
      BY <2>3 DEF PingWorker
    <3>2. pings[s] - 1 \in Nat
      BY <2>1, <3>1
    <3>. QED
      BY <2>1, <3>1, <3>2
  <2>. QED
    BY <2>2, <2>3
<1>5. /\ open' \in [Sides -> BOOLEAN] /\ verified' \in [Sides -> BOOLEAN]
      /\ received' \in [Sides -> Seq(Files)] /\ partial' \in [Sides -> SUBSET Files]
      /\ pongs' \in [Sides -> Nat]
  BY <1>2 DEF OriginInv, TypeOK, Files, Batches
<1>. QED
  BY <1>1, <1>2, <1>3, <1>4, <1>5, OthersOrigin

(* The reader.                                                             *)
LEMMA ReaderOrigin ==
    ASSUME OriginInv, NEW s \in Sides, ReceiveWorker(s)
    PROVE  OriginInv'
<1>1. /\ wire \in [Sides -> Seq(Frames)] /\ WireInv
      /\ open \in [Sides -> BOOLEAN] /\ verified \in [Sides -> BOOLEAN]
      /\ pings \in [Sides -> Nat] /\ pinged \in [Sides -> Nat] /\ pongs \in [Sides -> Nat]
      /\ received \in [Sides -> Seq(Files)] /\ partial \in [Sides -> SUBSET Files]
  BY DEF OriginInv, TypeOK
<1>2. UNCHANGED <<open, verified, senders, pings, pinged>>
  BY DEF ReceiveWorker, ReadHeader, ReadData, ReadChecksum, AnswerPing, ReadFails
<1>3. CASE ReadHeader(s)
  <2>1. wire' \in [Sides -> Seq(Frames)] /\ WireInv' /\ Got(s) \in FramesOf(Peer(s))
    BY <1>1, <1>3, ReadHeaderGoes, ReadTakesHead
  <2>2. recv' \in [Sides -> Readers] /\ ReaderInv'
    BY <1>3, ReadHeaderGoes, ReaderGoes, BecomeGoes, SameReaders
  <2>3. UNCHANGED received
    BY <1>3, ReadHeaderGoes
  <2>4. partial' \in [Sides -> SUBSET Files]
    <3>1. CASE Got(s).type = "file"
      <4>1. partial' = [partial EXCEPT ![s] = @ \cup {Got(s).file}]
        BY <1>3, <3>1, ReadHeaderGoes
      <4>2. Got(s).file \in Files
        BY <2>1, <3>1, FilesBySide, Peers DEF FramesOf
      <4>. QED
        BY <1>1, <4>1, <4>2 DEF Files, Batches
    <3>2. CASE Got(s).type # "file"
      BY <1>1, <1>3, <3>2, ReadHeaderGoes DEF Files, Batches
    <3>. QED
      BY <3>1, <3>2
  <2>5. pongs' \in [Sides -> Nat]
    <3>1. UNCHANGED pongs \/ pongs' = [pongs EXCEPT ![s] = @ + 1]
      BY <1>3, ReadHeaderGoes
    <3>2. pongs \in [Sides -> Nat] /\ pongs[s] + 1 \in Nat
      BY <1>1
    <3>. QED
      BY <3>1, <3>2
  <2>. QED
    BY <1>1, <1>2, <2>1, <2>2, <2>3, <2>4, <2>5, OthersOrigin DEF Files, Batches
<1>4. CASE ReadData(s)
  <2>1. wire' \in [Sides -> Seq(Frames)] /\ WireInv'
    BY <1>1, <1>4, ReadDataGoes, ReadTakesHead
  <2>2. recv' \in [Sides -> Readers] /\ ReaderInv'
    BY <1>4, ReadDataGoes, ReaderGoes
  <2>3. UNCHANGED <<received, partial, pongs>>
    BY <1>4, ReadDataGoes
  <2>. QED
    BY <1>1, <1>2, <2>1, <2>2, <2>3, OthersOrigin DEF Files, Batches
<1>5. CASE ReadChecksum(s)
  <2>1. wire' \in [Sides -> Seq(Frames)] /\ WireInv'
    BY <1>1, <1>5, ReadChecksumGoes, ReadTakesHead
  <2>2. recv' \in [Sides -> Readers] /\ ReaderInv'
    BY <1>5, ReadChecksumGoes, BecomeGoes
  <2>3. UNCHANGED pongs /\ recv[s].file \in Files
    BY <1>5, ReadChecksumGoes
  <2>4. partial' \in [Sides -> SUBSET Files]
    <3>1. partial' \in {partial, [partial EXCEPT ![s] = @ \ {recv[s].file}]}
      BY <1>5, ReadChecksumGoes
    <3>2. partial[s] \ {recv[s].file} \in SUBSET Files
      BY <1>1
    <3>. QED
      BY <1>1, <3>1, <3>2 DEF Files, Batches
  <2>5. received' \in [Sides -> Seq(Files)]
    <3>1. UNCHANGED received \/ received' = [received EXCEPT ![s] = Append(@, recv[s].file)]
      BY <1>5, ReadChecksumGoes
    <3>2. Append(received[s], recv[s].file) \in Seq(Files)
      BY <1>1, <2>3, AppendProperties
    <3>. QED
      BY <1>1, <3>1, <3>2 DEF Files, Batches
  <2>. QED
    BY <1>1, <1>2, <2>1, <2>2, <2>3, <2>4, <2>5, OthersOrigin DEF Files, Batches
<1>6. CASE AnswerPing(s)
  <2>1. \/ Write(s, Control("pong")) /\ Become(s, "header")
        \/ Become(s, "error") /\ UNCHANGED wire
    BY <1>6 DEF AnswerPing
  <2>2. wire' \in [Sides -> Seq(Frames)] /\ WireInv'
    BY <1>1, <2>1, SameWire, WriteAppends, ControlFrames
  <2>3. recv' \in [Sides -> Readers] /\ ReaderInv'
    BY <2>1, BecomeGoes
  <2>4. UNCHANGED <<received, partial, pongs>>
    BY <1>6 DEF AnswerPing
  <2>. QED
    BY <1>1, <1>2, <2>2, <2>3, <2>4, OthersOrigin DEF Files, Batches
<1>7. CASE ReadFails(s)
  <2>1. Become(s, "closed") /\ UNCHANGED <<wire, received, partial, pongs>>
    BY <1>7 DEF ReadFails
  <2>2. recv' \in [Sides -> Readers] /\ ReaderInv'
    BY <2>1, BecomeGoes
  <2>. QED
    BY <1>1, <1>2, <2>1, <2>2, SameWire, OthersOrigin DEF Files, Batches
<1>. QED
  BY <1>3, <1>4, <1>5, <1>6, <1>7 DEF ReceiveWorker

(* The end of a channel, for one side and for its user.                    *)
LEMMA EndOrigin ==
    ASSUME OriginInv, NEW s \in Sides, HandleReceiveStopped(s) \/ Close(s)
    PROVE  OriginInv'
<1>1. /\ wire \in [Sides -> Seq(Frames)] /\ WireInv
      /\ open \in [Sides -> BOOLEAN] /\ verified \in [Sides -> BOOLEAN]
      /\ pings \in [Sides -> Nat] /\ pinged \in [Sides -> Nat] /\ pongs \in [Sides -> Nat]
      /\ received \in [Sides -> Seq(Files)] /\ partial \in [Sides -> SUBSET Files]
  BY DEF OriginInv, TypeOK
<1>2. UNCHANGED <<senders, pings, pinged, recv, received, partial, pongs>>
  BY DEF HandleReceiveStopped, Close
<1>3. recv' \in [Sides -> Readers] /\ ReaderInv'
  BY <1>2, SameReaders
<1>4. open' \in [Sides -> BOOLEAN] /\ verified' \in [Sides -> BOOLEAN]
  BY <1>1 DEF HandleReceiveStopped, Close
<1>5. wire' \in [Sides -> Seq(Frames)] /\ WireInv'
  BY <1>1, SameWire, CloseCuts DEF HandleReceiveStopped, Close
<1>. QED
  BY <1>1, <1>2, <1>3, <1>4, <1>5, OthersOrigin DEF Files, Batches

(* Nothing changes in a stuttering step.                                   *)
LEMMA SameOrigin ==
    ASSUME OriginInv, UNCHANGED vars
    PROVE  OriginInv'
BY SameWire, SameReaders, OthersOrigin
   DEF vars, OriginInv, TypeOK, Files, Batches

(* No step writes a frame or opens a file of unknown origin.               *)
LEMMA StepOrigin == OriginInv /\ [Next]_vars => OriginInv'
<1>. SUFFICES ASSUME OriginInv, [Next]_vars PROVE OriginInv'
  OBVIOUS
<1>1. ASSUME NEW s \in Sides, NEW n \in Batches(s), on_send_files(s, n) \/ SendWorker(s, n)
      PROVE  OriginInv'
  BY <1>1, SendWorkerOrigin
<1>2. ASSUME NEW s \in Sides, on_test_channel(s) \/ PingWorker(s)
      PROVE  OriginInv'
  BY <1>2, PingOrigin
<1>3. ASSUME NEW s \in Sides, ReceiveWorker(s) \/ HandleReceiveStopped(s) \/ Close(s)
      PROVE  OriginInv'
  BY <1>3, ReaderOrigin, EndOrigin
<1>4. CASE Rest \/ UNCHANGED vars
  BY <1>4, SameOrigin DEF Rest
<1>. QED
  BY <1>1, <1>2, <1>3, <1>4 DEF Next

(* Every frame about a file is about a file of its writer, every reader in *)
(* the middle of a file is at one of its peer, and every thread that sends *)
(* is at a file of its batch.                                              *)
THEOREM OriginInvariant == Spec => []OriginInv
BY InitOrigin, StepOrigin, PTL DEF Spec

(* The variables keep their types.                                         *)
THEOREM TypeCorrect == Spec => []TypeOK
<1>1. OriginInv => TypeOK
  BY DEF OriginInv
<1>. QED
  BY <1>1, OriginInvariant, PTL

-----------------------------------------------------------------------------
(***************************************************************************)
(* No file is left half-written without a warning.                         *)
(***************************************************************************)

(* The file on the disk that is not accepted is the one being received;    *)
(* when the reader is between two files there is none.                     *)
LEMMA StepPartial == OriginInv /\ NoSilentPartialFile /\ [Next]_vars => NoSilentPartialFile'
<1>. SUFFICES ASSUME OriginInv, NoSilentPartialFile, [Next]_vars PROVE NoSilentPartialFile'
  OBVIOUS
<1>1. partial \in [Sides -> SUBSET Files] /\ recv \in [Sides -> Readers]
  BY DEF OriginInv, TypeOK, Readers
<1>2. CASE UNCHANGED <<recv, partial>>
  BY <1>2 DEF NoSilentPartialFile
<1>3. ASSUME NEW s \in Sides, NEW n \in Batches(s), on_send_files(s, n) \/ SendWorker(s, n)
      PROVE  UNCHANGED <<recv, partial>>
  BY <1>3 DEF on_send_files, SendWorker, SendHeader, SendChunk, SendChecksum, SendDone, SendFails
<1>4. ASSUME NEW s \in Sides, on_test_channel(s) \/ PingWorker(s) \/ HandleReceiveStopped(s)
                              \/ Close(s)
      PROVE  UNCHANGED <<recv, partial>>
  BY <1>4 DEF on_test_channel, PingWorker, HandleReceiveStopped, Close
<1>5. ASSUME NEW s \in Sides, ReceiveWorker(s)
      PROVE  NoSilentPartialFile'
  <2>. SUFFICES /\ recv'[s].pc \in {"header", "pong"} => partial'[s] = {}
                /\ partial'[s] \subseteq {recv'[s].file}
                /\ recv'[Peer(s)] = recv[Peer(s)] /\ partial'[Peer(s)] = partial[Peer(s)]
    BY Peers DEF NoSilentPartialFile
  <2>1. CASE ReadHeader(s)
    <3>1. recv[s].pc = "header" /\ partial[s] = {}
      BY <2>1, ReadHeaderGoes DEF Read, NoSilentPartialFile
    <3>2. CASE Got(s).type = "file"
      <4>1. PICK r \in Readers : /\ recv' = [recv EXCEPT ![s] = r]
                                 /\ r.pc = AfterRead(Got(s).n) /\ r.file = Got(s).file
                                 /\ partial' = [partial EXCEPT ![s] = @ \cup {Got(s).file}]
                                 /\ r.file \in FilesOf(Peer(s))
        BY <2>1, <3>2, ReadHeaderGoes
      <4>2. partial'[s] = {Got(s).file} /\ partial'[Peer(s)] = partial[Peer(s)]
        BY <1>1, <3>1, <4>1, Peers
      <4>3. recv'[s] = r /\ recv'[Peer(s)] = recv[Peer(s)]
        BY <4>1, ReaderGoes
      <4>. QED
        BY <4>1, <4>2, <4>3 DEF AfterRead
    <3>3. CASE Got(s).type # "file"
      <4>1. UNCHANGED partial /\ (Become(s, "pong") \/ Become(s, "error") \/ UNCHANGED recv)
        BY <2>1, <3>3, ReadHeaderGoes
      <4>. QED
        BY <3>1, <4>1, BecomeGoes
    <3>. QED
      BY <3>2, <3>3
  <2>2. CASE ReadData(s)
    <3>1. PICK r \in Readers : /\ recv' = [recv EXCEPT ![s] = r]
                               /\ r.pc = AfterRead(r.remaining) /\ r.file = recv[s].file
                               /\ r.file \in FilesOf(Peer(s)) /\ UNCHANGED partial
      BY <2>2, ReadDataGoes
    <3>2. recv'[s] = r /\ recv'[Peer(s)] = recv[Peer(s)]
      BY <3>1, ReaderGoes
    <3>. QED
      BY <3>1, <3>2 DEF AfterRead, NoSilentPartialFile
  <2>3. CASE ReadChecksum(s)
    <3>1. partial[s] \subseteq {recv[s].file}
      BY DEF NoSilentPartialFile
    <3>2. CASE Become(s, "header") /\ partial' = [partial EXCEPT ![s] = @ \ {recv[s].file}]
      BY <1>1, <3>1, <3>2, BecomeGoes, Peers
    <3>3. CASE /\ Become(s, "error")
               /\ partial' \in {partial, [partial EXCEPT ![s] = @ \ {recv[s].file}]}
      BY <1>1, <3>1, <3>3, BecomeGoes, Peers
    <3>. QED
      BY <2>3, <3>2, <3>3, ReadChecksumGoes
  <2>4. CASE AnswerPing(s)
    <3>1. /\ recv[s].pc = "pong" /\ UNCHANGED partial
          /\ Become(s, "header") \/ Become(s, "error")
      BY <2>4 DEF AnswerPing
    <3>. QED
      BY <3>1, BecomeGoes DEF NoSilentPartialFile
  <2>5. CASE ReadFails(s)
    <3>1. Become(s, "closed") /\ UNCHANGED partial
      BY <2>5 DEF ReadFails
    <3>. QED
      BY <3>1, BecomeGoes DEF NoSilentPartialFile
  <2>. QED
    BY <1>5, <2>1, <2>2, <2>3, <2>4, <2>5 DEF ReceiveWorker
<1>. QED
  BY <1>2, <1>3, <1>4, <1>5 DEF Next, Rest, vars

(* The docstring of receive_files: an unaccepted file is on the disk only  *)
(* while it is being received or after the reader has stopped.             *)
THEOREM PartialFilesAreSeen == Spec => []NoSilentPartialFile
<1>1. Init => NoSilentPartialFile
  BY DEF Init, NoSilentPartialFile
<1>. QED
  BY <1>1, StepPartial, OriginInvariant, PTL DEF Spec

-----------------------------------------------------------------------------
(***************************************************************************)
(* Pongs are answers: every pong goes back to one click on the test.       *)
(***************************************************************************)

Positions(q, type) == {k \in 1..Len(q) : q[k].type = type}

Count(q, type) == Cardinality(Positions(q, type))

Answering(s) == IF recv[s].pc = "pong" THEN 1 ELSE 0

(* A test of side s is a thread that has yet to write, then a ping on the  *)
(* wire, then an answer the peer is about to write, then a pong on the     *)
(* wire, then a pong reported; or it is lost.                              *)
Tests(s) == pings[s] + Count(wire[s], "ping") + Answering(Peer(s))
            + Count(wire[Peer(s)], "pong") + pongs[s]

TestsInv == \A s \in Sides : Tests(s) <= pinged[s]

(* The frames of a type are finitely many.                                 *)
LEMMA CountIsNat ==
    ASSUME NEW q \in Seq(Frames), NEW type
    PROVE  IsFiniteSet(Positions(q, type)) /\ Count(q, type) \in Nat
<1>1. Len(q) \in Nat /\ IsFiniteSet(1..Len(q))
  BY LenProperties, FS_Interval
<1>2. IsFiniteSet(Positions(q, type))
  BY <1>1, FS_Subset DEF Positions
<1>. QED
  BY <1>2, FS_CardinalityType DEF Count

(* Of an empty sequence there are none.                                    *)
LEMMA CountEmpty == \A type : Count(<< >>, type) = 0
<1>1. \A type : Positions(<< >>, type) = {}
  BY EmptySeq DEF Positions
<1>. QED
  BY <1>1, FS_EmptySet DEF Count

(* A frame that is written is one more of its type.                        *)
LEMMA CountAppend ==
    ASSUME NEW q \in Seq(Frames), NEW frame \in Frames, NEW type
    PROVE  Count(Append(q, frame), type) =
               Count(q, type) + (IF frame.type = type THEN 1 ELSE 0)
<1>. DEFINE a == Append(q, frame)
<1>1. /\ Len(q) \in Nat /\ Len(a) = Len(q) + 1 /\ a[Len(q) + 1] = frame
      /\ \A k \in 1..Len(q) : a[k] = q[k]
  BY AppendProperties, LenProperties
<1>2. IsFiniteSet(Positions(q, type)) /\ Count(q, type) \in Nat
  BY CountIsNat
<1>3. 1..Len(a) = (1..Len(q)) \cup {Len(q) + 1} /\ Len(q) + 1 \notin Positions(q, type)
  BY <1>1 DEF Positions
<1>. HIDE DEF a
<1>4. CASE frame.type = type
  <2>1. Positions(a, type) = Positions(q, type) \cup {Len(q) + 1}
    BY <1>1, <1>3, <1>4 DEF Positions
  <2>. QED
    BY <1>2, <1>3, <1>4, <2>1, FS_AddElement DEF Count, a
<1>5. CASE frame.type # type
  <2>1. Positions(a, type) = Positions(q, type)
    BY <1>1, <1>3, <1>5 DEF Positions
  <2>. QED
    BY <1>2, <1>5, <2>1 DEF Count, a
<1>. QED
  BY <1>4, <1>5

(* A frame that is read is one less of its type.                           *)
LEMMA CountTail ==
    ASSUME NEW q \in Seq(Frames), q # << >>, NEW type
    PROVE  Count(Tail(q), type) = Count(q, type) - (IF Head(q).type = type THEN 1 ELSE 0)
<1>. DEFINE a == Tail(q)
            f == [k \in Positions(a, type) |-> k + 1]
            rest == Positions(q, type) \ {1}
<1>1. /\ a \in Seq(Frames) /\ Len(q) \in Nat \ {0} /\ Len(a) = Len(q) - 1
      /\ \A k \in 1..Len(a) : a[k] = q[k + 1]
      /\ Head(q) = q[1]
  BY HeadTailProperties, EmptySeq, LenProperties
<1>2. /\ IsFiniteSet(Positions(q, type)) /\ IsFiniteSet(Positions(a, type))
      /\ Count(q, type) \in Nat
  BY <1>1, CountIsNat
<1>. HIDE DEF a
<1>3. f \in [Positions(a, type) -> rest]
  BY <1>1 DEF Positions
<1>4. \A j, k \in Positions(a, type) : f[j] = f[k] => j = k
  BY <1>1 DEF Positions
<1>5. \A k \in rest : k - 1 \in Positions(a, type) /\ f[k - 1] = k
  <2>. SUFFICES ASSUME NEW k \in rest PROVE k - 1 \in Positions(a, type) /\ (k - 1) + 1 = k
    OBVIOUS
  <2>1. k \in 1..Len(q) /\ k # 1 /\ q[k].type = type
    BY DEF Positions
  <2>2. k - 1 \in 1..Len(a) /\ (k - 1) + 1 = k
    BY <1>1, <2>1
  <2>3. a[k - 1] = q[k]
    BY <1>1, <2>2
  <2>. QED
    BY <2>1, <2>2, <2>3 DEF Positions
<1>. HIDE DEF f, rest
<1>6. f \in Bijection(Positions(a, type), rest)
  <2>1. \A k \in rest : \E j \in Positions(a, type) : f[j] = k
    BY <1>5
  <2>. QED
    BY <1>3, <1>4, <2>1 DEF Bijection, Injection, Surjection, IsInjective
<1>7. Cardinality(rest) = Count(a, type)
  BY <1>2, <1>6, FS_Bijection DEF ExistsBijection, Count
<1>8. Cardinality(rest) = IF 1 \in Positions(q, type) THEN Count(q, type) - 1 ELSE Count(q, type)
  BY <1>2, FS_RemoveElement DEF Count, rest
<1>9. 1 \in Positions(q, type) <=> Head(q).type = type
  BY <1>1 DEF Positions
<1>. QED
  BY <1>2, <1>7, <1>8, <1>9 DEF a

(* What is cut off takes frames away, and adds none.                       *)
LEMMA CountCut ==
    ASSUME NEW q \in Seq(Frames), NEW n \in 0..Len(q), NEW type
    PROVE  Count(SubSeq(q, 1, n), type) \in Nat
           /\ Count(SubSeq(q, 1, n), type) <= Count(q, type)
<1>. DEFINE a == SubSeq(q, 1, n)
<1>1. Len(q) \in Nat /\ IsFiniteSet(Positions(q, type))
  BY CountIsNat, LenProperties
<1>2. \A i \in 1..n : i \in 1..Len(q)
  BY <1>1
<1>3. a \in Seq(Frames) /\ Len(a) = n /\ \A i \in 1..n : a[i] = q[i]
  BY <1>1, <1>2, SubSeqProperties
<1>. HIDE DEF a
<1>4. Positions(a, type) \subseteq Positions(q, type)
  BY <1>2, <1>3 DEF Positions
<1>5. Count(a, type) \in Nat
  BY <1>3, CountIsNat
<1>. QED
  BY <1>1, <1>4, <1>5, FS_Subset DEF Count, a

(* The terms of Tests.                                                     *)
LEMMA TestsTypes ==
    ASSUME OriginInv, NEW s \in Sides
    PROVE  /\ pings[s] \in Nat /\ pinged[s] \in Nat /\ pongs[s] \in Nat
           /\ Answering(s) \in {0, 1}
           /\ \A type : Count(wire[s], type) \in Nat
BY CountIsNat DEF OriginInv, TypeOK, Answering

(* Nothing about the tests changes.                                        *)
LEMMA SameTests ==
    ASSUME TestsInv, UNCHANGED <<pings, pinged, pongs>>,
           \A s \in Sides : Answering(s)' = Answering(s)
                            /\ Count(wire'[s], "ping") = Count(wire[s], "ping")
                            /\ Count(wire'[s], "pong") = Count(wire[s], "pong")
    PROVE  TestsInv'
BY Peers DEF TestsInv, Tests

(* The frames of a batch are neither pings nor pongs.                      *)
LEMMA SendWorkerTests ==
    ASSUME OriginInv, TestsInv, NEW s \in Sides, NEW n \in Batches(s),
           on_send_files(s, n) \/ SendWorker(s, n)
    PROVE  TestsInv'
<1>1. UNCHANGED <<recv, pings, pinged, pongs>>
  BY DEF on_send_files, SendWorker, SendHeader, SendChunk, SendChecksum, SendDone, SendFails
<1>2. \/ UNCHANGED wire
      \/ \E frame \in FramesOf(s) : Write(s, frame) /\ frame.type \notin {"ping", "pong"}
  <2>1. CASE on_send_files(s, n) \/ SendFails(s, n)
    BY <2>1 DEF on_send_files, SendFails
  <2>2. CASE SendHeader(s, n)
    <3>1. PICK record \in SendWorkers : \E frame \in FramesOf(s) :
              /\ frame = Frame("file", <<s, n, record.k>>, Batch[record.k], 1)
              /\ Write(s, frame)
      BY <2>2, SendHeaderMoves
    <3>. QED
      BY <3>1 DEF Frame
  <2>3. CASE SendChunk(s, n)
    <3>1. PICK record \in SendWorkers : \E len \in Nat \ {0} : \E frame \in FramesOf(s) :
              /\ frame = Frame("data", <<s, n, record.k>>, senders[s][n].pos, len)
              /\ Write(s, frame)
      BY <2>3, SendChunkMoves
    <3>. QED
      BY <3>1 DEF Frame
  <2>4. CASE SendChecksum(s, n)
    <3>1. \E frame \in FramesOf(s) :
              /\ frame = Frame("checksum", <<s, n, senders[s][n].k>>, senders[s][n].length, 1)
              /\ Write(s, frame)
      BY <2>4, SendChecksumMoves
    <3>. QED
      BY <3>1 DEF Frame
  <2>5. CASE SendDone(s, n)
    <3>1. \E frame \in FramesOf(s) : frame = Control("done") /\ Write(s, frame)
      BY <2>5, SendDoneMoves
    <3>. QED
      BY <3>1 DEF Control, Frame
  <2>. QED
    BY <2>1, <2>2, <2>3, <2>4, <2>5 DEF SendWorker
<1>3. \A t \in Sides : Answering(t)' = Answering(t)
  BY <1>1 DEF Answering
<1>4. CASE UNCHANGED wire
  BY <1>1, <1>3, <1>4, SameTests
<1>5. ASSUME NEW frame \in FramesOf(s), Write(s, frame), frame.type \notin {"ping", "pong"}
      PROVE  TestsInv'
  <2>1. wire'[s] = Append(wire[s], frame) /\ wire'[Peer(s)] = wire[Peer(s)]
    BY <1>5, WriteAppends DEF OriginInv, TypeOK
  <2>2. wire[s] \in Seq(Frames) /\ frame \in Frames
    BY DEF OriginInv, TypeOK, FramesOf
  <2>3. \A type : Count(wire'[s], type) =
            Count(wire[s], type) + (IF frame.type = type THEN 1 ELSE 0)
    BY <2>1, <2>2, CountAppend
  <2>4. /\ Count(wire'[s], "ping") = Count(wire[s], "ping")
        /\ Count(wire'[s], "pong") = Count(wire[s], "pong")
    BY <1>5, <2>3, TestsTypes
  <2>5. \A t \in Sides : t = s \/ t = Peer(s)
    BY Peers
  <2>. QED
    BY <1>1, <1>3, <2>1, <2>4, <2>5, SameTests
<1>. QED
  BY <1>2, <1>4, <1>5

(* A click, and the ping it writes.                                        *)
LEMMA PingTests ==
    ASSUME OriginInv, TestsInv, NEW s \in Sides, on_test_channel(s) \/ PingWorker(s)
    PROVE  TestsInv'
<1>. DEFINE p == Peer(s)
<1>1. p \in Sides /\ p # s /\ Peer(p) = s /\ Sides = {s, p}
  BY Peers
<1>2. /\ pings \in [Sides -> Nat] /\ pinged \in [Sides -> Nat]
      /\ UNCHANGED <<recv, pongs>>
  BY DEF OriginInv, TypeOK, on_test_channel, PingWorker
<1>3. Answering(s)' = Answering(s) /\ Answering(p)' = Answering(p)
  BY <1>2 DEF Answering
<1>4. /\ Tests(s) = pings[s] + Count(wire[s], "ping") + Answering(p)
                    + Count(wire[p], "pong") + pongs[s]
      /\ Tests(s) <= pinged[s]
      /\ Tests(p) = pings[p] + Count(wire[p], "ping") + Answering(s)
                    + Count(wire[s], "pong") + pongs[p]
      /\ Tests(p) <= pinged[p]
  BY <1>1 DEF TestsInv, Tests
<1>5. /\ Tests(s)' = pings'[s] + Count(wire'[s], "ping") + Answering(p)'
                    + Count(wire'[p], "pong") + pongs'[s]
      /\ Tests(p)' = pings'[p] + Count(wire'[p], "ping") + Answering(s)'
                    + Count(wire'[s], "pong") + pongs'[p]
  BY <1>1 DEF Tests
<1>6. /\ \A t \in Sides : pings[t] \in Nat /\ pinged[t] \in Nat /\ pongs[t] \in Nat
                          /\ Answering(t) \in Nat
      /\ \A t \in Sides : Count(wire[t], "ping") \in Nat /\ Count(wire[t], "pong") \in Nat
  BY TestsTypes
<1>7. CASE on_test_channel(s)
  <2>1. /\ pings'[s] = pings[s] + 1 /\ pinged'[s] = pinged[s] + 1
        /\ pings'[p] = pings[p] /\ pinged'[p] = pinged[p] /\ UNCHANGED wire
    BY <1>1, <1>2, <1>7 DEF on_test_channel
  <2>2. Tests(s)' <= pinged'[s] /\ Tests(p)' <= pinged'[p]
    BY <1>1, <1>2, <1>3, <1>4, <1>5, <1>6, <2>1
  <2>. QED
    BY <1>1, <2>2 DEF TestsInv
<1>8. CASE PingWorker(s)
  <2>1. /\ pings'[s] = pings[s] - 1 /\ pings'[p] = pings[p] /\ UNCHANGED pinged
    BY <1>1, <1>2, <1>8 DEF PingWorker
  <2>2. \/ UNCHANGED wire
        \/ /\ Count(wire'[s], "ping") = Count(wire[s], "ping") + 1
           /\ Count(wire'[s], "pong") = Count(wire[s], "pong")
           /\ wire'[p] = wire[p]
    <3>1. UNCHANGED wire \/ Write(s, Control("ping"))
      BY <1>8 DEF PingWorker
    <3>2. CASE Write(s, Control("ping"))
      <4>1. wire'[s] = Append(wire[s], Control("ping")) /\ wire'[p] = wire[p]
        BY <3>2, WriteAppends, ControlFrames DEF OriginInv, TypeOK
      <4>2. wire[s] \in Seq(Frames) /\ Control("ping") \in Frames
        BY ControlFrames DEF OriginInv, TypeOK, FramesOf
      <4>3. \A type : Count(wire'[s], type) = Count(wire[s], type)
                + (IF Control("ping").type = type THEN 1 ELSE 0)
        BY <4>1, <4>2, CountAppend
      <4>4. Control("ping").type = "ping"
        BY DEF Control, Frame
      <4>. QED
        BY <1>6, <4>1, <4>3, <4>4
    <3>. QED
      BY <3>1, <3>2
  <2>3. Tests(s)' <= pinged'[s] /\ Tests(p)' <= pinged'[p]
    BY <1>1, <1>2, <1>3, <1>4, <1>5, <1>6, <2>1, <2>2
  <2>. QED
    BY <1>1, <2>3 DEF TestsInv
<1>. QED
  BY <1>7, <1>8

(* What a side reads off the wire, counted.                                *)
LEMMA ReadCounts ==
    ASSUME OriginInv, NEW s \in Sides, NEW pc, Read(s, pc)
    PROVE  /\ \A type : Count(wire'[Peer(s)], type) =
                  Count(wire[Peer(s)], type) - (IF Got(s).type = type THEN 1 ELSE 0)
           /\ wire'[s] = wire[s]
<1>1. /\ wire[Peer(s)] # << >> /\ Got(s) = Head(wire[Peer(s)])
      /\ wire'[Peer(s)] = Tail(wire[Peer(s)]) /\ wire'[s] = wire[s]
  BY ReadTakesHead DEF OriginInv, TypeOK
<1>2. wire[Peer(s)] \in Seq(Frames)
  BY Peers DEF OriginInv, TypeOK
<1>. QED
  BY <1>1, <1>2, CountTail

(* The reader passes a ping on to its answer, and a pong to its user.      *)
LEMMA ReaderTests ==
    ASSUME OriginInv, TestsInv, NEW s \in Sides, ReceiveWorker(s)
    PROVE  TestsInv'
<1>. DEFINE p == Peer(s)
<1>1. p \in Sides /\ p # s /\ Peer(p) = s /\ Sides = {s, p}
  BY Peers
<1>2. /\ pongs \in [Sides -> Nat] /\ UNCHANGED <<pings, pinged>>
  BY DEF OriginInv, TypeOK, ReceiveWorker, ReadHeader, ReadData, ReadChecksum, AnswerPing,
         ReadFails
<1>3. /\ Tests(s) = pings[s] + Count(wire[s], "ping") + Answering(p)
                    + Count(wire[p], "pong") + pongs[s]
      /\ Tests(s) <= pinged[s]
      /\ Tests(p) = pings[p] + Count(wire[p], "ping") + Answering(s)
                    + Count(wire[s], "pong") + pongs[p]
      /\ Tests(p) <= pinged[p]
  BY <1>1 DEF TestsInv, Tests
<1>4. /\ Tests(s)' = pings'[s] + Count(wire'[s], "ping") + Answering(p)'
                    + Count(wire'[p], "pong") + pongs'[s]
      /\ Tests(p)' = pings'[p] + Count(wire'[p], "ping") + Answering(s)'
                    + Count(wire'[s], "pong") + pongs'[p]
  BY <1>1 DEF Tests
<1>5. /\ \A t \in Sides : pings[t] \in Nat /\ pinged[t] \in Nat /\ pongs[t] \in Nat
                          /\ Answering(t) \in {0, 1}
      /\ \A t \in Sides : Count(wire[t], "ping") \in Nat /\ Count(wire[t], "pong") \in Nat
  BY TestsTypes
<1>6. ReadData(s) \/ ReadChecksum(s) \/ ReadHeader(s) \/ AnswerPing(s) \/ ReadFails(s)
  BY DEF ReceiveWorker
<1>. HIDE DEF p
<1>7. SUFFICES Tests(s)' <= pinged'[s] /\ Tests(p)' <= pinged'[p]
  BY <1>1 DEF TestsInv
<1>8. CASE ReadData(s) \/ ReadChecksum(s)
  <2>1. Read(s, "data") \/ Read(s, "checksum")
    BY <1>8 DEF ReadData, ReadChecksum
  <2>2. UNCHANGED pongs
    BY <1>8 DEF ReadData, ReadChecksum
  <2>3. wire'[s] = wire[s] /\ Count(wire'[p], "ping") <= Count(wire[p], "ping")
        /\ Count(wire'[p], "pong") <= Count(wire[p], "pong")
        /\ Count(wire'[p], "ping") \in Int /\ Count(wire'[p], "pong") \in Int
    BY <1>1, <1>5, <2>1, ReadCounts DEF p
  <2>4. Answering(s)' = 0 /\ Answering(p)' = Answering(p)
    <3>1. CASE ReadData(s)
      <4>1. PICK r \in Readers : /\ recv' = [recv EXCEPT ![s] = r]
                                 /\ r.pc = AfterRead(r.remaining)
                                 /\ r.file \in FilesOf(Peer(s))
        BY <3>1, ReadDataGoes
      <4>2. recv'[s] = r /\ recv'[p] = recv[p]
        BY <4>1, ReaderGoes DEF p
      <4>. QED
        BY <4>1, <4>2 DEF Answering, AfterRead
    <3>2. CASE ReadChecksum(s)
      <4>1. Become(s, "header") \/ Become(s, "error")
        BY <3>2, ReadChecksumGoes
      <4>. QED
        BY <4>1, BecomeGoes DEF Answering, p
    <3>. QED
      BY <1>8, <3>1, <3>2
  <2>. QED
    BY <1>1, <1>2, <1>3, <1>4, <1>5, <2>2, <2>3, <2>4
<1>9. CASE ReadHeader(s)
  <2>1. Read(s, "header") /\ recv[s].pc = "header"
    BY <1>9 DEF ReadHeader, Read
  <2>2. wire'[s] = wire[s]
        /\ Count(wire'[p], "ping") = Count(wire[p], "ping")
                                     - (IF Got(s).type = "ping" THEN 1 ELSE 0)
        /\ Count(wire'[p], "pong") = Count(wire[p], "pong")
                                     - (IF Got(s).type = "pong" THEN 1 ELSE 0)
    BY <2>1, ReadCounts DEF p
  <2>3. Answering(s) = 0
    BY <2>1 DEF Answering
  <2>4. CASE Got(s).type = "ping"
    <3>1. Become(s, "pong") /\ UNCHANGED pongs
      BY <1>9, <2>4, ReadHeaderGoes
    <3>2. Answering(s)' = 1 /\ Answering(p)' = Answering(p)
      BY <3>1, BecomeGoes DEF Answering, p
    <3>. QED
      BY <1>1, <1>2, <1>3, <1>4, <1>5, <2>2, <2>3, <2>4, <3>1, <3>2
  <2>5. CASE Got(s).type = "pong"
    <3>1. pongs' = [pongs EXCEPT ![s] = @ + 1] /\ UNCHANGED recv
      BY <1>9, <2>5, ReadHeaderGoes
    <3>2. Answering(s)' = Answering(s) /\ Answering(p)' = Answering(p)
      BY <3>1 DEF Answering
    <3>3. pongs'[s] = pongs[s] + 1 /\ pongs'[p] = pongs[p]
      BY <1>1, <1>2, <3>1
    <3>. QED
      BY <1>1, <1>2, <1>3, <1>4, <1>5, <2>2, <2>3, <2>5, <3>2, <3>3
  <2>6. CASE Got(s).type \notin {"ping", "pong"}
    <3>1. UNCHANGED pongs
      BY <1>9, <2>6, ReadHeaderGoes
    <3>2. Answering(s)' = 0 /\ Answering(p)' = Answering(p)
      <4>1. CASE Got(s).type = "file"
        <5>1. PICK r \in Readers : /\ recv' = [recv EXCEPT ![s] = r]
                                   /\ r.pc = AfterRead(Got(s).n)
                                   /\ r.file \in FilesOf(Peer(s))
          BY <1>9, <4>1, ReadHeaderGoes
        <5>2. recv'[s] = r /\ recv'[p] = recv[p]
          BY <5>1, ReaderGoes DEF p
        <5>. QED
          BY <5>1, <5>2 DEF Answering, AfterRead
      <4>2. CASE Got(s).type # "file"
        <5>1. Become(s, "error") \/ UNCHANGED recv
          BY <1>9, <2>6, <4>2, ReadHeaderGoes
        <5>. QED
          BY <2>3, <5>1, BecomeGoes DEF Answering, p
      <4>. QED
        BY <4>1, <4>2
    <3>. QED
      BY <1>1, <1>2, <1>3, <1>4, <1>5, <2>2, <2>3, <2>6, <3>1, <3>2
  <2>. QED
    BY <2>4, <2>5, <2>6
<1>10. CASE AnswerPing(s)
  <2>1. /\ recv[s].pc = "pong" /\ UNCHANGED pongs
        /\ \/ Write(s, Control("pong")) /\ Become(s, "header")
           \/ Become(s, "error") /\ UNCHANGED wire
    BY <1>10 DEF AnswerPing
  <2>2. Answering(s) = 1 /\ Answering(s)' = 0 /\ Answering(p)' = Answering(p)
    BY <2>1, BecomeGoes DEF Answering, p
  <2>3. CASE Write(s, Control("pong"))
    <3>1. wire'[s] = Append(wire[s], Control("pong")) /\ wire'[p] = wire[p]
      BY <2>3, WriteAppends, ControlFrames DEF OriginInv, TypeOK, p
    <3>2. wire[s] \in Seq(Frames) /\ Control("pong") \in Frames
      BY ControlFrames DEF OriginInv, TypeOK, FramesOf
    <3>3. \A type : Count(wire'[s], type) = Count(wire[s], type)
              + (IF Control("pong").type = type THEN 1 ELSE 0)
      BY <3>1, <3>2, CountAppend
    <3>4. Control("pong").type = "pong"
      BY DEF Control, Frame
    <3>5. /\ Count(wire'[s], "ping") = Count(wire[s], "ping")
          /\ Count(wire'[s], "pong") = Count(wire[s], "pong") + 1
      BY <1>5, <3>3, <3>4
    <3>. QED
      BY <1>1, <1>2, <1>3, <1>4, <1>5, <2>1, <2>2, <3>1, <3>5
  <2>4. CASE UNCHANGED wire
    BY <1>1, <1>2, <1>3, <1>4, <1>5, <2>1, <2>2, <2>4
  <2>. QED
    BY <2>1, <2>3, <2>4
<1>11. CASE ReadFails(s)
  <2>1. Become(s, "closed") /\ UNCHANGED <<wire, pongs>> /\ recv[s].pc # "pong"
    BY <1>11 DEF ReadFails
  <2>2. Answering(s)' = Answering(s) /\ Answering(p)' = Answering(p)
    BY <2>1, BecomeGoes DEF Answering, p
  <2>. QED
    BY <1>1, <1>2, <1>3, <1>4, <1>5, <2>1, <2>2
<1>. QED
  BY <1>6, <1>8, <1>9, <1>10, <1>11

(* Closing loses pings and pongs, and adds none.                           *)
LEMMA EndTests ==
    ASSUME OriginInv, TestsInv, NEW s \in Sides, HandleReceiveStopped(s) \/ Close(s)
    PROVE  TestsInv'
<1>. DEFINE p == Peer(s)
<1>1. p \in Sides /\ p # s /\ Peer(p) = s /\ Sides = {s, p}
  BY Peers
<1>2. UNCHANGED <<recv, pings, pinged, pongs>>
  BY DEF HandleReceiveStopped, Close
<1>3. \A t \in Sides : Answering(t)' = Answering(t)
  BY <1>2 DEF Answering
<1>4. CASE HandleReceiveStopped(s)
  <2>1. UNCHANGED wire
    BY <1>4 DEF HandleReceiveStopped
  <2>. QED
    BY <1>2, <1>3, <2>1, SameTests
<1>5. CASE Close(s)
  <2>1. PICK n \in 0..Len(wire[s]) : wire' = [wire EXCEPT ![s] = SubSeq(@, 1, n)]
    BY <1>5 DEF Close
  <2>2. wire'[s] = SubSeq(wire[s], 1, n) /\ wire'[p] = wire[p]
    BY <2>1, CloseCuts DEF OriginInv, TypeOK
  <2>3. wire[s] \in Seq(Frames)
    BY DEF OriginInv, TypeOK
  <2>4. \A type : Count(wire'[s], type) \in Nat /\ Count(wire'[s], type) <= Count(wire[s], type)
    BY <2>2, <2>3, CountCut
  <2>5. \A t \in Sides : pings[t] \in Nat /\ pinged[t] \in Nat /\ pongs[t] \in Nat
                         /\ Answering(t) \in {0, 1}
                         /\ Count(wire[t], "ping") \in Nat /\ Count(wire[t], "pong") \in Nat
    BY TestsTypes
  <2>6. \A t \in Sides : Tests(t)' <= Tests(t) /\ Tests(t)' \in Nat /\ Tests(t) \in Nat
    <3>. SUFFICES ASSUME NEW t \in Sides
                  PROVE  Tests(t)' <= Tests(t) /\ Tests(t)' \in Nat /\ Tests(t) \in Nat
      OBVIOUS
    <3>1. Peer(t) \in Sides
      BY Peers
    <3>2. \A u \in Sides : /\ Count(wire'[u], "ping") \in Nat /\ Count(wire'[u], "pong") \in Nat
                           /\ Count(wire'[u], "ping") <= Count(wire[u], "ping")
                           /\ Count(wire'[u], "pong") <= Count(wire[u], "pong")
      <4>. SUFFICES ASSUME NEW u \in Sides, NEW type \in {"ping", "pong"}
                    PROVE  /\ Count(wire'[u], type) \in Nat
                           /\ Count(wire'[u], type) <= Count(wire[u], type)
        OBVIOUS
      <4>1. Count(wire[u], type) \in Nat
        BY TestsTypes
      <4>2. CASE u = s
        BY <2>4, <4>2
      <4>3. CASE u = p
        <5>1. wire'[u] = wire[u]
          BY <2>2, <4>3
        <5>. QED
          BY <4>1, <5>1
      <4>. QED
        BY <1>1, <4>2, <4>3
    <3>. HIDE DEF p
    <3>3. /\ Tests(t) = pings[t] + Count(wire[t], "ping") + Answering(Peer(t))
                        + Count(wire[Peer(t)], "pong") + pongs[t]
          /\ Tests(t)' = pings[t] + Count(wire'[t], "ping") + Answering(Peer(t))
                        + Count(wire'[Peer(t)], "pong") + pongs[t]
      BY <1>2, <1>3, <3>1 DEF Tests
    <3>4. /\ Count(wire'[t], "ping") \in Nat /\ Count(wire'[Peer(t)], "pong") \in Nat
          /\ Count(wire'[t], "ping") <= Count(wire[t], "ping")
          /\ Count(wire'[Peer(t)], "pong") <= Count(wire[Peer(t)], "pong")
      BY <3>1, <3>2
    <3>5. /\ Count(wire[t], "ping") \in Nat /\ Count(wire[Peer(t)], "pong") \in Nat
          /\ pings[t] \in Nat /\ pongs[t] \in Nat /\ Answering(Peer(t)) \in {0, 1}
      BY <2>5, <3>1
    <3>6. Answering(Peer(t)) \in Nat
      BY <3>5
    <3>7. PICK i \in Nat, j \in Nat :
              /\ i = Count(wire[t], "ping") /\ j = Count(wire[Peer(t)], "pong")
      BY <3>5
    <3>8. PICK x \in Nat, y \in Nat :
              /\ x = Count(wire'[t], "ping") /\ y = Count(wire'[Peer(t)], "pong")
      BY <3>4
    <3>9. x <= i /\ y <= j
      BY <3>4, <3>7, <3>8
    <3>10. /\ Tests(t) = pings[t] + i + Answering(Peer(t)) + j + pongs[t]
           /\ Tests(t)' = pings[t] + x + Answering(Peer(t)) + y + pongs[t]
      BY <3>3, <3>7, <3>8
    <3>11. Tests(t) \in Nat
      <4>1. pings[t] + i + Answering(Peer(t)) + j + pongs[t] \in Nat
        BY <3>5, <3>6, <3>7
      <4>. QED
        BY <3>10, <4>1
    <3>12. Tests(t)' \in Nat
      <4>1. pings[t] + x + Answering(Peer(t)) + y + pongs[t] \in Nat
        BY <3>5, <3>6, <3>8
      <4>. QED
        BY <3>10, <4>1
    <3>13. Tests(t)' <= Tests(t)
      BY <3>5, <3>6, <3>7, <3>8, <3>9, <3>10
    <3>. QED
      BY <3>11, <3>12, <3>13
  <2>7. \A t \in Sides : Tests(t) <= pinged[t] /\ pinged'[t] = pinged[t]
    BY <1>2 DEF TestsInv
  <2>. QED
    BY <2>5, <2>6, <2>7 DEF TestsInv
<1>. QED
  BY <1>4, <1>5

(* No step makes a test out of nothing.                                    *)
LEMMA StepTests == OriginInv /\ TestsInv /\ [Next]_vars => TestsInv'
<1>. SUFFICES ASSUME OriginInv, TestsInv, [Next]_vars PROVE TestsInv'
  OBVIOUS
<1>1. ASSUME NEW s \in Sides, NEW n \in Batches(s), on_send_files(s, n) \/ SendWorker(s, n)
      PROVE  TestsInv'
  BY <1>1, SendWorkerTests
<1>2. ASSUME NEW s \in Sides, on_test_channel(s) \/ PingWorker(s)
      PROVE  TestsInv'
  BY <1>2, PingTests
<1>3. ASSUME NEW s \in Sides, ReceiveWorker(s) \/ HandleReceiveStopped(s) \/ Close(s)
      PROVE  TestsInv'
  BY <1>3, ReaderTests, EndTests
<1>4. CASE Rest \/ UNCHANGED vars
  BY <1>4, SameTests DEF Rest, vars, Answering
<1>. QED
  BY <1>1, <1>2, <1>3, <1>4 DEF Next

(* At the start nobody has tested the channel.                             *)
LEMMA InitTests == Init => TestsInv
<1>. SUFFICES ASSUME Init, NEW s \in Sides PROVE Tests(s) <= pinged[s]
  BY DEF TestsInv
<1>1. Count(wire[s], "ping") = 0 /\ Count(wire[Peer(s)], "pong") = 0
  BY CountEmpty, Peers DEF Init
<1>2. Answering(Peer(s)) = 0 /\ pings[s] = 0 /\ pinged[s] = 0 /\ pongs[s] = 0
  BY Peers DEF Init, Answering
<1>. QED
  BY <1>1, <1>2 DEF Tests

(* A pong is only reported for a ping of that side, whatever is lost.      *)
THEOREM PongsAlwaysAnswer == Spec => []PongsAreAnswers
<1>1. Spec => []TestsInv
  BY InitTests, StepTests, OriginInvariant, PTL DEF Spec
<1>2. OriginInv /\ TestsInv => PongsAreAnswers
  <2>. SUFFICES ASSUME OriginInv, TestsInv, NEW s \in Sides
                PROVE  pongs[s] + pings[s] <= pinged[s]
    BY DEF PongsAreAnswers
  <2>1. /\ pings[s] \in Nat /\ pinged[s] \in Nat /\ pongs[s] \in Nat
        /\ Answering(Peer(s)) \in {0, 1}
        /\ Count(wire[s], "ping") \in Nat /\ Count(wire[Peer(s)], "pong") \in Nat
    BY TestsTypes, Peers
  <2>2. pings[s] + Count(wire[s], "ping") + Answering(Peer(s))
        + Count(wire[Peer(s)], "pong") + pongs[s] <= pinged[s]
    BY DEF TestsInv, Tests
  <2>. QED
    BY <2>1, <2>2
<1>. QED
  BY <1>1, <1>2, OriginInvariant, PTL

-----------------------------------------------------------------------------
(***************************************************************************)
(* The reader is never put out of step, when the users send one thing at a *)
(* time and files stay what they are.                                      *)
(***************************************************************************)

Size(file) == Batch[file[3]]

(* A place in the stream of frames: between two files, or in a file at the *)
(* number of its bytes that have gone by.                                  *)
Between == <<NoFile, 0>>

(* Where the stream is after a frame.                                      *)
After(frame) ==
    CASE frame.type = "file" -> <<frame.file, 0>>
      [] frame.type = "data" -> <<frame.file, frame.n + frame.len>>
      [] OTHER -> Between

(* A frame that receive_files expects at this place.                       *)
Fits(at, frame) ==
    \/ frame.type = "file" /\ at = Between /\ frame.n = Size(frame.file)
    \/ /\ frame.type = "data" /\ at = <<frame.file, frame.n>>
       /\ frame.len > 0 /\ frame.n + frame.len <= Size(frame.file)
    \/ /\ frame.type = "checksum" /\ at = <<frame.file, Size(frame.file)>>
       /\ frame.n = Size(frame.file)
    \/ frame.type \in {"done", "ping", "pong"} /\ at = Between

InFile(s) == recv[s].pc \in {"data", "checksum"}

Writing(s, n) == senders[s][n].pc \in {"data", "checksum"}

ReadTo(s) == IF InFile(s) THEN <<recv[s].file, recv[s].got>> ELSE Between

(* The place of side s's stream behind its i-th unread frame; before the   *)
(* first one it is where the reader of the peer is.                        *)
At(s, i) == IF i = 0 THEN ReadTo(Peer(s)) ELSE After(wire[s][i])

EndOf(s) == At(s, Len(wire[s]))

(* Every unread frame is expected where it stands.                         *)
Aligned(s) == \A i \in 1..Len(wire[s]) : Fits(At(s, i - 1), wire[s][i])

(* The reader has lost nothing of its file, and knows what remains of it.  *)
ReaderAligned(s) ==
    /\ recv[s].pc \in {"header", "pong", "data", "checksum"}
    /\ InFile(s) =>
          /\ recv[s].intact
          /\ recv[s].got <= Size(recv[s].file)
          /\ recv[s].remaining = Size(recv[s].file) - recv[s].got
          /\ recv[s].pc = AfterRead(recv[s].remaining)

(* The stream ends where the worker that writes it is.                     *)
WritersAligned(s) ==
    /\ \A n \in Batches(s) : Writing(s, n) =>
          LET t == senders[s][n] IN
          /\ EndOf(s) = <<<<s, n, t.k>>, t.pos>>
          /\ t.length = Batch[t.k] /\ t.pos <= t.length /\ t.pc = AfterData(t.pos, t.length)
    /\ (\A n \in Batches(s) : ~Writing(s, n)) => EndOf(s) = Between

OneAtATime(s) ==
    /\ \A m, n \in Batches(s) : Active(s, m) /\ Active(s, n) => m = n
    /\ Sending(s) => PingsAnswered

(* A frame that is expected where the stream ends moves the end behind it. *)
LEMMA StreamGrows ==
    ASSUME NEW s \in Sides, NEW frame, wire[s] \in Seq(Frames), frame \in Frames,
           wire'[s] = Append(wire[s], frame), ReadTo(Peer(s))' = ReadTo(Peer(s)),
           Aligned(s), Fits(EndOf(s), frame)
    PROVE  Aligned(s)' /\ EndOf(s)' = After(frame)
<1>. DEFINE m == Len(wire[s])
<1>1. /\ m \in Nat /\ Len(wire'[s]) = m + 1 /\ wire'[s][m + 1] = frame
      /\ \A i \in 1..m : wire'[s][i] = wire[s][i]
  BY AppendProperties, LenProperties
<1>2. \A i \in 0..m : At(s, i)' = At(s, i)
  BY <1>1 DEF At
<1>3. EndOf(s)' = After(frame)
  BY <1>1 DEF EndOf, At
<1>4. ASSUME NEW i \in 1..(m + 1) PROVE Fits(At(s, i - 1)', wire'[s][i])
  <2>1. CASE i = m + 1
    <3>1. i - 1 = m /\ m \in 0..m
      BY <1>1, <2>1
    <3>. QED
      BY <1>1, <1>2, <2>1, <3>1 DEF EndOf
  <2>2. CASE i # m + 1
    <3>1. i \in 1..m /\ i - 1 \in 0..m
      BY <1>1, <2>2
    <3>. QED
      BY <1>1, <1>2, <3>1 DEF Aligned
  <2>. QED
    BY <2>1, <2>2
<1>. QED
  BY <1>1, <1>3, <1>4 DEF Aligned

(* A reader that follows the first frame leaves the rest of the stream in  *)
(* its place.                                                              *)
LEMMA StreamShrinks ==
    ASSUME NEW s \in Sides, wire[s] \in Seq(Frames), wire[s] # << >>,
           wire'[s] = Tail(wire[s]), ReadTo(Peer(s))' = After(Head(wire[s])),
           Aligned(s)
    PROVE  Aligned(s)' /\ EndOf(s)' = EndOf(s)
<1>1. /\ Len(wire[s]) \in Nat \ {0} /\ Len(wire'[s]) = Len(wire[s]) - 1
      /\ \A i \in 1..Len(wire'[s]) : wire'[s][i] = wire[s][i + 1]
      /\ Head(wire[s]) = wire[s][1]
  BY HeadTailProperties, EmptySeq, LenProperties
<1>2. ASSUME NEW i \in 0..Len(wire'[s]) PROVE At(s, i)' = At(s, i + 1)
  <2>1. CASE i = 0
    <3>1. At(s, 0)' = After(wire[s][1]) /\ At(s, 1) = After(wire[s][1])
      BY <1>1 DEF At
    <3>. QED
      BY <2>1, <3>1
  <2>2. CASE i # 0
    BY <1>1, <2>2 DEF At
  <2>. QED
    BY <2>1, <2>2
<1>3. EndOf(s)' = EndOf(s)
  <2>1. Len(wire'[s]) \in 0..Len(wire'[s]) /\ Len(wire'[s]) + 1 = Len(wire[s])
    BY <1>1
  <2>. QED
    BY <1>2, <2>1 DEF EndOf
<1>4. ASSUME NEW i \in 1..Len(wire'[s]) PROVE Fits(At(s, i - 1)', wire'[s][i])
  <2>1. i - 1 \in 0..Len(wire'[s]) /\ (i - 1) + 1 = i /\ i + 1 \in 1..Len(wire[s])
        /\ (i + 1) - 1 = i
    BY <1>1
  <2>2. At(s, i - 1)' = At(s, i)
    BY <1>2, <2>1
  <2>3. Fits(At(s, i), wire[s][i + 1])
    BY <2>1 DEF Aligned
  <2>. QED
    BY <1>1, <2>2, <2>3
<1>. QED
  BY <1>3, <1>4 DEF Aligned

(* A stream that neither side touches stays aligned.                       *)
LEMMA StreamStays ==
    ASSUME NEW s \in Sides, wire'[s] = wire[s], ReadTo(Peer(s))' = ReadTo(Peer(s))
    PROVE  (Aligned(s) => Aligned(s)') /\ EndOf(s)' = EndOf(s)
BY DEF Aligned, EndOf, At

(* The streams of both sides.                                              *)
Streams == \A s \in Sides : Aligned(s) /\ ReaderAligned(s) /\ WritersAligned(s) /\ OneAtATime(s)

BothOpen == open["a"] /\ open["b"]

(* The side that does nothing, when nothing it depends on changes.         *)
LEMMA IdleSide ==
    ASSUME Streams, NEW p \in Sides, recv'[p] = recv[p],
           \A m \in Batches(p) : senders'[p][m] = senders[p][m],
           Sending(p) => PingsAnswered'
    PROVE  /\ ReaderAligned(p)' /\ OneAtATime(p)' /\ ReadTo(p)' = ReadTo(p)
           /\ EndOf(p)' = EndOf(p) => WritersAligned(p)'
<1>1. ReaderAligned(p)' /\ ReadTo(p)' = ReadTo(p)
  BY DEF Streams, ReaderAligned, ReadTo, InFile
<1>2. \A m \in Batches(p) : Active(p, m)' = Active(p, m) /\ Writing(p, m)' = Writing(p, m)
  BY DEF Active, Writing
<1>3. Sending(p)' = Sending(p)
  BY <1>2 DEF Sending, Batches
<1>4. OneAtATime(p)'
  BY <1>2, <1>3 DEF Streams, OneAtATime, Batches
<1>5. EndOf(p)' = EndOf(p) => WritersAligned(p)'
  BY <1>2 DEF Streams, WritersAligned, Batches
<1>. QED
  BY <1>1, <1>4, <1>5

(* A step of the one worker of a side that sends, or is about to.          *)
LEMMA WorkerStreams ==
    ASSUME OriginInv, Streams, NEW s \in Sides, NEW n \in Batches(s), NEW record \in SendWorkers,
           Moves(s, n, record),
           Active(s, n) \/ (~Sending(s) /\ PingsAnswered),
           wire'[Peer(s)] = wire[Peer(s)], Aligned(s)',
           EndOf(s)' = IF record.pc \in {"data", "checksum"}
                       THEN <<<<s, n, record.k>>, record.pos>> ELSE Between,
           record.pc \in {"data", "checksum"} =>
               /\ record.length = Batch[record.k] /\ record.pos <= record.length
               /\ record.pc = AfterData(record.pos, record.length)
    PROVE  Streams'
<1>. DEFINE p == Peer(s)
<1>1. p \in Sides /\ p # s /\ Peer(p) = s /\ Sides = {s, p}
  BY Peers
<1>2. DOMAIN senders = Sides /\ \A t \in Sides : senders[t] \in [Batches(t) -> SendWorkers]
  BY DEF OriginInv, TypeOK, SendWorkers
<1>3. /\ senders'[s][n] = record
      /\ \A t \in Sides : \A m \in Batches(t) :
            <<t, m>> # <<s, n>> => senders'[t][m] = senders[t][m]
      /\ UNCHANGED <<recv, pings, pinged, pongs>>
  BY <1>2, StepChanges DEF Moves
<1>4. PingsAnswered' = PingsAnswered
  BY <1>3 DEF PingsAnswered
<1>5. PingsAnswered
  BY DEF Streams, OneAtATime, Sending
<1>6. \A m \in Batches(s) : m # n => ~Active(s, m)
  BY DEF Streams, OneAtATime, Sending
<1>7. \A m \in Batches(s) : m # n => ~Active(s, m)' /\ ~Writing(s, m)'
  BY <1>3, <1>6 DEF Active, Writing
<1>8. Writing(s, n)' <=> record.pc \in {"data", "checksum"}
  BY <1>3 DEF Writing
<1>9. OneAtATime(s)'
  BY <1>4, <1>5, <1>7 DEF OneAtATime, Batches
<1>10. WritersAligned(s)'
  <2>1. ASSUME NEW m \in Batches(s), Writing(s, m)'
        PROVE  /\ EndOf(s)' = <<<<s, m, senders'[s][m].k>>, senders'[s][m].pos>>
               /\ senders'[s][m].length = Batch[senders'[s][m].k]
               /\ senders'[s][m].pos <= senders'[s][m].length
               /\ senders'[s][m].pc = AfterData(senders'[s][m].pos, senders'[s][m].length)
    <3>1. m = n /\ record.pc \in {"data", "checksum"}
      BY <1>7, <1>8, <2>1
    <3>. QED
      BY <1>3, <3>1
  <2>2. (\A m \in Batches(s) : ~Writing(s, m)') => EndOf(s)' = Between
    BY <1>8
  <2>. QED
    BY <2>1, <2>2 DEF WritersAligned, Batches
<1>11. ReaderAligned(s)' /\ ReadTo(s)' = ReadTo(s)
  BY <1>3 DEF Streams, ReaderAligned, ReadTo, InFile
<1>12. /\ ReaderAligned(p)' /\ OneAtATime(p)'
       /\ EndOf(p)' = EndOf(p) => WritersAligned(p)'
  BY <1>1, <1>3, <1>4, <1>5, IdleSide
<1>13. Aligned(p)' /\ EndOf(p)' = EndOf(p)
  BY <1>1, <1>11, StreamStays DEF Streams
<1>. QED
  BY <1>1, <1>9, <1>10, <1>11, <1>12, <1>13 DEF Streams

(* While the one worker of a side writes no file, its stream is between    *)
(* two files.                                                              *)
LEMMA BetweenFiles ==
    ASSUME Streams, NEW s \in Sides, NEW n \in Batches(s), Active(s, n), ~Writing(s, n)
    PROVE  EndOf(s) = Between
<1>1. \A m \in Batches(s) : m # n => ~Active(s, m)
  BY DEF Streams, OneAtATime
<1>2. \A m \in Batches(s) : ~Writing(s, m)
  BY <1>1 DEF Active, Writing
<1>. QED
  BY <1>2 DEF Streams, WritersAligned

(* Nothing is sent: the stream is between two files.                       *)
LEMMA NothingSent ==
    ASSUME Streams, NEW s \in Sides, ~Sending(s)
    PROVE  EndOf(s) = Between
<1>1. \A m \in Batches(s) : ~Writing(s, m)
  BY DEF Sending, Active, Writing
<1>. QED
  BY <1>1 DEF Streams, WritersAligned

(* The send workers of orderly users, with files that stay what they are.  *)
LEMMA SendWorkerStreams ==
    ASSUME Orderly, ~FilesChange, OriginInv, Streams, BothOpen,
           NEW s \in Sides, NEW n \in Batches(s), on_send_files(s, n) \/ SendWorker(s, n)
    PROVE  Streams'
<1>. DEFINE t == senders[s][n]
<1>1. t \in SendWorkers /\ t.k \in 1..Len(Batch) /\ Batch[t.k] \in Nat
  BY BatchLengths DEF OriginInv, TypeOK, SendWorkers, SenderInv
<1>2. wire[s] \in Seq(Frames) /\ Aligned(s)
  BY DEF OriginInv, TypeOK, Streams
<1>3. Connected(s)
  BY DEF Connected, BothOpen, Sides, Peer
<1>4. ASSUME NEW frame \in FramesOf(s), Write(s, frame), Fits(EndOf(s), frame), UNCHANGED recv
      PROVE  Aligned(s)' /\ EndOf(s)' = After(frame) /\ wire'[Peer(s)] = wire[Peer(s)]
  <2>1. wire'[s] = Append(wire[s], frame) /\ wire'[Peer(s)] = wire[Peer(s)]
    BY <1>4, WriteAppends DEF OriginInv, TypeOK
  <2>2. frame \in Frames
    BY DEF FramesOf
  <2>3. ReadTo(Peer(s))' = ReadTo(Peer(s))
    BY <1>4 DEF ReadTo, InFile
  <2>. QED
    BY <1>2, <1>4, <2>1, <2>2, <2>3, StreamGrows
<1>5. CASE on_send_files(s, n)
  <2>1. /\ ~Sending(s) /\ PingsAnswered /\ UNCHANGED <<wire, recv>>
    BY <1>5 DEF on_send_files, MaySend
  <2>2. PICK record \in SendWorkers : Moves(s, n, record) /\ record.pc \in {"header", "failed"}
    BY <1>5, StartOrFailMoves
  <2>3. Aligned(s)' /\ EndOf(s)' = Between
    BY <1>2, <2>1, NothingSent, StreamStays DEF ReadTo, InFile
  <2>. QED
    BY <2>1, <2>2, <2>3, WorkerStreams
<1>6. CASE SendHeader(s, n)
  <2>1. PICK record \in SendWorkers, frame \in FramesOf(s) :
               /\ Moves(s, n, record) /\ Write(s, frame)
               /\ t.pc = "header" /\ record.k = t.k
               /\ frame = Frame("file", <<s, n, record.k>>, Batch[record.k], 1)
               /\ record.length \in ActualLengths(Batch[record.k])
               /\ record.pos = 0 /\ record.pc = AfterData(0, record.length)
    BY <1>6, SendHeaderMoves
  <2>2. Active(s, n) /\ EndOf(s) = Between
    BY <2>1, BetweenFiles DEF Active, Writing
  <2>3. record.length = Batch[record.k]
    BY <2>1 DEF ActualLengths
  <2>4. frame.type = "file" /\ frame.file = <<s, n, record.k>> /\ frame.n = Batch[record.k]
    BY <2>1 DEF Frame
  <2>5. Fits(EndOf(s), frame) /\ After(frame) = <<<<s, n, record.k>>, 0>>
    BY <2>2, <2>4 DEF Fits, After, Size
  <2>6. Aligned(s)' /\ EndOf(s)' = After(frame) /\ wire'[Peer(s)] = wire[Peer(s)]
    BY <1>4, <2>1, <2>5 DEF Moves
  <2>7. record.pc \in {"data", "checksum"} /\ record.pos <= record.length
    BY <1>1, <2>1, <2>3 DEF AfterData
  <2>. QED
    BY <2>1, <2>2, <2>3, <2>5, <2>6, <2>7, WorkerStreams
<1>7. CASE SendChunk(s, n)
  <2>1. PICK record \in SendWorkers, len \in Nat \ {0}, frame \in FramesOf(s) :
               /\ Moves(s, n, record) /\ Write(s, frame)
               /\ t.pc = "data" /\ record.k = t.k /\ record.length = t.length
               /\ t.pos + len <= record.length
               /\ frame = Frame("data", <<s, n, record.k>>, t.pos, len)
               /\ record.pos = t.pos + len
               /\ record.pc = AfterData(record.pos, record.length)
    BY <1>7, SendChunkMoves
  <2>2. Active(s, n) /\ Writing(s, n)
    BY <2>1 DEF Active, Writing
  <2>3. EndOf(s) = <<<<s, n, t.k>>, t.pos>> /\ t.length = Batch[t.k]
    BY <2>2 DEF Streams, WritersAligned
  <2>4. /\ frame.type = "data" /\ frame.file = <<s, n, t.k>> /\ frame.n = t.pos
        /\ frame.len = len
    BY <2>1 DEF Frame
  <2>5. Fits(EndOf(s), frame)
    <3>1. Size(frame.file) = Batch[t.k]
      BY <2>4 DEF Size
    <3>2. frame.n + frame.len <= Size(frame.file) /\ frame.len > 0
      BY <2>1, <2>3, <2>4, <3>1
    <3>3. EndOf(s) = <<frame.file, frame.n>>
      BY <2>3, <2>4
    <3>. QED
      BY <2>4, <3>2, <3>3 DEF Fits
  <2>6. After(frame) = <<<<s, n, record.k>>, record.pos>>
    BY <2>1, <2>4 DEF After
  <2>7. Aligned(s)' /\ EndOf(s)' = After(frame) /\ wire'[Peer(s)] = wire[Peer(s)]
    BY <1>4, <2>1, <2>5 DEF Moves
  <2>8. record.pc \in {"data", "checksum"} /\ record.pos <= record.length
        /\ record.length = Batch[record.k]
    BY <2>1, <2>3 DEF AfterData
  <2>. QED
    BY <2>1, <2>2, <2>6, <2>7, <2>8, WorkerStreams
<1>8. CASE SendChecksum(s, n)
  <2>1. PICK record \in SendWorkers, frame \in FramesOf(s) :
               /\ Moves(s, n, record) /\ Write(s, frame)
               /\ t.pc = "checksum"
               /\ frame = Frame("checksum", <<s, n, t.k>>, t.length, 1)
               /\ record.pc \in {"header", "done"}
    BY <1>8, SendChecksumMoves
  <2>2. Active(s, n) /\ Writing(s, n)
    BY <2>1 DEF Active, Writing
  <2>3. /\ EndOf(s) = <<<<s, n, t.k>>, t.pos>> /\ t.length = Batch[t.k]
        /\ t.pos <= t.length /\ t.pc = AfterData(t.pos, t.length)
    BY <2>2 DEF Streams, WritersAligned
  <2>4. t.pos = t.length
    <3>1. ~(t.pos < t.length)
      BY <2>1, <2>3 DEF AfterData
    <3>2. t.pos \in Nat /\ t.length \in Nat
      BY <1>1 DEF SendWorkers
    <3>. QED
      BY <2>3, <3>1, <3>2
  <2>5. frame.type = "checksum" /\ frame.file = <<s, n, t.k>> /\ frame.n = t.length
    BY <2>1 DEF Frame
  <2>6. Fits(EndOf(s), frame)
    <3>1. Size(frame.file) = Batch[t.k]
      BY <2>5 DEF Size
    <3>. QED
      BY <2>3, <2>4, <2>5, <3>1 DEF Fits
  <2>7. After(frame) = Between
    BY <2>5 DEF After
  <2>8. Aligned(s)' /\ EndOf(s)' = After(frame) /\ wire'[Peer(s)] = wire[Peer(s)]
    BY <1>4, <2>1, <2>6 DEF Moves
  <2>. QED
    BY <2>1, <2>2, <2>7, <2>8, WorkerStreams
<1>9. CASE SendDone(s, n)
  <2>1. PICK record \in SendWorkers, frame \in FramesOf(s) :
               /\ Moves(s, n, record) /\ Write(s, frame)
               /\ frame = Control("done") /\ t.pc = "done" /\ record.pc = "ended"
    BY <1>9, SendDoneMoves
  <2>2. Active(s, n) /\ EndOf(s) = Between
    BY <2>1, BetweenFiles DEF Active, Writing
  <2>3. frame.type = "done"
    BY <2>1 DEF Control, Frame
  <2>4. Fits(EndOf(s), frame) /\ After(frame) = Between
    BY <2>2, <2>3 DEF Fits, After
  <2>5. Aligned(s)' /\ EndOf(s)' = After(frame) /\ wire'[Peer(s)] = wire[Peer(s)]
    BY <1>4, <2>1, <2>4 DEF Moves
  <2>. QED
    BY <2>1, <2>2, <2>4, <2>5, WorkerStreams
<1>10. CASE SendFails(s, n)
  BY <1>3, <1>10 DEF SendFails
<1>. QED
  BY <1>5, <1>6, <1>7, <1>8, <1>9, <1>10 DEF SendWorker

(* A thread that has yet to ping, a reader that has yet to answer, and a   *)
(* pong on its way: the test of that side is not over.                     *)
LEMMA TestIsNotOver ==
    ASSUME OriginInv, TestsInv, NEW s \in Sides,
           \/ pings[s] > 0
           \/ recv[Peer(s)].pc = "pong"
           \/ wire[Peer(s)] # << >> /\ Head(wire[Peer(s)]).type = "pong"
    PROVE  ~PingsAnswered
<1>1. /\ pings[s] \in Nat /\ pinged[s] \in Nat /\ pongs[s] \in Nat
      /\ Answering(Peer(s)) \in {0, 1}
      /\ Count(wire[s], "ping") \in Nat /\ Count(wire[Peer(s)], "pong") \in Nat
  BY TestsTypes, Peers
<1>2. pings[s] + Count(wire[s], "ping") + Answering(Peer(s))
      + Count(wire[Peer(s)], "pong") + pongs[s] <= pinged[s]
  BY DEF TestsInv, Tests
<1>3. CASE pings[s] > 0
  BY <1>3 DEF PingsAnswered
<1>4. CASE recv[Peer(s)].pc = "pong"
  <2>1. Answering(Peer(s)) = 1
    BY <1>4 DEF Answering
  <2>2. pongs[s] # pinged[s]
    BY <1>1, <1>2, <2>1
  <2>. QED
    BY <2>2 DEF PingsAnswered
<1>5. CASE wire[Peer(s)] # << >> /\ Head(wire[Peer(s)]).type = "pong"
  <2>1. wire[Peer(s)] \in Seq(Frames)
    BY Peers DEF OriginInv, TypeOK
  <2>2. /\ Count(Tail(wire[Peer(s)]), "pong") = Count(wire[Peer(s)], "pong") - 1
        /\ Count(Tail(wire[Peer(s)]), "pong") \in Nat
    BY <1>5, <2>1, CountTail, CountIsNat, HeadTailProperties, EmptySeq
  <2>3. pongs[s] # pinged[s]
    BY <1>1, <1>2, <2>2
  <2>. QED
    BY <2>3 DEF PingsAnswered
<1>. QED
  BY <1>3, <1>4, <1>5

(* While a test is not over nobody sends.                                  *)
LEMMA TestsAreAlone ==
    ASSUME Streams, ~PingsAnswered
    PROVE  \A s \in Sides : ~Sending(s)
BY DEF Streams, OneAtATime

(* The channel test of orderly users.                                      *)
LEMMA PingStreams ==
    ASSUME Orderly, OriginInv, TestsInv, Streams, BothOpen,
           NEW s \in Sides, on_test_channel(s) \/ PingWorker(s)
    PROVE  Streams'
<1>. DEFINE p == Peer(s)
<1>1. p \in Sides /\ p # s /\ Peer(p) = s /\ Sides = {s, p}
  BY Peers
<1>2. UNCHANGED <<senders, recv>>
  BY DEF on_test_channel, PingWorker
<1>3. \A t \in Sides : ~Sending(t)
  <2>1. CASE on_test_channel(s)
    BY <2>1 DEF on_test_channel, MayPing
  <2>2. CASE PingWorker(s)
    BY <2>2, TestIsNotOver, TestsAreAlone DEF PingWorker
  <2>. QED
    BY <2>1, <2>2
<1>4. \A t \in Sides : /\ ReaderAligned(t)' /\ OneAtATime(t)' /\ ReadTo(t)' = ReadTo(t)
                       /\ EndOf(t)' = EndOf(t) => WritersAligned(t)'
  BY <1>2, <1>3, IdleSide
<1>5. \A t \in Sides : EndOf(t) = Between
  BY <1>3, NothingSent
<1>6. Aligned(p)' /\ EndOf(p)' = EndOf(p)
  <2>1. wire'[p] = wire[p]
    <3>1. UNCHANGED wire \/ Write(s, Control("ping"))
      BY DEF on_test_channel, PingWorker
    <3>. QED
      BY <1>1, <3>1, WriteAppends, ControlFrames DEF OriginInv, TypeOK
  <2>. QED
    BY <1>1, <1>4, <2>1, StreamStays DEF Streams
<1>7. Aligned(s)' /\ EndOf(s)' = EndOf(s)
  <2>1. CASE UNCHANGED wire
    BY <1>1, <1>4, <2>1, StreamStays DEF Streams
  <2>2. CASE Write(s, Control("ping"))
    <3>1. wire'[s] = Append(wire[s], Control("ping"))
      BY <2>2, WriteAppends, ControlFrames DEF OriginInv, TypeOK
    <3>2. wire[s] \in Seq(Frames) /\ Control("ping") \in Frames /\ Aligned(s)
      BY ControlFrames DEF OriginInv, TypeOK, FramesOf, Streams
    <3>3. Fits(EndOf(s), Control("ping")) /\ After(Control("ping")) = Between
      BY <1>5 DEF Fits, After, Control, Frame
    <3>. QED
      BY <1>1, <1>4, <1>5, <3>1, <3>2, <3>3, StreamGrows
  <2>. QED
    BY <2>1, <2>2 DEF on_test_channel, PingWorker
<1>. QED
  BY <1>1, <1>4, <1>6, <1>7 DEF Streams

(* A reader that follows the frame it has read.                            *)
LEMMA ReadStreams ==
    ASSUME OriginInv, Streams, NEW s \in Sides, NEW pc, Read(s, pc), UNCHANGED senders,
           recv'[Peer(s)] = recv[Peer(s)],
           ReaderAligned(s)', ReadTo(s)' = After(Got(s)),
           \A t \in Sides : Sending(t) => PingsAnswered'
    PROVE  Streams'
<1>. DEFINE p == Peer(s)
<1>1. p \in Sides /\ p # s /\ Peer(p) = s /\ Sides = {s, p}
  BY Peers
<1>2. /\ wire[p] # << >> /\ Got(s) = Head(wire[p])
      /\ wire'[p] = Tail(wire[p]) /\ wire'[s] = wire[s] /\ wire[p] \in Seq(Frames)
  BY <1>1, ReadTakesHead DEF OriginInv, TypeOK
<1>3. Aligned(p)' /\ EndOf(p)' = EndOf(p)
  BY <1>1, <1>2, StreamShrinks DEF Streams
<1>4. /\ ReaderAligned(p)' /\ OneAtATime(p)' /\ ReadTo(p)' = ReadTo(p)
      /\ EndOf(p)' = EndOf(p) => WritersAligned(p)'
  BY <1>1, IdleSide
<1>5. Aligned(s)' /\ EndOf(s)' = EndOf(s)
  BY <1>1, <1>2, <1>4, StreamStays DEF Streams
<1>6. OneAtATime(s)'
  BY DEF Streams, OneAtATime, Active, Sending, Batches
<1>7. WritersAligned(s)'
  BY <1>5 DEF Streams, WritersAligned, Writing, Batches
<1>. QED
  BY <1>1, <1>3, <1>4, <1>5, <1>6, <1>7 DEF Streams

(* What the reader finds fits the place where it is.                       *)
LEMMA HeadFits ==
    ASSUME OriginInv, Streams, NEW s \in Sides, NEW pc, Read(s, pc)
    PROVE  Fits(ReadTo(s), Got(s)) /\ Got(s) \in FramesOf(Peer(s))
<1>1. Peer(s) \in Sides /\ Peer(Peer(s)) = s
  BY Peers
<1>2. /\ wire[Peer(s)] # << >> /\ Got(s) = Head(wire[Peer(s)]) /\ Got(s) \in FramesOf(Peer(s))
      /\ wire[Peer(s)] \in Seq(Frames)
  BY <1>1, ReadTakesHead DEF OriginInv, TypeOK
<1>3. 1 \in 1..Len(wire[Peer(s)]) /\ Got(s) = wire[Peer(s)][1]
  BY <1>2, HeadTailProperties, EmptySeq, LenProperties
<1>4. Fits(At(Peer(s), 1 - 1), Got(s))
  BY <1>1, <1>3 DEF Streams, Aligned
<1>. QED
  BY <1>1, <1>2, <1>4 DEF At

(* A file of a side is a file.                                             *)
LEMMA FileIsNotNone ==
    ASSUME NEW s \in Sides, NEW file \in FilesOf(s)
    PROVE  file # NoFile /\ Size(file) \in Nat
<1>1. PICK n \in Batches(s), k \in 1..Len(Batch) : file = <<s, n, k>>
  BY DEF FilesOf
<1>2. s # "none"
  BY DEF Sides
<1>. QED
  BY <1>1, <1>2, BatchLengths DEF NoFile, Size

(* The reader, on a connection that neither side has closed.               *)
LEMMA ReaderStreams ==
    ASSUME OriginInv, TestsInv, Streams, BothOpen, NEW s \in Sides, ReceiveWorker(s)
    PROVE  Streams'
<1>. DEFINE p == Peer(s)
<1>1. p \in Sides /\ p # s /\ Peer(p) = s /\ Sides = {s, p}
  BY Peers
<1>2. Connected(s) /\ open[s] /\ open[p]
  BY DEF Connected, BothOpen, Sides, Peer
<1>3. recv[s] \in Readers /\ ReaderAligned(s) /\ \A t \in Sides : Sending(t) => PingsAnswered
  BY DEF OriginInv, TypeOK, Readers, Streams, OneAtATime
<1>4. UNCHANGED <<senders, pings, pinged>>
  BY DEF ReceiveWorker, ReadHeader, ReadData, ReadChecksum, AnswerPing, ReadFails
<1>5. CASE ReadHeader(s)
  <2>1. Read(s, "header") /\ recv[s].pc = "header"
    BY <1>5 DEF ReadHeader, Read
  <2>2. Fits(Between, Got(s)) /\ Got(s) \in FramesOf(p)
    BY <2>1, HeadFits DEF ReadTo, InFile
  <2>3. Got(s).type \in {"file", "done", "ping", "pong"}
        /\ (Got(s).type = "file" => Got(s).n = Size(Got(s).file))
    <3>1. Got(s).type \in {"data", "checksum"} => Got(s).file # NoFile
      BY <1>1, <2>2, FileIsNotNone DEF FramesOf
    <3>. QED
      BY <2>2, <3>1 DEF Fits, Between
  <2>4. \A t \in Sides : Sending(t) => PingsAnswered'
    <3>1. CASE Got(s).type = "pong"
      <4>1. ~PingsAnswered
        BY <2>1, <3>1, ReadTakesHead, TestIsNotOver DEF OriginInv, TypeOK
      <4>. QED
        BY <4>1, TestsAreAlone
    <3>2. CASE Got(s).type # "pong"
      <4>1. UNCHANGED pongs
        BY <1>5, <3>2, ReadHeaderGoes
      <4>. QED
        BY <1>3, <1>4, <4>1 DEF PingsAnswered
    <3>. QED
      BY <3>1, <3>2
  <2>5. CASE Got(s).type = "file"
    <3>1. PICK r \in Readers :
                 /\ recv' = [recv EXCEPT ![s] = r]
                 /\ r.pc = AfterRead(Got(s).n) /\ r.file = Got(s).file
                 /\ r.remaining = Got(s).n /\ r.got = 0 /\ r.intact
                 /\ r.file \in FilesOf(p)
      BY <1>5, <2>5, ReadHeaderGoes
    <3>2. recv'[s] = r /\ recv'[p] = recv[p]
      BY <3>1, ReaderGoes
    <3>3. r.pc \in {"data", "checksum"}
      BY <3>1 DEF AfterRead
    <3>4. Size(r.file) \in Nat /\ r.remaining = Size(r.file)
      BY <1>1, <2>3, <2>5, <3>1, FileIsNotNone
    <3>5. r.got <= Size(r.file) /\ r.remaining = Size(r.file) - r.got
      BY <3>1, <3>4
    <3>6. ReaderAligned(s)'
      BY <3>1, <3>2, <3>3, <3>5 DEF ReaderAligned, InFile
    <3>7. ReadTo(s)' = After(Got(s))
      BY <2>5, <3>1, <3>2, <3>3 DEF ReadTo, InFile, After
    <3>. QED
      BY <1>4, <2>1, <2>4, <3>2, <3>6, <3>7, ReadStreams
  <2>6. CASE Got(s).type # "file"
    <3>1. Become(s, "pong") \/ UNCHANGED recv
      BY <1>5, <2>3, <2>6, ReadHeaderGoes
    <3>2. recv'[s].pc \in {"header", "pong"} /\ recv'[p] = recv[p]
      BY <2>1, <3>1, BecomeGoes
    <3>3. ReaderAligned(s)' /\ ReadTo(s)' = Between
      BY <3>2 DEF ReaderAligned, ReadTo, InFile
    <3>4. After(Got(s)) = Between
      BY <2>3, <2>6 DEF After
    <3>. QED
      BY <1>4, <2>1, <2>4, <3>2, <3>3, <3>4, ReadStreams
  <2>. QED
    BY <2>5, <2>6
<1>6. CASE ReadData(s)
  <2>1. Read(s, "data") /\ recv[s].pc = "data" /\ InFile(s) /\ recv[s].file \in FilesOf(p)
    BY <1>6, ReadDataGoes DEF Read, InFile
  <2>2. PICK r \in Readers :
                 /\ recv' = [recv EXCEPT ![s] = r]
                 /\ r.remaining = recv[s].remaining - Got(s).len
                 /\ r.pc = AfterRead(r.remaining)
                 /\ r.file = recv[s].file /\ r.got = recv[s].got + Got(s).len
                 /\ r.intact = (/\ recv[s].intact /\ Got(s).type = "data"
                                /\ Got(s).file = recv[s].file /\ Got(s).n = recv[s].got)
                 /\ UNCHANGED pongs
    BY <1>6, ReadDataGoes
  <2>3. recv'[s] = r /\ recv'[p] = recv[p]
    BY <2>1, <2>2, ReaderGoes
  <2>4. /\ Fits(<<recv[s].file, recv[s].got>>, Got(s)) /\ Got(s) \in FramesOf(p)
    BY <2>1, HeadFits DEF ReadTo
  <2>5. /\ recv[s].intact /\ Size(recv[s].file) \in Nat /\ recv[s].got \in Nat
        /\ recv[s].remaining = Size(recv[s].file) - recv[s].got
        /\ recv[s].remaining > 0 /\ recv[s].file # NoFile
    <3>1. AfterRead(recv[s].remaining) = "data"
      BY <1>3, <2>1 DEF ReaderAligned
    <3>. QED
      BY <1>1, <1>3, <2>1, <3>1, FileIsNotNone DEF ReaderAligned, AfterRead, Readers
  <2>6. /\ Got(s).type = "data" /\ Got(s).file = recv[s].file /\ Got(s).n = recv[s].got
        /\ Got(s).n + Got(s).len <= Size(Got(s).file) /\ Got(s).len \in Nat
    <3>1. recv[s].got # Size(recv[s].file)
      BY <2>5
    <3>2. Got(s).len \in Nat
      BY <2>4 DEF FramesOf, Frames
    <3>. QED
      BY <2>4, <2>5, <3>1, <3>2 DEF Fits, Between
  <2>7. /\ r.intact /\ r.got <= Size(r.file) /\ r.remaining = Size(r.file) - r.got
    BY <2>2, <2>5, <2>6
  <2>8. r.pc \in {"data", "checksum"}
    BY <2>2 DEF AfterRead
  <2>9. ReaderAligned(s)'
    BY <2>2, <2>3, <2>7, <2>8 DEF ReaderAligned, InFile
  <2>10. ReadTo(s)' = After(Got(s))
    BY <2>2, <2>3, <2>6, <2>8 DEF ReadTo, InFile, After
  <2>11. \A t \in Sides : Sending(t) => PingsAnswered'
    BY <1>3, <1>4, <2>2 DEF PingsAnswered
  <2>. QED
    BY <1>4, <2>1, <2>3, <2>9, <2>10, <2>11, ReadStreams
<1>7. CASE ReadChecksum(s)
  <2>1. /\ Read(s, "checksum") /\ recv[s].pc = "checksum" /\ InFile(s)
        /\ recv[s].file \in FilesOf(p) /\ UNCHANGED pongs
    BY <1>7, ReadChecksumGoes DEF Read, InFile
  <2>2. /\ Fits(<<recv[s].file, recv[s].got>>, Got(s)) /\ Got(s) \in FramesOf(p)
    BY <2>1, HeadFits DEF ReadTo
  <2>3. /\ recv[s].intact /\ recv[s].got = Size(recv[s].file) /\ recv[s].file # NoFile
        /\ recv[s].got \in Nat
    <3>1. AfterRead(recv[s].remaining) = "checksum"
      BY <1>3, <2>1 DEF ReaderAligned
    <3>2. ~(recv[s].remaining > 0) /\ recv[s].remaining = Size(recv[s].file) - recv[s].got
          /\ recv[s].intact /\ recv[s].got <= Size(recv[s].file)
      BY <1>3, <2>1, <3>1 DEF ReaderAligned, AfterRead
    <3>3. recv[s].got \in Nat /\ Size(recv[s].file) \in Nat /\ recv[s].file # NoFile
      BY <1>1, <1>3, <2>1, FileIsNotNone DEF Readers
    <3>. QED
      BY <3>2, <3>3
  <2>4. Got(s).type = "checksum" /\ Got(s).file = recv[s].file /\ Got(s).n = recv[s].got
    <3>1. Got(s).len \in Nat
      BY <2>2 DEF FramesOf, Frames
    <3>2. <<recv[s].file, recv[s].got>> # Between
      BY <2>3 DEF Between
    <3>3. Got(s).type = "checksum" /\ <<recv[s].file, recv[s].got>> = <<Got(s).file, Size(Got(s).file)>>
          /\ Got(s).n = Size(Got(s).file)
      <4>1. ~(/\ Got(s).type = "data" /\ <<recv[s].file, recv[s].got>> = <<Got(s).file, Got(s).n>>
              /\ Got(s).len > 0 /\ Got(s).n + Got(s).len <= Size(Got(s).file))
        <5>. SUFFICES ASSUME <<recv[s].file, recv[s].got>> = <<Got(s).file, Got(s).n>>,
                             Got(s).len > 0, Got(s).n + Got(s).len <= Size(Got(s).file)
                      PROVE  FALSE
          OBVIOUS
        <5>1. Got(s).file = recv[s].file /\ Got(s).n = recv[s].got
          OBVIOUS
        <5>. QED
          BY <2>3, <3>1, <5>1
      <4>. QED
        BY <2>2, <3>2, <4>1 DEF Fits
    <3>. QED
      BY <2>3, <3>3
  <2>5. SameDigest(recv[s], Got(s))
    BY <2>3, <2>4 DEF SameDigest
  <2>6. Become(s, "header")
    BY <1>7, <2>4, <2>5, ReadChecksumGoes
  <2>7. recv'[s].pc = "header" /\ recv'[p] = recv[p]
    BY <2>6, BecomeGoes
  <2>8. ReaderAligned(s)' /\ ReadTo(s)' = Between
    BY <2>7 DEF ReaderAligned, ReadTo, InFile
  <2>9. After(Got(s)) = Between
    BY <2>4 DEF After
  <2>10. \A t \in Sides : Sending(t) => PingsAnswered'
    BY <1>3, <1>4, <2>1 DEF PingsAnswered
  <2>. QED
    BY <1>4, <2>1, <2>7, <2>8, <2>9, <2>10, ReadStreams
<1>8. CASE AnswerPing(s)
  <2>1. /\ recv[s].pc = "pong" /\ UNCHANGED pongs
        /\ Write(s, Control("pong")) /\ Become(s, "header")
    BY <1>2, <1>8 DEF AnswerPing
  <2>2. recv'[s].pc = "header" /\ recv'[p] = recv[p]
    BY <2>1, BecomeGoes
  <2>3. \A t \in Sides : ~Sending(t)
    BY <1>1, <2>1, TestIsNotOver, TestsAreAlone
  <2>4. ReaderAligned(s)' /\ ReadTo(s)' = Between /\ ReadTo(s) = Between
    BY <2>1, <2>2 DEF ReaderAligned, ReadTo, InFile
  <2>5. wire'[s] = Append(wire[s], Control("pong")) /\ wire'[p] = wire[p]
    BY <2>1, WriteAppends, ControlFrames DEF OriginInv, TypeOK
  <2>6. /\ ReaderAligned(p)' /\ OneAtATime(p)' /\ ReadTo(p)' = ReadTo(p)
        /\ EndOf(p)' = EndOf(p) => WritersAligned(p)'
    BY <1>1, <1>4, <2>2, <2>3, IdleSide
  <2>7. Aligned(p)' /\ EndOf(p)' = EndOf(p)
    BY <1>1, <2>4, <2>5, StreamStays DEF Streams
  <2>8. Fits(EndOf(s), Control("pong")) /\ After(Control("pong")) = Between
        /\ EndOf(s) = Between
    BY <2>3, NothingSent DEF Fits, After, Control, Frame
  <2>9. Aligned(s)' /\ EndOf(s)' = EndOf(s)
    <3>1. wire[s] \in Seq(Frames) /\ Control("pong") \in Frames /\ Aligned(s)
      BY ControlFrames DEF OriginInv, TypeOK, FramesOf, Streams
    <3>. QED
      BY <1>1, <2>5, <2>6, <2>8, <3>1, StreamGrows
  <2>10. \A m \in Batches(s) : ~Active(s, m)' /\ ~Writing(s, m)'
    BY <1>4, <2>3 DEF Sending, Active, Writing
  <2>11. OneAtATime(s)' /\ WritersAligned(s)'
    BY <2>8, <2>9, <2>10 DEF OneAtATime, WritersAligned, Sending, Batches
  <2>. QED
    BY <1>1, <2>4, <2>6, <2>7, <2>9, <2>11 DEF Streams
<1>9. CASE ReadFails(s)
  BY <1>2, <1>9 DEF ReadFails
<1>. QED
  BY <1>5, <1>6, <1>7, <1>8, <1>9 DEF ReceiveWorker

(* The end of the work of one event: the user is told, nothing is sent.    *)
LEMMA OtherStreams ==
    ASSUME Streams, UNCHANGED <<wire, senders, pings, pinged, recv, pongs>>
    PROVE  Streams'
<1>1. \A s \in Sides : ReadTo(s)' = ReadTo(s) /\ ReaderAligned(s)'
  BY DEF Streams, ReadTo, ReaderAligned, InFile
<1>2. \A s \in Sides : Aligned(s)' /\ EndOf(s)' = EndOf(s)
  BY <1>1, StreamStays, Peers DEF Streams
<1>3. \A s \in Sides : OneAtATime(s)' /\ WritersAligned(s)'
  BY <1>2 DEF Streams, OneAtATime, WritersAligned, Writing, Active, Sending, PingsAnswered,
              Batches
<1>. QED
  BY <1>1, <1>2, <1>3 DEF Streams

(* Files and readers are aligned when the users are orderly, files stay as *)
(* they are, and neither side has closed.                                  *)
StreamInv == Orderly /\ ~FilesChange /\ BothOpen => Streams

(* Every step keeps the streams in step with their readers and writers.    *)
LEMMA StepStreams == OriginInv /\ TestsInv /\ StreamInv /\ [Next]_vars => StreamInv'
<1>. SUFFICES ASSUME OriginInv, TestsInv, StreamInv, [Next]_vars,
                     Orderly, ~FilesChange, BothOpen'
              PROVE  Streams'
  BY DEF StreamInv
<1>1. BothOpen
  <2>1. open \in [Sides -> BOOLEAN]
    BY DEF OriginInv, TypeOK
  <2>2. UNCHANGED open \/ \E s \in Sides : open' = [open EXCEPT ![s] = FALSE]
    <3>1. ASSUME NEW s \in Sides, NEW n \in Batches(s), on_send_files(s, n) \/ SendWorker(s, n)
          PROVE  UNCHANGED open
      BY <3>1 DEF on_send_files, SendWorker, SendHeader, SendChunk, SendChecksum, SendDone,
                  SendFails
    <3>2. ASSUME NEW s \in Sides, on_test_channel(s) \/ PingWorker(s)
                                  \/ ReceiveWorker(s) \/ HandleReceiveStopped(s)
          PROVE  UNCHANGED open
      BY <3>2 DEF on_test_channel, PingWorker, HandleReceiveStopped, ReceiveWorker, ReadHeader,
                  ReadData, ReadChecksum, AnswerPing, ReadFails
    <3>3. ASSUME NEW s \in Sides, Close(s)
          PROVE  open' = [open EXCEPT ![s] = FALSE]
      BY <3>3 DEF Close
    <3>. QED
      BY <3>1, <3>2, <3>3 DEF Next, Rest, vars
  <2>. QED
    BY <2>1, <2>2 DEF BothOpen, Sides
<1>2. Streams
  BY <1>1 DEF StreamInv
<1>3. ASSUME NEW s \in Sides, NEW n \in Batches(s), on_send_files(s, n) \/ SendWorker(s, n)
      PROVE  Streams'
  BY <1>1, <1>2, <1>3, SendWorkerStreams
<1>4. ASSUME NEW s \in Sides, on_test_channel(s) \/ PingWorker(s)
      PROVE  Streams'
  BY <1>1, <1>2, <1>4, PingStreams
<1>5. ASSUME NEW s \in Sides, ReceiveWorker(s)
      PROVE  Streams'
  BY <1>1, <1>2, <1>5, ReaderStreams
<1>6. ASSUME NEW s \in Sides, HandleReceiveStopped(s)
      PROVE  Streams'
  BY <1>2, <1>6, OtherStreams DEF HandleReceiveStopped
<1>7. ASSUME NEW s \in Sides, Close(s)
      PROVE  FALSE
  BY <1>7 DEF Close, BothOpen, Sides, OriginInv, TypeOK
<1>8. CASE Rest \/ UNCHANGED vars
  BY <1>2, <1>8, OtherStreams DEF Rest, vars
<1>. QED
  BY <1>3, <1>4, <1>5, <1>6, <1>7, <1>8 DEF Next

(* At the start nothing is on its way, and every stream is between two     *)
(* files.                                                                  *)
LEMMA InitStreams == Init => StreamInv
<1>. SUFFICES ASSUME Init, NEW s \in Sides
              PROVE  Aligned(s) /\ ReaderAligned(s) /\ WritersAligned(s) /\ OneAtATime(s)
  BY DEF StreamInv, Streams
<1>1. Len(wire[s]) = 0 /\ Peer(s) \in Sides
  BY Peers, EmptySeq DEF Init
<1>2. recv[s].pc = "header" /\ recv[Peer(s)].pc = "header"
  BY <1>1 DEF Init
<1>3. \A n \in Batches(s) : ~Active(s, n) /\ ~Writing(s, n)
  BY DEF Init, Active, Writing
<1>4. EndOf(s) = Between
  BY <1>1, <1>2 DEF EndOf, At, ReadTo, InFile
<1>5. Aligned(s)
  BY <1>1 DEF Aligned
<1>6. ReaderAligned(s)
  BY <1>2 DEF ReaderAligned, InFile
<1>7. WritersAligned(s) /\ OneAtATime(s)
  BY <1>3, <1>4 DEF WritersAligned, OneAtATime, Sending
<1>. QED
  BY <1>5, <1>6, <1>7

(* On an unbroken connection the reader never meets a frame it does not    *)
(* expect or a checksum that is wrong, when the users send one thing at a  *)
(* time and files stay what they are.  Neither hypothesis is enforced by   *)
(* the program; what happens without them is in the runs.                  *)
THEOREM OrderlyReaderStaysInStep == Spec => [](Orderly /\ ~FilesChange => ReaderInStep)
<1>1. Spec => []StreamInv
  <2>1. Spec => []TestsInv
    BY InitTests, StepTests, OriginInvariant, PTL DEF Spec
  <2>. QED
    BY <2>1, InitStreams, StepStreams, OriginInvariant, PTL DEF Spec
<1>2. StreamInv => (Orderly /\ ~FilesChange => ReaderInStep)
  BY DEF StreamInv, Streams, ReaderInStep, BothOpen, ReaderAligned
<1>. QED
  BY <1>1, <1>2, PTL

-----------------------------------------------------------------------------
(***************************************************************************)
(* Batches arrive in order, whatever the users do and whatever is lost.    *)
(***************************************************************************)

(* The files that the frames of a type on the wire are about.              *)
FilesIn(q, type) == {q[i].file : i \in {j \in 1..Len(q) : q[j].type = type}}

Headers(s) == FilesIn(wire[s], "file")

Current(s) == IF InFile(Peer(s)) THEN {recv[Peer(s)].file} ELSE {}

(* The reader has lost nothing so far of what it has begun to read.        *)
InStep(s) == recv[s].pc \in {"header", "pong"} \/ (InFile(s) /\ recv[s].intact)

(* The headers a side may have written, those it has surely written, and   *)
(* the files it may have written whole.                                    *)
Begun(s) == {f \in FilesOf(s) :
    LET t == senders[s][f[2]] IN
    f[3] < t.k \/ (f[3] = t.k /\ t.pc \notin {"idle", "header"})}

Announced(s) == {f \in FilesOf(s) :
    LET t == senders[s][f[2]] IN
    f[3] < t.k \/ (f[3] = t.k /\ t.pc \in {"data", "checksum", "done", "ended"})}

Finished(s) == {f \in FilesOf(s) : Written(s, f[2], f[3])}

Earlier(f, g) == f[2] = g[2] => f[3] < g[3]

Predecessor(f) == <<f[1], f[2], f[3] - 1>>

(* Headers and checksums are written in order, and each once.              *)
WrittenInOrder(s) ==
    /\ \A i, j \in 1..Len(wire[s]) :
          i < j /\ wire[s][i].type = "file" /\ wire[s][j].type = "file" =>
              Earlier(wire[s][i].file, wire[s][j].file)
    /\ \A i, j \in 1..Len(wire[s]) :
          i < j /\ wire[s][i].type = "checksum" /\ wire[s][j].type = "checksum" =>
              wire[s][i].file # wire[s][j].file
    /\ Headers(s) \cup Current(s) \subseteq Begun(s)
    /\ FilesIn(wire[s], "checksum") \cup Accepted(s) \subseteq Finished(s)

(* What is accepted was read before what is read now, and that before what *)
(* is still on the wire.                                                   *)
ReadInOrder(s) ==
    /\ \A f \in Accepted(s) : \A g \in Current(s) \cup Headers(s) : Earlier(f, g)
    /\ \A f \in Current(s) : \A g \in Headers(s) : Earlier(f, g)

(* No file is left out, and no checksum comes before its file, while the   *)
(* reader is in step.                                                      *)
NoneLeftOut(s) ==
    InStep(Peer(s)) =>
        /\ \A f \in Headers(s) \cup Current(s) :
              f[3] > 1 => Predecessor(f) \in Headers(s) \cup Current(s) \cup Accepted(s)
        /\ Connected(s) => Announced(s) \subseteq Headers(s) \cup Current(s) \cup Accepted(s)
        /\ \A j \in 1..Len(wire[s]) : wire[s][j].type = "checksum" =>
              \/ wire[s][j].file \in Current(s)
              \/ \E i \in 1..(j - 1) : wire[s][i].type = "file" /\ wire[s][i].file = wire[s][j].file

(* The order of what has been accepted.                                    *)
AcceptedInOrder(s) ==
    \A j \in 1..Len(received[Peer(s)]) :
        LET f == received[Peer(s)][j] IN
        /\ f[3] > 1 => \E i \in 1..(j - 1) : received[Peer(s)][i] = Predecessor(f)
        /\ \A i \in 1..(j - 1) : received[Peer(s)][i] # f

LinkInv(s) == WrittenInOrder(s) /\ ReadInOrder(s) /\ NoneLeftOut(s) /\ AcceptedInOrder(s)

OrderInv == \A s \in Sides : LinkInv(s)

(* The parts of a file.                                                    *)
LEMMA FileParts ==
    ASSUME NEW s \in Sides, NEW f \in FilesOf(s)
    PROVE  /\ f = <<s, f[2], f[3]>> /\ f[2] \in Batches(s) /\ f[3] \in 1..Len(Batch)
           /\ f[3] \in Nat
BY DEF FilesOf

(* A frame that is written adds its file to those of its type.             *)
LEMMA FilesInAppend ==
    ASSUME NEW q \in Seq(Frames), NEW frame \in Frames, NEW type
    PROVE  FilesIn(Append(q, frame), type) =
               FilesIn(q, type) \cup (IF frame.type = type THEN {frame.file} ELSE {})
<1>. DEFINE a == Append(q, frame)
<1>1. /\ Len(q) \in Nat /\ Len(a) = Len(q) + 1 /\ a[Len(q) + 1] = frame
      /\ \A i \in 1..Len(q) : a[i] = q[i]
  BY AppendProperties, LenProperties
<1>2. 1..Len(a) = (1..Len(q)) \cup {Len(q) + 1}
  BY <1>1
<1>. HIDE DEF a
<1>. QED
  BY <1>1, <1>2 DEF FilesIn, a

(* A frame that is read takes its file from them, unless it comes again.   *)
LEMMA FilesInTail ==
    ASSUME NEW q \in Seq(Frames), q # << >>, NEW type
    PROVE  FilesIn(q, type) =
               FilesIn(Tail(q), type) \cup (IF Head(q).type = type THEN {Head(q).file} ELSE {})
<1>. DEFINE a == Tail(q)
<1>1. /\ Len(q) \in Nat \ {0} /\ Len(a) = Len(q) - 1 /\ Head(q) = q[1]
      /\ \A i \in 1..Len(a) : a[i] = q[i + 1]
  BY HeadTailProperties, EmptySeq, LenProperties
<1>. HIDE DEF a
<1>2. FilesIn(a, type) \subseteq FilesIn(q, type)
  <2>1. \A i \in 1..Len(a) : i + 1 \in 1..Len(q)
    BY <1>1
  <2>. QED
    BY <1>1, <2>1 DEF FilesIn
<1>3. Head(q).type = type => Head(q).file \in FilesIn(q, type)
  BY <1>1 DEF FilesIn
<1>4. ASSUME NEW i \in 1..Len(q), q[i].type = type
      PROVE  q[i].file \in FilesIn(a, type) \cup (IF Head(q).type = type THEN {Head(q).file} ELSE {})
  <2>1. CASE i = 1
    BY <1>1, <1>4, <2>1
  <2>2. CASE i # 1
    <3>1. i - 1 \in 1..Len(a) /\ (i - 1) + 1 = i
      BY <1>1, <2>2
    <3>2. a[i - 1] = q[i]
      BY <1>1, <3>1
    <3>. QED
      BY <1>4, <3>1, <3>2 DEF FilesIn
  <2>. QED
    BY <2>1, <2>2
<1>5. FilesIn(q, type) \subseteq
          FilesIn(a, type) \cup (IF Head(q).type = type THEN {Head(q).file} ELSE {})
  BY <1>4 DEF FilesIn
<1>. QED
  BY <1>2, <1>3, <1>5 DEF a

(* The files on the wire are those of its writer.                          *)
LEMMA LinkFiles ==
    ASSUME OriginInv, NEW s \in Sides
    PROVE  /\ Headers(s) \subseteq FilesOf(s) /\ FilesIn(wire[s], "checksum") \subseteq FilesOf(s)
           /\ Current(s) \subseteq FilesOf(s)
<1>1. wire[s] \in Seq(FramesOf(s))
  BY DEF OriginInv, WireInv
<1>2. \A i \in 1..Len(wire[s]) : wire[s][i] \in FramesOf(s)
  BY <1>1, ElementOfSeq
<1>3. Current(s) \subseteq FilesOf(s)
  BY Peers DEF OriginInv, ReaderInv, Current, InFile
<1>. QED
  BY <1>2, <1>3 DEF Headers, FilesIn, FramesOf

(* A link on which nothing is written, read or accepted; at most the       *)
(* reader has stopped or the connection ended.                             *)
LEMMA SameLink ==
    ASSUME NEW s \in Sides, LinkInv(s),
           wire'[s] = wire[s], received'[Peer(s)] = received[Peer(s)],
           \A m \in Batches(s) : senders'[s][m] = senders[s][m],
           Current(s)' \subseteq Current(s), InStep(Peer(s))' => Current(s)' = Current(s),
           InStep(Peer(s))' => InStep(Peer(s)), Connected(s)' => Connected(s)
    PROVE  LinkInv(s)'
<1>1. Headers(s)' = Headers(s) /\ Accepted(s)' = Accepted(s)
      /\ FilesIn(wire[s], "checksum")' = FilesIn(wire[s], "checksum")
  BY DEF Headers, FilesIn, Accepted
<1>2. Begun(s)' = Begun(s) /\ Announced(s)' = Announced(s) /\ Finished(s)' = Finished(s)
  BY FileParts DEF Begun, Announced, Finished, Written, FilesOf, Batches
<1>3. WrittenInOrder(s)'
  BY <1>1, <1>2 DEF LinkInv, WrittenInOrder
<1>4. ReadInOrder(s)'
  BY <1>1 DEF LinkInv, ReadInOrder
<1>5. NoneLeftOut(s)'
  BY <1>1, <1>2 DEF LinkInv, NoneLeftOut
<1>6. AcceptedInOrder(s)'
  BY DEF LinkInv, AcceptedInOrder
<1>. QED
  BY <1>3, <1>4, <1>5, <1>6 DEF LinkInv

(* A worker goes forward: to the next file, or on with the same one.       *)
Forward(t, record) ==
    \/ /\ record.k = t.k
       /\ t.pc \notin {"idle", "header"} => record.pc \notin {"idle", "header"}
       /\ t.pc \in {"done", "ended", "failed"} => record.pc \in {"done", "ended", "failed"}
    \/ record.k = t.k + 1

(* What a worker has begun and finished stays so; what it has announced    *)
(* grows by the header it writes.                                          *)
LEMMA ForwardGrows ==
    ASSUME OriginInv, NEW s \in Sides, NEW n \in Batches(s), NEW record \in SendWorkers,
           Moves(s, n, record), Forward(senders[s][n], record)
    PROVE  /\ Begun(s) \subseteq Begun(s)' /\ Finished(s) \subseteq Finished(s)'
           /\ \A m \in Batches(s) : m # n => senders'[s][m] = senders[s][m]
           /\ \A m \in Batches(Peer(s)) : senders'[Peer(s)][m] = senders[Peer(s)][m]
           /\ senders'[s][n] = record
<1>1. DOMAIN senders = Sides /\ \A t \in Sides : senders[t] \in [Batches(t) -> SendWorkers]
  BY DEF OriginInv, TypeOK, SendWorkers
<1>2. /\ senders'[s][n] = record
      /\ \A t \in Sides : \A m \in Batches(t) :
            <<t, m>> # <<s, n>> => senders'[t][m] = senders[t][m]
  BY <1>1, StepChanges DEF Moves
<1>3. /\ \A m \in Batches(s) : m # n => senders'[s][m] = senders[s][m]
      /\ \A m \in Batches(Peer(s)) : senders'[Peer(s)][m] = senders[Peer(s)][m]
  BY <1>2, Peers
<1>4. senders[s][n].k \in Nat /\ record.k \in Nat
  BY <1>1 DEF SendWorkers
<1>5. ASSUME NEW f \in FilesOf(s)
      PROVE  /\ f \in Begun(s) => f \in Begun(s)'
             /\ f \in Finished(s) => f \in Finished(s)'
  <2>1. f[2] \in Batches(s) /\ f[3] \in Nat
    BY FileParts
  <2>2. f \in FilesOf(s)'
    BY DEF FilesOf, Batches
  <2>3. CASE f[2] = n
    <3>1. /\ f \in Begun(s) <=> (\/ f[3] < senders[s][n].k
                                 \/ /\ f[3] = senders[s][n].k
                                    /\ senders[s][n].pc \notin {"idle", "header"})
          /\ f \in Begun(s)' <=> (\/ f[3] < record.k
                                  \/ f[3] = record.k /\ record.pc \notin {"idle", "header"})
      BY <1>2, <2>2, <2>3 DEF Begun
    <3>2. /\ f \in Finished(s) <=> (\/ f[3] < senders[s][n].k
                                    \/ /\ f[3] = senders[s][n].k
                                       /\ senders[s][n].pc \in {"done", "ended", "failed"})
          /\ f \in Finished(s)' <=> (\/ f[3] < record.k
                                     \/ f[3] = record.k /\ record.pc \in {"done", "ended", "failed"})
      BY <1>2, <2>2, <2>3 DEF Finished, Written
    <3>. QED
      BY <1>4, <2>1, <3>1, <3>2 DEF Forward
  <2>4. CASE f[2] # n
    BY <1>3, <2>1, <2>2, <2>4 DEF Begun, Finished, Written
  <2>. QED
    BY <2>3, <2>4
<1>6. Begun(s) \subseteq FilesOf(s) /\ Finished(s) \subseteq FilesOf(s)
  BY DEF Begun, Finished
<1>. QED
  BY <1>2, <1>3, <1>5, <1>6

(* A batch that is started, and one that fails: nothing is written.        *)
LEMMA QuietWorkerLink ==
    ASSUME OriginInv, NEW s \in Sides, LinkInv(s), NEW n \in Batches(s),
           on_send_files(s, n) \/ SendFails(s, n)
    PROVE  LinkInv(s)'
<1>1. PICK record \in SendWorkers :
               /\ Moves(s, n, record) /\ UNCHANGED wire
               /\ record.pc \in {"header", "failed"} /\ record.k = senders[s][n].k
               /\ record.pc = "header" => senders[s][n].pc = "idle"
  <2>1. CASE on_send_files(s, n)
    <3>1. PICK record \in SendWorkers :
               /\ Moves(s, n, record) /\ UNCHANGED wire
               /\ record.pc \in {"header", "failed"} /\ record.k = senders[s][n].k
      BY <2>1, StartOrFailMoves
    <3>. QED
      BY <2>1, <3>1 DEF on_send_files
  <2>2. CASE SendFails(s, n)
    <3>1. PICK record \in SendWorkers :
               /\ Moves(s, n, record) /\ UNCHANGED wire
               /\ record.pc \in {"header", "failed"} /\ record.k = senders[s][n].k
      BY <2>2, StartOrFailMoves
    <3>2. record.pc = "failed"
      <4>1. senders' = [senders EXCEPT ![s][n] = [senders[s][n] EXCEPT !.pc = "failed"]]
        BY <2>2 DEF SendFails, Step
      <4>2. senders[s] \in [Batches(s) -> SendWorkers] /\ s \in DOMAIN senders
        BY DEF OriginInv, TypeOK, SendWorkers
      <4>3. senders[s][n] \in SendWorkers
        BY <4>2
      <4>4. senders'[s][n] = [senders[s][n] EXCEPT !.pc = "failed"]
        BY <4>1, <4>2
      <4>5. senders'[s][n] = record
        BY <3>1, <4>2 DEF Moves, Step
      <4>. QED
        BY <4>3, <4>4, <4>5 DEF SendWorkers
    <3>. QED
      BY <3>1, <3>2
  <2>. QED
    BY <2>1, <2>2
<1>2. Forward(senders[s][n], record)
  BY <1>1 DEF Forward
<1>3. /\ Begun(s) \subseteq Begun(s)' /\ Finished(s) \subseteq Finished(s)'
      /\ \A m \in Batches(s) : m # n => senders'[s][m] = senders[s][m]
      /\ senders'[s][n] = record
      /\ UNCHANGED <<open, recv, received>>
  BY <1>1, <1>2, ForwardGrows DEF Moves
<1>4. Announced(s)' \subseteq Announced(s)
  <2>. SUFFICES ASSUME NEW f \in FilesOf(s), f \in Announced(s)' PROVE f \in Announced(s)
    BY DEF Announced, FilesOf, Batches
  <2>1. f[2] \in Batches(s)
    BY FileParts
  <2>2. CASE f[2] = n
    BY <1>1, <1>3, <2>2 DEF Announced
  <2>3. CASE f[2] # n
    BY <1>3, <2>1, <2>3 DEF Announced
  <2>. QED
    BY <2>2, <2>3
<1>5. /\ Headers(s)' = Headers(s) /\ Accepted(s)' = Accepted(s) /\ Current(s)' = Current(s)
      /\ FilesIn(wire[s], "checksum")' = FilesIn(wire[s], "checksum")
      /\ InStep(Peer(s))' = InStep(Peer(s)) /\ Connected(s)' = Connected(s)
  BY <1>1, <1>3 DEF Headers, FilesIn, Accepted, Current, InStep, InFile, Connected
<1>6. WrittenInOrder(s)'
  BY <1>1, <1>3, <1>5 DEF LinkInv, WrittenInOrder
<1>7. ReadInOrder(s)'
  BY <1>5 DEF LinkInv, ReadInOrder
<1>8. NoneLeftOut(s)'
  BY <1>1, <1>4, <1>5 DEF LinkInv, NoneLeftOut
<1>9. AcceptedInOrder(s)'
  BY <1>3 DEF LinkInv, AcceptedInOrder
<1>. QED
  BY <1>6, <1>7, <1>8, <1>9 DEF LinkInv

(* What is written whole has been begun.                                   *)
LEMMA FinishedIsBegun ==
    ASSUME NEW s \in Sides
    PROVE  Finished(s) \subseteq Begun(s)
BY DEF Finished, Begun, Written

(* A frame that is written in order: a header comes after all that is      *)
(* begun, its predecessor having been announced; a checksum when the file  *)
(* is announced and not finished.                                          *)
LEMMA WriterLink ==
    ASSUME OriginInv, NEW s \in Sides, LinkInv(s), NEW frame \in FramesOf(s), Write(s, frame),
           UNCHANGED <<open, received>>, Current(s)' = Current(s),
           InStep(Peer(s))' = InStep(Peer(s)),
           Begun(s) \subseteq Begun(s)', Finished(s) \subseteq Finished(s)',
           frame.type = "file" =>
               /\ \A g \in Begun(s) : Earlier(g, frame.file)
               /\ frame.file \in Begun(s)'
               /\ frame.file[3] > 1 => Predecessor(frame.file) \in Announced(s),
           frame.type = "checksum" =>
               /\ frame.file \in Announced(s) \ Finished(s) /\ frame.file \in Finished(s)',
           Announced(s)' \subseteq
               Announced(s) \cup (IF frame.type = "file" THEN {frame.file} ELSE {})
    PROVE  LinkInv(s)'
<1>. DEFINE m == Len(wire[s])
            w == wire'[s]
<1>1. /\ wire[s] \in Seq(Frames) /\ frame \in Frames /\ w = Append(wire[s], frame)
      /\ Connected(s)
  BY WriteAppends DEF OriginInv, TypeOK, FramesOf, Write
<1>2. /\ m \in Nat /\ Len(w) = m + 1 /\ w[m + 1] = frame
      /\ \A i \in 1..m : w[i] = wire[s][i]
  BY <1>1, AppendProperties, LenProperties
<1>3. /\ Headers(s)' = Headers(s) \cup (IF frame.type = "file" THEN {frame.file} ELSE {})
      /\ FilesIn(w, "checksum") = FilesIn(wire[s], "checksum")
             \cup (IF frame.type = "checksum" THEN {frame.file} ELSE {})
  BY <1>1, FilesInAppend DEF Headers
<1>4. Accepted(s)' = Accepted(s)
  BY DEF Accepted
<1>5. /\ Headers(s) \cup Current(s) \subseteq Begun(s)
      /\ FilesIn(wire[s], "checksum") \cup Accepted(s) \subseteq Finished(s)
      /\ Finished(s) \subseteq Begun(s)
  BY FinishedIsBegun DEF LinkInv, WrittenInOrder
<1>6. \A i \in 1..m : /\ wire[s][i].type = "file" => wire[s][i].file \in Headers(s)
                      /\ wire[s][i].type = "checksum" =>
                            wire[s][i].file \in FilesIn(wire[s], "checksum")
  BY DEF Headers, FilesIn
<1>. HIDE DEF w, m
<1>7. \A i \in 1..Len(w) : i \in 1..m \/ i = m + 1
  BY <1>2
<1>8. WrittenInOrder(s)'
  <2>1. ASSUME NEW i \in 1..Len(w), NEW j \in 1..Len(w), i < j,
               w[i].type = "file", w[j].type = "file"
        PROVE  Earlier(w[i].file, w[j].file)
    <3>1. i \in 1..m
      BY <1>2, <1>7, <2>1
    <3>2. CASE j \in 1..m
      BY <1>2, <2>1, <3>1, <3>2 DEF LinkInv, WrittenInOrder, m
    <3>3. CASE j = m + 1
      BY <1>2, <1>5, <1>6, <2>1, <3>1, <3>3
    <3>. QED
      BY <1>7, <3>2, <3>3
  <2>2. ASSUME NEW i \in 1..Len(w), NEW j \in 1..Len(w), i < j,
               w[i].type = "checksum", w[j].type = "checksum"
        PROVE  w[i].file # w[j].file
    <3>1. i \in 1..m
      BY <1>2, <1>7, <2>2
    <3>2. CASE j \in 1..m
      BY <1>2, <2>2, <3>1, <3>2 DEF LinkInv, WrittenInOrder, m
    <3>3. CASE j = m + 1
      BY <1>2, <1>5, <1>6, <2>2, <3>1, <3>3
    <3>. QED
      BY <1>7, <3>2, <3>3
  <2>3. Headers(s)' \cup Current(s)' \subseteq Begun(s)'
    BY <1>3, <1>5
  <2>4. FilesIn(w, "checksum") \cup Accepted(s)' \subseteq Finished(s)'
    BY <1>3, <1>4, <1>5
  <2>. QED
    BY <2>1, <2>2, <2>3, <2>4 DEF WrittenInOrder, w
<1>9. ReadInOrder(s)'
  BY <1>3, <1>4, <1>5 DEF LinkInv, ReadInOrder
<1>10. NoneLeftOut(s)'
  <2>. SUFFICES ASSUME InStep(Peer(s))
                PROVE  /\ \A f \in Headers(s)' \cup Current(s) : f[3] > 1 =>
                              Predecessor(f) \in Headers(s)' \cup Current(s) \cup Accepted(s)
                       /\ Announced(s)' \subseteq Headers(s)' \cup Current(s) \cup Accepted(s)
                       /\ \A j \in 1..Len(w) : w[j].type = "checksum" =>
                              \/ w[j].file \in Current(s)
                              \/ \E i \in 1..(j - 1) : w[i].type = "file" /\ w[i].file = w[j].file
    BY <1>4 DEF NoneLeftOut, w
  <2>1. Announced(s) \subseteq Headers(s) \cup Current(s) \cup Accepted(s)
    BY <1>1 DEF LinkInv, NoneLeftOut
  <2>2. \A f \in Headers(s) \cup Current(s) :
              f[3] > 1 => Predecessor(f) \in Headers(s) \cup Current(s) \cup Accepted(s)
    BY DEF LinkInv, NoneLeftOut
  <2>3. Announced(s)' \subseteq Headers(s)' \cup Current(s) \cup Accepted(s)
    BY <1>3, <2>1
  <2>4. \A f \in Headers(s)' \cup Current(s) : f[3] > 1 =>
              Predecessor(f) \in Headers(s)' \cup Current(s) \cup Accepted(s)
    BY <1>3, <2>1, <2>2
  <2>5. ASSUME NEW j \in 1..Len(w), w[j].type = "checksum"
        PROVE  \/ w[j].file \in Current(s)
               \/ \E i \in 1..(j - 1) : w[i].type = "file" /\ w[i].file = w[j].file
    <3>1. CASE j \in 1..m
      <4>1. \/ wire[s][j].file \in Current(s)
            \/ \E i \in 1..(j - 1) : wire[s][i].type = "file" /\ wire[s][i].file = wire[s][j].file
        BY <1>2, <2>5, <3>1 DEF LinkInv, NoneLeftOut, m
      <4>2. \A i \in 1..(j - 1) : i \in 1..m
        BY <1>2, <3>1
      <4>. QED
        BY <1>2, <3>1, <4>1, <4>2
    <3>2. CASE j = m + 1
      <4>1. frame.type = "checksum" /\ w[j].file = frame.file
        BY <1>2, <2>5, <3>2
      <4>2. frame.file \in Headers(s) \cup Current(s)
        BY <1>5, <2>1, <4>1
      <4>3. CASE frame.file \in Headers(s)
        <5>1. PICK i \in 1..m : wire[s][i].type = "file" /\ wire[s][i].file = frame.file
          BY <4>3 DEF Headers, FilesIn, m
        <5>2. i \in 1..(j - 1) /\ w[i] = wire[s][i]
          BY <1>2, <3>2, <5>1
        <5>. QED
          BY <4>1, <5>1, <5>2
      <4>. QED
        BY <4>1, <4>2, <4>3
    <3>. QED
      BY <1>7, <3>1, <3>2
  <2>. QED
    BY <2>3, <2>4, <2>5
<1>11. AcceptedInOrder(s)'
  BY DEF LinkInv, AcceptedInOrder
<1>. QED
  BY <1>8, <1>9, <1>10, <1>11 DEF LinkInv

(* The frames of the send workers.                                         *)
LEMMA SendWorkerLink ==
    ASSUME OriginInv, NEW s \in Sides, LinkInv(s), NEW n \in Batches(s),
           SendHeader(s, n) \/ SendChunk(s, n) \/ SendChecksum(s, n) \/ SendDone(s, n)
    PROVE  LinkInv(s)'
<1>. DEFINE t == senders[s][n]
<1>1. t \in SendWorkers /\ t.k \in 1..Len(Batch) /\ t.k \in Nat
  BY DEF OriginInv, TypeOK, SendWorkers, SenderInv
<1>2. ASSUME NEW record \in SendWorkers, Moves(s, n, record)
      PROVE  /\ UNCHANGED <<open, received>> /\ Current(s)' = Current(s)
             /\ InStep(Peer(s))' = InStep(Peer(s))
  BY <1>2 DEF Moves, Current, InStep, InFile
<1>3. ASSUME NEW record \in SendWorkers, Moves(s, n, record), Forward(t, record),
             NEW f \in FilesOf(s), f \in Announced(s)'
      PROVE  \/ f \in Announced(s)
             \/ /\ f[2] = n
                /\ \/ f[3] < record.k
                   \/ /\ f[3] = record.k
                      /\ record.pc \in {"data", "checksum", "done", "ended"}
  <2>1. f[2] \in Batches(s)
    BY FileParts
  <2>2. /\ \A m \in Batches(s) : m # n => senders'[s][m] = senders[s][m]
        /\ senders'[s][n] = record
    BY <1>3, ForwardGrows
  <2>3. CASE f[2] = n
    BY <1>3, <2>2, <2>3 DEF Announced
  <2>4. CASE f[2] # n
    <3>1. senders'[s][f[2]] = senders[s][f[2]]
      BY <2>1, <2>2, <2>4
    <3>. QED
      BY <1>3, <3>1 DEF Announced
  <2>. QED
    BY <2>3, <2>4
<1>4. \A k \in 1..Len(Batch) : /\ <<s, n, k>> \in FilesOf(s)
                               /\ <<s, n, k>>[2] = n /\ <<s, n, k>>[3] = k
  BY FilesBySide
<1>5. Announced(s)' \subseteq FilesOf(s)
  BY DEF Announced, FilesOf, Batches
<1>6. CASE SendHeader(s, n)
  <2>1. PICK record \in SendWorkers, frame \in FramesOf(s) :
               /\ Moves(s, n, record) /\ Write(s, frame)
               /\ t.pc = "header" /\ record.k = t.k
               /\ frame = Frame("file", <<s, n, record.k>>, Batch[record.k], 1)
               /\ record.pc = AfterData(0, record.length)
    BY <1>6, SendHeaderMoves
  <2>2. frame.type = "file" /\ frame.file = <<s, n, t.k>>
    BY <2>1 DEF Frame
  <2>3. record.pc \in {"data", "checksum"} /\ Forward(t, record)
    BY <2>1 DEF AfterData, Forward
  <2>4. /\ Begun(s) \subseteq Begun(s)' /\ Finished(s) \subseteq Finished(s)'
        /\ senders'[s][n] = record
    BY <2>1, <2>3, ForwardGrows
  <2>5. \A g \in Begun(s) : Earlier(g, frame.file)
    <3>. SUFFICES ASSUME NEW g \in Begun(s), g[2] = n PROVE g[3] < t.k
      BY <1>1, <1>4, <2>2 DEF Earlier
    <3>. QED
      BY <2>1 DEF Begun
  <2>6. frame.file \in Begun(s)'
    <3>1. frame.file \in FilesOf(s)' /\ frame.file[2] = n /\ frame.file[3] = record.k
      BY <1>1, <1>4, <2>1, <2>2 DEF FilesOf, Batches
    <3>. QED
      BY <2>3, <2>4, <3>1 DEF Begun
  <2>7. frame.file[3] > 1 => Predecessor(frame.file) \in Announced(s)
    <3>1. Predecessor(frame.file) = <<s, n, t.k - 1>> /\ frame.file[3] = t.k
      BY <2>2 DEF Predecessor
    <3>2. CASE t.k > 1
      <4>1. t.k - 1 \in 1..Len(Batch) /\ t.k - 1 < t.k
        BY <1>1, <3>2, BatchSize
      <4>. QED
        BY <1>4, <3>1, <4>1 DEF Announced
    <3>. QED
      BY <3>1, <3>2
  <2>8. Announced(s)' \subseteq Announced(s) \cup {frame.file}
    <3>. SUFFICES ASSUME NEW f \in Announced(s)', f \notin Announced(s) PROVE f = frame.file
      OBVIOUS
    <3>1. f \in FilesOf(s) /\ f = <<s, f[2], f[3]>> /\ f[3] \in Nat
      BY <1>5, FileParts
    <3>2. f[2] = n /\ (f[3] < t.k \/ f[3] = t.k)
      BY <1>3, <2>1, <2>3, <3>1
    <3>3. ~(f[3] < t.k)
      BY <3>1, <3>2 DEF Announced
    <3>. QED
      BY <2>2, <3>1, <3>2, <3>3
  <2>. QED
    BY <1>2, <2>1, <2>2, <2>4, <2>5, <2>6, <2>7, <2>8, WriterLink
<1>7. CASE SendChunk(s, n)
  <2>1. PICK record \in SendWorkers, len \in Nat \ {0}, frame \in FramesOf(s) :
               /\ Moves(s, n, record) /\ Write(s, frame)
               /\ t.pc = "data" /\ record.k = t.k
               /\ frame = Frame("data", <<s, n, record.k>>, t.pos, len)
               /\ record.pc = AfterData(record.pos, record.length)
    BY <1>7, SendChunkMoves
  <2>2. frame.type = "data"
    BY <2>1 DEF Frame
  <2>3. record.pc \in {"data", "checksum"} /\ Forward(t, record)
    BY <2>1 DEF AfterData, Forward
  <2>4. Begun(s) \subseteq Begun(s)' /\ Finished(s) \subseteq Finished(s)'
    BY <2>1, <2>3, ForwardGrows
  <2>5. Announced(s)' \subseteq Announced(s)
    <3>. SUFFICES ASSUME NEW f \in Announced(s)', f \notin Announced(s) PROVE FALSE
      OBVIOUS
    <3>1. f \in FilesOf(s)
      BY <1>5
    <3>2. f[2] = n /\ (f[3] < t.k \/ f[3] = t.k)
      BY <1>3, <2>1, <2>3, <3>1
    <3>. QED
      BY <2>1, <3>1, <3>2 DEF Announced
  <2>. QED
    BY <1>2, <2>1, <2>2, <2>4, <2>5, WriterLink
<1>8. CASE SendChecksum(s, n)
  <2>1. PICK record \in SendWorkers, frame \in FramesOf(s) :
               /\ Moves(s, n, record) /\ Write(s, frame) /\ t.pc = "checksum"
               /\ frame = Frame("checksum", <<s, n, t.k>>, t.length, 1)
               /\ \/ record.pc = "header" /\ record.k = t.k + 1
                  \/ record.pc = "done" /\ record.k = t.k
    BY <1>8, SendChecksumMoves
  <2>2. frame.type = "checksum" /\ frame.file = <<s, n, t.k>>
    BY <2>1 DEF Frame
  <2>3. Forward(t, record)
    BY <2>1 DEF Forward
  <2>4. /\ Begun(s) \subseteq Begun(s)' /\ Finished(s) \subseteq Finished(s)'
        /\ senders'[s][n] = record
    BY <2>1, <2>3, ForwardGrows
  <2>5. frame.file \in FilesOf(s) /\ frame.file[2] = n /\ frame.file[3] = t.k
    BY <1>1, <1>4, <2>2
  <2>6. frame.file \in Announced(s)
    BY <2>1, <2>5 DEF Announced
  <2>7. frame.file \notin Finished(s)
    BY <1>1, <2>1, <2>5 DEF Finished, Written
  <2>8. frame.file \in Finished(s)'
    <3>1. frame.file \in FilesOf(s)'
      BY <2>5 DEF FilesOf, Batches
    <3>2. t.k < record.k \/ (t.k = record.k /\ record.pc = "done")
      BY <1>1, <2>1
    <3>. QED
      BY <2>4, <2>5, <3>1, <3>2 DEF Finished, Written
  <2>9. Announced(s)' \subseteq Announced(s)
    <3>. SUFFICES ASSUME NEW f \in Announced(s)', f \notin Announced(s) PROVE FALSE
      OBVIOUS
    <3>1. f \in FilesOf(s) /\ f[3] \in Nat
      BY <1>5, FileParts
    <3>2. f[2] = n /\ (f[3] < t.k \/ f[3] = t.k)
      BY <1>1, <1>3, <2>1, <2>3, <3>1
    <3>. QED
      BY <2>1, <3>1, <3>2 DEF Announced
  <2>. QED
    BY <1>2, <2>1, <2>2, <2>4, <2>6, <2>7, <2>8, <2>9, WriterLink
<1>9. CASE SendDone(s, n)
  <2>1. PICK record \in SendWorkers, frame \in FramesOf(s) :
               /\ Moves(s, n, record) /\ Write(s, frame)
               /\ frame = Control("done") /\ t.pc = "done"
               /\ record.pc = "ended" /\ record.k = t.k
    BY <1>9, SendDoneMoves
  <2>2. frame.type = "done"
    BY <2>1 DEF Control, Frame
  <2>3. Forward(t, record)
    BY <2>1 DEF Forward
  <2>4. Begun(s) \subseteq Begun(s)' /\ Finished(s) \subseteq Finished(s)'
    BY <2>1, <2>3, ForwardGrows
  <2>5. Announced(s)' \subseteq Announced(s)
    <3>. SUFFICES ASSUME NEW f \in Announced(s)', f \notin Announced(s) PROVE FALSE
      OBVIOUS
    <3>1. f \in FilesOf(s)
      BY <1>5
    <3>2. f[2] = n /\ (f[3] < t.k \/ f[3] = t.k)
      BY <1>3, <2>1, <2>3, <3>1
    <3>. QED
      BY <2>1, <3>1, <3>2 DEF Announced
  <2>. QED
    BY <1>2, <2>1, <2>2, <2>4, <2>5, WriterLink
<1>. QED
  BY <1>6, <1>7, <1>8, <1>9

(* What is left of a link when its first frame is read.                    *)
LEMMA ReadShifts ==
    ASSUME OriginInv, NEW s \in Sides, LinkInv(s), NEW pc, Read(Peer(s), pc)
    PROVE  LET g == Got(Peer(s))
               w == wire'[s]
           IN
           /\ Headers(s) = Headers(s)' \cup (IF g.type = "file" THEN {g.file} ELSE {})
           /\ FilesIn(wire[s], "checksum") = FilesIn(w, "checksum")
                  \cup (IF g.type = "checksum" THEN {g.file} ELSE {})
           /\ g = wire[s][1] /\ 1 \in 1..Len(wire[s]) /\ Len(w) \in Nat
           /\ \A i \in 1..Len(w) : i + 1 \in 1..Len(wire[s]) /\ w[i] = wire[s][i + 1]
<1>1. /\ Peer(s) \in Sides /\ Peer(Peer(s)) = s
  BY Peers
<1>2. /\ wire[s] \in Seq(Frames) /\ wire[s] # << >> /\ Got(Peer(s)) = Head(wire[s])
      /\ wire'[s] = Tail(wire[s])
  BY <1>1, ReadTakesHead DEF OriginInv, TypeOK
<1>3. /\ Len(wire[s]) \in Nat \ {0} /\ Len(wire'[s]) = Len(wire[s]) - 1
      /\ Head(wire[s]) = wire[s][1]
      /\ \A i \in 1..Len(wire'[s]) : wire'[s][i] = wire[s][i + 1]
  BY <1>2, HeadTailProperties, EmptySeq, LenProperties
<1>4. /\ Headers(s) = Headers(s)'
             \cup (IF Got(Peer(s)).type = "file" THEN {Got(Peer(s)).file} ELSE {})
      /\ FilesIn(wire[s], "checksum") = FilesIn(wire'[s], "checksum")
             \cup (IF Got(Peer(s)).type = "checksum" THEN {Got(Peer(s)).file} ELSE {})
  BY <1>2, FilesInTail DEF Headers
<1>. QED
  BY <1>2, <1>3, <1>4

(* What is written in order stays so when the first frame is read.         *)
LEMMA ReadKeepsOrder ==
    ASSUME OriginInv, NEW s \in Sides, LinkInv(s), NEW pc, Read(Peer(s), pc), UNCHANGED senders,
           Current(s)' \subseteq Current(s) \cup Headers(s),
           Accepted(s)' \subseteq Finished(s)
    PROVE  WrittenInOrder(s)'
<1>. DEFINE w == wire'[s]
<1>1. /\ Headers(s)' \subseteq Headers(s)
      /\ FilesIn(w, "checksum") \subseteq FilesIn(wire[s], "checksum")
      /\ Len(w) \in Nat
      /\ \A i \in 1..Len(w) : i + 1 \in 1..Len(wire[s]) /\ w[i] = wire[s][i + 1]
  BY ReadShifts
<1>2. Begun(s)' = Begun(s) /\ Finished(s)' = Finished(s)
  BY DEF Begun, Finished, Written, FilesOf, Batches
<1>. HIDE DEF w
<1>3. ASSUME NEW i \in 1..Len(w), NEW j \in 1..Len(w), i < j
      PROVE  /\ w[i].type = "file" /\ w[j].type = "file" => Earlier(w[i].file, w[j].file)
             /\ w[i].type = "checksum" /\ w[j].type = "checksum" => w[i].file # w[j].file
  <2>1. /\ i + 1 \in 1..Len(wire[s]) /\ w[i] = wire[s][i + 1]
        /\ j + 1 \in 1..Len(wire[s]) /\ w[j] = wire[s][j + 1] /\ i + 1 < j + 1
    BY <1>1, <1>3
  <2>. QED
    BY <2>1 DEF LinkInv, WrittenInOrder
<1>4. \A i, j \in 1..Len(w) :
          /\ i < j /\ w[i].type = "file" /\ w[j].type = "file" => Earlier(w[i].file, w[j].file)
          /\ i < j /\ w[i].type = "checksum" /\ w[j].type = "checksum" => w[i].file # w[j].file
  BY <1>3
<1>5. /\ Headers(s)' \cup Current(s)' \subseteq Begun(s)'
      /\ FilesIn(w, "checksum") \cup Accepted(s)' \subseteq Finished(s)'
  BY <1>1, <1>2 DEF LinkInv, WrittenInOrder
<1>. QED
  BY <1>4, <1>5 DEF WrittenInOrder, w

(* A frame is read and nothing is accepted: a header that is read in step  *)
(* becomes the current file; a frame that is read out of step puts the     *)
(* reader out of step for good.                                            *)
LEMMA ReaderLink ==
    ASSUME OriginInv, NEW s \in Sides, LinkInv(s), NEW pc, Read(Peer(s), pc),
           UNCHANGED <<senders, open>>, received'[Peer(s)] = received[Peer(s)],
           \/ Current(s)' \subseteq Current(s)
           \/ /\ Got(Peer(s)).type = "file" /\ Current(s) = {}
              /\ Current(s)' = {Got(Peer(s)).file},
           InStep(Peer(s))' =>
               /\ InStep(Peer(s))
               /\ Current(s)' = Current(s) \cup (IF Got(Peer(s)).type = "file"
                                                 THEN {Got(Peer(s)).file} ELSE {})
    PROVE  LinkInv(s)'
<1>. DEFINE w == wire'[s]
            g == Got(Peer(s))
<1>1. /\ Headers(s) = Headers(s)' \cup (IF g.type = "file" THEN {g.file} ELSE {})
      /\ g = wire[s][1] /\ 1 \in 1..Len(wire[s]) /\ Len(w) \in Nat
      /\ \A i \in 1..Len(w) : i + 1 \in 1..Len(wire[s]) /\ w[i] = wire[s][i + 1]
  BY ReadShifts
<1>2. Accepted(s)' = Accepted(s)
  BY DEF Accepted
<1>3. Announced(s)' = Announced(s)
  BY DEF Announced, FilesOf, Batches
<1>4. WrittenInOrder(s)'
  <2>1. Current(s)' \subseteq Current(s) \cup Headers(s)
    BY <1>1
  <2>2. Accepted(s)' \subseteq Finished(s)
    BY <1>2 DEF LinkInv, WrittenInOrder
  <2>. QED
    BY <2>1, <2>2, ReadKeepsOrder
<1>. HIDE DEF w, g
<1>5. g.type = "file" => \A h \in Headers(s)' : Earlier(g.file, h)
  <2>. SUFFICES ASSUME g.type = "file", NEW i \in 1..Len(w), w[i].type = "file"
                PROVE  Earlier(g.file, w[i].file)
    BY DEF Headers, FilesIn, w
  <2>1. 1 < i + 1
    BY <1>1
  <2>. QED
    BY <1>1, <2>1 DEF LinkInv, WrittenInOrder
<1>6. ReadInOrder(s)'
  BY <1>1, <1>2, <1>5 DEF LinkInv, ReadInOrder, g
<1>7. NoneLeftOut(s)'
  <2>. SUFFICES ASSUME InStep(Peer(s))'
                PROVE  /\ \A f \in Headers(s)' \cup Current(s)' : f[3] > 1 =>
                              Predecessor(f) \in Headers(s)' \cup Current(s)' \cup Accepted(s)'
                       /\ Connected(s)' =>
                             Announced(s)' \subseteq Headers(s)' \cup Current(s)' \cup Accepted(s)'
                       /\ \A j \in 1..Len(w) : w[j].type = "checksum" =>
                              \/ w[j].file \in Current(s)'
                              \/ \E i \in 1..(j - 1) : w[i].type = "file" /\ w[i].file = w[j].file
    BY DEF NoneLeftOut, w
  <2>1. /\ InStep(Peer(s))
        /\ Current(s)' = Current(s) \cup (IF g.type = "file" THEN {g.file} ELSE {})
    BY DEF g
  <2>2. Headers(s)' \cup Current(s)' = Headers(s) \cup Current(s)
    BY <1>1, <2>1
  <2>3. Connected(s)' = Connected(s)
    BY DEF Connected
  <2>4. ASSUME NEW j \in 1..Len(w), w[j].type = "checksum"
        PROVE  \/ w[j].file \in Current(s)'
               \/ \E i \in 1..(j - 1) : w[i].type = "file" /\ w[i].file = w[j].file
    <3>1. /\ j + 1 \in 1..Len(wire[s]) /\ w[j] = wire[s][j + 1] /\ (j + 1) - 1 = j
      BY <1>1
    <3>2. \/ w[j].file \in Current(s)
          \/ \E i \in 1..j : wire[s][i].type = "file" /\ wire[s][i].file = w[j].file
      BY <2>1, <2>4, <3>1 DEF LinkInv, NoneLeftOut
    <3>3. ASSUME NEW i \in 1..j, wire[s][i].type = "file", wire[s][i].file = w[j].file
          PROVE  \/ w[j].file \in Current(s)'
                 \/ \E k \in 1..(j - 1) : w[k].type = "file" /\ w[k].file = w[j].file
      <4>1. CASE i = 1
        BY <1>1, <2>1, <3>3, <4>1
      <4>2. CASE i # 1
        <5>1. i - 1 \in 1..(j - 1) /\ i - 1 \in 1..Len(w) /\ (i - 1) + 1 = i
          BY <1>1, <4>2
        <5>. QED
          BY <1>1, <3>3, <5>1
      <4>. QED
        BY <4>1, <4>2
    <3>. QED
      BY <2>1, <3>2, <3>3
  <2>. QED
    BY <1>2, <1>3, <2>1, <2>2, <2>3, <2>4 DEF LinkInv, NoneLeftOut
<1>8. AcceptedInOrder(s)'
  BY DEF LinkInv, AcceptedInOrder
<1>. QED
  BY <1>4, <1>6, <1>7, <1>8 DEF LinkInv

(* A file is accepted: the checksum is its own, its predecessor has been   *)
(* accepted before, and it has not.                                        *)
LEMMA AcceptLink ==
    ASSUME OriginInv, NEW s \in Sides, LinkInv(s), Read(Peer(s), "checksum"),
           UNCHANGED <<senders, open>>, recv[Peer(s)].intact,
           Got(Peer(s)).type = "checksum", recv[Peer(s)].file \in FilesOf(s),
           received'[Peer(s)] = Append(received[Peer(s)], recv[Peer(s)].file),
           Current(s)' = {}
    PROVE  LinkInv(s)'
<1>. DEFINE w == wire'[s]
            g == Got(Peer(s))
            c == recv[Peer(s)].file
            R == received[Peer(s)]
            m == Len(R)
<1>1. /\ Headers(s)' = Headers(s)
      /\ FilesIn(wire[s], "checksum") = FilesIn(w, "checksum") \cup {g.file}
      /\ g = wire[s][1] /\ 1 \in 1..Len(wire[s]) /\ Len(w) \in Nat
      /\ \A i \in 1..Len(w) : i + 1 \in 1..Len(wire[s]) /\ w[i] = wire[s][i + 1]
  BY ReadShifts
<1>2. InStep(Peer(s)) /\ Current(s) = {c}
  BY DEF Read, InStep, Current, InFile
<1>3. R \in Seq(Files) /\ c \in Files
  BY FilesBySide, Peers DEF OriginInv, TypeOK
<1>4. /\ m \in Nat /\ Len(received'[Peer(s)]) = m + 1 /\ received'[Peer(s)][m + 1] = c
      /\ \A j \in 1..m : received'[Peer(s)][j] = R[j]
  BY <1>3, AppendProperties, LenProperties
<1>5. Accepted(s)' = Accepted(s) \cup {c}
  <2>1. 1..(m + 1) = (1..m) \cup {m + 1}
    BY <1>4
  <2>. HIDE DEF c, R, m
  <2>2. Accepted(s)' = {received'[Peer(s)][j] : j \in 1..(m + 1)}
    BY <1>4 DEF Accepted
  <2>3. Accepted(s) = {R[j] : j \in 1..m}
    BY DEF Accepted, R, m
  <2>. QED
    BY <1>4, <2>1, <2>2, <2>3
<1>. HIDE DEF w, g
<1>6. g.file = c
  <2>1. g.file \in Current(s) \/ \E i \in 1..(1 - 1) : wire[s][i].type = "file"
    BY <1>1, <1>2 DEF LinkInv, NoneLeftOut, g
  <2>. QED
    BY <1>2, <2>1
<1>7. WrittenInOrder(s)'
  <2>1. c \in Finished(s) /\ Accepted(s) \subseteq Finished(s)
    BY <1>1, <1>6 DEF LinkInv, WrittenInOrder
  <2>. QED
    BY <1>5, <2>1, ReadKeepsOrder
<1>8. ReadInOrder(s)'
  BY <1>1, <1>2, <1>5 DEF LinkInv, ReadInOrder
<1>9. NoneLeftOut(s)'
  <2>1. Headers(s)' \cup Current(s)' \cup Accepted(s)' = Headers(s) \cup Current(s) \cup Accepted(s)
    BY <1>1, <1>2, <1>5
  <2>2. Connected(s)' = Connected(s) /\ Announced(s)' = Announced(s)
    BY DEF Connected, Announced, FilesOf, Batches
  <2>3. ASSUME NEW j \in 1..Len(w), w[j].type = "checksum"
        PROVE  \E i \in 1..(j - 1) : w[i].type = "file" /\ w[i].file = w[j].file
    <3>1. /\ j + 1 \in 1..Len(wire[s]) /\ w[j] = wire[s][j + 1] /\ (j + 1) - 1 = j /\ 1 < j + 1
      BY <1>1
    <3>2. w[j].file # c
      BY <1>1, <1>6, <2>3, <3>1 DEF LinkInv, WrittenInOrder, g
    <3>3. \/ w[j].file \in Current(s)
          \/ \E i \in 1..j : wire[s][i].type = "file" /\ wire[s][i].file = w[j].file
      BY <1>2, <2>3, <3>1 DEF LinkInv, NoneLeftOut
    <3>4. PICK i \in 1..j : wire[s][i].type = "file" /\ wire[s][i].file = w[j].file
      BY <1>2, <3>2, <3>3
    <3>5. i # 1
      BY <1>1, <3>4 DEF g
    <3>6. i - 1 \in 1..(j - 1) /\ i - 1 \in 1..Len(w) /\ (i - 1) + 1 = i
      BY <1>1, <3>5
    <3>. QED
      BY <1>1, <3>4, <3>6
  <2>4. \A f \in Headers(s)' \cup Current(s)' : f \in Headers(s) \cup Current(s)
    BY <1>1
  <2>. QED
    BY <1>2, <2>1, <2>2, <2>3, <2>4 DEF LinkInv, NoneLeftOut, w
<1>10. AcceptedInOrder(s)'
  <2>1. ASSUME NEW j \in 1..(m + 1)
        PROVE  LET f == received'[Peer(s)][j] IN
               /\ f[3] > 1 => \E i \in 1..(j - 1) : received'[Peer(s)][i] = Predecessor(f)
               /\ \A i \in 1..(j - 1) : received'[Peer(s)][i] # f
    <3>1. CASE j \in 1..m
      <4>1. \A i \in 1..(j - 1) : i \in 1..m
        BY <1>4, <3>1
      <4>. QED
        BY <1>4, <3>1, <4>1 DEF LinkInv, AcceptedInOrder
    <3>2. CASE j = m + 1
      <4>1. j - 1 = m /\ received'[Peer(s)][j] = c
        BY <1>4, <3>2
      <4>2. c[3] \in Nat
        BY FileParts
      <4>3. ASSUME NEW i \in 1..m PROVE R[i] # c
        <5>1. R[i] \in Accepted(s)
          BY DEF Accepted
        <5>2. Earlier(R[i], c)
          BY <1>2, <5>1 DEF LinkInv, ReadInOrder
        <5>. QED
          BY <4>2, <5>2 DEF Earlier
      <4>4. ASSUME c[3] > 1 PROVE \E i \in 1..m : R[i] = Predecessor(c)
        <5>1. Predecessor(c) \in Headers(s) \cup Current(s) \cup Accepted(s)
          BY <1>2, <4>4 DEF LinkInv, NoneLeftOut
        <5>2. Predecessor(c)[2] = c[2] /\ Predecessor(c)[3] = c[3] - 1
          BY DEF Predecessor
        <5>3. Predecessor(c) # c /\ ~Earlier(c, Predecessor(c))
          BY <4>2, <5>2 DEF Earlier
        <5>4. Predecessor(c) \in Accepted(s)
          BY <1>2, <5>1, <5>3 DEF LinkInv, ReadInOrder
        <5>. QED
          BY <5>4 DEF Accepted
      <4>. QED
        BY <1>4, <4>1, <4>3, <4>4
    <3>. QED
      BY <1>4, <3>1, <3>2
  <2>. QED
    BY <1>4, <2>1 DEF AcceptedInOrder
<1>. QED
  BY <1>7, <1>8, <1>9, <1>10 DEF LinkInv

(* The reader of a link.                                                   *)
LEMMA ReceiveLink ==
    ASSUME OriginInv, NEW s \in Sides, LinkInv(s),
           ReadHeader(Peer(s)) \/ ReadData(Peer(s)) \/ ReadChecksum(Peer(s))
           \/ ReadFails(Peer(s)) \/ AnswerPing(Peer(s))
    PROVE  LinkInv(s)'
<1>. DEFINE r == Peer(s)
<1>1. r \in Sides /\ r # s /\ Peer(r) = s
  BY Peers
<1>2. UNCHANGED <<senders, open>>
  BY DEF ReadHeader, ReadData, ReadChecksum, AnswerPing, ReadFails
<1>3. CASE ReadHeader(r)
  <2>1. Read(r, "header") /\ recv[r].pc = "header" /\ UNCHANGED received
    BY <1>3 DEF ReadHeader, Read
  <2>2. InStep(r) /\ Current(s) = {}
    BY <2>1 DEF InStep, Current, InFile
  <2>3. CASE Got(r).type = "file"
    <3>1. PICK q \in Readers :
                 /\ recv' = [recv EXCEPT ![r] = q]
                 /\ q.pc = AfterRead(Got(r).n) /\ q.file = Got(r).file
                 /\ q.intact /\ q.file \in FilesOf(s)
      BY <1>1, <1>3, <2>3, ReadHeaderGoes
    <3>2. recv'[r] = q /\ q.pc \in {"data", "checksum"}
      BY <1>1, <3>1, ReaderGoes DEF AfterRead
    <3>3. Current(s)' = {Got(r).file}
      BY <3>1, <3>2 DEF Current, InFile
    <3>. QED
      BY <1>2, <2>1, <2>2, <2>3, <3>3, ReaderLink
  <2>4. CASE Got(r).type # "file"
    <3>1. Become(r, "pong") \/ Become(r, "error") \/ UNCHANGED recv
      BY <1>1, <1>3, <2>4, ReadHeaderGoes
    <3>2. recv'[r].pc \in {"header", "pong", "error"}
      BY <1>1, <2>1, <3>1, BecomeGoes
    <3>3. Current(s)' = {}
      BY <3>2 DEF Current, InFile
    <3>. QED
      BY <1>2, <2>1, <2>2, <2>4, <3>3, ReaderLink
  <2>. QED
    BY <2>3, <2>4
<1>4. CASE ReadData(r)
  <2>1. Read(r, "data") /\ recv[r].pc = "data" /\ UNCHANGED received
    BY <1>4 DEF ReadData, Read
  <2>2. PICK q \in Readers :
                 /\ recv' = [recv EXCEPT ![r] = q]
                 /\ q.pc = AfterRead(q.remaining) /\ q.file = recv[r].file
                 /\ q.intact = (/\ recv[r].intact /\ Got(r).type = "data"
                                /\ Got(r).file = recv[r].file /\ Got(r).n = recv[r].got)
                 /\ recv[r].file \in FilesOf(s)
    BY <1>1, <1>4, ReadDataGoes
  <2>3. recv'[r] = q /\ q.pc \in {"data", "checksum"}
    BY <1>1, <2>2, ReaderGoes DEF AfterRead
  <2>4. Current(s)' = Current(s)
    BY <2>1, <2>2, <2>3 DEF Current, InFile
  <2>5. InStep(r)' => recv[r].intact /\ Got(r).type = "data"
    BY <2>2, <2>3 DEF InStep, InFile
  <2>6. recv[r].intact => InStep(r)
    BY <2>1 DEF InStep, InFile
  <2>. QED
    BY <1>2, <2>1, <2>4, <2>5, <2>6, ReaderLink
<1>5. CASE ReadChecksum(r)
  <2>1. Read(r, "checksum") /\ recv[r].pc = "checksum" /\ recv[r].file \in FilesOf(s)
    BY <1>1, <1>5, ReadChecksumGoes DEF Read
  <2>2. CASE Got(r).type = "checksum" /\ SameDigest(recv[r], Got(r))
    <3>1. Become(r, "header") /\ received' = [received EXCEPT ![r] = Append(@, recv[r].file)]
      BY <1>1, <1>5, <2>2, ReadChecksumGoes
    <3>2. Current(s)' = {}
      BY <1>1, <3>1, BecomeGoes DEF Current, InFile
    <3>3. received'[r] = Append(received[r], recv[r].file)
      BY <1>1, <3>1 DEF OriginInv, TypeOK
    <3>4. recv[r].intact
      BY <2>2 DEF SameDigest
    <3>. QED
      BY <1>2, <2>1, <2>2, <3>2, <3>3, <3>4, AcceptLink
  <2>3. CASE ~(Got(r).type = "checksum" /\ SameDigest(recv[r], Got(r)))
    <3>1. Become(r, "error") /\ UNCHANGED received
      BY <1>1, <1>5, <2>3, ReadChecksumGoes
    <3>2. recv'[r].pc = "error"
      BY <1>1, <3>1, BecomeGoes
    <3>3. Current(s)' = {} /\ ~InStep(r)'
      BY <3>2 DEF Current, InStep, InFile
    <3>. QED
      BY <1>2, <2>1, <3>1, <3>3, ReaderLink
  <2>. QED
    BY <2>2, <2>3
<1>6. CASE ReadFails(r)
  <2>1. Become(r, "closed") /\ UNCHANGED <<wire, received>>
    BY <1>6 DEF ReadFails
  <2>2. recv'[r].pc = "closed"
    BY <1>1, <2>1, BecomeGoes
  <2>3. Current(s)' = {} /\ ~InStep(r)' /\ (Connected(s)' => Connected(s))
    BY <1>2, <2>2 DEF Current, InStep, InFile, Connected
  <2>. QED
    BY <1>2, <2>1, <2>3, SameLink
<1>7. CASE AnswerPing(r)
  <2>1. /\ recv[r].pc = "pong" /\ UNCHANGED received
        /\ Become(r, "header") \/ Become(r, "error")
        /\ Write(r, Control("pong")) \/ UNCHANGED wire
    BY <1>7 DEF AnswerPing
  <2>2. recv'[r].pc \in {"header", "error"}
    BY <1>1, <2>1, BecomeGoes
  <2>3. Current(s)' = {} /\ Current(s) = {} /\ InStep(r) /\ (Connected(s)' => Connected(s))
    BY <1>2, <2>1, <2>2 DEF Current, InStep, InFile, Connected
  <2>4. wire'[s] = wire[s]
    BY <1>1, <2>1, WriteAppends, ControlFrames DEF OriginInv, TypeOK
  <2>. QED
    BY <1>2, <2>1, <2>3, <2>4, SameLink
<1>. QED
  BY <1>3, <1>4, <1>5, <1>6, <1>7

(* A ping or pong on a link.                                               *)
LEMMA ControlLink ==
    ASSUME OriginInv, NEW s \in Sides, LinkInv(s), NEW type \in {"ping", "pong"},
           Write(s, Control(type)), UNCHANGED <<open, received, senders>>,
           recv'[Peer(s)] = recv[Peer(s)]
    PROVE  LinkInv(s)'
<1>1. Control(type) \in FramesOf(s) /\ Control(type).type = type
  BY ControlFrames DEF Control, Frame
<1>2. Current(s)' = Current(s) /\ InStep(Peer(s))' = InStep(Peer(s))
  BY DEF Current, InStep, InFile
<1>3. Begun(s)' = Begun(s) /\ Announced(s)' = Announced(s) /\ Finished(s)' = Finished(s)
  BY DEF Begun, Announced, Finished, Written, FilesOf, Batches
<1>. QED
  BY <1>1, <1>2, <1>3, WriterLink

(* What a side had written is cut when it closes.                          *)
LEMMA CloseLink ==
    ASSUME OriginInv, NEW s \in Sides, LinkInv(s), Close(s)
    PROVE  LinkInv(s)'
<1>1. /\ UNCHANGED <<senders, recv, received>> /\ open' = [open EXCEPT ![s] = FALSE]
  BY DEF Close
<1>2. PICK n \in 0..Len(wire[s]) : wire' = [wire EXCEPT ![s] = SubSeq(@, 1, n)]
  BY DEF Close
<1>. DEFINE w == wire'[s]
<1>3. w = SubSeq(wire[s], 1, n) /\ wire[s] \in Seq(Frames)
  BY <1>2 DEF OriginInv, TypeOK
<1>4. /\ Len(wire[s]) \in Nat /\ Len(w) = n
      /\ \A i \in 1..n : i \in 1..Len(wire[s]) /\ w[i] = wire[s][i]
  <2>1. Len(wire[s]) \in Nat
    BY <1>3, LenProperties
  <2>2. \A i \in 1..n : i \in 1..Len(wire[s])
    BY <2>1
  <2>. QED
    BY <1>3, <2>1, <2>2, SubSeqProperties
<1>. HIDE DEF w
<1>5. /\ Headers(s)' \subseteq Headers(s)
      /\ FilesIn(w, "checksum") \subseteq FilesIn(wire[s], "checksum")
      /\ Headers(s)' = FilesIn(w, "file")
  BY <1>4 DEF Headers, FilesIn, w
<1>6. /\ Begun(s)' = Begun(s) /\ Announced(s)' = Announced(s) /\ Finished(s)' = Finished(s)
  BY <1>1 DEF Begun, Announced, Finished, Written, FilesOf, Batches
<1>7. /\ Accepted(s)' = Accepted(s) /\ Current(s)' = Current(s)
      /\ InStep(Peer(s))' = InStep(Peer(s)) /\ ~Connected(s)'
  BY <1>1 DEF Accepted, Current, InStep, InFile, Connected, OriginInv, TypeOK
<1>8. WrittenInOrder(s)'
  <2>1. \A i, j \in 1..Len(w) :
          /\ i < j /\ w[i].type = "file" /\ w[j].type = "file" => Earlier(w[i].file, w[j].file)
          /\ i < j /\ w[i].type = "checksum" /\ w[j].type = "checksum" => w[i].file # w[j].file
    BY <1>4 DEF LinkInv, WrittenInOrder
  <2>2. /\ Headers(s)' \cup Current(s)' \subseteq Begun(s)'
        /\ FilesIn(w, "checksum") \cup Accepted(s)' \subseteq Finished(s)'
    BY <1>5, <1>6, <1>7 DEF LinkInv, WrittenInOrder
  <2>. QED
    BY <2>1, <2>2 DEF WrittenInOrder, w
<1>9. ReadInOrder(s)'
  BY <1>5, <1>7 DEF LinkInv, ReadInOrder
<1>10. NoneLeftOut(s)'
  <2>. SUFFICES ASSUME InStep(Peer(s))
                PROVE  /\ \A f \in Headers(s)' \cup Current(s) : f[3] > 1 =>
                              Predecessor(f) \in Headers(s)' \cup Current(s) \cup Accepted(s)
                       /\ \A j \in 1..Len(w) : w[j].type = "checksum" =>
                              \/ w[j].file \in Current(s)
                              \/ \E i \in 1..(j - 1) : w[i].type = "file" /\ w[i].file = w[j].file
    BY <1>7 DEF NoneLeftOut, w
  <2>1. ASSUME NEW f \in Headers(s)' \cup Current(s), f[3] > 1
        PROVE  Predecessor(f) \in Headers(s)' \cup Current(s) \cup Accepted(s)
    <3>1. f \in FilesOf(s)
      BY <1>5, LinkFiles
    <3>2. f[3] \in Nat /\ Predecessor(f)[2] = f[2] /\ Predecessor(f)[3] = f[3] - 1
      BY <3>1, FileParts DEF Predecessor
    <3>3. ~Earlier(f, Predecessor(f))
      BY <3>2 DEF Earlier
    <3>4. Predecessor(f) \in Headers(s) \cup Current(s) \cup Accepted(s)
      BY <1>5, <2>1 DEF LinkInv, NoneLeftOut
    <3>5. CASE Predecessor(f) \in Headers(s)
      <4>1. PICK i \in 1..Len(wire[s]) :
                wire[s][i].type = "file" /\ wire[s][i].file = Predecessor(f)
        BY <3>5 DEF Headers, FilesIn
      <4>2. f \notin Current(s)
        BY <3>3, <3>5 DEF LinkInv, ReadInOrder
      <4>3. PICK j \in 1..n : w[j].type = "file" /\ w[j].file = f
        BY <1>4, <1>5, <2>1, <4>2 DEF FilesIn
      <4>4. j \in 1..Len(wire[s]) /\ wire[s][j].type = "file" /\ wire[s][j].file = f
        BY <1>4, <4>3
      <4>5. ~(j < i)
        BY <3>3, <4>1, <4>4 DEF LinkInv, WrittenInOrder
      <4>6. i \in 1..n
        BY <1>4, <4>1, <4>3, <4>5
      <4>. QED
        BY <1>4, <1>5, <4>1, <4>6 DEF FilesIn
    <3>. QED
      BY <3>4, <3>5
  <2>2. ASSUME NEW j \in 1..Len(w), w[j].type = "checksum"
        PROVE  \/ w[j].file \in Current(s)
               \/ \E i \in 1..(j - 1) : w[i].type = "file" /\ w[i].file = w[j].file
    <3>1. \/ w[j].file \in Current(s)
          \/ \E i \in 1..(j - 1) : wire[s][i].type = "file" /\ wire[s][i].file = w[j].file
      BY <1>4, <2>2 DEF LinkInv, NoneLeftOut
    <3>2. \A i \in 1..(j - 1) : i \in 1..n
      BY <1>4
    <3>. QED
      BY <1>4, <3>1, <3>2
  <2>. QED
    BY <2>1, <2>2
<1>11. AcceptedInOrder(s)'
  BY <1>1 DEF LinkInv, AcceptedInOrder
<1>. QED
  BY <1>8, <1>9, <1>10, <1>11 DEF LinkInv

(* Every step keeps the order, from the sender to what is accepted.        *)
LEMMA StepOrder == OriginInv /\ OrderInv /\ [Next]_vars => OrderInv'
<1>. SUFFICES ASSUME OriginInv, OrderInv, [Next]_vars PROVE OrderInv'
  OBVIOUS
<1>1. \A s \in Sides : LinkInv(s)
  BY DEF OrderInv
<1>2. ASSUME NEW s \in Sides, NEW p \in Sides, p = Peer(s), LinkInv(s)', LinkInv(p)'
      PROVE  OrderInv'
  BY <1>2, Peers DEF OrderInv
<1>3. ASSUME NEW s \in Sides, NEW n \in Batches(s), on_send_files(s, n) \/ SendWorker(s, n)
      PROVE  OrderInv'
  <2>1. LinkInv(s)'
    BY <1>1, <1>3, QuietWorkerLink, SendWorkerLink DEF SendWorker
  <2>2. /\ UNCHANGED <<open, recv, received>>
        /\ \A m \in Batches(Peer(s)) : senders'[Peer(s)][m] = senders[Peer(s)][m]
        /\ wire'[Peer(s)] = wire[Peer(s)]
    <3>1. CASE on_send_files(s, n) \/ SendFails(s, n)
      <4>1. PICK record \in SendWorkers : Moves(s, n, record) /\ UNCHANGED wire
        BY <3>1, StartOrFailMoves
      <4>. QED
        BY <4>1, Peers DEF Moves, Step, OriginInv, TypeOK
    <3>2. CASE SendHeader(s, n) \/ SendChunk(s, n) \/ SendChecksum(s, n) \/ SendDone(s, n)
      <4>1. PICK record \in SendWorkers, frame \in FramesOf(s) :
                Moves(s, n, record) /\ Write(s, frame)
        <5>1. CASE SendHeader(s, n)
          BY <5>1, SendHeaderMoves
        <5>2. CASE SendChunk(s, n)
          BY <5>2, SendChunkMoves
        <5>3. CASE SendChecksum(s, n)
          BY <5>3, SendChecksumMoves
        <5>4. CASE SendDone(s, n)
          BY <5>4, SendDoneMoves
        <5>. QED
          BY <3>2, <5>1, <5>2, <5>3, <5>4
      <4>2. wire'[Peer(s)] = wire[Peer(s)]
        BY <4>1, WriteAppends DEF OriginInv, TypeOK
      <4>. QED
        BY <4>1, <4>2, Peers DEF Moves, Step, OriginInv, TypeOK
    <3>. QED
      BY <1>3, <3>1, <3>2 DEF SendWorker
  <2>3. LinkInv(Peer(s))'
    <3>1. /\ Peer(s) \in Sides
          /\ Current(Peer(s))' = Current(Peer(s))
          /\ InStep(Peer(Peer(s)))' = InStep(Peer(Peer(s)))
          /\ Connected(Peer(s))' = Connected(Peer(s))
      BY <2>2, Peers DEF Current, InStep, InFile, Connected
    <3>. QED
      BY <1>1, <2>2, <3>1, SameLink
  <2>. QED
    BY <1>2, <2>1, <2>3, Peers
<1>4. ASSUME NEW s \in Sides, UNCHANGED <<wire, open, senders, recv, received>>
      PROVE  LinkInv(s)'
  <2>1. /\ Current(s)' = Current(s) /\ InStep(Peer(s))' = InStep(Peer(s))
        /\ Connected(s)' = Connected(s)
    BY <1>4 DEF Current, InStep, InFile, Connected
  <2>. QED
    BY <1>1, <1>4, <2>1, SameLink
<1>5. ASSUME NEW s \in Sides, NEW type \in {"ping", "pong"}, Write(s, Control(type)),
             UNCHANGED <<open, senders, received>>, recv'[Peer(s)] = recv[Peer(s)]
      PROVE  LinkInv(s)' /\ wire'[Peer(s)] = wire[Peer(s)]
  BY <1>1, <1>5, ControlLink, WriteAppends, ControlFrames DEF OriginInv, TypeOK
<1>6. ASSUME NEW s \in Sides, on_test_channel(s) \/ PingWorker(s)
      PROVE  OrderInv'
  <2>1. UNCHANGED <<open, senders, recv, received>>
    BY <1>6 DEF on_test_channel, PingWorker
  <2>2. CASE UNCHANGED wire
    BY <1>2, <1>4, <2>1, <2>2, Peers
  <2>3. CASE Write(s, Control("ping"))
    <3>1. LinkInv(s)' /\ wire'[Peer(s)] = wire[Peer(s)]
      BY <1>5, <2>1, <2>3
    <3>2. LinkInv(Peer(s))'
      <4>1. /\ Peer(s) \in Sides /\ Current(Peer(s))' = Current(Peer(s))
            /\ InStep(Peer(Peer(s)))' = InStep(Peer(Peer(s)))
            /\ Connected(Peer(s))' = Connected(Peer(s))
        BY <2>1, Peers DEF Current, InStep, InFile, Connected
      <4>. QED
        BY <1>1, <2>1, <3>1, <4>1, SameLink
    <3>. QED
      BY <1>2, <3>1, <3>2, Peers
  <2>. QED
    BY <1>6, <2>2, <2>3 DEF on_test_channel, PingWorker
<1>7. ASSUME NEW r \in Sides, ReceiveWorker(r)
      PROVE  OrderInv'
  <2>. DEFINE s == Peer(r)
  <2>1. s \in Sides /\ s # r /\ Peer(s) = r
    BY Peers
  <2>2. LinkInv(s)'
    BY <1>1, <1>7, <2>1, ReceiveLink DEF ReceiveWorker
  <2>3. UNCHANGED <<open, senders>>
    BY <1>7 DEF ReceiveWorker, ReadHeader, ReadData, ReadChecksum, AnswerPing, ReadFails
  <2>4. recv'[s] = recv[s] /\ received'[s] = received[s]
    <3>1. recv'[s] = recv[s]
      BY <1>7, <2>1 DEF ReceiveWorker, ReadHeader, ReadData, ReadChecksum, AnswerPing, ReadFails,
         Become, OriginInv, TypeOK
    <3>2. received'[s] = received[s]
      BY <1>7, <2>1 DEF ReceiveWorker, ReadHeader, ReadData, ReadChecksum, AnswerPing, ReadFails,
         OriginInv, TypeOK
    <3>. QED
      BY <3>1, <3>2
  <2>5. wire'[r] = wire[r] \/ (Write(r, Control("pong")) /\ UNCHANGED received)
    <3>1. CASE AnswerPing(r)
      BY <3>1 DEF AnswerPing
    <3>2. CASE ReadFails(r)
      BY <3>2 DEF ReadFails
    <3>3. CASE ReadHeader(r) \/ ReadData(r) \/ ReadChecksum(r)
      <4>1. PICK pc \in {"header", "data", "checksum"} : Read(r, pc)
        BY <3>3 DEF ReadHeader, ReadData, ReadChecksum
      <4>2. wire' = [wire EXCEPT ![Peer(r)] = Tail(@)]
        BY <4>1 DEF Read
      <4>. QED
        BY <2>1, <4>2 DEF OriginInv, TypeOK
    <3>. QED
      BY <1>7, <3>1, <3>2, <3>3 DEF ReceiveWorker
  <2>6. LinkInv(r)'
    <3>1. CASE Write(r, Control("pong")) /\ UNCHANGED received
      BY <1>5, <2>3, <2>4, <3>1
    <3>2. CASE wire'[r] = wire[r]
      <4>1. /\ Current(r)' = Current(r) /\ InStep(Peer(r))' = InStep(Peer(r))
            /\ Connected(r)' = Connected(r)
        BY <2>3, <2>4 DEF Current, InStep, InFile, Connected
      <4>. QED
        BY <1>1, <2>3, <2>4, <3>2, <4>1, SameLink
    <3>. QED
      BY <2>5, <3>1, <3>2
  <2>. QED
    BY <1>2, <2>1, <2>2, <2>6
<1>8. ASSUME NEW s \in Sides, HandleReceiveStopped(s)
      PROVE  OrderInv'
  <2>1. UNCHANGED <<wire, open, senders, recv, received>>
    BY <1>8 DEF HandleReceiveStopped
  <2>. QED
    BY <1>4, <2>1 DEF OrderInv
<1>9. ASSUME NEW s \in Sides, Close(s)
      PROVE  OrderInv'
  <2>1. LinkInv(s)'
    BY <1>1, <1>9, CloseLink
  <2>2. /\ UNCHANGED <<senders, recv, received>> /\ wire'[Peer(s)] = wire[Peer(s)]
        /\ ~Connected(Peer(s))'
    BY <1>9, Peers, CloseCuts DEF Close, Connected, OriginInv, TypeOK
  <2>3. LinkInv(Peer(s))'
    <3>1. /\ Peer(s) \in Sides /\ Current(Peer(s))' = Current(Peer(s))
          /\ InStep(Peer(Peer(s)))' = InStep(Peer(Peer(s)))
      BY <2>2, Peers DEF Current, InStep, InFile
    <3>. QED
      BY <1>1, <2>2, <3>1, SameLink
  <2>. QED
    BY <1>2, <2>1, <2>3, Peers
<1>10. CASE Rest \/ UNCHANGED vars
  <2>1. UNCHANGED <<wire, open, senders, recv, received>>
    BY <1>10 DEF Rest, vars
  <2>. QED
    BY <1>4, <2>1 DEF OrderInv
<1>. QED
  BY <1>3, <1>6, <1>7, <1>8, <1>9, <1>10 DEF Next

(* At the start nothing is written, read or accepted.                      *)
LEMMA InitOrder == Init => OrderInv
<1>. SUFFICES ASSUME Init, NEW s \in Sides PROVE LinkInv(s)
  BY DEF OrderInv
<1>1. /\ Len(wire[s]) = 0 /\ Len(received[Peer(s)]) = 0
      /\ recv[Peer(s)].pc = "header"
  BY Peers, EmptySeq DEF Init
<1>2. /\ Headers(s) = {} /\ FilesIn(wire[s], "checksum") = {} /\ Accepted(s) = {}
      /\ Current(s) = {}
  BY <1>1 DEF Headers, FilesIn, Accepted, Current, InFile
<1>3. Announced(s) = {}
  <2>1. \A n \in Batches(s) : senders[s][n].k = 1 /\ senders[s][n].pc = "idle"
    BY DEF Init
  <2>. SUFFICES ASSUME NEW f \in Announced(s) PROVE FALSE
    OBVIOUS
  <2>2. f \in FilesOf(s) /\ f[2] \in Batches(s) /\ f[3] \in 1..Len(Batch)
    BY FileParts DEF Announced
  <2>3. f[3] < 1
    BY <2>1, <2>2 DEF Announced
  <2>. QED
    BY <2>2, <2>3, BatchSize
<1>. QED
  BY <1>1, <1>2, <1>3 DEF LinkInv, WrittenInOrder, ReadInOrder, NoneLeftOut, AcceptedInOrder

(* Files of one batch are accepted in order, each at most once, none       *)
(* before its predecessor and none that its sender has not written whole,  *)
(* whatever the users send and test at the same time, whatever happens to  *)
(* the files on the disk and whenever a side closes.                       *)
THEOREM BatchesAlwaysArriveInOrder == Spec => []BatchesArriveInOrder
<1>1. Spec => []OrderInv
  BY InitOrder, StepOrder, OriginInvariant, PTL DEF Spec
<1>2. OrderInv => BatchesArriveInOrder
  <2>. SUFFICES ASSUME OrderInv, NEW s \in Sides, NEW j \in 1..Len(received[Peer(s)])
                PROVE  \E n \in Batches(s), k \in 1..Len(Batch) :
                          /\ received[Peer(s)][j] = <<s, n, k>>
                          /\ k > 1 => \E i \in 1..(j - 1) : received[Peer(s)][i] = <<s, n, k - 1>>
                          /\ \A i \in 1..(j - 1) : received[Peer(s)][i] # <<s, n, k>>
                          /\ Written(s, n, k)
    BY DEF BatchesArriveInOrder
  <2>. DEFINE f == received[Peer(s)][j]
  <2>1. f \in Finished(s)
    BY DEF OrderInv, LinkInv, WrittenInOrder, Accepted
  <2>2. /\ f \in FilesOf(s) /\ Written(s, f[2], f[3])
        /\ f = <<s, f[2], f[3]>> /\ f[2] \in Batches(s) /\ f[3] \in 1..Len(Batch)
    BY <2>1, FileParts DEF Finished
  <2>3. Predecessor(f) = <<s, f[2], f[3] - 1>>
    BY <2>2 DEF Predecessor
  <2>4. /\ f[3] > 1 => \E i \in 1..(j - 1) : received[Peer(s)][i] = <<s, f[2], f[3] - 1>>
        /\ \A i \in 1..(j - 1) : received[Peer(s)][i] # <<s, f[2], f[3]>>
    BY <2>2, <2>3 DEF OrderInv, LinkInv, AcceptedInOrder
  <2>. QED
    BY <2>2, <2>4
<1>. QED
  BY <1>1, <1>2, PTL
=============================================================================
