------------------------------ MODULE Transfer ------------------------------
(***************************************************************************)
(* The use of a verified channel: send_files, send_ping and receive_files  *)
(* of src/src/transport.py, run by the threads of src/src/appearance.py on *)
(* the two sides of one TCP connection.                                    *)
(*                                                                         *)
(* Each side has one thread that reads the socket (_receive_worker), and   *)
(* several that write to it without a lock: send workers, ping workers and *)
(* the reader itself, which answers a ping.  A frame is written whole; a   *)
(* full connection blocks its writers.  A file is its identity and length: *)
(* bytes are told apart only by file and position, and what is decrypted   *)
(* with the wrong nonce or at the wrong position is garbage.               *)
(***************************************************************************)
EXTENDS Naturals, Integers, Sequences, FiniteSets

CONSTANTS
    Batch,        \* the lengths of the files of every batch, in order
    ChunkSize,    \* chunk_size_bytes, in the units of Batch
    MaxBatches,   \* bound: clicks on Send, of each side
    MaxPings,     \* bound: clicks on the channel test, of each side
    Capacity,     \* frames the connection holds before a writer blocks
    Orderly,      \* the users send one thing at a time (see MaySend, MayPing)
    FilesChange,  \* a file may change or vanish while it is being sent
    MayClose      \* a side may reset its session

ASSUME TransferAssumption ==
    /\ Batch \in Seq(Nat)
    /\ Len(Batch) > 0
    /\ ChunkSize \in Nat \ {0}
    /\ MaxBatches \in [{"a", "b"} -> Nat]
    /\ MaxPings \in [{"a", "b"} -> Nat]
    /\ Capacity \in Nat \ {0}
    /\ {Orderly, FilesChange, MayClose} \subseteq BOOLEAN

VARIABLES
    wire,       \* wire[s]: the frames side s has written and its peer not read
    open,       \* open[s]: side s has not closed its socket
    verified,   \* verified[s]: channel_verified, what the user of s is shown
    senders,    \* senders[s][n]: the thread of the n-th Send of side s
    pings,      \* pings[s]: ping threads of side s that have yet to write
    pinged,     \* how often side s has tested the channel
    recv,       \* the thread of side s that reads the socket
    received,   \* the files receive_files has accepted on side s, in order
    partial,    \* files of the peer that are on the disk of s, not accepted
    pongs       \* pongs reported to the user of side s

vars == <<wire, open, verified, senders, pings, pinged, recv, received, partial, pongs>>

Sides == {"a", "b"}

Peer(s) == IF s = "a" THEN "b" ELSE "a"

Batches(s) == 1..MaxBatches[s]

Files == UNION {{s} \X Batches(s) \X (1..Len(Batch)) : s \in Sides}

NoFile == <<"none", 0, 0>>

Types == {"file", "data", "checksum", "done", "ping", "pong"}

(* n is the announced size of a "file", the position of "data" and the     *)
(* number of bytes under a "checksum".                                     *)
Frame(type, file, n, len) == [type |-> type, file |-> file, n |-> n, len |-> len]

Control(type) == Frame(type, NoFile, 0, 1)

Frames == [type : Types, file : Files \cup {NoFile}, n : Nat, len : Nat]

TypeOK ==
    /\ wire \in [Sides -> Seq(Frames)]
    /\ open \in [Sides -> BOOLEAN]
    /\ verified \in [Sides -> BOOLEAN]
    /\ DOMAIN senders = Sides
    /\ \A s \in Sides : senders[s] \in [Batches(s) ->
           [pc : {"idle", "header", "data", "checksum", "done", "ended", "failed"},
            k : Nat, pos : Nat, length : Nat]]
    /\ pings \in [Sides -> Nat]
    /\ pinged \in [Sides -> Nat]
    /\ recv \in [Sides ->
           [pc : {"header", "data", "checksum", "pong", "error", "closed"},
            file : Files \cup {NoFile}, remaining : Int, got : Nat, intact : BOOLEAN]]
    /\ received \in [Sides -> Seq(Files)]
    /\ partial \in [Sides -> SUBSET Files]
    /\ pongs \in [Sides -> Nat]

Init ==
    /\ wire = [s \in Sides |-> << >>]
    /\ open = [s \in Sides |-> TRUE]
    /\ verified = [s \in Sides |-> TRUE]
    /\ senders = [s \in Sides |-> [n \in Batches(s) |->
                     [pc |-> "idle", k |-> 1, pos |-> 0, length |-> 0]]]
    /\ pings = [s \in Sides |-> 0]
    /\ pinged = [s \in Sides |-> 0]
    /\ recv = [s \in Sides |-> [pc |-> "header", file |-> NoFile, remaining |-> 0,
                                got |-> 0, intact |-> TRUE]]
    /\ received = [s \in Sides |-> << >>]
    /\ partial = [s \in Sides |-> {}]
    /\ pongs = [s \in Sides |-> 0]

(***************************************************************************)
(* Writing: send_frame.                                                    *)
(***************************************************************************)
Connected(s) == open[s] /\ open[Peer(s)]

Write(s, frame) ==
    /\ Connected(s)
    /\ Len(wire[s]) < Capacity
    /\ wire' = [wire EXCEPT ![s] = Append(@, frame)]

Active(s, n) == senders[s][n].pc \notin {"idle", "ended", "failed"}

Sending(s) == \E n \in Batches(s) : Active(s, n)

PingsAnswered == \A s \in Sides : pings[s] = 0 /\ pinged[s] = pongs[s]

(* When the users are orderly a side sends one batch at a time, and the    *)
(* channel is tested only while nothing is sent.  The program enforces     *)
(* neither.                                                                *)
MaySend(s) == Orderly => ~Sending(s) /\ PingsAnswered

MayPing(s) == Orderly => PingsAnswered /\ \A t \in Sides : ~Sending(t) /\ wire[t] = << >>

(***************************************************************************)
(* send_files in a send worker.                                            *)
(***************************************************************************)
Step(s, n, record) == senders' = [senders EXCEPT ![s][n] = record]

on_send_files(s, n) ==
    /\ senders[s][n].pc = "idle"
    /\ \A m \in 1..(n - 1) : senders[s][m].pc # "idle"
    /\ verified[s]
    /\ MaySend(s)
    /\ Step(s, n, [senders[s][n] EXCEPT !.pc = "header"])
    /\ UNCHANGED <<wire, open, verified, pings, pinged, recv, received, partial, pongs>>

(* The lengths read() may find in a file that getsize() found to be size.  *)
ActualLengths(size) ==
    {length \in (size - 1)..(size + 1) : length >= 0 /\ (length = size \/ FilesChange)}

(* After the last chunk comes the checksum, after that the next file.      *)
AfterData(pos, length) == IF pos < length THEN "data" ELSE "checksum"

SendHeader(s, n) ==
    LET k == senders[s][n].k IN
    /\ senders[s][n].pc = "header"
    /\ Write(s, Frame("file", <<s, n, k>>, Batch[k], 1))
    /\ \E length \in ActualLengths(Batch[k]) :
         Step(s, n, [pc |-> AfterData(0, length), k |-> k, pos |-> 0, length |-> length])
    /\ UNCHANGED <<open, verified, pings, pinged, recv, received, partial, pongs>>

Smaller(i, j) == IF i < j THEN i ELSE j

SendChunk(s, n) ==
    LET t == senders[s][n]
        len == Smaller(ChunkSize, t.length - t.pos)
    IN
    /\ t.pc = "data"
    /\ Write(s, Frame("data", <<s, n, t.k>>, t.pos, len))
    /\ Step(s, n, [t EXCEPT !.pos = @ + len, !.pc = AfterData(t.pos + len, t.length)])
    /\ UNCHANGED <<open, verified, pings, pinged, recv, received, partial, pongs>>

(* Mutant: the checksum is sent only after some data.                      *)
SendChecksum_SkipsEmpty(s, n) ==
    LET t == senders[s][n]
        last == t.k = Len(Batch)
    IN
    /\ t.pc = "checksum"
    /\ IF t.length = 0 THEN UNCHANGED wire
       ELSE Write(s, Frame("checksum", <<s, n, t.k>>, t.length, 1))
    /\ Step(s, n, [t EXCEPT !.pc = IF last THEN "done" ELSE "header",
                            !.k = IF last THEN @ ELSE @ + 1])
    /\ UNCHANGED <<open, verified, pings, pinged, recv, received, partial, pongs>>

SendChecksum(s, n) ==
    LET t == senders[s][n]
        last == t.k = Len(Batch)
    IN
    /\ t.pc = "checksum"
    /\ Write(s, Frame("checksum", <<s, n, t.k>>, t.length, 1))
    /\ Step(s, n, [t EXCEPT !.pc = IF last THEN "done" ELSE "header",
                            !.k = IF last THEN @ ELSE @ + 1])
    /\ UNCHANGED <<open, verified, pings, pinged, recv, received, partial, pongs>>

SendDone(s, n) ==
    /\ senders[s][n].pc = "done"
    /\ Write(s, Control("done"))
    /\ Step(s, n, [senders[s][n] EXCEPT !.pc = "ended"])
    /\ UNCHANGED <<open, verified, pings, pinged, recv, received, partial, pongs>>

(* A write on a closed connection raises, and so does a file that is gone  *)
(* or cannot be read; the peer is not told.                                *)
SendFails(s, n) ==
    /\ Active(s, n)
    /\ ~Connected(s) \/ (FilesChange /\ senders[s][n].pc # "done")
    /\ Step(s, n, [senders[s][n] EXCEPT !.pc = "failed"])
    /\ UNCHANGED <<wire, open, verified, pings, pinged, recv, received, partial, pongs>>

SendWorker(s, n) ==
    \/ SendHeader(s, n)
    \/ SendChunk(s, n)
    \/ SendChecksum(s, n)
    \/ SendDone(s, n)
    \/ SendFails(s, n)

(***************************************************************************)
(* send_ping in a ping worker.                                             *)
(***************************************************************************)
on_test_channel(s) ==
    /\ pinged[s] < MaxPings[s]
    /\ verified[s]
    /\ MayPing(s)
    /\ pings' = [pings EXCEPT ![s] = @ + 1]
    /\ pinged' = [pinged EXCEPT ![s] = @ + 1]
    /\ UNCHANGED <<wire, open, verified, senders, recv, received, partial, pongs>>

PingWorker(s) ==
    /\ pings[s] > 0
    /\ pings' = [pings EXCEPT ![s] = @ - 1]
    /\ \/ Write(s, Control("ping"))
       \/ ~Connected(s) /\ UNCHANGED wire
    /\ UNCHANGED <<open, verified, senders, pinged, recv, received, partial, pongs>>

(***************************************************************************)
(* receive_files in the receive worker: one step per frame read.           *)
(***************************************************************************)
Read(s, pc) ==
    /\ open[s]
    /\ recv[s].pc = pc
    /\ wire[Peer(s)] # << >>
    /\ wire' = [wire EXCEPT ![Peer(s)] = Tail(@)]

Got(s) == Head(wire[Peer(s)])

Become(s, pc) == recv' = [recv EXCEPT ![s].pc = pc]

(* Mutant: the loop over the data runs once too often.                     *)
AfterRead_OffByOne(remaining) == IF remaining >= 0 THEN "data" ELSE "checksum"

(* The loop over the data ends when no byte remains.                       *)
AfterRead(remaining) == IF remaining > 0 THEN "data" ELSE "checksum"

ReadHeader(s) ==
    /\ Read(s, "header")
    /\ CASE Got(s).type = "file" ->
              /\ recv' = [recv EXCEPT ![s] =
                     [pc |-> AfterRead(Got(s).n), file |-> Got(s).file,
                      remaining |-> Got(s).n, got |-> 0, intact |-> TRUE]]
              /\ partial' = [partial EXCEPT ![s] = @ \cup {Got(s).file}]
              /\ UNCHANGED pongs
         [] Got(s).type = "ping" ->
              /\ Become(s, "pong")
              /\ UNCHANGED <<partial, pongs>>
         [] Got(s).type = "pong" ->
              /\ pongs' = [pongs EXCEPT ![s] = @ + 1]
              /\ UNCHANGED <<recv, partial>>
         [] Got(s).type = "done" ->
              UNCHANGED <<recv, partial, pongs>>
         [] OTHER ->
              /\ Become(s, "error")
              /\ UNCHANGED <<partial, pongs>>
    /\ UNCHANGED <<open, verified, senders, pings, pinged, received>>

(* Whatever the frame is, it is decrypted and written as file content.     *)
ReadData(s) ==
    LET r == recv[s]
        left == r.remaining - Got(s).len
    IN
    /\ Read(s, "data")
    /\ recv' = [recv EXCEPT ![s] =
           [r EXCEPT !.remaining = left, !.got = @ + Got(s).len,
                     !.pc = AfterRead(left),
                     !.intact = @ /\ Got(s).type = "data" /\ Got(s).file = r.file
                                  /\ Got(s).n = r.got]]
    /\ UNCHANGED <<open, verified, senders, pings, pinged, received, partial, pongs>>

(* The digest of what was decrypted is the one in the frame.  All empty    *)
(* files have the same digest.                                             *)
SameDigest(r, frame) ==
    /\ r.intact
    /\ frame.n = r.got
    /\ frame.file = r.file \/ r.got = 0

(* Mutant: the file of a wrong digest stays on the disk.                   *)
ReadChecksum_Keeps(s) ==
    /\ Read(s, "checksum")
    /\ IF Got(s).type = "checksum" /\ SameDigest(recv[s], Got(s))
       THEN /\ received' = [received EXCEPT ![s] = Append(@, recv[s].file)]
            /\ partial' = [partial EXCEPT ![s] = @ \ {recv[s].file}]
       ELSE UNCHANGED <<received, partial>>
    /\ Become(s, "header")
    /\ UNCHANGED <<open, verified, senders, pings, pinged, pongs>>

(* Mutant: the path is forgotten before it is reported.                    *)
ReadChecksum_Forgets(s) ==
    /\ Read(s, "checksum")
    /\ received' = [received EXCEPT ![s] = Append(@, NoFile)]
    /\ partial' = [partial EXCEPT ![s] = @ \ {recv[s].file}]
    /\ Become(s, "header")
    /\ UNCHANGED <<open, verified, senders, pings, pinged, pongs>>

ReadChecksum(s) ==
    /\ Read(s, "checksum")
    /\ CASE Got(s).type = "checksum" /\ SameDigest(recv[s], Got(s)) ->
              /\ received' = [received EXCEPT ![s] = Append(@, recv[s].file)]
              /\ partial' = [partial EXCEPT ![s] = @ \ {recv[s].file}]
              /\ Become(s, "header")
         [] Got(s).type = "checksum" /\ ~SameDigest(recv[s], Got(s)) ->
              /\ partial' = [partial EXCEPT ![s] = @ \ {recv[s].file}]
              /\ Become(s, "error")
              /\ UNCHANGED received
         [] OTHER ->
              /\ Become(s, "error")
              /\ UNCHANGED <<received, partial>>
    /\ UNCHANGED <<open, verified, senders, pings, pinged, pongs>>

(* Mutant: the reader does not go on to the next frame after its answer.   *)
AnswerPing_Again(s) ==
    /\ recv[s].pc = "pong"
    /\ Write(s, Control("pong"))
    /\ UNCHANGED <<open, verified, senders, pings, pinged, recv, received, partial, pongs>>

(* The answer to a ping goes out on the same socket, before anything else  *)
(* is read.                                                                *)
AnswerPing(s) ==
    /\ recv[s].pc = "pong"
    /\ \/ Write(s, Control("pong")) /\ Become(s, "header")
       \/ ~Connected(s) /\ Become(s, "error") /\ UNCHANGED wire
    /\ UNCHANGED <<open, verified, senders, pings, pinged, received, partial, pongs>>

(* The peer has closed and there is nothing left to read; or this side has *)
(* closed the socket under its reader.                                     *)
ReadFails(s) ==
    /\ recv[s].pc \in {"header", "data", "checksum"}
    /\ \/ ~open[s]
       \/ ~open[Peer(s)] /\ wire[Peer(s)] = << >>
    /\ Become(s, "closed")
    /\ UNCHANGED <<wire, open, verified, senders, pings, pinged, received, partial, pongs>>

(* The user is told later: the event of the reader waits in the queue.     *)
HandleReceiveStopped(s) ==
    /\ recv[s].pc \in {"error", "closed"}
    /\ verified[s]
    /\ verified' = [verified EXCEPT ![s] = FALSE]
    /\ UNCHANGED <<wire, open, senders, pings, pinged, recv, received, partial, pongs>>

ReceiveWorker(s) ==
    ReadHeader(s) \/ ReadData(s) \/ ReadChecksum(s) \/ AnswerPing(s) \/ ReadFails(s)

(***************************************************************************)
(* A side closes the channel: what it had written may be lost.             *)
(***************************************************************************)
Close(s) ==
    /\ MayClose
    /\ open[s]
    /\ open' = [open EXCEPT ![s] = FALSE]
    /\ verified' = [verified EXCEPT ![s] = FALSE]
    /\ \E n \in 0..Len(wire[s]) : wire' = [wire EXCEPT ![s] = SubSeq(@, 1, n)]
    /\ UNCHANGED <<senders, pings, pinged, recv, received, partial, pongs>>

(* Nothing is left to do.                                                  *)
Quiet ==
    /\ \A s \in Sides : ~Sending(s) /\ pings[s] = 0
    /\ \A s \in Sides :
         \/ recv[s].pc \in {"error", "closed"}
         \/ recv[s].pc = "header" /\ wire[Peer(s)] = << >>

Rest == Quiet /\ UNCHANGED vars

Next ==
    \/ \E s \in Sides : \E n \in Batches(s) : on_send_files(s, n) \/ SendWorker(s, n)
    \/ \E s \in Sides : on_test_channel(s) \/ PingWorker(s)
    \/ \E s \in Sides : ReceiveWorker(s) \/ HandleReceiveStopped(s) \/ Close(s)
    \/ Rest

Spec == Init /\ [][Next]_vars

(* The threads run; a blocked writer goes on when there is room, and among *)
(* the writers of one socket none waits for ever.                          *)
FairSpec ==
    /\ Spec
    /\ \A s \in Sides :
         /\ WF_vars(ReceiveWorker(s))
         /\ SF_vars(AnswerPing(s))
         /\ SF_vars(PingWorker(s))
         /\ \A n \in Batches(s) : SF_vars(SendWorker(s, n))

-----------------------------------------------------------------------------
Accepted(s) == {received[Peer(s)][j] : j \in 1..Len(received[Peer(s)])}

(* The worker of a batch has written the checksum of its k-th file, or has *)
(* given up.                                                               *)
Written(s, n, k) ==
    LET t == senders[s][n] IN
    k < t.k \/ (k = t.k /\ t.pc \in {"done", "ended", "failed"})

(* The files of one batch arrive in order, each at most once and none      *)
(* before its predecessor, whatever else goes over the socket; and none    *)
(* before the sender has written all of it.                                *)
BatchesArriveInOrder ==
    \A s \in Sides : \A j \in 1..Len(received[Peer(s)]) :
        \E n \in Batches(s), k \in 1..Len(Batch) :
            /\ received[Peer(s)][j] = <<s, n, k>>
            /\ k > 1 => \E i \in 1..(j - 1) : received[Peer(s)][i] = <<s, n, k - 1>>
            /\ \A i \in 1..(j - 1) : received[Peer(s)][i] # <<s, n, k>>
            /\ Written(s, n, k)

(* What the docstring of receive_files says: no file is left half-written  *)
(* without a warning.  An unaccepted file is on the disk only while it is  *)
(* being received, or after the reader has stopped with an error or the    *)
(* end of the connection, which the user sees.                             *)
NoSilentPartialFile ==
    \A s \in Sides :
        /\ recv[s].pc \in {"header", "pong"} => partial[s] = {}
        /\ partial[s] \subseteq {recv[s].file}

(* A pong is only reported for a ping of that side.                        *)
PongsAreAnswers == \A s \in Sides : pongs[s] + pings[s] <= pinged[s]

(* A reader on an unbroken connection is never put out of step.            *)
ReaderInStep == \A s \in Sides : open["a"] /\ open["b"] => recv[s].pc # "error"

(* What the docstring of receive_files says of send_ping: the channel can  *)
(* be tested transparently.  A ping or pong among the data of a file is    *)
(* read as data.                                                           *)
PingIsTransparent == (\E s \in Sides : pinged[s] > 0) => ReaderInStep

(* A batch that was started is received, and both users learn of it.       *)
BatchesAreReceived ==
    \A s \in Sides : \A n \in Batches(s) :
        senders[s][n].pc = "header" ~>
            /\ senders[s][n].pc = "ended"
            /\ {s} \X {n} \X (1..Len(Batch)) \subseteq Accepted(s)

(* A test of the channel is answered.                                      *)
PingsAreAnswered == []<>PingsAnswered

(* What orderly users begin is completed: two sides that write to each     *)
(* other over a full connection, or a reader that stops to answer a test,  *)
(* keep nobody waiting for ever.                                           *)
TransfersComplete == BatchesAreReceived /\ PingsAreAnswered
=============================================================================
