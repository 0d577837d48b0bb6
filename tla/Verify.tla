------------------------------ MODULE Verify ------------------------------
(***************************************************************************)
(* verify_channel (src/src/transport.py) at both ends of one connection,   *)
(* as _channel_establish_worker (src/src/appearance.py) calls it, and the  *)
(* first use of the channel by a side that has verified it already.        *)
(*                                                                         *)
(* TCP keeps the order of what it delivers, but may deliver it too late    *)
(* for the reader's timeout, or break.  Cryptography is symbolic: nonces   *)
(* are fresh, so a nonce is named by its sender, and the HMAC of a frame   *)
(* under a key is equal to no other frame.                                 *)
(***************************************************************************)
EXTENDS Naturals, Sequences

CONSTANTS
    Keys,         \* session keys
    None,         \* Python's None
    MaxData       \* bound: frames a side sends over its verified channel

ASSUME VerifyAssumption ==
    /\ None \notin Keys
    /\ MaxData \in Nat

VARIABLES
    reliable, \* the network is neither late nor breaks, and both hosts answer
    key,      \* key[s]: the session key of side s
    side,     \* side[s]: the thread of s in verify_channel, then the session
    wire,     \* wire[s]: the frames s has written and its peer not read
    open,     \* open[s]: s has not closed its socket
    broken,   \* the connection was reset by the network
    event     \* event[s]: what the worker of s has posted to its session

vars == <<reliable, key, side, wire, open, broken, event>>

Sides == {"a", "b"}

Peer(s) == IF s = "a" THEN "b" ELSE "a"

Frame(type, k, nonce) == [type |-> type, key |-> k, nonce |-> nonce]

Nonce(s) == Frame("nonce", None, s)

Data == Frame("data", None, None)

hmac(k, frame) == Frame("proof", k, frame.nonce)

Frames == [type : {"nonce", "proof", "data"}, key : Keys \cup {None},
           nonce : Sides \cup {None}]

(* written and read count the frames of a side since the beginning.        *)
TypeOK ==
    /\ reliable \in BOOLEAN
    /\ key \in [Sides -> Keys]
    /\ side \in [Sides ->
           [pc : {"silent", "start", "peer_nonce", "prove", "peer_proof",
                  "verified", "lost", "mismatch", "failed"},
            peer_nonce : Frames \cup {None}, written : Nat, read : Nat]]
    /\ wire \in [Sides -> Seq(Frames)]
    /\ open \in [Sides -> BOOLEAN]
    /\ broken \in BOOLEAN
    /\ event \in [Sides -> {None, "connected", "connection_failed",
                            "verification_failed"}]

(* A connection that another host has accepted may never be answered.      *)
Init ==
    /\ reliable \in BOOLEAN
    /\ key \in [Sides -> Keys]
    /\ \E silent \in SUBSET Sides :
         /\ silent = {} \/ (~reliable /\ silent # Sides)
         /\ side = [s \in Sides |->
                [pc |-> IF s \in silent THEN "silent" ELSE "start",
                 peer_nonce |-> None, written |-> 0, read |-> 0]]
    /\ wire = [s \in Sides |-> << >>]
    /\ open = [s \in Sides |-> TRUE]
    /\ broken = FALSE
    /\ event = [s \in Sides |-> None]

(***************************************************************************)
(* Frames.                                                                 *)
(***************************************************************************)
Connected == open["a"] /\ open["b"] /\ ~broken

(* What is written to a connection that has ended is lost, at first        *)
(* without an error.                                                       *)
Write(s, frame) ==
    wire' = IF Connected THEN [wire EXCEPT ![s] = Append(@, frame)] ELSE wire

Readable(s) == wire[Peer(s)] # << >>

Got(s) == Head(wire[Peer(s)])

Read(s) == Readable(s) /\ wire' = [wire EXCEPT ![Peer(s)] = Tail(@)]

(* Nothing more will arrive at side s.                                     *)
AtEnd(s) == ~Readable(s) /\ ~Connected

(***************************************************************************)
(* verify_channel.                                                         *)
(***************************************************************************)
SendNonce(s) ==
    /\ side[s].pc = "start"
    /\ Write(s, Nonce(s))
    /\ side' = [side EXCEPT ![s].pc = "peer_nonce", ![s].written = @ + 1]
    /\ UNCHANGED <<reliable, key, open, broken, event>>

ReadNonce(s) ==
    /\ side[s].pc = "peer_nonce"
    /\ Read(s)
    /\ side' = [side EXCEPT ![s].pc = "prove", ![s].peer_nonce = Got(s),
                            ![s].read = @ + 1]
    /\ UNCHANGED <<reliable, key, open, broken, event>>

(* Mutant: the proof is written once more when its write is retried.       *)
SendProof_Twice(s) ==
    /\ side[s].pc = "prove"
    /\ Write(s, hmac(key[s], side[s].peer_nonce))
    /\ side' = [side EXCEPT ![s].pc = IF side[s].written = 1 THEN "prove" ELSE "peer_proof",
                            ![s].written = @ + 1]
    /\ UNCHANGED <<reliable, key, open, broken, event>>

SendProof(s) ==
    /\ side[s].pc = "prove"
    /\ Write(s, hmac(key[s], side[s].peer_nonce))
    /\ side' = [side EXCEPT ![s].pc = "peer_proof", ![s].written = @ + 1]
    /\ UNCHANGED <<reliable, key, open, broken, event>>

(* Mutant: the proof is expected over the nonce of the other side.         *)
Expected_PeerNonce(s) == hmac(key[s], Nonce(Peer(s)))

Expected(s) == hmac(key[s], Nonce(s))

ReadProof(s) ==
    /\ side[s].pc = "peer_proof"
    /\ Read(s)
    /\ side' = [side EXCEPT ![s].pc = IF Got(s) = Expected(s) THEN "verified" ELSE "mismatch",
                            ![s].read = @ + 1]
    /\ UNCHANGED <<reliable, key, open, broken, event>>

Verifying(s) == side[s].pc \in {"start", "peer_nonce", "prove", "peer_proof"}

(* Mutant: the socket has no timeout.                                      *)
NetworkError_NoTimeout(s) ==
    /\ Verifying(s)
    /\ AtEnd(s)
    /\ side' = [side EXCEPT ![s].pc = "failed"]
    /\ UNCHANGED <<reliable, key, wire, open, broken, event>>

(* The call times out, or finds the connection at its end.                 *)
NetworkError(s) ==
    /\ Verifying(s)
    /\ ~reliable \/ AtEnd(s)
    /\ side' = [side EXCEPT ![s].pc = "failed"]
    /\ UNCHANGED <<reliable, key, wire, open, broken, event>>

verify_channel(s) ==
    SendNonce(s) \/ ReadNonce(s) \/ SendProof(s) \/ ReadProof(s) \/ NetworkError(s)

(***************************************************************************)
(* The worker around it, and the verified channel.                         *)
(***************************************************************************)
(* Mutant: closing a socket always discards what the peer has not read.    *)
CloseSocket_Aborts(s) ==
    /\ open' = [open EXCEPT ![s] = FALSE]
    /\ wire' = [wire EXCEPT ![s] = << >>]

(* Closing a socket that holds unread data resets the connection, and the  *)
(* peer may lose what it has not read; otherwise it can still read all.    *)
CloseSocket(s) ==
    /\ open' = [open EXCEPT ![s] = FALSE]
    /\ \E n \in 0..Len(wire[s]) :
         /\ Readable(s) \/ n = Len(wire[s])
         /\ wire' = [wire EXCEPT ![s] = SubSeq(@, 1, n)]

PostConnected(s) ==
    /\ side[s].pc = "verified"
    /\ event[s] = None
    /\ event' = [event EXCEPT ![s] = "connected"]
    /\ UNCHANGED <<reliable, key, side, wire, open, broken>>

(* Mutant: the socket of a failed verification is left open.               *)
PostFailed_LeavesOpen(s) ==
    /\ side[s].pc \in {"mismatch", "failed"}
    /\ event[s] = None
    /\ event' = [event EXCEPT ![s] = IF side[s].pc = "mismatch" THEN "verification_failed"
                                     ELSE "connection_failed"]
    /\ UNCHANGED <<reliable, key, side, wire, open, broken>>

(* Mutant: the kind of the event is misspelt.                              *)
PostFailed_Misspelt(s) ==
    /\ side[s].pc \in {"mismatch", "failed"}
    /\ event[s] = None
    /\ CloseSocket(s)
    /\ event' = [event EXCEPT ![s] = side[s].pc]
    /\ UNCHANGED <<reliable, key, side, broken>>

PostFailed(s) ==
    /\ side[s].pc \in {"mismatch", "failed"}
    /\ event[s] = None
    /\ CloseSocket(s)
    /\ event' = [event EXCEPT ![s] = IF side[s].pc = "mismatch" THEN "verification_failed"
                                     ELSE "connection_failed"]
    /\ UNCHANGED <<reliable, key, side, broken>>

(* A session that was told of its channel writes to it, and reads it.      *)
InUse(s) == side[s].pc = "verified" /\ event[s] = "connected" /\ open[s]

SendData(s) ==
    /\ InUse(s)
    /\ side[s].written < 2 + MaxData
    /\ Write(s, Data)
    /\ side' = [side EXCEPT ![s].written = @ + 1]
    /\ UNCHANGED <<reliable, key, open, broken, event>>

ReceiveData(s) ==
    /\ InUse(s)
    /\ Read(s)
    /\ side' = [side EXCEPT ![s].read = @ + 1]
    /\ UNCHANGED <<reliable, key, open, broken, event>>

(* receive_files raises; the session shows the channel as broken.          *)
ReceiveFails(s) ==
    /\ InUse(s)
    /\ AtEnd(s)
    /\ side' = [side EXCEPT ![s].pc = "lost"]
    /\ UNCHANGED <<reliable, key, wire, open, broken, event>>

_receive_worker(s) == ReceiveData(s) \/ ReceiveFails(s)

(* The user starts another session.                                        *)
_reset_channel_attempt(s) ==
    /\ event[s] = "connected"
    /\ open[s]
    /\ CloseSocket(s)
    /\ UNCHANGED <<reliable, key, side, broken, event>>

(* The network resets the connection; frames under way may be lost.        *)
Break ==
    /\ ~reliable
    /\ ~broken
    /\ broken' = TRUE
    /\ \E m \in 0..Len(wire["a"]), n \in 0..Len(wire["b"]) :
         wire' = [s \in Sides |-> SubSeq(wire[s], 1, IF s = "a" THEN m ELSE n)]
    /\ UNCHANGED <<reliable, key, side, open, event>>

Worker(s) == verify_channel(s) \/ PostConnected(s) \/ PostFailed(s)

(* Nothing is left to do: a side is silent, has closed its socket, has     *)
(* lost the channel, or waits for data on it.                              *)
Rest ==
    /\ \A s \in Sides :
         \/ side[s].pc \in {"silent", "lost"}
         \/ ~open[s]
         \/ InUse(s) /\ ~Readable(s) /\ ~AtEnd(s)
    /\ UNCHANGED vars

Next ==
    \/ \E s \in Sides : Worker(s) \/ SendData(s) \/ _receive_worker(s)
                          \/ _reset_channel_attempt(s)
    \/ Break
    \/ Rest

Spec == Init /\ [][Next]_vars

(* The threads run: every wait of verify_channel has a timeout, and a      *)
(* closed or reset connection wakes the receive worker.                    *)
FairSpec ==
    /\ Spec
    /\ \A s \in Sides : WF_vars(Worker(s)) /\ WF_vars(_receive_worker(s))

-----------------------------------------------------------------------------
(* What the docstring of verify_channel promises: only sides with the same *)
(* key verify each other, and a mismatch is only raised when the keys are  *)
(* different, whatever the network does.                                   *)
VerdictIsRight ==
    \A s \in Sides :
        /\ side[s].pc \in {"verified", "lost"} => key["a"] = key["b"]
        /\ side[s].pc = "mismatch" => key["a"] # key["b"]

(* verify_channel leaves the stream where the channel begins: what a       *)
(* verified side reads next is data, and what a side that still waits for  *)
(* the proof reads is the proof, even if the peer has gone on to send.     *)
StreamInStep ==
    \A s \in Sides :
        Readable(s) =>
            /\ side[s].pc = "peer_nonce" => Got(s).type = "nonce"
            /\ side[s].pc \in {"prove", "peer_proof"} => Got(s).type = "proof"
            /\ side[s].pc = "verified" => Got(s).type = "data"

(* Every call of verify_channel ends and its outcome is posted, also when  *)
(* the peer never answers.                                                 *)
OutcomeIsPosted == \A s \in Sides : side[s].pc = "start" ~> event[s] # None

(* A side never stays alone on a verified channel: the peer verifies it    *)
(* too, or this side learns that it is broken, or closes it itself.        *)
NoOneSidedChannel ==
    \A s \in Sides :
        side[s].pc = "verified" ~>
            \/ side[Peer(s)].pc \in {"verified", "lost"}
            \/ side[s].pc = "lost"
            \/ ~open[s]

(* On a network that neither fails nor is late, both sides reach the same  *)
(* verdict, although the first to raise a mismatch closes the connection   *)
(* before the other has read its proof.                                    *)
VerdictIsMutual ==
    /\ reliable /\ key["a"] # key["b"] ~>
          \A s \in Sides : event[s] = "verification_failed"
    /\ reliable /\ key["a"] = key["b"] ~>
          \A s \in Sides : event[s] = "connected"
=============================================================================
