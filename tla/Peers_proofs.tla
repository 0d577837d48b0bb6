---------------------------- MODULE Peers_proofs ----------------------------
(***************************************************************************)
(* Theorems about Peers, for every set of phrases and however often        *)
(* something goes wrong.                                                   *)
(***************************************************************************)
EXTENDS Peers, TLAPS

-----------------------------------------------------------------------------
(* The present attempt of a side uses the phrase and the handshake of its  *)
(* session; what was sent to the peer is the handshake of "mine"; and no   *)
(* user sees anything of a channel before there is a handshake.            *)
KeyInv ==
    /\ \A s \in Sides : attempt[s][now[s]].key = <<phrase[s], packet[s]>>
    /\ sent = packet["mine"]
    /\ \A s \in Sides : packet[s] = None => ui[s] = "none"

(* A thread has no connection before it has got its socket, and a socket   *)
(* from then on until its verdict.                                         *)
ThreadOK(a) ==
    /\ a.pc \in {"bind", "establish"} => a.mate = None
    /\ a.pc \in {"bind", "establish", "mismatch", "failed", "quit"} => ~a.open
    /\ a.pc \in {"won", "verify", "verified"} => a.open

ThreadInv == \A s \in Sides, i \in Ids : ThreadOK(attempt[s][i])

(* A verified connection leads to an attempt with the same key, or to one  *)
(* that has lost it, but never to one that has yet to be connected.        *)
Trusts(a) == a.pc \in {"verified", "done"} /\ a.open

Faithful(s, i, j) ==
    LET a == attempt[s][i]
        b == attempt[Other(s)][j] IN
    Trusts(a) /\ a.mate = j =>
        /\ b.pc \notin {"bind", "establish"}
        /\ b.mate = i => b.key = a.key

AgreeInv == \A s \in Sides, i, j \in Ids : Faithful(s, i, j)

PeersInv == TypeOK /\ KeyInv /\ ThreadInv /\ AgreeInv

(* What TypeOK says of a side, besides the types.                          *)
Shown == {"none", "pending", "dialog", "open", "failed", "lost"}

ShownOK(s) ==
    /\ ui[s] = "pending" <=> attempt[s][now[s]].pc \in Running \cup Posted
    /\ ui[s] = "open" => attempt[s][now[s]].open

-----------------------------------------------------------------------------
(***************************************************************************)
(* Sides, attempts and handshakes.                                         *)
(***************************************************************************)

(* There are two sides.                                                    *)
LEMMA OtherSide ==
    /\ \A s \in Sides : Other(s) \in Sides /\ Other(s) # s /\ Other(Other(s)) = s
    /\ \A s, t \in Sides : t = s \/ t = Other(s)
BY DEF Sides, Other

(* A side has two threads, the present one and the spare one.              *)
LEMMA SpareAttempt ==
    ASSUME TypeOK, NEW s \in Sides
    PROVE  /\ Spare(s) \in Ids /\ now[s] \in Ids /\ Spare(s) # now[s]
           /\ \A i \in Ids : i = Spare(s) \/ i = now[s]
<1>1. now[s] \in Ids
  BY DEF TypeOK
<1>. QED
  BY <1>1 DEF Spare, Ids

(* What the types say of the parts of the state.                           *)
LEMMA Parts ==
    ASSUME TypeOK, NEW s \in Sides
    PROVE  /\ phrase[s] \in Phrases /\ packet[s] \in Packets \cup {None}
           /\ ui[s] \in Shown /\ now[s] \in Ids /\ ShownOK(s)
           /\ attempt[s] \in [Ids -> Attempts]
           /\ \A i \in Ids : attempt[s][i] \in Attempts
BY DEF TypeOK, ShownOK, Shown

(* The number of a key's handshake.                                        *)
LEMMA KeyPacket ==
    ASSUME NEW a \in Attempts
    PROVE  a.key[2] \in 0..6
BY DEF Attempts, Keys, NoKey, Packets, None

(* A set of handshakes has a first one.                                    *)
LEMMA FirstPacket ==
    ASSUME NEW S, S \subseteq 1..6, S # {}
    PROVE  \E p \in S : \A q \in S : p <= q
<1>1. PICK x \in S : TRUE
  OBVIOUS
<1>2. \A y \in S : y = 1 \/ y = 2 \/ y = 3 \/ y = 4 \/ y = 5 \/ y = 6
  OBVIOUS
<1>3. CASE 1 \in S
  BY <1>2, <1>3
<1>4. CASE 1 \notin S /\ 2 \in S
  BY <1>2, <1>4
<1>5. CASE 1 \notin S /\ 2 \notin S /\ 3 \in S
  BY <1>2, <1>5
<1>6. CASE 1 \notin S /\ 2 \notin S /\ 3 \notin S /\ 4 \in S
  BY <1>2, <1>6
<1>7. CASE 1 \notin S /\ 2 \notin S /\ 3 \notin S /\ 4 \notin S
  BY <1>1, <1>2, <1>7
<1>. QED
  BY <1>3, <1>4, <1>5, <1>6, <1>7

(* There is always a new handshake: each of the four threads holds at most *)
(* one, and the sessions hold no other.                                    *)
LEMMA FreshIsNew ==
    ASSUME TypeOK, KeyInv
    PROVE  Fresh \in Packets \ InUse
<1>. DEFINE k(s, i) == attempt[s][i].key[2]
<1>1. \A s \in Sides, i \in Ids : k(s, i) \in 0..6
  BY Parts, KeyPacket
<1>2. ASSUME NEW s \in Sides PROVE packet[s] = k(s, now[s])
  <2>1. attempt[s][now[s]].key = <<phrase[s], packet[s]>>
    BY DEF KeyInv
  <2>. QED
    BY <2>1
<1>3. InUse \subseteq {k("mine", 1), k("mine", 2), k("peer", 1), k("peer", 2)}
  <2>1. \A s \in Sides, i \in Ids :
          k(s, i) \in {k("mine", 1), k("mine", 2), k("peer", 1), k("peer", 2)}
    BY DEF Sides, Ids
  <2>2. \A s \in Sides : now[s] \in Ids
    BY Parts
  <2>3. sent = packet["mine"] /\ "mine" \in Sides
    BY DEF KeyInv, Sides
  <2>. DEFINE All == {k("mine", 1), k("mine", 2), k("peer", 1), k("peer", 2)}
  <2>4. \A s \in Sides : packet[s] \in All
    BY <1>2, <2>1, <2>2
  <2>5. InUse = {packet[s] : s \in Sides} \cup {sent} \cup {k(s, i) : s \in Sides, i \in Ids}
    BY DEF InUse
  <2>. HIDE DEF k
  <2>6. \A s \in Sides, i \in Ids : k(s, i) \in All
    BY <2>1
  <2>. QED
    BY <2>3, <2>4, <2>5, <2>6
<1>4. \E p \in 1..6 : p \notin InUse
  <2>1. PICK a, b, c, d \in 0..6 : InUse \subseteq {a, b, c, d}
    BY <1>1, <1>3 DEF Sides, Ids
  <2>2. \E p \in 1..5 : p # a /\ p # b /\ p # c /\ p # d
    BY <2>1
  <2>. QED
    BY <2>1, <2>2
<1>5. \E p \in Packets \ InUse : \A q \in Packets \ InUse : p <= q
  <2>1. Packets \ InUse \subseteq 1..6 /\ Packets \ InUse # {}
    BY <1>4 DEF Packets
  <2>. QED
    BY <2>1, FirstPacket
<1>. QED
  BY <1>5 DEF Fresh

(* The bound is kept.                                                      *)
LEMMA UsualBound ==
    ASSUME TypeOK, NEW condition, Usual(condition)
    PROVE  trouble' \in 0..MaxTrouble
<1>1. MaxTrouble \in Nat /\ trouble \in 0..MaxTrouble
  BY PeersAssumption DEF TypeOK
<1>. QED
  BY <1>1 DEF Usual

-----------------------------------------------------------------------------
(***************************************************************************)
(* The steps.                                                              *)
(***************************************************************************)

(* A step that changes one attempt and what its side shows.                *)
LEMMA AttemptStep ==
    ASSUME PeersInv, NEW s \in Sides, NEW i \in Ids, NEW record \in Attempts,
           Become(s, i, record), UNCHANGED <<session_vars, now>>,
           trouble' \in 0..MaxTrouble,
           ui' \in [Sides -> Shown], ui'[Other(s)] = ui[Other(s)],
           ui'[s] = ui[s] \/ ui[s] # "none",
           ThreadOK(record), record.key = attempt[s][i].key,
           ShownOK(s)',
           \A j \in Ids : Faithful(s, i, j)' /\ Faithful(Other(s), j, i)'
    PROVE  PeersInv'
<1>1. /\ attempt' \in [Sides -> [Ids -> Attempts]]
      /\ attempt'[s][i] = record
      /\ \A t \in Sides, j \in Ids : <<t, j>> # <<s, i>> => attempt'[t][j] = attempt[t][j]
  BY DEF PeersInv, TypeOK, Become
<1>2. Other(s) \in Sides /\ Other(s) # s /\ Other(Other(s)) = s
  BY OtherSide
<1>3. now[s] \in Ids /\ now[Other(s)] \in Ids
  BY <1>2, Parts DEF PeersInv
<1>4. TypeOK'
  <2>1. ShownOK(Other(s))'
    <3>1. attempt'[Other(s)][now[Other(s)]] = attempt[Other(s)][now[Other(s)]]
      BY <1>1, <1>2, <1>3
    <3>2. ShownOK(Other(s))
      BY <1>2, Parts DEF PeersInv
    <3>. QED
      BY <3>1, <3>2 DEF ShownOK
  <2>2. \A t \in Sides : ShownOK(t)'
    BY <2>1, OtherSide
  <2>. QED
    BY <1>1, <2>2 DEF PeersInv, TypeOK, ShownOK, Shown, session_vars
<1>5. KeyInv'
  <2>1. \A t \in Sides : attempt'[t][now[t]].key = attempt[t][now[t]].key
    BY <1>1, <1>3, OtherSide
  <2>2. \A t \in Sides : packet[t] = None => ui'[t] = "none"
    <3>. SUFFICES ASSUME NEW t \in Sides, packet[t] = None PROVE ui'[t] = "none"
      OBVIOUS
    <3>1. ui[t] = "none"
      BY DEF PeersInv, KeyInv
    <3>. QED
      BY <3>1, OtherSide
  <2>. QED
    BY <2>1, <2>2 DEF PeersInv, KeyInv, session_vars
<1>6. ThreadInv'
  <2>. SUFFICES ASSUME NEW t \in Sides, NEW j \in Ids PROVE ThreadOK(attempt'[t][j])
    BY DEF ThreadInv, ThreadOK
  <2>1. CASE <<t, j>> = <<s, i>>
    BY <1>1, <2>1
  <2>2. CASE <<t, j>> # <<s, i>>
    BY <1>1, <2>2 DEF PeersInv, ThreadInv
  <2>. QED
    BY <2>1, <2>2
<1>7. AgreeInv'
  <2>. SUFFICES ASSUME NEW t \in Sides, NEW j \in Ids, NEW l \in Ids PROVE Faithful(t, j, l)'
    BY DEF AgreeInv
  <2>1. CASE t = s /\ j = i
    BY <2>1
  <2>2. CASE t = Other(s) /\ l = i
    BY <2>2
  <2>3. CASE ~(t = s /\ j = i) /\ ~(t = Other(s) /\ l = i)
    <3>1. attempt'[t][j] = attempt[t][j]
      BY <1>1, <2>3
    <3>2. <<Other(t), l>> # <<s, i>>
      BY <2>3, OtherSide
    <3>3. attempt'[Other(t)][l] = attempt[Other(t)][l]
      BY <1>1, <3>2, OtherSide
    <3>4. Faithful(t, j, l)
      BY DEF PeersInv, AgreeInv
    <3>. QED
      BY <3>1, <3>3, <3>4 DEF Faithful
  <2>. QED
    BY <2>1, <2>2, <2>3
<1>. QED
  BY <1>4, <1>5, <1>6, <1>7 DEF PeersInv

(* A step that only changes what a side shows.                             *)
LEMMA ShowStep ==
    ASSUME PeersInv, NEW s \in Sides, NEW what \in Shown, Show(s, what),
           UNCHANGED <<session_vars, attempt, now>>, trouble' \in 0..MaxTrouble,
           what = "pending" <=> attempt[s][now[s]].pc \in Running \cup Posted,
           what = "open" => attempt[s][now[s]].open,
           what = "none" \/ ui[s] # "none"
    PROVE  PeersInv'
<1>1. /\ ui' \in [Sides -> Shown] /\ ui'[s] = what
      /\ \A t \in Sides \ {s} : ui'[t] = ui[t]
  BY DEF PeersInv, TypeOK, Show, Shown
<1>2. \A t \in Sides : ShownOK(t)'
  <2>. SUFFICES ASSUME NEW t \in Sides PROVE ShownOK(t)'
    OBVIOUS
  <2>1. CASE t = s
    BY <1>1, <2>1 DEF ShownOK
  <2>2. CASE t # s
    BY <1>1, <2>2, Parts DEF PeersInv, ShownOK
  <2>. QED
    BY <2>1, <2>2
<1>3. TypeOK'
  BY <1>1, <1>2 DEF PeersInv, TypeOK, ShownOK, Shown, session_vars
<1>4. KeyInv' /\ ThreadInv'
  <2>1. \A t \in Sides : packet[t] = None => ui'[t] = "none"
    BY <1>1 DEF PeersInv, KeyInv
  <2>. QED
    BY <2>1 DEF PeersInv, KeyInv, ThreadInv, ThreadOK, session_vars
<1>5. AgreeInv'
  BY DEF PeersInv, AgreeInv, Faithful, Trusts
<1>. QED
  BY <1>3, <1>4, <1>5 DEF PeersInv

(* A step of a thread that goes on, ends, or changes sides with its event: *)
(* a side shows "pending" before and after, or it is not its attempt.      *)
LEMMA WorkerStep ==
    ASSUME PeersInv, NEW s \in Sides, NEW i \in Ids, NEW record \in Attempts,
           Become(s, i, record), ThreadOnly, trouble' \in 0..MaxTrouble,
           ThreadOK(record), record.key = attempt[s][i].key,
           i = now[s] => /\ attempt[s][i].pc \in Running
                         /\ record.pc \in Running \cup Posted,
           \A j \in Ids : Faithful(s, i, j)' /\ Faithful(Other(s), j, i)'
    PROVE  PeersInv'
<1>1. ui' = ui /\ ui \in [Sides -> Shown] /\ UNCHANGED <<session_vars, now>>
  BY DEF ThreadOnly, PeersInv, TypeOK, Shown
<1>2. now[s] \in Ids /\ ShownOK(s)
  BY Parts DEF PeersInv
<1>3. attempt'[s][i] = record /\ \A j \in Ids \ {i} : attempt'[s][j] = attempt[s][j]
  BY DEF PeersInv, TypeOK, Become
<1>4. ShownOK(s)'
  <2>1. CASE i = now[s]
    <3>1. ui[s] = "pending"
      BY <1>2, <2>1 DEF ShownOK
    <3>. QED
      BY <1>1, <1>3, <2>1, <3>1 DEF ShownOK
  <2>2. CASE i # now[s]
    BY <1>1, <1>2, <1>3, <2>2 DEF ShownOK
  <2>. QED
    BY <2>1, <2>2
<1>. QED
  BY <1>1, <1>4, AttemptStep

(* A step of a thread that has no verdict yet, or never had a good one.    *)
LEMMA DistrustStep ==
    ASSUME PeersInv, NEW s \in Sides, NEW i \in Ids, NEW record \in Attempts,
           Become(s, i, record), ThreadOnly, trouble' \in 0..MaxTrouble,
           ThreadOK(record), record.key = attempt[s][i].key, ~Trusts(record),
           i = now[s] => /\ attempt[s][i].pc \in Running
                         /\ record.pc \in Running \cup Posted,
           record.pc \in {"bind", "establish"} => attempt[s][i].pc \in {"bind", "establish"},
           record.mate = attempt[s][i].mate \/ attempt[s][i].pc \in {"bind", "establish"}
    PROVE  PeersInv'
<1>1. ASSUME NEW j \in Ids PROVE Faithful(s, i, j)' /\ Faithful(Other(s), j, i)'
  <2>1. /\ attempt'[s][i] = record /\ attempt'[Other(s)] = attempt[Other(s)]
        /\ Other(s) \in Sides /\ Other(Other(s)) = s
    BY OtherSide DEF PeersInv, TypeOK, Become
  <2>2. Faithful(Other(s), j, i)
    BY <2>1 DEF PeersInv, AgreeInv
  <2>3. Faithful(s, i, j)'
    BY <2>1 DEF Faithful
  <2>4. Faithful(Other(s), j, i)'
    BY <2>1, <2>2 DEF Faithful
  <2>. QED
    BY <2>3, <2>4
<1>. QED
  BY <1>1, WorkerStep

(* The listener holds its port from here on.                               *)
LEMMA BindStep ==
    ASSUME PeersInv, NEW i \in Ids, Bind(i)
    PROVE  PeersInv'
<1>. DEFINE s == "mine"
            a == attempt[s][i]
            record == [a EXCEPT !.pc = IF attempt[s][3 - i].pc = "establish"
                                       THEN "failed" ELSE "establish"]
<1>1. s \in Sides /\ a \in Attempts /\ ThreadOK(a) /\ a.pc = "bind"
  BY Parts DEF PeersInv, ThreadInv, Sides, Bind
<1>2. /\ record \in Attempts /\ record.pc \in {"failed", "establish"}
      /\ record.mate = a.mate /\ record.open = a.open /\ record.key = a.key
  BY <1>1 DEF Attempts, Running, Posted
<1>3. Become(s, i, record) /\ ThreadOnly /\ trouble' \in 0..MaxTrouble
  BY DEF Bind, PeersInv, TypeOK
<1>4. ThreadOK(record) /\ ~Trusts(record)
  BY <1>1, <1>2 DEF ThreadOK, Trusts
<1>. HIDE DEF record
<1>. QED
  BY <1>1, <1>2, <1>3, <1>4, DistrustStep DEF Running, Posted

(* A socket that is won, on either side.                                   *)
LEMMA WonStep ==
    ASSUME PeersInv, NEW s \in Sides, NEW i \in Ids, NEW j \in Ids, NEW condition,
           attempt[s][i].pc = "establish",
           Become(s, i, [attempt[s][i] EXCEPT !.pc = "won", !.open = TRUE, !.mate = j]),
           Usual(condition), ThreadOnly
    PROVE  PeersInv'
<1>. DEFINE a == attempt[s][i]
            record == [a EXCEPT !.pc = "won", !.open = TRUE, !.mate = j]
<1>1. a \in Attempts /\ trouble' \in 0..MaxTrouble
  BY Parts, UsualBound DEF PeersInv
<1>2. record \in Attempts /\ record.pc = "won" /\ record.open = TRUE /\ record.key = a.key
  BY <1>1 DEF Attempts, Running, Posted
<1>3. ThreadOK(record) /\ ~Trusts(record)
  BY <1>2 DEF ThreadOK, Trusts
<1>. HIDE DEF record
<1>4. Become(s, i, record)
  BY DEF record
<1>. QED
  BY <1>1, <1>2, <1>3, <1>4, DistrustStep DEF Running, Posted

(* A thread that gives up, or gives its socket back.                       *)
LEMMA LeaveStep ==
    ASSUME PeersInv, NEW s \in Sides, NEW i \in Ids,
           GivesUp(s, i) \/ Returns(s, i) \/ VerifyFails(s, i) \/ HandleStale(s, i)
    PROVE  PeersInv'
<1>. DEFINE a == attempt[s][i]
<1>1. a \in Attempts /\ ThreadOK(a) /\ trouble \in 0..MaxTrouble
  BY Parts DEF PeersInv, ThreadInv, TypeOK
<1>2. CASE GivesUp(s, i)
  <2>. DEFINE record == [a EXCEPT !.pc = IF Stopped(s, i) THEN "quit" ELSE "failed"]
  <2>1. a.pc = "establish" /\ Become(s, i, record) /\ ThreadOnly /\ trouble' \in 0..MaxTrouble
    BY <1>2, UsualBound DEF GivesUp, PeersInv
  <2>2. /\ record \in Attempts /\ record.pc = (IF Stopped(s, i) THEN "quit" ELSE "failed")
        /\ record.mate = a.mate /\ record.open = a.open /\ record.key = a.key
    BY <1>1 DEF Attempts, Running, Posted
  <2>3. ThreadOK(record) /\ ~Trusts(record)
    BY <1>1, <2>1, <2>2 DEF ThreadOK, Trusts
  <2>. HIDE DEF record
  <2>. QED
    BY <2>1, <2>2, <2>3, DistrustStep DEF Running, Posted, Stopped
<1>3. CASE Returns(s, i)
  <2>. DEFINE record == IF Stopped(s, i) THEN [a EXCEPT !.pc = "quit", !.open = FALSE]
                        ELSE [a EXCEPT !.pc = "verify"]
  <2>1. a.pc = "won" /\ Become(s, i, record) /\ ThreadOnly /\ trouble' \in 0..MaxTrouble
    BY <1>1, <1>3 DEF Returns
  <2>2. /\ record \in Attempts /\ record.mate = a.mate /\ record.key = a.key
        /\ Stopped(s, i) => record.pc = "quit" /\ record.open = FALSE
        /\ ~Stopped(s, i) => record.pc = "verify" /\ record.open = a.open
    BY <1>1 DEF Attempts, Running, Posted
  <2>3. ThreadOK(record) /\ ~Trusts(record)
    BY <1>1, <2>1, <2>2 DEF ThreadOK, Trusts
  <2>. HIDE DEF record
  <2>. QED
    BY <2>1, <2>2, <2>3, DistrustStep DEF Running, Posted, Stopped
<1>4. CASE VerifyFails(s, i)
  <2>. DEFINE record == [a EXCEPT !.pc = "failed", !.open = FALSE]
  <2>1. a.pc = "verify" /\ Become(s, i, record) /\ ThreadOnly /\ trouble' \in 0..MaxTrouble
    BY <1>4, UsualBound DEF VerifyFails, PeersInv
  <2>2. /\ record \in Attempts /\ record.pc = "failed" /\ record.open = FALSE
        /\ record.mate = a.mate /\ record.key = a.key
    BY <1>1 DEF Attempts, Running, Posted
  <2>3. ThreadOK(record) /\ ~Trusts(record)
    BY <2>2 DEF ThreadOK, Trusts
  <2>. HIDE DEF record
  <2>. QED
    BY <2>1, <2>2, <2>3, DistrustStep DEF Running, Posted
<1>5. CASE HandleStale(s, i)
  <2>. DEFINE record == [a EXCEPT !.pc = IF @ = "failed" THEN "quit" ELSE "done", !.open = FALSE]
  <2>1. i # now[s] /\ Become(s, i, record) /\ ThreadOnly /\ trouble' \in 0..MaxTrouble
    BY <1>1, <1>5 DEF HandleStale, Stopped, ThreadOnly
  <2>2. /\ record \in Attempts /\ record.pc \in {"quit", "done"} /\ record.open = FALSE
        /\ record.mate = a.mate /\ record.key = a.key
    BY <1>1 DEF Attempts, Running, Posted
  <2>3. ThreadOK(record) /\ ~Trusts(record)
    BY <2>2 DEF ThreadOK, Trusts
  <2>. HIDE DEF record
  <2>. QED
    BY <2>1, <2>2, <2>3, DistrustStep
<1>. QED
  BY <1>2, <1>3, <1>4, <1>5

(* A good verdict is given to a connection whose other end has the same    *)
(* key, and is past waiting for one.                                       *)
LEMMA VerdictStep ==
    ASSUME PeersInv, NEW s \in Sides, NEW i \in Ids, Verdict(s, i)
    PROVE  PeersInv'
<1>. DEFINE a == attempt[s][i]
<1>1. PICK m \in Mate(s, i) :
          /\ a.pc = "verify"
          /\ attempt[Other(s)][m].pc \in {"verify", "verified", "mismatch", "done"}
          /\ Become(s, i, IF a.key = attempt[Other(s)][m].key
                          THEN [a EXCEPT !.pc = "verified"]
                          ELSE [a EXCEPT !.pc = "mismatch", !.open = FALSE])
          /\ UNCHANGED trouble
          /\ ThreadOnly
  BY DEF Verdict
<1>2. a \in Attempts /\ ThreadOK(a) /\ trouble' \in 0..MaxTrouble
  BY <1>1, Parts DEF PeersInv, ThreadInv, TypeOK
<1>3. m \in Ids /\ a.mate = m
  BY <1>1 DEF Mate
<1>4. CASE a.key = attempt[Other(s)][m].key
  <2>. DEFINE record == [a EXCEPT !.pc = "verified"]
  <2>1. /\ record \in Attempts /\ record.pc = "verified"
        /\ record.open = a.open /\ record.mate = a.mate /\ record.key = a.key
    BY <1>2 DEF Attempts, Running, Posted
  <2>2. ThreadOK(record)
    BY <1>1, <1>2, <2>1 DEF ThreadOK
  <2>3. Become(s, i, record)
    BY <1>1, <1>4
  <2>. HIDE DEF record
  <2>4. ASSUME NEW j \in Ids PROVE Faithful(s, i, j)' /\ Faithful(Other(s), j, i)'
    <3>1. /\ attempt'[s][i] = record /\ attempt'[Other(s)] = attempt[Other(s)]
          /\ Other(s) \in Sides /\ Other(Other(s)) = s
      BY <2>3, OtherSide DEF PeersInv, TypeOK, Become
    <3>2. Faithful(Other(s), j, i)
      BY <3>1 DEF PeersInv, AgreeInv
    <3>3. Faithful(s, i, j)'
      BY <1>1, <1>3, <1>4, <2>1, <3>1 DEF Faithful
    <3>4. Faithful(Other(s), j, i)'
      BY <2>1, <3>1, <3>2 DEF Faithful
    <3>. QED
      BY <3>3, <3>4
  <2>. QED
    BY <1>1, <1>2, <2>1, <2>2, <2>3, <2>4, WorkerStep DEF Running, Posted
<1>5. CASE a.key # attempt[Other(s)][m].key
  <2>. DEFINE record == [a EXCEPT !.pc = "mismatch", !.open = FALSE]
  <2>1. /\ record \in Attempts /\ record.pc = "mismatch" /\ record.open = FALSE
        /\ record.mate = a.mate /\ record.key = a.key
    BY <1>2 DEF Attempts, Running, Posted
  <2>2. ThreadOK(record) /\ ~Trusts(record)
    BY <2>1 DEF ThreadOK, Trusts
  <2>3. Become(s, i, record)
    BY <1>1, <1>5
  <2>. HIDE DEF record
  <2>. QED
    BY <1>1, <1>2, <2>1, <2>2, <2>3, DistrustStep DEF Running, Posted
<1>. QED
  BY <1>4, <1>5

(* The end of the present attempt is shown.                                *)
LEMMA HandleStep ==
    ASSUME PeersInv, NEW s \in Sides, Handle(s)
    PROVE  PeersInv'
<1>0. PICK i \in Ids : i = now[s]
  BY Parts DEF PeersInv
<1>. DEFINE a == attempt[s][i]
            record == [a EXCEPT !.pc = IF @ = "failed" THEN "quit" ELSE "done"]
<1>1. /\ a \in Attempts /\ ThreadOK(a) /\ trouble' \in 0..MaxTrouble
      /\ a.pc \in {"verified", "mismatch", "failed"}
      /\ Become(s, i, record) /\ UNCHANGED <<session_vars, now>>
  BY <1>0, Parts DEF PeersInv, ThreadInv, TypeOK, Handle
<1>2. /\ record \in Attempts /\ record.pc = (IF a.pc = "failed" THEN "quit" ELSE "done")
      /\ record.open = a.open /\ record.mate = a.mate /\ record.key = a.key
  BY <1>1 DEF Attempts, Running, Posted
<1>3. ThreadOK(record) /\ (Trusts(record) => Trusts(a))
  BY <1>1, <1>2 DEF ThreadOK, Trusts
<1>4. /\ attempt'[s][i] = record /\ attempt'[Other(s)] = attempt[Other(s)]
      /\ Other(s) \in Sides /\ Other(Other(s)) = s /\ Other(s) # s
  BY <1>1, OtherSide DEF PeersInv, TypeOK, Become
<1>5. /\ ui' \in [Sides -> Shown] /\ ui'[Other(s)] = ui[Other(s)]
      /\ ui'[s] \in {"open", "dialog", "failed"} /\ (ui'[s] = "open" => a.pc = "verified")
  <2>1. PICK what \in {"open", "dialog", "failed"} :
               Show(s, what) /\ (what = "open" => a.pc = "verified")
    BY <1>0 DEF Handle
  <2>2. ui \in [Sides -> Shown]
    BY DEF PeersInv, TypeOK, Shown
  <2>. QED
    BY <1>4, <2>1, <2>2 DEF Show, Shown
<1>6. ShownOK(s)'
  <2>1. attempt'[s][now'[s]] = record
    BY <1>0, <1>1, <1>4
  <2>2. a.pc = "verified" => record.open
    BY <1>1, <1>2 DEF ThreadOK
  <2>. HIDE DEF record
  <2>. QED
    BY <1>2, <1>5, <2>1, <2>2 DEF ShownOK, Running, Posted
<1>8. ui[s] # "none"
  <2>1. ShownOK(s)
    BY Parts DEF PeersInv
  <2>. QED
    BY <1>0, <1>1, <2>1 DEF ShownOK, Posted
<1>. HIDE DEF record
<1>7. ASSUME NEW j \in Ids PROVE Faithful(s, i, j)' /\ Faithful(Other(s), j, i)'
  <2>1. Faithful(s, i, j) /\ Faithful(Other(s), j, i)
    BY <1>1, <1>4 DEF PeersInv, AgreeInv
  <2>2. Faithful(s, i, j)'
    BY <1>2, <1>3, <1>4, <2>1 DEF Faithful
  <2>3. Faithful(Other(s), j, i)'
    BY <1>2, <1>4, <2>1 DEF Faithful
  <2>. QED
    BY <2>2, <2>3
<1>. QED
  BY <1>1, <1>2, <1>3, <1>4, <1>5, <1>6, <1>7, <1>8, AttemptStep

(* An attempt that begins is the present one; no connection leads to it.   *)
LEMMA StartStep ==
    ASSUME PeersInv, NEW s \in Sides, NEW key \in Keys, StartAttempt(s, key),
           phrase' \in [Sides -> Phrases], packet' \in [Sides -> Packets \cup {None}],
           phrase'[Other(s)] = phrase[Other(s)], packet'[Other(s)] = packet[Other(s)],
           key = <<phrase'[s], packet'[s]>>, packet'[s] # None,
           sent' = packet'["mine"], trouble' \in 0..MaxTrouble
    PROVE  PeersInv'
<1>1. /\ Other(s) \in Sides /\ Other(s) # s /\ Other(Other(s)) = s
      /\ \A t \in Sides : t = s \/ t = Other(s)
  BY OtherSide
<1>2. PICK spare \in Ids : spare = Spare(s)
  BY SpareAttempt DEF PeersInv
<1>. DEFINE first == IF s = "mine" THEN "bind" ELSE "establish"
            fresh == [NoAttempt EXCEPT !.pc = first, !.key = key]
            Forget(a) == IF a.mate = spare THEN [a EXCEPT !.mate = None] ELSE a
            stopped == IF ui[s] \in {"open", "lost"}
                       THEN [attempt[s][now[s]] EXCEPT !.open = FALSE] ELSE attempt[s][now[s]]
<1>3. /\ \A i \in Ids : attempt[Other(s)][i].mate = spare =>
            attempt[Other(s)][i].pc \notin Running
      /\ attempt' = [attempt EXCEPT
             ![s] = [i \in Ids |-> IF i = spare THEN fresh ELSE stopped],
             ![Other(s)] = [i \in Ids |-> Forget(@[i])]]
      /\ now' = [now EXCEPT ![s] = spare]
      /\ Show(s, "pending")
  BY <1>2 DEF StartAttempt
<1>4. /\ fresh \in Attempts /\ fresh.pc \in {"bind", "establish"} /\ fresh.key = key
      /\ fresh.mate = None /\ fresh.open = FALSE
  BY DEF NoAttempt, Attempts, NoKey, Running, Posted
<1>5. ASSUME NEW i \in Ids
      PROVE  LET a == attempt[Other(s)][i]
                 b == attempt'[Other(s)][i] IN
             /\ b \in Attempts /\ b.pc = a.pc /\ b.open = a.open /\ b.key = a.key
             /\ b.mate \in {a.mate, None} /\ b.mate # spare
  <2>. DEFINE a == attempt[Other(s)][i]
  <2>1. attempt'[Other(s)][i] = Forget(a) /\ a \in Attempts
    BY <1>1, <1>3, Parts DEF PeersInv, TypeOK
  <2>2. spare # None
    BY DEF Ids, None
  <2>. QED
    BY <2>1, <2>2 DEF Attempts
<1>6. ASSUME NEW i \in Ids, i # spare
      PROVE  LET a == attempt[s][i]
                 b == attempt'[s][i] IN
             /\ b \in Attempts /\ b.pc = a.pc /\ b.mate = a.mate /\ b.key = a.key
             /\ b.open \in {a.open, FALSE}
             /\ a.pc \in {"won", "verify", "verified"} => b.open = a.open
  <2>. DEFINE a == attempt[s][i]
  <2>1. i = now[s] /\ a \in Attempts /\ ShownOK(s)
    BY <1>2, <1>6, SpareAttempt, Parts DEF PeersInv
  <2>2. attempt'[s][i] = stopped
    BY <1>1, <1>3, <1>6 DEF PeersInv, TypeOK
  <2>3. ui[s] \in {"open", "lost"} => a.pc \notin {"won", "verify", "verified"}
    BY <2>1 DEF ShownOK, Running, Posted
  <2>. QED
    BY <2>1, <2>2, <2>3 DEF Attempts
<1>7. attempt'[s][spare] = fresh
  BY <1>1, <1>3 DEF PeersInv, TypeOK
<1>. HIDE DEF first, fresh, Forget, stopped
<1>8. /\ attempt' \in [Sides -> [Ids -> Attempts]]
      /\ now' \in [Sides -> Ids] /\ now'[s] = spare /\ now'[Other(s)] = now[Other(s)]
      /\ ui' \in [Sides -> Shown] /\ ui'[s] = "pending" /\ ui'[Other(s)] = ui[Other(s)]
  <2>1. /\ DOMAIN attempt' = Sides /\ DOMAIN attempt'[s] = Ids /\ DOMAIN attempt'[Other(s)] = Ids
        /\ attempt'[s] = [i \in Ids |-> attempt'[s][i]]
        /\ attempt'[Other(s)] = [i \in Ids |-> attempt'[Other(s)][i]]
        /\ attempt' = [t \in Sides |-> attempt'[t]]
    BY <1>1, <1>3 DEF PeersInv, TypeOK
  <2>2. \A i \in Ids : attempt'[s][i] \in Attempts /\ attempt'[Other(s)][i] \in Attempts
    BY <1>4, <1>5, <1>6, <1>7
  <2>3. attempt'[s] \in [Ids -> Attempts] /\ attempt'[Other(s)] \in [Ids -> Attempts]
    BY <2>1, <2>2
  <2>4. attempt' \in [Sides -> [Ids -> Attempts]]
    BY <1>1, <2>1, <2>3
  <2>5. now' \in [Sides -> Ids] /\ now'[s] = spare /\ now'[Other(s)] = now[Other(s)]
    BY <1>1, <1>3 DEF PeersInv, TypeOK
  <2>6. ui' \in [Sides -> Shown] /\ ui'[s] = "pending" /\ ui'[Other(s)] = ui[Other(s)]
    BY <1>1, <1>3 DEF PeersInv, TypeOK, Show, Shown
  <2>. QED
    BY <2>4, <2>5, <2>6
<1>9. TypeOK'
  <2>1. ShownOK(s)'
    BY <1>4, <1>7, <1>8 DEF ShownOK, Running
  <2>2. ShownOK(Other(s))'
    <3>1. ShownOK(Other(s)) /\ now[Other(s)] \in Ids
      BY <1>1, Parts DEF PeersInv
    <3>. QED
      BY <1>5, <1>8, <3>1 DEF ShownOK
  <2>3. \A t \in Sides : ShownOK(t)'
    BY <1>1, <2>1, <2>2
  <2>4. sent' \in Packets \cup {None}
    BY DEF Sides
  <2>. QED
    BY <1>8, <2>3, <2>4 DEF TypeOK, ShownOK, Shown
<1>10. KeyInv'
  <2>1. attempt'[s][now'[s]].key = <<phrase'[s], packet'[s]>>
    BY <1>4, <1>7, <1>8
  <2>2. attempt'[Other(s)][now'[Other(s)]].key = <<phrase'[Other(s)], packet'[Other(s)]>>
    <3>1. /\ now[Other(s)] \in Ids
          /\ attempt[Other(s)][now[Other(s)]].key = <<phrase[Other(s)], packet[Other(s)]>>
      BY <1>1, Parts DEF PeersInv, KeyInv
    <3>. QED
      BY <1>5, <1>8, <3>1
  <2>3. packet'[Other(s)] = None => ui'[Other(s)] = "none"
    BY <1>1, <1>8 DEF PeersInv, KeyInv
  <2>. QED
    BY <1>1, <2>1, <2>2, <2>3 DEF KeyInv
<1>11. ThreadInv'
  <2>1. \A i \in Ids : ThreadOK(attempt[s][i]) /\ ThreadOK(attempt[Other(s)][i])
    BY <1>1 DEF PeersInv, ThreadInv
  <2>2. \A i \in Ids : ThreadOK(attempt'[s][i])
    BY <1>4, <1>6, <1>7, <2>1 DEF ThreadOK
  <2>3. \A i \in Ids : ThreadOK(attempt'[Other(s)][i])
    BY <1>5, <2>1 DEF ThreadOK
  <2>. QED
    BY <1>1, <2>2, <2>3 DEF ThreadInv, ThreadOK
<1>12. AgreeInv'
  <2>1. \A i, j \in Ids : Faithful(s, i, j) /\ Faithful(Other(s), i, j)
    BY <1>1 DEF PeersInv, AgreeInv
  <2>2. ASSUME NEW i \in Ids, NEW j \in Ids PROVE Faithful(s, i, j)'
    <3>1. CASE i = spare
      BY <1>4, <1>7, <3>1 DEF Faithful, Trusts
    <3>2. CASE i # spare
      <4>1. Faithful(s, i, j) /\ i # None
        BY <2>1 DEF Ids, None
      <4>. QED
        BY <1>5, <1>6, <3>2, <4>1 DEF Faithful, Trusts
    <3>. QED
      BY <3>1, <3>2
  <2>3. ASSUME NEW i \in Ids, NEW j \in Ids PROVE Faithful(Other(s), i, j)'
    <3>1. CASE j = spare
      BY <1>1, <1>5, <3>1 DEF Faithful
    <3>2. CASE j # spare
      <4>1. Faithful(Other(s), i, j) /\ j # None
        BY <2>1 DEF Ids, None
      <4>2. /\ attempt'[s][j].pc = attempt[s][j].pc /\ attempt'[s][j].mate = attempt[s][j].mate
            /\ attempt'[s][j].key = attempt[s][j].key
        BY <1>6, <3>2
      <4>3. /\ attempt'[Other(s)][i].key = attempt[Other(s)][i].key
            /\ Trusts(attempt'[Other(s)][i]) => Trusts(attempt[Other(s)][i])
            /\ attempt'[Other(s)][i].mate = j => attempt[Other(s)][i].mate = j
        BY <1>5, <4>1 DEF Trusts
      <4>. QED
        BY <1>1, <4>1, <4>2, <4>3 DEF Faithful
    <3>. QED
      BY <3>1, <3>2
  <2>. QED
    BY <1>1, <2>2, <2>3 DEF AgreeInv
<1>. QED
  BY <1>9, <1>10, <1>11, <1>12 DEF PeersInv

(* A user begins an attempt of side s, on a handshake there may be.        *)
LEMMA UserStarts ==
    ASSUME PeersInv, NEW s \in Sides, NEW p \in Phrases, NEW q \in Packets, NEW condition,
           StartAttempt(s, <<p, q>>), phrase' = [phrase EXCEPT ![s] = p],
           packet' = [packet EXCEPT ![s] = q], sent' = packet'["mine"], Usual(condition)
    PROVE  PeersInv'
<1>1. Other(s) \in Sides /\ Other(s) # s
  BY OtherSide
<1>2. /\ phrase' \in [Sides -> Phrases] /\ packet' \in [Sides -> Packets \cup {None}]
      /\ phrase'[Other(s)] = phrase[Other(s)] /\ packet'[Other(s)] = packet[Other(s)]
      /\ phrase'[s] = p /\ packet'[s] = q
  BY <1>1 DEF PeersInv, TypeOK
<1>3. trouble' \in 0..MaxTrouble
  BY UsualBound DEF PeersInv
<1>4. <<p, q>> \in Keys /\ q # None
  BY DEF Keys, Packets, None
<1>. QED
  BY <1>2, <1>3, <1>4, StartStep

(* The present attempt begins anew, or the user gives up.                  *)
LEMMA AnswerStep ==
    ASSUME PeersInv, NEW s \in Sides, Answer(s)
    PROVE  PeersInv'
<1>1. ui[s] = "dialog" /\ s \in {"mine", "peer"}
  BY DEF Answer, AnswerCancel, AnswerOk, Sides
<1>2. packet[s] \in Packets /\ phrase[s] \in Phrases
  BY <1>1, Parts DEF PeersInv, KeyInv
<1>3. phrase = [phrase EXCEPT ![s] = phrase[s]] /\ packet = [packet EXCEPT ![s] = packet[s]]
  BY DEF PeersInv, TypeOK
<1>4. sent = packet["mine"]
  BY DEF PeersInv, KeyInv
<1>5. CASE AnswerCancel(s)
  <2>1. UNCHANGED session_vars /\ Usual(s = "mine" /\ phrase[s] = Agreed)
    BY <1>5 DEF AnswerCancel
  <2>2. CASE StartAttempt(s, <<phrase[s], packet[s]>>)
    BY <1>2, <1>3, <1>4, <2>1, <2>2, UserStarts DEF session_vars
  <2>3. CASE Show(s, "none") /\ UNCHANGED <<attempt, now>>
    <3>1. ShownOK(s) /\ trouble' \in 0..MaxTrouble
      BY <2>1, Parts, UsualBound DEF PeersInv
    <3>2. attempt[s][now[s]].pc \notin Running \cup Posted
      BY <1>1, <3>1 DEF ShownOK
    <3>. QED
      BY <2>1, <2>3, <3>1, <3>2, ShowStep DEF Shown
  <2>. QED
    BY <1>5, <2>2, <2>3 DEF AnswerCancel
<1>6. ASSUME NEW p \in Phrases, AnswerOk(s, p) PROVE PeersInv'
  <2>1. /\ phrase' = [phrase EXCEPT ![s] = p] /\ packet' = [packet EXCEPT ![s] = packet[s]]
        /\ UNCHANGED sent /\ StartAttempt(s, <<p, packet'[s]>>) /\ Usual(p = Agreed)
    BY <1>6 DEF AnswerOk, RetryPacket
  <2>2. packet' = packet
    BY <1>3, <2>1
  <2>. QED
    BY <1>2, <1>4, <2>1, <2>2, UserStarts
<1>. QED
  BY <1>5, <1>6 DEF Answer

(* A handshake is generated, or what was sent is pasted.                   *)
LEMMA SessionStep ==
    ASSUME PeersInv, NEW p \in Phrases, Generate(p) \/ Paste(p)
    PROVE  PeersInv'
<1>1. "mine" \in Sides /\ "peer" \in Sides
  BY DEF Sides
<1>2. CASE Generate(p)
  <2>1. Fresh \in Packets
    BY FreshIsNew DEF PeersInv
  <2>2. PICK q \in Packets : q = Fresh
    BY <2>1
  <2>3. /\ phrase' = [phrase EXCEPT !["mine"] = p] /\ packet' = [packet EXCEPT !["mine"] = q]
        /\ sent' = q /\ StartAttempt("mine", <<p, q>>)
        /\ Usual(p = Agreed /\ ui["mine"] \in {"none", "failed", "lost"})
    BY <1>2, <2>2 DEF Generate
  <2>4. sent' = packet'["mine"]
    BY <1>1, <2>3 DEF PeersInv, TypeOK
  <2>. QED
    BY <1>1, <2>3, <2>4, UserStarts
<1>3. CASE Paste(p)
  <2>1. sent \in Packets
    BY <1>3 DEF Paste, PeersInv, TypeOK
  <2>2. sent' = packet'["mine"]
    BY <1>1, <1>3 DEF Paste, PeersInv, TypeOK, KeyInv
  <2>3. PICK condition : Usual(condition)
    BY <1>3 DEF Paste
  <2>4. /\ phrase' = [phrase EXCEPT !["peer"] = p] /\ packet' = [packet EXCEPT !["peer"] = sent]
        /\ StartAttempt("peer", <<p, sent>>)
    BY <1>3 DEF Paste
  <2>. QED
    BY <1>1, <2>1, <2>2, <2>3, <2>4, UserStarts
<1>. QED
  BY <1>2, <1>3

(* Every step keeps the invariant.                                         *)
LEMMA StepInv == PeersInv /\ [Next]_vars => PeersInv'
<1>. SUFFICES ASSUME PeersInv, [Next]_vars PROVE PeersInv'
  OBVIOUS
<1>1. ASSUME NEW s \in Sides, NEW i \in Ids, Worker(s, i) \/ HandleStale(s, i) PROVE PeersInv'
  <2>1. CASE s = "mine" /\ Bind(i)
    BY <2>1, BindStep
  <2>2. CASE s = "mine" /\ Accept(i)
    <3>1. PICK j \in Ids :
              Become("mine", i, [attempt["mine"][i] EXCEPT !.pc = "won", !.open = TRUE, !.mate = j])
      BY <2>2 DEF Accept
    <3>2. /\ attempt["mine"][i].pc = "establish" /\ Usual(~Stopped("mine", i)) /\ ThreadOnly
      BY <2>2 DEF Accept
    <3>. QED
      BY <2>2, <3>1, <3>2, WonStep
  <2>3. CASE s = "peer" /\ Connect(i)
    <3>1. PICK j \in Ids :
              Become("peer", i, [attempt["peer"][i] EXCEPT !.pc = "won", !.open = TRUE, !.mate = j])
      BY <2>3 DEF Connect
    <3>2. /\ attempt["peer"][i].pc = "establish" /\ Usual(~Stopped("peer", i)) /\ ThreadOnly
      BY <2>3 DEF Connect
    <3>. QED
      BY <2>3, <3>1, <3>2, WonStep
  <2>4. CASE GivesUp(s, i) \/ Returns(s, i) \/ VerifyFails(s, i) \/ HandleStale(s, i)
    BY <2>4, LeaveStep
  <2>5. CASE Verdict(s, i)
    BY <2>5, VerdictStep
  <2>. QED
    BY <1>1, <2>1, <2>2, <2>3, <2>4, <2>5 DEF Worker
<1>2. ASSUME NEW s \in Sides, Handle(s) PROVE PeersInv'
  BY <1>2, HandleStep
<1>3. ASSUME NEW s \in Sides, Lose(s) PROVE PeersInv'
  <2>1. /\ ui[s] = "open" /\ Show(s, "lost") /\ UNCHANGED <<session_vars, attempt, now>>
        /\ trouble' \in 0..MaxTrouble
    BY <1>3 DEF Lose, PeersInv, TypeOK
  <2>2. ShownOK(s)
    BY Parts DEF PeersInv
  <2>3. attempt[s][now[s]].pc \notin Running \cup Posted
    BY <2>1, <2>2 DEF ShownOK
  <2>. QED
    BY <2>1, <2>3, ShowStep DEF Shown
<1>4. ASSUME NEW s \in Sides, Answer(s) PROVE PeersInv'
  BY <1>4, AnswerStep
<1>5. ASSUME NEW p \in Phrases, Generate(p) \/ Paste(p) PROVE PeersInv'
  BY <1>5, SessionStep
<1>6. CASE UNCHANGED vars
  BY <1>6 DEF vars, session_vars, PeersInv, TypeOK, KeyInv, ThreadInv, ThreadOK, AgreeInv,
     Faithful, Trusts
<1>. QED
  BY <1>1, <1>2, <1>3, <1>4, <1>5, <1>6 DEF Next

(* At the start there is no handshake, and no attempt has been made.       *)
LEMMA InitInv == Init => PeersInv
<1>. SUFFICES ASSUME Init PROVE PeersInv
  OBVIOUS
<1>1. NoAttempt \in Attempts /\ ThreadOK(NoAttempt) /\ ~Trusts(NoAttempt)
  BY DEF NoAttempt, Attempts, ThreadOK, Trusts, Running, Posted
<1>2. /\ \A s \in Sides, i \in Ids : attempt[s][i] = NoAttempt
      /\ \A s \in Sides : now[s] = 1 /\ 1 \in Ids
  BY DEF Init, Ids
<1>3. TypeOK
  <2>1. attempt \in [Sides -> [Ids -> Attempts]]
    BY <1>1 DEF Init
  <2>2. \A s \in Sides : ShownOK(s)
    BY <1>2 DEF Init, ShownOK, NoAttempt, Running, Posted
  <2>. QED
    BY <1>2, <2>1, <2>2, PeersAssumption DEF Init, TypeOK, ShownOK
<1>4. KeyInv
  BY <1>2 DEF Init, KeyInv, NoAttempt, NoKey, Sides
<1>5. ThreadInv
  BY <1>1, <1>2 DEF ThreadInv
<1>6. AgreeInv
  BY <1>1, <1>2 DEF AgreeInv, Faithful
<1>. QED
  BY <1>3, <1>4, <1>5, <1>6 DEF PeersInv

-----------------------------------------------------------------------------
(***************************************************************************)
(* The theorems.                                                           *)
(***************************************************************************)

(* The invariant of the two applications holds after every step.           *)
THEOREM PeersInvariant == Spec => []PeersInv
BY InitInv, StepInv, PTL DEF Spec

(* A user waits exactly as long as the present attempt is under way or its *)
(* event waits, and sees no open channel whose socket is closed            *)
(* (appearance.py, _channel_pending and the events of the worker).         *)
THEOREM TypeCorrect == Spec => []TypeOK
<1>1. PeersInv => TypeOK
  BY DEF PeersInv
<1>. QED
  BY <1>1, PeersInvariant, PTL

(* When a user sees an open channel, the attempt at its other end was made *)
(* with the phrase and the handshake of that user's present session,       *)
(* whatever either user retried, cancelled or replaced in the meantime.    *)
OpenOnOneKey ==
    \A s \in Sides : ui[s] = "open" =>
        \A j \in Mate(s, now[s]) : attempt[Other(s)][j].key = <<phrase[s], packet[s]>>

(* appearance.py: what an attempt of before has left is never taken for    *)
(* the channel of the present session.                                     *)
THEOREM OpenChannelsAgree == Spec => []OpenOnOneKey
<1>1. PeersInv => OpenOnOneKey
  <2>. SUFFICES ASSUME PeersInv, NEW s \in Sides, ui[s] = "open", NEW j \in Mate(s, now[s])
                PROVE  attempt[Other(s)][j].key = <<phrase[s], packet[s]>>
    BY DEF OpenOnOneKey
  <2>. DEFINE a == attempt[s][now[s]]
  <2>1. now[s] \in Ids /\ a \in Attempts /\ ShownOK(s) /\ ThreadOK(a)
    BY Parts DEF PeersInv, ThreadInv
  <2>2. Trusts(a)
    BY <2>1 DEF ShownOK, ThreadOK, Trusts, Attempts, Running, Posted
  <2>3. j \in Ids /\ a.mate = j /\ attempt[Other(s)][j].mate = now[s] /\ Faithful(s, now[s], j)
    BY <2>1 DEF Mate, PeersInv, AgreeInv
  <2>4. attempt[Other(s)][j].key = a.key
    BY <2>2, <2>3 DEF Faithful
  <2>. QED
    BY <2>4 DEF PeersInv, KeyInv
<1>. QED
  BY <1>1, PeersInvariant, PTL

(* Two users who see each other's channel have the same phrase and the     *)
(* same handshake in their sessions.                                       *)
THEOREM TogetherOnOneKey ==
    Spec => [](Together => phrase["mine"] = phrase["peer"] /\ packet["mine"] = packet["peer"])
<1>1. PeersInv /\ OpenOnOneKey /\ Together
         => phrase["mine"] = phrase["peer"] /\ packet["mine"] = packet["peer"]
  <2>. SUFFICES ASSUME PeersInv, OpenOnOneKey, Together
                PROVE  phrase["mine"] = phrase["peer"] /\ packet["mine"] = packet["peer"]
    OBVIOUS
  <2>1. "mine" \in Sides /\ "peer" \in Sides /\ Other("mine") = "peer"
    BY DEF Sides, Other
  <2>2. attempt["peer"][now["peer"]].key = <<phrase["mine"], packet["mine"]>>
    BY <2>1 DEF OpenOnOneKey, Together
  <2>3. attempt["peer"][now["peer"]].key = <<phrase["peer"], packet["peer"]>>
    BY <2>1 DEF PeersInv, KeyInv
  <2>4. <<phrase["mine"], packet["mine"]>> = <<phrase["peer"], packet["peer"]>>
    BY <2>2, <2>3
  <2>. QED
    BY <2>4
<1>. QED
  BY <1>1, PeersInvariant, OpenChannelsAgree, PTL

=============================================================================
