--------------------------- MODULE Session_proofs ---------------------------
(***************************************************************************)
(* Theorems about Session, for every value of its constants.               *)
(***************************************************************************)
EXTENDS Session, SequenceTheorems, TLAPS

-----------------------------------------------------------------------------
(***************************************************************************)
(* Lemmas about the helpers of the handlers: they keep the types.          *)
(***************************************************************************)

(* The session key is a key or None.                                       *)
LEMMA SessionKeyType ==
    ASSUME NEW h \in Handshakes
    PROVE  SessionKey(h) \in Keys \cup {None}
BY DEF SessionKey, Handshakes

(* Deriving a key from a phrase and a packet gives a key, which is not     *)
(* None.                                                                   *)
LEMMA DeriveKeyType ==
    ASSUME NEW phrase \in Phrases, NEW packet \in Packets
    PROVE  /\ derive_key(phrase, packet) \in Keys
           /\ derive_key(phrase, packet) # None
BY SessionAssumption DEF derive_key, Keys

(* A reset attempt is a well-formed channel state.                         *)
LEMMA NextAttemptType ==
    ASSUME NEW c \in Channels
    PROVE  NextAttempt(c) \in Channels
BY DEF NextAttempt, NoSocket, Channels

LEMMA NoHandshakeType == NoHandshake \in Handshakes
BY DEF NoHandshake, Handshakes

(* HsAfter and ChAfter keep the types, whether or not there is a reset.    *)
LEMMA AfterType ==
    ASSUME TypeOK, NEW reset \in BOOLEAN
    PROVE  HsAfter(reset) \in Handshakes /\ ChAfter(reset) \in Channels
BY NextAttemptType, NoHandshakeType DEF HsAfter, ChAfter, TypeOK

LEMMA SessionActiveType ==
    ASSUME NEW h, NEW c \in Channels
    PROVE  SessionActive(h, c) \in BOOLEAN
BY DEF SessionActive, Channels

LEMMA SendButtonStateType ==
    ASSUME NEW p \in Payloads, NEW c \in Channels
    PROVE  SendButtonState(p, c) \in BOOLEAN
BY DEF SendButtonState, PayloadMatchesChannelKey, Payloads, Channels

LEMMA DiscardType ==
    ASSUME NEW p \in Payloads
    PROVE  DiscardKeyBoundPayload(p) \in Payloads
BY DEF DiscardKeyBoundPayload, Payloads

(* The effects of a reset keep the types of what they touch.               *)
LEMMA ResetEffectsType ==
    ASSUME TypeOK, NEW reset \in BOOLEAN, ResetEffects(reset)
    PROVE  /\ stopped' \subseteq Nat
           /\ open' \subseteq Nat
           /\ pay' \in Payloads
           /\ btn_send' \in BOOLEAN
<1>1. CASE reset
  <2>1. pay' \in Payloads
    BY <1>1, DiscardType DEF ResetEffects, TypeOK
  <2>2. btn_send' \in BOOLEAN
    BY <1>1, <2>1, NextAttemptType, SendButtonStateType DEF ResetEffects, TypeOK
  <2>3. ch.stop_event \in Nat
    BY DEF TypeOK, Channels
  <2>4. stopped' \subseteq Nat /\ open' \subseteq Nat
    BY <1>1, <2>3 DEF ResetEffects, TypeOK
  <2>. QED
    BY <2>1, <2>2, <2>4
<1>2. CASE ~reset
  BY <1>2 DEF ResetEffects, TypeOK
<1>. QED
  BY <1>1, <1>2

(* Starting an attempt, or not, keeps the types.                           *)
LEMMA MaybeStartType ==
    ASSUME TypeOK, NEW h \in Handshakes, NEW c \in Channels, MaybeStart(h, c)
    PROVE  hs' \in Handshakes /\ ch' \in Channels /\ attempts' \in Seq(Attempts)
<1>1. CASE CanStart(h, c)
  <2>1. SessionKey(h) \in Keys
    BY <1>1, SessionKeyType DEF CanStart
  <2>2. NewAttempt(h, c) \in Attempts
    BY <2>1 DEF NewAttempt, Attempts, Channels
  <2>3. ch' \in Channels
    BY <1>1 DEF MaybeStart, Channels
  <2>. QED
    BY <1>1, <2>2, <2>3 DEF MaybeStart, TypeOK
<1>2. CASE ~CanStart(h, c)
  BY <1>2 DEF MaybeStart, TypeOK
<1>. QED
  BY <1>1, <1>2

LEMMA NoStartType ==
    ASSUME TypeOK, NEW h \in Handshakes, NEW c \in Channels, NoStart(h, c)
    PROVE  hs' \in Handshakes /\ ch' \in Channels /\ attempts' \in Seq(Attempts)
BY DEF NoStart, TypeOK

-----------------------------------------------------------------------------
(***************************************************************************)
(* Lemmas about sequences, for the queues, the attempts and the windows.   *)
(***************************************************************************)

(* Appending adds one element to what waits in a queue.                    *)
LEMMA WaitingAppend ==
    ASSUME NEW S, NEW q \in Seq(S), NEW e \in S
    PROVE  /\ Append(q, e) \in Seq(S)
           /\ Waiting(Append(q, e)) = Waiting(q) \cup {e}
<1>1. /\ Append(q, e) \in Seq(S)
      /\ Len(Append(q, e)) = Len(q) + 1
      /\ \A i \in 1..Len(q) : Append(q, e)[i] = q[i]
      /\ Append(q, e)[Len(q) + 1] = e
  BY AppendProperties
<1>2. 1..(Len(q) + 1) = (1..Len(q)) \cup {Len(q) + 1}
  BY LenProperties
<1>. QED
  BY <1>1, <1>2 DEF Waiting

(* Taking the head removes at most that element from what waits.           *)
LEMMA WaitingTail ==
    ASSUME NEW S, NEW q \in Seq(S), q # << >>
    PROVE  /\ Tail(q) \in Seq(S)
           /\ Head(q) \in S
           /\ Head(q) \in Waiting(q)
           /\ Waiting(Tail(q)) \subseteq Waiting(q)
<1>1. /\ Tail(q) \in Seq(S)
      /\ Head(q) \in S
      /\ Len(Tail(q)) = Len(q) - 1
      /\ \A i \in 1..Len(Tail(q)) : Tail(q)[i] = q[i + 1]
  BY HeadTailProperties
<1>2. Len(q) \in Nat \ {0}
  BY EmptySeq
<1>3. Head(q) = q[1]
  BY <1>2
<1>4. Waiting(Tail(q)) \subseteq Waiting(q)
  <2>. SUFFICES ASSUME NEW i \in 1..Len(Tail(q))
                PROVE  Tail(q)[i] \in Waiting(q)
    BY DEF Waiting
  <2>1. Tail(q)[i] = q[i + 1] /\ i + 1 \in 1..Len(q)
    BY <1>1, <1>2
  <2>. QED
    BY <2>1 DEF Waiting
<1>. QED
  BY <1>1, <1>2, <1>3, <1>4 DEF Waiting

(* What waits in a queue of events is an event.                            *)
LEMMA WaitingType ==
    ASSUME NEW S, NEW q \in Seq(S), NEW e \in Waiting(q)
    PROVE  e \in S
BY ElementOfSeq DEF Waiting

(* With at most one window open, closing it leaves none.                   *)
LEMMA TailOfOne ==
    ASSUME NEW S, NEW q \in Seq(S), q # << >>, Len(q) <= 1
    PROVE  Tail(q) = << >>
<1>. Len(q) \in Nat \ {0}
  BY EmptySeq
<1>1. Len(q) = 1
  OBVIOUS
<1>2. Tail(q) \in Seq(S) /\ Len(Tail(q)) = 0
  BY <1>1, HeadTailProperties
<1>. QED
  BY <1>2, EmptySeq

(* Opening a window when none is open leaves that one.                     *)
LEMMA OneWindow ==
    ASSUME NEW S, NEW d \in S
    PROVE  /\ <<d>> \o << >> \in Seq(S)
           /\ <<d>> \o << >> # << >>
           /\ Len(<<d>> \o << >>) = 1
           /\ Head(<<d>> \o << >>) = d
<1>1. <<d>> \in Seq(S) /\ Len(<<d>>) = 1
  OBVIOUS
<1>2. <<d>> \o << >> = <<d>>
  BY <1>1, ConcatEmptySeq
<1>. QED
  BY <1>1, <1>2

-----------------------------------------------------------------------------
(***************************************************************************)
(* The inductive invariant.  The invariants of Session are not inductive:  *)
(* they also need what ties attempts, events and the channel to the epoch, *)
(* and the fields of the handshake to the role of this side.               *)
(***************************************************************************)

(* The role of this side decides which fields of the handshake are set.    *)
RoleInv ==
    /\ OneRole
    /\ hs.local_key # None =>
          hs.kind = "mine" /\ hs.local_salt # None /\ hs.peer_key = None
    /\ hs.peer_key # None =>
          hs.kind = "peer" /\ hs.peer_addr # None /\ hs.text = hs.peer_addr
    /\ hs.peer_key = None => hs.peer_addr = None
    /\ hs.kind = "mine" => hs.local_key # None
    /\ hs.kind = "peer" => hs.peer_key # None

(* A window of a button remembers what the button is to do.                *)
WindowInv ==
    /\ WindowsInOrder
    /\ Showing("confirm") => Top.next # None
    /\ Showing("prompt") => Top.next # None

(* An attempt of this epoch has the session's key and address, and is not  *)
(* told to stop; an older one is.                                          *)
AttemptOK(i) ==
    /\ attempts[i].stop_event = attempts[i].epoch
    /\ attempts[i].epoch <= ch.epoch
    /\ attempts[i].epoch = ch.epoch => ch.started /\ attempts[i].key = SessionKey(hs)
    /\ attempts[i].epoch = ch.epoch /\ attempts[i].pc # "spawned" =>
          attempts[i].addr = hs.peer_addr
    /\ attempts[i].epoch = ch.epoch /\ attempts[i].pc \in {"spawned", "connecting"} =>
          attempts[i].epoch \notin stopped
    /\ attempts[i].epoch # ch.epoch => attempts[i].epoch \in stopped
    /\ attempts[i].pc = "verifying" => i \in open

AttemptsInv ==
    /\ \A i \in 1..Len(attempts) : AttemptOK(i)
    /\ \A i, j \in 1..Len(attempts) : attempts[i].epoch = attempts[j].epoch => i = j

(* A connected event carries the socket and the key of its attempt; the    *)
(* socket is open unless the event is stale.                               *)
EventOK(e) ==
    /\ e.epoch <= ch.epoch
    /\ e.epoch = ch.epoch => ch.started
    /\ e.kind # "connected" => e.sock = NoSocket
    /\ e.kind = "connected" =>
         /\ e.sock \in 1..Len(attempts)
         /\ attempts[e.sock].epoch = e.epoch
         /\ attempts[e.sock].key = e.key
         /\ attempts[e.sock].pc = "done"
         /\ e.epoch = ch.epoch => e.sock \in open

EventsInv == \A e \in Waiting(queue) \cup Waiting(deferred) : EventOK(e)

(* The channel is that of the attempt of this epoch.                       *)
ChannelInv ==
    /\ ch.stop_event = ch.epoch
    /\ \A s \in stopped : s <= ch.epoch
    /\ ~ch.started => ch.epoch \notin stopped /\ ~ch.pending /\ ~ch.verified
    /\ ch.socket # NoSocket =>
         /\ ch.started
         /\ ch.socket \in 1..Len(attempts)
         /\ attempts[ch.socket].epoch = ch.epoch
         /\ attempts[ch.socket].key = ch.key
         /\ attempts[ch.socket].pc = "done"
         /\ ch.socket \in open

(* The workers belong to an attempt that was started.                      *)
WorkInv ==
    /\ ArchiveKeyIsSessionKey
    /\ \A w \in senders \cup receivers :
          w.epoch <= ch.epoch /\ (w.epoch = ch.epoch => ch.started)

SessionInv ==
    /\ TypeOK
    /\ RoleInv
    /\ WindowInv
    /\ AttemptsInv
    /\ EventsInv
    /\ ChannelInv
    /\ WorkInv

(* Types of the variables that a change of the session touches.            *)
SessionTypes ==
    /\ hs \in Handshakes
    /\ ch \in Channels
    /\ attempts \in Seq(Attempts)
    /\ stopped \subseteq Nat
    /\ open \subseteq Nat
    /\ pay \in Payloads
    /\ btn_send \in BOOLEAN

-----------------------------------------------------------------------------
(***************************************************************************)
(* A change of the session: a reset, or no reset of a session that is not  *)
(* active, after which a handshake is set and an attempt may start.        *)
(***************************************************************************)

(* The channel state that a new handshake starts from: no attempt of its   *)
(* epoch exists, no event, no sender, and its stop event is not set.       *)
LEMMA CleanStart ==
    ASSUME SessionInv, NEW reset \in BOOLEAN, ~reset => ~SessionActive(hs, ch),
           ResetEffects(reset)
    PROVE  LET c == ChAfter(reset) IN
           /\ c \in Channels
           /\ c.stop_event = c.epoch
           /\ c.socket = NoSocket /\ ~c.started /\ ~c.pending /\ ~c.verified
           /\ \A i \in 1..Len(attempts) :
                 attempts[i].epoch < c.epoch /\ attempts[i].epoch \in stopped'
           /\ \A e \in Waiting(queue) \cup Waiting(deferred) : e.epoch < c.epoch
           /\ \A s \in stopped' : s < c.epoch
           /\ \A w \in senders \cup receivers : w.epoch < c.epoch
           /\ \A i \in 1..Len(attempts) : attempts[i].pc = "verifying" => i \in open'
           /\ pay'.archive_key = None
<1>. DEFINE c == ChAfter(reset)
<1>. USE DEF NoSocket
<1>types. /\ ch \in Channels /\ hs \in Handshakes /\ pay \in Payloads
          /\ stopped \subseteq Nat
          /\ \A i \in 1..Len(attempts) : attempts[i] \in Attempts
          /\ \A e \in Waiting(queue) \cup Waiting(deferred) : e \in Events
          /\ \A w \in senders \cup receivers : w.epoch \in Nat
  BY ElementOfSeq, WaitingType DEF SessionInv, TypeOK, Senders, Receivers
<1>1. CASE reset
  <2>1. /\ c = NextAttempt(ch)
        /\ stopped' = stopped \cup {ch.stop_event}
        /\ open' = open \ {ch.socket}
        /\ pay' = DiscardKeyBoundPayload(pay)
    BY <1>1 DEF ChAfter, ResetEffects
  <2>2. /\ c \in Channels /\ c.epoch = ch.epoch + 1 /\ c.stop_event = ch.stop_event + 1
        /\ c.socket = NoSocket /\ ~c.started /\ ~c.pending /\ ~c.verified
    BY <2>1, <1>types, NextAttemptType DEF NextAttempt
  <2>3. ch.epoch \in Nat /\ ch.stop_event = ch.epoch /\ \A s \in stopped : s <= ch.epoch
    BY <1>types DEF SessionInv, ChannelInv, Channels
  <2>4. \A i \in 1..Len(attempts) :
           attempts[i].epoch < c.epoch /\ attempts[i].epoch \in stopped'
    BY <2>1, <2>2, <2>3, <1>types DEF SessionInv, AttemptsInv, AttemptOK, Attempts
  <2>5. \A e \in Waiting(queue) \cup Waiting(deferred) : e.epoch < c.epoch
    BY <2>2, <2>3, <1>types DEF SessionInv, EventsInv, EventOK, Events
  <2>6. \A s \in stopped' : s < c.epoch
    BY <2>1, <2>2, <2>3, <1>types
  <2>7. \A w \in senders \cup receivers : w.epoch < c.epoch
    BY <2>2, <2>3, <1>types DEF SessionInv, WorkInv
  <2>8. \A i \in 1..Len(attempts) : attempts[i].pc = "verifying" => i \in open'
    BY <2>1 DEF SessionInv, AttemptsInv, AttemptOK, ChannelInv
  <2>9. pay'.archive_key = None
    BY <2>1, <1>types DEF DiscardKeyBoundPayload, Payloads
  <2>. QED
    BY <2>2, <2>3, <2>4, <2>5, <2>6, <2>7, <2>8, <2>9
<1>2. CASE ~reset
  <2>1. c = ch /\ UNCHANGED <<stopped, open, pay>>
    BY <1>2 DEF ChAfter, ResetEffects
  <2>2. SessionKey(hs) = None /\ ch.socket = NoSocket /\ ~ch.started
    BY <1>2 DEF SessionActive, SessionKey
  <2>3. /\ ch.epoch \in Nat /\ ch.stop_event = ch.epoch /\ ~ch.pending /\ ~ch.verified
        /\ ch.epoch \notin stopped /\ \A s \in stopped : s <= ch.epoch
    BY <2>2, <1>types DEF SessionInv, ChannelInv, Channels
  <2>4. \A i \in 1..Len(attempts) :
           attempts[i].epoch < c.epoch /\ attempts[i].epoch \in stopped'
    BY <2>1, <2>2, <2>3, <1>types DEF SessionInv, AttemptsInv, AttemptOK, Attempts
  <2>5. \A e \in Waiting(queue) \cup Waiting(deferred) : e.epoch < c.epoch
    BY <2>1, <2>2, <2>3, <1>types DEF SessionInv, EventsInv, EventOK, Events
  <2>6. \A s \in stopped' : s < c.epoch
    BY <2>1, <2>3, <1>types
  <2>7. \A w \in senders \cup receivers : w.epoch < c.epoch
    BY <2>1, <2>2, <2>3, <1>types DEF SessionInv, WorkInv
  <2>8. \A i \in 1..Len(attempts) : attempts[i].pc = "verifying" => i \in open'
    BY <2>1 DEF SessionInv, AttemptsInv, AttemptOK
  <2>9. pay'.archive_key = None
    BY <2>1, <2>2 DEF SessionInv, WorkInv, ArchiveKeyIsSessionKey
  <2>. QED
    BY <2>1, <2>2, <2>3, <2>4, <2>5, <2>6, <2>7, <2>8, <2>9, <1>types
<1>. QED
  BY <1>1, <1>2

(* After such a change the new handshake is alone with its attempt.        *)
LEMMA SessionStep ==
    ASSUME SessionInv, NEW reset \in BOOLEAN, ~reset => ~SessionActive(hs, ch),
           ResetEffects(reset), NEW h \in Handshakes,
           MaybeStart(h, ChAfter(reset)) \/ NoStart(h, ChAfter(reset)),
           UNCHANGED <<queue, deferred, receivers, senders>>
    PROVE  SessionTypes' /\ AttemptsInv' /\ EventsInv' /\ ChannelInv' /\ WorkInv'
<1>. DEFINE c == ChAfter(reset)
<1>. DEFINE start == ch'.started
<1>0. TypeOK
  BY DEF SessionInv
<1>1. /\ c \in Channels
      /\ c.stop_event = c.epoch
      /\ c.socket = NoSocket /\ ~c.started /\ ~c.pending /\ ~c.verified
      /\ \A i \in 1..Len(attempts) :
            attempts[i].epoch < c.epoch /\ attempts[i].epoch \in stopped'
      /\ \A e \in Waiting(queue) \cup Waiting(deferred) : e.epoch < c.epoch
      /\ \A s \in stopped' : s < c.epoch
      /\ \A w \in senders \cup receivers : w.epoch < c.epoch
      /\ \A i \in 1..Len(attempts) : attempts[i].pc = "verifying" => i \in open'
      /\ pay'.archive_key = None
  BY CleanStart
<1>2. SessionTypes'
  BY <1>0, <1>1, ResetEffectsType, MaybeStartType, NoStartType DEF SessionTypes
<1>types. /\ c.epoch \in Nat
          /\ \A i \in 1..Len(attempts) : attempts[i] \in Attempts
          /\ \A e \in Waiting(queue) \cup Waiting(deferred) : e \in Events
          /\ \A w \in senders \cup receivers : w.epoch \in Nat
          /\ stopped' \subseteq Nat
          /\ Len(attempts) \in Nat
  BY <1>0, <1>1, <1>2, ElementOfSeq, WaitingType, LenProperties
  DEF TypeOK, SessionTypes, Channels, Senders, Receivers
<1>3. /\ ch'.epoch = c.epoch /\ ch'.stop_event = c.epoch /\ ch'.socket = NoSocket
      /\ ~ch'.verified /\ ch'.pending = ch'.started
      /\ hs' = h
      /\ \/ ~ch'.started /\ attempts' = attempts
         \/ ch'.started /\ attempts' = Append(attempts, NewAttempt(h, c))
  BY <1>1 DEF MaybeStart, NoStart, Channels
<1>4. AttemptsInv' /\ Len(attempts') \in Nat /\ \A i \in 1..Len(attempts) :
         i \in 1..Len(attempts') /\ attempts'[i] = attempts[i]
  <2>1. CASE ~ch'.started /\ attempts' = attempts
    <3>. SUFFICES AttemptsInv'
      BY <2>1, <1>types
    <3>1. ASSUME NEW i \in 1..Len(attempts') PROVE AttemptOK(i)'
      BY <1>1, <1>3, <1>types, <2>1 DEF SessionInv, AttemptsInv, AttemptOK, Attempts
    <3>2. ASSUME NEW i \in 1..Len(attempts'), NEW j \in 1..Len(attempts'),
                 attempts'[i].epoch = attempts'[j].epoch
          PROVE  i = j
      BY <2>1, <3>2 DEF SessionInv, AttemptsInv
    <3>. QED
      BY <3>1, <3>2 DEF AttemptsInv
  <2>2. CASE ch'.started /\ attempts' = Append(attempts, NewAttempt(h, c))
    <3>1. NewAttempt(h, c) \in Attempts
      <4>1. CanStart(h, c)
        BY <1>1, <2>2 DEF MaybeStart, NoStart
      <4>. QED
        BY <4>1, <1>1, SessionKeyType DEF CanStart, NewAttempt, Attempts, Channels
    <3>2. /\ Len(attempts') = Len(attempts) + 1
          /\ \A i \in 1..Len(attempts) : attempts'[i] = attempts[i]
          /\ attempts'[Len(attempts) + 1] = NewAttempt(h, c)
      BY <1>0, <2>2, <3>1, AppendProperties DEF TypeOK
    <3>3. NewAttempt(h, c).epoch = c.epoch /\ NewAttempt(h, c).stop_event = c.epoch
          /\ NewAttempt(h, c).key = SessionKey(h) /\ NewAttempt(h, c).pc = "spawned"
      BY <1>1 DEF NewAttempt
    <3>4. c.epoch \notin stopped'
      BY <1>1, <1>types
    <3>5. ASSUME NEW i \in 1..Len(attempts') PROVE AttemptOK(i)'
      <4>1. CASE i \in 1..Len(attempts)
        BY <4>1, <1>1, <1>3, <1>types, <3>2 DEF SessionInv, AttemptsInv, AttemptOK, Attempts
      <4>2. CASE i = Len(attempts) + 1
        BY <4>2, <1>3, <1>types, <2>2, <3>2, <3>3, <3>4 DEF AttemptOK, SessionKey
      <4>. QED
        BY <4>1, <4>2, <3>2, <1>types
    <3>6. ASSUME NEW i \in 1..Len(attempts'), NEW j \in 1..Len(attempts'),
                 attempts'[i].epoch = attempts'[j].epoch
          PROVE  i = j
      <4>1. i \in 1..Len(attempts) \/ i = Len(attempts) + 1
        BY <3>2, <1>types
      <4>2. j \in 1..Len(attempts) \/ j = Len(attempts) + 1
        BY <3>2, <1>types
      <4>. QED
        BY <4>1, <4>2, <3>2, <3>3, <3>6, <1>1, <1>types DEF SessionInv, AttemptsInv, Attempts
    <3>. QED
      BY <3>2, <3>5, <3>6, <1>types DEF AttemptsInv
  <2>. QED
    BY <1>3, <2>1, <2>2
<1>5. EventsInv'
  <2>. SUFFICES ASSUME NEW e \in Waiting(queue) \cup Waiting(deferred)
                PROVE  EventOK(e)'
    BY DEF EventsInv
  <2>1. EventOK(e) /\ e.epoch < c.epoch /\ e \in Events
    BY <1>1, <1>types DEF SessionInv, EventsInv
  <2>. QED
    BY <2>1, <1>3, <1>4, <1>types DEF EventOK, Events
<1>6. ChannelInv'
  <2>1. \A s \in stopped' : s <= ch'.epoch /\ s # ch'.epoch
    BY <1>1, <1>3, <1>types
  <2>2. ch'.epoch \notin stopped'
    BY <2>1
  <2>3. ~ch'.started => ~ch'.pending
    BY <1>3
  <2>. QED
    BY <1>3, <2>1, <2>2, <2>3 DEF ChannelInv
<1>7. WorkInv'
  <2>1. pay'.archive_key = None /\ UNCHANGED <<senders, receivers>>
    BY <1>1
  <2>2. \A w \in senders \cup receivers : w.epoch < ch'.epoch /\ w.epoch \in Nat
    BY <1>1, <1>3, <1>types
  <2>. QED
    BY <2>1, <2>2, <1>3, <1>types DEF WorkInv, ArchiveKeyIsSessionKey
<1>. QED
  BY <1>2, <1>4, <1>5, <1>6, <1>7

(* A handshake and a form that no role ties together.                      *)
NoRole(h) ==
    /\ h.local_key = None /\ h.peer_key = None /\ h.peer_addr = None
    /\ h.kind = None

LEMMA InactiveHasNoRole ==
    ASSUME SessionInv, ~SessionActive(hs, ch)
    PROVE  NoRole(hs)
BY DEF SessionInv, RoleInv, SessionActive, NoRole, TypeOK, Handshakes

(* After a reset, or in a session that is not active, this side has no     *)
(* role.                                                                   *)
LEMMA AfterHasNoRole ==
    ASSUME SessionInv, NEW reset \in BOOLEAN, ~reset => ~SessionActive(hs, ch)
    PROVE  NoRole(HsAfter(reset)) /\ HsAfter(reset) \in Handshakes
<1>1. CASE reset
  BY <1>1, NoHandshakeType DEF HsAfter, NoHandshake, NoRole
<1>2. CASE ~reset
  BY <1>2, InactiveHasNoRole DEF HsAfter, SessionInv, TypeOK
<1>. QED
  BY <1>1, <1>2

LEMMA NoRoleInv ==
    ASSUME NoRole(hs')
    PROVE  RoleInv'
BY SessionAssumption DEF NoRole, RoleInv, OneRole

(* A packet of one's own makes this side the one that generated.           *)
LEMMA GeneratedRole ==
    ASSUME NEW h \in Handshakes, h.peer_key = None, h.peer_addr = None,
           NEW q \in Packets, form'.phrase \in Phrases,
           hs' = [h EXCEPT !.local_key = derive_key(form'.phrase, q),
                           !.local_salt = q, !.kind = "mine", !.text = q]
    PROVE  hs' \in Handshakes /\ RoleInv'
<1>1. derive_key(form'.phrase, q) \in Keys \ {None} /\ q # None
  BY DeriveKeyType, SessionAssumption
<1>2. hs' \in Handshakes
  BY <1>1 DEF Handshakes
<1>3. /\ hs'.local_key = derive_key(form'.phrase, q) /\ hs'.local_salt = q
      /\ hs'.kind = "mine" /\ hs'.peer_key = None /\ hs'.peer_addr = None
  BY DEF Handshakes
<1>. QED
  BY <1>1, <1>2, <1>3 DEF RoleInv, OneRole

(* A pasted packet makes this side the one that connects.                  *)
LEMMA PastedRole ==
    ASSUME NEW h \in Handshakes, h.local_key = None,
           NEW q \in Packets, form'.phrase \in Phrases,
           hs' = [h EXCEPT !.peer_key = derive_key(form'.phrase, q),
                           !.peer_addr = q, !.kind = "peer", !.text = q]
    PROVE  hs' \in Handshakes /\ RoleInv'
<1>1. derive_key(form'.phrase, q) \in Keys \ {None} /\ q # None
  BY DeriveKeyType, SessionAssumption
<1>2. hs' \in Handshakes
  BY <1>1 DEF Handshakes
<1>3. /\ hs'.peer_key = derive_key(form'.phrase, q) /\ hs'.peer_addr = q
      /\ hs'.kind = "peer" /\ hs'.text = q /\ hs'.local_key = None
  BY DEF Handshakes
<1>. QED
  BY <1>1, <1>2, <1>3 DEF RoleInv, OneRole

(* The button itself, once there is a phrase and no active session.        *)
LEMMA PerformStep ==
    ASSUME SessionInv, NEW reset \in BOOLEAN, ~reset => ~SessionActive(hs, ch),
           ResetEffects(reset), NEW next \in Packets \cup {"generate"},
           form' \in Forms, form'.phrase \in Phrases,
           Perform(next, HsAfter(reset), ChAfter(reset)),
           UNCHANGED <<queue, deferred, receivers, senders>>
    PROVE  /\ SessionTypes' /\ RoleInv'
           /\ AttemptsInv' /\ EventsInv' /\ ChannelInv' /\ WorkInv'
<1>. DEFINE h == HsAfter(reset)
            c == ChAfter(reset)
<1>1. NoRole(h) /\ h \in Handshakes
  BY AfterHasNoRole
<1>2. CASE NoStart(h, c)
  <2>1. hs' = h
    BY <1>2 DEF NoStart
  <2>. QED
    BY <1>1, <1>2, <2>1, NoRoleInv, SessionStep
<1>3. CASE next = "generate" /\ form'.iters_ok /\ form'.port_ok
  <2>. DEFINE g(q) == [h EXCEPT !.local_key = derive_key(form'.phrase, q),
                                !.local_salt = q, !.kind = "mine", !.text = q]
  <2>1. PICK q \in Packets : MaybeStart(g(q), c)
    BY <1>3 DEF Perform, GenerateHandshake
  <2>2. hs' = g(q)
    BY <2>1 DEF MaybeStart
  <2>3. g(q) \in Handshakes /\ RoleInv'
    BY <1>1, <2>2, GeneratedRole DEF NoRole
  <2>. QED
    BY <2>1, <2>3, SessionStep
<1>4. CASE next # "generate"
  <2>. DEFINE g == [h EXCEPT !.peer_key = derive_key(form'.phrase, next),
                             !.peer_addr = next, !.kind = "peer", !.text = next]
  <2>1. MaybeStart(g, c)
    BY <1>4 DEF Perform, ProcessIncoming
  <2>2. hs' = g
    BY <2>1 DEF MaybeStart
  <2>3. g \in Handshakes /\ RoleInv'
    BY <1>1, <1>4, <2>2, PastedRole DEF NoRole
  <2>. QED
    BY <2>1, <2>3, SessionStep
<1>. QED
  BY <1>2, <1>3, <1>4 DEF Perform, GenerateHandshake

(* The button up to the window that asks for a phrase.                     *)
LEMMA PerformOrPromptStep ==
    ASSUME SessionInv, NEW reset \in BOOLEAN, ~reset => ~SessionActive(hs, ch),
           ResetEffects(reset), NEW next \in Packets \cup {"generate"},
           PerformOrPrompt(next, HsAfter(reset), ChAfter(reset), << >>),
           UNCHANGED <<queue, deferred, receivers, senders, sent>>
    PROVE  SessionInv'
<1>. DEFINE h == HsAfter(reset)
            c == ChAfter(reset)
<1>0. form' = form /\ form \in Forms /\ TypeOK
  BY DEF PerformOrPrompt, SessionInv, TypeOK
<1>1. next # None
  BY SessionAssumption
<1>2. CASE form.phrase = NoPhrase
  <2>. DEFINE d == [kind |-> "prompt", next |-> next, epoch |-> c.epoch]
  <2>1. dialogs' = <<d>> \o << >> /\ NoStart(h, c)
    BY <1>2 DEF PerformOrPrompt
  <2>2. NoRole(h) /\ h \in Handshakes /\ hs' = h
    BY <2>1, AfterHasNoRole DEF NoStart
  <2>3. /\ SessionTypes' /\ RoleInv'
        /\ AttemptsInv' /\ EventsInv' /\ ChannelInv' /\ WorkInv'
    BY <2>1, <2>2, NoRoleInv, SessionStep
  <2>4. d \in Dialogs
    BY <1>0, AfterType DEF Dialogs, Channels
  <2>5. /\ dialogs' \in Seq(Dialogs) /\ dialogs' # << >>
        /\ Len(dialogs') = 1 /\ Head(dialogs') = d
    BY <2>1, <2>4, OneWindow
  <2>6. ~SessionActive(hs', ch')
    <3>1. c.socket = NoSocket /\ ~c.started
      BY CleanStart
    <3>. QED
      BY <2>1, <2>2, <3>1 DEF NoStart, SessionActive, NoRole
  <2>7. WindowInv'
    BY <1>1, <2>5, <2>6 DEF WindowInv, WindowsInOrder, Showing, Top
  <2>. QED
    BY <1>0, <2>3, <2>5, <2>7 DEF SessionInv, SessionTypes, TypeOK
<1>3. CASE form.phrase # NoPhrase
  <2>1. dialogs' = << >> /\ Perform(next, h, c)
    BY <1>3 DEF PerformOrPrompt
  <2>2. form'.phrase \in Phrases
    BY <1>0, <1>3 DEF Forms
  <2>3. /\ SessionTypes' /\ RoleInv'
        /\ AttemptsInv' /\ EventsInv' /\ ChannelInv' /\ WorkInv'
    BY <1>0, <2>1, <2>2, PerformStep
  <2>4. WindowInv' /\ dialogs' \in Seq(Dialogs)
    BY <2>1, EmptySeq DEF WindowInv, WindowsInOrder, Showing
  <2>. QED
    BY <1>0, <2>3, <2>4 DEF SessionInv, SessionTypes, TypeOK
<1>. QED
  BY <1>2, <1>3

-----------------------------------------------------------------------------
(***************************************************************************)
(* The user's steps on the form, the buttons and the windows.              *)
(***************************************************************************)

LEMMA ClickStep ==
    ASSUME SessionInv, NEW next \in Packets \cup {"generate"}, Click(next)
    PROVE  SessionInv'
<1>1. CASE SessionActive(hs, ch)
  <2>. DEFINE d == [kind |-> "confirm", next |-> next, epoch |-> ch.epoch]
  <2>1. /\ dialogs' = <<d>> \o << >>
        /\ UNCHANGED <<form, hs, ch, attempts, stopped, open, pay, btn_send,
                       queue, deferred, receivers, senders, sent>>
    BY <1>1 DEF Click, Push, Idle, ResetEffects
  <2>2. d \in Dialogs
    BY DEF SessionInv, TypeOK, Channels, Dialogs
  <2>3. /\ dialogs' \in Seq(Dialogs) /\ dialogs' # << >>
        /\ Len(dialogs') = 1 /\ Head(dialogs') = d
    BY <2>1, <2>2, OneWindow
  <2>4. WindowInv'
    BY <2>3, SessionAssumption DEF WindowInv, WindowsInOrder, Showing, Top
  <2>5. TypeOK'
    BY <2>1, <2>3 DEF SessionInv, TypeOK
  <2>6. RoleInv'
    BY <2>1 DEF SessionInv, RoleInv, OneRole
  <2>7. AttemptsInv'
    BY <2>1 DEF SessionInv, AttemptsInv, AttemptOK
  <2>8. EventsInv'
    BY <2>1 DEF SessionInv, EventsInv, EventOK
  <2>9. ChannelInv' /\ WorkInv'
    BY <2>1 DEF SessionInv, ChannelInv, WorkInv, ArchiveKeyIsSessionKey
  <2>. QED
    BY <2>4, <2>5, <2>6, <2>7, <2>8, <2>9 DEF SessionInv
<1>2. CASE ~SessionActive(hs, ch)
  <2>1. /\ PerformOrPrompt(next, HsAfter(FALSE), ChAfter(FALSE), << >>)
        /\ ResetEffects(FALSE)
        /\ UNCHANGED <<queue, deferred, receivers, senders, sent>>
    BY <1>2 DEF Click, Idle, HsAfter, ChAfter
  <2>. QED
    BY <1>2, <2>1, PerformOrPromptStep
<1>. QED
  BY <1>1, <1>2

LEMMA EditFormStep ==
    ASSUME SessionInv, NEW f \in Forms, EditForm(f)
    PROVE  SessionInv'
<1>. DEFINE reset == SessionActive(hs, ch)
<1>0. reset \in BOOLEAN /\ TypeOK
  BY SessionActiveType DEF SessionInv, TypeOK
<1>1. /\ form' = f /\ dialogs = << >> /\ UNCHANGED dialogs
      /\ NoStart(HsAfter(reset), ChAfter(reset))
      /\ ResetEffects(reset)
      /\ UNCHANGED <<queue, deferred, receivers, senders, sent>>
  BY DEF EditForm, Idle
<1>2. /\ hs' = HsAfter(reset) /\ NoRole(HsAfter(reset))
      /\ HsAfter(reset) \in Handshakes
  BY <1>0, <1>1, AfterHasNoRole DEF NoStart
<1>3. /\ SessionTypes' /\ RoleInv'
      /\ AttemptsInv' /\ EventsInv' /\ ChannelInv' /\ WorkInv'
  BY <1>0, <1>1, <1>2, NoRoleInv, SessionStep
<1>4. WindowInv'
  BY <1>1, EmptySeq DEF WindowInv, WindowsInOrder, Showing
<1>. QED
  BY <1>0, <1>1, <1>3, <1>4 DEF SessionInv, SessionTypes, TypeOK

(* What every step on an open window may use.                              *)
LEMMA TopWindow ==
    ASSUME SessionInv, dialogs # << >>
    PROVE  Top \in Dialogs /\ Tail(dialogs) = << >>
BY HeadTailProperties, TailOfOne
DEF SessionInv, TypeOK, WindowInv, WindowsInOrder, Top

LEMMA ConfirmYesStep ==
    ASSUME SessionInv, ConfirmYes
    PROVE  SessionInv'
<1>1. /\ dialogs # << >> /\ Top.next # None
      /\ PerformOrPrompt(Top.next, HsAfter(TRUE), ChAfter(TRUE), Tail(dialogs))
      /\ ResetEffects(TRUE)
      /\ UNCHANGED <<queue, deferred, receivers, senders, sent>>
  BY DEF ConfirmYes, Showing, HsAfter, ChAfter, SessionInv, WindowInv
<1>2. Top.next \in Packets \cup {"generate"} /\ Tail(dialogs) = << >>
  BY <1>1, TopWindow DEF Dialogs
<1>. QED
  BY <1>1, <1>2, PerformOrPromptStep

LEMMA DismissStep ==
    ASSUME SessionInv, Dismiss
    PROVE  SessionInv'
<1>1. /\ dialogs' = << >>
      /\ UNCHANGED <<form, hs, ch, attempts, stopped, open, pay, btn_send,
                     queue, deferred, receivers, senders, sent>>
  BY TopWindow DEF Dismiss, Showing
<1>2. dialogs' \in Seq(Dialogs) /\ WindowInv'
  BY <1>1, EmptySeq DEF WindowInv, WindowsInOrder, Showing
<1>3. TypeOK'
  BY <1>1, <1>2 DEF SessionInv, TypeOK
<1>4. RoleInv'
  BY <1>1 DEF SessionInv, RoleInv, OneRole
<1>5. AttemptsInv'
  BY <1>1 DEF SessionInv, AttemptsInv, AttemptOK
<1>6. EventsInv'
  BY <1>1 DEF SessionInv, EventsInv, EventOK
<1>7. ChannelInv' /\ WorkInv'
  BY <1>1 DEF SessionInv, ChannelInv, WorkInv, ArchiveKeyIsSessionKey
<1>. QED
  BY <1>2, <1>3, <1>4, <1>5, <1>6, <1>7 DEF SessionInv

LEMMA PromptOkStep ==
    ASSUME SessionInv, NEW phrase \in Phrases, PromptOk(phrase)
    PROVE  SessionInv'
<1>0. TypeOK /\ ~SessionActive(hs, ch) /\ Top.next # None /\ dialogs # << >>
  BY DEF SessionInv, WindowInv, WindowsInOrder, PromptOk, Showing
<1>1. Top.next \in Packets \cup {"generate"} /\ Tail(dialogs) = << >>
  BY <1>0, TopWindow DEF Dialogs
<1>2. /\ form' = [form EXCEPT !.phrase = phrase]
      /\ dialogs' = << >>
      /\ Perform(Top.next, HsAfter(FALSE), ChAfter(FALSE))
      /\ ResetEffects(FALSE)
      /\ UNCHANGED <<queue, deferred, receivers, senders, sent>>
  <2>1. SessionActive(hs, ch) = FALSE
    BY <1>0, SessionActiveType DEF TypeOK
  <2>. QED
    BY <1>1, <2>1 DEF PromptOk
<1>3. form' \in Forms /\ form'.phrase = phrase
  BY <1>0, <1>2 DEF TypeOK, Forms
<1>4. /\ SessionTypes' /\ RoleInv'
      /\ AttemptsInv' /\ EventsInv' /\ ChannelInv' /\ WorkInv'
  BY <1>0, <1>1, <1>2, <1>3, PerformStep
<1>5. WindowInv' /\ dialogs' \in Seq(Dialogs)
  BY <1>2, EmptySeq DEF WindowInv, WindowsInOrder, Showing
<1>. QED
  BY <1>0, <1>2, <1>3, <1>4, <1>5 DEF SessionInv, SessionTypes, TypeOK

(* A retry keeps the role of this side and derives its key again.          *)
LEMMA RetryStep ==
    ASSUME SessionInv, NEW phrase \in Phrases \cup {None}, ~GivesUp(phrase),
           RetryAfterMismatch(phrase), UNCHANGED <<queue, deferred, receivers, senders>>
    PROVE  /\ form' \in Forms /\ SessionTypes' /\ RoleInv'
           /\ AttemptsInv' /\ EventsInv' /\ ChannelInv' /\ WorkInv'
<1>. DEFINE c == NextAttempt(ch)
<1>0. /\ form \in Forms /\ hs \in Handshakes /\ ch \in Channels
      /\ RoleInv /\ ResetEffects(TRUE) /\ c = ChAfter(TRUE)
  BY DEF SessionInv, TypeOK, RetryAfterMismatch, ChAfter
<1>1. form' = (IF phrase = None THEN form ELSE [form EXCEPT !.phrase = phrase])
  BY DEF RetryAfterMismatch
<1>2. /\ form' \in Forms
      /\ phrase # None => form'.phrase = phrase /\ phrase \in Phrases
  BY <1>0, <1>1 DEF Forms
<1>3. CASE hs.kind = "peer"
  <2>. DEFINE h == [hs EXCEPT !.peer_key = None]
              g == [h EXCEPT !.peer_key = derive_key(form'.phrase, hs.text),
                             !.peer_addr = hs.text, !.kind = "peer", !.text = hs.text]
  <2>1. phrase # None /\ hs.text \in Packets /\ h \in Handshakes /\ h.local_key = None
    BY <1>0, <1>3, SessionAssumption DEF GivesUp, RoleInv, Handshakes
  <2>2. MaybeStart(g, c)
    BY <1>3 DEF RetryAfterMismatch, ProcessIncoming
  <2>3. hs' = g
    BY <2>2 DEF MaybeStart
  <2>4. g \in Handshakes /\ RoleInv'
    BY <1>2, <2>1, <2>3, PastedRole
  <2>. QED
    BY <1>0, <1>2, <2>2, <2>4, SessionStep
<1>4. CASE hs.kind = "mine" /\ phrase = None
  <2>1. /\ hs.local_salt # None /\ ~(hs.kind = "peer")
    BY <1>0, <1>4 DEF RoleInv
  <2>2. MaybeStart(hs, c)
    BY <1>4, <2>1 DEF RetryAfterMismatch
  <2>3. hs' = hs /\ form' = form
    BY <1>1, <1>4, <2>2 DEF MaybeStart
  <2>4. RoleInv'
    BY <1>0, <2>3 DEF RoleInv, OneRole
  <2>. QED
    BY <1>0, <1>2, <2>2, <2>4, SessionStep
<1>5. CASE hs.kind = "mine" /\ phrase # None
  <2>. DEFINE g == [hs EXCEPT !.local_key = derive_key(phrase, hs.local_salt)]
  <2>1. /\ hs.local_salt # None /\ hs.local_salt \in Packets /\ ~(hs.kind = "peer")
        /\ hs.local_key # None /\ hs.peer_key = None /\ hs.peer_addr = None
    BY <1>0, <1>5 DEF RoleInv, Handshakes
  <2>2. MaybeStart(g, c)
    BY <1>5, <2>1 DEF RetryAfterMismatch
  <2>3. hs' = g
    BY <2>2 DEF MaybeStart
  <2>4. derive_key(phrase, hs.local_salt) \in Keys \ {None}
    BY <1>2, <1>5, <2>1, DeriveKeyType
  <2>5. g \in Handshakes
    BY <1>0, <2>4 DEF Handshakes
  <2>6. /\ g.local_key = derive_key(phrase, hs.local_salt) /\ g.local_salt = hs.local_salt
        /\ g.peer_key = None /\ g.peer_addr = None /\ g.kind = "mine"
    BY <1>0, <1>5, <2>1 DEF Handshakes
  <2>7. RoleInv'
    BY <1>2, <1>5, <2>1, <2>3, <2>4, <2>6 DEF RoleInv, OneRole
  <2>. QED
    BY <1>0, <1>2, <2>2, <2>5, <2>7, SessionStep
<1>6. CASE hs.kind = None
  <2>1. NoRole(hs) /\ ~(hs.kind = "peer") /\ ~(hs.kind = "mine")
    BY <1>0, <1>6, SessionAssumption DEF RoleInv, NoRole
  <2>2. NoStart(hs, c)
    BY <2>1 DEF RetryAfterMismatch
  <2>3. hs' = hs
    BY <2>2 DEF NoStart
  <2>4. RoleInv'
    BY <2>1, <2>3, NoRoleInv
  <2>. QED
    BY <1>0, <1>2, <2>2, <2>4, SessionStep
<1>. QED
  BY <1>0, <1>3, <1>4, <1>5, <1>6 DEF Handshakes

LEMMA AnswerMismatchStep ==
    ASSUME SessionInv, NEW phrase \in Phrases \cup {None}, AnswerMismatch(phrase)
    PROVE  SessionInv'
<1>1. /\ dialogs' = << >>
      /\ UNCHANGED <<queue, deferred, receivers, senders, sent>>
  BY TopWindow DEF AnswerMismatch, Showing
<1>2. dialogs' \in Seq(Dialogs) /\ WindowInv'
  BY <1>1, EmptySeq DEF WindowInv, WindowsInOrder, Showing
<1>3. CASE Top.epoch # ch.epoch \/ GivesUp(phrase)
  <2>1. UNCHANGED <<form, hs, ch, attempts, stopped, open, pay, btn_send>>
    BY <1>3 DEF AnswerMismatch, NoStart, ResetEffects
  <2>2. TypeOK'
    BY <1>1, <1>2, <2>1 DEF SessionInv, TypeOK
  <2>3. RoleInv'
    BY <1>1, <2>1 DEF SessionInv, RoleInv, OneRole
  <2>4. AttemptsInv'
    BY <1>1, <2>1 DEF SessionInv, AttemptsInv, AttemptOK
  <2>5. EventsInv'
    BY <1>1, <2>1 DEF SessionInv, EventsInv, EventOK
  <2>6. ChannelInv' /\ WorkInv'
    BY <1>1, <2>1 DEF SessionInv, ChannelInv, WorkInv, ArchiveKeyIsSessionKey
  <2>. QED
    BY <1>2, <2>2, <2>3, <2>4, <2>5, <2>6 DEF SessionInv
<1>4. CASE ~(Top.epoch # ch.epoch \/ GivesUp(phrase))
  <2>1. RetryAfterMismatch(phrase) /\ ~GivesUp(phrase)
    BY <1>4 DEF AnswerMismatch
  <2>2. /\ form' \in Forms /\ SessionTypes' /\ RoleInv'
        /\ AttemptsInv' /\ EventsInv' /\ ChannelInv' /\ WorkInv'
    BY <1>1, <2>1, RetryStep
  <2>. QED
    BY <1>1, <1>2, <2>2 DEF SessionInv, SessionTypes, TypeOK
<1>. QED
  BY <1>3, <1>4

-----------------------------------------------------------------------------
(***************************************************************************)
(* The steps of the attempts, the poll, the workers and the payload.  They *)
(* leave the form and the handshake alone.                                 *)
(***************************************************************************)

(* The thread of an attempt moves on.                                      *)
LEMMA GotoFacts ==
    ASSUME TypeOK, NEW i \in 1..Len(attempts), NEW a \in Attempts,
           attempts' = [attempts EXCEPT ![i] = a]
    PROVE  /\ attempts' \in Seq(Attempts)
           /\ Len(attempts') = Len(attempts)
           /\ attempts'[i] = a
           /\ \A j \in 1..Len(attempts) : j # i => attempts'[j] = attempts[j]
BY ExceptSeq DEF TypeOK

(* When the role, the epoch and the windows stay, so do their invariants.  *)
LEMMA SameRole ==
    ASSUME SessionInv, UNCHANGED <<form, hs, dialogs>>,
           ch'.epoch = ch.epoch, ch'.started = ch.started,
           ch'.socket # NoSocket => ch'.started,
           Showing("mismatch") => ~ch'.pending
    PROVE  RoleInv' /\ WindowInv'
<1>1. RoleInv'
  BY DEF SessionInv, RoleInv, OneRole
<1>2. SessionActive(hs', ch') => SessionActive(hs, ch)
  BY DEF SessionActive
<1>3. WindowInv'
  BY <1>2 DEF SessionInv, WindowInv, WindowsInOrder, Showing, Top
<1>. QED
  BY <1>1, <1>3

(* A thread of an attempt preserves the invariant.                         *)
LEMMA EstablishWorkerStep ==
    ASSUME SessionInv, NEW i \in 1..Len(attempts), EstablishWorker(i)
    PROVE  SessionInv'
<1>. USE DEF NoSocket
<1>types. /\ TypeOK /\ ch \in Channels /\ hs \in Handshakes
          /\ Len(attempts) \in Nat
          /\ \A j \in 1..Len(attempts) : attempts[j] \in Attempts
          /\ attempts[i] \in Attempts
          /\ queue \in Seq(Events)
          /\ \A e \in Waiting(queue) \cup Waiting(deferred) : e \in Events
  BY ElementOfSeq, WaitingType, LenProperties DEF SessionInv, TypeOK
<1>inv. /\ \A j \in 1..Len(attempts) : AttemptOK(j)
        /\ \A j, k \in 1..Len(attempts) : attempts[j].epoch = attempts[k].epoch => j = k
        /\ \A e \in Waiting(queue) \cup Waiting(deferred) : EventOK(e)
        /\ ChannelInv /\ WorkInv
  BY DEF SessionInv, AttemptsInv, EventsInv
<1>1. CASE ReadAddress(i)
  <2>. DEFINE a == [attempts[i] EXCEPT !.pc = "connecting", !.addr = hs.peer_addr]
  <2>1. /\ attempts' = [attempts EXCEPT ![i] = a]
        /\ attempts[i].pc = "spawned"
        /\ UNCHANGED <<form, hs, ch, stopped, open, queue, deferred, dialogs,
                       receivers, senders, sent, pay, btn_send>>
    BY <1>1 DEF ReadAddress
  <2>2. /\ a \in Attempts /\ a.epoch = attempts[i].epoch /\ a.key = attempts[i].key
        /\ a.stop_event = attempts[i].stop_event /\ a.pc = "connecting"
        /\ a.addr = hs.peer_addr
    BY <1>types DEF Attempts, Handshakes
  <2>3. /\ attempts' \in Seq(Attempts) /\ Len(attempts') = Len(attempts)
        /\ attempts'[i] = a
        /\ \A j \in 1..Len(attempts) : j # i => attempts'[j] = attempts[j]
    BY <1>types, <2>1, <2>2, GotoFacts
  <2>4. TypeOK'
    BY <1>types, <2>1, <2>3 DEF TypeOK
  <2>5. RoleInv' /\ WindowInv'
    BY <2>1, SameRole DEF SessionInv, ChannelInv, WindowInv, WindowsInOrder
  <2>6. AttemptsInv'
    BY <1>inv, <2>1, <2>2, <2>3 DEF AttemptsInv, AttemptOK
  <2>7. EventsInv'
    BY <1>inv, <2>1, <2>2, <2>3 DEF EventsInv, EventOK
  <2>8. ChannelInv' /\ WorkInv'
    BY <1>inv, <2>1, <2>2, <2>3 DEF ChannelInv, WorkInv, ArchiveKeyIsSessionKey
  <2>. QED
    BY <2>4, <2>5, <2>6, <2>7, <2>8 DEF SessionInv
<1>2. CASE EstablishReturns(i)
  <2>. DEFINE a == [attempts[i] EXCEPT !.pc = "verifying"]
  <2>1. /\ attempts' = [attempts EXCEPT ![i] = a]
        /\ attempts[i].pc = "connecting"
        /\ stopped' = stopped \cup {attempts[i].stop_event}
        /\ open' = open \cup {i}
        /\ UNCHANGED <<form, hs, ch, queue, deferred, dialogs,
                       receivers, senders, sent, pay, btn_send>>
    BY <1>2 DEF EstablishReturns, Goto
  <2>2. /\ a \in Attempts /\ a.epoch = attempts[i].epoch /\ a.key = attempts[i].key
        /\ a.stop_event = attempts[i].stop_event /\ a.pc = "verifying"
        /\ a.addr = attempts[i].addr
    BY <1>types DEF Attempts
  <2>3. /\ attempts' \in Seq(Attempts) /\ Len(attempts') = Len(attempts)
        /\ attempts'[i] = a
        /\ \A j \in 1..Len(attempts) : j # i => attempts'[j] = attempts[j]
    BY <1>types, <2>1, <2>2, GotoFacts
  <2>4. TypeOK'
    <3>1. stopped' \subseteq Nat /\ open' \subseteq Nat
      BY <1>types, <2>1 DEF TypeOK, Attempts
    <3>. QED
      BY <1>types, <2>1, <2>3, <3>1 DEF TypeOK
  <2>5. RoleInv' /\ WindowInv'
    BY <2>1, SameRole DEF SessionInv, ChannelInv, WindowInv, WindowsInOrder
  <2>6. AttemptsInv'
    BY <1>inv, <2>1, <2>2, <2>3 DEF AttemptsInv, AttemptOK
  <2>7. EventsInv'
    BY <1>inv, <2>1, <2>2, <2>3 DEF EventsInv, EventOK
  <2>8. ChannelInv'
    <3>1. attempts[i].epoch <= ch.epoch /\ attempts[i].stop_event = attempts[i].epoch
          /\ (attempts[i].epoch = ch.epoch => ch.started)
      BY <1>inv DEF AttemptOK
    <3>. QED
      BY <1>inv, <2>1, <2>2, <2>3, <3>1 DEF ChannelInv
  <2>9. WorkInv'
    BY <1>inv, <2>1 DEF WorkInv, ArchiveKeyIsSessionKey
  <2>. QED
    BY <2>4, <2>5, <2>6, <2>7, <2>8, <2>9 DEF SessionInv
<1>3. CASE EstablishFails(i)
  <2>. DEFINE a == [attempts[i] EXCEPT !.pc = "done"]
              e == Event("connection_failed", attempts[i].epoch)
  <2>1. /\ attempts' = [attempts EXCEPT ![i] = a]
        /\ attempts[i].pc = "connecting"
        /\ stopped' = stopped \cup {attempts[i].stop_event}
        /\ queue' = Append(queue, e)
        /\ UNCHANGED <<form, hs, ch, open, deferred, dialogs,
                       receivers, senders, sent, pay, btn_send>>
    BY <1>3 DEF EstablishFails, Goto, Put
  <2>2. /\ a \in Attempts /\ a.epoch = attempts[i].epoch /\ a.key = attempts[i].key
        /\ a.stop_event = attempts[i].stop_event /\ a.pc = "done"
        /\ a.addr = attempts[i].addr
    BY <1>types DEF Attempts
  <2>3. /\ attempts' \in Seq(Attempts) /\ Len(attempts') = Len(attempts)
        /\ attempts'[i] = a
        /\ \A j \in 1..Len(attempts) : j # i => attempts'[j] = attempts[j]
    BY <1>types, <2>1, <2>2, GotoFacts
  <2>e. /\ e \in Events /\ e.kind = "connection_failed" /\ e.sock = NoSocket
        /\ e.epoch = attempts[i].epoch
    BY <1>types DEF Event, Events, EventKinds, Attempts
  <2>q. /\ queue' \in Seq(Events)
        /\ Waiting(queue') = Waiting(queue) \cup {e}
    BY <1>types, <2>1, <2>e, WaitingAppend
  <2>4. TypeOK'
    <3>1. stopped' \subseteq Nat
      BY <1>types, <2>1 DEF TypeOK, Attempts
    <3>. QED
      BY <1>types, <2>1, <2>3, <2>q, <3>1 DEF TypeOK
  <2>5. RoleInv' /\ WindowInv'
    BY <2>1, SameRole DEF SessionInv, ChannelInv, WindowInv, WindowsInOrder
  <2>i. /\ attempts[i].epoch <= ch.epoch /\ attempts[i].stop_event = attempts[i].epoch
        /\ (attempts[i].epoch = ch.epoch => ch.started)
    BY <1>inv DEF AttemptOK
  <2>6. AttemptsInv'
    BY <1>inv, <2>1, <2>2, <2>3 DEF AttemptsInv, AttemptOK
  <2>7. EventsInv'
    BY <1>inv, <2>1, <2>2, <2>3, <2>e, <2>q, <2>i DEF EventsInv, EventOK
  <2>8. ChannelInv'
    BY <1>inv, <2>1, <2>2, <2>3, <2>i DEF ChannelInv
  <2>9. WorkInv'
    BY <1>inv, <2>1 DEF WorkInv, ArchiveKeyIsSessionKey
  <2>. QED
    BY <2>4, <2>5, <2>6, <2>7, <2>8, <2>9 DEF SessionInv
<1>4. CASE VerifyReturns(i)
  <2>. DEFINE a == [attempts[i] EXCEPT !.pc = "done"]
              e == [kind |-> "connected", epoch |-> attempts[i].epoch, sock |-> i,
                    key |-> attempts[i].key]
  <2>1. /\ attempts' = [attempts EXCEPT ![i] = a]
        /\ attempts[i].pc = "verifying"
        /\ queue' = Append(queue, e)
        /\ UNCHANGED <<form, hs, ch, stopped, open, deferred, dialogs,
                       receivers, senders, sent, pay, btn_send>>
    BY <1>4 DEF VerifyReturns, Goto, Put
  <2>2. /\ a \in Attempts /\ a.epoch = attempts[i].epoch /\ a.key = attempts[i].key
        /\ a.stop_event = attempts[i].stop_event /\ a.pc = "done"
        /\ a.addr = attempts[i].addr
    BY <1>types DEF Attempts
  <2>3. /\ attempts' \in Seq(Attempts) /\ Len(attempts') = Len(attempts)
        /\ attempts'[i] = a
        /\ \A j \in 1..Len(attempts) : j # i => attempts'[j] = attempts[j]
    BY <1>types, <2>1, <2>2, GotoFacts
  <2>e. /\ e \in Events /\ e.kind = "connected" /\ e.sock = i
        /\ e.epoch = attempts[i].epoch /\ e.key = attempts[i].key
    BY <1>types DEF Events, EventKinds, Attempts
  <2>q. /\ queue' \in Seq(Events)
        /\ Waiting(queue') = Waiting(queue) \cup {e}
    BY <1>types, <2>1, <2>e, WaitingAppend
  <2>4. TypeOK'
    BY <1>types, <2>1, <2>3, <2>q DEF TypeOK
  <2>5. RoleInv' /\ WindowInv'
    BY <2>1, SameRole DEF SessionInv, ChannelInv, WindowInv, WindowsInOrder
  <2>i. /\ attempts[i].epoch <= ch.epoch /\ i \in open
        /\ (attempts[i].epoch = ch.epoch => ch.started)
    BY <1>inv, <2>1 DEF AttemptOK
  <2>6. AttemptsInv'
    BY <1>inv, <2>1, <2>2, <2>3 DEF AttemptsInv, AttemptOK
  <2>7. EventsInv'
    BY <1>inv, <2>1, <2>2, <2>3, <2>e, <2>q, <2>i DEF EventsInv, EventOK
  <2>8. ChannelInv' /\ WorkInv'
    BY <1>inv, <2>1, <2>2, <2>3 DEF ChannelInv, WorkInv, ArchiveKeyIsSessionKey
  <2>. QED
    BY <2>4, <2>5, <2>6, <2>7, <2>8 DEF SessionInv
<1>5. ASSUME NEW kind \in EventKinds, VerifyRaises(i, kind) PROVE SessionInv'
  <2>. DEFINE a == [attempts[i] EXCEPT !.pc = "done"]
              e == Event(kind, attempts[i].epoch)
  <2>1. /\ attempts' = [attempts EXCEPT ![i] = a]
        /\ attempts[i].pc = "verifying"
        /\ kind # "connected"
        /\ queue' = Append(queue, e)
        /\ open' = open \ {i}
        /\ UNCHANGED <<form, hs, ch, stopped, deferred, dialogs,
                       receivers, senders, sent, pay, btn_send>>
    BY <1>5 DEF VerifyRaises, Goto, Put
  <2>2. /\ a \in Attempts /\ a.epoch = attempts[i].epoch /\ a.key = attempts[i].key
        /\ a.stop_event = attempts[i].stop_event /\ a.pc = "done"
        /\ a.addr = attempts[i].addr
    BY <1>types DEF Attempts
  <2>3. /\ attempts' \in Seq(Attempts) /\ Len(attempts') = Len(attempts)
        /\ attempts'[i] = a
        /\ \A j \in 1..Len(attempts) : j # i => attempts'[j] = attempts[j]
    BY <1>types, <2>1, <2>2, GotoFacts
  <2>e. /\ e \in Events /\ e.kind # "connected" /\ e.sock = NoSocket
        /\ e.epoch = attempts[i].epoch
    BY <1>types, <2>1 DEF Event, Events, Attempts
  <2>q. /\ queue' \in Seq(Events)
        /\ Waiting(queue') = Waiting(queue) \cup {e}
    BY <1>types, <2>1, <2>e, WaitingAppend
  <2>4. TypeOK'
    BY <1>types, <2>1, <2>3, <2>q DEF TypeOK
  <2>5. RoleInv' /\ WindowInv'
    BY <2>1, SameRole DEF SessionInv, ChannelInv, WindowInv, WindowsInOrder
  <2>i. /\ attempts[i].epoch <= ch.epoch
        /\ (attempts[i].epoch = ch.epoch => ch.started)
    BY <1>inv DEF AttemptOK
  <2>6. AttemptsInv'
    BY <1>inv, <2>1, <2>2, <2>3 DEF AttemptsInv, AttemptOK
  <2>7. EventsInv'
    BY <1>inv, <2>1, <2>2, <2>3, <2>e, <2>q, <2>i DEF EventsInv, EventOK
  <2>8. ChannelInv' /\ WorkInv'
    BY <1>inv, <2>1, <2>2, <2>3 DEF ChannelInv, WorkInv, ArchiveKeyIsSessionKey
  <2>. QED
    BY <2>4, <2>5, <2>6, <2>7, <2>8 DEF SessionInv
<1>. QED
  BY <1>1, <1>2, <1>3, <1>4, <1>5 DEF EstablishWorker

(* What the poll may use about the event it takes.                         *)
LEMMA TakenEvent ==
    ASSUME SessionInv, queue # << >>, queue' = Tail(queue)
    PROVE  /\ queue' \in Seq(Events)
           /\ Head(queue) \in Events /\ EventOK(Head(queue))
           /\ Waiting(queue') \subseteq Waiting(queue)
<1>1. queue \in Seq(Events)
  BY DEF SessionInv, TypeOK
<1>2. /\ Tail(queue) \in Seq(Events) /\ Head(queue) \in Events
      /\ Head(queue) \in Waiting(queue)
      /\ Waiting(Tail(queue)) \subseteq Waiting(queue)
  BY <1>1, WaitingTail
<1>. QED
  BY <1>2 DEF SessionInv, EventsInv

(* A change of the channel that keeps its attempt, and removes no event    *)
(* but the one taken, preserves the invariant.                             *)
LEMMA ChannelStep ==
    ASSUME SessionInv,
           ch' \in Channels, ch'.epoch = ch.epoch, ch'.stop_event = ch.stop_event,
           ch'.started = ch.started, ch'.socket = ch.socket, ch'.key = ch.key,
           ch'.pending => ch.pending, ch'.verified => ch.verified,
           Waiting(queue') \cup Waiting(deferred') \subseteq
               Waiting(queue) \cup Waiting(deferred),
           queue' \in Seq(Events), deferred' \in Seq(Events), btn_send' \in BOOLEAN,
           UNCHANGED <<form, hs, stopped, attempts, open, dialogs, receivers,
                       senders, sent, pay>>
    PROVE  SessionInv'
<1>1. TypeOK'
  BY DEF SessionInv, TypeOK
<1>2. RoleInv' /\ WindowInv'
  BY SameRole DEF SessionInv, ChannelInv, WindowInv, WindowsInOrder
<1>3. AttemptsInv'
  BY DEF SessionInv, AttemptsInv, AttemptOK
<1>4. EventsInv'
  BY DEF SessionInv, EventsInv, EventOK
<1>5. ChannelInv' /\ WorkInv'
  BY DEF SessionInv, ChannelInv, WorkInv, ArchiveKeyIsSessionKey
<1>. QED
  BY <1>1, <1>2, <1>3, <1>4, <1>5 DEF SessionInv

(* One event handled by the poll, or the end of the poll.                  *)
LEMMA PollStep ==
    ASSUME SessionInv, Poll
    PROVE  SessionInv'
<1>. USE DEF NoSocket
<1>types. /\ TypeOK /\ ch \in Channels /\ pay \in Payloads
          /\ queue \in Seq(Events) /\ deferred \in Seq(Events)
          /\ btn_send \in BOOLEAN
  BY DEF SessionInv, TypeOK
<1>inv. /\ AttemptsInv /\ EventsInv /\ ChannelInv /\ WorkInv /\ WindowInv
  BY DEF SessionInv
<1>1. CASE HandleStaleEvent
  <2>1. /\ queue # << >> /\ queue' = Tail(queue)
        /\ Head(queue).epoch # ch.epoch
        /\ open' = open \ {Head(queue).sock}
        /\ UNCHANGED <<form, hs, ch, stopped, attempts, deferred, dialogs,
                       receivers, senders, sent, pay, btn_send>>
    BY <1>1 DEF HandleStaleEvent
  <2>2. /\ queue' \in Seq(Events)
        /\ Head(queue) \in Events /\ EventOK(Head(queue))
        /\ Waiting(queue') \subseteq Waiting(queue)
    BY <2>1, TakenEvent
  <2>3. \A i \in 1..Len(attempts) :
           i = Head(queue).sock =>
               attempts[i].epoch # ch.epoch /\ attempts[i].pc = "done"
    BY <2>1, <2>2 DEF EventOK
  <2>4. TypeOK'
    BY <1>types, <2>1, <2>2 DEF TypeOK
  <2>5. RoleInv' /\ WindowInv'
    BY <2>1, SameRole DEF SessionInv, ChannelInv, WindowInv, WindowsInOrder
  <2>6. AttemptsInv'
    BY <1>inv, <2>1, <2>3 DEF AttemptsInv, AttemptOK
  <2>7. EventsInv'
    BY <1>inv, <2>1, <2>2, <2>3 DEF EventsInv, EventOK
  <2>8. ChannelInv' /\ WorkInv'
    BY <1>inv, <2>1, <2>3 DEF ChannelInv, WorkInv, ArchiveKeyIsSessionKey
  <2>. QED
    BY <2>4, <2>5, <2>6, <2>7, <2>8 DEF SessionInv
<1>2. CASE HandleConnectionFailed
  <2>1. /\ queue # << >> /\ queue' = Tail(queue)
        /\ ch' = [ch EXCEPT !.pending = FALSE]
        /\ UNCHANGED <<form, hs, stopped, attempts, open, deferred, dialogs,
                       receivers, senders, sent, pay, btn_send>>
    BY <1>2 DEF HandleConnectionFailed, Take
  <2>2. queue' \in Seq(Events) /\ Waiting(queue') \subseteq Waiting(queue)
    BY <2>1, TakenEvent
  <2>3. /\ ch' \in Channels /\ ch'.epoch = ch.epoch /\ ch'.stop_event = ch.stop_event
        /\ ch'.started = ch.started /\ ch'.socket = ch.socket /\ ch'.key = ch.key
        /\ ~ch'.pending /\ ch'.verified = ch.verified
    BY <1>types, <2>1 DEF Channels
  <2>. QED
    BY <1>types, <2>1, <2>2, <2>3, ChannelStep
<1>3. CASE DeferVerificationFailed
  <2>1. /\ queue # << >> /\ queue' = Tail(queue)
        /\ deferred' = Append(deferred, Head(queue))
        /\ UNCHANGED <<form, hs, ch, stopped, attempts, open, dialogs,
                       receivers, senders, sent, pay, btn_send>>
    BY <1>3 DEF DeferVerificationFailed, Take
  <2>2. /\ queue' \in Seq(Events) /\ Head(queue) \in Events
        /\ Waiting(queue') \subseteq Waiting(queue)
    BY <2>1, TakenEvent
  <2>3. Head(queue) \in Waiting(queue)
    BY <1>types, <2>1, WaitingTail
  <2>4. /\ deferred' \in Seq(Events)
        /\ Waiting(deferred') = Waiting(deferred) \cup {Head(queue)}
    BY <1>types, <2>1, <2>2, WaitingAppend
  <2>. QED
    BY <1>types, <2>1, <2>2, <2>3, <2>4, ChannelStep
<1>4. CASE HandleVerificationFailed
  <2>. DEFINE d == [kind |-> "mismatch", next |-> None, epoch |-> ch.epoch]
  <2>1. /\ queue # << >> /\ queue' = Tail(queue)
        /\ ch' = [ch EXCEPT !.pending = FALSE]
        /\ dialogs' = <<d>> \o << >>
        /\ UNCHANGED <<form, hs, stopped, attempts, open, deferred,
                       receivers, senders, sent, pay, btn_send>>
    BY <1>4 DEF HandleVerificationFailed, Take, Push, Idle
  <2>2. queue' \in Seq(Events) /\ Waiting(queue') \subseteq Waiting(queue)
    BY <2>1, TakenEvent
  <2>3. /\ ch' \in Channels /\ ch'.epoch = ch.epoch /\ ch'.stop_event = ch.stop_event
        /\ ch'.started = ch.started /\ ch'.socket = ch.socket /\ ch'.key = ch.key
        /\ ~ch'.pending /\ ch'.verified = ch.verified
    BY <1>types, <2>1 DEF Channels
  <2>4. d \in Dialogs
    BY <1>types DEF Dialogs, Channels
  <2>5. /\ dialogs' \in Seq(Dialogs) /\ dialogs' # << >>
        /\ Len(dialogs') = 1 /\ Head(dialogs') = d
    BY <2>1, <2>4, OneWindow
  <2>6. WindowInv'
    BY <2>3, <2>5 DEF WindowInv, WindowsInOrder, Showing, Top
  <2>7. TypeOK'
    BY <1>types, <2>1, <2>2, <2>3, <2>5 DEF TypeOK
  <2>8. RoleInv'
    BY <2>1 DEF SessionInv, RoleInv, OneRole
  <2>9. AttemptsInv'
    BY <1>inv, <2>1, <2>3 DEF AttemptsInv, AttemptOK
  <2>10. EventsInv'
    BY <1>inv, <2>1, <2>2, <2>3 DEF EventsInv, EventOK
  <2>11. ChannelInv' /\ WorkInv'
    BY <1>inv, <2>1, <2>3 DEF ChannelInv, WorkInv, ArchiveKeyIsSessionKey
  <2>. QED
    BY <2>6, <2>7, <2>8, <2>9, <2>10, <2>11 DEF SessionInv
<1>5. CASE HandleConnected
  <2>. DEFINE e == Head(queue)
  <2>1. /\ queue # << >> /\ queue' = Tail(queue)
        /\ e.epoch = ch.epoch /\ e.kind = "connected"
        /\ ch' = [ch EXCEPT !.pending = FALSE, !.socket = e.sock,
                            !.key = e.key, !.verified = TRUE]
        /\ btn_send' = SendButtonState(pay, ch')
        /\ receivers' = receivers \cup {[sock |-> e.sock, epoch |-> e.epoch]}
        /\ UNCHANGED <<form, hs, stopped, attempts, open, deferred, dialogs,
                       senders, sent, pay>>
    BY <1>5 DEF HandleConnected, Take
  <2>2. /\ queue' \in Seq(Events) /\ e \in Events /\ EventOK(e)
        /\ Waiting(queue') \subseteq Waiting(queue)
    BY <2>1, TakenEvent
  <2>3. /\ ch' \in Channels /\ ch'.epoch = ch.epoch /\ ch'.stop_event = ch.stop_event
        /\ ch'.started = ch.started /\ ch'.socket = e.sock /\ ch'.key = e.key
        /\ ~ch'.pending
    BY <1>types, <2>1, <2>2 DEF Channels, Events
  <2>4. /\ ch.started /\ e.sock \in 1..Len(attempts)
        /\ attempts[e.sock].epoch = ch.epoch /\ attempts[e.sock].key = e.key
        /\ attempts[e.sock].pc = "done" /\ e.sock \in open
    BY <2>1, <2>2 DEF EventOK
  <2>5. TypeOK'
    <3>1. btn_send' \in BOOLEAN
      BY <1>types, <2>1, <2>3, SendButtonStateType
    <3>2. receivers' \subseteq Receivers
      BY <1>types, <2>1, <2>2 DEF TypeOK, Receivers, Events
    <3>. QED
      BY <1>types, <2>1, <2>2, <2>3, <3>1, <3>2 DEF TypeOK
  <2>6. RoleInv' /\ WindowInv'
    BY <2>1, <2>3, <2>4, SameRole
  <2>7. AttemptsInv'
    BY <1>inv, <2>1, <2>3 DEF AttemptsInv, AttemptOK
  <2>8. EventsInv'
    BY <1>inv, <2>1, <2>2, <2>3 DEF EventsInv, EventOK
  <2>9. ChannelInv'
    BY <1>inv, <2>1, <2>3, <2>4 DEF ChannelInv
  <2>10. WorkInv'
    <3>1. \A w \in senders \cup receivers' :
             w.epoch <= ch.epoch /\ (w.epoch = ch.epoch => ch.started)
      BY <1>inv, <1>types, <2>1, <2>4 DEF WorkInv, Channels
    <3>. QED
      BY <1>inv, <2>1, <2>3, <3>1 DEF WorkInv, ArchiveKeyIsSessionKey
  <2>. QED
    BY <2>5, <2>6, <2>7, <2>8, <2>9, <2>10 DEF SessionInv
<1>6. CASE HandleReceiveStopped
  <2>1. /\ queue # << >> /\ queue' = Tail(queue)
        /\ ch' = [ch EXCEPT !.verified = FALSE]
        /\ btn_send' = SendButtonState(pay, ch')
        /\ UNCHANGED <<form, hs, stopped, attempts, open, deferred, dialogs,
                       receivers, senders, sent, pay>>
    BY <1>6 DEF HandleReceiveStopped, Take
  <2>2. queue' \in Seq(Events) /\ Waiting(queue') \subseteq Waiting(queue)
    BY <2>1, TakenEvent
  <2>3. /\ ch' \in Channels /\ ch'.epoch = ch.epoch /\ ch'.stop_event = ch.stop_event
        /\ ch'.started = ch.started /\ ch'.socket = ch.socket /\ ch'.key = ch.key
        /\ ch'.pending = ch.pending /\ ~ch'.verified
    BY <1>types, <2>1 DEF Channels
  <2>4. btn_send' \in BOOLEAN
    BY <1>types, <2>1, <2>3, SendButtonStateType
  <2>. QED
    BY <1>types, <2>1, <2>2, <2>3, <2>4, ChannelStep
<1>7. CASE HandleSendFinished
  <2>1. /\ queue # << >> /\ queue' = Tail(queue)
        /\ btn_send' = TRUE
        /\ UNCHANGED <<form, hs, ch, stopped, attempts, open, deferred, dialogs,
                       receivers, senders, sent, pay>>
    BY <1>7 DEF HandleSendFinished, Take
  <2>2. queue' \in Seq(Events) /\ Waiting(queue') \subseteq Waiting(queue)
    BY <2>1, TakenEvent
  <2>. QED
    BY <1>types, <2>1, <2>2, ChannelStep
<1>8. CASE EndOfPoll
  <2>1. /\ queue = << >> /\ queue' = deferred /\ deferred' = << >>
        /\ UNCHANGED <<form, hs, ch, stopped, attempts, open, dialogs,
                       receivers, senders, sent, pay, btn_send>>
    BY <1>8 DEF EndOfPoll
  <2>2. Waiting(deferred') = {} /\ deferred' \in Seq(Events)
    BY <2>1, EmptySeq DEF Waiting
  <2>. QED
    BY <1>types, <2>1, <2>2, ChannelStep
<1>. QED
  BY <1>1, <1>2, <1>3, <1>4, <1>5, <1>6, <1>7, <1>8 DEF Poll

(* A worker that posts its last event preserves the invariant.             *)
LEMMA LastEventStep ==
    ASSUME SessionInv, NEW kind \in EventKinds \ {"connected"},
           NEW w \in senders \cup receivers, Put(Event(kind, w.epoch)),
           receivers' \subseteq receivers, senders' \subseteq senders,
           UNCHANGED <<form, hs, ch, stopped, attempts, open, deferred, dialogs,
                       sent, pay, btn_send>>
    PROVE  SessionInv'
<1>. DEFINE e == Event(kind, w.epoch)
<1>. USE DEF NoSocket
<1>1. /\ TypeOK /\ queue \in Seq(Events) /\ w.epoch \in Nat
      /\ w.epoch <= ch.epoch /\ (w.epoch = ch.epoch => ch.started)
  BY DEF SessionInv, TypeOK, WorkInv, Senders, Receivers
<1>2. /\ e \in Events /\ e.epoch = w.epoch /\ e.kind # "connected"
      /\ e.sock = NoSocket
  BY <1>1 DEF Event, Events
<1>3. queue' \in Seq(Events) /\ Waiting(queue') = Waiting(queue) \cup {e}
  BY <1>1, <1>2, WaitingAppend DEF Put
<1>4. TypeOK'
  BY <1>1, <1>3 DEF TypeOK
<1>5. RoleInv' /\ WindowInv'
  BY SameRole DEF SessionInv, ChannelInv, WindowInv, WindowsInOrder
<1>6. AttemptsInv'
  BY DEF SessionInv, AttemptsInv, AttemptOK
<1>7. EventsInv'
  BY <1>1, <1>2, <1>3 DEF SessionInv, EventsInv, EventOK
<1>8. ChannelInv' /\ WorkInv'
  BY DEF SessionInv, ChannelInv, WorkInv, ArchiveKeyIsSessionKey
<1>. QED
  BY <1>4, <1>5, <1>6, <1>7, <1>8 DEF SessionInv

(* A step on the payload and the workers preserves the invariant when its  *)
(* archive, and that of a new sender, is encrypted with the session key.   *)
LEMMA WorkStep ==
    ASSUME SessionInv, TypeOK', WorkInv',
           UNCHANGED <<form, hs, ch, stopped, attempts, open, queue, deferred, dialogs>>
    PROVE  SessionInv'
<1>1. RoleInv' /\ WindowInv'
  BY SameRole DEF SessionInv, ChannelInv, WindowInv, WindowsInOrder
<1>2. AttemptsInv'
  BY DEF SessionInv, AttemptsInv, AttemptOK
<1>3. EventsInv'
  BY DEF SessionInv, EventsInv, EventOK
<1>4. ChannelInv'
  BY DEF SessionInv, ChannelInv
<1>. QED
  BY <1>1, <1>2, <1>3, <1>4 DEF SessionInv

LEMMA ReceiveWorkerStep ==
    ASSUME SessionInv, NEW r \in receivers, ReceiveWorker(r)
    PROVE  SessionInv'
<1>1. CASE ReceiverLeaves(r)
  <2>1. /\ receivers' \subseteq receivers
        /\ UNCHANGED <<form, hs, ch, stopped, attempts, open, queue, deferred,
                       dialogs, senders, sent, pay, btn_send>>
    BY <1>1 DEF ReceiverLeaves
  <2>2. TypeOK' /\ WorkInv'
    BY <2>1 DEF SessionInv, TypeOK, WorkInv, ArchiveKeyIsSessionKey
  <2>. QED
    BY <2>1, <2>2, WorkStep
<1>2. CASE ReceiverStops(r)
  BY <1>2, LastEventStep DEF ReceiverStops, EventKinds
<1>. QED
  BY <1>1, <1>2 DEF ReceiveWorker

LEMMA SendWorkerStep ==
    ASSUME SessionInv, NEW s \in senders, SendWorker(s)
    PROVE  SessionInv'
BY LastEventStep DEF SendWorker, EventKinds

LEMMA SelectStep ==
    ASSUME SessionInv, NEW kind \in {"file", "dir"}, Select(kind)
    PROVE  SessionInv'
<1>1. /\ pay' = [selected |-> kind, ready |-> FALSE, archive_key |-> None]
      /\ btn_send' = SendButtonState(pay', ch)
      /\ UNCHANGED <<form, hs, ch, stopped, attempts, open, queue, deferred,
                     dialogs, receivers, senders, sent>>
  BY DEF Select
<1>2. pay' \in Payloads
  BY <1>1 DEF Payloads
<1>3. TypeOK' /\ WorkInv'
  BY <1>1, <1>2, SendButtonStateType
  DEF SessionInv, TypeOK, WorkInv, ArchiveKeyIsSessionKey
<1>. QED
  BY <1>1, <1>3, WorkStep

LEMMA InitiateTransferStep ==
    ASSUME SessionInv, NEW encrypt \in BOOLEAN, on_initiate_transfer(encrypt)
    PROVE  SessionInv'
<1>. DEFINE key == IF encrypt THEN SessionKey(hs) ELSE None
<1>1. /\ pay' = [pay EXCEPT !.ready = TRUE, !.archive_key = key]
      /\ btn_send' = SendButtonState(pay', ch)
      /\ UNCHANGED <<form, hs, ch, stopped, attempts, open, queue, deferred,
                     dialogs, receivers, senders, sent>>
  BY DEF on_initiate_transfer
<1>2. key \in Keys \cup {None}
  BY SessionKeyType DEF SessionInv, TypeOK
<1>3. pay' \in Payloads /\ pay'.archive_key = key
  BY <1>1, <1>2 DEF SessionInv, TypeOK, Payloads
<1>4. TypeOK'
  BY <1>1, <1>3, SendButtonStateType DEF SessionInv, TypeOK
<1>5. WorkInv'
  BY <1>1, <1>3 DEF SessionInv, WorkInv, ArchiveKeyIsSessionKey, SessionKey
<1>. QED
  BY <1>1, <1>4, <1>5, WorkStep

LEMMA SendFilesStep ==
    ASSUME SessionInv, on_send_files
    PROVE  SessionInv'
<1>. DEFINE s == [id |-> sent', sock |-> ch.socket, key |-> ch.key,
                  archive_key |-> pay.archive_key, epoch |-> ch.epoch]
<1>0. /\ TypeOK /\ WorkInv /\ ChannelInv
      /\ UNCHANGED <<form, hs, ch, stopped, attempts, open, queue, deferred,
                     dialogs, receivers, pay>>
  BY DEF SessionInv, on_send_files
<1>1. CASE MaySend
  <2>1. /\ sent' = sent + 1 /\ senders' = senders \cup {s} /\ btn_send' = FALSE
    BY <1>1 DEF on_send_files
  <2>2. s \in Senders
    BY <1>0, <2>1 DEF TypeOK, Senders, Channels, Payloads
  <2>3. TypeOK'
    <3>0. sent \in Nat
      BY <1>0 DEF TypeOK
    <3>1. sent' \in Nat
      BY <2>1, <3>0
    <3>2. btn_send' \in BOOLEAN
      BY <2>1
    <3>3. senders' \subseteq Senders
      <4>. HIDE DEF s
      <4>. QED
        BY <1>0, <2>1, <2>2 DEF TypeOK
    <3>. QED
      BY <1>0, <3>1, <3>2, <3>3 DEF TypeOK
  <2>4. ch.started /\ ch.epoch \in Nat
    BY <1>0, <1>1 DEF MaySend, ReadyToSend, ChannelInv, TypeOK, Channels
  <2>5. WorkInv'
    BY <1>0, <2>1, <2>4 DEF WorkInv, ArchiveKeyIsSessionKey, SessionKey
  <2>. QED
    BY <1>0, <2>3, <2>5, WorkStep
<1>2. CASE ~MaySend
  <2>1. btn_send' = ~ReadyToSend /\ UNCHANGED <<sent, senders>>
    BY <1>2 DEF on_send_files
  <2>2. btn_send' \in BOOLEAN
    BY <2>1
  <2>3. TypeOK' /\ WorkInv'
    BY <1>0, <2>1, <2>2 DEF TypeOK, WorkInv, ArchiveKeyIsSessionKey
  <2>. QED
    BY <1>0, <2>3, WorkStep
<1>. QED
  BY <1>1, <1>2

-----------------------------------------------------------------------------
(***************************************************************************)
(* The theorems.                                                           *)
(***************************************************************************)

LEMMA InitInv == Init => SessionInv
<1>. SUFFICES ASSUME Init PROVE SessionInv
  OBVIOUS
<1>1. /\ attempts = << >> /\ queue = << >> /\ deferred = << >> /\ dialogs = << >>
      /\ receivers = {} /\ senders = {} /\ stopped = {} /\ open = {}
      /\ hs = NoHandshake
      /\ ch = [epoch |-> 0, stop_event |-> 0, socket |-> NoSocket, key |-> None,
               verified |-> FALSE, started |-> FALSE, pending |-> FALSE]
      /\ pay = [selected |-> "none", ready |-> FALSE, archive_key |-> None]
  BY DEF Init, NoHandshake
<1>2. TypeOK
  <2>1. hs \in Handshakes /\ ch \in Channels /\ pay \in Payloads
    BY <1>1, NoHandshakeType DEF Channels, Payloads, NoSocket
  <2>. QED
    BY <1>1, <2>1, EmptySeq DEF Init, TypeOK
<1>3. RoleInv
  BY <1>1, SessionAssumption DEF NoHandshake, RoleInv, OneRole
<1>4. WindowInv
  BY <1>1, EmptySeq DEF WindowInv, WindowsInOrder, Showing
<1>5. AttemptsInv
  BY <1>1, EmptySeq DEF AttemptsInv
<1>6. EventsInv
  BY <1>1, EmptySeq DEF EventsInv, Waiting
<1>7. ChannelInv /\ WorkInv
  BY <1>1 DEF ChannelInv, WorkInv, ArchiveKeyIsSessionKey
<1>. QED
  BY <1>2, <1>3, <1>4, <1>5, <1>6, <1>7 DEF SessionInv

LEMMA StepInv == SessionInv /\ [Next]_vars => SessionInv'
<1>. SUFFICES ASSUME SessionInv, [Next]_vars PROVE SessionInv'
  OBVIOUS
<1>1. CASE on_generate_handshake
  BY <1>1, ClickStep DEF on_generate_handshake
<1>2. CASE on_paste_handshake
  BY <1>2, ClickStep DEF on_paste_handshake
<1>3. ASSUME NEW f \in Forms, EditForm(f) PROVE SessionInv'
  BY <1>3, EditFormStep
<1>4. CASE Answer
  BY <1>4, ConfirmYesStep, DismissStep, PromptOkStep, AnswerMismatchStep DEF Answer
<1>5. CASE on_choose_file \/ _select_send_dir
  BY <1>5, SelectStep DEF on_choose_file, _select_send_dir
<1>6. ASSUME NEW encrypt \in BOOLEAN, on_initiate_transfer(encrypt) PROVE SessionInv'
  BY <1>6, InitiateTransferStep
<1>7. CASE on_send_files
  BY <1>7, SendFilesStep
<1>8. CASE Poll
  BY <1>8, PollStep
<1>9. ASSUME NEW i \in 1..Len(attempts), EstablishWorker(i) PROVE SessionInv'
  BY <1>9, EstablishWorkerStep
<1>10. ASSUME NEW r \in receivers, ReceiveWorker(r) PROVE SessionInv'
  BY <1>10, ReceiveWorkerStep
<1>11. ASSUME NEW s \in senders, SendWorker(s) PROVE SessionInv'
  BY <1>11, SendWorkerStep
<1>12. CASE UNCHANGED vars
  <2>1. UNCHANGED <<form, hs, ch, stopped, attempts, open, queue, deferred, dialogs,
                    receivers, senders, sent, pay, btn_send>>
    BY <1>12 DEF vars
  <2>2. TypeOK' /\ WorkInv'
    BY <2>1 DEF SessionInv, TypeOK, WorkInv, ArchiveKeyIsSessionKey
  <2>. QED
    BY <2>1, <2>2, WorkStep
<1>. QED
  BY <1>1, <1>2, <1>3, <1>4, <1>5, <1>6, <1>7, <1>8, <1>9, <1>10, <1>11, <1>12
  DEF Next

(* The inductive invariant holds in every reachable state of the session.  *)
THEOREM SessionInvariant == Spec => []SessionInv
<1>1. Init => SessionInv
  BY InitInv
<1>2. SessionInv /\ [Next]_vars => SessionInv'
  BY StepInv
<1>. QED
  BY <1>1, <1>2, PTL DEF Spec

(* Every variable of the session keeps its type.                           *)
THEOREM TypeCorrect == Spec => []TypeOK
<1>1. SessionInv => TypeOK
  BY DEF SessionInv
<1>. QED
  BY <1>1, SessionInvariant, PTL

(* The session has one role, and its keys are those of the present phrase  *)
(* and packet (appearance.py, _session_key).                               *)
THEOREM RoleIsExclusive == Spec => []OneRole
<1>1. SessionInv => OneRole
  BY DEF SessionInv, RoleInv
<1>. QED
  BY <1>1, SessionInvariant, PTL

(* A channel that is shown was made in this epoch, with the session key    *)
(* and the address of the peer, and its socket is open                     *)
(* (appearance.py, _handle_channel_event).                                 *)
THEOREM ChannelAgreesWithSession == Spec => []ChannelIsOfThisSession
<1>1. SessionInv => ChannelIsOfThisSession
  <2>. SUFFICES ASSUME SessionInv, ch.socket # NoSocket
                PROVE  /\ ch.socket \in 1..Len(attempts)
                       /\ attempts[ch.socket].epoch = ch.epoch
                       /\ attempts[ch.socket].addr = hs.peer_addr
                       /\ ch.key = attempts[ch.socket].key
                       /\ ch.key = SessionKey(hs)
                       /\ ch.socket \in open
    BY DEF ChannelIsOfThisSession, Live
  <2>1. /\ ch.socket \in 1..Len(attempts)
        /\ attempts[ch.socket].epoch = ch.epoch
        /\ attempts[ch.socket].key = ch.key
        /\ attempts[ch.socket].pc = "done"
        /\ ch.socket \in open
    BY DEF SessionInv, ChannelInv
  <2>. QED
    BY <2>1 DEF SessionInv, AttemptsInv, AttemptOK
<1>. QED
  BY <1>1, SessionInvariant, PTL

(* An encrypted archive that is ready or being sent was encrypted with the *)
(* session key (appearance.py, _payload_matches_channel_key and            *)
(* _discard_key_bound_payload).                                            *)
THEOREM ArchiveAgreesWithSession == Spec => []ArchiveKeyIsSessionKey
<1>1. SessionInv => ArchiveKeyIsSessionKey
  BY DEF SessionInv, WorkInv
<1>. QED
  BY <1>1, SessionInvariant, PTL

(* One thread per attempt, on a stop event nobody has set                  *)
(* (appearance.py, _maybe_start_channel_establishment).                    *)
THEOREM AttemptsAreUnique == Spec => []OneAttemptPerEpoch
<1>1. SessionInv => OneAttemptPerEpoch
  BY DEF SessionInv, AttemptsInv, AttemptOK, OneAttemptPerEpoch, Live
<1>. QED
  BY <1>1, SessionInvariant, PTL

(* An attempt of an earlier epoch has been told to stop                    *)
(* (appearance.py, _reset_channel_attempt).                                *)
THEOREM OldAttemptsAreStopped == Spec => []OldAttemptsStopped
<1>1. SessionInv => OldAttemptsStopped
  BY DEF SessionInv, AttemptsInv, AttemptOK, OldAttemptsStopped, Live
<1>. QED
  BY <1>1, SessionInvariant, PTL

(* Modal windows never overlap, and each is about the present session      *)
(* (appearance.py, _modal_depth).                                          *)
THEOREM WindowsStayInOrder == Spec => []WindowsInOrder
<1>1. SessionInv => WindowsInOrder
  BY DEF SessionInv, WindowInv
<1>. QED
  BY <1>1, SessionInvariant, PTL

-----------------------------------------------------------------------------
(***************************************************************************)
(* The outcome of an attempt.                                              *)
(***************************************************************************)

(* The positions of the events that say how the attempt of an epoch ended. *)
Outcomes(q, epoch) ==
    {d \in 1..Len(q) :
        /\ q[d].epoch = epoch
        /\ q[d].kind \in {"connection_failed", "verification_failed", "connected"}}

(* The attempt of this epoch ends once: while it runs there is no event    *)
(* about its end, afterwards there is one until the poll has handled it;   *)
(* and the channel is not there before.                                    *)
OutcomeInv ==
    /\ ch.pending =>
         \/ \E i \in 1..Len(attempts) : Live(i) /\ attempts[i].pc # "done"
         \/ Outcomes(queue, ch.epoch) # {}
         \/ Outcomes(deferred, ch.epoch) # {}
    /\ \A i \in 1..Len(attempts) : Live(i) /\ attempts[i].pc # "done" =>
         /\ ch.pending
         /\ Outcomes(queue, ch.epoch) = {}
         /\ Outcomes(deferred, ch.epoch) = {}
    /\ Outcomes(queue, ch.epoch) # {} => ch.pending
    /\ Outcomes(deferred, ch.epoch) # {} => ch.pending
    /\ Outcomes(queue, ch.epoch) = {} \/ Outcomes(deferred, ch.epoch) = {}
    /\ \A d, e \in Outcomes(queue, ch.epoch) : d = e
    /\ \A d, e \in Outcomes(deferred, ch.epoch) : d = e
    /\ ch.pending => ch.socket = NoSocket /\ ~ch.verified
    /\ ch.verified => ch.socket # NoSocket
    /\ VerifiedHasReader

(* A step of Channel, or one that leaves it alone.                         *)
Simulated == [AbstractChannel!Next]_(AbstractChannel!vars)

(* Appending an event adds its position, if it says how the attempt ended. *)
LEMMA OutcomesAppend ==
    ASSUME NEW q \in Seq(Events), NEW e \in Events, NEW epoch
    PROVE  /\ ~(/\ e.epoch = epoch
                /\ e.kind \in {"connection_failed", "verification_failed", "connected"})
              => Outcomes(Append(q, e), epoch) = Outcomes(q, epoch)
           /\ (/\ e.epoch = epoch
               /\ e.kind \in {"connection_failed", "verification_failed", "connected"})
              => Outcomes(Append(q, e), epoch) = Outcomes(q, epoch) \cup {Len(q) + 1}
<1>1. /\ Len(Append(q, e)) = Len(q) + 1
      /\ \A i \in 1..Len(q) : Append(q, e)[i] = q[i]
      /\ Append(q, e)[Len(q) + 1] = e
  BY AppendProperties
<1>2. /\ 1..(Len(q) + 1) = (1..Len(q)) \cup {Len(q) + 1}
      /\ Len(q) + 1 \notin 1..Len(q)
  BY LenProperties
<1>. QED
  BY <1>1, <1>2 DEF Outcomes

(* Taking the head moves the others up.                                    *)
LEMMA OutcomesTail ==
    ASSUME NEW q \in Seq(Events), q # << >>, NEW epoch,
           \A d, e \in Outcomes(q, epoch) : d = e
    PROVE  /\ \A d, e \in Outcomes(Tail(q), epoch) : d = e
           /\ 1 \in Outcomes(q, epoch) => Outcomes(Tail(q), epoch) = {}
           /\ 1 \notin Outcomes(q, epoch) =>
                 (Outcomes(Tail(q), epoch) = {} <=> Outcomes(q, epoch) = {})
           /\ 1 \in Outcomes(q, epoch) <=>
                 /\ Head(q).epoch = epoch
                 /\ Head(q).kind \in {"connection_failed", "verification_failed", "connected"}
<1>1. /\ Len(q) \in Nat \ {0} /\ Len(Tail(q)) = Len(q) - 1
      /\ \A d \in 1..Len(Tail(q)) : Tail(q)[d] = q[d + 1]
      /\ Head(q) = q[1]
  BY HeadTailProperties, EmptySeq, LenProperties
<1>2. \A d \in Outcomes(Tail(q), epoch) : d \in Nat /\ d + 1 \in Outcomes(q, epoch) /\ d + 1 # 1
  BY <1>1 DEF Outcomes
<1>3. \A d \in Outcomes(q, epoch) : d # 1 => d - 1 \in Outcomes(Tail(q), epoch)
  <2>. SUFFICES ASSUME NEW d \in Outcomes(q, epoch), d # 1
                PROVE  d - 1 \in Outcomes(Tail(q), epoch)
    OBVIOUS
  <2>1. d \in 1..Len(q) /\ d - 1 \in 1..Len(Tail(q)) /\ (d - 1) + 1 = d
    BY <1>1 DEF Outcomes
  <2>. QED
    BY <1>1, <2>1 DEF Outcomes
<1>4. 1 \in Outcomes(q, epoch) <=>
         /\ Head(q).epoch = epoch
         /\ Head(q).kind \in {"connection_failed", "verification_failed", "connected"}
  BY <1>1 DEF Outcomes
<1>5. \A d, e \in Outcomes(Tail(q), epoch) : d = e
  BY <1>2
<1>6. ASSUME 1 \in Outcomes(q, epoch) PROVE Outcomes(Tail(q), epoch) = {}
  BY <1>2, <1>6
<1>7. ASSUME 1 \notin Outcomes(q, epoch)
      PROVE  Outcomes(Tail(q), epoch) = {} <=> Outcomes(q, epoch) = {}
  BY <1>2, <1>3, <1>7
<1>. QED
  BY <1>4, <1>5, <1>6, <1>7

(* What waits in a queue is its head or waits in its tail.                 *)
LEMMA WaitingHeadOrTail ==
    ASSUME NEW S, NEW q \in Seq(S), q # << >>
    PROVE  Waiting(q) \subseteq Waiting(Tail(q)) \cup {Head(q)}
<1>1. /\ Len(q) \in Nat \ {0} /\ Len(Tail(q)) = Len(q) - 1
      /\ \A d \in 1..Len(Tail(q)) : Tail(q)[d] = q[d + 1]
      /\ Head(q) = q[1]
  BY HeadTailProperties, EmptySeq, LenProperties
<1>. SUFFICES ASSUME NEW d \in 1..Len(q), q[d] # Head(q)
              PROVE  q[d] \in Waiting(Tail(q))
  BY DEF Waiting
<1>2. d - 1 \in 1..Len(Tail(q)) /\ (d - 1) + 1 = d
  BY <1>1
<1>. QED
  BY <1>1, <1>2 DEF Waiting

(* Events of earlier epochs are no outcome of the present one.             *)
LEMMA NoOutcomes ==
    ASSUME NEW q \in Seq(Events), NEW epoch \in Nat,
           \A e \in Waiting(q) : e.epoch < epoch
    PROVE  Outcomes(q, epoch) = {}
<1>. SUFFICES ASSUME NEW d \in Outcomes(q, epoch) PROVE FALSE
  OBVIOUS
<1>1. q[d] \in Waiting(q) /\ q[d].epoch = epoch
  BY DEF Outcomes, Waiting
<1>. QED
  BY <1>1

(* A step that leaves the session and the channel alone is a stutter of    *)
(* Channel.                                                                *)
LEMMA SameChannel ==
    ASSUME UNCHANGED <<hs, ch>>
    PROVE  Simulated
BY DEF Simulated, AbstractChannel!vars, Phase, SessionKey

(* A change of the session starts the attempt of its epoch, or leaves the  *)
(* session without one; Channel resets, starts, does both, or nothing.     *)
LEMMA SessionStepOutcome ==
    ASSUME SessionInv, NEW reset \in BOOLEAN, ~reset => ~SessionActive(hs, ch),
           ResetEffects(reset), NEW h \in Handshakes,
           MaybeStart(h, ChAfter(reset)) \/ NoStart(h, ChAfter(reset)),
           UNCHANGED <<queue, deferred, receivers, senders>>
    PROVE  OutcomeInv' /\ Simulated
<1>. DEFINE c == ChAfter(reset)
<1>0. /\ TypeOK /\ ch \in Channels /\ attempts \in Seq(Attempts) /\ Len(attempts) \in Nat
      /\ queue \in Seq(Events) /\ deferred \in Seq(Events)
      /\ \A i \in 1..Len(attempts) : attempts[i] \in Attempts
  BY ElementOfSeq, LenProperties DEF SessionInv, TypeOK
<1>1. /\ c \in Channels
      /\ c.socket = NoSocket /\ ~c.started /\ ~c.pending /\ ~c.verified
      /\ \A i \in 1..Len(attempts) : attempts[i].epoch < c.epoch
      /\ \A e \in Waiting(queue) \cup Waiting(deferred) : e.epoch < c.epoch
  BY CleanStart
<1>2. c.epoch \in Nat
  BY <1>1 DEF Channels
<1>3. /\ ch'.epoch = c.epoch /\ ch'.socket = NoSocket /\ ch'.key = c.key
      /\ ~ch'.verified /\ ch'.pending = ch'.started
      /\ ch'.started \in BOOLEAN
      /\ hs' = h
      /\ \/ ~ch'.started /\ ch' = c /\ attempts' = attempts
         \/ /\ ch'.started /\ CanStart(h, c)
            /\ attempts' = Append(attempts, NewAttempt(h, c))
  BY <1>1 DEF MaybeStart, NoStart, Channels
<1>4. Outcomes(queue', ch'.epoch) = {} /\ Outcomes(deferred', ch'.epoch) = {}
  BY <1>0, <1>1, <1>2, <1>3, NoOutcomes
<1>5. ASSUME NEW i \in 1..Len(attempts'), attempts'[i].epoch = ch'.epoch
      PROVE  ch'.started
  BY <1>0, <1>1, <1>2, <1>3, <1>5 DEF Attempts
<1>6. ASSUME ch'.started
      PROVE  /\ SessionKey(h) \in Keys
             /\ \E i \in 1..Len(attempts') :
                   attempts'[i].epoch = ch'.epoch /\ attempts'[i].pc # "done"
  <2>1. CanStart(h, c) /\ attempts' = Append(attempts, NewAttempt(h, c))
    BY <1>3, <1>6
  <2>2. SessionKey(h) \in Keys
    BY <2>1, SessionKeyType DEF CanStart
  <2>3. NewAttempt(h, c) \in Attempts
    BY <1>1, <2>2 DEF NewAttempt, Attempts, Channels
  <2>4. Len(attempts') = Len(attempts) + 1 /\ attempts'[Len(attempts) + 1] = NewAttempt(h, c)
    BY <1>0, <2>1, <2>3, AppendProperties
  <2>5. Len(attempts) + 1 \in 1..Len(attempts')
    BY <1>0, <2>4
  <2>. QED
    BY <1>3, <2>2, <2>4, <2>5 DEF NewAttempt
<1>7. OutcomeInv'
  <2>1. ~ch'.verified /\ ch'.pending = ch'.started /\ ch'.socket = NoSocket
    BY <1>3
  <2>. QED
    BY <1>4, <1>5, <1>6, <2>1 DEF OutcomeInv, Live, VerifiedHasReader
<1>8. Simulated
  <2>1. Phase' = IF ch'.started THEN "pending" ELSE "idle"
    BY <1>3 DEF Phase
  <2>2. CASE reset
    <3>1. c.epoch = ch.epoch + 1 /\ c.key = None
      BY <2>2 DEF ChAfter, NextAttempt
    <3>2. CASE ch'.started
      <4>1. AbstractChannel!Restart(SessionKey(hs'))
        BY <1>3, <2>1, <3>1, <3>2 DEF AbstractChannel!Restart
      <4>. QED
        BY <1>3, <1>6, <3>2, <4>1 DEF Simulated, AbstractChannel!Next
    <3>3. CASE ~ch'.started
      <4>1. AbstractChannel!Reset
        BY <1>3, <2>1, <3>1, <3>3 DEF AbstractChannel!Reset
      <4>. QED
        BY <4>1 DEF Simulated, AbstractChannel!Next
    <3>. QED
      BY <3>2, <3>3
  <2>3. CASE ~reset
    <3>1. c = ch /\ ~ch.started
      BY <1>1, <2>3 DEF ChAfter
    <3>2. Phase = "idle"
      BY <3>1 DEF Phase
    <3>3. CASE ch'.started
      <4>1. AbstractChannel!Start(SessionKey(hs'))
        BY <1>3, <2>1, <3>1, <3>2, <3>3 DEF AbstractChannel!Start
      <4>. QED
        BY <1>3, <1>6, <3>3, <4>1 DEF Simulated, AbstractChannel!Next
    <3>4. CASE ~ch'.started
      BY <1>3, <2>1, <3>1, <3>2, <3>4 DEF Simulated, AbstractChannel!vars
    <3>. QED
      BY <3>3, <3>4
  <2>. QED
    BY <2>2, <2>3
<1>. QED
  BY <1>7, <1>8

-----------------------------------------------------------------------------
(***************************************************************************)
(* The other steps.                                                        *)
(***************************************************************************)

(* A step that leaves the channel, its attempts and its events alone.      *)
LEMMA SameOutcome ==
    ASSUME OutcomeInv, UNCHANGED <<hs, ch, attempts, queue, deferred>>,
           \/ UNCHANGED receivers
           \/ \E r \in receivers : r.epoch # ch.epoch /\ receivers' = receivers \ {r}
    PROVE  OutcomeInv' /\ Simulated
<1>1. Simulated
  BY SameChannel
<1>2. VerifiedHasReader'
  BY DEF OutcomeInv, VerifiedHasReader
<1>. QED
  BY <1>1, <1>2 DEF OutcomeInv, Live

(* What every step of attempt i does to the attempts.                      *)
LEMMA AttemptMoves ==
    ASSUME SessionInv, NEW i \in 1..Len(attempts), NEW a \in Attempts,
           attempts' = [attempts EXCEPT ![i] = a], a.epoch = attempts[i].epoch,
           a.pc # "done", attempts[i].pc # "done",
           OutcomeInv, UNCHANGED <<hs, ch, queue, deferred, receivers>>
    PROVE  OutcomeInv' /\ Simulated
<1>1. /\ Len(attempts') = Len(attempts) /\ attempts'[i] = a
      /\ \A j \in 1..Len(attempts) : j # i => attempts'[j] = attempts[j]
  BY GotoFacts DEF SessionInv
<1>2. \A j \in 1..Len(attempts') :
         j \in 1..Len(attempts) /\ attempts'[j].epoch = attempts[j].epoch
         /\ (attempts'[j].pc # "done" <=> attempts[j].pc # "done")
  BY <1>1
<1>3. VerifiedHasReader'
  BY DEF OutcomeInv, VerifiedHasReader
<1>4. (\E j \in 1..Len(attempts) : Live(j) /\ attempts[j].pc # "done")
         => (\E j \in 1..Len(attempts') : Live(j)' /\ attempts'[j].pc # "done")
  BY <1>1, <1>2 DEF Live
<1>5. OutcomeInv'
  BY <1>1, <1>2, <1>3, <1>4 DEF OutcomeInv, Live
<1>. QED
  BY <1>5, SameChannel

(* Attempt i ends with the event that says how.                            *)
LEMMA AttemptEnds ==
    ASSUME SessionInv, NEW i \in 1..Len(attempts), NEW a \in Attempts,
           attempts' = [attempts EXCEPT ![i] = a], a.epoch = attempts[i].epoch,
           a.pc = "done", attempts[i].pc # "done",
           NEW e \in Events, Put(e), e.epoch = attempts[i].epoch,
           e.kind \in {"connection_failed", "verification_failed", "connected"},
           OutcomeInv, UNCHANGED <<hs, ch, deferred, receivers>>
    PROVE  OutcomeInv' /\ Simulated
<1>0. TypeOK /\ queue \in Seq(Events) /\ queue' = Append(queue, e)
  BY DEF SessionInv, TypeOK, Put
<1>1. /\ Len(attempts') = Len(attempts) /\ attempts'[i] = a
      /\ \A j \in 1..Len(attempts) : j # i => attempts'[j] = attempts[j]
  BY <1>0, GotoFacts
<1>2. \A j \in 1..Len(attempts') :
         Live(j)' /\ attempts'[j].pc # "done" =>
             j # i /\ j \in 1..Len(attempts) /\ Live(j) /\ attempts[j].pc # "done"
  BY <1>1 DEF Live
<1>3. VerifiedHasReader'
  <2>1. Waiting(queue) \subseteq Waiting(queue')
    BY <1>0, WaitingAppend
  <2>. QED
    BY <2>1 DEF OutcomeInv, VerifiedHasReader
<1>4. CASE Live(i)
  <2>1. /\ ch.pending /\ Outcomes(queue, ch.epoch) = {} /\ Outcomes(deferred, ch.epoch) = {}
    BY <1>4 DEF OutcomeInv
  <2>e. e.epoch = ch.epoch
    BY <1>4 DEF Live
  <2>2. Outcomes(queue', ch'.epoch) = {Len(queue) + 1}
    <3>1. Outcomes(Append(queue, e), ch.epoch) = Outcomes(queue, ch.epoch) \cup {Len(queue) + 1}
      BY <1>0, <2>e, OutcomesAppend
    <3>. QED
      BY <1>0, <2>1, <3>1
  <2>3. \A j \in 1..Len(attempts') : ~(Live(j)' /\ attempts'[j].pc # "done")
    BY <1>2, <1>4 DEF SessionInv, AttemptsInv, Live
  <2>4. ch.socket = NoSocket /\ ~ch.verified
    BY <2>1 DEF OutcomeInv
  <2>. QED
    BY <1>3, <2>1, <2>2, <2>3, <2>4, SameChannel DEF OutcomeInv
<1>5. CASE ~Live(i)
  <2>1. Outcomes(queue', ch'.epoch) = Outcomes(queue, ch.epoch)
    BY <1>0, <1>5, OutcomesAppend DEF Live
  <2>2. (\E j \in 1..Len(attempts) : Live(j) /\ attempts[j].pc # "done")
           => (\E j \in 1..Len(attempts') : Live(j)' /\ attempts'[j].pc # "done")
    BY <1>1, <1>5 DEF Live
  <2>3. OutcomeInv'
    BY <1>2, <1>3, <2>1, <2>2 DEF OutcomeInv
  <2>. QED
    BY <2>3, SameChannel
<1>. QED
  BY <1>4, <1>5

(* A thread of an attempt.                                                 *)
LEMMA EstablishWorkerOutcome ==
    ASSUME SessionInv, OutcomeInv, NEW i \in 1..Len(attempts), EstablishWorker(i)
    PROVE  OutcomeInv' /\ Simulated
<1>0. attempts[i] \in Attempts /\ hs \in Handshakes
  BY ElementOfSeq DEF SessionInv, TypeOK
<1>1. CASE ReadAddress(i)
  <2>. DEFINE a == [attempts[i] EXCEPT !.pc = "connecting", !.addr = hs.peer_addr]
  <2>1. /\ a \in Attempts /\ a.epoch = attempts[i].epoch /\ a.pc # "done"
        /\ attempts[i].pc # "done"
        /\ attempts' = [attempts EXCEPT ![i] = a]
        /\ UNCHANGED <<hs, ch, queue, deferred, receivers>>
    BY <1>0, <1>1 DEF ReadAddress, Attempts, Handshakes
  <2>. QED
    BY <2>1, AttemptMoves
<1>2. CASE EstablishReturns(i)
  <2>. DEFINE a == [attempts[i] EXCEPT !.pc = "verifying"]
  <2>1. /\ a \in Attempts /\ a.epoch = attempts[i].epoch /\ a.pc # "done"
        /\ attempts[i].pc # "done"
        /\ attempts' = [attempts EXCEPT ![i] = a]
        /\ UNCHANGED <<hs, ch, queue, deferred, receivers>>
    BY <1>0, <1>2 DEF EstablishReturns, Goto, Attempts
  <2>. QED
    BY <2>1, AttemptMoves
<1>. DEFINE a == [attempts[i] EXCEPT !.pc = "done"]
<1>a. a \in Attempts /\ a.epoch = attempts[i].epoch /\ a.pc = "done"
  BY <1>0 DEF Attempts
<1>3. CASE EstablishFails(i)
  <2>. DEFINE e == Event("connection_failed", attempts[i].epoch)
  <2>1. /\ attempts[i].pc # "done" /\ Put(e)
        /\ attempts' = [attempts EXCEPT ![i] = a]
        /\ UNCHANGED <<hs, ch, deferred, receivers>>
    BY <1>3 DEF EstablishFails, Goto
  <2>2. e \in Events /\ e.kind = "connection_failed" /\ e.epoch = attempts[i].epoch
    BY <1>0 DEF Event, Events, EventKinds, Attempts, NoSocket
  <2>. QED
    BY <1>a, <2>1, <2>2, AttemptEnds
<1>4. CASE VerifyReturns(i)
  <2>. DEFINE e == [kind |-> "connected", epoch |-> attempts[i].epoch, sock |-> i,
                    key |-> attempts[i].key]
  <2>1. /\ attempts[i].pc # "done" /\ Put(e)
        /\ attempts' = [attempts EXCEPT ![i] = a]
        /\ UNCHANGED <<hs, ch, deferred, receivers>>
    BY <1>4 DEF VerifyReturns, Goto
  <2>2. e \in Events /\ e.kind = "connected" /\ e.epoch = attempts[i].epoch
    BY <1>0 DEF Events, EventKinds, Attempts
  <2>. QED
    BY <1>a, <2>1, <2>2, AttemptEnds
<1>5. ASSUME NEW kind \in EventKinds, VerifyRaises(i, kind)
      PROVE  OutcomeInv' /\ Simulated
  <2>. DEFINE e == Event(kind, attempts[i].epoch)
  <2>1. /\ attempts[i].pc # "done" /\ Put(e)
        /\ kind \in {"connection_failed", "verification_failed"}
        /\ attempts' = [attempts EXCEPT ![i] = a]
        /\ UNCHANGED <<hs, ch, deferred, receivers>>
    BY <1>5 DEF VerifyRaises, Goto
  <2>2. e \in Events /\ e.kind = kind /\ e.epoch = attempts[i].epoch
    BY <1>0 DEF Event, Events, Attempts, NoSocket
  <2>. QED
    BY <1>a, <2>1, <2>2, AttemptEnds
<1>. QED
  BY <1>1, <1>2, <1>3, <1>4, <1>5 DEF EstablishWorker

(* The poll takes an event that is no outcome of the present attempt.      *)
LEMMA OtherEventTaken ==
    ASSUME SessionInv, OutcomeInv, queue # << >>, queue' = Tail(queue),
           ~(/\ Head(queue).epoch = ch.epoch
             /\ Head(queue).kind \in {"connection_failed", "verification_failed",
                                      "connected"}),
           Head(queue) = Event("receive_stopped", ch.epoch) => ~ch'.verified,
           ch'.epoch = ch.epoch, ch'.socket = ch.socket, ch'.pending = ch.pending,
           ch'.verified => ch.verified,
           UNCHANGED <<attempts, deferred, receivers>>
    PROVE  OutcomeInv'
<1>0. queue \in Seq(Events)
  BY DEF SessionInv, TypeOK
<1>1. /\ \A d, e \in Outcomes(queue', ch.epoch) : d = e
      /\ Outcomes(queue', ch.epoch) = {} <=> Outcomes(queue, ch.epoch) = {}
  BY <1>0, OutcomesTail DEF OutcomeInv
<1>2. VerifiedHasReader'
  <2>1. Waiting(queue) \subseteq Waiting(queue') \cup {Head(queue)}
    BY <1>0, WaitingHeadOrTail
  <2>. QED
    BY <2>1 DEF OutcomeInv, VerifiedHasReader
<1>. QED
  BY <1>1, <1>2 DEF OutcomeInv, Live

(* The poll takes the outcome of the present attempt: there is no other,   *)
(* and the thread has ended.                                               *)
LEMMA OutcomeTaken ==
    ASSUME SessionInv, OutcomeInv, queue # << >>, queue' = Tail(queue),
           Head(queue).epoch = ch.epoch,
           Head(queue).kind \in {"connection_failed", "verification_failed", "connected"}
    PROVE  /\ ch.pending /\ ch.started /\ ch.socket = NoSocket /\ ~ch.verified
           /\ Phase = "pending"
           /\ Outcomes(queue', ch.epoch) = {} /\ Outcomes(deferred, ch.epoch) = {}
           /\ \A i \in 1..Len(attempts) : Live(i) => attempts[i].pc = "done"
<1>0. queue \in Seq(Events)
  BY DEF SessionInv, TypeOK
<1>1. 1 \in Outcomes(queue, ch.epoch) /\ Outcomes(queue', ch.epoch) = {}
  BY <1>0, OutcomesTail DEF OutcomeInv
<1>2. /\ ch.pending /\ ch.socket = NoSocket /\ ~ch.verified
      /\ Outcomes(deferred, ch.epoch) = {}
      /\ \A i \in 1..Len(attempts) : Live(i) => attempts[i].pc = "done"
  BY <1>1 DEF OutcomeInv
<1>3. ch.started
  BY TakenEvent DEF EventOK
<1>. QED
  BY <1>1, <1>2, <1>3 DEF Phase

(* The poll.                                                               *)
LEMMA PollOutcome ==
    ASSUME SessionInv, OutcomeInv, Poll
    PROVE  OutcomeInv' /\ Simulated
<1>0. /\ ch \in Channels /\ queue \in Seq(Events) /\ deferred \in Seq(Events)
  BY DEF SessionInv, TypeOK
<1>1. CASE HandleStaleEvent
  <2>1. /\ queue # << >> /\ queue' = Tail(queue) /\ Head(queue).epoch # ch.epoch
        /\ UNCHANGED <<hs, ch, attempts, deferred, receivers>>
    BY <1>1 DEF HandleStaleEvent
  <2>2. Head(queue) # Event("receive_stopped", ch.epoch)
    BY <2>1 DEF Event
  <2>. QED
    BY <2>1, <2>2, OtherEventTaken, SameChannel
<1>2. CASE HandleConnectionFailed \/ HandleVerificationFailed
  <2>1. /\ queue # << >> /\ queue' = Tail(queue) /\ Head(queue).epoch = ch.epoch
        /\ Head(queue).kind \in {"connection_failed", "verification_failed"}
        /\ ch' = [ch EXCEPT !.pending = FALSE]
        /\ UNCHANGED <<hs, attempts, deferred, receivers>>
    BY <1>2 DEF HandleConnectionFailed, HandleVerificationFailed, Take
  <2>2. /\ ch.started /\ ch.socket = NoSocket /\ ~ch.verified
        /\ Phase = "pending"
        /\ Outcomes(queue', ch.epoch) = {} /\ Outcomes(deferred, ch.epoch) = {}
        /\ \A i \in 1..Len(attempts) : Live(i) => attempts[i].pc = "done"
    BY <2>1, OutcomeTaken
  <2>3. /\ ch'.epoch = ch.epoch /\ ch'.socket = NoSocket /\ ch'.key = ch.key
        /\ ch'.started /\ ~ch'.pending /\ ~ch'.verified
    BY <1>0, <2>1, <2>2 DEF Channels
  <2>4. OutcomeInv'
    BY <2>1, <2>2, <2>3 DEF OutcomeInv, VerifiedHasReader, Live
  <2>5. Phase' = "failed"
    BY <2>3 DEF Phase
  <2>6. AbstractChannel!Fail
    BY <2>1, <2>2, <2>3, <2>5 DEF AbstractChannel!Fail, SessionKey
  <2>. QED
    BY <2>4, <2>6 DEF Simulated, AbstractChannel!Next
<1>3. CASE DeferVerificationFailed
  <2>1. /\ queue # << >> /\ queue' = Tail(queue) /\ Head(queue).epoch = ch.epoch
        /\ Head(queue).kind = "verification_failed"
        /\ deferred' = Append(deferred, Head(queue))
        /\ UNCHANGED <<hs, ch, attempts, receivers>>
    BY <1>3 DEF DeferVerificationFailed, Take
  <2>2. /\ ch.pending /\ ch.socket = NoSocket /\ ~ch.verified
        /\ Outcomes(queue', ch.epoch) = {} /\ Outcomes(deferred, ch.epoch) = {}
        /\ \A i \in 1..Len(attempts) : Live(i) => attempts[i].pc = "done"
    BY <2>1, OutcomeTaken
  <2>3. Head(queue) \in Events
    BY <2>1, TakenEvent
  <2>4. Outcomes(deferred', ch.epoch) = {Len(deferred) + 1}
    <3>1. Outcomes(Append(deferred, Head(queue)), ch.epoch)
             = Outcomes(deferred, ch.epoch) \cup {Len(deferred) + 1}
      BY <1>0, <2>1, <2>3, OutcomesAppend
    <3>. QED
      BY <2>1, <2>2, <3>1
  <2>5. OutcomeInv'
    BY <2>1, <2>2, <2>4 DEF OutcomeInv, VerifiedHasReader, Live
  <2>. QED
    BY <2>1, <2>5, SameChannel
<1>4. CASE HandleConnected
  <2>. DEFINE e == Head(queue)
  <2>1. /\ queue # << >> /\ queue' = Tail(queue)
        /\ e.epoch = ch.epoch /\ e.kind = "connected"
        /\ ch' = [ch EXCEPT !.pending = FALSE, !.socket = e.sock,
                            !.key = e.key, !.verified = TRUE]
        /\ receivers' = receivers \cup {[sock |-> e.sock, epoch |-> e.epoch]}
        /\ UNCHANGED <<hs, attempts, deferred>>
    BY <1>4 DEF HandleConnected, Take
  <2>2. /\ ch.started /\ Phase = "pending"
        /\ Outcomes(queue', ch.epoch) = {} /\ Outcomes(deferred, ch.epoch) = {}
        /\ \A i \in 1..Len(attempts) : Live(i) => attempts[i].pc = "done"
    BY <2>1, OutcomeTaken
  <2>3. /\ ch'.epoch = ch.epoch /\ ch'.socket = e.sock /\ ch'.key = e.key
        /\ ch'.started /\ ~ch'.pending /\ ch'.verified
    BY <1>0, <2>1, <2>2 DEF Channels
  <2>4. /\ e.sock \in 1..Len(attempts) /\ attempts[e.sock].epoch = ch.epoch
        /\ attempts[e.sock].key = e.key
    BY <2>1, TakenEvent DEF EventOK
  <2>5. e.sock # NoSocket /\ e.key = SessionKey(hs)
    BY <2>4 DEF NoSocket, SessionInv, AttemptsInv, AttemptOK
  <2>6. VerifiedHasReader'
    BY <2>1, <2>3 DEF VerifiedHasReader
  <2>7. OutcomeInv'
    BY <2>1, <2>2, <2>3, <2>5, <2>6 DEF OutcomeInv, Live
  <2>8. Phase' = "open"
    BY <2>3 DEF Phase
  <2>9. AbstractChannel!Open
    BY <2>1, <2>2, <2>3, <2>5, <2>8 DEF AbstractChannel!Open, SessionKey
  <2>. QED
    BY <2>7, <2>9 DEF Simulated, AbstractChannel!Next
<1>5. CASE HandleReceiveStopped
  <2>1. /\ queue # << >> /\ queue' = Tail(queue)
        /\ Head(queue).kind = "receive_stopped"
        /\ ch' = [ch EXCEPT !.verified = FALSE]
        /\ UNCHANGED <<hs, attempts, deferred, receivers>>
    BY <1>5 DEF HandleReceiveStopped, Take
  <2>2. /\ ch'.epoch = ch.epoch /\ ch'.socket = ch.socket /\ ch'.key = ch.key
        /\ ch'.started = ch.started /\ ch'.pending = ch.pending /\ ~ch'.verified
    BY <1>0, <2>1 DEF Channels
  <2>3. OutcomeInv'
    BY <2>1, <2>2, OtherEventTaken
  <2>4. CASE ch.verified
    <3>1. ch.socket # NoSocket /\ ~ch.pending
      BY <2>4 DEF OutcomeInv
    <3>2. ch.started
      BY <3>1 DEF SessionInv, ChannelInv
    <3>3. Phase = "open" /\ Phase' = "lost"
      BY <2>2, <2>4, <3>1, <3>2 DEF Phase
    <3>4. AbstractChannel!Lose
      BY <2>1, <2>2, <3>3 DEF AbstractChannel!Lose, SessionKey
    <3>. QED
      BY <2>3, <3>4 DEF Simulated, AbstractChannel!Next
  <2>5. CASE ~ch.verified
    <3>1. Phase' = Phase
      BY <2>2, <2>5 DEF Phase
    <3>. QED
      BY <2>1, <2>2, <2>3, <3>1 DEF Simulated, AbstractChannel!vars, SessionKey
  <2>. QED
    BY <2>4, <2>5
<1>6. CASE HandleSendFinished
  <2>1. /\ queue # << >> /\ queue' = Tail(queue)
        /\ Head(queue).kind = "send_finished"
        /\ UNCHANGED <<hs, ch, attempts, deferred, receivers>>
    BY <1>6 DEF HandleSendFinished, Take
  <2>2. Head(queue) # Event("receive_stopped", ch.epoch)
    BY <2>1 DEF Event
  <2>. QED
    BY <2>1, <2>2, OtherEventTaken, SameChannel
<1>7. CASE EndOfPoll
  <2>1. /\ queue = << >> /\ queue' = deferred /\ deferred' = << >>
        /\ UNCHANGED <<hs, ch, attempts, receivers>>
    BY <1>7 DEF EndOfPoll
  <2>2. /\ Outcomes(queue, ch.epoch) = {} /\ Outcomes(deferred', ch.epoch) = {}
        /\ Waiting(queue) = {}
    BY <2>1, EmptySeq DEF Outcomes, Waiting
  <2>3. VerifiedHasReader'
    BY <2>1, <2>2 DEF OutcomeInv, VerifiedHasReader
  <2>4. OutcomeInv'
    BY <2>1, <2>2, <2>3 DEF OutcomeInv, Live
  <2>. QED
    BY <2>1, <2>4, SameChannel
<1>. QED
  BY <1>1, <1>2, <1>3, <1>4, <1>5, <1>6, <1>7 DEF Poll

(* A worker posts its last event: no outcome, but the reader of the        *)
(* channel leaves only with the event that says so.                        *)
LEMMA LastEventOutcome ==
    ASSUME SessionInv, OutcomeInv, NEW kind \in {"receive_stopped", "send_finished"},
           NEW w \in senders \cup receivers, Put(Event(kind, w.epoch)),
           \/ UNCHANGED receivers
           \/ receivers' = receivers \ {w} /\ kind = "receive_stopped",
           UNCHANGED <<hs, ch, attempts, deferred>>
    PROVE  OutcomeInv' /\ Simulated
<1>. DEFINE e == Event(kind, w.epoch)
<1>1. queue \in Seq(Events) /\ w.epoch \in Nat /\ queue' = Append(queue, e)
  BY DEF SessionInv, TypeOK, Senders, Receivers, Put
<1>2. e \in Events /\ e.kind = kind
  BY <1>1 DEF Event, Events, EventKinds, NoSocket
<1>3. Outcomes(queue', ch.epoch) = Outcomes(queue, ch.epoch)
  BY <1>1, <1>2, OutcomesAppend
<1>4. Waiting(queue') = Waiting(queue) \cup {e}
  BY <1>1, <1>2, WaitingAppend
<1>5. VerifiedHasReader'
  BY <1>4 DEF OutcomeInv, VerifiedHasReader
<1>6. OutcomeInv'
  BY <1>3, <1>5 DEF OutcomeInv, Live
<1>. QED
  BY <1>6, SameChannel

(* A change of the session by a user's step, whose handshake is the new    *)
(* one.                                                                    *)
LEMMA UserStepOutcome ==
    ASSUME SessionInv, NEW reset \in BOOLEAN, ~reset => ~SessionActive(hs, ch),
           ResetEffects(reset), hs' \in Handshakes,
           \E h : MaybeStart(h, ChAfter(reset)) \/ NoStart(h, ChAfter(reset)),
           UNCHANGED <<queue, deferred, receivers, senders>>
    PROVE  OutcomeInv' /\ Simulated
<1>1. PICK h : MaybeStart(h, ChAfter(reset)) \/ NoStart(h, ChAfter(reset))
  OBVIOUS
<1>2. hs' = h
  BY <1>1 DEF MaybeStart, NoStart
<1>3. h \in Handshakes
  BY <1>2
<1>. QED
  BY <1>1, <1>3, SessionStepOutcome

(* Both buttons end in MaybeStart or NoStart.                              *)
LEMMA PerformStarts ==
    ASSUME NEW next, NEW h0, NEW c, Perform(next, h0, c)
    PROVE  \E h : MaybeStart(h, c) \/ NoStart(h, c)
BY DEF Perform, GenerateHandshake, ProcessIncoming

(* So does a click whose phrase has first to be asked for.                 *)
LEMMA PerformOrPromptStarts ==
    ASSUME NEW next, NEW h0, NEW c, NEW rest, PerformOrPrompt(next, h0, c, rest)
    PROVE  \E h : MaybeStart(h, c) \/ NoStart(h, c)
BY PerformStarts DEF PerformOrPrompt

(* A click on either button keeps the invariant and is a step of Channel.  *)
LEMMA ClickOutcome ==
    ASSUME SessionInv, OutcomeInv, hs' \in Handshakes, NEW next, Click(next)
    PROVE  OutcomeInv' /\ Simulated
<1>1. CASE SessionActive(hs, ch)
  BY <1>1, SameOutcome DEF Click
<1>2. CASE ~SessionActive(hs, ch)
  <2>1. /\ PerformOrPrompt(next, hs, ChAfter(FALSE), dialogs)
        /\ ResetEffects(FALSE)
        /\ UNCHANGED <<queue, deferred, receivers, senders>>
    BY <1>2 DEF Click, ChAfter
  <2>. QED
    BY <1>2, <2>1, PerformOrPromptStarts, UserStepOutcome
<1>. QED
  BY <1>1, <1>2

(* So is an edit of the form, which resets an active session.              *)
LEMMA EditFormOutcome ==
    ASSUME SessionInv, OutcomeInv, hs' \in Handshakes, NEW f, EditForm(f)
    PROVE  OutcomeInv' /\ Simulated
<1>. DEFINE reset == SessionActive(hs, ch)
<1>1. reset \in BOOLEAN
  BY SessionActiveType DEF SessionInv, TypeOK
<1>2. /\ NoStart(HsAfter(reset), ChAfter(reset)) /\ ResetEffects(reset)
      /\ UNCHANGED <<queue, deferred, receivers, senders>>
  BY DEF EditForm
<1>. QED
  BY <1>1, <1>2, UserStepOutcome

(* So is the answer to a window, of whichever kind it is.                  *)
LEMMA AnswerOutcome ==
    ASSUME SessionInv, OutcomeInv, hs' \in Handshakes, Answer
    PROVE  OutcomeInv' /\ Simulated
<1>1. CASE ConfirmYes
  <2>1. /\ PerformOrPrompt(Top.next, NoHandshake, ChAfter(TRUE), Tail(dialogs))
        /\ ResetEffects(TRUE)
        /\ UNCHANGED <<queue, deferred, receivers, senders>>
    BY <1>1 DEF ConfirmYes, ChAfter
  <2>. QED
    BY <2>1, PerformOrPromptStarts, UserStepOutcome
<1>2. CASE Dismiss
  BY <1>2, SameOutcome DEF Dismiss
<1>3. ASSUME NEW phrase \in Phrases, PromptOk(phrase) PROVE OutcomeInv' /\ Simulated
  <2>. DEFINE reset == SessionActive(hs, ch)
  <2>1. reset \in BOOLEAN
    BY SessionActiveType DEF SessionInv, TypeOK
  <2>2. /\ Perform(Top.next, HsAfter(reset), ChAfter(reset)) /\ ResetEffects(reset)
        /\ UNCHANGED <<queue, deferred, receivers, senders>>
    BY <1>3 DEF PromptOk
  <2>. QED
    BY <2>1, <2>2, PerformStarts, UserStepOutcome
<1>4. ASSUME NEW phrase \in Phrases \cup {None}, AnswerMismatch(phrase)
      PROVE  OutcomeInv' /\ Simulated
  <2>1. UNCHANGED <<queue, deferred, receivers, senders>>
    BY <1>4 DEF AnswerMismatch
  <2>2. CASE Top.epoch # ch.epoch \/ GivesUp(phrase)
    <3>1. UNCHANGED <<hs, ch, attempts>>
      BY <1>4, <2>2 DEF AnswerMismatch, NoStart
    <3>. QED
      BY <2>1, <3>1, SameOutcome
  <2>3. CASE ~(Top.epoch # ch.epoch \/ GivesUp(phrase))
    <3>1. RetryAfterMismatch(phrase)
      BY <1>4, <2>3 DEF AnswerMismatch
    <3>2. ResetEffects(TRUE)
      BY <3>1 DEF RetryAfterMismatch
    <3>3. \E h : MaybeStart(h, ChAfter(TRUE)) \/ NoStart(h, ChAfter(TRUE))
      BY <3>1 DEF RetryAfterMismatch, ProcessIncoming, ChAfter
    <3>. QED
      BY <2>1, <3>2, <3>3, UserStepOutcome
  <2>. QED
    BY <2>2, <2>3
<1>. QED
  BY <1>1, <1>2, <1>3, <1>4 DEF Answer

-----------------------------------------------------------------------------
(***************************************************************************)
(* The theorems about the outcome.                                         *)
(***************************************************************************)

(* At the start there is no attempt, no event and no channel.              *)
LEMMA InitOutcome == Init => OutcomeInv /\ AbstractChannel!Init
<1>. SUFFICES ASSUME Init PROVE OutcomeInv /\ AbstractChannel!Init
  OBVIOUS
<1>1. /\ attempts = << >> /\ queue = << >> /\ deferred = << >>
      /\ ch.epoch = 0 /\ ~ch.pending /\ ~ch.verified /\ ~ch.started /\ ch.key = None
  BY DEF Init
<1>2. Outcomes(queue, ch.epoch) = {} /\ Outcomes(deferred, ch.epoch) = {}
  BY <1>1, EmptySeq DEF Outcomes
<1>3. OutcomeInv
  BY <1>1, <1>2, EmptySeq DEF OutcomeInv, VerifiedHasReader
<1>4. AbstractChannel!Init
  BY <1>1 DEF AbstractChannel!Init, Phase
<1>. QED
  BY <1>3, <1>4

(* Every step keeps the invariant and is a step of Channel or a stutter.   *)
LEMMA StepOutcome ==
    SessionInv /\ OutcomeInv /\ [Next]_vars => OutcomeInv' /\ Simulated
<1>. SUFFICES ASSUME SessionInv, OutcomeInv, [Next]_vars
              PROVE  OutcomeInv' /\ Simulated
  OBVIOUS
<1>0. hs' \in Handshakes
  BY StepInv DEF SessionInv, TypeOK
<1>1. CASE on_generate_handshake
  BY <1>0, <1>1, ClickOutcome DEF on_generate_handshake
<1>2. CASE on_paste_handshake
  BY <1>0, <1>2, ClickOutcome DEF on_paste_handshake
<1>3. ASSUME NEW f \in Forms, EditForm(f) PROVE OutcomeInv' /\ Simulated
  BY <1>0, <1>3, EditFormOutcome
<1>4. CASE Answer
  BY <1>0, <1>4, AnswerOutcome
<1>5. CASE on_choose_file \/ _select_send_dir
  BY <1>5, SameOutcome DEF on_choose_file, _select_send_dir, Select
<1>6. ASSUME NEW encrypt \in BOOLEAN, on_initiate_transfer(encrypt)
      PROVE  OutcomeInv' /\ Simulated
  BY <1>6, SameOutcome DEF on_initiate_transfer
<1>7. CASE on_send_files
  BY <1>7, SameOutcome DEF on_send_files
<1>8. CASE Poll
  BY <1>8, PollOutcome
<1>9. ASSUME NEW i \in 1..Len(attempts), EstablishWorker(i)
      PROVE  OutcomeInv' /\ Simulated
  BY <1>9, EstablishWorkerOutcome
<1>10. ASSUME NEW r \in receivers, ReceiveWorker(r) PROVE OutcomeInv' /\ Simulated
  <2>1. CASE ReceiverLeaves(r)
    BY <2>1, SameOutcome DEF ReceiverLeaves
  <2>2. CASE ReceiverStops(r)
    BY <2>2, LastEventOutcome DEF ReceiverStops
  <2>. QED
    BY <1>10, <2>1, <2>2 DEF ReceiveWorker
<1>11. ASSUME NEW s \in senders, SendWorker(s) PROVE OutcomeInv' /\ Simulated
  BY <1>11, LastEventOutcome DEF SendWorker
<1>12. CASE UNCHANGED vars
  BY <1>12, SameOutcome DEF vars
<1>. QED
  BY <1>1, <1>2, <1>3, <1>4, <1>5, <1>6, <1>7, <1>8, <1>9, <1>10, <1>11, <1>12
  DEF Next

(* The second half of the inductive invariant, over the first.             *)
THEOREM OutcomeInvariant == Spec => []OutcomeInv
<1>1. Init => OutcomeInv
  BY InitOutcome
<1>2. SessionInv /\ OutcomeInv /\ [Next]_vars => OutcomeInv'
  BY StepOutcome
<1>. QED
  BY <1>1, <1>2, SessionInvariant, PTL DEF Spec

(* No outcome of an attempt is lost: while the channel is pending the      *)
(* thread runs, or its event waits in the queue or among the deferred ones *)
(* (appearance.py, _poll_channel_events and _handle_channel_event).        *)
THEOREM PendingAlwaysHasOutcome == Spec => []PendingHasOutcome
<1>1. OutcomeInv => PendingHasOutcome
  <2>. SUFFICES ASSUME OutcomeInv, ch.pending,
                       ~ \E i \in 1..Len(attempts) : Live(i) /\ attempts[i].pc # "done"
                PROVE  \E e \in Waiting(queue) \cup Waiting(deferred) :
                         /\ e.epoch = ch.epoch
                         /\ e.kind \in {"connection_failed", "verification_failed",
                                        "connected"}
    BY DEF PendingHasOutcome
  <2>1. PICK q \in {queue, deferred} : Outcomes(q, ch.epoch) # {}
    BY DEF OutcomeInv
  <2>2. PICK d \in Outcomes(q, ch.epoch) : TRUE
    BY <2>1
  <2>3. /\ q[d] \in Waiting(q) /\ q[d].epoch = ch.epoch
        /\ q[d].kind \in {"connection_failed", "verification_failed", "connected"}
    BY <2>2 DEF Outcomes, Waiting
  <2>. QED
    BY <2>1, <2>3
<1>. QED
  BY <1>1, OutcomeInvariant, PTL

(* A channel shown as verified is being read, or the event that takes it   *)
(* back is in the queue (appearance.py, _receive_worker).                  *)
THEOREM VerifiedAlwaysHasReader == Spec => []VerifiedHasReader
<1>1. OutcomeInv => VerifiedHasReader
  BY DEF OutcomeInv
<1>. QED
  BY <1>1, OutcomeInvariant, PTL

(* The session implements Channel: one attempt per generation, opened with *)
(* the key it was started with, never opened again once it failed or was   *)
(* lost (appearance.py, from _maybe_start_channel_establishment to         *)
(* _handle_channel_event).                                                 *)
THEOREM SessionImplementsChannel == Spec => AbstractChannel!Spec
<1>1. Init => AbstractChannel!Init
  BY InitOutcome
<1>2. SessionInv /\ OutcomeInv /\ [Next]_vars
         => [AbstractChannel!Next]_(AbstractChannel!vars)
  BY StepOutcome DEF Simulated
<1>. QED
  BY <1>1, <1>2, SessionInvariant, OutcomeInvariant, PTL DEF Spec, AbstractChannel!Spec

=============================================================================
