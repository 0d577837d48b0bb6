------------------------------- MODULE Peers -------------------------------
(***************************************************************************)
(* Two applications and the two people who use them.  "mine" generates a   *)
(* handshake and listens; "peer" pastes it, which the two send each other  *)
(* outside the program, and connects.  Session, Establish and Verify look  *)
(* at one application, one call and one connection; here their results are *)
(* put together over several attempts: a mismatch opens a window on both   *)
(* sides, each retries or not on its own, and what an attempt of before    *)
(* has left, a listener, a connection, a thread that still connects, meets *)
(* the next one (src/src/appearance.py, src/src/transport.py).             *)
(*                                                                         *)
(* Events are handled in the order of the two queues; a handler is one     *)
(* step.  A call of establish_connection is cut where its socket is made   *)
(* and where it is given back, one of verify_channel gives its verdict.    *)
(***************************************************************************)
EXTENDS Naturals, FiniteSets

CONSTANTS
    Phrases,      \* what the users type
    Agreed,       \* the phrase they have agreed on
    MaxTrouble    \* bound: how often something goes wrong (see Usual)

ASSUME PeersAssumption == Agreed \in Phrases /\ MaxTrouble \in Nat

Packets == 1..6
None == 0

VARIABLES
    phrase,       \* the field of each side
    packet,       \* the handshake of each side's session
    sent,         \* the handshake last sent to the peer's user
    ui,           \* what each user sees of the channel
    attempt,      \* attempt[s][i]: two threads of a side, the present one and
                  \* the one before it
    now,          \* which of the two is the present one
    trouble       \* how much may still go wrong

session_vars == <<phrase, packet, sent>>
vars == <<session_vars, ui, attempt, now, trouble>>

Sides == {"mine", "peer"}
Ids == {1, 2}

Other(s) == IF s = "mine" THEN "peer" ELSE "mine"
Spare(s) == 3 - now[s]

Keys == Phrases \X Packets
NoKey == <<Agreed, None>>

(* Where a thread is: it binds or connects, has a socket, verifies, and    *)
(* has posted its event; then "done", after a verdict, or "quit".          *)
Running == {"bind", "establish", "won", "verify"}
Posted == {"verified", "mismatch", "failed"}

(* open: its socket is not closed; mate: the attempt it is connected with. *)
Attempts == [pc : Running \cup Posted \cup {"done", "quit"}, key : Keys \cup {NoKey},
             open : BOOLEAN, mate : Ids \cup {None}]

NoAttempt == [pc |-> "quit", key |-> NoKey, open |-> FALSE, mate |-> None]

(* With the types: a side waits exactly as long as its present attempt is  *)
(* under way, and an open channel has the socket of that attempt.          *)
TypeOK ==
    /\ phrase \in [Sides -> Phrases]
    /\ packet \in [Sides -> Packets \cup {None}]
    /\ sent \in Packets \cup {None}
    /\ ui \in [Sides -> {"none", "pending", "dialog", "open", "failed", "lost"}]
    /\ attempt \in [Sides -> [Ids -> Attempts]]
    /\ now \in [Sides -> Ids]
    /\ trouble \in 0..MaxTrouble
    /\ \A s \in Sides :
         LET present == attempt[s][now[s]] IN
         /\ ui[s] = "pending" <=> present.pc \in Running \cup Posted
         /\ ui[s] = "open" => present.open

(* A step that is not the usual one takes from the bound: a wrong phrase,  *)
(* a cancelled window, a session given up without need, a timeout, or      *)
(* a thread that has been told to stop and is late to notice.              *)
Usual(condition) ==
    \/ condition /\ UNCHANGED trouble
    \/ ~condition /\ trouble > 0 /\ trouble' = trouble - 1

(***************************************************************************)
(* The threads.                                                            *)
(***************************************************************************)
Stopped(s, i) == i # now[s]

Become(s, i, record) == attempt' = [attempt EXCEPT ![s][i] = record]

ThreadOnly == UNCHANGED <<session_vars, ui, now>>

(* The listener holds its port until a connection is accepted, or the      *)
(* thread notices that it is to stop; "mine" cannot do without it.         *)
Bind(i) ==
    LET a == attempt["mine"][i] IN
    /\ a.pc = "bind"
    /\ Become("mine", i, [a EXCEPT !.pc = IF attempt["mine"][3 - i].pc = "establish"
                                          THEN "failed" ELSE "establish"])
    /\ UNCHANGED trouble
    /\ ThreadOnly

(* connect() succeeds as soon as somebody listens; it is retried until     *)
(* then, by a stopped thread once at most.                                 *)
Connect(i) ==
    /\ attempt["peer"][i].pc = "establish"
    /\ \E j \in Ids :
         /\ attempt["mine"][j].pc = "establish"
         /\ Become("peer", i, [attempt["peer"][i] EXCEPT !.pc = "won", !.open = TRUE, !.mate = j])
    /\ Usual(~Stopped("peer", i))
    /\ ThreadOnly

(* What the listener accepts may have been closed since.  Its other        *)
(* connections are reset, for now it is closed.                            *)
Accept(i) ==
    /\ attempt["mine"][i].pc = "establish"
    /\ \E j \in Ids :
         /\ attempt["peer"][j].mate = i
         /\ Become("mine", i, [attempt["mine"][i] EXCEPT !.pc = "won", !.open = TRUE, !.mate = j])
    /\ Usual(~Stopped("mine", i))
    /\ ThreadOnly

(* establish_connection ends without a socket: stopped, or timed out.      *)
GivesUp(s, i) ==
    /\ attempt[s][i].pc = "establish"
    /\ Become(s, i, [attempt[s][i] EXCEPT !.pc = IF Stopped(s, i) THEN "quit" ELSE "failed"])
    /\ Usual(Stopped(s, i))
    /\ ThreadOnly

(* It returns its socket, or closes it when the attempt has been stopped.  *)
Returns(s, i) ==
    /\ attempt[s][i].pc = "won"
    /\ Become(s, i, IF Stopped(s, i)
                    THEN [attempt[s][i] EXCEPT !.pc = "quit", !.open = FALSE]
                    ELSE [attempt[s][i] EXCEPT !.pc = "verify"])
    /\ UNCHANGED trouble
    /\ ThreadOnly

(* The attempt at the other end; none when the connection was reset.       *)
Mate(s, i) == {j \in Ids : attempt[s][i].mate = j /\ attempt[Other(s)][j].mate = i}

InBacklog(s, i) ==
    /\ s = "peer"
    /\ \E j \in Ids : attempt[s][i].mate = j /\ attempt["mine"][j].pc = "establish"

(* verify_channel gives the verdict when the other end verifies too, or    *)
(* did; it fails when that end is closed without, or by a timeout.         *)
Verdict(s, i) ==
    \E j \in Mate(s, i) :
        LET a == attempt[s][i]
            b == attempt[Other(s)][j] IN
        /\ a.pc = "verify"
        /\ b.pc \in {"verify", "verified", "mismatch", "done"}
        /\ Become(s, i, IF a.key = b.key
                        THEN [a EXCEPT !.pc = "verified"]
                        ELSE [a EXCEPT !.pc = "mismatch", !.open = FALSE])
        /\ UNCHANGED trouble
        /\ ThreadOnly

VerifyFails(s, i) ==
    /\ attempt[s][i].pc = "verify"
    /\ Become(s, i, [attempt[s][i] EXCEPT !.pc = "failed", !.open = FALSE])
    /\ Usual(/\ ~InBacklog(s, i)
             /\ \A j \in Mate(s, i) : attempt[Other(s)][j].pc \in {"failed", "quit"})
    /\ ThreadOnly

(***************************************************************************)
(* The GUI threads.                                                        *)
(***************************************************************************)
Show(s, what) == ui' = [ui EXCEPT ![s] = what]

(* Mutant: the socket of a stale event is kept.                            *)
HandleStale_KeepsSocket(s, i) ==
    /\ Stopped(s, i)
    /\ attempt[s][i].pc \in Posted
    /\ Become(s, i, [attempt[s][i] EXCEPT !.pc = IF @ = "failed" THEN "quit" ELSE "done"])
    /\ UNCHANGED <<session_vars, ui, now, trouble>>

HandleStale(s, i) ==
    /\ Stopped(s, i)
    /\ attempt[s][i].pc \in Posted
    /\ Become(s, i, [attempt[s][i] EXCEPT !.pc = IF @ = "failed" THEN "quit" ELSE "done",
                                          !.open = FALSE])
    /\ UNCHANGED <<session_vars, ui, now, trouble>>

Handle(s) ==
    LET a == attempt[s][now[s]] IN
    /\ \/ a.pc = "verified" /\ Show(s, "open")
       \/ a.pc = "mismatch" /\ Show(s, "dialog")
       \/ a.pc = "failed" /\ Show(s, "failed")
    /\ Become(s, now[s], [a EXCEPT !.pc = IF @ = "failed" THEN "quit" ELSE "done"])
    /\ UNCHANGED <<session_vars, now, trouble>>

(* receive_closed: the other end of an open channel is closed.             *)
Lose(s) ==
    /\ ui[s] = "open"
    /\ \A j \in Mate(s, now[s]) : ~attempt[Other(s)][j].open
    /\ Show(s, "lost")
    /\ UNCHANGED <<session_vars, attempt, now, trouble>>

(* _reset_channel_attempt, then _maybe_start_channel_establishment.  The   *)
(* thread that was the present one is stopped; only the socket of a        *)
(* channel is closed by the reset.  Bound: the one before has ended, and   *)
(* the other side is through with its connection.                          *)
StartAttempt(s, key) ==
    LET spare == Spare(s)
        first == IF s = "mine" THEN "bind" ELSE "establish"
        stopped == IF ui[s] \in {"open", "lost"}
                   THEN [attempt[s][now[s]] EXCEPT !.open = FALSE] ELSE attempt[s][now[s]]
        Forget(a) == IF a.mate = spare THEN [a EXCEPT !.mate = None] ELSE a IN
    /\ attempt[s][spare].pc \in {"done", "quit"}
    /\ ~InBacklog(s, spare)
    /\ \A i \in Ids : attempt[Other(s)][i].mate = spare => attempt[Other(s)][i].pc \notin Running
    /\ attempt' = [attempt EXCEPT
           ![s] = [i \in Ids |-> IF i = spare THEN [NoAttempt EXCEPT !.pc = first, !.key = key]
                                 ELSE stopped],
           ![Other(s)] = [i \in Ids |-> Forget(@[i])]]
    /\ now' = [now EXCEPT ![s] = spare]
    /\ Show(s, "pending")

(***************************************************************************)
(* The users.                                                              *)
(***************************************************************************)
InUse == {packet[s] : s \in Sides} \cup {sent} \cup {attempt[s][i].key[2] : s \in Sides, i \in Ids}

Fresh == CHOOSE p \in Packets \ InUse : \A q \in Packets \ InUse : p <= q

(* on_generate_handshake, after a confirmed reset if need be: usual when   *)
(* there is no channel and none to come.  The handshake is sent on.        *)
Generate(p) ==
    /\ ui["mine"] # "dialog"
    /\ phrase' = [phrase EXCEPT !["mine"] = p]
    /\ packet' = [packet EXCEPT !["mine"] = Fresh]
    /\ sent' = Fresh
    /\ StartAttempt("mine", <<p, Fresh>>)
    /\ Usual(p = Agreed /\ ui["mine"] \in {"none", "failed", "lost"})

(* on_paste_handshake: usual when there is no channel and none to come, or *)
(* a new handshake has arrived while nobody answers to the old one.        *)
Paste(p) ==
    /\ sent # None
    /\ ui["peer"] # "dialog"
    /\ phrase' = [phrase EXCEPT !["peer"] = p]
    /\ packet' = [packet EXCEPT !["peer"] = sent]
    /\ UNCHANGED sent
    /\ StartAttempt("peer", <<p, sent>>)
    /\ Usual(/\ p = Agreed
             /\ \/ ui["peer"] \in {"none", "failed", "lost"}
                \/ packet["peer"] # sent /\ attempt["peer"][now["peer"]].pc = "establish")

(* Mutant: the side that generated retries with a new salt.                *)
RetryPacket_NewSalt(s) == IF s = "mine" THEN Fresh ELSE packet[s]

(* The retry is made on the same handshake on both sides.                  *)
RetryPacket(s) == packet[s]

(* The mismatch window is answered with OK: _retry_after_mismatch.         *)
AnswerOk(s, p) ==
    /\ ui[s] = "dialog"
    /\ phrase' = [phrase EXCEPT ![s] = p]
    /\ packet' = [packet EXCEPT ![s] = RetryPacket(s)]
    /\ UNCHANGED sent
    /\ StartAttempt(s, <<p, packet'[s]>>)
    /\ Usual(p = Agreed)

(* Mutant: "mine" is shown as listening and does not listen.               *)
AnswerCancel_OnlyShown(s) ==
    /\ ui[s] = "dialog"
    /\ Show(s, IF s = "mine" THEN "pending" ELSE "none")
    /\ UNCHANGED <<session_vars, attempt, now>>
    /\ Usual(s = "mine" /\ phrase[s] = Agreed)

(* With Cancel: "mine" listens on, with its phrase, "peer" gives up.       *)
AnswerCancel(s) ==
    /\ ui[s] = "dialog"
    /\ UNCHANGED session_vars
    /\ \/ /\ s = "mine"
          /\ StartAttempt(s, <<phrase[s], packet[s]>>)
       \/ /\ s = "peer"
          /\ Show(s, "none")
          /\ UNCHANGED <<attempt, now>>
    /\ Usual(s = "mine" /\ phrase[s] = Agreed)

-----------------------------------------------------------------------------
Init ==
    /\ phrase = [s \in Sides |-> Agreed]
    /\ packet = [s \in Sides |-> None]
    /\ sent = None
    /\ ui = [s \in Sides |-> "none"]
    /\ attempt = [s \in Sides |-> [i \in Ids |-> NoAttempt]]
    /\ now = [s \in Sides |-> 1]
    /\ trouble = MaxTrouble

Worker(s, i) ==
    \/ s = "mine" /\ (Bind(i) \/ Accept(i))
    \/ s = "peer" /\ Connect(i)
    \/ GivesUp(s, i)
    \/ Returns(s, i)
    \/ Verdict(s, i)
    \/ VerifyFails(s, i)

Answer(s) == AnswerCancel(s) \/ \E p \in Phrases : AnswerOk(s, p)

Next ==
    \/ \E s \in Sides, i \in Ids : Worker(s, i) \/ HandleStale(s, i)
    \/ \E s \in Sides : Handle(s) \/ Lose(s) \/ Answer(s)
    \/ \E p \in Phrases : Generate(p) \/ Paste(p)

Spec == Init /\ [][Next]_vars

(* The usual steps are taken: threads run, polls are made, and the users   *)
(* answer windows, replace a session that has failed, and paste what they  *)
(* are sent; strong for pasting, as windows come in between.               *)
AsUsual(A) == A /\ UNCHANGED trouble

Fairness ==
    /\ \A s \in Sides, i \in Ids : WF_vars(AsUsual(Worker(s, i)) \/ HandleStale(s, i))
    /\ \A s \in Sides : WF_vars(Handle(s) \/ Lose(s)) /\ WF_vars(AsUsual(Answer(s)))
    /\ WF_vars(\E p \in Phrases : AsUsual(Generate(p)))
    /\ SF_vars(\E p \in Phrases : AsUsual(Paste(p)))

FairSpec == Spec /\ Fairness

-----------------------------------------------------------------------------
(* Both channels are open, on the two ends of one connection.              *)
Together ==
    /\ \A s \in Sides : ui[s] = "open"
    /\ now["peer"] \in Mate("mine", now["mine"])

(* Whatever has gone wrong, wrong phrases and cancelled windows on either  *)
(* side, one that sees a mismatch where the other sees an error of the     *)
(* network, a port that is still held, a late connection of an attempt     *)
(* given up: once it stops, the retries of the two sides meet, and each    *)
(* has a channel to the other.                                             *)
ChannelComesUp == <>[]Together

(* A side whose channel leads to an attempt its peer has given up does not *)
(* keep it: it is told that the channel is lost.                           *)
NoChannelToThePast ==
    \A s \in Sides :
        (ui[s] = "open" /\ now[Other(s)] \notin Mate(s, now[s])) ~>
            (ui[s] # "open" \/ now[Other(s)] \in Mate(s, now[s]))
=============================================================================
