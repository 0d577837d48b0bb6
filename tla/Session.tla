------------------------------ MODULE Session ------------------------------
(***************************************************************************)
(* The session of one running application: class SecureFileClientApp of    *)
(* src/src/appearance.py.  One GUI thread runs every handler and the poll  *)
(* of the channel queue; background threads (the channel attempt, the      *)
(* receive worker, the send worker) talk to it only through that queue.    *)
(*                                                                         *)
(* A handler is one action, except where it opens a modal window: there    *)
(* the Tk event loop runs again, so what follows the window is the action  *)
(* that answers it.  Cryptography is symbolic: the key derived from a      *)
(* phrase and a handshake packet is the pair of the two.  The other party  *)
(* and the network are the nondeterministic outcomes of the attempts.      *)
(***************************************************************************)
EXTENDS Naturals, Sequences, FiniteSets

CONSTANTS
    Phrases,      \* non-empty pass phrases the user may type
    NoPhrase,     \* the empty phrase field
    Packets,      \* handshake packets: salt, iterations, host and port
    None,         \* Python's None
    MaxEpoch,     \* bound: resets of the session that are explored
    MaxSends      \* bound: clicks on the Send button that are explored

ASSUME SessionAssumption ==
    /\ NoPhrase \notin Phrases
    /\ None \notin Packets
    /\ "generate" \notin Packets
    /\ None \notin Phrases
    /\ None \notin Phrases \X Packets
    /\ None \notin {"generate", "mine", "peer"}
    /\ MaxEpoch \in Nat
    /\ MaxSends \in Nat

VARIABLES
    form,       \* the entry fields the handshake is made from
    hs,         \* the role of this side: keys, salt, address of the peer
    ch,         \* the attempt to establish a channel, and the channel
    stopped,    \* the stop events that are set
    attempts,   \* the threads that run _channel_establish_worker
    open,       \* the sockets that are open, named by their attempt
    queue,      \* _channel_queue
    deferred,   \* _deferred_channel_events
    dialogs,    \* the open modal windows; _modal_depth is their number
    receivers,  \* the threads that run _receive_worker
    senders,    \* the threads that run _send_worker
    sent,       \* how often the Send button has started a thread
    pay,        \* the selection and the payload prepared from it
    btn_send    \* the Send button: TRUE is "normal", FALSE "disabled"

vars == <<form, hs, ch, stopped, attempts, open, queue, deferred, dialogs,
          receivers, senders, sent, pay, btn_send>>

(***************************************************************************)
(* Values.                                                                 *)
(***************************************************************************)
Keys == Phrases \X Packets

derive_key(phrase, packet) == <<phrase, packet>>

NoSocket == 0

Forms == [phrase : Phrases \cup {NoPhrase}, iters_ok : BOOLEAN, port_ok : BOOLEAN]

Handshakes ==
    [local_key : Keys \cup {None}, local_salt : Packets \cup {None},
     peer_key : Keys \cup {None}, peer_addr : Packets \cup {None},
     kind : {"mine", "peer", None}, text : Packets \cup {None}]

Channels ==
    [epoch : Nat, stop_event : Nat, socket : Nat, key : Keys \cup {None},
     verified : BOOLEAN, started : BOOLEAN, pending : BOOLEAN]

Attempts ==
    [epoch : Nat, stop_event : Nat, key : Keys, addr : Packets \cup {None},
     pc : {"spawned", "connecting", "verifying", "done"}]

EventKinds == {"connection_failed", "verification_failed", "connected",
               "receive_stopped", "send_finished"}

Events == [kind : EventKinds, epoch : Nat, sock : Nat, key : Keys \cup {None}]

Event(kind, epoch) ==
    [kind |-> kind, epoch |-> epoch, sock |-> NoSocket, key |-> None]

(* A window remembers what its handler does next: "generate", or the       *)
(* packet to process.                                                      *)
Dialogs ==
    [kind : {"confirm", "prompt", "mismatch"},
     next : Packets \cup {"generate", None}, epoch : Nat]

Payloads == [selected : {"none", "file", "dir"}, ready : BOOLEAN,
             archive_key : Keys \cup {None}]

Receivers == [sock : Nat, epoch : Nat]

Senders == [id : Nat, sock : Nat, key : Keys \cup {None},
            archive_key : Keys \cup {None}, epoch : Nat]

TypeOK ==
    /\ form \in Forms
    /\ hs \in Handshakes
    /\ ch \in Channels
    /\ stopped \subseteq Nat
    /\ attempts \in Seq(Attempts)
    /\ open \subseteq Nat
    /\ queue \in Seq(Events)
    /\ deferred \in Seq(Events)
    /\ dialogs \in Seq(Dialogs)
    /\ receivers \subseteq Receivers
    /\ senders \subseteq Senders
    /\ sent \in Nat
    /\ pay \in Payloads
    /\ btn_send \in BOOLEAN

Init ==
    /\ form \in Forms
    /\ hs = [local_key |-> None, local_salt |-> None, peer_key |-> None,
             peer_addr |-> None, kind |-> None, text |-> None]
    /\ ch = [epoch |-> 0, stop_event |-> 0, socket |-> NoSocket, key |-> None,
             verified |-> FALSE, started |-> FALSE, pending |-> FALSE]
    /\ stopped = {}
    /\ attempts = << >>
    /\ open = {}
    /\ queue = << >>
    /\ deferred = << >>
    /\ dialogs = << >>
    /\ receivers = {}
    /\ senders = {}
    /\ sent = 0
    /\ pay = [selected |-> "none", ready |-> FALSE, archive_key |-> None]
    /\ btn_send = FALSE

(***************************************************************************)
(* Helpers of the handlers.                                                *)
(***************************************************************************)
SessionKey(h) == IF h.local_key # None THEN h.local_key ELSE h.peer_key

SessionActive(h, c) ==
    \/ h.local_key # None
    \/ h.peer_key # None
    \/ c.socket # NoSocket
    \/ c.started

PayloadMatchesChannelKey(p, c) ==
    p.archive_key # None => c.key # None /\ p.archive_key = c.key

SendButtonState(p, c) ==
    c.verified /\ p.ready /\ PayloadMatchesChannelKey(p, c)

NoHandshake ==
    [local_key |-> None, local_salt |-> None, peer_key |-> None,
     peer_addr |-> None, kind |-> None, text |-> None]

(* Mutant: the stop event is not replaced.                                 *)
NextAttempt_SameStopEvent(c) ==
    [epoch |-> c.epoch + 1, stop_event |-> c.stop_event,
     socket |-> NoSocket, key |-> None, verified |-> FALSE,
     started |-> FALSE, pending |-> FALSE]

NextAttempt(c) ==
    [epoch |-> c.epoch + 1, stop_event |-> c.stop_event + 1,
     socket |-> NoSocket, key |-> None, verified |-> FALSE,
     started |-> FALSE, pending |-> FALSE]

(* Mutant: the encrypted archive survives a reset.                         *)
DiscardKeyBoundPayload_Kept(p) == p

DiscardKeyBoundPayload(p) ==
    IF p.archive_key = None THEN p
    ELSE [p EXCEPT !.ready = FALSE, !.archive_key = None]

(* What _reset_channel_attempt does outside the fields of ch; nothing      *)
(* unless reset.                                                           *)
ResetEffects(reset) ==
    IF reset
    THEN /\ stopped' = stopped \cup {ch.stop_event}
         /\ open' = open \ {ch.socket}
         /\ pay' = DiscardKeyBoundPayload(pay)
         /\ btn_send' = SendButtonState(pay', NextAttempt(ch))
    ELSE UNCHANGED <<stopped, open, pay, btn_send>>

(* Mutant: a reset forgets the local half of the handshake only.           *)
HsAfter_KeepsPeer(reset) ==
    IF reset THEN [hs EXCEPT !.local_key = None, !.local_salt = None] ELSE hs

(* The handshake and the channel after _reset_session_state, if reset.     *)
HsAfter(reset) == IF reset THEN NoHandshake ELSE hs
ChAfter(reset) == IF reset THEN NextAttempt(ch) ELSE ch

(* _maybe_start_channel_establishment, from handshake h and channel c: a   *)
(* thread is started at most once per attempt, once a key is known and the *)
(* port field is valid.                                                    *)
CanStart(h, c) == ~c.started /\ SessionKey(h) # None /\ form'.port_ok

(* Mutant: the thread gets local_key instead of _session_key().            *)
NewAttempt_LocalKey(h, c) ==
    [epoch |-> c.epoch, stop_event |-> c.stop_event, key |-> h.local_key,
     addr |-> None, pc |-> "spawned"]

NewAttempt(h, c) ==
    [epoch |-> c.epoch, stop_event |-> c.stop_event, key |-> SessionKey(h),
     addr |-> None, pc |-> "spawned"]

MaybeStart(h, c) ==
    /\ hs' = h
    /\ IF CanStart(h, c)
       THEN /\ ch' = [c EXCEPT !.started = TRUE, !.pending = TRUE]
            /\ attempts' = Append(attempts, NewAttempt(h, c))
       ELSE /\ ch' = c
            /\ UNCHANGED attempts

NoStart(h, c) == hs' = h /\ ch' = c /\ UNCHANGED attempts

(***************************************************************************)
(* The two buttons that give this side its role.                           *)
(***************************************************************************)
Idle == dialogs = << >>

(* Events are deferred only within one run of the poll callback, which     *)
(* puts them back before the GUI thread serves the user again.             *)
PollReturned == deferred = << >>

Push(kind, next) ==
    dialogs' = <<[kind |-> kind, next |-> next, epoch |-> ch.epoch]>> \o dialogs

GenerateHandshake(h, c) ==
    IF form'.iters_ok /\ form'.port_ok
    THEN \E q \in Packets :
           MaybeStart([h EXCEPT !.local_key = derive_key(form'.phrase, q),
                                !.local_salt = q, !.kind = "mine", !.text = q], c)
    ELSE NoStart(h, c)

ProcessIncoming(h, c, q) ==
    MaybeStart([h EXCEPT !.peer_key = derive_key(form'.phrase, q),
                         !.peer_addr = q, !.kind = "peer", !.text = q], c)

Perform(next, h, c) ==
    IF next = "generate" THEN GenerateHandshake(h, c) ELSE ProcessIncoming(h, c, next)

(* Without a phrase the handler stops in a window that asks for one.       *)
PerformOrPrompt(next, h, c, rest) ==
    /\ form' = form
    /\ IF form.phrase = NoPhrase
       THEN /\ dialogs' = <<[kind |-> "prompt", next |-> next, epoch |-> c.epoch]>> \o rest
            /\ NoStart(h, c)
       ELSE /\ dialogs' = rest
            /\ Perform(next, h, c)

Click(next) ==
    /\ PollReturned
    /\ Idle
    /\ IF SessionActive(hs, ch)
       THEN /\ Push("confirm", next)
            /\ UNCHANGED <<form, hs, ch, attempts>>
       ELSE PerformOrPrompt(next, hs, ch, dialogs)
    /\ ResetEffects(FALSE)
    /\ UNCHANGED <<queue, deferred, receivers, senders, sent>>

on_generate_handshake == Click("generate")

on_paste_handshake == \E q \in Packets : Click(q)

(* The user edits a field of the form; the trace on it invalidates the     *)
(* session.                                                                *)
EditForm(f) ==
    LET reset == SessionActive(hs, ch) IN
    /\ PollReturned
    /\ Idle
    /\ f # form
    /\ reset => ch.epoch < MaxEpoch
    /\ form' = f
    /\ NoStart(HsAfter(reset), ChAfter(reset))
    /\ ResetEffects(reset)
    /\ UNCHANGED <<queue, deferred, dialogs, receivers, senders, sent>>

(***************************************************************************)
(* The answers to the modal windows.  Only the top window takes input.     *)
(***************************************************************************)
Top == Head(dialogs)

Showing(kind) == dialogs # << >> /\ Top.kind = kind

ConfirmYes ==
    /\ PollReturned
    /\ Showing("confirm")
    /\ ch.epoch < MaxEpoch
    /\ PerformOrPrompt(Top.next, NoHandshake, NextAttempt(ch), Tail(dialogs))
    /\ ResetEffects(TRUE)
    /\ UNCHANGED <<queue, deferred, receivers, senders, sent>>

(* "No" and Cancel leave everything as it was.                             *)
Dismiss ==
    /\ PollReturned
    /\ Showing("confirm") \/ Showing("prompt")
    /\ dialogs' = Tail(dialogs)
    /\ UNCHANGED <<form, hs, ch, stopped, attempts, open, queue, deferred,
                   receivers, senders, sent, pay, btn_send>>

(* The phrase is written to its field, whose trace would reset an active   *)
(* session, and the handler goes on.                                       *)
PromptOk(phrase) ==
    LET reset == SessionActive(hs, ch) IN
    /\ PollReturned
    /\ Showing("prompt")
    /\ form' = [form EXCEPT !.phrase = phrase]
    /\ dialogs' = Tail(dialogs)
    /\ Perform(Top.next, HsAfter(reset), ChAfter(reset))
    /\ ResetEffects(reset)
    /\ UNCHANGED <<queue, deferred, receivers, senders, sent>>

(* _retry_after_mismatch: a new attempt on the handshake already           *)
(* exchanged; phrase is None when the generating side only listens again.  *)
RetryAfterMismatch(phrase) ==
    LET c == NextAttempt(ch) IN
    /\ form' = IF phrase = None THEN form ELSE [form EXCEPT !.phrase = phrase]
    /\ ResetEffects(TRUE)
    /\ CASE hs.kind = "peer" -> ProcessIncoming([hs EXCEPT !.peer_key = None], c, hs.text)
         [] hs.kind = "mine" /\ hs.local_salt # None ->
              MaybeStart(IF phrase = None THEN hs
                         ELSE [hs EXCEPT !.local_key = derive_key(phrase, hs.local_salt)], c)
         [] OTHER -> NoStart(hs, c)

GivesUp(phrase) == phrase = None /\ ~(hs.kind = "mine" /\ hs.local_key # None)

(* _handle_verification_mismatch after its window closes; None is Cancel.  *)
AnswerMismatch(phrase) ==
    /\ PollReturned
    /\ Showing("mismatch")
    /\ dialogs' = Tail(dialogs)
    /\ IF Top.epoch # ch.epoch \/ GivesUp(phrase)
       THEN /\ UNCHANGED form
            /\ NoStart(hs, ch)
            /\ ResetEffects(FALSE)
       ELSE RetryAfterMismatch(phrase)
    /\ UNCHANGED <<queue, deferred, receivers, senders, sent>>

(***************************************************************************)
(* The thread of attempt i: _channel_establish_worker.                     *)
(***************************************************************************)
Goto(i, pc) == attempts' = [attempts EXCEPT ![i].pc = pc]

Put(event) == queue' = Append(queue, event)

(* The thread reads peer_host and peer_port of the application when it     *)
(* gets to run, not when it was started.                                   *)
ReadAddress(i) ==
    /\ attempts[i].pc = "spawned"
    /\ attempts' = [attempts EXCEPT ![i].pc = "connecting", ![i].addr = hs.peer_addr]
    /\ UNCHANGED <<form, hs, ch, stopped, open, queue, deferred, dialogs,
                   receivers, senders, sent, pay, btn_send>>

(* establish_connection sets the stop event itself on its way out, and     *)
(* returns a socket only if it was not set before.                         *)
EstablishReturns(i) ==
    /\ attempts[i].pc = "connecting"
    /\ attempts[i].stop_event \notin stopped
    /\ stopped' = stopped \cup {attempts[i].stop_event}
    /\ open' = open \cup {i}
    /\ Goto(i, "verifying")
    /\ UNCHANGED <<form, hs, ch, queue, deferred, dialogs, receivers, senders,
                   sent, pay, btn_send>>

EstablishFails(i) ==
    /\ attempts[i].pc = "connecting"
    /\ stopped' = stopped \cup {attempts[i].stop_event}
    /\ Put(Event("connection_failed", attempts[i].epoch))
    /\ Goto(i, "done")
    /\ UNCHANGED <<form, hs, ch, open, deferred, dialogs, receivers, senders,
                   sent, pay, btn_send>>

(* verify_channel returns: the connected event carries the socket.         *)
VerifyReturns(i) ==
    /\ attempts[i].pc = "verifying"
    /\ Put([kind |-> "connected", epoch |-> attempts[i].epoch, sock |-> i,
            key |-> attempts[i].key])
    /\ Goto(i, "done")
    /\ UNCHANGED <<form, hs, ch, stopped, open, deferred, dialogs, receivers,
                   senders, sent, pay, btn_send>>

(* verify_channel raises: the socket is closed first.  A mismatch leads to *)
(* a retry in a new epoch, so MaxEpoch also bounds the mismatches.         *)
VerifyRaises(i, kind) ==
    /\ attempts[i].pc = "verifying"
    /\ kind \in {"connection_failed", "verification_failed"}
    /\ kind = "verification_failed" => attempts[i].epoch < MaxEpoch
    /\ open' = open \ {i}
    /\ Put(Event(kind, attempts[i].epoch))
    /\ Goto(i, "done")
    /\ UNCHANGED <<form, hs, ch, stopped, deferred, dialogs, receivers, senders,
                   sent, pay, btn_send>>

EstablishWorker(i) ==
    \/ ReadAddress(i)
    \/ EstablishReturns(i)
    \/ EstablishFails(i)
    \/ VerifyReturns(i)
    \/ \E kind \in EventKinds : VerifyRaises(i, kind)

(***************************************************************************)
(* The GUI thread polls the queue: _poll_channel_events takes one event    *)
(* after another and _handle_channel_event acts on it.  The poll runs on   *)
(* while a window of a button is open, but not while the mismatch window   *)
(* is: that one was opened by the poll itself.                             *)
(***************************************************************************)
Polling == \A d \in 1..Len(dialogs) : dialogs[d].kind # "mismatch"

(* Mutant: the epoch of an event is not looked at.                         *)
Take_AnyEpoch(kind) ==
    /\ Polling
    /\ queue # << >>
    /\ Head(queue).kind = kind
    /\ queue' = Tail(queue)

Take(kind) ==
    /\ Polling
    /\ queue # << >>
    /\ Head(queue).epoch = ch.epoch
    /\ Head(queue).kind = kind
    /\ queue' = Tail(queue)

(* Mutant: a stale event is dropped with the socket it carries.            *)
HandleStaleEvent_NoClose ==
    /\ Polling
    /\ queue # << >>
    /\ Head(queue).epoch # ch.epoch
    /\ queue' = Tail(queue)
    /\ UNCHANGED <<form, hs, ch, stopped, attempts, open, deferred, dialogs, receivers,
                   senders, sent, pay, btn_send>>

HandleStaleEvent ==
    /\ Polling
    /\ queue # << >>
    /\ Head(queue).epoch # ch.epoch
    /\ queue' = Tail(queue)
    /\ open' = open \ {Head(queue).sock}
    /\ UNCHANGED <<form, hs, ch, stopped, attempts, deferred, dialogs, receivers,
                   senders, sent, pay, btn_send>>

HandleConnectionFailed ==
    /\ Take("connection_failed")
    /\ ch' = [ch EXCEPT !.pending = FALSE]
    /\ UNCHANGED <<form, hs, stopped, attempts, open, deferred, dialogs, receivers,
                   senders, sent, pay, btn_send>>

DeferVerificationFailed ==
    /\ Take("verification_failed")
    /\ ~Idle
    /\ deferred' = Append(deferred, Head(queue))
    /\ UNCHANGED <<form, hs, ch, stopped, attempts, open, dialogs, receivers,
                   senders, sent, pay, btn_send>>

(* Mutant: the mismatch window opens over any other window.                *)
HandleVerificationFailed_Overlaps ==
    /\ Take("verification_failed")
    /\ ch' = [ch EXCEPT !.pending = FALSE]
    /\ Push("mismatch", None)
    /\ UNCHANGED <<form, hs, stopped, attempts, open, deferred, receivers, senders,
                   sent, pay, btn_send>>

HandleVerificationFailed ==
    /\ Take("verification_failed")
    /\ Idle
    /\ ch' = [ch EXCEPT !.pending = FALSE]
    /\ Push("mismatch", None)
    /\ UNCHANGED <<form, hs, stopped, attempts, open, deferred, receivers, senders,
                   sent, pay, btn_send>>

HandleConnected ==
    /\ Take("connected")
    /\ ch' = [ch EXCEPT !.pending = FALSE, !.socket = Head(queue).sock,
                        !.key = Head(queue).key, !.verified = TRUE]
    /\ btn_send' = SendButtonState(pay, ch')
    /\ receivers' = receivers \cup {[sock |-> Head(queue).sock, epoch |-> Head(queue).epoch]}
    /\ UNCHANGED <<form, hs, stopped, attempts, open, deferred, dialogs, senders,
                   sent, pay>>

(* receive_closed and receive_error: the socket stays open.                *)
HandleReceiveStopped ==
    /\ Take("receive_stopped")
    /\ ch' = [ch EXCEPT !.verified = FALSE]
    /\ btn_send' = SendButtonState(pay, ch')
    /\ UNCHANGED <<form, hs, stopped, attempts, open, deferred, dialogs, receivers,
                   senders, sent, pay>>

(* send_done and send_error: the button is made "normal" in any case.      *)
HandleSendFinished ==
    /\ Take("send_finished")
    /\ btn_send' = TRUE
    /\ UNCHANGED <<form, hs, ch, stopped, attempts, open, deferred, dialogs,
                   receivers, senders, sent, pay>>

(* Mutant: the deferred events are forgotten.                              *)
EndOfPoll_Drops ==
    /\ Polling
    /\ queue = << >>
    /\ deferred # << >>
    /\ deferred' = << >>
    /\ UNCHANGED <<form, hs, ch, stopped, attempts, open, queue, dialogs, receivers,
                   senders, sent, pay, btn_send>>

(* The queue is empty: the deferred events go back into it.                *)
EndOfPoll ==
    /\ Polling
    /\ queue = << >>
    /\ deferred # << >>
    /\ queue' = deferred
    /\ deferred' = << >>
    /\ UNCHANGED <<form, hs, ch, stopped, attempts, open, dialogs, receivers,
                   senders, sent, pay, btn_send>>

Poll ==
    \/ HandleStaleEvent
    \/ HandleConnectionFailed
    \/ DeferVerificationFailed
    \/ HandleVerificationFailed
    \/ HandleConnected
    \/ HandleReceiveStopped
    \/ HandleSendFinished
    \/ EndOfPoll

(***************************************************************************)
(* The receive worker r: it leaves silently once the epoch has moved on,   *)
(* and with an event when receive_files raises.                            *)
(***************************************************************************)
ReceiverLeaves(r) ==
    /\ r.epoch # ch.epoch
    /\ receivers' = receivers \ {r}
    /\ UNCHANGED <<form, hs, ch, stopped, attempts, open, queue, deferred, dialogs,
                   senders, sent, pay, btn_send>>

(* Mutant: an unexpected exception ends the thread without an event.       *)
ReceiverStops_Silently(r) ==
    /\ receivers' = receivers \ {r}
    /\ UNCHANGED <<form, hs, ch, stopped, attempts, open, queue, deferred, dialogs,
                   senders, sent, pay, btn_send>>

ReceiverStops(r) ==
    /\ receivers' = receivers \ {r}
    /\ Put(Event("receive_stopped", r.epoch))
    /\ UNCHANGED <<form, hs, ch, stopped, attempts, open, deferred, dialogs,
                   senders, sent, pay, btn_send>>

ReceiveWorker(r) == ReceiverLeaves(r) \/ ReceiverStops(r)

(***************************************************************************)
(* Choosing, preparing and sending files.                                  *)
(***************************************************************************)
Select(kind) ==
    /\ PollReturned
    /\ Idle
    /\ pay' = [selected |-> kind, ready |-> FALSE, archive_key |-> None]
    /\ btn_send' = SendButtonState(pay', ch)
    /\ UNCHANGED <<form, hs, ch, stopped, attempts, open, queue, deferred, dialogs,
                   receivers, senders, sent>>

on_choose_file == Select("file")

_select_send_dir == Select("dir")

(* A directory may be packed into an archive encrypted with the session    *)
(* key; anything else does not depend on a key.                            *)
on_initiate_transfer(encrypt) ==
    /\ PollReturned
    /\ Idle
    /\ pay.selected # "none"
    /\ encrypt => pay.selected = "dir" /\ SessionKey(hs) # None
    /\ pay' = [pay EXCEPT !.ready = TRUE,
                          !.archive_key = IF encrypt THEN SessionKey(hs) ELSE None]
    /\ btn_send' = SendButtonState(pay', ch)
    /\ UNCHANGED <<form, hs, ch, stopped, attempts, open, queue, deferred, dialogs,
                   receivers, senders, sent>>

ReadyToSend == ch.verified /\ ch.socket # NoSocket /\ pay.ready

MaySend == ReadyToSend /\ PayloadMatchesChannelKey(pay, ch)

(* The worker gets a snapshot of the channel.  A refused click only        *)
(* refreshes the button, and only when the key of the archive is the cause. *)
on_send_files ==
    /\ PollReturned
    /\ Idle
    /\ btn_send
    /\ IF MaySend
       THEN /\ sent < MaxSends
            /\ sent' = sent + 1
            /\ senders' = senders \cup {[id |-> sent', sock |-> ch.socket, key |-> ch.key,
                                         archive_key |-> pay.archive_key,
                                         epoch |-> ch.epoch]}
            /\ btn_send' = FALSE
       ELSE /\ btn_send' = ~ReadyToSend
            /\ UNCHANGED <<sent, senders>>
    /\ UNCHANGED <<form, hs, ch, stopped, attempts, open, queue, deferred, dialogs,
                   receivers, pay>>

SendWorker(s) ==
    /\ senders' = senders \ {s}
    /\ Put(Event("send_finished", s.epoch))
    /\ UNCHANGED <<form, hs, ch, stopped, attempts, open, deferred, dialogs,
                   receivers, sent, pay, btn_send>>

(***************************************************************************)
(* The specification.                                                      *)
(***************************************************************************)
Answer ==
    \/ ConfirmYes
    \/ Dismiss
    \/ \E phrase \in Phrases : PromptOk(phrase)
    \/ \E phrase \in Phrases \cup {None} : AnswerMismatch(phrase)

Next ==
    \/ on_generate_handshake
    \/ on_paste_handshake
    \/ \E f \in Forms : EditForm(f)
    \/ Answer
    \/ on_choose_file
    \/ _select_send_dir
    \/ \E encrypt \in BOOLEAN : on_initiate_transfer(encrypt)
    \/ on_send_files
    \/ Poll
    \/ \E i \in 1..Len(attempts) : EstablishWorker(i)
    \/ \E r \in receivers : ReceiveWorker(r)
    \/ \E s \in senders : SendWorker(s)

Spec == Init /\ [][Next]_vars

-----------------------------------------------------------------------------
(***************************************************************************)
(* Safety.                                                                 *)
(***************************************************************************)
Live(i) == attempts[i].epoch = ch.epoch

Waiting(events) == {events[e] : e \in 1..Len(events)}

(* One session, one role (_session_key): the key comes either from the     *)
(* packet this side generated or from the one it pasted, and the side that *)
(* generated only listens.                                                 *)
OneRole ==
    /\ hs.local_key # None => hs.peer_key = None /\ hs.peer_addr = None
    /\ hs.local_key # None => hs.local_key = derive_key(form.phrase, hs.local_salt)
    /\ hs.peer_key # None => hs.peer_key = derive_key(form.phrase, hs.peer_addr)

(* The channel the user sees belongs to the session the user sees: its     *)
(* socket was made by the attempt of this epoch, with the present session  *)
(* key and the present address of the peer, and it has not been closed.    *)
ChannelIsOfThisSession ==
    ch.socket # NoSocket =>
        /\ ch.socket \in 1..Len(attempts)
        /\ Live(ch.socket)
        /\ attempts[ch.socket].addr = hs.peer_addr
        /\ ch.key = attempts[ch.socket].key
        /\ ch.key = SessionKey(hs)
        /\ ch.socket \in open

(* An encrypted archive that is ready to be sent was encrypted with the    *)
(* present session key, and so is every archive being sent on the channel. *)
ArchiveKeyIsSessionKey ==
    /\ pay.archive_key # None => pay.archive_key = SessionKey(hs)
    /\ \A s \in senders :
          s.archive_key # None /\ s.epoch = ch.epoch => s.archive_key = SessionKey(hs)

(* The thread is started once per attempt, and on a stop event that nobody *)
(* has set: each reset replaces the event that the last attempt has set on *)
(* its way out.                                                            *)
OneAttemptPerEpoch ==
    /\ \A i, j \in 1..Len(attempts) : attempts[i].epoch = attempts[j].epoch => i = j
    /\ \A i \in 1..Len(attempts) :
          Live(i) /\ attempts[i].pc \in {"spawned", "connecting"} =>
              attempts[i].stop_event \notin stopped

(* While the channel is pending its outcome is still to come: the thread   *)
(* runs, or its event waits in the queue or among the deferred ones.  No   *)
(* outcome is lost to a reset or to a deferral.                            *)
PendingHasOutcome ==
    ch.pending =>
        \/ \E i \in 1..Len(attempts) : Live(i) /\ attempts[i].pc # "done"
        \/ \E e \in Waiting(queue) \cup Waiting(deferred) :
              /\ e.epoch = ch.epoch
              /\ e.kind \in {"connection_failed", "verification_failed", "connected"}

(* An attempt that outlived its session has its stop event set, so that it *)
(* gives the port back.                                                    *)
OldAttemptsStopped ==
    \A i \in 1..Len(attempts) : ~Live(i) => attempts[i].stop_event \in stopped

(* Modal windows never overlap (_modal_depth), the mismatch window is      *)
(* about the present attempt, and a phrase is asked for only when no       *)
(* session is active, so that writing it into its field resets nothing.    *)
WindowsInOrder ==
    /\ Len(dialogs) <= 1
    /\ Showing("mismatch") => Top.epoch = ch.epoch /\ ~ch.pending
    /\ Showing("prompt") => ~SessionActive(hs, ch)

(* A channel shown as verified has a thread that reads it, or the event    *)
(* that will say otherwise is in the queue.                                *)
VerifiedHasReader ==
    ch.verified =>
        \/ [sock |-> ch.socket, epoch |-> ch.epoch] \in receivers
        \/ Event("receive_stopped", ch.epoch) \in Waiting(queue)

(* What the comment on btn_send says: the button is active only when the   *)
(* payload is ready and the channel is verified.  send_done and send_error *)
(* break it.                                                               *)
SendOnlyWhenReady == btn_send => SendButtonState(pay, ch)

(***************************************************************************)
(* Liveness.  The threads run and their calls end by timeouts; the poll is *)
(* rescheduled every 200 ms.  The user answers a window although polls run *)
(* in between (strong fairness of Answer), and is not in a window at every *)
(* single poll (strong fairness of HandleVerificationFailed).              *)
(***************************************************************************)
Fairness ==
    /\ WF_vars(Poll)
    /\ SF_vars(HandleVerificationFailed)
    /\ SF_vars(Answer)
    /\ \A i \in 1..(MaxEpoch + 1) : WF_vars(i \in 1..Len(attempts) /\ EstablishWorker(i))

FairSpec == Spec /\ Fairness

(* A socket that is not the channel's is closed in the end, and so are     *)
(* those of earlier sessions.                                              *)
SocketsAreClosed ==
    \A i \in 1..(MaxEpoch + 1) : i \in open ~> (i \notin open \/ i = ch.socket)

(***************************************************************************)
(* The session implements Channel.                                         *)
(***************************************************************************)
Phase ==
    CASE ~ch.started -> "idle"
      [] ch.started /\ ch.pending -> "pending"
      [] ch.started /\ ~ch.pending /\ ch.verified -> "open"
      [] ch.started /\ ~ch.pending /\ ~ch.verified /\ ch.socket # NoSocket -> "lost"
      [] OTHER -> "failed"

AbstractChannel ==
    INSTANCE Channel WITH
        generation <- ch.epoch,
        phase <- Phase,
        agreed <- IF ch.started THEN SessionKey(hs) ELSE None,
        channel_key <- ch.key

(* Every step of the session is a step of Channel, or leaves it alone; and *)
(* under the fairness of the threads, the poll and the user, an attempt    *)
(* also ends as Channel demands.                                           *)
ImplementsFairChannel == AbstractChannel!FairSpec

=============================================================================
