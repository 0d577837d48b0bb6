----------------------------- MODULE Establish -----------------------------
(***************************************************************************)
(* One call of establish_connection (src/src/transport.py): the calling    *)
(* thread waits while an accept thread and, when the address of the peer   *)
(* is known, a connect thread race for the first socket.                   *)
(*                                                                         *)
(* Around the call: the caller may set the stop event, the port may be     *)
(* taken, other hosts dial in, and the kernel queues connections on the    *)
(* listener before accept() hands them out.  Sleeps and timeouts are       *)
(* steps that may happen at any time.                                      *)
(***************************************************************************)
EXTENDS Naturals, Sequences, FiniteSets

CONSTANTS
    Inbound,     \* the connections other hosts make to the listener
    Targets,     \* what peer_host:peer_port may be (see Init)
    Out,         \* the socket the connect thread connects
    OwnEnd,      \* the other end of Out when it reaches the own listener
    None

ASSUME EstablishAssumption ==
    /\ Targets \subseteq {"nobody", "remote", "own"}
    /\ None \notin Inbound \cup {Out, OwnEnd}
    /\ Out \notin Inbound
    /\ OwnEnd \notin Inbound
    /\ Out # OwnEnd

VARIABLES
    target,      \* peer_host:peer_port: unknown, another host, or this listener
    busy,        \* another socket holds local_port
    main,        \* the calling thread: where it is and what it has read
    accept,      \* the accept thread: where it is and the socket it holds
    connect,     \* the connect thread
    result,      \* the shared result, written under result_lock
    done,        \* the event that wakes the calling thread
    stop,        \* the stop event is set
    cancelled,   \* how things stood when the caller set it (history)
    listener,    \* the listening socket
    backlog,     \* connections the kernel holds for accept()
    socks        \* every connection socket: "new", "open" or "closed"

vars == <<target, busy, main, accept, connect, result, done, stop, cancelled,
          listener, backlog, socks>>

Socks == Inbound \cup {Out, OwnEnd}

TypeOK ==
    /\ target \in Targets
    /\ busy \in BOOLEAN
    /\ main \in [pc : {"waiting", "woken", "stopping", "reading", "deciding",
                       "returned", "cancelled", "self_connect", "bind_error", "timeout"},
                 externally_stopped : BOOLEAN,
                 sock : Socks \cup {None}, bind_error : BOOLEAN, self_connect : BOOLEAN]
    /\ accept \in [pc : {"bind", "check", "accept", "won", "close", "ended"},
                   sock : Socks \cup {None}]
    /\ connect \in [pc : {"check", "connect", "connected", "ended"}]
    /\ result \in [sock : Socks \cup {None}, bind_error : BOOLEAN, self_connect : BOOLEAN]
    /\ {done, stop} \subseteq BOOLEAN
    /\ cancelled \in [before_win : BOOLEAN, while_waiting : BOOLEAN]
    /\ listener \in {"none", "open", "closed"}
    /\ backlog \in Seq(Socks)
    /\ socks \in [Socks -> {"new", "open", "closed"}]

Init ==
    /\ target \in Targets
    /\ busy \in BOOLEAN
    /\ main = [pc |-> "waiting", externally_stopped |-> FALSE, sock |-> None,
               bind_error |-> FALSE, self_connect |-> FALSE]
    /\ accept = [pc |-> "bind", sock |-> None]
    /\ connect = [pc |-> IF target = "nobody" THEN "ended" ELSE "check"]
    /\ result = [sock |-> None, bind_error |-> FALSE, self_connect |-> FALSE]
    /\ done = FALSE
    /\ stop = FALSE
    /\ cancelled = [before_win |-> FALSE, while_waiting |-> FALSE]
    /\ listener = "none"
    /\ backlog = << >>
    /\ socks = [s \in Socks |-> "new"]

(***************************************************************************)
(* Helpers.                                                                *)
(***************************************************************************)
(* Mutant: the later thread overwrites the winner.                         *)
SetResult_LastWins(s) ==
    /\ result' = [result EXCEPT !.sock = s]
    /\ done' = TRUE
    /\ UNCHANGED socks

(* Mutant: the socket of the loser is left open.                           *)
SetResult_KeepsLoser(s) ==
    /\ IF result.sock = None
       THEN /\ result' = [result EXCEPT !.sock = s]
            /\ done' = TRUE
       ELSE UNCHANGED <<result, done>>
    /\ UNCHANGED socks

(* _set_result: the first socket wins, the loser closes its own.           *)
SetResult(s) ==
    IF result.sock = None
    THEN /\ result' = [result EXCEPT !.sock = s]
         /\ done' = TRUE
         /\ UNCHANGED socks
    ELSE /\ socks' = [socks EXCEPT ![s] = "closed"]
         /\ UNCHANGED <<result, done>>

CloseAll(S) == socks' = [s \in Socks |-> IF s \in S THEN "closed" ELSE socks[s]]

InBacklog == {backlog[k] : k \in 1..Len(backlog)}

(***************************************************************************)
(* The accept thread.                                                      *)
(***************************************************************************)
Bind ==
    /\ accept.pc = "bind"
    /\ IF busy
       THEN /\ result' = [result EXCEPT !.bind_error = TRUE]
            /\ done' = (done \/ target = "nobody")
            /\ listener' = "closed"
            /\ accept' = [accept EXCEPT !.pc = "ended"]
       ELSE /\ listener' = "open"
            /\ accept' = [accept EXCEPT !.pc = "check"]
            /\ UNCHANGED <<result, done>>
    /\ UNCHANGED <<target, busy, main, connect, stop, cancelled, backlog, socks>>

(* Mutant: the accept thread does not look at the events between polls.    *)
AcceptCheck_Never ==
    /\ accept.pc = "check"
    /\ accept' = [accept EXCEPT !.pc = "accept"]
    /\ UNCHANGED <<target, busy, main, connect, result, done, stop, cancelled,
                   listener, backlog, socks>>

AcceptCheck ==
    /\ accept.pc = "check"
    /\ accept' = [accept EXCEPT !.pc = IF done \/ stop THEN "close" ELSE "accept"]
    /\ UNCHANGED <<target, busy, main, connect, result, done, stop, cancelled,
                   listener, backlog, socks>>

(* accept() hands out a connection, times out, or fails.                   *)
Accept ==
    /\ accept.pc = "accept"
    /\ \/ /\ backlog # << >>
          /\ backlog' = Tail(backlog)
          /\ accept' = [pc |-> "won", sock |-> Head(backlog)]
       \/ /\ backlog = << >>
          /\ accept' = [accept EXCEPT !.pc = "check"]
          /\ UNCHANGED backlog
       \/ /\ accept' = [accept EXCEPT !.pc = "close"]
          /\ UNCHANGED backlog
    /\ UNCHANGED <<target, busy, main, connect, result, done, stop, cancelled,
                   listener, socks>>

AcceptWon ==
    /\ accept.pc = "won"
    /\ SetResult(accept.sock)
    /\ accept' = [accept EXCEPT !.pc = "close"]
    /\ UNCHANGED <<target, busy, main, connect, stop, cancelled, listener, backlog>>

(* The kernel resets what the closed listener had not handed out.          *)
CloseListener ==
    /\ accept.pc = "close"
    /\ listener' = "closed"
    /\ backlog' = << >>
    /\ CloseAll(InBacklog)
    /\ accept' = [accept EXCEPT !.pc = "ended"]
    /\ UNCHANGED <<target, busy, main, connect, result, done, stop, cancelled>>

AcceptWorker == Bind \/ AcceptCheck \/ Accept \/ AcceptWon \/ CloseListener

(***************************************************************************)
(* The connect thread.                                                     *)
(***************************************************************************)
(* The loop ends when an event is set, or when its own clock runs out.     *)
ConnectCheck ==
    /\ connect.pc = "check"
    /\ \/ connect' = [pc |-> "ended"]
       \/ /\ ~done
          /\ ~stop
          /\ connect' = [pc |-> "connect"]
    /\ UNCHANGED <<target, busy, main, accept, result, done, stop, cancelled,
                   listener, backlog, socks>>

ConnectRefused ==
    /\ connect.pc = "connect"
    /\ connect' = [pc |-> "check"]
    /\ UNCHANGED <<target, busy, main, accept, result, done, stop, cancelled,
                   listener, backlog, socks>>

(* connect() succeeds: with the other host, with the own listener, or,     *)
(* when nothing listens on that port yet, with the socket itself.          *)
Connected ==
    /\ connect.pc = "connect"
    /\ connect' = [pc |-> "connected"]
    /\ IF target = "own" /\ listener = "open"
       THEN /\ backlog' = Append(backlog, OwnEnd)
            /\ socks' = [socks EXCEPT ![Out] = "open", ![OwnEnd] = "open"]
       ELSE /\ socks' = [socks EXCEPT ![Out] = "open"]
            /\ UNCHANGED backlog
    /\ UNCHANGED <<target, busy, main, accept, result, done, stop, cancelled, listener>>

(* _is_self_connect compares the two addresses of the socket: they are     *)
(* equal only for a socket that is connected to itself.                    *)
IsSelfConnect == target = "own" /\ socks[OwnEnd] = "new"

ConnectWon ==
    /\ connect.pc = "connected"
    /\ connect' = [pc |-> "ended"]
    /\ IF IsSelfConnect
       THEN /\ socks' = [socks EXCEPT ![Out] = "closed"]
            /\ result' = [result EXCEPT !.self_connect = TRUE]
            /\ done' = TRUE
       ELSE SetResult(Out)
    /\ UNCHANGED <<target, busy, main, accept, stop, cancelled, listener, backlog>>

ConnectWorker == ConnectCheck \/ ConnectRefused \/ Connected \/ ConnectWon

(***************************************************************************)
(* The calling thread.                                                     *)
(***************************************************************************)
WaitReturns ==
    /\ main.pc = "waiting"
    /\ main' = [main EXCEPT !.pc = "woken"]
    /\ UNCHANGED <<target, busy, accept, connect, result, done, stop, cancelled,
                   listener, backlog, socks>>

(* Mutant: the snapshot of the stop event is not taken.                    *)
SnapshotStop_Forgotten ==
    /\ main.pc = "woken"
    /\ main' = [main EXCEPT !.pc = "stopping"]
    /\ UNCHANGED <<target, busy, accept, connect, result, done, stop, cancelled,
                   listener, backlog, socks>>

SnapshotStop ==
    /\ main.pc = "woken"
    /\ main' = [main EXCEPT !.pc = "stopping", !.externally_stopped = stop]
    /\ UNCHANGED <<target, busy, accept, connect, result, done, stop, cancelled,
                   listener, backlog, socks>>

SignalStop ==
    /\ main.pc = "stopping"
    /\ main' = [main EXCEPT !.pc = "reading"]
    /\ stop' = TRUE
    /\ UNCHANGED <<target, busy, accept, connect, result, done, cancelled,
                   listener, backlog, socks>>

ReadResult ==
    /\ main.pc = "reading"
    /\ main' = [main EXCEPT !.pc = "deciding", !.sock = result.sock,
                            !.bind_error = result.bind_error,
                            !.self_connect = result.self_connect]
    /\ UNCHANGED <<target, busy, accept, connect, result, done, stop, cancelled,
                   listener, backlog, socks>>

(* Mutant: the last error is not raised.                                   *)
Outcome_FallsThrough ==
    CASE main.sock # None /\ main.externally_stopped -> "cancelled"
      [] main.sock # None /\ ~main.externally_stopped -> "returned"
      [] main.sock = None /\ main.self_connect -> "self_connect"
      [] OTHER -> None

Outcome ==
    CASE main.sock # None /\ main.externally_stopped -> "cancelled"
      [] main.sock # None /\ ~main.externally_stopped -> "returned"
      [] main.sock = None /\ main.self_connect -> "self_connect"
      [] main.sock = None /\ ~main.self_connect /\ main.bind_error
            /\ target = "nobody" -> "bind_error"
      [] OTHER -> "timeout"

Decide ==
    /\ main.pc = "deciding"
    /\ main' = [main EXCEPT !.pc = Outcome]
    /\ CloseAll(IF Outcome = "cancelled" THEN {main.sock} ELSE {})
    /\ UNCHANGED <<target, busy, accept, connect, result, done, stop, cancelled,
                   listener, backlog>>

MainThread == WaitReturns \/ SnapshotStop \/ SignalStop \/ ReadResult \/ Decide

(***************************************************************************)
(* The surroundings of the call.                                           *)
(***************************************************************************)
MainEnded == main.pc \in {"returned", "cancelled", "self_connect", "bind_error", "timeout"}

AllEnded == MainEnded /\ accept.pc = "ended" /\ connect.pc = "ended"

(* The session is reset: _channel_stop_event.set().                        *)
CallerStops ==
    /\ ~MainEnded
    /\ ~stop
    /\ stop' = TRUE
    /\ cancelled' = [before_win |-> result.sock = None,
                     while_waiting |-> main.pc \in {"waiting", "woken"}]
    /\ UNCHANGED <<target, busy, main, accept, connect, result, done, listener,
                   backlog, socks>>

DialIn(s) ==
    /\ listener = "open"
    /\ socks[s] = "new"
    /\ socks' = [socks EXCEPT ![s] = "open"]
    /\ backlog' = Append(backlog, s)
    /\ UNCHANGED <<target, busy, main, accept, connect, result, done, stop,
                   cancelled, listener>>

(* A thread that won after the result had been read leaves a socket only   *)
(* the result refers to; the interpreter closes it when the last thread of *)
(* the call is gone.                                                       *)
Orphan == result.sock # None /\ main.sock # result.sock

Reclaim ==
    /\ AllEnded
    /\ Orphan
    /\ socks[result.sock] = "open"
    /\ socks' = [socks EXCEPT ![result.sock] = "closed"]
    /\ UNCHANGED <<target, busy, main, accept, connect, result, done, stop,
                   cancelled, listener, backlog>>

Ended == AllEnded /\ UNCHANGED vars

Next ==
    \/ MainThread
    \/ AcceptWorker
    \/ ConnectWorker
    \/ CallerStops
    \/ \E s \in Inbound : DialIn(s)
    \/ Reclaim
    \/ Ended

Spec == Init /\ [][Next]_vars

(* Every thread runs, and the wait and the polls are bounded by timeouts.  *)
FairSpec ==
    /\ Spec
    /\ WF_vars(MainThread)
    /\ WF_vars(AcceptWorker)
    /\ WF_vars(ConnectWorker)
    /\ WF_vars(Reclaim)

-----------------------------------------------------------------------------
(* The caller gets a live socket that no thread closes behind its back,    *)
(* and it is the one the threads agreed on.                                *)
ReturnedSocketIsTheWinner ==
    main.pc = "returned" =>
        /\ main.sock = result.sock
        /\ socks[main.sock] = "open"

(* A stop event that the caller sets before the snapshot of it is taken    *)
(* is honoured, whether or not a thread has won already.                   *)
CancelWhileWaitingIsHonoured == cancelled.while_waiting => main.pc # "returned"

(* The contract of stop_event in the docstring: once the caller has set it *)
(* before any thread won, the call never returns a socket.  It fails when  *)
(* the wait times out, the snapshot is taken, the caller stops the attempt *)
(* and a thread wins, in this order.                                       *)
CancelIsHonoured == cancelled.before_win => main.pc # "returned"

(* What the docstring says of the address of the own listener: the call    *)
(* raises ConnectionFailed.  The check only sees a socket that is          *)
(* connected to itself.                                                    *)
OwnListenerIsRefused == target = "own" /\ main.sock = Out => main.pc # "returned"

(* The call returns or raises, and after a win, a failure and a            *)
(* cancellation alike the port is given back: the listener is closed, and  *)
(* not opened again by a thread that comes late.                           *)
CallEnds == <>[](MainEnded /\ listener # "open")

(* Whatever the race, in the end every socket is closed that was opened    *)
(* and not returned.                                                       *)
LosersAreClosed ==
    \A s \in Socks :
        socks[s] = "open" ~> (socks[s] = "closed" \/ (main.pc = "returned" /\ main.sock = s))
=============================================================================
