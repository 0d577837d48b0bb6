-------------------------- MODULE Establish_proofs --------------------------
(***************************************************************************)
(* Theorems about Establish, for every set of inbound connections and      *)
(* every choice of the address of the peer.                                *)
(***************************************************************************)
EXTENDS Establish, SequenceTheorems, TLAPS

-----------------------------------------------------------------------------
(***************************************************************************)
(* The inductive invariant.                                                *)
(***************************************************************************)

(* Where a connection socket is before it wins: on its way through the     *)
(* backlog, in the hands of the accept thread, or of the connect thread.   *)
Held(s) ==
    \/ s \in InBacklog
    \/ accept.pc = "won" /\ s = accept.sock
    \/ connect.pc = "connected" /\ s = Out

(* A socket is held in one place at a time, is open while it is held, and  *)
(* has not won yet.                                                        *)
HeldInv ==
    /\ \A s \in Socks : Held(s) => socks[s] = "open" /\ s # result.sock
    /\ \A j, k \in 1..Len(backlog) : backlog[j] = backlog[k] => j = k
    /\ accept.pc = "won" => accept.sock \in Socks \ (InBacklog \cup {Out})
    /\ Out \notin InBacklog
    /\ connect.pc \in {"check", "connect"} => socks[Out] = "new" /\ socks[OwnEnd] = "new"
    /\ result.sock # None => socks[result.sock] # "new"

(* The kernel holds connections only for an open listener, and the accept  *)
(* thread closes its own on the way out.                                   *)
ListenerInv ==
    /\ listener = "open" <=> accept.pc \in {"check", "accept", "won", "close"}
    /\ backlog # << >> => listener = "open"

(* The calling thread has read the winner or nothing; the winner stays     *)
(* open until the call has ended otherwise than by returning it.           *)
WinnerInv ==
    /\ main.sock # None => main.sock = result.sock
    /\ main.pc = "returned" => main.sock # None /\ ~main.externally_stopped
    /\ result.sock # None /\ (~MainEnded \/ main.pc = "returned") =>
          socks[result.sock] = "open"

(* A stop event set while the caller waits is in the snapshot.             *)
CancelInv ==
    cancelled.while_waiting =>
        stop /\ (main.pc \in {"waiting", "woken"} \/ main.externally_stopped)

(* An open socket is held by a thread or the kernel, or has won.           *)
NoLeak == \A s \in Socks : socks[s] = "open" => Held(s) \/ s = result.sock

EstablishInv ==
    TypeOK /\ HeldInv /\ ListenerInv /\ WinnerInv /\ CancelInv /\ NoLeak

-----------------------------------------------------------------------------
(***************************************************************************)
(* Lemmas about the backlog.                                               *)
(***************************************************************************)

(* A connection that is queued behind the others is one more of them.      *)
LEMMA BacklogAppend ==
    ASSUME backlog \in Seq(Socks), NEW s \in Socks, backlog' = Append(backlog, s),
           \A j, k \in 1..Len(backlog) : backlog[j] = backlog[k] => j = k,
           s \notin InBacklog
    PROVE  /\ backlog' \in Seq(Socks) /\ backlog' # << >>
           /\ InBacklog' = InBacklog \cup {s}
           /\ \A j, k \in 1..Len(backlog') : backlog'[j] = backlog'[k] => j = k
<1>1. /\ backlog' \in Seq(Socks) /\ backlog' # << >>
      /\ Len(backlog) \in Nat /\ Len(backlog') = Len(backlog) + 1
      /\ \A k \in 1..Len(backlog) : backlog'[k] = backlog[k]
      /\ backlog'[Len(backlog) + 1] = s
  BY AppendProperties, LenProperties
<1>2. \A k \in 1..Len(backlog') : k \in 1..Len(backlog) \/ k = Len(backlog) + 1
  BY <1>1
<1>3. 1..Len(backlog') = (1..Len(backlog)) \cup {Len(backlog) + 1}
  BY <1>1
<1>4. InBacklog' = InBacklog \cup {s}
  BY <1>1, <1>3 DEF InBacklog
<1>. QED
  BY <1>1, <1>2, <1>4 DEF InBacklog

(* accept() hands out the first connection, and only that one.             *)
LEMMA BacklogTail ==
    ASSUME backlog \in Seq(Socks), backlog # << >>, backlog' = Tail(backlog),
           \A j, k \in 1..Len(backlog) : backlog[j] = backlog[k] => j = k
    PROVE  /\ backlog' \in Seq(Socks)
           /\ Head(backlog) \in InBacklog /\ Head(backlog) \in Socks
           /\ InBacklog' = InBacklog \ {Head(backlog)}
           /\ \A j, k \in 1..Len(backlog') : backlog'[j] = backlog'[k] => j = k
<1>1. /\ backlog' \in Seq(Socks)
      /\ Len(backlog) \in Nat \ {0} /\ Len(backlog') = Len(backlog) - 1
      /\ \A k \in 1..Len(backlog') : backlog'[k] = backlog[k + 1]
      /\ Head(backlog) = backlog[1] /\ Head(backlog) \in Socks
  BY HeadTailProperties, EmptySeq, LenProperties
<1>2. \A k \in 1..Len(backlog') : k + 1 \in 1..Len(backlog) /\ k + 1 # 1
  BY <1>1
<1>3. \A k \in 1..Len(backlog) : k # 1 => k - 1 \in 1..Len(backlog') /\ (k - 1) + 1 = k
  BY <1>1
<1>4. 1 \in 1..Len(backlog)
  BY <1>1
<1>5. InBacklog' \subseteq InBacklog \ {Head(backlog)}
  BY <1>1, <1>2, <1>4 DEF InBacklog
<1>6. InBacklog \ {Head(backlog)} \subseteq InBacklog'
  <2>. SUFFICES ASSUME NEW k \in 1..Len(backlog), backlog[k] # Head(backlog)
                PROVE  backlog[k] \in InBacklog'
    BY DEF InBacklog
  <2>1. k - 1 \in 1..Len(backlog') /\ backlog'[k - 1] = backlog[k]
    BY <1>1, <1>3
  <2>. QED
    BY <2>1 DEF InBacklog
<1>7. Head(backlog) \in InBacklog
  BY <1>1, <1>4 DEF InBacklog
<1>8. \A j, k \in 1..Len(backlog') : backlog'[j] = backlog'[k] => j = k
  <2>. SUFFICES ASSUME NEW j \in 1..Len(backlog'), NEW k \in 1..Len(backlog'),
                       backlog'[j] = backlog'[k]
                PROVE  j = k
    OBVIOUS
  <2>1. j + 1 = k + 1
    BY <1>1, <1>2
  <2>. QED
    BY <1>1, <2>1
<1>. QED
  BY <1>1, <1>5, <1>6, <1>7, <1>8

(* Nothing waits in an empty backlog.                                      *)
LEMMA BacklogEmpty ==
    ASSUME backlog = << >>
    PROVE  InBacklog = {}
BY EmptySeq DEF InBacklog

(* What waits in the backlog is a socket.                                  *)
LEMMA BacklogInSocks ==
    ASSUME backlog \in Seq(Socks)
    PROVE  InBacklog \subseteq Socks
BY ElementOfSeq DEF InBacklog

-----------------------------------------------------------------------------
(***************************************************************************)
(* The steps.                                                              *)
(***************************************************************************)

(* When the threads, the backlog and the sockets stay, only the calling    *)
(* thread and the caller have moved.                                       *)
LEMMA SameHeld ==
    ASSUME EstablishInv, UNCHANGED <<accept.pc, accept.sock, connect.pc, result.sock, listener,
                                     backlog, socks>>
    PROVE  HeldInv' /\ ListenerInv' /\ NoLeak'
BY DEF EstablishInv, HeldInv, ListenerInv, NoLeak, Held, InBacklog

(* The calling thread.                                                     *)
LEMMA MainThreadStep ==
    ASSUME EstablishInv, MainThread
    PROVE  EstablishInv'
<1>0. /\ TypeOK /\ HeldInv /\ ListenerInv /\ WinnerInv /\ CancelInv /\ NoLeak
  BY DEF EstablishInv
<1>1. CASE WaitReturns
  <2>1. /\ main.pc = "waiting" /\ main' = [main EXCEPT !.pc = "woken"]
        /\ UNCHANGED <<target, busy, accept, connect, result, done, stop, cancelled,
                       listener, backlog, socks>>
    BY <1>1 DEF WaitReturns
  <2>2. TypeOK'
    BY <1>0, <2>1 DEF TypeOK
  <2>3. WinnerInv' /\ CancelInv'
    BY <1>0, <2>1 DEF TypeOK, WinnerInv, CancelInv, MainEnded
  <2>. QED
    BY <2>1, <2>2, <2>3, SameHeld DEF EstablishInv
<1>2. CASE SnapshotStop
  <2>1. /\ main.pc = "woken"
        /\ main' = [main EXCEPT !.pc = "stopping", !.externally_stopped = stop]
        /\ UNCHANGED <<target, busy, accept, connect, result, done, stop, cancelled,
                       listener, backlog, socks>>
    BY <1>2 DEF SnapshotStop
  <2>2. TypeOK'
    <3>1. stop \in BOOLEAN
      BY <1>0 DEF TypeOK
    <3>2. main' \in [pc : {"waiting", "woken", "stopping", "reading", "deciding",
                           "returned", "cancelled", "self_connect", "bind_error", "timeout"},
                     externally_stopped : BOOLEAN, sock : Socks \cup {None},
                     bind_error : BOOLEAN, self_connect : BOOLEAN]
      BY <1>0, <2>1, <3>1 DEF TypeOK
    <3>. QED
      BY <1>0, <2>1, <3>2 DEF TypeOK
  <2>3. WinnerInv' /\ CancelInv'
    BY <1>0, <2>1 DEF TypeOK, WinnerInv, CancelInv, MainEnded
  <2>. QED
    BY <2>1, <2>2, <2>3, SameHeld DEF EstablishInv
<1>3. CASE SignalStop
  <2>1. /\ main.pc = "stopping" /\ main' = [main EXCEPT !.pc = "reading"]
        /\ stop' = TRUE
        /\ UNCHANGED <<target, busy, accept, connect, result, done, cancelled,
                       listener, backlog, socks>>
    BY <1>3 DEF SignalStop
  <2>2. TypeOK'
    BY <1>0, <2>1 DEF TypeOK
  <2>3. WinnerInv' /\ CancelInv'
    BY <1>0, <2>1 DEF TypeOK, WinnerInv, CancelInv, MainEnded
  <2>. QED
    BY <2>1, <2>2, <2>3, SameHeld DEF EstablishInv
<1>4. CASE ReadResult
  <2>1. /\ main.pc = "reading"
        /\ main' = [main EXCEPT !.pc = "deciding", !.sock = result.sock,
                                !.bind_error = result.bind_error,
                                !.self_connect = result.self_connect]
        /\ UNCHANGED <<target, busy, accept, connect, result, done, stop, cancelled,
                       listener, backlog, socks>>
    BY <1>4 DEF ReadResult
  <2>2. TypeOK'
    <3>1. /\ result.sock \in Socks \cup {None}
          /\ result.bind_error \in BOOLEAN /\ result.self_connect \in BOOLEAN
      BY <1>0 DEF TypeOK
    <3>2. main' \in [pc : {"waiting", "woken", "stopping", "reading", "deciding",
                           "returned", "cancelled", "self_connect", "bind_error", "timeout"},
                     externally_stopped : BOOLEAN, sock : Socks \cup {None},
                     bind_error : BOOLEAN, self_connect : BOOLEAN]
      BY <1>0, <2>1, <3>1 DEF TypeOK
    <3>. QED
      BY <1>0, <2>1, <3>2 DEF TypeOK
  <2>3. WinnerInv' /\ CancelInv'
    BY <1>0, <2>1 DEF TypeOK, WinnerInv, CancelInv, MainEnded
  <2>. QED
    BY <2>1, <2>2, <2>3, SameHeld DEF EstablishInv
<1>5. CASE Decide
  <2>1. /\ main.pc = "deciding" /\ main' = [main EXCEPT !.pc = Outcome]
        /\ CloseAll(IF Outcome = "cancelled" THEN {main.sock} ELSE {})
        /\ UNCHANGED <<target, busy, accept, connect, result, done, stop, cancelled,
                       listener, backlog>>
    BY <1>5 DEF Decide
  <2>2. /\ Outcome \in {"returned", "cancelled", "self_connect", "bind_error", "timeout"}
        /\ Outcome \in {"returned", "cancelled"} => main.sock # None
        /\ Outcome = "returned" => ~main.externally_stopped
    BY DEF Outcome
  <2>3. /\ main'.pc = Outcome /\ main'.sock = main.sock
        /\ main'.externally_stopped = main.externally_stopped
    BY <1>0, <2>1 DEF TypeOK
  <2>4. /\ socks' \in [Socks -> {"new", "open", "closed"}]
        /\ \A s \in Socks : s # main.sock \/ Outcome # "cancelled" => socks'[s] = socks[s]
        /\ \A s \in Socks : socks'[s] \in {socks[s], "closed"}
    BY <1>0, <2>1 DEF TypeOK, CloseAll
  <2>5. TypeOK'
    BY <1>0, <2>1, <2>2, <2>4 DEF TypeOK
  <2>6. Outcome = "cancelled" => main.sock = result.sock
    BY <1>0, <2>2 DEF WinnerInv
  <2>7. HeldInv'
    <3>1. \A s \in Socks : Held(s)' => socks'[s] = "open" /\ s # result'.sock
      BY <1>0, <2>1, <2>4, <2>6 DEF HeldInv, Held, InBacklog
    <3>2. result'.sock # None => socks'[result'.sock] # "new"
      BY <1>0, <2>1, <2>4 DEF HeldInv, TypeOK
    <3>3. connect'.pc \in {"check", "connect"} => socks'[Out] = "new" /\ socks'[OwnEnd] = "new"
      <4>1. connect.pc \in {"check", "connect"} /\ result.sock # None
               => result.sock # Out /\ result.sock # OwnEnd
        BY <1>0 DEF HeldInv
      <4>. QED
        BY <1>0, <2>1, <2>2, <2>4, <2>6, <4>1 DEF HeldInv, Socks
    <3>. QED
      BY <1>0, <2>1, <3>1, <3>2, <3>3 DEF HeldInv, InBacklog
  <2>8. ListenerInv' /\ NoLeak'
    BY <1>0, <2>1, <2>4 DEF ListenerInv, NoLeak, Held, InBacklog
  <2>9. WinnerInv'
    BY <1>0, <2>1, <2>2, <2>3, <2>4 DEF WinnerInv, MainEnded, TypeOK
  <2>10. CancelInv'
    BY <1>0, <2>1, <2>2, <2>3 DEF CancelInv
  <2>. QED
    BY <2>5, <2>7, <2>8, <2>9, <2>10 DEF EstablishInv
<1>. QED
  BY <1>1, <1>2, <1>3, <1>4, <1>5 DEF MainThread

(* _set_result: s wins if no socket has, and is closed otherwise.          *)
LEMMA SetResultFacts ==
    ASSUME TypeOK, NEW s \in Socks, SetResult(s)
    PROVE  /\ result' \in [sock : Socks \cup {None}, bind_error : BOOLEAN,
                           self_connect : BOOLEAN]
           /\ done' \in BOOLEAN
           /\ socks' \in [Socks -> {"new", "open", "closed"}]
           /\ \/ result.sock = None /\ result'.sock = s /\ socks' = socks
              \/ /\ result.sock # None /\ result'.sock = result.sock
                 /\ socks'[s] = "closed"
                 /\ \A t \in Socks : t # s => socks'[t] = socks[t]
<1>. done \in BOOLEAN
  BY DEF TypeOK
<1>1. CASE result.sock = None
  BY <1>1 DEF SetResult, TypeOK
<1>2. CASE result.sock # None
  BY <1>2 DEF SetResult, TypeOK
<1>. QED
  BY <1>1, <1>2

(* When the calling thread and the caller stay and the winner with them,   *)
(* so do their invariants.                                                 *)
LEMMA SameMain ==
    ASSUME EstablishInv, UNCHANGED <<main, stop, cancelled>>,
           result'.sock = result.sock \/ result.sock = None,
           result'.sock # None => socks'[result'.sock] = "open"
              \/ (result'.sock = result.sock /\ socks'[result.sock] = socks[result.sock])
    PROVE  WinnerInv' /\ CancelInv'
BY DEF EstablishInv, WinnerInv, CancelInv, MainEnded

(* The accept thread.                                                      *)
LEMMA AcceptWorkerStep ==
    ASSUME EstablishInv, AcceptWorker
    PROVE  EstablishInv'
<1>0. /\ TypeOK /\ HeldInv /\ ListenerInv /\ WinnerInv /\ CancelInv /\ NoLeak
      /\ backlog \in Seq(Socks) /\ InBacklog \subseteq Socks
  BY BacklogInSocks DEF EstablishInv, TypeOK
<1>1. CASE Bind
  <2>1. /\ accept.pc = "bind" /\ accept'.sock = accept.sock
        /\ accept'.pc \in {"ended", "check"}
        /\ result'.sock = result.sock
        /\ listener' = "open" <=> accept'.pc = "check"
        /\ listener' \in {"open", "closed"}
        /\ UNCHANGED <<target, busy, main, connect, stop, cancelled, backlog, socks>>
    BY <1>0, <1>1 DEF Bind, TypeOK
  <2>2. TypeOK'
    <3>1. done \in BOOLEAN /\ stop \in BOOLEAN
      BY <1>0 DEF TypeOK
    <3>2. done' \in BOOLEAN
      BY <1>1, <3>1 DEF Bind
    <3>3. /\ result' \in [sock : Socks \cup {None}, bind_error : BOOLEAN,
                           self_connect : BOOLEAN]
          /\ accept' \in [pc : {"bind", "check", "accept", "won", "close", "ended"},
                           sock : Socks \cup {None}]
      <4>1. CASE busy
        <5>1. /\ result' = [result EXCEPT !.bind_error = TRUE]
              /\ accept' = [accept EXCEPT !.pc = "ended"]
          BY <1>1, <4>1 DEF Bind
        <5>2. /\ result \in [sock : Socks \cup {None}, bind_error : BOOLEAN,
                             self_connect : BOOLEAN]
              /\ accept \in [pc : {"bind", "check", "accept", "won", "close", "ended"},
                             sock : Socks \cup {None}]
          BY <1>0 DEF TypeOK
        <5>. QED
          BY <5>1, <5>2
      <4>2. CASE ~busy
        BY <1>0, <1>1, <4>2 DEF Bind, TypeOK
      <4>. QED
        BY <4>1, <4>2
    <3>4. {done', stop'} \subseteq BOOLEAN
      BY <2>1, <3>1, <3>2
    <3>. QED
      BY <1>0, <2>1, <3>3, <3>4 DEF TypeOK
  <2>3. HeldInv' /\ NoLeak'
    BY <1>0, <2>1 DEF HeldInv, NoLeak, Held, InBacklog
  <2>4. ListenerInv'
    BY <1>0, <2>1 DEF ListenerInv
  <2>5. WinnerInv' /\ CancelInv'
    BY <2>1, SameMain
  <2>. QED
    BY <2>2, <2>3, <2>4, <2>5 DEF EstablishInv
<1>2. CASE AcceptCheck
  <2>1. /\ accept.pc = "check" /\ accept'.sock = accept.sock
        /\ accept'.pc \in {"close", "accept"}
        /\ accept' \in [pc : {"bind", "check", "accept", "won", "close", "ended"},
                         sock : Socks \cup {None}]
        /\ UNCHANGED <<target, busy, main, connect, result, done, stop, cancelled,
                       listener, backlog, socks>>
    BY <1>0, <1>2 DEF AcceptCheck, TypeOK
  <2>2. TypeOK'
    BY <1>0, <2>1 DEF TypeOK
  <2>3. HeldInv' /\ NoLeak'
    BY <1>0, <2>1 DEF HeldInv, NoLeak, Held, InBacklog
  <2>4. ListenerInv'
    BY <1>0, <2>1 DEF ListenerInv
  <2>5. WinnerInv' /\ CancelInv'
    BY <2>1, SameMain
  <2>. QED
    BY <2>2, <2>3, <2>4, <2>5 DEF EstablishInv
<1>3. CASE Accept
  <2>0. /\ accept.pc = "accept"
        /\ UNCHANGED <<target, busy, main, connect, result, done, stop, cancelled,
                       listener, socks>>
    BY <1>3 DEF Accept
  <2>1. CASE backlog # << >> /\ backlog' = Tail(backlog)
               /\ accept' = [pc |-> "won", sock |-> Head(backlog)]
    <3>1. /\ backlog' \in Seq(Socks)
          /\ Head(backlog) \in InBacklog /\ Head(backlog) \in Socks
          /\ InBacklog' = InBacklog \ {Head(backlog)}
          /\ \A j, k \in 1..Len(backlog') : backlog'[j] = backlog'[k] => j = k
      BY <1>0, <2>1, BacklogTail DEF HeldInv
    <3>2. accept'.pc = "won" /\ accept'.sock = Head(backlog)
      BY <2>1
    <3>3. TypeOK'
      BY <1>0, <2>0, <2>1, <3>1 DEF TypeOK
    <3>4. HeldInv'
      BY <1>0, <2>0, <3>1, <3>2 DEF HeldInv, Held
    <3>5. NoLeak'
      BY <1>0, <2>0, <3>1, <3>2 DEF NoLeak, Held
    <3>6. ListenerInv'
      BY <1>0, <2>0, <2>1, <3>2 DEF ListenerInv
    <3>7. WinnerInv' /\ CancelInv'
      BY <2>0, SameMain
    <3>. QED
      BY <3>3, <3>4, <3>5, <3>6, <3>7 DEF EstablishInv
  <2>2. CASE backlog' = backlog /\ \E pc \in {"check", "close"} :
                 accept' = [accept EXCEPT !.pc = pc]
    <3>1. /\ accept'.pc \in {"check", "close"} /\ accept'.sock = accept.sock
          /\ accept' \in [pc : {"bind", "check", "accept", "won", "close", "ended"},
                           sock : Socks \cup {None}]
      BY <1>0, <2>2 DEF TypeOK
    <3>2. TypeOK'
      BY <1>0, <2>0, <2>2, <3>1 DEF TypeOK
    <3>3. HeldInv' /\ NoLeak'
      BY <1>0, <2>0, <2>2, <3>1 DEF HeldInv, NoLeak, Held, InBacklog
    <3>4. ListenerInv'
      BY <1>0, <2>0, <2>2, <3>1 DEF ListenerInv
    <3>5. WinnerInv' /\ CancelInv'
      BY <2>0, SameMain
    <3>. QED
      BY <3>2, <3>3, <3>4, <3>5 DEF EstablishInv
  <2>. QED
    BY <1>3, <2>1, <2>2 DEF Accept
<1>4. CASE AcceptWon
  <2>1. /\ accept.pc = "won" /\ SetResult(accept.sock)
        /\ accept' = [accept EXCEPT !.pc = "close"]
        /\ UNCHANGED <<target, busy, main, connect, stop, cancelled, listener, backlog>>
    BY <1>4 DEF AcceptWon
  <2>2. /\ accept'.pc = "close"
        /\ accept' \in [pc : {"bind", "check", "accept", "won", "close", "ended"},
                         sock : Socks \cup {None}]
    BY <1>0, <2>1 DEF TypeOK
  <2>3. /\ accept.sock \in Socks \ (InBacklog \cup {Out})
        /\ socks[accept.sock] = "open" /\ accept.sock # result.sock
    BY <1>0, <2>1 DEF HeldInv, Held
  <2>4. /\ result' \in [sock : Socks \cup {None}, bind_error : BOOLEAN,
                         self_connect : BOOLEAN]
        /\ done' \in BOOLEAN
        /\ socks' \in [Socks -> {"new", "open", "closed"}]
        /\ \/ result.sock = None /\ result'.sock = accept.sock /\ socks' = socks
           \/ /\ result.sock # None /\ result'.sock = result.sock
              /\ socks'[accept.sock] = "closed"
              /\ \A t \in Socks : t # accept.sock => socks'[t] = socks[t]
    BY <1>0, <2>1, <2>3, SetResultFacts
  <2>5. TypeOK'
    BY <1>0, <2>1, <2>2, <2>4 DEF TypeOK
  <2>6. result.sock \in Socks \cup {None} /\ None \notin Socks
        /\ Out \in Socks /\ OwnEnd \in Socks
    BY <1>0, EstablishAssumption DEF TypeOK, Socks
  <2>7. HeldInv'
    <3>1. \A t \in Socks : Held(t)' => Held(t) /\ t # accept.sock
      BY <1>0, <2>1, <2>2, <2>3 DEF HeldInv, Held, InBacklog
    <3>2. \A t \in Socks : Held(t)' => socks'[t] = "open" /\ t # result'.sock
      BY <1>0, <2>4, <3>1 DEF HeldInv
    <3>3. connect'.pc \in {"check", "connect"} => socks'[Out] = "new" /\ socks'[OwnEnd] = "new"
      BY <1>0, <2>1, <2>3, <2>4, <2>6 DEF HeldInv
    <3>4. result'.sock # None => socks'[result'.sock] # "new"
      BY <1>0, <2>3, <2>4, <2>6 DEF HeldInv
    <3>. QED
      BY <1>0, <2>1, <2>2, <3>2, <3>3, <3>4 DEF HeldInv, InBacklog
  <2>8. NoLeak'
    <3>. SUFFICES ASSUME NEW s \in Socks, socks'[s] = "open", s # result'.sock
                  PROVE  Held(s)'
      BY DEF NoLeak
    <3>1. s # accept.sock /\ socks[s] = "open" /\ s # result.sock
      BY <2>3, <2>4, <2>6
    <3>2. s \in InBacklog \/ (connect.pc = "connected" /\ s = Out)
      BY <1>0, <3>1 DEF NoLeak, Held
    <3>. QED
      BY <2>1, <3>2 DEF Held, InBacklog
  <2>9. ListenerInv'
    BY <1>0, <2>1, <2>2 DEF ListenerInv
  <2>10. WinnerInv' /\ CancelInv'
    BY <2>1, <2>3, <2>4, <2>6, SameMain
  <2>. QED
    BY <2>5, <2>7, <2>8, <2>9, <2>10 DEF EstablishInv
<1>5. CASE CloseListener
  <2>1. /\ accept.pc = "close" /\ listener' = "closed" /\ backlog' = << >>
        /\ CloseAll(InBacklog)
        /\ accept' = [accept EXCEPT !.pc = "ended"]
        /\ UNCHANGED <<target, busy, main, connect, result, done, stop, cancelled>>
    BY <1>5 DEF CloseListener
  <2>2. /\ accept'.pc = "ended"
        /\ accept' \in [pc : {"bind", "check", "accept", "won", "close", "ended"},
                         sock : Socks \cup {None}]
    BY <1>0, <2>1 DEF TypeOK
  <2>3. /\ socks' \in [Socks -> {"new", "open", "closed"}]
        /\ \A s \in Socks : s \in InBacklog => socks'[s] = "closed"
        /\ \A s \in Socks : s \notin InBacklog => socks'[s] = socks[s]
    BY <1>0, <2>1 DEF TypeOK, CloseAll
  <2>4. InBacklog' = {} /\ backlog' \in Seq(Socks)
    BY <2>1, EmptySeq DEF InBacklog
  <2>5. TypeOK'
    BY <1>0, <2>1, <2>2, <2>3, <2>4 DEF TypeOK
  <2>6. /\ result.sock \in Socks \cup {None} /\ None \notin Socks
        /\ Out \in Socks /\ OwnEnd \in Socks
        /\ result.sock \notin InBacklog
        /\ \A s \in InBacklog : socks[s] = "open"
    BY <1>0, EstablishAssumption DEF TypeOK, Socks, HeldInv, Held
  <2>7. HeldInv'
    <3>1. \A s \in Socks : Held(s)' => s = Out /\ connect.pc = "connected"
      BY <2>1, <2>2, <2>4 DEF Held
    <3>2. \A s \in Socks : Held(s)' => socks'[s] = "open" /\ s # result'.sock
      BY <1>0, <2>1, <2>3, <3>1 DEF HeldInv, Held
    <3>3. connect'.pc \in {"check", "connect"} => socks'[Out] = "new" /\ socks'[OwnEnd] = "new"
      BY <1>0, <2>1, <2>3, <2>6 DEF HeldInv
    <3>4. result'.sock # None => socks'[result'.sock] # "new"
      BY <1>0, <2>1, <2>3, <2>6 DEF HeldInv
    <3>5. \A j, k \in 1..Len(backlog') : backlog'[j] = backlog'[k] => j = k
      BY <2>1, EmptySeq
    <3>. QED
      BY <2>2, <2>4, <3>2, <3>3, <3>4, <3>5 DEF HeldInv
  <2>8. NoLeak'
    BY <1>0, <2>1, <2>2, <2>3, <2>4 DEF NoLeak, Held
  <2>9. ListenerInv'
    BY <2>1, <2>2 DEF ListenerInv
  <2>10. WinnerInv' /\ CancelInv'
    BY <2>1, <2>3, <2>6, SameMain
  <2>. QED
    BY <2>5, <2>7, <2>8, <2>9, <2>10 DEF EstablishInv
<1>. QED
  BY <1>1, <1>2, <1>3, <1>4, <1>5 DEF AcceptWorker

(* The connect thread.                                                     *)
LEMMA ConnectWorkerStep ==
    ASSUME EstablishInv, ConnectWorker
    PROVE  EstablishInv'
<1>0. /\ TypeOK /\ HeldInv /\ ListenerInv /\ WinnerInv /\ CancelInv /\ NoLeak
      /\ backlog \in Seq(Socks) /\ InBacklog \subseteq Socks
  BY BacklogInSocks DEF EstablishInv, TypeOK
<1>t. /\ result.sock \in Socks \cup {None} /\ None \notin Socks
      /\ Out \in Socks /\ OwnEnd \in Socks /\ Out # OwnEnd
  BY <1>0, EstablishAssumption DEF TypeOK, Socks
<1>1. CASE ConnectCheck \/ ConnectRefused
  <2>1. /\ connect.pc \in {"check", "connect"}
        /\ connect' \in [pc : {"check", "connect", "connected", "ended"}]
        /\ connect'.pc \in {"check", "connect", "ended"}
        /\ UNCHANGED <<target, busy, main, accept, result, done, stop, cancelled,
                       listener, backlog, socks>>
    BY <1>1 DEF ConnectCheck, ConnectRefused
  <2>2. TypeOK'
    BY <1>0, <2>1 DEF TypeOK
  <2>3. HeldInv' /\ NoLeak'
    BY <1>0, <2>1 DEF HeldInv, NoLeak, Held, InBacklog
  <2>4. ListenerInv'
    BY <1>0, <2>1 DEF ListenerInv
  <2>5. WinnerInv' /\ CancelInv'
    BY <2>1, SameMain
  <2>. QED
    BY <2>2, <2>3, <2>4, <2>5 DEF EstablishInv
<1>2. CASE Connected
  <2>1. /\ connect.pc = "connect" /\ connect' = [pc |-> "connected"]
        /\ UNCHANGED <<target, busy, main, accept, result, done, stop, cancelled, listener>>
    BY <1>2 DEF Connected
  <2>2. /\ socks[Out] = "new" /\ socks[OwnEnd] = "new"
        /\ OwnEnd \notin InBacklog
        /\ accept.pc = "won" => accept.sock # OwnEnd
        /\ result.sock # Out /\ result.sock # OwnEnd
    BY <1>0, <1>t, <2>1 DEF HeldInv, Held
  <2>3. CASE target = "own" /\ listener = "open"
    <3>1. /\ backlog' = Append(backlog, OwnEnd)
          /\ socks' = [socks EXCEPT ![Out] = "open", ![OwnEnd] = "open"]
      BY <1>2, <2>3 DEF Connected
    <3>2. /\ backlog' \in Seq(Socks) /\ backlog' # << >>
          /\ InBacklog' = InBacklog \cup {OwnEnd}
          /\ \A j, k \in 1..Len(backlog') : backlog'[j] = backlog'[k] => j = k
      BY <1>0, <1>t, <2>2, <3>1, BacklogAppend DEF HeldInv
    <3>3. /\ socks' \in [Socks -> {"new", "open", "closed"}]
          /\ socks'[Out] = "open" /\ socks'[OwnEnd] = "open"
          /\ \A s \in Socks : s \notin {Out, OwnEnd} => socks'[s] = socks[s]
      BY <1>0, <1>t, <3>1 DEF TypeOK
    <3>4. TypeOK'
      BY <1>0, <2>1, <3>2, <3>3 DEF TypeOK
    <3>5. HeldInv'
      <4>1. \A s \in Socks : Held(s)' => Held(s) \/ s \in {Out, OwnEnd}
        BY <2>1, <3>2 DEF Held
      <4>2. \A s \in Socks : Held(s)' => socks'[s] = "open" /\ s # result'.sock
        BY <1>0, <2>1, <2>2, <3>3, <4>1 DEF HeldInv
      <4>3. result'.sock # None => socks'[result'.sock] # "new"
        BY <1>0, <1>t, <2>1, <2>2, <3>3 DEF HeldInv
      <4>. QED
        BY <1>0, <1>t, <2>1, <2>2, <3>2, <4>2, <4>3 DEF HeldInv
    <3>6. NoLeak'
      BY <1>0, <2>1, <3>2, <3>3 DEF NoLeak, Held
    <3>7. ListenerInv'
      BY <1>0, <2>1, <2>3, <3>2 DEF ListenerInv
    <3>8. WinnerInv' /\ CancelInv'
      BY <1>t, <2>1, <2>2, <3>3, SameMain
    <3>. QED
      BY <3>4, <3>5, <3>6, <3>7, <3>8 DEF EstablishInv
  <2>4. CASE ~(target = "own" /\ listener = "open")
    <3>1. backlog' = backlog /\ socks' = [socks EXCEPT ![Out] = "open"]
      BY <1>2, <2>4 DEF Connected
    <3>2. InBacklog' = InBacklog
      BY <3>1 DEF InBacklog
    <3>3. /\ socks' \in [Socks -> {"new", "open", "closed"}]
          /\ socks'[Out] = "open"
          /\ \A s \in Socks : s # Out => socks'[s] = socks[s]
      BY <1>0, <1>t, <3>1 DEF TypeOK
    <3>4. TypeOK'
      BY <1>0, <2>1, <3>1, <3>3 DEF TypeOK
    <3>5. HeldInv'
      <4>1. \A s \in Socks : Held(s)' => Held(s) \/ s = Out
        BY <2>1, <3>2 DEF Held
      <4>2. \A s \in Socks : Held(s)' => socks'[s] = "open" /\ s # result'.sock
        BY <1>0, <2>1, <2>2, <3>3, <4>1 DEF HeldInv
      <4>3. result'.sock # None => socks'[result'.sock] # "new"
        BY <1>0, <1>t, <2>1, <2>2, <3>3 DEF HeldInv
      <4>. QED
        BY <1>0, <2>1, <3>1, <3>2, <4>2, <4>3 DEF HeldInv
    <3>6. NoLeak'
      BY <1>0, <2>1, <3>2, <3>3 DEF NoLeak, Held
    <3>7. ListenerInv'
      BY <1>0, <2>1, <3>1 DEF ListenerInv
    <3>8. WinnerInv' /\ CancelInv'
      BY <1>t, <2>1, <2>2, <3>3, SameMain
    <3>. QED
      BY <3>4, <3>5, <3>6, <3>7, <3>8 DEF EstablishInv
  <2>. QED
    BY <2>3, <2>4
<1>3. CASE ConnectWon
  <2>1. /\ connect.pc = "connected" /\ connect' = [pc |-> "ended"]
        /\ UNCHANGED <<target, busy, main, accept, stop, cancelled, listener, backlog>>
    BY <1>3 DEF ConnectWon
  <2>2. socks[Out] = "open" /\ result.sock # Out
    BY <1>0, <1>t, <2>1 DEF HeldInv, Held
  <2>3. /\ result' \in [sock : Socks \cup {None}, bind_error : BOOLEAN,
                         self_connect : BOOLEAN]
        /\ done' \in BOOLEAN
        /\ socks' \in [Socks -> {"new", "open", "closed"}]
        /\ \/ result.sock = None /\ result'.sock = Out /\ socks' = socks
           \/ /\ result'.sock = result.sock
              /\ socks'[Out] = "closed"
              /\ \A t \in Socks : t # Out => socks'[t] = socks[t]
    <3>1. CASE IsSelfConnect
      <4>1. /\ socks' = [socks EXCEPT ![Out] = "closed"]
            /\ result' = [result EXCEPT !.self_connect = TRUE]
            /\ done' = TRUE
        BY <1>3, <3>1 DEF ConnectWon
      <4>. QED
        BY <1>0, <1>t, <4>1 DEF TypeOK
    <3>2. CASE ~IsSelfConnect
      <4>1. SetResult(Out)
        BY <1>3, <3>2 DEF ConnectWon
      <4>. QED
        BY <1>0, <1>t, <4>1, SetResultFacts
    <3>. QED
      BY <3>1, <3>2
  <2>4. TypeOK'
    BY <1>0, <2>1, <2>3 DEF TypeOK
  <2>5. HeldInv'
    <3>1. \A s \in Socks : Held(s)' => Held(s) /\ s # Out
      BY <1>0, <2>1 DEF HeldInv, Held, InBacklog
    <3>2. \A s \in Socks : Held(s)' => socks'[s] = "open" /\ s # result'.sock
      BY <1>0, <2>3, <3>1 DEF HeldInv
    <3>3. result'.sock # None => socks'[result'.sock] # "new"
      BY <1>0, <1>t, <2>2, <2>3 DEF HeldInv
    <3>. QED
      BY <1>0, <2>1, <3>2, <3>3 DEF HeldInv, InBacklog
  <2>6. NoLeak'
    <3>. SUFFICES ASSUME NEW s \in Socks, socks'[s] = "open", s # result'.sock
                  PROVE  Held(s)'
      BY DEF NoLeak
    <3>1. s # Out /\ socks[s] = "open" /\ s # result.sock
      BY <1>t, <2>3
    <3>2. s \in InBacklog \/ (accept.pc = "won" /\ s = accept.sock)
      BY <1>0, <3>1 DEF NoLeak, Held
    <3>. QED
      BY <2>1, <3>2 DEF Held, InBacklog
  <2>7. ListenerInv'
    BY <1>0, <2>1 DEF ListenerInv
  <2>8. WinnerInv' /\ CancelInv'
    BY <1>t, <2>1, <2>2, <2>3, SameMain
  <2>. QED
    BY <2>4, <2>5, <2>6, <2>7, <2>8 DEF EstablishInv
<1>. QED
  BY <1>1, <1>2, <1>3 DEF ConnectWorker

(* The caller sets the stop event.                                         *)
LEMMA CallerStopsStep ==
    ASSUME EstablishInv, CallerStops
    PROVE  EstablishInv'
<1>0. TypeOK /\ WinnerInv
  BY DEF EstablishInv
<1>1. /\ ~MainEnded /\ stop' = TRUE
      /\ cancelled' = [before_win |-> result.sock = None,
                       while_waiting |-> main.pc \in {"waiting", "woken"}]
      /\ UNCHANGED <<target, busy, main, accept, connect, result, done, listener,
                     backlog, socks>>
  BY DEF CallerStops
<1>2. TypeOK'
  BY <1>0, <1>1 DEF TypeOK
<1>3. WinnerInv'
  BY <1>0, <1>1 DEF WinnerInv, MainEnded
<1>4. CancelInv'
  BY <1>1 DEF CancelInv
<1>. QED
  BY <1>1, <1>2, <1>3, <1>4, SameHeld DEF EstablishInv

(* A host dials in.                                                        *)
LEMMA DialInStep ==
    ASSUME EstablishInv, NEW s \in Inbound, DialIn(s)
    PROVE  EstablishInv'
<1>0. /\ TypeOK /\ HeldInv /\ ListenerInv /\ WinnerInv /\ CancelInv /\ NoLeak
      /\ backlog \in Seq(Socks)
  BY DEF EstablishInv, TypeOK
<1>t. /\ result.sock \in Socks \cup {None} /\ None \notin Socks
      /\ s \in Socks /\ s # Out /\ s # OwnEnd
  BY <1>0, EstablishAssumption DEF TypeOK, Socks
<1>1. /\ listener = "open" /\ socks[s] = "new"
      /\ socks' = [socks EXCEPT ![s] = "open"]
      /\ backlog' = Append(backlog, s)
      /\ UNCHANGED <<target, busy, main, accept, connect, result, done, stop,
                     cancelled, listener>>
  BY DEF DialIn
<1>2. /\ s \notin InBacklog /\ s # result.sock
      /\ accept.pc = "won" => accept.sock # s
  BY <1>0, <1>t, <1>1 DEF HeldInv, Held
<1>3. /\ backlog' \in Seq(Socks) /\ backlog' # << >>
      /\ InBacklog' = InBacklog \cup {s}
      /\ \A j, k \in 1..Len(backlog') : backlog'[j] = backlog'[k] => j = k
  BY <1>0, <1>t, <1>1, <1>2, BacklogAppend DEF HeldInv
<1>4. /\ socks' \in [Socks -> {"new", "open", "closed"}]
      /\ socks'[s] = "open"
      /\ \A t \in Socks : t # s => socks'[t] = socks[t]
  BY <1>0, <1>t, <1>1 DEF TypeOK
<1>5. TypeOK'
  BY <1>0, <1>1, <1>3, <1>4 DEF TypeOK
<1>6. HeldInv'
  <2>1. \A t \in Socks : Held(t)' => Held(t) \/ t = s
    BY <1>1, <1>3 DEF Held
  <2>2. \A t \in Socks : Held(t)' => socks'[t] = "open" /\ t # result'.sock
    BY <1>0, <1>1, <1>2, <1>4, <2>1 DEF HeldInv
  <2>3. result'.sock # None => socks'[result'.sock] # "new"
    BY <1>0, <1>t, <1>1, <1>2, <1>4 DEF HeldInv
  <2>4. connect'.pc \in {"check", "connect"} => socks'[Out] = "new" /\ socks'[OwnEnd] = "new"
    BY <1>0, <1>t, <1>1, <1>4 DEF HeldInv, Socks
  <2>. QED
    BY <1>0, <1>t, <1>1, <1>2, <1>3, <2>2, <2>3, <2>4 DEF HeldInv
<1>7. NoLeak'
  BY <1>0, <1>1, <1>3, <1>4 DEF NoLeak, Held
<1>8. ListenerInv'
  BY <1>0, <1>1 DEF ListenerInv
<1>9. WinnerInv' /\ CancelInv'
  BY <1>t, <1>1, <1>2, <1>4, SameMain
<1>. QED
  BY <1>5, <1>6, <1>7, <1>8, <1>9 DEF EstablishInv

(* The interpreter closes a winner that nobody was told of.                *)
LEMMA ReclaimStep ==
    ASSUME EstablishInv, Reclaim
    PROVE  EstablishInv'
<1>0. /\ TypeOK /\ HeldInv /\ ListenerInv /\ WinnerInv /\ CancelInv /\ NoLeak
  BY DEF EstablishInv
<1>1. /\ MainEnded /\ accept.pc = "ended" /\ connect.pc = "ended"
      /\ result.sock # None /\ main.sock # result.sock
      /\ socks' = [socks EXCEPT ![result.sock] = "closed"]
      /\ UNCHANGED <<target, busy, main, accept, connect, result, done, stop,
                     cancelled, listener, backlog>>
  BY DEF Reclaim, AllEnded, Orphan
<1>2. /\ result.sock \in Socks
      /\ socks' \in [Socks -> {"new", "open", "closed"}]
      /\ socks'[result.sock] = "closed"
      /\ \A t \in Socks : t # result.sock => socks'[t] = socks[t]
  BY <1>0, <1>1 DEF TypeOK
<1>3. TypeOK'
  BY <1>0, <1>1, <1>2 DEF TypeOK
<1>4. HeldInv' /\ NoLeak'
  BY <1>0, <1>1, <1>2 DEF HeldInv, NoLeak, Held, InBacklog
<1>5. ListenerInv'
  BY <1>0, <1>1 DEF ListenerInv
<1>6. main.pc # "returned"
  BY <1>0, <1>1 DEF WinnerInv
<1>7. WinnerInv' /\ CancelInv'
  BY <1>0, <1>1, <1>6 DEF WinnerInv, CancelInv, MainEnded
<1>. QED
  BY <1>3, <1>4, <1>5, <1>7 DEF EstablishInv

-----------------------------------------------------------------------------
(***************************************************************************)
(* The theorems.                                                           *)
(***************************************************************************)

(* At the start of the call no socket is held twice, and nothing has won.  *)
LEMMA InitInv == Init => EstablishInv
<1>. SUFFICES ASSUME Init PROVE EstablishInv
  OBVIOUS
<1>0. None \notin Socks /\ Out \in Socks /\ OwnEnd \in Socks
  BY EstablishAssumption DEF Socks
<1>1. TypeOK
  <2>1. connect.pc \in {"ended", "check"} /\ connect = [pc |-> connect.pc]
    BY DEF Init
  <2>2. connect \in [pc : {"check", "connect", "connected", "ended"}]
    BY <2>1
  <2>3. backlog \in Seq(Socks)
    BY EmptySeq DEF Init
  <2>. QED
    BY <1>0, <2>2, <2>3 DEF Init, TypeOK
<1>2. InBacklog = {}
  BY BacklogEmpty DEF Init
<1>3. HeldInv
  <2>1. \A j, k \in 1..Len(backlog) : backlog[j] = backlog[k] => j = k
    BY EmptySeq DEF Init
  <2>. QED
    BY <1>0, <1>2, <2>1 DEF Init, HeldInv, Held
<1>4. ListenerInv /\ WinnerInv /\ CancelInv /\ NoLeak
  BY DEF Init, ListenerInv, WinnerInv, CancelInv, NoLeak
<1>. QED
  BY <1>1, <1>3, <1>4 DEF EstablishInv

(* Every step of the three threads, the peer and the user keeps the        *)
(* invariant.                                                              *)
LEMMA StepInv == EstablishInv /\ [Next]_vars => EstablishInv'
<1>. SUFFICES ASSUME EstablishInv, [Next]_vars PROVE EstablishInv'
  OBVIOUS
<1>1. ASSUME UNCHANGED vars PROVE EstablishInv'
  <2>1. UNCHANGED <<target, busy, main, accept, connect, result, done, stop, cancelled,
                    listener, backlog, socks>>
    BY <1>1 DEF vars
  <2>2. TypeOK'
    BY <2>1 DEF EstablishInv, TypeOK
  <2>3. WinnerInv' /\ CancelInv'
    BY <2>1, SameMain
  <2>. QED
    BY <2>1, <2>2, <2>3, SameHeld DEF EstablishInv
<1>2. CASE MainThread \/ AcceptWorker \/ ConnectWorker
  BY <1>2, MainThreadStep, AcceptWorkerStep, ConnectWorkerStep
<1>3. CASE CallerStops \/ (\E s \in Inbound : DialIn(s)) \/ Reclaim
  BY <1>3, CallerStopsStep, DialInStep, ReclaimStep
<1>. QED
  BY <1>1, <1>2, <1>3 DEF Next, Ended

(* The inductive invariant holds in every reachable state of a call.       *)
THEOREM EstablishInvariant == Spec => []EstablishInv
<1>1. Init => EstablishInv
  BY InitInv
<1>2. EstablishInv /\ [Next]_vars => EstablishInv'
  BY StepInv
<1>. QED
  BY <1>1, <1>2, PTL DEF Spec

(* Every variable of the call keeps its type.                              *)
THEOREM TypeCorrect == Spec => []TypeOK
<1>1. EstablishInv => TypeOK
  BY DEF EstablishInv
<1>. QED
  BY <1>1, EstablishInvariant, PTL

(* The call returns the socket that won, and nobody has closed it          *)
(* (transport.py, _set_result and the end of establish_connection).        *)
THEOREM WinnerIsReturned == Spec => []ReturnedSocketIsTheWinner
<1>1. EstablishInv => ReturnedSocketIsTheWinner
  <2>. SUFFICES ASSUME EstablishInv, main.pc = "returned"
                PROVE  main.sock = result.sock /\ socks[main.sock] = "open"
    BY DEF ReturnedSocketIsTheWinner
  <2>1. WinnerInv
    BY DEF EstablishInv
  <2>2. main.sock # None /\ main.sock = result.sock
    BY <2>1 DEF WinnerInv
  <2>3. socks[result.sock] = "open"
    BY <2>1, <2>2 DEF WinnerInv
  <2>. QED
    BY <2>2, <2>3
<1>. QED
  BY <1>1, EstablishInvariant, PTL

(* A stop event set while the caller waits, before its snapshot, is        *)
(* honoured (transport.py, externally_stopped in establish_connection).    *)
THEOREM CancellationIsHonoured == Spec => []CancelWhileWaitingIsHonoured
<1>1. EstablishInv => CancelWhileWaitingIsHonoured
  <2>. SUFFICES ASSUME EstablishInv, cancelled.while_waiting, main.pc = "returned"
                PROVE  FALSE
    BY DEF CancelWhileWaitingIsHonoured
  <2>1. WinnerInv /\ CancelInv
    BY DEF EstablishInv
  <2>. QED
    BY <2>1 DEF WinnerInv, CancelInv
<1>. QED
  BY <1>1, EstablishInvariant, PTL

(* When the three threads of the call have ended, the winner is the only   *)
(* socket that can still be open: a loser was closed by its thread, a      *)
(* connection nobody accepted by the kernel (transport.py, _set_result).   *)
OnlyTheWinnerIsOpen ==
    AllEnded => \A s \in Socks : socks[s] = "open" => s = result.sock

(* Once the threads have ended no loser is left open, however the race     *)
(* went.                                                                   *)
THEOREM LosersAreNotOpen == Spec => []OnlyTheWinnerIsOpen
<1>1. EstablishInv => OnlyTheWinnerIsOpen
  <2>. SUFFICES ASSUME EstablishInv, AllEnded
                PROVE  \A s \in Socks : socks[s] = "open" => s = result.sock
    BY DEF OnlyTheWinnerIsOpen
  <2>1. NoLeak /\ ListenerInv /\ accept.pc = "ended" /\ connect.pc = "ended"
    BY DEF EstablishInv, AllEnded
  <2>2. InBacklog = {}
    BY <2>1, BacklogEmpty DEF ListenerInv
  <2>. QED
    BY <2>1, <2>2 DEF NoLeak, Held
<1>. QED
  BY <1>1, EstablishInvariant, PTL
=============================================================================
