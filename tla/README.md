# Secure File Drop in TLA+

This directory specifies and verifies the core of *secure-p2p-filedrop*
(`src/`): a desktop application with which two people send files to each other
over one TCP connection.  They agree on a key by a pass phrase and a
*handshake* packet that one of them generates and the other pastes; the
application connects the two, verifies that both have the same key, and sends
files encrypted with it.  All paths below are relative to `src/` of the
repository, so `src/appearance.py` is `src/src/appearance.py` from its root.

Contents: [the system](#the-system), [the modules](#the-modules),
[the runs](#the-runs), [what is proved](#what-is-proved),
[disagreements found](#where-code-and-documentation-disagree),
[what is not modelled](#what-is-not-modelled), [the plan](#the-plan).

To repeat everything: `tlc -config X.cfg M` for each run of the table below,
`tlapm M.tla` for each of the eight modules `*_proofs.tla` (the longest,
`Transfer_proofs`, takes five minutes).

## The system

The program is a Tkinter GUI.  One GUI thread runs every handler and a poll of
an event queue every 200 ms; background threads do what blocks and talk to the
GUI through that queue.

| Component | Where | State | Operations |
|---|---|---|---|
| Session | `src/appearance.py` 998-1602 | `local_key`, `peer_key`, salt and address, kind and text of the handshake; epoch, stop event, socket, `channel_key`, `channel_verified`, `_channel_started`, pending; the event queue and the deferred events; `_modal_depth` | generate, paste, edit a field, answer a window, reset, retry after a mismatch, start an attempt, handle an event |
| Connection establishment | `src/transport.py` 83-237 | the shared result, `done`, the stop event, the listener, the sockets | `establish_connection`, its accept thread and connect thread |
| Key verification | `src/transport.py` 246-278 | two nonces, two proofs | `verify_channel` on both ends |
| File transfer | `src/transport.py` 40-73, 287-383; `src/appearance.py` 1566-1699 | the frames in the connection; where each writer and the reader is; the files received | `send_files`, `send_ping`, `receive_files`, the workers that call them |
| Handshake packet and key | `src/connection.py` | none | `derive_key`, build and parse a packet |
| Connection setup | `src/appearance.py` 1701-1792, `src/nat_traversal.py`, `src/stun_client.py` | public host and its source, the setup queue, what the router forwards | UPnP, then STUN, then the local address |
| Profile and port | `src/local_config.py`, `src/appearance.py` 276-305, 1323-1351, 2039-2077 | the JSON file, the profile in memory, the port field | load, save, crash, precedence of the port |
| File tree and payload | `src/appearance.py` 1794-2004, `src/exchange.py` | the chosen path, the checked paths, the prepared payload | choose, check and uncheck, prepare (pack, encrypt) |
| Tuning, layout, entry point | `src/tuning.py`, rest of `src/appearance.py`, `src/secure_file_drop_entry.py` | none of the protocol | |

How they interact.  A key in the *session* starts, once per epoch, a thread
that calls *establish_connection* and then *verify_channel*, and posts exactly
one of `connected`, `connection_failed`, `verification_failed`, tagged with the
epoch.  A reset (new session, edited phrase, retry) increments the epoch, sets
the attempt's stop event, replaces it, closes the socket and drops a payload
encrypted with the old key.  `connected` starts the *receive worker*; Send
starts a *send worker* and the channel test a *ping worker*, on the same
socket, with no lock.  *Payload preparation* reads the session key, and the
Send button needs the channel, the payload and their keys to agree.

Two applications meet over the network and, for the handshake, over whatever
messenger their users have.  After a mismatch each side retries on its own,
with the same packet, and what an attempt has left behind on either side meets
the next one.

What is hard.

* The GUI thread is only atomic between windows: a handler that opens a modal
  window runs the event loop, so polls, and events, come in the middle of it.
* Threads of old epochs live on, and their events, sockets and ports with them.
* The thread of an attempt reads the address of the peer when it runs, not when
  it is started.
* Three threads race for one result in `establish_connection`, against a
  timeout, a cancellation, and a stop event that is read before the result is.
* Several writers share a socket with a reader that takes every frame in the
  middle of a file for a piece of it; both ends may block on a full connection.
* Files change between `getsize` and `read`, connections break in between.
* The two sides need not see the same outcome of one connection: one user is
  asked to correct the phrase, the other sees an error, and their next attempts
  must find each other.
* The port is in three places, the field, the listener and the address that is
  announced, and a thread, a button, the command line and the user change them.
* The check boxes describe a disk that other programs change, and one archive
  file is rewritten in place under workers and sessions.
* The profile is truncated before it is written.

What makes each component correct is stated as properties below; the full list
of hazards, with the line each one bites at and the properties that cover it,
is in `PROJECT.json`.

## The modules

| Module | Models | Lines |
|---|---|---|
| `Session` | the session of one application, with all its threads | `src/appearance.py` 892-1602, 1643-1699, 1794-2004 |
| `Channel` | abstract: what a session promises its user about the channel | |
| `Session_proofs` | theorems about `Session`, with the refinement of `Channel` | |
| `Establish` | one call of `establish_connection` | `src/transport.py` 83-237 |
| `Establish_proofs` | theorems about `Establish` | |
| `Verify` | both ends of `verify_channel`, and what their workers make of it | `src/transport.py` 246-278, `src/appearance.py` 1435-1447, 1566-1602 |
| `Verify_proofs` | theorems about `Verify` | |
| `Transfer` | the two ends of a verified channel | `src/transport.py` 40-73, 287-383 |
| `Transfer_proofs` | theorems about `Transfer` | |
| `Peers` | two sessions, their attempts and connections, and the two users | `src/appearance.py` 1064-1537, `src/transport.py` 130-278, as composed from the modules above |
| `Peers_proofs` | theorems about `Peers` | |
| `Settings` | the profile, the port, the setup thread in four steps, the address announced | `src/local_config.py`, `src/appearance.py` 276-305, 1111-1143, 1323-1351, 1714-1792, 2039-2077 |
| `Settings_proofs` | theorems about `Settings` | |
| `ConnectionSetup` | one run of the setup thread, answer by answer; implements the thread of `Settings` | `src/nat_traversal.py` 69-248, `src/stun_client.py` 38-133, `src/appearance.py` 1714-1745 |
| `Payload` | the tree of check boxes, the preparation, the archive | `src/appearance.py` 1076-1096, 1643-1699, 1794-2004, `src/exchange.py` 87-135 |
| `Payload_proofs` | theorems about `Payload` | |
| `MCLocal_proofs` | theorems about `ConnectionSetup` as `MCLocal` composes it, with the refinement of `Settings` | |
| `MCSession`, `MCTransfer`, `MCLocal` | symmetry sets and constants for TLC; `MCLocal` holds `Settings`, `Payload` and `ConnectionSetup`; `Establish`, `Verify` and `Peers` are run directly | |

`PROJECT.json` maps each definition to the lines it stands for.  Definitions
whose name ends in `_Something` directly above the definition they vary
("Mutant: ...") are deliberate faults: no behaviour of a specification uses
them, and each property is known to be violated when one of them replaces the
real definition.

### Session

State.  `hs` holds what defines the role (both keys, salt, address, kind and
text of the handshake), `ch` the attempt and the channel.  `attempts[i]` is the
i-th attempt thread and `i` also names the socket it makes; `stopped` holds the
stop events that are set; `queue` and `deferred` the events; `dialogs` the open
windows with what their handler does next (`_modal_depth` is their number).

Atomicity.  A handler is one action, with every helper it calls (`MaybeStart`
is `_maybe_start_channel_establishment`, `ResetEffects` with `HsAfter` and
`ChAfter` is `_reset_session_state`).  Only where the code opens a window is it
cut: `Click` opens it, `ConfirmYes`, `PromptOk`, `AnswerMismatch` and `Dismiss`
continue.  The poll goes on under the windows of a button, and not under the
mismatch window, for that one was opened inside the poll.  One event is one
action; since the GUI thread serves no user within a poll, the user acts only
when `deferred` is empty (`PollReturned`).  A poll is thus allowed to stop after
any event, which only adds behaviours.

Data.  A packet is a model value that stands for salt, iterations, host and
port; `derive_key` is the pair of phrase and packet.  Iterations and port are
reduced to whether the fields are valid.  `receive_closed` and `receive_error`
are one event, `send_done` and `send_error` are another; events that only change
what is displayed (progress, received file, test of the channel) are left out.
The outcome of `verify_channel` and of the network is a free choice.
`establish_connection` sets the stop event on its way out (line 208 of
`src/transport.py`) in `EstablishReturns` and `EstablishFails`.

Not in it: closing the application, the counter of seconds, and the windows
that do not raise `_modal_depth` (warnings and file dialogs), over which a
mismatch window may open.

### Channel

Four variables: the generation, the phase (idle, pending, open, failed, lost),
the key an attempt was started with and the key of the channel.  At most one
attempt in a generation; it opens the channel with the agreed key or fails; an
open channel may be lost; only a reset brings another attempt.  `FairSpec` adds
that a pending attempt ends.  `Session` implements it: `generation` is the
epoch, `Phase` is computed from the flags of `ch`.

### Establish

The calling thread is cut at every read and write of shared state:
`WaitReturns`, `SnapshotStop`, `SignalStop`, `ReadResult`, `Decide`.  The accept
thread binds, checks the events, accepts or times out, and sets the result; the
connect thread checks, connects or is refused, and sets the result.  `SetResult`
is atomic because of `result_lock`.  Clocks are abstracted: a wait may time out
at any step.  Around it: the port may be taken, hosts dial in, the kernel keeps
a backlog, the caller may set the stop event, and CPython closes a socket object
that is no longer referenced (`Reclaim`, external): a thread that wins after the
result was read leaves its socket to it.

### Verify

Both ends of one connection, each a thread that writes its nonce, reads the
peer's, writes its proof, reads the peer's proof and compares
(`side[s].pc`), closes its socket when that fails, and posts its event.  A
verified side goes on: it sends data, reads, may be reset.  TCP is a queue per
direction.  Unless the network is `reliable` (chosen at the start) a read may
time out at any moment (a late frame is a frame in the queue of a reader that
times out), the connection may be reset, and a peer may be silent: a connection
that the kernel has accepted for another program.  Closing a socket leaves the
peer what was written, unless unread data turns the close into a reset.  Nonces
are fresh, so a nonce is its sender; an HMAC is a term.  `written` and `read`
count frames for the proof.

### Transfer

Both sides, each with a reader, up to `MaxBatches` send workers and `MaxPings`
ping workers.  A frame is a record and is written whole; a connection holds
`Capacity` frames in each direction.  A file is its identity and its length in
units of which `ChunkSize` make a chunk; content that is decrypted under another
file's nonce, or out of position, is not `intact`, and its digest differs
(except that all empty contents are equal).  Three constants select who the
users are: `Orderly` users send one thing at a time (the program enforces
neither that nor a quiet channel during a test: preparing again while a worker
sends enables the Send button); `FilesChange` lets files shrink, grow or vanish
while they are sent; `MayClose` lets a side reset its session.

### Peers

`Session`, `Establish` and `Verify` look at one application, one call and one
connection.  `Peers` puts their results together: `mine` generates and listens,
`peer` pastes and connects.  Of a session it keeps the phrase, the packet and
what the user sees of the channel (`ui`); of an attempt where its thread is
(`pc`), its key, whether its socket is open and which attempt of the other side
is at the other end (`mate`).  A handler is one step.  A call of
`establish_connection` is cut where the socket is made (`Bind`, `Connect`,
`Accept`, `GivesUp`) and where it is given back (`Returns`), for a reset may come
between; the outcome of `verify_channel` is one step, as `Verify` shows that it
depends on the keys only, unless the connection breaks or a read times out.
The three hazards of the composition are here: the listener of the old attempt
holds the port when the new one binds; a connection is accepted that the other
side has given up; one side sees a mismatch and the other a network error.

Each side has two records, the present attempt and the one before it, used in
turn.  A session is not reset while its record of the attempt before the last is
still running (bound), and handshakes carry one of six salts, the first that
nobody remembers.  Editing a field without a new session, the listener that the
side that pastes also opens, and the address are left out.

### Settings

`disk` is the file with its kind (absent, valid, broken JSON, not UTF-8), `app`
where the GUI thread is: off, in the first save of defaults, running, or in the
middle of a save.  Starting, saving and closing are cut at the truncation of the
file, where a crash (`Stop`) or an error (`FailSave`) leaves it broken.  The port
is in `field` with the flag and the argument that decide about it, in `session`
(the port of the listener and the address of the handshake), in `setup` (the
port the thread was started with and its result), in `public` (the result that
was applied) and in `mapped` (what the router forwards, which outlives the
process).  A trace on the field ends the session: it is part of `TypePort` and of
`FinishSave`.  A file may be of an earlier version or edited by hand: it may lack
the port, which the default replaces, or the identifier (`NoId`), which the one
this start has generated replaces in memory and nowhere else (`Loaded`).  A whole
file whose reading fails is treated like a broken one: defaults replace it and are
saved.  One that is not UTF-8 ends the start, as does an error of that save.  The
history variables say what the profile on the disk last was, whether it was lost
since (`damaged`: cut, or not readable), and what the user typed.

### ConnectionSetup

The same thread with the network in it: devices answer the search in any number
and order, a description can be had or not, each of the two requests fails before
or after the router has acted, an error of an unexpected kind ends the run
anywhere, one datagram arrives at the STUN socket, ours or not.  The parser is
its loop over offsets: a response is a list of attributes (type, length, whether
it holds an IPv4 address), laid out and padded by the server, and cut at any
byte; a foreign datagram, which the header gives away, may hold the same.
`SeenSetup` is the refinement mapping to `setup` of `Settings`.

### Payload

`present` is the disk, `checked` the marks by path, `rows` the marks on display,
`opened` the directories whose rows are loaded.  A click on a directory walks the
disk of that moment (`Reached`), "all" likewise; choosing a directory forgets the
marks; preparing collects `Included`.  Files and directories appear and vanish at
any step.  A directory with the name of the technical one is left out wherever it
is (`Pruned`).  `archive` is the one file that packing writes in place, with what
is in it and the key it was packed with.  Packing is cut where the file is opened
and truncated (`PackBegins`) and where it ends (`PackEnds`, `PackFails`); in between
no file stands for any part of them.  The GUI thread does nothing else meanwhile
(`GuiStep` needs `~packing.on`), but the disk changes, and workers go on reading the
very file (`sending`).  A reset drops a payload bound to a key, and deleting the
file may fail.  `wanted` (history) is what the user last said of each file;
`spoiled`, that packing has failed since it last succeeded.

## The runs

| Run | Configuration, constants | Distinct states | Question |
|---|---|---|---|
| `session_safety` | `MCSession.cfg`: 2 phrases, 2 packets, `MaxEpoch` 1, `MaxSends` 1, symmetric | 237 000 | the safety of the session |
| `session_liveness` | `MCSessionLive.cfg`: 2 phrases, 1 packet, `MaxEpoch` 1, no sends | 47 000 | `Session` implements `Channel` with its fairness; sockets are closed |
| `session_send_button` | `MCSessionButton.cfg` | violated | the Send button |
| `establish` | `Establish.cfg`: 2 hosts that dial in, all targets | 12 000 | one result, one socket; the call ends, the port and the sockets are given back |
| `establish_own_listener` | `EstablishOwn.cfg` | violated | the own address as the peer's |
| `establish_stop_contract` | `EstablishStop.cfg` | violated | the contract of `stop_event` |
| `verify_network` | `Verify.cfg`: 2 keys, reliable and failing networks, one frame of data per side | 3 200 | verdicts, stream, outcomes, one-sided channels |
| `transfer_orderly` | `MCTransfer.cfg`: files of 3, 0 and 2 units, chunk 2; a sends two batches, b one, both test | 8 000 | the protocol works |
| `transfer_mixed` | `MCTransferMixed.cfg`: files of 3 and 0 units; two workers of a, one test of b, closing, changing files | 2.0 million | what survives disorder |
| `transfer_ping` | `MCTransferPing.cfg` | violated | a test during a transfer |
| `local` | `MCLocal.cfg`: 2 ports, 2 starts; a directory with a file, and a file beside it, 2 keys; 3 devices, 3 attributes; symmetric in the keys | 1.2 million | profile, port, check boxes, archive, setup thread |
| `peers` | `Peers.cfg`: 2 phrases, 2 disturbances | 134 000 | the retries of two applications meet |

### Properties of the session

* `OneRole`: never both keys; the key is the one of the phrase and the packet
  on display; the side that generated has no address to connect to.
* `ChannelIsOfThisSession`: the socket of the channel was made by the attempt of
  this epoch, for the present key and the present address (although the thread
  reads the address late), and is open.
* `ArchiveKeyIsSessionKey`: no archive under an old key is ready, or is being
  sent on the present channel.
* `OneAttemptPerEpoch`: one thread per reset, and on a stop event nobody has set
  (the call sets it itself, so that reusing it would end the next attempt).
* `PendingHasOutcome`: no outcome of the pending attempt is lost, in a deferral
  least of all.
* `WindowsInOrder`: windows never overlap, the mismatch window is about the
  present attempt, and the phrase is asked for only when writing it into its
  field resets nothing (dev-notes calls this a deliberate invariant).
* `VerifiedHasReader`: a channel that is shown as verified is being read.
* `ImplementsFairChannel`: the refinement, safety and liveness: a pending attempt
  opens the channel, with the key it was started with, or fails, or is reset.
* `SocketsAreClosed`: the socket of an attempt that was given up is closed.

Bounds.  The phenomena need two keys (two phrases, two packets) and one reset:
an old attempt, an old event or an old archive beside the new ones.  (The
refinement was also checked with two resets and one phrase, 316 000 states.)
`MaxEpoch` bounds what the user resets and, in
`VerifyRaises`, the mismatches, each of which leads to a retry.  The safety
properties marked in [What is proved](#what-is-proved) do not depend on these
bounds.

Fairness.  Weak for each attempt thread (its waits have timeouts) and for the
poll (rescheduled every 200 ms).  Strong for `HandleVerificationFailed` and
`Answer`: a deferred mismatch goes round the queue while another window is open,
so "the user does not have a window open at every single poll" and "the user
answers a window although polls run in between" are assumptions about the user
which the code needs and cannot enforce.  Nothing is assumed about clicking.

### Properties of the establishment

* `ReturnedSocketIsTheWinner`: the returned socket is the shared result, open,
  and stays so.
* `CancelWhileWaitingIsHonoured`: a stop event set before its snapshot is
  honoured even if a thread has won already.
* `CallEnds`: the call returns or raises, and afterwards the listener is closed
  for good: a later attempt can bind the port.
* `LosersAreClosed`: every socket but the returned one is closed in the end.
  Both under weak fairness of the three threads (every blocking call in them has
  a timeout) and of `Reclaim` (reference counting).

Two inbound hosts and the connect thread give three candidates for the one
result, one more than the race needs.

### Properties of the verification

* `VerdictIsRight`: only sides with the same key verify each other, and a
  mismatch is raised only when the keys are different.
* `StreamInStep`: a side that waits for the proof finds the proof even if the
  peer is already sending files, and a verified side finds data: `Transfer` may
  start from an empty connection.
* `OutcomeIsPosted`: a silent peer cannot hold the worker.
* `NoOneSidedChannel`: a side that has verified and whose peer has given up
  learns that the channel is broken.  Fairness: weak for the workers (every
  read has a timeout) and for the receive worker, which is woken by a closed or
  reset connection; a host that vanishes without either is outside the model.
* `VerdictIsMutual`: on a reliable network both users see the same verdict.

Two keys distinguish equal from different; one frame of data per side suffices
to have data behind a proof.

### Properties of the transfer

* `ReaderInStep`, `TransfersComplete`: when the users are orderly no reader falls
  out of step, every batch started is received whole (`BatchesAreReceived`), every
  test is answered (`PingsAreAnswered`).  Fairness: weak for the readers, strong
  for the writers of a socket, among which the kernel starves none.
* `BatchesArriveInOrder`: with two workers mixed on one socket, changing files
  and closed connections, the files accepted of a batch still are its first
  ones, in order, and once each.
* `NoSilentPartialFile`: a file that was not accepted is on the disk only while
  it is received or after the reader has stopped, which the user is shown.
* `PongsAreAnswers`: no pong is reported that was not asked for.

The batches have a file of several chunks with a shorter last one, an empty file
and a file of exactly one chunk; two frames of capacity make writers block.
`transfer_mixed` and `transfer_ping` do not check deadlock: a reader that has
stopped with an error does not close its socket, and the peer's writer then
waits for ever once the connection is full.  That is what the code does.

### Properties of what is kept locally

* `PortsAgree`: the port on display is the one the session listens on; the one
  its handshake announces is that port in the local network, and otherwise always
  what the setup found for the port it was started with: forwarded after UPnP, the
  NAT's after STUN.  (Not for a port edited since; see the disagreements.)
* `FieldFollowsPrecedence`: the user's port, else the command line's, else the
  profile's, through saves, as long as none has failed.
* `ProfileSurvivesRestart` (action property): the application comes back with the
  port it had, and as the same client where its file has one; when the file was cut
  anywhere, or could not be read, it comes back with defaults, as one new client,
  and all of that is on the disk.  Nothing in between.
* `MarksAreTrue`: the box at a file says what the user last said of it.
* `PayloadIsTheSelection` (action property): what is prepared is what exists and
  was not taken out when the preparation began, with or without a row, never
  anything of a technical directory; an archive is offered for what it was made of.
* `ArchiveOpens`: unless packing has failed, the archive that is ready is whole and
  the one that was prepared, with the key of the present session or none; and what
  a worker reads, at any moment, an archive that is being rewritten under it
  included, has the key of its channel or none.  It does not say that a worker
  reads one archive from its beginning to its end: the code lets it read half of
  each.
* `ThreadImplementsSettings`: every step of the detailed setup thread is a step of
  `Settings`' or none: exactly one result, about the right port.
* `ThreadFindsWhatIsThere` (action property): no router that answered is missed
  whatever the devices before it were; the parser of the STUN response agrees
  with its definition (first whole XOR-MAPPED-ADDRESS, else MAPPED-ADDRESS) for
  every list of attributes cut at every byte, and takes nothing from a datagram
  that is not the answer.

The three machines of this run share no state, so a variable (`part`), chosen at
the start, selects the one that moves.  Two ports tell the field from the
profile; two starts let the second find what the first left.  The tree has a
directory that is opened late, with a file in it, beside a file: the smallest in
which a mark is set without a row.  (With a directory of the technical name inside
that one, and a file in it, the payload alone has 1.1 million states, which were
checked once; the theorems hold for every tree.)  Two keys tell one session from the
next.
Three attributes give an unusable one before a MAPPED one before an XOR one.
Deadlock is not checked: an application that is off, and may not start again, a
tree without files, and a thread that has ended stop.

### Properties of two peers

* `ChannelComesUp`: after at most two disturbances, anywhere (a wrong phrase, a
  cancelled window, a session replaced without need, a timeout, a thread that
  notices late that it is to stop, a port still held), both users have a channel,
  to each other, and keep it.
* `NoChannelToThePast`: a side whose channel leads to an attempt its peer has
  given up does not keep it.

Fairness.  A step is *usual* or it is a disturbance (`Usual`, `MaxTrouble`): the
bound is what makes "once it stops" expressible.  The usual steps are weakly fair:
threads run, queues are polled, windows are answered with the agreed phrase, a
failed or lost session is replaced.  Pasting is strongly fair, as windows come in
between.  All of this is about the users and the scheduler; what the code
contributes is that nothing of the old attempt, not its listener, its connection
or its event, can keep the new ones apart for ever.  One disturbance sends each
side through a retry, two through a retry of the retry on one side while the other
is still in the first.  Deadlock is not checked: when both channels are open
there is nothing left to do.

## What is proved

All of it is checked by TLAPS to the last step.

`Session_proofs.tla`, for every set of phrases and packets and every number of
resets and sends.  Assumption: `SessionAssumption` in `Session` (the model
values differ from each other, the bounds are naturals).

| Theorem | Property |
|---|---|
| `SessionInvariant` | `SessionInv`, the inductive invariant |
| `TypeCorrect` | `TypeOK` |
| `RoleIsExclusive` | `OneRole` |
| `ChannelAgreesWithSession` | `ChannelIsOfThisSession` |
| `ArchiveAgreesWithSession` | `ArchiveKeyIsSessionKey` |
| `AttemptsAreUnique` | `OneAttemptPerEpoch` |
| `OldAttemptsAreStopped` | `OldAttemptsStopped` |
| `WindowsStayInOrder` | `WindowsInOrder` |
| `OutcomeInvariant` | `OutcomeInv`, the second half of the inductive invariant |
| `PendingAlwaysHasOutcome` | `PendingHasOutcome` |
| `VerifiedAlwaysHasReader` | `VerifiedHasReader` |
| `SessionImplementsChannel` | `Spec => AbstractChannel!Spec`, the safety of `ImplementsFairChannel` |

The argument.  None of these is inductive alone, not even `TypeOK`: a retry uses
the stored packet and salt, so the type of the next state depends on which of
them is present, which depends on the role; a prompt performs `next`, so what a
window remembers matters.  `SessionInv` is

* `TypeOK`;
* `RoleInv`: the kind of the handshake says which key is set, a role has the
  salt or the packet its retry needs, and the key is the one of phrase and
  packet;
* `WindowInv`: at most one window, and what each kind of window remembers;
* `AttemptsInv`: an attempt's stop event is its epoch, there is one per epoch
  and none beyond the present, old ones are stopped, and the attempt of the
  present epoch has the session key and, once read, the present address;
* `EventsInv`: no waiting event is of a later epoch, and a `connected` event
  carries the key and the socket of an attempt that has ended, a socket that is
  open if the event is of this epoch;
* `ChannelInv`: a socket is the one of the present attempt, verified needs a
  socket, nothing is set before the attempt is started;
* `WorkInv`: archives ready, or being sent in this epoch, have the session key.

The module first proves lemmas about the helpers (what a reset keeps, what
starting an attempt adds) and about sequences (`Append`, `Tail` and the set of
waiting events), then one lemma per action, then the theorem.  Each property
follows from the invariant.

That no outcome is lost, and none is counted twice, needs more than `SessionInv`,
which does not know where the end of an attempt is.  `OutcomeInv` says that a
pending attempt has exactly one of a running thread, one event in the queue, one
event among the deferred ones; that the channel has no socket before; and that a
verified one has its socket and its reader.  Its proof follows the positions of
the events through `Append` and `Tail`, and proves in the same pass, action by
action, that the step is one of `Channel` under the refinement mapping or leaves
it alone (`Simulated`): an event handled in the present epoch is the only one, so
the phase it ends is *pending*.  `SessionImplementsChannel` follows; what
`ImplementsFairChannel` adds to it, that a pending attempt ends, is fairness.

`Establish_proofs.tla`, for every set of inbound connections and every choice of
the peer's address.  Assumption: `EstablishAssumption` (the names of the sockets
differ from each other).

| Theorem | Property |
|---|---|
| `EstablishInvariant` | `EstablishInv`, the inductive invariant |
| `TypeCorrect` | `TypeOK` |
| `WinnerIsReturned` | `ReturnedSocketIsTheWinner` |
| `CancellationIsHonoured` | `CancelWhileWaitingIsHonoured` |
| `LosersAreNotOpen` | `OnlyTheWinnerIsOpen` (in the module; no run) |

The argument is about ownership.  `Held` names the places where a socket is
before the race is decided: the backlog, the accept thread, the connect thread.
`HeldInv`: it is in one of them at a time, open while it is there, and is not the
result yet.  `ListenerInv`: a backlog needs an open listener, and the accept thread
closes its own.  `WinnerInv`: the caller has read the result or nothing, and
nobody closes the winner before the call has failed.  `CancelInv`: what was set
while the caller waited is in its snapshot.  `NoLeak`: an open socket is held or
has won; when the three threads have ended nothing is held.

`Verify_proofs.tla`, for every set of keys, every number of data frames and
a network that is reliable or not.  Assumption: `VerifyAssumption`.

| Theorem | Property |
|---|---|
| `VerifyInvariant` | `VerifyInv`, the inductive invariant |
| `TypeCorrect` | `TypeOK` |
| `VerdictsAreRight` | `VerdictIsRight` |
| `StreamStaysInStep` | `StreamInStep` |

The argument.  Each side writes one stream: its nonce, the HMAC of the peer's
nonce under its key, then data.  `ProgressInv` says how much a side has written
and read at each place in the code, `WireInv` that a wire holds the peer's
stream from where the reader stands, `CountInv` that nothing is missing while
the connection lasts.  A reader's next frame is therefore known, and the second
frame equals the expected proof exactly when the keys are equal.  Three lemmas
(writing the next frame, reading one, losing a tail) carry all the actions.

`Transfer_proofs.tla`, for every batch of files of any length, chunk size, capacity
of the connection, and number of Sends and tests.  Assumption:
`TransferAssumption` (a batch has a file; chunk and capacity are positive).

| Theorem | Property |
|---|---|
| `OriginInvariant` | `OriginInv`, the first inductive invariant |
| `TypeCorrect` | `TypeOK` |
| `PartialFilesAreSeen` | `NoSilentPartialFile` |
| `PongsAlwaysAnswer` | `PongsAreAnswers` |
| `BatchesAlwaysArriveInOrder` | `BatchesArriveInOrder` |
| `OrderlyReaderStaysInStep` | `ReaderInStep`, when `Orderly` and not `FilesChange` |

The argument has four layers.  `OriginInv`: types, and every frame and every file
being read comes from the peer.  `TestsInv` counts: a test is a thread that has
yet to write, a ping on the wire, an answer about to be written, a pong on the
wire, or a pong reported, and no step makes two of one.  `Streams` gives each
unread frame a place, between files or at an offset in one: the first frame is
expected where the reader stands, each next one behind the one before, and the
last leaves off where the one active worker is (`Aligned`, `ReaderAligned`,
`WritersAligned`, `OneAtATime`); a test and a file are never on the way together.
`OrderInv` is about users who do as they like.  Headers and checksums are written
in order and once (`WrittenInOrder`); what was accepted is earlier in its batch
than what is read, and that than what is on the wire (`ReadInOrder`); while the
reader has lost nothing no file is left out (`NoneLeftOut`).  A reader that lost a
chunk accepts nothing more, so what it has accepted stays a beginning of the batch.

The hypotheses of `OrderlyReaderStaysInStep` are the constants of the run
`transfer_orderly`.  The program does not enforce them (`transfer_mixed` and
`transfer_ping` show what happens without); the other five theorems have no such
hypothesis.

`Settings_proofs.tla`, for every set of ports and any number of starts.
Assumption: `SettingsAssumption` (the default is a port, the model value for "no
port" is none).

| Theorem | Property |
|---|---|
| `SettingsInvariant` | `SettingsInv`, the inductive invariant (with the types) |
| `PortsStayInAgreement` | `PortsAgree` |
| `FieldKeepsPrecedence` | `FieldFollowsPrecedence` |
| `ProfileIsKept` | `ProfileSurvivesRestart` |

The argument.  `PortsAgree` is about the session, but what it says depends on what
was public when the handshake was generated, and that on what the thread has
found.  `SetupInv` says how a result relates to the thread's port and the router;
`SessionInv` that the address of the handshake is the field's, or still the
public one (a result is applied once, and only to what was unknown before);
`ProcessInv` that neither survives the process.  `FieldInv` holds between the two
halves of a save too, where the profile is ahead of the field.  `FileInv` ties the
file to the profile last confirmed: whole, and holding it, unless it was lost; what
was lost has nothing left to read, and the defaults that are about to replace it
are those of the present start.  So a start either loads what was confirmed, with
an identifier of its own if there was none, or replaces all of it.

`Payload_proofs.tla`, for every tree of files and directories and every number of
keys.  Assumption: `PayloadAssumption` (a path is a sequence of names, not empty;
the archive's own path is not among those of the user's files; no path is both a
file and a directory).

| Theorem | Property |
|---|---|
| `PayloadInvariant` | `PayloadInv`, the inductive invariant |
| `MarksStayTrue` | `MarksAreTrue` |
| `ArchiveStaysOpen` | `ArchiveOpens` |
| `PreparedIsSelected` | `PayloadIsTheSelection` |
| `PayloadTypes` | `PayloadTypeOK` |

The argument.  What the user sees of a file says nothing of a file without a row,
so the invariant is about what the code remembers: for every file, on the disk or
not, `_file_tree_checked` with its default says what the user last said of it, and
every row shows what is remembered.  Lemmas tell what walking a directory finds
(existing files below it, outside of technical directories, never the archive), and
that marking and inserting rows keep the invariant.  `PackingInv` says what the
archive is between the truncation and the end of the packing, when it is not what
was prepared but may be what a worker reads: its key is the session's or none, and
stays so because no reset comes in between.  `PayloadTypes` then adds that no row or
mark is of a path outside the tree, and that no directory is loaded without a row.

`Peers_proofs.tla`, for every set of phrases and every number of disturbances.
Assumption: `PeersAssumption` (the agreed phrase is a phrase).  The two records
per side and the six salts are part of the model.

| Theorem | Property |
|---|---|
| `PeersInvariant` | `PeersInv`, the inductive invariant |
| `TypeCorrect` | `TypeOK`, which also ties what a user sees to the thread and its socket |
| `OpenChannelsAgree` | `OpenOnOneKey` (in the module; no run) |
| `TogetherOnOneKey` | two users who see each other's channel have one phrase and one handshake |

The argument.  `KeyInv`: the key of a present attempt is the phrase and packet of
its session, and what the peer's user was sent is the packet of `mine`.
`ThreadInv`: which threads have a connection, and which an open one.  `AgreeInv`
is what survives the retries: the far end of a connection that one side trusts
was made with the same key or has turned to another connection, and is never an
attempt that has yet to be connected.  Starting an attempt keeps it, since the
record that is used again is taken out of every `mate` that named it.  `TypeOK`
needs that one of the six salts is always unused (`FreshIsNew`): the four attempts
hold at most four, and the sessions and the user no other.

`MCLocal_proofs.tla`, for every port and every number of devices and attributes.
Assumption: `LocalAssumption` (the two bounds are naturals), with those of
`Settings` and `Payload`.

| Theorem | Property |
|---|---|
| `PartsAreIndependent` | what is proved of `Settings` and `Payload` alone holds of the composition |
| `ThreadInvariant` | `ThreadInv`, the inductive invariant of the setup thread |
| `TypeCorrect` | `TypeOK` |
| `ThreadRefinesSettings` | `ThreadImplementsSettings` |
| `RouterIsFound` | `NoRouterIsMissed`, the first half of `ThreadFindsWhatIsThere` |

The argument.  `ThreadInv`: no device looked at so far is a router, and a result of
source `upnp` is about a port the router forwards.  Under the mapping the step
to STUN, or an error before it, is `UpnpFails` of `Settings`, the mapped port is
`UpnpSucceeds`, and what ends the query is `Stun`; every other answer of the
network is a stutter.

Only model-checked.

* Liveness, and what rests on fairness: `ImplementsFairChannel` (its safety part is
  proved), `SocketsAreClosed`, `CallEnds`, `LosersAreClosed`, `TransfersComplete`,
  `OutcomeIsPosted`, `NoOneSidedChannel`, `VerdictIsMutual`, `ChannelComesUp`,
  `NoChannelToThePast`.  The prover does not treat fairness and `ENABLED`.
* The second half of `ThreadFindsWhatIsThere`, that the parser of the STUN response
  computes what its definition says: the parser is a fold over a list, and its
  result for every list is an induction over data.
* The disagreements below, which are counterexamples.

Proved and without a run: `OldAttemptsStopped`, `OnlyTheWinnerIsOpen`,
`OpenOnOneKey`, `NoRouterIsMissed`.  Refuted and without a run: the four named under
[disagreements](#where-code-and-documentation-disagree).

## Where code and documentation disagree

* **The Send button** (`session_send_button`).  The comment at the button
  (`src/appearance.py:758`) says it is active only with a prepared payload and a
  verified channel.  The end of a send enables it whatever has become of either
  (line 1549).  The click is refused by the checks in `on_send_files`.
* **The own listener as peer** (`establish_own_listener`).  The docstring
  (`src/transport.py:108`) says the own address raises `ConnectionFailed`; with
  the listener open, the connect thread reaches the accept thread over two
  sockets of different addresses, and one of them is returned.
* **The contract of `stop_event`** (`establish_stop_contract`).  The docstring
  (`src/transport.py:112`) promises that an event set before a thread wins is
  honoured; it is not when it is set between the snapshot and the win.
* **Errors of the verification** (no run: a stale sentence).  The docstring of
  `verify_channel` (`src/transport.py:254`) and `docs/dev-notes.md:165` say that
  the worker does not tell a network error from a mismatch.  It does
  (`src/appearance.py:1442`), as `docs/dev-notes.md:232` says.
* **Channel tests** (`transfer_ping`).  The docstring (`src/transport.py:330`)
  calls them transparent; a ping between the frames of a file is taken for its
  content, and the reader stops for good.

Four more are definitions of the modules that no run checks.  TLC refutes each of
them when it takes the place of the properties in `MCLocal.cfg`:

* **The client of a file without one** (`ClientIsFixed`).  The docstring of
  `load_config` (`src/local_config.py:61`) says that the defaults are saved so that
  `client_id` is fixed by the first start and not generated anew each time.  A
  readable file without an identifier, as in `tests/test_local_config.py:74`, gets a
  new one at every start (line 72) that is not saved.  A whole file whose reading
  raises `OSError` is overwritten with defaults and a new client (lines 77-81), which
  `ProfileSurvivesRestart` has as what the code does.
* **A saved default port** (`SavedPortIsShown`).  `docs/dev-notes.md:202` and the
  comment at `src/appearance.py:2058` say when a changed default goes into the port
  field.  `on_save_profile` replaces the profile in memory (line 2050) before it
  writes the file: after a write that fails, the save that succeeds finds the port
  unchanged (line 2048), and the field stays behind.
* **The port announced after UPnP** (`UpnpPortIsLocal`).  `docs/dev-notes.md:121`
  says it is the local one.  A port edited after the setup has run is listened on,
  and the old one, which the router forwards to nobody, is announced
  (`effective_port`, `src/appearance.py:1120`).
* **The key of an archive that is sent** (`SentArchiveHasChannelKey`).  The docstring
  of `_payload_matches_channel_key` (`src/appearance.py:1605`) says that an AES
  archive must have the key of the channel.  With a plain archive ready, packing with
  AES that fails half-way (line 1966) has rewritten the file with the session key,
  while the payload and `_transfer_archive_key`, "the key the archive is really
  encrypted with" (comment at line 1976), stay: a reset does not drop it, and a
  session with another key sends it.

Seen while modelling, and without a property, because the model has them as what the
code does and nothing in the repository promises otherwise:

* A profile that is not UTF-8 is not replaced by defaults: `load_config` catches
  `JSONDecodeError` and `OSError`, not `UnicodeDecodeError`, and the start ends.
  A port that is `Infinity` in the file ends it too (`int()` raises
  `OverflowError` in `_parse_port`).
* Preparing again while a worker sends rewrites the archive under the worker: the
  receiver gets the beginning of one and the end of the other, the checksum being
  that of what was read.
* A file created in a directory after the directory was unchecked is sent: the mark
  of a directory is not that of what comes later.
* A reader that has stopped with an error leaves its socket open, and the peer's
  writer waits for ever once the connection is full (`transfer_mixed` reaches such
  states and does not check deadlock).  A reader that answers a test into a full
  connection stops reading; two sides that send and test at once could so wait for
  each other, but in `transfer_orderly` no pong meets a full connection, and in
  `transfer_mixed` only one side tests.
* A generating side whose attempt starts while its old listener still holds the
  port gives up at once (dev-notes call this a narrow window); the users must start
  again (`Bind` of `Peers`).

## What is not modelled

Left out for good: the layout and styling of the GUI, tooltips, the log, texts and
progress (display only); tuning constants other than as bounds; XML, HTTP and the
bytes of addresses; the format of the handshake packet (a packet is a value);
cryptographic strength; the frame length limit and the check of paths in file
headers; the splitting of one large frame by another writer; closing the
application in the middle of a session, which ends all of its threads.

## The plan

Done, in this order: `Session` with its proofs, `Channel`, `Establish`,
`Transfer`, `Verify` with its proofs, `Settings` and `Payload` with theirs,
`Peers`, `ConnectionSetup`; then the proofs about `Establish`, `Transfer`, `Peers`
and the setup thread, and the refinements of `Channel` and of `Settings`.  Every
safety property of a run is now stated by a theorem, but for the parser.  To come:

1. `Peers` from its parts: that what it assumes of a call and of a verification is
   what `Establish` and `Verify` are proved to do.
2. The handshake packet as an operator over bounded inputs.
