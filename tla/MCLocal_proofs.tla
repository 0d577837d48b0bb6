--------------------------- MODULE MCLocal_proofs ---------------------------
(***************************************************************************)
(* Theorems about the setup thread, ConnectionSetup, as MCLocal instances  *)
(* it beside Settings and Payload, for every port and any number of        *)
(* devices and attributes.                                                 *)
(***************************************************************************)
EXTENDS MCLocal, Settings_proofs, Payload_proofs, SequenceTheorems

-----------------------------------------------------------------------------
(* The three parts share no state: each is as it is on its own.            *)
THEOREM PartsAreIndependent == Spec => SettingsSpec /\ PayloadSpec /\ Thread!SetupSpec
<1>1. Init => SettingsInit /\ PayloadInit /\ Thread!SetupInit
  BY DEF Init
<1>2. [Next]_vars => /\ [SettingsNext]_settings_vars
                     /\ [PayloadNext]_payload_vars
                     /\ [Thread!SetupNext]_(Thread!setup_vars)
  <2>. SUFFICES ASSUME [Next]_vars
                PROVE  /\ [SettingsNext]_settings_vars
                       /\ [PayloadNext]_payload_vars
                       /\ [Thread!SetupNext]_(Thread!setup_vars)
    OBVIOUS
  <2>1. thread_vars' = thread_vars => UNCHANGED (Thread!setup_vars)
    BY DEF thread_vars, Thread!setup_vars, Thread!search_vars
  <2>. QED
    BY <2>1 DEF Next, vars
<1>. QED
  BY <1>1, <1>2, PTL DEF Spec, SettingsSpec, PayloadSpec, Thread!SetupSpec

-----------------------------------------------------------------------------
(***************************************************************************)
(* The setup thread.                                                       *)
(***************************************************************************)

Results == [source : {"none", "upnp", "stun"},
            port_used : {NoPort, DefaultPort, <<"nat", DefaultPort>>}]

(* With the types: no device that has been looked at is a router, for then *)
(* the search is over; and what is announced as forwarded is forwarded.    *)
ThreadInv ==
    /\ Thread!SetupTypeOK
    /\ answers \in Seq(Thread!Devices)
    /\ \A k \in 1..looked : answers[k] # "router"
    /\ queue \in Seq(Results)
    /\ queue # << >> /\ queue[1].source = "upnp" => DefaultPort \in forwarded
    /\ response.list \in Seq(Thread!Attributes)

(* The range of a sequence.                                                *)
LEMMA RangeInSet ==
    ASSUME NEW S, NEW q \in Seq(S)
    PROVE  Thread!Range(q) \subseteq S
BY ElementOfSeq DEF Thread!Range

(* Whatever is read as an attribute has a length.                          *)
LEMMA AttributeLength ==
    ASSUME ThreadInv, NEW o
    PROVE  /\ Thread!HeaderAt(o).len \in Nat
           /\ Thread!Padded(Thread!HeaderAt(o).len) \in Nat
<1>1. \A a \in Thread!Attributes : a.len \in Nat
  BY DEF Thread!Attributes
<1>2. \A k \in DOMAIN response.list : response.list[k] \in Thread!Attributes
  <2>1. DOMAIN response.list = 1..Len(response.list)
    BY DEF ThreadInv
  <2>. QED
    BY <2>1, ElementOfSeq DEF ThreadInv
<1>3. Thread!HeaderAt(o).len \in Nat
  BY <1>1, <1>2 DEF Thread!HeaderAt, Thread!Garbage
<1>. DEFINE n == Thread!HeaderAt(o).len
<1>4. PICK m \in Nat : m = n
  BY <1>3
<1>5. m + ((4 - (m % 4)) % 4) \in Nat
  OBVIOUS
<1>. QED
  BY <1>3, <1>4, <1>5 DEF Thread!Padded

(* The thread ends with one result in the queue.                           *)
LEMMA PutStep ==
    ASSUME ThreadInv, pc # "ended", NEW source \in {"none", "upnp", "stun"},
           NEW port \in {NoPort, DefaultPort, <<"nat", DefaultPort>>}, Thread!Put(source, port)
    PROVE  /\ pc' = "ended" /\ queue = << >>
           /\ queue' = << [source |-> source, port_used |-> port] >>
           /\ queue' \in Seq(Results) /\ Len(queue') = 1 /\ queue' # << >>
           /\ queue'[1] = [source |-> source, port_used |-> port]
<1>1. queue = << >>
  BY DEF ThreadInv, Thread!SetupTypeOK
<1>2. queue' = << [source |-> source, port_used |-> port] >>
  BY <1>1 DEF Thread!Put
<1>3. [source |-> source, port_used |-> port] \in Results
  BY DEF Results
<1>. QED
  BY <1>1, <1>2, <1>3 DEF Thread!Put

(* A list of a response is a sequence of attributes.                       *)
LEMMA ListsAreSequences == \A list \in Thread!Lists : list \in Seq(Thread!Attributes)
BY DEF Thread!Lists

(* Every step of the thread keeps the invariant.                           *)
LEMMA ThreadStep == ThreadInv /\ [Thread!SetupNext]_(Thread!setup_vars) => ThreadInv'
<1>. SUFFICES ASSUME ThreadInv, [Thread!SetupNext]_(Thread!setup_vars) PROVE ThreadInv'
  OBVIOUS
<1>1. /\ answers \in Seq(Thread!Devices) /\ Len(answers) \in Nat /\ looked \in 0..Len(answers)
      /\ queue \in Seq(Results) /\ MaxAnswers \in Nat
  BY LocalAssumption DEF ThreadInv, Thread!SetupTypeOK
<1>2. ASSUME NEW d \in Thread!Devices, Thread!DeviceAnswers(d) PROVE ThreadInv'
  <2>1. /\ pc = "discover" /\ Len(answers) < MaxAnswers /\ answers' = Append(answers, d)
        /\ UNCHANGED <<pc, looked, forwarded, response, offset, found, queue>>
    BY <1>2 DEF Thread!DeviceAnswers
  <2>2. /\ answers' \in Seq(Thread!Devices) /\ Len(answers') = Len(answers) + 1
        /\ \A k \in 1..Len(answers) : answers'[k] = answers[k]
    BY <1>1, <2>1
  <2>3. Thread!Range(answers') \subseteq Thread!Devices
    BY <2>2, RangeInSet
  <2>. QED
    BY <1>1, <2>1, <2>2, <2>3 DEF ThreadInv, Thread!SetupTypeOK
<1>3. CASE Thread!SearchEnds
  BY <1>3 DEF Thread!SearchEnds, Thread!search_vars, Thread!Range, ThreadInv, Thread!SetupTypeOK
<1>4. ASSUME Thread!SearchOver,
             pc' \in {"external_ip", "stun"}, pc # "ended",
             UNCHANGED <<forwarded, response, offset, found, queue>>
      PROVE  ThreadInv'
  <2>1. answers' \in Seq(Thread!Devices) /\ Len(answers') = 0 /\ looked' = 0
    BY <1>4 DEF Thread!SearchOver
  <2>2. Thread!Range(answers') \subseteq Thread!Devices
    BY <2>1, RangeInSet
  <2>. QED
    BY <1>1, <1>4, <2>1, <2>2 DEF ThreadInv, Thread!SetupTypeOK
<1>5. CASE Thread!DescribeDevice
  <2>1. CASE answers[looked + 1] = "router"
    BY <1>4, <1>5, <2>1 DEF Thread!DescribeDevice
  <2>2. CASE answers[looked + 1] # "router"
    <3>1. /\ pc = "describe" /\ looked < Len(answers) /\ looked' = looked + 1
          /\ UNCHANGED <<pc, answers, forwarded, response, offset, found, queue>>
      BY <1>5, <2>2 DEF Thread!DescribeDevice
    <3>2. \A k \in 1..looked' : k \in 1..looked \/ k = looked + 1
      BY <1>1, <3>1
    <3>3. \A k \in 1..looked' : answers[k] # "router"
      BY <2>2, <3>2 DEF ThreadInv
    <3>. QED
      BY <1>1, <3>1, <3>3 DEF ThreadInv, Thread!SetupTypeOK, Thread!Range
  <2>. QED
    BY <2>1, <2>2
<1>6. CASE Thread!NoRouter
  BY <1>4, <1>6 DEF Thread!NoRouter
<1>7. ASSUME pc # "ended", pc' \in {"external_ip", "add_mapping", "stun", "parse"},
             forwarded \subseteq forwarded', forwarded' \subseteq {DefaultPort},
             UNCHANGED <<answers, looked, offset, found, queue>>,
             response'.list \in Seq(Thread!Attributes),
             response'.header \in {"none", "ours", "foreign"}
      PROVE  ThreadInv'
  BY <1>1, <1>7 DEF ThreadInv, Thread!SetupTypeOK, Thread!Range
<1>8. forwarded \subseteq {DefaultPort} /\ response.list \in Seq(Thread!Attributes)
      /\ response.header \in {"none", "ours", "foreign"}
  BY DEF ThreadInv, Thread!SetupTypeOK
<1>9. CASE Thread!GetExternalIp
  BY <1>7, <1>8, <1>9 DEF Thread!GetExternalIp, Thread!search_vars
<1>10. ASSUME NEW source \in {"none", "upnp", "stun"},
              NEW port \in {NoPort, DefaultPort, <<"nat", DefaultPort>>},
              pc # "ended", Thread!Put(source, port),
              forwarded' \subseteq {DefaultPort}, source = "upnp" => DefaultPort \in forwarded',
              (UNCHANGED <<answers, looked>>) \/ Thread!SearchOver,
              offset' \in Nat, found' \in Nat, UNCHANGED response
       PROVE  ThreadInv'
  <2>1. /\ pc' = "ended" /\ queue' \in Seq(Results) /\ Len(queue') = 1 /\ queue' # << >>
        /\ queue'[1].source = source
    BY <1>10, PutStep
  <2>2. /\ answers' \in Seq(Thread!Devices) /\ Len(answers') <= MaxAnswers
        /\ looked' \in 0..Len(answers')
        /\ \A k \in 1..looked' : answers'[k] # "router"
    BY <1>1, <1>10 DEF ThreadInv, Thread!SetupTypeOK, Thread!SearchOver
  <2>3. Thread!Range(answers') \subseteq Thread!Devices
    BY <2>2, RangeInSet
  <2>. QED
    BY <1>8, <1>10, <2>1, <2>2, <2>3 DEF ThreadInv, Thread!SetupTypeOK
<1>11. offset \in Nat /\ found \in Nat
  BY DEF ThreadInv, Thread!SetupTypeOK
<1>12. CASE Thread!AddPortMapping
  <2>1. /\ pc = "add_mapping"
        /\ UNCHANGED <<answers, looked, response, offset, found>>
    BY <1>12 DEF Thread!AddPortMapping, Thread!search_vars
  <2>2. CASE forwarded' = forwarded \cup {DefaultPort} /\ Thread!Put("upnp", DefaultPort)
    BY <1>8, <1>10, <1>11, <2>1, <2>2
  <2>3. CASE forwarded' \in {forwarded, forwarded \cup {DefaultPort}} /\ pc' = "stun" /\ UNCHANGED queue
    BY <1>7, <1>8, <2>1, <2>3
  <2>. QED
    BY <1>12, <2>2, <2>3 DEF Thread!AddPortMapping
<1>13. CASE Thread!UnexpectedError
  BY <1>8, <1>10, <1>11, <1>13 DEF Thread!UnexpectedError
<1>14. CASE Thread!NoAnswer
  BY <1>8, <1>10, <1>11, <1>14 DEF Thread!NoAnswer, Thread!search_vars
<1>15. CASE Thread!ResponseArrives
  <2>1. /\ pc = "stun" /\ pc' = "parse"
        /\ UNCHANGED <<answers, looked, forwarded, offset, found, queue>>
    BY <1>15 DEF Thread!ResponseArrives, Thread!search_vars
  <2>2. response'.list \in Seq(Thread!Attributes) /\ response'.header \in {"none", "ours", "foreign"}
    <3>1. PICK header \in {"ours", "foreign"}, list \in Thread!Lists :
             \E length \in 0..Thread!BeginOf(list, Len(list) + 1) :
                 response' = [header |-> header, list |-> list, length |-> length]
      BY <1>15 DEF Thread!ResponseArrives
    <3>. QED
      BY <3>1, ListsAreSequences
  <2>. QED
    BY <1>7, <1>8, <2>1, <2>2
<1>16. CASE Thread!ParseAttribute
  <2>1. /\ UNCHANGED <<pc, answers, looked, forwarded, response, queue>>
        /\ offset' = offset + 4 + Thread!Padded(Thread!HeaderAt(offset).len)
        /\ found' = offset + 1 \/ found' = found
    BY <1>16 DEF Thread!ParseAttribute, Thread!search_vars, Thread!HeaderBytes
  <2>2. PICK n \in Nat : n = Thread!Padded(Thread!HeaderAt(offset).len)
    BY AttributeLength
  <2>3. offset' \in Nat /\ found' \in Nat
    BY <1>11, <2>1, <2>2
  <2>. QED
    BY <1>1, <2>1, <2>3 DEF ThreadInv, Thread!SetupTypeOK, Thread!Range
<1>17. CASE Thread!ParseEnds
  <2>1. /\ pc = "parse" /\ UNCHANGED <<answers, looked, forwarded, response, offset>>
        /\ found' = offset + 1 \/ found' = found
        /\ Thread!Put("none", NoPort) \/ Thread!Put("stun", <<"nat", DefaultPort>>)
    BY <1>17 DEF Thread!ParseEnds, Thread!search_vars, Thread!ParsedPort
  <2>2. found' \in Nat
    BY <1>11, <2>1
  <2>. QED
    BY <1>8, <1>10, <1>11, <2>1, <2>2
<1>18. CASE UNCHANGED Thread!setup_vars
  BY <1>18 DEF Thread!setup_vars, Thread!search_vars, Thread!Range, ThreadInv, Thread!SetupTypeOK
<1>. QED
  BY <1>2, <1>3, <1>5, <1>6, <1>9, <1>12, <1>13, <1>14, <1>15, <1>16, <1>17, <1>18
  DEF Thread!SetupNext

(* The thread begins with nothing found, and with whatever the router      *)
(* forwards from a run before.                                             *)
LEMMA ThreadInitially == Thread!SetupInit => ThreadInv
<1>. SUFFICES ASSUME Thread!SetupInit PROVE ThreadInv
  OBVIOUS
<1>1. answers \in Seq(Thread!Devices)
  BY EmptySeq DEF Thread!SetupInit
<1>2. Thread!Range(answers) \subseteq Thread!Devices
  BY <1>1, RangeInSet
<1>. QED
  BY <1>1, <1>2, LocalAssumption
  DEF Thread!SetupInit, Thread!NoResponse, Thread!NothingFound, ThreadInv, Thread!SetupTypeOK

(* The setup thread in every reachable state.                              *)
THEOREM ThreadInvariant == Spec => []ThreadInv
BY PartsAreIndependent, ThreadInitially, ThreadStep, PTL DEF Thread!SetupSpec

(* The types of the three parts (MCLocal).                                 *)
THEOREM TypeCorrect == Spec => []TypeOK
<1>1. SettingsInv => SettingsTypeOK
  BY DEF SettingsInv
<1>2. ThreadInv => Thread!SetupTypeOK
  BY DEF ThreadInv
<1>3. SettingsTypeOK /\ PayloadTypeOK /\ Thread!SetupTypeOK => TypeOK
  BY DEF TypeOK
<1>. QED
  BY <1>1, <1>2, <1>3, PartsAreIndependent, SettingsInvariant, PayloadTypes, ThreadInvariant, PTL

(* What Settings sees of the thread is decided by where it is, and by its  *)
(* one result.                                                             *)
LEMMA SeenOfThread ==
    ASSUME ThreadInv
    PROVE  /\ pc # "ended" => Thread!SeenSetup =
                 [pc |-> IF pc \in {"stun", "parse"} THEN "stun" ELSE "upnp", port |-> DefaultPort,
                  source |-> "none", port_used |-> NoPort]
           /\ pc = "ended" => queue # << >>
<1>1. pc = "ended" <=> queue # << >>
  BY DEF ThreadInv, Thread!SetupTypeOK
<1>. QED
  BY <1>1 DEF Thread!SeenSetup

(* What it sees once the result is queued.                                 *)
LEMMA SeenResult ==
    ASSUME ThreadInv, pc # "ended", NEW source \in {"none", "upnp", "stun"},
           NEW port \in {NoPort, DefaultPort, <<"nat", DefaultPort>>}, Thread!Put(source, port)
    PROVE  Thread!SeenSetup' = [pc |-> "queued", port |-> DefaultPort, source |-> source,
                                port_used |-> port]
<1>1. /\ pc' = "ended" /\ Len(queue') = 1 /\ queue' # << >>
      /\ queue'[1] = [source |-> source, port_used |-> port]
  BY PutStep
<1>. QED
  BY <1>1 DEF Thread!SeenSetup, Thread!Last

(* Each step of the thread is one of UpnpSucceeds, UpnpFails and Stun of   *)
(* Settings, or changes nothing that is seen there.                        *)
Refined ==
    [\/ UNCHANGED <<pc, queue, forwarded>>
     \/ Thread!AbstractSettings!UpnpSucceeds
     \/ Thread!AbstractSettings!UpnpFails
     \/ Thread!AbstractSettings!Stun]_<<Thread!SeenSetup, forwarded>>

(* A failure of the router's part, which may be told or lead to STUN.      *)
LEMMA FailsAsSettings ==
    ASSUME forwarded' \in {forwarded, forwarded \cup {DefaultPort}},
           Thread!SeenSetup = [pc |-> "upnp", port |-> DefaultPort, source |-> "none",
                               port_used |-> NoPort],
           NEW next \in {"stun", "queued"},
           Thread!SeenSetup' = [pc |-> next, port |-> DefaultPort, source |-> "none",
                                port_used |-> NoPort]
    PROVE  Thread!AbstractSettings!UpnpFails
BY DEF Thread!AbstractSettings!UpnpFails, Thread!AbstractSettings!ProcessRuns,
       Thread!AbstractSettings!disk_vars, Thread!AbstractSettings!port_vars,
       Thread!AbstractSettings!app_vars

(* The router forwards the port, which is announced.                       *)
LEMMA SucceedsAsSettings ==
    ASSUME forwarded' = forwarded \cup {DefaultPort},
           Thread!SeenSetup = [pc |-> "upnp", port |-> DefaultPort, source |-> "none",
                               port_used |-> NoPort],
           Thread!SeenSetup' = [pc |-> "queued", port |-> DefaultPort, source |-> "upnp",
                                port_used |-> DefaultPort]
    PROVE  Thread!AbstractSettings!UpnpSucceeds
<1>. DEFINE queued == [Thread!SeenSetup EXCEPT !.pc = "queued", !.source = "upnp",
                                              !.port_used = DefaultPort]
<1>1. queued = [x \in {"pc", "port", "source", "port_used"} |-> queued[x]]
  OBVIOUS
<1>2. /\ queued.pc = "queued" /\ queued.port = DefaultPort
      /\ queued.source = "upnp" /\ queued.port_used = DefaultPort
  OBVIOUS
<1>. HIDE DEF queued
<1>3. queued = [pc |-> "queued", port |-> DefaultPort, source |-> "upnp",
                port_used |-> DefaultPort]
  BY <1>1, <1>2
<1>4. Thread!SeenSetup.pc = "upnp" /\ Thread!SeenSetup.port = DefaultPort
  OBVIOUS
<1>5. Thread!SeenSetup' = queued
  BY <1>3
<1>. QED
  BY <1>4, <1>5
  DEF queued, Thread!AbstractSettings!UpnpSucceeds, Thread!AbstractSettings!ProcessRuns,
      Thread!AbstractSettings!disk_vars, Thread!AbstractSettings!port_vars,
      Thread!AbstractSettings!app_vars

(* STUN gives the port of the NAT, or nothing.                             *)
LEMMA StunAsSettings ==
    ASSUME UNCHANGED forwarded,
           Thread!SeenSetup = [pc |-> "stun", port |-> DefaultPort, source |-> "none",
                               port_used |-> NoPort],
           \/ Thread!SeenSetup' = [pc |-> "queued", port |-> DefaultPort, source |-> "none",
                                   port_used |-> NoPort]
           \/ Thread!SeenSetup' = [pc |-> "queued", port |-> DefaultPort, source |-> "stun",
                                   port_used |-> <<"nat", DefaultPort>>]
    PROVE  Thread!AbstractSettings!Stun
<1>. DEFINE queued == [Thread!SeenSetup EXCEPT !.pc = "queued", !.source = "stun",
                                              !.port_used = <<"nat", DefaultPort>>]
<1>1. queued = [x \in {"pc", "port", "source", "port_used"} |-> queued[x]]
  OBVIOUS
<1>2. /\ queued.pc = "queued" /\ queued.port = DefaultPort
      /\ queued.source = "stun" /\ queued.port_used = <<"nat", DefaultPort>>
  OBVIOUS
<1>. HIDE DEF queued
<1>3. queued = [pc |-> "queued", port |-> DefaultPort, source |-> "stun",
                port_used |-> <<"nat", DefaultPort>>]
  BY <1>1, <1>2
<1>4. Thread!SeenSetup.pc = "stun" /\ Thread!SeenSetup.port = DefaultPort
  OBVIOUS
<1>5. Thread!AbstractSettings!NatPort[DefaultPort] = <<"nat", DefaultPort>>
  BY DEF Thread!AbstractSettings!NatPort
<1>6. \/ Thread!SeenSetup' = [Thread!SeenSetup EXCEPT !.pc = "queued"]
      \/ Thread!SeenSetup' = queued
  BY <1>3
<1>. QED
  BY <1>4, <1>5, <1>6
  DEF queued, Thread!AbstractSettings!Stun, Thread!AbstractSettings!ProcessRuns,
      Thread!AbstractSettings!disk_vars, Thread!AbstractSettings!port_vars,
      Thread!AbstractSettings!app_vars

(* The steps, one by one.                                                  *)
LEMMA StepIsRefined ==
    ASSUME ThreadInv, ThreadInv', [Thread!SetupNext]_(Thread!setup_vars)
    PROVE  Refined
<1>. DEFINE Seen(at) == [pc |-> at, port |-> DefaultPort, source |-> "none", port_used |-> NoPort]
<1>1. /\ pc \in {"discover", "describe", "external_ip", "add_mapping"} =>
            Thread!SeenSetup = Seen("upnp")
      /\ pc \in {"stun", "parse"} => Thread!SeenSetup = Seen("stun")
  BY SeenOfThread
<1>2. /\ pc' \in {"discover", "describe", "external_ip", "add_mapping"} =>
            Thread!SeenSetup' = Seen("upnp")
      /\ pc' \in {"stun", "parse"} => Thread!SeenSetup' = Seen("stun")
  <2>1. pc' # "ended" => queue' = << >>
    BY DEF ThreadInv, Thread!SetupTypeOK
  <2>. QED
    BY <2>1 DEF Thread!SeenSetup
<1>. HIDE DEF Seen
<1>3. ASSUME UNCHANGED <<Thread!SeenSetup, forwarded>> PROVE Refined
  BY <1>3 DEF Refined
<1>4. CASE UNCHANGED <<pc, queue, forwarded>>
  BY <1>4 DEF Refined
<1>5. ASSUME pc \in {"discover", "describe", "external_ip", "add_mapping"},
             forwarded' \in {forwarded, forwarded \cup {DefaultPort}},
             pc' = "stun" \/ Thread!Put("none", NoPort)
      PROVE  Refined
  <2>1. CASE pc' = "stun"
    BY <1>1, <1>2, <1>5, <2>1, FailsAsSettings DEF Refined, Seen
  <2>2. CASE Thread!Put("none", NoPort)
    <3>1. Thread!SeenSetup' = Seen("queued")
      BY <1>5, <2>2, SeenResult DEF Seen
    <3>. QED
      BY <1>1, <1>5, <3>1, FailsAsSettings DEF Refined, Seen
  <2>. QED
    BY <1>5, <2>1, <2>2
<1>6. ASSUME pc \in {"stun", "parse"}, UNCHANGED forwarded,
             Thread!Put("none", NoPort) \/ Thread!Put("stun", <<"nat", DefaultPort>>)
      PROVE  Refined
  <2>1. Thread!AbstractSettings!Stun
    BY <1>1, <1>6, SeenResult, StunAsSettings DEF Seen
  <2>. QED
    BY <2>1 DEF Refined
<1>7. CASE Thread!DescribeDevice \/ Thread!NoRouter \/ Thread!GetExternalIp
  <2>1. /\ UNCHANGED <<forwarded, queue>>
        /\ pc \in {"describe", "external_ip"}
        /\ pc' = pc \/ pc' \in {"external_ip", "add_mapping", "stun"}
    BY <1>7 DEF Thread!DescribeDevice, Thread!NoRouter, Thread!GetExternalIp
  <2>2. CASE pc' = "stun"
    BY <1>5, <2>1, <2>2
  <2>3. CASE pc' # "stun"
    BY <1>1, <1>2, <1>3, <2>1, <2>3
  <2>. QED
    BY <2>2, <2>3
<1>8. CASE Thread!AddPortMapping
  <2>1. CASE forwarded' = forwarded \cup {DefaultPort} /\ Thread!Put("upnp", DefaultPort)
    <3>1. pc = "add_mapping" /\ Thread!SeenSetup = Seen("upnp")
      BY <1>1, <1>8 DEF Thread!AddPortMapping
    <3>2. Thread!AbstractSettings!UpnpSucceeds
      BY <2>1, <3>1, SeenResult, SucceedsAsSettings DEF Seen
    <3>. QED
      BY <3>2 DEF Refined
  <2>2. CASE forwarded' \in {forwarded, forwarded \cup {DefaultPort}} /\ pc' = "stun"
    BY <1>5, <1>8, <2>2 DEF Thread!AddPortMapping
  <2>. QED
    BY <1>8, <2>1, <2>2 DEF Thread!AddPortMapping
<1>9. CASE Thread!UnexpectedError
  <2>1. CASE pc = "stun"
    BY <1>6, <1>9, <2>1 DEF Thread!UnexpectedError
  <2>2. CASE pc # "stun"
    BY <1>5, <1>9, <2>2 DEF Thread!UnexpectedError
  <2>. QED
    BY <2>1, <2>2
<1>10. CASE Thread!NoAnswer
  BY <1>6, <1>10 DEF Thread!NoAnswer
<1>11. CASE Thread!ParseEnds
  BY <1>6, <1>11 DEF Thread!ParseEnds, Thread!ParsedPort
<1>12. CASE Thread!SearchEnds \/ Thread!ResponseArrives
  BY <1>1, <1>2, <1>3, <1>12 DEF Thread!SearchEnds, Thread!ResponseArrives
<1>. QED
  BY <1>4, <1>7, <1>8, <1>9, <1>10, <1>11, <1>12
  DEF Thread!SetupNext, Thread!DeviceAnswers, Thread!ParseAttribute, Thread!setup_vars

(* The thread, cut at every answer of the network, is the one that         *)
(* Settings has in four steps (appearance.py, _connection_setup_worker).   *)
THEOREM ThreadRefinesSettings == Spec => ThreadImplementsSettings
<1>1. ThreadInv /\ ThreadInv' /\ [Thread!SetupNext]_(Thread!setup_vars) => Refined
  BY StepIsRefined
<1>. QED
  BY <1>1, ThreadInvariant, PartsAreIndependent, PTL
  DEF Thread!SetupSpec, ThreadImplementsSettings, Thread!ImplementsSettings, Refined

(* nat_traversal.py, discover_igd_control_url: STUN is asked for want of a *)
(* router only when no device that answered is one, in whatever order they *)
(* answer.                                                                 *)
NoRouterIsMissed ==
    [][pc = "describe" /\ pc' = "stun" => "router" \notin Thread!Range(answers)]_(Thread!setup_vars)

(* The first half of what ThreadFindsWhatIsThere says.                     *)
THEOREM RouterIsFound == Spec => NoRouterIsMissed
<1>1. ASSUME ThreadInv, Thread!SetupNext, pc = "describe", pc' = "stun"
      PROVE  "router" \notin Thread!Range(answers)
  <2>1. Thread!NoRouter
    BY <1>1
    DEF Thread!SetupNext, Thread!DeviceAnswers, Thread!SearchEnds, Thread!DescribeDevice,
        Thread!GetExternalIp, Thread!AddPortMapping, Thread!UnexpectedError, Thread!Put,
        Thread!NoAnswer, Thread!ResponseArrives, Thread!ParseAttribute, Thread!ParseEnds
  <2>2. looked = Len(answers) /\ DOMAIN answers = 1..Len(answers)
    BY <1>1, <2>1 DEF Thread!NoRouter, ThreadInv
  <2>. QED
    BY <1>1, <2>2 DEF ThreadInv, Thread!Range
<1>2. ThreadInv /\ [Thread!SetupNext]_(Thread!setup_vars) =>
         [pc = "describe" /\ pc' = "stun" =>
              "router" \notin Thread!Range(answers)]_(Thread!setup_vars)
  BY <1>1
<1>. QED
  BY <1>2, ThreadInvariant, PartsAreIndependent, PTL DEF Thread!SetupSpec, NoRouterIsMissed

=============================================================================
