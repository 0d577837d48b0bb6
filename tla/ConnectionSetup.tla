-------------------------- MODULE ConnectionSetup --------------------------
(***************************************************************************)
(* One run of the setup thread (_connection_setup_worker): it looks for a  *)
(* router in the local network and asks it to forward the port (src/src/   *)
(* nat_traversal.py); when there is none, or it declines, it asks a STUN   *)
(* server which address the NAT gives to the port (src/src/stun_client.py).*)
(* Settings has this thread in four steps, of which each is cut here at    *)
(* what the network answers; this module implements them.                  *)
(*                                                                         *)
(* An error that is not of the kind the caller expects (a cut response, a  *)
(* reply that is not XML, no network at all) ends the run at any place.    *)
(***************************************************************************)
EXTENDS Naturals, Sequences, SequencesExt, FiniteSetsExt

CONSTANTS
    LocalPort,
    NoPort,
    MaxAnswers,     \* bound: devices that answer the search
    MaxAttributes   \* bound: attributes in a STUN response

VARIABLES
    pc,             \* where the thread is
    answers,        \* the devices that have answered the search
    looked,         \* how many of their descriptions have been read
    mapped,         \* the ports the router forwards
    response,       \* the datagram that has arrived at the STUN socket
    offset, found,  \* offset and mapped of parse_binding_response
    queue           \* _conn_setup_queue

search_vars == <<answers, looked>>
setup_vars == <<pc, search_vars, mapped, response, offset, found, queue>>

(* A device is a router that can forward ports, describes something else,  *)
(* or its description cannot be had (URLError, ParseError, OSError).  One  *)
(* that answers twice is looked at once, and stands here once.             *)
Devices == {"router", "other", "unreadable"}

(* What matters of an attribute is its type, the length of its value, and  *)
(* whether the value holds an IPv4 address.  Lengths are in bytes.         *)
Attributes == {[type |-> t, len |-> n, ipv4 |-> n = 8] : t \in {"xor", "mapped"}, n \in {7, 8, 20}}
              \cup {[type |-> "other", len |-> n, ipv4 |-> FALSE] : n \in {0, 5}}
Garbage == [type |-> "other", len |-> 0, ipv4 |-> FALSE]

HeaderBytes == 4

(* Mutant: the next attribute is looked for where the value ends.          *)
Padded_Not(n) == n

(* padded_len, and what RFC 5389 makes of a value.                         *)
Padded(n) == n + ((4 - (n % 4)) % 4)

(* Where attribute k of a list begins, as a server lays it out.            *)
RoundedUp(n) == CHOOSE m \in n..(n + 3) : m % 4 = 0
BeginOf(list, k) == FoldLeft(LAMBDA sum, a : sum + HeaderBytes + RoundedUp(a.len), 0, SubSeq(list, 1, k - 1))

NoResponse == [header |-> "none", list |-> << >>, length |-> 0]

(* _XOR first, else the first of the other kind: 0 when there is neither.  *)
NothingFound == 0

-----------------------------------------------------------------------------
(* queue.put and the end of the thread.                                    *)
Put(source, port_used) ==
    /\ pc' = "ended"
    /\ queue' = Append(queue, [source |-> source, port_used |-> port_used])

(* _ssdp_discover.                                                         *)
DeviceAnswers(d) ==
    /\ pc = "discover"
    /\ Len(answers) < MaxAnswers
    /\ answers' = Append(answers, d)
    /\ UNCHANGED <<pc, looked, mapped, response, offset, found, queue>>

SearchEnds ==
    /\ pc = "discover"
    /\ pc' = "describe"
    /\ UNCHANGED <<search_vars, mapped, response, offset, found, queue>>

(* discover_igd_control_url, a round of its loop and the end of it.        *)
SearchOver == answers' = << >> /\ looked' = 0

DescribeDevice ==
    /\ pc = "describe"
    /\ looked < Len(answers)
    /\ IF answers[looked + 1] = "router"
       THEN pc' = "external_ip" /\ SearchOver
       ELSE looked' = looked + 1 /\ UNCHANGED <<pc, answers>>
    /\ UNCHANGED <<mapped, response, offset, found, queue>>

NoRouter ==
    /\ pc = "describe"
    /\ looked = Len(answers)
    /\ pc' = "stun"
    /\ SearchOver
    /\ UNCHANGED <<mapped, response, offset, found, queue>>

(* get_external_ip: an address, or UpnpActionError.                        *)
GetExternalIp ==
    /\ pc = "external_ip"
    /\ pc' \in {"add_mapping", "stun"}
    /\ UNCHANGED <<search_vars, mapped, response, offset, found, queue>>

(* add_port_mapping.  The answer may be lost after the port was forwarded. *)
AddPortMapping ==
    /\ pc = "add_mapping"
    /\ \/ /\ mapped' = mapped \cup {LocalPort}
          /\ Put("upnp", LocalPort)
       \/ /\ mapped' \in {mapped, mapped \cup {LocalPort}}
          /\ pc' = "stun"
          /\ UNCHANGED queue
    /\ UNCHANGED <<search_vars, response, offset, found>>

(* except Exception.                                                       *)
UnexpectedError ==
    /\ pc \in {"discover", "describe", "external_ip", "add_mapping", "stun"}
    /\ mapped' \in IF pc = "add_mapping" THEN {mapped, mapped \cup {LocalPort}} ELSE {mapped}
    /\ SearchOver
    /\ Put("none", NoPort)
    /\ UNCHANGED <<response, offset, found>>

-----------------------------------------------------------------------------
(* get_public_address cannot bind, gets no answer, or gets one datagram,   *)
(* whoever sent it: a foreign one is too short for a header, or its header *)
(* has another cookie, type or transaction, and attributes may follow all  *)
(* the same.  A body ends where the datagram does, or before, where the    *)
(* header says.                                                            *)
NoAnswer ==
    /\ pc = "stun"
    /\ Put("none", NoPort)
    /\ UNCHANGED <<search_vars, mapped, response, offset, found>>

Lists == UNION {[1..n -> Attributes] : n \in 0..MaxAttributes}

ResponseArrives ==
    /\ pc = "stun"
    /\ pc' = "parse"
    /\ \E header \in {"ours", "foreign"}, list \in Lists :
           \E length \in 0..BeginOf(list, Len(list) + 1) :
               response' = [header |-> header, list |-> list, length |-> length]
    /\ UNCHANGED <<search_vars, mapped, offset, found, queue>>

(* What is read as the header of an attribute at an offset of the body.    *)
HeaderAt(o) ==
    LET at == {k \in DOMAIN response.list : BeginOf(response.list, k) = o}
    IN  IF at = {} THEN Garbage ELSE response.list[CHOOSE k \in at : TRUE]

InBody(n) == n <= response.length

(* One round of the loop of parse_binding_response.  An attribute is named *)
(* by where it begins, one more so as not to be NothingFound.              *)
ParseAttribute ==
    LET attribute == HeaderAt(offset) IN
    /\ pc = "parse"
    /\ response.header = "ours"
    /\ InBody(offset + HeaderBytes)
    /\ InBody(offset + HeaderBytes + attribute.len)
    /\ ~(attribute.type = "xor" /\ attribute.ipv4)
    /\ found' = IF attribute.type = "mapped" /\ attribute.ipv4 /\ found = NothingFound
                THEN offset + 1 ELSE found
    /\ offset' = offset + HeaderBytes + Padded(attribute.len)
    /\ UNCHANGED <<pc, search_vars, mapped, response, queue>>

(* Mutant: the port that was asked for is announced, not the observed one. *)
ParsedPort_Local == LocalPort

(* The port in the attribute is the one the NAT chose.                     *)
ParsedPort == <<"nat", LocalPort>>

(* It returns an address, or raises StunError.                             *)
ParseEnds ==
    LET attribute == HeaderAt(offset)
        whole == InBody(offset + HeaderBytes) /\ InBody(offset + HeaderBytes + attribute.len)
        is_xor == attribute.type = "xor" /\ attribute.ipv4 IN
    /\ pc = "parse"
    /\ response.header = "ours" /\ whole => is_xor
    /\ found' = IF response.header = "ours" /\ whole THEN offset + 1 ELSE found
    /\ IF found' = NothingFound THEN Put("none", NoPort) ELSE Put("stun", ParsedPort)
    /\ UNCHANGED <<search_vars, mapped, response, offset>>

-----------------------------------------------------------------------------
SetupInit ==
    /\ pc = "discover"
    /\ answers = << >>
    /\ looked = 0
    /\ mapped \in SUBSET {LocalPort}
    /\ response = NoResponse
    /\ offset = 0
    /\ found = NothingFound
    /\ queue = << >>

SetupNext ==
    \/ \E d \in Devices : DeviceAnswers(d)
    \/ SearchEnds
    \/ DescribeDevice
    \/ NoRouter
    \/ GetExternalIp
    \/ AddPortMapping
    \/ UnexpectedError
    \/ NoAnswer
    \/ ResponseArrives
    \/ ParseAttribute
    \/ ParseEnds

SetupSpec == SetupInit /\ [][SetupNext]_setup_vars

SetupTypeOK ==
    /\ pc \in {"discover", "describe", "external_ip", "add_mapping", "stun", "parse", "ended"}
    /\ Len(answers) <= MaxAnswers /\ Range(answers) \subseteq Devices
    /\ looked \in 0..Len(answers)
    /\ mapped \subseteq {LocalPort}
    /\ response.header \in {"none", "ours", "foreign"}
    /\ offset \in Nat /\ found \in Nat
    /\ Len(queue) <= 1
    /\ pc = "ended" <=> queue # << >>

-----------------------------------------------------------------------------
(* The thread as Settings sees it.                                         *)
SeenSetup ==
    [pc |-> CASE queue # << >> -> "queued"
              [] pc \in {"stun", "parse"} -> "stun"
              [] OTHER -> "upnp",
     port |-> LocalPort,
     source |-> IF queue = << >> THEN "none" ELSE Last(queue).source,
     port_used |-> IF queue = << >> THEN NoPort ELSE Last(queue).port_used]

AbstractSettings ==
    INSTANCE Settings WITH Ports <- {LocalPort}, DefaultPort <- LocalPort, BadPort <- NoPort,
        MaxStarts <- 0, disk <- 0, app <- "running", profile <- 0, cli <- NoPort,
        field <- LocalPort, overridden <- FALSE, port_changed <- FALSE, setup <- SeenSetup,
        public <- 0, session <- 0, starts <- 0, confirmed <- 0, damaged <- FALSE,
        unsaved <- FALSE, typed <- NoPort

(* Each step of the thread is one of Settings or none: one result is       *)
(* queued, whatever goes wrong; the forwarded port is only announced when  *)
(* the router has it, and after STUN the one the NAT chose.  (The first    *)
(* disjunct only spares TLC the others.)                                   *)
ImplementsSettings ==
    [][\/ UNCHANGED <<pc, queue, mapped>>
       \/ AbstractSettings!UpnpSucceeds
       \/ AbstractSettings!UpnpFails
       \/ AbstractSettings!Stun]_<<SeenSetup, mapped>>

(* The attributes that have arrived whole, and the first one of a type     *)
(* that holds an address.                                                  *)
Whole == {k \in DOMAIN response.list :
              BeginOf(response.list, k) + HeaderBytes + response.list[k].len <= response.length}
Holding(type) == {k \in Whole : response.list[k].type = type /\ response.list[k].ipv4}
FirstOf(ks) == BeginOf(response.list, Min(ks)) + 1
AddressIn ==
    CASE response.header = "ours" /\ Holding("xor") # {} -> FirstOf(Holding("xor"))
      [] response.header = "ours" /\ Holding("xor") = {} /\ Holding("mapped") # {} ->
             FirstOf(Holding("mapped"))
      [] OTHER -> NothingFound

(* What is there is found: STUN is asked for want of a router only when no *)
(* device that answered is one, whatever the others were; and the response *)
(* to this query, cut anywhere, in any order, yields the first whole       *)
(* XOR-MAPPED-ADDRESS, else the first MAPPED-ADDRESS, else an error, which *)
(* is all that a datagram of another query or host yields.                 *)
FindsWhatIsThere ==
    [][/\ pc = "describe" /\ pc' = "stun" => "router" \notin Range(answers)
       /\ pc = "parse" /\ pc' = "ended" => found' = AddressIn]_setup_vars
=============================================================================
