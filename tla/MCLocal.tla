------------------------------ MODULE MCLocal ------------------------------
(* Small instances of Settings, Payload and ConnectionSetup for TLC.  The  *)
(* three share no state, so that interleaving their steps would show       *)
(* nothing but the product of their states.  A variable, chosen at the     *)
(* start, says which of them takes the steps.                              *)
EXTENDS Settings, Payload, TLC

CONSTANTS MaxAnswers, MaxAttributes

ASSUME LocalAssumption == MaxAnswers \in Nat /\ MaxAttributes \in Nat

VARIABLES
    part,
    pc, answers, looked, forwarded, response, offset, found, queue

Thread == INSTANCE ConnectionSetup WITH LocalPort <- DefaultPort, mapped <- forwarded

thread_vars == <<pc, answers, looked, forwarded, response, offset, found, queue>>

DemoDirs == {<<"d">>}
DemoFiles == {<<"f">>, <<"d", "g">>}

Symmetry == Permutations(SessionKeys)

vars == <<settings_vars, payload_vars, thread_vars, part>>

TypeOK == SettingsTypeOK /\ PayloadTypeOK /\ Thread!SetupTypeOK

(* Each step of the setup thread is one of Settings, or none.              *)
ThreadImplementsSettings == Thread!ImplementsSettings

(* The setup thread finds the router and the address that are there.       *)
ThreadFindsWhatIsThere == Thread!FindsWhatIsThere

Init ==
    /\ SettingsInit
    /\ PayloadInit
    /\ Thread!SetupInit
    /\ part \in {"settings", "payload", "setup"}
    /\ part # "settings" => disk.kind = "absent"
    /\ part # "setup" => forwarded = {}

Next ==
    \/ /\ part = "settings"
       /\ SettingsNext
       /\ UNCHANGED <<payload_vars, thread_vars, part>>
    \/ /\ part = "payload"
       /\ PayloadNext
       /\ UNCHANGED <<settings_vars, thread_vars, part>>
    \/ /\ part = "setup"
       /\ Thread!SetupNext
       /\ UNCHANGED <<settings_vars, payload_vars, part>>

Spec == Init /\ [][Next]_vars
=============================================================================
