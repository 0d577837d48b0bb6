-------------------------- MODULE Settings_proofs --------------------------
(***************************************************************************)
(* Theorems about Settings, for every set of ports and any number of       *)
(* starts.                                                                 *)
(***************************************************************************)
EXTENDS Settings, TLAPS

(* The setup thread: the result it queues is about the port it was started *)
(* with, and what is public is the result that has been applied.           *)
SetupInv ==
    /\ setup.pc = "idle" => setup = NoSetup
    /\ setup.pc # "idle" => setup.port \in Ports
    /\ setup.pc \in {"upnp", "stun"} => setup.source = "none" /\ setup.port_used = NoPort
    /\ setup.source = "none" => setup.port_used = NoPort
    /\ setup.source = "upnp" => setup.port_used = setup.port /\ setup.port \in mapped
    /\ setup.source = "stun" => setup.port_used = NatPort[setup.port]
    /\ setup.pc # "applied" => public = NoPublic
    /\ setup.pc = "applied" => public = [source |-> setup.source, port |-> setup.port_used]

(* The session: it listens on the port in the field, and the address it    *)
(* announces is the field's or was public when it was generated.           *)
SessionInv ==
    /\ session.role = "none" => session = NoSession
    /\ session.role # "none" => session.local_port = field /\ field \in Ports
    /\ session.role = "peer" => session.source = "none"
    /\ session.role = "mine" =>
         \/ session.source = "none" /\ session.port = field
         \/ /\ session.source # "none"
            /\ session.source = public.source /\ session.port = public.port

(* No process, no session and no thread.                                   *)
ProcessInv == ~ProcessRuns => session = NoSession /\ setup = NoSetup /\ public = NoPublic

(* The field, between the two halves of a save too.                        *)
FieldInv ==
    ProcessRuns =>
        \/ overridden /\ field = typed
        \/ ~overridden /\ cli # NoPort /\ field = cli
        \/ /\ ~overridden /\ cli = NoPort
           /\ unsaved \/ field = profile.port \/ (app = "saving" /\ port_changed)

(* The file: whole, and holding what was confirmed, but for a write that   *)
(* is under way or was cut; then there is nothing to read in it, and the   *)
(* defaults of this start are about to be saved.                           *)
FileInv ==
    /\ app = "first_save" => damaged /\ profile = Defaults(starts)
    /\ app = "saving" => disk.kind # "valid"
    /\ damaged => disk.kind # "valid"
    /\ app # "saving" /\ ~damaged =>
           /\ disk.kind = "valid"
           /\ ParsePort(disk.port) = confirmed.port
           /\ disk.id # NoId => disk.id = confirmed.id

SettingsInv == SettingsTypeOK /\ SetupInv /\ SessionInv /\ ProcessInv /\ FieldInv /\ FileInv

-----------------------------------------------------------------------------
(* What is loaded, and what is saved and loaded again, is a profile.       *)
LEMMA LoadedIsProfile ==
    /\ \A file \in Disks, n \in 0..MaxStarts : Loaded(file, n) \in Profiles
    /\ \A p \in Profiles : /\ Written(p) \in Disks /\ Written(p).kind = "valid"
                           /\ ParsePort(Written(p).port) = p.port /\ Written(p).id = p.id
<1>1. \A file \in Disks, n \in 0..MaxStarts : Loaded(file, n) \in Profiles
  <2>. SUFFICES ASSUME NEW file \in Disks, NEW n \in 0..MaxStarts
                PROVE  Loaded(file, n) \in Profiles
    OBVIOUS
  <2>1. file.id \in 0..NoId /\ file.id # NoId => file.id \in 0..ChosenId
    BY SettingsAssumption DEF ChosenId, NoId
  <2>2. n \in 0..ChosenId
    BY SettingsAssumption DEF ChosenId
  <2>3. ParsePort(file.port) \in Ports
    BY SettingsAssumption DEF ParsePort
  <2>4. file.id \in 0..NoId
    BY DEF Disks
  <2>. QED
    BY <2>1, <2>2, <2>3, <2>4 DEF Loaded, Profiles
<1>2. \A n \in 0..ChosenId : n \in 0..NoId
  BY SettingsAssumption DEF ChosenId, NoId
<1>3. \A p \in Profiles : Written(p) \in Disks
  BY <1>2 DEF Written, Profiles, Disks
<1>. QED
  BY <1>1, <1>3 DEF Written, ParsePort, Profiles

(* A file of which there is nothing to read.                               *)
LEMMA UnreadableIsDisk ==
    ASSUME NEW kind \in {"absent", "broken", "undecodable"}
    PROVE  Unreadable(kind) \in Disks /\ Unreadable(kind).kind # "valid"
<1>1. NoId \in 0..NoId
  BY SettingsAssumption DEF NoId
<1>. QED
  BY <1>1 DEF Unreadable, Disks

LEMMA ProfilesAreConfirmed == Profiles \subseteq [id : 0..NoId, port : Ports]
<1>1. \A n \in 0..ChosenId : n \in 0..NoId
  BY SettingsAssumption DEF ChosenId, NoId
<1>. QED
  BY <1>1 DEF Profiles

LEMMA DefaultsAreProfile ==
    ASSUME NEW n \in 0..MaxStarts
    PROVE  Defaults(n) \in Profiles
BY SettingsAssumption DEF Defaults, Profiles, ChosenId

LEMMA NothingTypes ==
    /\ NoPublic \in Publics
    /\ NoSession \in Sessions
    /\ NoSetup \in Setups
BY DEF NoPublic, NoSession, NoSetup, Publics, Sessions, Setups

(* Coming up with a profile establishes everything but what is on the disk.*)
LEMMA ComingUp ==
    ASSUME NEW p \in Profiles, NEW c \in Ports \cup {BadPort, NoPort},
           ComesUp(p, c), profile' = p, cli' = c
    PROVE  /\ field' \in Ports \cup {BadPort}
           /\ overridden' = FALSE /\ typed' = NoPort /\ unsaved' = FALSE
           /\ confirmed' = p /\ damaged' = FALSE /\ app' = "running"
           /\ setup' \in Setups
           /\ public' = NoPublic /\ session' = NoSession
           /\ SetupInv' /\ SessionInv' /\ ProcessInv' /\ FieldInv'
<1>. DEFINE port == IF c = NoPort THEN p.port ELSE c
<1>1. port \in Ports \cup {BadPort}
  BY DEF Profiles
<1>2. /\ field' = port
      /\ setup' = IF port \in Ports THEN [NoSetup EXCEPT !.pc = "upnp", !.port = port]
                                    ELSE NoSetup
      /\ overridden' = FALSE /\ typed' = NoPort /\ unsaved' = FALSE
      /\ confirmed' = p /\ damaged' = FALSE /\ app' = "running"
      /\ public' = NoPublic /\ session' = NoSession
  BY DEF ComesUp
<1>3. SetupInv'
  BY <1>1, <1>2 DEF SetupInv, NoSetup, NoPublic
<1>4. SessionInv'
  BY <1>2 DEF SessionInv, NoSession
<1>5. ProcessInv'
  BY <1>2 DEF ProcessInv, ProcessRuns
<1>6. FieldInv'
  BY <1>2 DEF FieldInv
<1>7. setup' \in Setups
  BY <1>2 DEF NoSetup, Setups
<1>. HIDE DEF port
<1>. QED
  BY <1>1, <1>2, <1>3, <1>4, <1>5, <1>6, <1>7

-----------------------------------------------------------------------------
(* At the start there is no process, and nothing is promised of the file.  *)
LEMMA SettingsInitially == SettingsInit => SettingsInv
<1>. SUFFICES ASSUME SettingsInit PROVE SettingsInv
  OBVIOUS
<1>1. SettingsTypeOK
  <2>1. disk \in Disks
    <3>1. 0 \in 0..NoId /\ NoId \in 0..NoId
      BY SettingsAssumption DEF NoId
    <3>2. CASE disk \in {Unreadable(kind) : kind \in {"absent", "broken", "undecodable"}}
      BY <3>2, UnreadableIsDisk
    <3>3. CASE disk \in [kind : {"valid"}, id : {0, NoId}, port : Ports \cup {BadPort}]
      BY <3>1, <3>3 DEF Disks
    <3>. QED
      BY <3>2, <3>3 DEF SettingsInit
  <2>2. Defaults(0) \in Profiles
    BY SettingsAssumption, DefaultsAreProfile
  <2>3. starts \in 0..MaxStarts
    BY SettingsAssumption DEF SettingsInit
  <2>4. confirmed \in [id : 0..NoId, port : Ports] /\ damaged \in BOOLEAN
    BY <2>1, SettingsAssumption DEF SettingsInit, Disks, ParsePort
  <2>. QED
    BY <2>1, <2>2, <2>3, <2>4, NothingTypes, SettingsAssumption DEF SettingsInit, SettingsTypeOK
<1>2. SetupInv /\ SessionInv /\ ProcessInv
  BY DEF SettingsInit, SetupInv, SessionInv, ProcessInv, ProcessRuns, NoSetup, NoSession, NoPublic
<1>3. FieldInv /\ FileInv
  BY DEF SettingsInit, FieldInv, FileInv, ProcessRuns
<1>. QED
  BY <1>1, <1>2, <1>3 DEF SettingsInv

(* Starting with a file that can be read, or with the defaults.            *)
LEMMA StartIsKept ==
    ASSUME SettingsInv, NEW c \in Ports \cup {BadPort, NoPort}, Start(c)
    PROVE  SettingsInv'
<1>. USE DEF SettingsInv
<1>1. starts' \in 0..MaxStarts /\ starts' \in Nat
  BY SettingsAssumption DEF Start, SettingsTypeOK
<1>2. CASE disk.kind = "valid" /\ profile' = Loaded(disk, starts') /\ ComesUp(profile', c)
           /\ UNCHANGED <<disk, mapped>>
  <2>1. profile' \in Profiles /\ profile' \in [id : 0..NoId, port : Ports]
    BY <1>1, <1>2, LoadedIsProfile, ProfilesAreConfirmed DEF SettingsTypeOK
  <2>2. cli' = c /\ port_changed' = FALSE
    BY DEF Start
  <2>3. /\ field' \in Ports \cup {BadPort}
        /\ overridden' = FALSE /\ typed' = NoPort /\ unsaved' = FALSE
        /\ confirmed' = profile' /\ damaged' = FALSE /\ app' = "running"
        /\ setup' \in Setups
        /\ public' = NoPublic /\ session' = NoSession
        /\ SetupInv' /\ SessionInv' /\ ProcessInv' /\ FieldInv'
    BY <1>2, <2>1, <2>2, ComingUp
  <2>4. FileInv'
    BY <1>2, <2>3 DEF FileInv, Loaded
  <2>5. SettingsTypeOK'
    BY <1>1, <1>2, <2>1, <2>2, <2>3, NothingTypes DEF SettingsTypeOK
  <2>. QED
    BY <2>3, <2>4, <2>5
<1>3. CASE /\ app' = "first_save"
           /\ profile' = Defaults(starts')
           /\ disk' = Truncated
           /\ damaged' = TRUE
           /\ UNCHANGED <<net_vars, session, field, overridden, typed, unsaved, confirmed>>
  <2>1. app = "off" /\ cli' = c /\ port_changed' = FALSE
    BY DEF Start
  <2>3. Defaults(starts') \in Profiles
    BY <1>1, DefaultsAreProfile
  <2>4. disk' \in Disks /\ disk'.kind # "valid"
    BY <1>3, UnreadableIsDisk DEF Truncated
  <2>5. SettingsTypeOK'
    BY <1>1, <1>3, <2>1, <2>3, <2>4 DEF SettingsTypeOK, net_vars
  <2>6. FileInv'
    BY <1>3, <2>4 DEF FileInv, Defaults
  <2>7. SetupInv' /\ SessionInv' /\ ProcessInv' /\ FieldInv'
    BY <1>3, <2>1 DEF SetupInv, SessionInv, ProcessInv, FieldInv, ProcessRuns, net_vars
  <2>. QED
    BY <2>5, <2>6, <2>7
<1>4. CASE UNCHANGED <<disk_vars, net_vars, session, field, overridden, typed,
                       app, profile, unsaved>>
  <2>1. app = "off" /\ cli' = c /\ port_changed' = FALSE
    BY DEF Start
  <2>2. SettingsTypeOK'
    BY <1>1, <1>4, <2>1 DEF SettingsTypeOK, net_vars, disk_vars
  <2>3. SetupInv' /\ SessionInv' /\ ProcessInv' /\ FieldInv' /\ FileInv'
    BY <1>4, <2>1 DEF SetupInv, SessionInv, ProcessInv, FieldInv, FileInv, ProcessRuns,
                      ParsePort, net_vars, disk_vars
  <2>. QED
    BY <2>2, <2>3
<1>. QED
  BY <1>2, <1>3, <1>4 DEF Start

(* The other two ways to come up or go down.                               *)
LEMMA FinishFirstSaveIsKept ==
    ASSUME SettingsInv, FinishFirstSave
    PROVE  SettingsInv'
<1>1. /\ profile \in Profiles /\ cli \in Ports \cup {BadPort, NoPort}
      /\ profile \in [id : 0..NoId, port : Ports]
  BY ProfilesAreConfirmed DEF SettingsInv, SettingsTypeOK
<1>2. /\ disk' = Written(profile) /\ ComesUp(profile, cli)
      /\ UNCHANGED <<profile, cli, port_changed, mapped, starts>>
  BY DEF FinishFirstSave
<1>3. /\ field' \in Ports \cup {BadPort}
      /\ overridden' = FALSE /\ typed' = NoPort /\ unsaved' = FALSE
      /\ confirmed' = profile /\ damaged' = FALSE /\ app' = "running"
      /\ setup' \in Setups
      /\ public' = NoPublic /\ session' = NoSession
      /\ SetupInv' /\ SessionInv' /\ ProcessInv' /\ FieldInv'
  BY <1>1, <1>2, ComingUp
<1>4. /\ disk' \in Disks /\ disk'.kind = "valid"
      /\ ParsePort(disk'.port) = profile.port /\ disk'.id = profile.id
  BY <1>1, <1>2, LoadedIsProfile
<1>5. FileInv'
  BY <1>3, <1>4 DEF FileInv, ParsePort
<1>6. SettingsTypeOK'
  BY <1>1, <1>2, <1>3, <1>4, NothingTypes DEF SettingsInv, SettingsTypeOK
<1>. QED
  BY <1>3, <1>5, <1>6 DEF SettingsInv

LEMMA StopIsKept ==
    ASSUME SettingsInv, Stop
    PROVE  SettingsInv'
<1>. USE DEF SettingsInv
<1>1. /\ app' = "off"
      /\ session' = NoSession /\ setup' = NoSetup /\ public' = NoPublic
      /\ damaged' = (damaged \/ app \in {"first_save", "saving"})
      /\ UNCHANGED <<disk, confirmed, cli, field, overridden, typed, mapped, profile,
                     port_changed, starts, unsaved>>
  BY DEF Stop, port_vars
<1>2. damaged' \in BOOLEAN
  BY <1>1
<1>3. SettingsTypeOK'
  BY <1>1, <1>2, NothingTypes DEF SettingsTypeOK
<1>4. SetupInv' /\ SessionInv' /\ ProcessInv' /\ FieldInv'
  BY <1>1 DEF SetupInv, SessionInv, ProcessInv, FieldInv, ProcessRuns, NoSetup, NoSession
<1>5. FileInv'
  <2>1. CASE damaged'
    <3>1. disk.kind # "valid"
      <4>1. app = "first_save" \/ app = "saving" \/ damaged
        BY <1>1, <2>1
      <4>. QED
        BY <4>1 DEF FileInv
    <3>. QED
      BY <1>1, <2>1, <3>1 DEF FileInv
  <2>2. CASE ~damaged'
    <3>1. ~damaged /\ app # "saving"
      BY <1>1, <2>2
    <3>. QED
      BY <1>1, <2>2, <3>1 DEF FileInv, ParsePort
  <2>. QED
    BY <2>1, <2>2
<1>. QED
  BY <1>3, <1>4, <1>5

-----------------------------------------------------------------------------
(* Saving by the button.                                                   *)
LEMMA SavingIsKept ==
    ASSUME SettingsInv,
           \/ \E p \in [id : {profile.id, ChosenId}, port : Ports] : SaveProfile(p)
           \/ FinishSave
           \/ FailSave
    PROVE  SettingsInv'
<1>. USE DEF SettingsInv
<1>1. ASSUME NEW p \in [id : {profile.id, ChosenId}, port : Ports], SaveProfile(p)
      PROVE  SettingsInv'
  <2>1. p \in Profiles
    BY SettingsAssumption DEF SettingsTypeOK, Profiles, ChosenId
  <2>2. /\ app = "running" /\ profile' = p
        /\ port_changed' = (p.port # profile.port)
        /\ UNCHANGED <<confirmed, cli, field, overridden, typed, setup, public, mapped, starts,
                       session, damaged>>
    BY <1>1 DEF SaveProfile, port_vars, net_vars
  <2>3. \/ app' = "saving" /\ disk' = Truncated /\ UNCHANGED unsaved
        \/ unsaved' = TRUE /\ UNCHANGED <<app, disk>>
    BY <1>1 DEF SaveProfile
  <2>4. disk' \in Disks /\ (app' = "saving" => disk'.kind # "valid")
    BY <2>2, <2>3, UnreadableIsDisk DEF SettingsTypeOK, Truncated
  <2>5. port_changed' \in BOOLEAN /\ unsaved' \in BOOLEAN
    BY <2>2, <2>3 DEF SettingsTypeOK
  <2>6. SettingsTypeOK'
    BY <2>1, <2>2, <2>3, <2>4, <2>5 DEF SettingsTypeOK
  <2>7. SetupInv' /\ SessionInv' /\ ProcessInv'
    BY <2>2, <2>3 DEF SetupInv, SessionInv, ProcessInv, ProcessRuns
  <2>8. FieldInv'
    <3>1. CASE p.port = profile.port
      BY <2>2, <2>3, <3>1 DEF FieldInv, ProcessRuns
    <3>2. CASE p.port # profile.port
      <4>1. port_changed'
        BY <2>2, <3>2
      <4>. QED
        BY <2>2, <2>3, <4>1 DEF FieldInv, ProcessRuns
    <3>. QED
      BY <3>1, <3>2
  <2>9. FileInv'
    <3>1. CASE app' = "saving" /\ disk' = Truncated
      <4>1. disk'.kind # "valid"
        BY <2>4, <3>1
      <4>. QED
        BY <2>2, <3>1, <4>1 DEF FileInv
    <3>2. CASE UNCHANGED <<app, disk>>
      BY <2>2, <3>2 DEF FileInv, ParsePort
    <3>. QED
      BY <2>3, <3>1, <3>2
  <2>. QED
    BY <2>6, <2>7, <2>8, <2>9
<1>2. CASE FinishSave
  <2>1. /\ app = "saving" /\ app' = "running" /\ disk' = Written(profile)
        /\ confirmed' = profile /\ damaged' = FALSE
        /\ field' = IF SyncsField THEN profile.port ELSE field
        /\ session' = IF SyncsField THEN NoSession ELSE session
        /\ UNCHANGED <<cli, overridden, typed, setup, public, mapped, profile, port_changed,
                       starts, unsaved>>
    BY <1>2 DEF FinishSave, Invalidated, net_vars
  <2>2. /\ profile \in Profiles /\ profile.port \in Ports
        /\ profile \in [id : 0..NoId, port : Ports]
    BY ProfilesAreConfirmed DEF SettingsTypeOK, Profiles
  <2>3. /\ disk' \in Disks /\ disk'.kind = "valid"
        /\ ParsePort(disk'.port) = profile.port /\ disk'.id = profile.id
    BY <2>1, <2>2, LoadedIsProfile
  <2>4. field' \in Ports \cup {BadPort} /\ session' \in Sessions
    BY <2>1, <2>2, NothingTypes DEF SettingsTypeOK
  <2>5. SettingsTypeOK'
    BY <2>1, <2>2, <2>3, <2>4 DEF SettingsTypeOK
  <2>6. SetupInv' /\ ProcessInv'
    BY <2>1 DEF SetupInv, ProcessInv, ProcessRuns
  <2>7. SessionInv'
    BY <2>1 DEF SessionInv, NoSession
  <2>8. FieldInv'
    BY <2>1 DEF FieldInv, ProcessRuns, SyncsField
  <2>9. FileInv'
    BY <2>1, <2>3 DEF FileInv, ParsePort
  <2>. QED
    BY <2>5, <2>6, <2>7, <2>8, <2>9
<1>3. CASE FailSave
  <2>1. /\ app = "saving" /\ app' = "running" /\ damaged' = TRUE /\ unsaved' = TRUE
        /\ UNCHANGED <<disk, confirmed, cli, field, overridden, typed, setup, public, mapped,
                       profile, port_changed, starts, session>>
    BY <1>3 DEF FailSave, port_vars, net_vars
  <2>2. SettingsTypeOK'
    BY <2>1 DEF SettingsTypeOK
  <2>3. SetupInv' /\ SessionInv' /\ ProcessInv' /\ FieldInv' /\ FileInv'
    BY <2>1 DEF SetupInv, SessionInv, ProcessInv, FieldInv, FileInv, ProcessRuns
  <2>. QED
    BY <2>2, <2>3
<1>. QED
  BY <1>1, <1>2, <1>3

(* The user's edits and the session.                                       *)
LEMMA SessionIsKept ==
    ASSUME SettingsInv,
           \/ \E p \in Ports \cup {BadPort} : TypePort(p)
           \/ Generate
           \/ Paste
           \/ EndSession
    PROVE  SettingsInv'
<1>. USE DEF SettingsInv
<1>1. ASSUME NEW p \in Ports \cup {BadPort}, TypePort(p) PROVE SettingsInv'
  <2>1. /\ field' = p /\ typed' = p /\ overridden' = TRUE /\ session' = NoSession
        /\ UNCHANGED <<disk, confirmed, damaged, setup, public, mapped, app, profile,
                       port_changed, starts, unsaved, cli>>
    BY <1>1 DEF TypePort, Invalidated, disk_vars, net_vars, app_vars
  <2>2. SettingsTypeOK'
    BY <2>1, NothingTypes DEF SettingsTypeOK
  <2>3. SetupInv' /\ SessionInv' /\ ProcessInv' /\ FieldInv' /\ FileInv'
    BY <2>1 DEF SetupInv, SessionInv, ProcessInv, FieldInv, FileInv, ProcessRuns, NoSession,
                  ParsePort
  <2>. QED
    BY <2>2, <2>3
<1>2. ASSUME Generate \/ Paste \/ EndSession,
             session' \in Sessions, SessionInv', app = "running"
      PROVE  SettingsInv'
  <2>1. UNCHANGED <<disk, confirmed, damaged, cli, field, overridden, typed, setup, public, mapped,
                    app, profile, port_changed, starts, unsaved>>
    BY <1>2 DEF Generate, Paste, EndSession, disk_vars, port_vars, net_vars, app_vars
  <2>2. SettingsTypeOK'
    BY <1>2, <2>1 DEF SettingsTypeOK
  <2>3. SetupInv' /\ ProcessInv' /\ FieldInv' /\ FileInv'
    BY <1>2, <2>1 DEF SetupInv, ProcessInv, FieldInv, FileInv, ProcessRuns, ParsePort
  <2>. QED
    BY <1>2, <2>2, <2>3
<1>3. CASE Generate
  <2>1. /\ app = "running" /\ field \in Ports
        /\ session' = [role |-> "mine", local_port |-> field, source |-> public.source,
                       port |-> EffectivePort]
        /\ UNCHANGED <<field, public>>
    BY <1>3 DEF Generate, port_vars, net_vars
  <2>2. public \in Publics /\ Ports \subseteq AnnouncedPorts
    BY DEF SettingsTypeOK, AnnouncedPorts
  <2>3. session' \in Sessions
    BY <2>1, <2>2 DEF EffectivePort, Sessions, Publics
  <2>4. public.source = "none" => public.port = NoPort
    BY DEF SetupInv, NoPublic
  <2>5. SessionInv'
    <3>1. CASE public.port = NoPort
      <4>1. public.source = "none"
        <5>1. setup \in Setups
          BY DEF SettingsTypeOK
        <5>2. \A p \in Ports : p # NoPort /\ NatPort[p] # NoPort
          BY SettingsAssumption DEF AnnouncedPorts
        <5>. QED
          BY <3>1, <5>1, <5>2 DEF SetupInv, NoPublic, Setups
      <4>. QED
        BY <2>1, <3>1, <4>1 DEF SessionInv, EffectivePort
    <3>2. CASE public.port # NoPort
      <4>1. public.source # "none"
        BY <3>2, <2>4
      <4>. QED
        BY <2>1, <3>2, <4>1 DEF SessionInv, EffectivePort
    <3>. QED
      BY <3>1, <3>2
  <2>. QED
    BY <1>2, <1>3, <2>1, <2>3, <2>5
<1>4. CASE Paste
  <2>1. /\ app = "running" /\ field \in Ports
        /\ session' = [NoSession EXCEPT !.role = "peer", !.local_port = field]
        /\ UNCHANGED <<field, public>>
    BY <1>4 DEF Paste, port_vars, net_vars
  <2>2. session' \in Sessions /\ SessionInv'
    BY <2>1 DEF Sessions, SessionInv, NoSession
  <2>. QED
    BY <1>2, <1>4, <2>1, <2>2
<1>5. CASE EndSession
  <2>1. app = "running" /\ session' = NoSession
    BY <1>5 DEF EndSession
  <2>2. session' \in Sessions /\ SessionInv'
    BY <2>1, NothingTypes DEF SessionInv, NoSession
  <2>. QED
    BY <1>2, <1>5, <2>1, <2>2
<1>. QED
  BY <1>1, <1>3, <1>4, <1>5

(* The setup thread and the poll of its result.                            *)
LEMMA SetupIsKept ==
    ASSUME SettingsInv, UpnpSucceeds \/ UpnpFails \/ Stun \/ ApplySetup
    PROVE  SettingsInv'
<1>. USE DEF SettingsInv
<1>1. /\ UNCHANGED <<disk, confirmed, damaged, cli, field, overridden, typed, app, profile,
                     port_changed, starts, unsaved, session>>
      /\ ProcessRuns
  BY DEF UpnpSucceeds, UpnpFails, Stun, ApplySetup, ProcessRuns, disk_vars, port_vars, app_vars
<1>2. setup \in Setups /\ public \in Publics /\ mapped \subseteq Ports /\ session \in Sessions
  BY DEF SettingsTypeOK
<1>3. FieldInv' /\ FileInv' /\ ProcessInv'
  BY <1>1 DEF FieldInv, FileInv, ProcessInv, ProcessRuns, ParsePort
<1>4. ASSUME setup' \in Setups, public' \in Publics, mapped' \subseteq Ports
      PROVE  SettingsTypeOK'
  BY <1>1, <1>4 DEF SettingsTypeOK
<1>5. CASE UpnpSucceeds
  <2>1. /\ setup.pc = "upnp"
        /\ mapped' = mapped \cup {setup.port}
        /\ setup' = [setup EXCEPT !.pc = "queued", !.source = "upnp", !.port_used = setup.port]
        /\ public' = public
    BY <1>5 DEF UpnpSucceeds
  <2>2. setup.port \in Ports /\ setup.port \in AnnouncedPorts
    BY <2>1 DEF SetupInv, AnnouncedPorts
  <2>3. setup' \in Setups /\ public' \in Publics /\ mapped' \subseteq Ports
    BY <1>2, <2>1, <2>2 DEF Setups
  <2>4. SetupInv' /\ SessionInv'
    BY <1>1, <1>2, <2>1, <2>2 DEF SetupInv, SessionInv, Setups
  <2>. QED
    BY <1>3, <1>4, <2>3, <2>4
<1>6. CASE UpnpFails
  <2>1. /\ setup.pc = "upnp"
        /\ mapped' \in {mapped, mapped \cup {setup.port}}
        /\ \E pc \in {"stun", "queued"} : setup' = [setup EXCEPT !.pc = pc]
        /\ public' = public
    BY <1>6 DEF UpnpFails
  <2>2. setup.port \in Ports
    BY <2>1 DEF SetupInv
  <2>3. setup' \in Setups /\ public' \in Publics /\ mapped' \subseteq Ports
    BY <1>2, <2>1, <2>2 DEF Setups
  <2>4. SetupInv' /\ SessionInv'
    BY <1>1, <1>2, <2>1, <2>2 DEF SetupInv, SessionInv, Setups
  <2>. QED
    BY <1>3, <1>4, <2>3, <2>4
<1>7. CASE Stun
  <2>1. /\ setup.pc = "stun"
        /\ mapped' = mapped
        /\ \/ setup' = [setup EXCEPT !.pc = "queued", !.source = "stun",
                                     !.port_used = NatPort[setup.port]]
           \/ setup' = [setup EXCEPT !.pc = "queued"]
        /\ public' = public
    BY <1>7 DEF Stun
  <2>2. setup.port \in Ports /\ NatPort[setup.port] \in AnnouncedPorts
    BY <2>1 DEF SetupInv, AnnouncedPorts
  <2>3. setup' \in Setups /\ public' \in Publics /\ mapped' \subseteq Ports
    BY <1>2, <2>1, <2>2 DEF Setups
  <2>4. SetupInv' /\ SessionInv'
    BY <1>1, <1>2, <2>1, <2>2 DEF SetupInv, SessionInv, Setups
  <2>. QED
    BY <1>3, <1>4, <2>3, <2>4
<1>8. CASE ApplySetup
  <2>1. /\ setup.pc = "queued"
        /\ public' = [source |-> setup.source, port |-> setup.port_used]
        /\ setup' = [setup EXCEPT !.pc = "applied"]
        /\ mapped' = mapped
    BY <1>8 DEF ApplySetup
  <2>2. setup' \in Setups /\ public' \in Publics
    BY <1>2, <2>1 DEF Setups, Publics
  <2>3. SetupInv'
    BY <1>2, <2>1 DEF SetupInv, Setups
  <2>4. SessionInv'
    <3>1. public = NoPublic
      BY <2>1 DEF SetupInv
    <3>2. session.role = "mine" => session.source = "none" /\ session.port = field
      BY <3>1 DEF SessionInv, NoPublic
    <3>. QED
      BY <1>1, <3>2 DEF SessionInv
  <2>. QED
    BY <1>2, <1>3, <1>4, <2>1, <2>2, <2>3, <2>4
<1>. QED
  BY <1>5, <1>6, <1>7, <1>8

-----------------------------------------------------------------------------
(* A step, or none, preserves the invariant.                               *)
LEMMA SettingsStep ==
    ASSUME SettingsInv, [SettingsNext]_settings_vars
    PROVE  SettingsInv'
<1>1. ASSUME NEW c \in Ports \cup {BadPort, NoPort}, Start(c) PROVE SettingsInv'
  BY <1>1, StartIsKept
<1>2. CASE FinishFirstSave
  BY <1>2, FinishFirstSaveIsKept
<1>3. CASE Stop
  BY <1>3, StopIsKept
<1>4. ASSUME \/ \E p \in [id : {profile.id, ChosenId}, port : Ports] : SaveProfile(p)
             \/ FinishSave
             \/ FailSave
      PROVE  SettingsInv'
  BY <1>4, SavingIsKept
<1>5. ASSUME \/ \E p \in Ports \cup {BadPort} : TypePort(p)
             \/ Generate
             \/ Paste
             \/ EndSession
      PROVE  SettingsInv'
  BY <1>5, SessionIsKept
<1>6. CASE UpnpSucceeds \/ UpnpFails \/ Stun \/ ApplySetup
  BY <1>6, SetupIsKept
<1>7. CASE UNCHANGED settings_vars
  <2>1. UNCHANGED <<disk, confirmed, damaged, cli, field, overridden, typed, setup, public, mapped,
                    app, profile, port_changed, starts, unsaved, session>>
    BY <1>7 DEF settings_vars, disk_vars, port_vars, net_vars, app_vars
  <2>2. SettingsTypeOK'
    BY <2>1 DEF SettingsInv, SettingsTypeOK
  <2>3. SetupInv' /\ SessionInv' /\ ProcessInv' /\ FieldInv' /\ FileInv'
    BY <2>1 DEF SettingsInv, SetupInv, SessionInv, ProcessInv, FieldInv, FileInv, ProcessRuns,
                ParsePort
  <2>. QED
    BY <2>2, <2>3 DEF SettingsInv
<1>. QED
  BY <1>1, <1>2, <1>3, <1>4, <1>5, <1>6, <1>7 DEF SettingsNext

(* The invariant holds in every run of the application, and of any number  *)
(* of its successors (the profile, the field, the setup and the session of *)
(* appearance.py).                                                         *)
THEOREM SettingsInvariant == SettingsSpec => []SettingsInv
<1>1. SettingsInit => SettingsInv
  BY SettingsInitially
<1>2. SettingsInv /\ [SettingsNext]_settings_vars => SettingsInv'
  BY SettingsStep
<1>. QED
  BY <1>1, <1>2, PTL DEF SettingsSpec

(* What the session listens on is what the field shows, and what the       *)
(* handshake announces is that port or what the setup has found for its    *)
(* own (on_generate_handshake, the traces of the field and                 *)
(* _poll_connection_setup).                                                *)
THEOREM PortsStayInAgreement == SettingsSpec => []PortsAgree
<1>1. SettingsInv => PortsAgree
  <2>. SUFFICES ASSUME SettingsInv, session.role # "none" PROVE
           /\ session.local_port = field
           /\ session.role = "mine" /\ session.source = "none" => session.port = field
           /\ session.source = "upnp" => session.port = setup.port /\ setup.port \in mapped
           /\ session.source = "stun" => session.port = NatPort[setup.port]
    BY DEF PortsAgree
  <2>. USE DEF SettingsInv
  <2>1. session.local_port = field
    BY DEF SessionInv
  <2>2. session.role = "mine" /\ session.source = "none" => session.port = field
    BY DEF SessionInv
  <2>3. session \in Sessions /\ setup \in Setups
    BY DEF SettingsTypeOK
  <2>4. session.source # "none" =>
            session.source = public.source /\ session.port = public.port
    BY <2>3 DEF SessionInv, Sessions
  <2>5. session.source # "none" =>
            session.source = setup.source /\ session.port = setup.port_used
    BY <2>4 DEF SetupInv, NoPublic
  <2>. QED
    BY <2>1, <2>2, <2>5 DEF SetupInv
<1>. QED
  BY <1>1, SettingsInvariant, PTL

(* The user's port goes before the command line's, and that one before the *)
(* profile's (_build_ui, _on_port_var_write and on_save_profile).          *)
THEOREM FieldKeepsPrecedence == SettingsSpec => []FieldFollowsPrecedence
<1>1. SettingsInv => FieldFollowsPrecedence
  BY DEF SettingsInv, SettingsTypeOK, FieldInv, FieldFollowsPrecedence, ProcessRuns
<1>. QED
  BY <1>1, SettingsInvariant, PTL

(* What the file has of the client and the port is kept by every start;    *)
(* what was lost is replaced once, and saved (load_config, save_config).   *)
THEOREM ProfileIsKept == SettingsSpec => ProfileSurvivesRestart
<1>. DEFINE Up == app \in {"off", "first_save"} /\ app' = "running"
            Kept == /\ profile'.port = confirmed.port
                    /\ (disk.id # NoId => profile'.id = confirmed.id)
            Lost == profile' = Defaults(starts') /\ disk' = Written(profile')
<1>1. ASSUME SettingsInv, SettingsNext, Up PROVE IF damaged THEN Lost ELSE Kept
  <2>1. \/ \E c \in Ports \cup {BadPort, NoPort} : Start(c)
        \/ FinishFirstSave
    BY <1>1 DEF SettingsNext, Stop, SaveProfile, FinishSave, FailSave, TypePort, Generate, Paste,
                EndSession, UpnpSucceeds, UpnpFails, Stun, ApplySetup, ProcessRuns
  <2>2. CASE FinishFirstSave
    <3>1. damaged /\ profile = Defaults(starts)
      BY <1>1, <2>2 DEF SettingsInv, FileInv, FinishFirstSave
    <3>2. Lost
      BY <2>2, <3>1 DEF FinishFirstSave, Defaults, Written
    <3>. QED
      BY <3>1, <3>2
  <2>3. ASSUME NEW c \in Ports \cup {BadPort, NoPort}, Start(c)
        PROVE  IF damaged THEN Lost ELSE Kept
    <3>1. app = "off" /\ disk.kind = "valid" /\ profile' = Loaded(disk, starts')
      BY <1>1, <2>3 DEF Start
    <3>2. /\ ~damaged /\ ParsePort(disk.port) = confirmed.port
          /\ disk.id # NoId => disk.id = confirmed.id
      BY <1>1, <3>1 DEF SettingsInv, FileInv
    <3>3. Kept
      BY <3>1, <3>2 DEF Loaded
    <3>. QED
      BY <3>2, <3>3
  <2>. QED
    BY <2>1, <2>2, <2>3
<1>2. SettingsInv /\ [SettingsNext]_settings_vars =>
          [Up => IF damaged THEN Lost ELSE Kept]_settings_vars
  BY <1>1
<1>. QED
  BY <1>2, SettingsInvariant, PTL DEF SettingsSpec, ProfileSurvivesRestart
=============================================================================
