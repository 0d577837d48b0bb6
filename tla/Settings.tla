------------------------------ MODULE Settings ------------------------------
(***************************************************************************)
(* What the application keeps between its runs, and the port it listens on *)
(* and announces.  The profile is loaded when the application starts and   *)
(* saved by a button (src/src/local_config.py, on_save_profile); the field *)
(* "port" comes from the profile, the command line or the user's hand; a   *)
(* background thread asks the router and a STUN server how this host is    *)
(* reached (_start_connection_setup); a handshake announces an address     *)
(* (on_generate_handshake).                                                *)
(*                                                                         *)
(* The file is truncated before it is written, so a crash, or an error,    *)
(* may leave nothing of it.  Of the profile only the client's identifier   *)
(* and the default port are kept: the two directories go the way of the    *)
(* identifier.                                                             *)
(***************************************************************************)
EXTENDS Naturals

CONSTANTS
    Ports,        \* valid port numbers
    DefaultPort,  \* tuning.CONNECTION.default_port
    BadPort,      \* any text that is not a port number
    NoPort,
    MaxStarts     \* bound: how often the application is started

VARIABLES
    disk,         \* the profile file
    app,          \* where the GUI thread is, "off" when there is no process
    profile,      \* the profile in memory
    cli,          \* the port given by --port
    field,        \* var_port
    overridden,   \* _port_overridden_by_user
    port_changed, \* the local variable of on_save_profile
    setup,        \* the setup thread, its port and the result it queues
    public,       \* public_host_source and public_port
    session,      \* role, local_port and the address in the handshake
    mapped,       \* the ports the router forwards to this host
    starts,       \* how often the application was started
    confirmed,    \* history: the profile last loaded or saved completely
    damaged,      \* history: since then a write was cut, or a read failed
    unsaved,      \* history: a save of this run has failed
    typed         \* history: what the user last typed into the field

disk_vars == <<disk, confirmed, damaged>>
port_vars == <<cli, field, overridden, typed>>
net_vars == <<setup, public, mapped>>
app_vars == <<app, profile, port_changed, starts, unsaved>>
settings_vars == <<disk_vars, port_vars, net_vars, app_vars, session>>

(* Identifiers: 0 is the one an existing file holds, n the one generated   *)
(* by the n-th start, ChosenId the one a user types.  A file may have none,*)
(* or an empty one.                                                        *)
ChosenId == MaxStarts + 1
NoId == MaxStarts + 2
Profiles == [id : 0..ChosenId, port : Ports]

(* The external port the NAT gives to a packet from port p.                *)
NatPort == [p \in Ports |-> <<"nat", p>>]
AnnouncedPorts == Ports \cup {NatPort[p] : p \in Ports}

ASSUME SettingsAssumption ==
    /\ DefaultPort \in Ports
    /\ NoPort \notin AnnouncedPorts
    /\ MaxStarts \in Nat

NoSession == [role |-> "none", local_port |-> NoPort, source |-> "none", port |-> NoPort]
NoSetup == [pc |-> "idle", port |-> NoPort, source |-> "none", port_used |-> NoPort]
NoPublic == [source |-> "none", port |-> NoPort]

(* The values of the file, the setup thread, its result and the session.   *)
Disks == [kind : {"absent", "valid", "broken", "undecodable"}, id : 0..NoId,
          port : Ports \cup {BadPort}]
Setups == [pc : {"idle", "upnp", "stun", "queued", "applied"}, port : Ports \cup {NoPort},
           source : {"none", "upnp", "stun"}, port_used : AnnouncedPorts \cup {NoPort}]
Publics == [source : {"none", "upnp", "stun"}, port : AnnouncedPorts \cup {NoPort}]
Sessions == [role : {"none", "mine", "peer"}, local_port : Ports \cup {NoPort},
             source : {"none", "upnp", "stun"}, port : AnnouncedPorts \cup {NoPort}]

SettingsTypeOK ==
    /\ disk \in Disks
    /\ app \in {"off", "first_save", "running", "saving"}
    /\ profile \in Profiles
    /\ cli \in Ports \cup {BadPort, NoPort}
    /\ field \in Ports \cup {BadPort}
    /\ overridden \in BOOLEAN /\ port_changed \in BOOLEAN
    /\ setup \in Setups
    /\ public \in Publics
    /\ session \in Sessions
    /\ mapped \subseteq Ports
    /\ starts \in 0..MaxStarts
    /\ confirmed \in [id : 0..NoId, port : Ports]
    /\ damaged \in BOOLEAN /\ unsaved \in BOOLEAN
    /\ typed \in Ports \cup {BadPort, NoPort}

(***************************************************************************)
(* Loading and saving.                                                     *)
(***************************************************************************)
(* Mutant: a port that is out of range is taken as it is.                  *)
ParsePort_Unchecked(p) == p

(* _parse_port.                                                            *)
ParsePort(p) == IF p \in Ports THEN p ELSE DefaultPort

(* What load_config makes of a file it can read: where it holds no         *)
(* identifier, the one this start has generated, which is not saved.       *)
Loaded(file, n) ==
    [id |-> IF file.id = NoId THEN n ELSE file.id, port |-> ParsePort(file.port)]

(* _default_config: a new identifier each time.                            *)
Defaults(n) == [id |-> n, port |-> DefaultPort]

(* There is nothing to read of the file.                                   *)
Unreadable(kind) == [kind |-> kind, id |-> NoId, port |-> BadPort]
Truncated == Unreadable("broken")
Written(p) == [kind |-> "valid", id |-> p.id, port |-> p.port]

(* The application comes up with profile p: _build_ui, --port, and the     *)
(* automatic check of the connection at the end of __init__.               *)
ComesUp(p, c) ==
    LET port == IF c = NoPort THEN p.port ELSE c IN
    /\ app' = "running"
    /\ field' = port
    /\ overridden' = FALSE
    /\ typed' = NoPort
    /\ setup' = IF port \in Ports THEN [NoSetup EXCEPT !.pc = "upnp", !.port = port]
                                  ELSE NoSetup
    /\ public' = NoPublic
    /\ session' = NoSession
    /\ unsaved' = FALSE
    /\ confirmed' = p
    /\ damaged' = FALSE

(* An existing file is read; the defaults replace one that is missing or   *)
(* broken, and a whole one whose reading fails, and are saved at once      *)
(* (next action).  A file that is not UTF-8, like any error of the saving, *)
(* ends the start.                                                         *)
Start(c) ==
    /\ app = "off"
    /\ starts < MaxStarts
    /\ starts' = starts + 1
    /\ cli' = c
    /\ port_changed' = FALSE
    /\ \/ /\ disk.kind = "valid"
          /\ profile' = Loaded(disk, starts')
          /\ ComesUp(profile', c)
          /\ UNCHANGED <<disk, mapped>>
       \/ /\ disk.kind # "undecodable"
          /\ app' = "first_save"
          /\ profile' = Defaults(starts')
          /\ disk' = Truncated
          /\ damaged' = TRUE
          /\ UNCHANGED <<net_vars, session, field, overridden, typed, unsaved, confirmed>>
       \/ UNCHANGED <<disk_vars, net_vars, session, field, overridden, typed, app, profile,
                      unsaved>>

(* Mutant: the defaults are used but not saved.                            *)
FinishFirstSave_InMemory ==
    /\ app = "first_save"
    /\ ComesUp(profile, cli)
    /\ UNCHANGED <<disk, profile, cli, port_changed, mapped, starts>>

(* Defaults that are on the disk are kept from now on.                     *)
FinishFirstSave ==
    /\ app = "first_save"
    /\ disk' = Written(profile)
    /\ ComesUp(profile, cli)
    /\ UNCHANGED <<profile, cli, port_changed, mapped, starts>>

(* The process ends: closed, killed, or by an error while it comes up.  A  *)
(* write that was under way is cut.                                        *)
Stop ==
    /\ app # "off"
    /\ app' = "off"
    /\ damaged' = (damaged \/ app \in {"first_save", "saving"})
    /\ session' = NoSession
    /\ setup' = NoSetup
    /\ public' = NoPublic
    /\ UNCHANGED <<disk, confirmed, port_vars, mapped, profile, port_changed, starts,
                   unsaved>>

(* _invalidate_session_if_active, the trace on the field: whatever session *)
(* there is ends.                                                          *)
Invalidated == NoSession

(* on_save_profile up to the write: the profile in memory is replaced      *)
(* first.  The directory may be missing or the file not writable (the      *)
(* handler ends with an exception), or the file is open and truncated.     *)
SaveProfile(p) ==
    /\ app = "running"
    /\ profile' = p
    /\ port_changed' = (p.port # profile.port)
    /\ \/ /\ app' = "saving"
          /\ disk' = Truncated
          /\ UNCHANGED <<unsaved, damaged>>
       \/ /\ unsaved' = TRUE
          /\ UNCHANGED <<app, disk, damaged>>
    /\ UNCHANGED <<confirmed, port_vars, net_vars, starts, session>>

(* Mutant: the command line does not protect the field.                    *)
SyncsField_OverCli == port_changed /\ ~overridden

(* The condition under which the new default goes into the field.          *)
SyncsField == port_changed /\ ~overridden /\ cli = NoPort

(* Mutant: setting the field is kept from the trace altogether.            *)
FinishSave_Silently ==
    /\ app = "saving"
    /\ app' = "running"
    /\ disk' = Written(profile)
    /\ confirmed' = profile
    /\ damaged' = FALSE
    /\ field' = IF SyncsField THEN profile.port ELSE field
    /\ UNCHANGED <<cli, overridden, typed, net_vars, profile, port_changed, starts,
                   unsaved, session>>

(* The rest of on_save_profile: the file is complete and the field may     *)
(* follow, which ends a session but does not count as the user's edit.     *)
FinishSave ==
    /\ app = "saving"
    /\ app' = "running"
    /\ disk' = Written(profile)
    /\ confirmed' = profile
    /\ damaged' = FALSE
    /\ field' = IF SyncsField THEN profile.port ELSE field
    /\ session' = IF SyncsField THEN Invalidated ELSE session
    /\ UNCHANGED <<cli, overridden, typed, net_vars, profile, port_changed, starts,
                   unsaved>>

(* The write fails: the handler ends with an exception, the file is cut.   *)
FailSave ==
    /\ app = "saving"
    /\ app' = "running"
    /\ damaged' = TRUE
    /\ unsaved' = TRUE
    /\ UNCHANGED <<disk, confirmed, port_vars, net_vars, profile, port_changed, starts,
                   session>>

(***************************************************************************)
(* The user and the session.                                               *)
(***************************************************************************)
(* The user edits the field.                                               *)
TypePort(p) ==
    /\ app = "running"
    /\ field' = p
    /\ typed' = p
    /\ overridden' = TRUE
    /\ session' = Invalidated
    /\ UNCHANGED <<disk_vars, net_vars, app_vars, cli>>

(* effective_port in on_generate_handshake.                                *)
EffectivePort == IF public.port # NoPort THEN public.port ELSE field

(* on_generate_handshake, a session there was having been confirmed away;  *)
(* a field that is not a port is refused, and no session outlives one.     *)
Generate ==
    /\ app = "running"
    /\ field \in Ports
    /\ session' = [role |-> "mine", local_port |-> field, source |-> public.source,
                   port |-> EffectivePort]
    /\ UNCHANGED <<disk_vars, port_vars, net_vars, app_vars>>

(* on_process_incoming: this side listens too.                             *)
Paste ==
    /\ app = "running"
    /\ field \in Ports
    /\ session' = [NoSession EXCEPT !.role = "peer", !.local_port = field]
    /\ UNCHANGED <<disk_vars, port_vars, net_vars, app_vars>>

(* Another parameter is edited, or a new session confirmed and not begun.  *)
EndSession ==
    /\ app = "running"
    /\ session.role # "none"
    /\ session' = NoSession
    /\ UNCHANGED <<disk_vars, port_vars, net_vars, app_vars>>

(***************************************************************************)
(* The setup thread and its poll.                                          *)
(***************************************************************************)
ProcessRuns == app \in {"running", "saving"}

(* try_configure_port_forwarding returns.                                  *)
UpnpSucceeds ==
    /\ ProcessRuns
    /\ setup.pc = "upnp"
    /\ mapped' = mapped \cup {setup.port}
    /\ setup' = [setup EXCEPT !.pc = "queued", !.source = "upnp", !.port_used = setup.port]
    /\ UNCHANGED <<disk_vars, port_vars, app_vars, session, public>>

(* It raises, at its first request or at its last: then the router may     *)
(* have forwarded the port although its answer was lost or not understood. *)
(* An error of another kind skips STUN.                                    *)
UpnpFails ==
    /\ ProcessRuns
    /\ setup.pc = "upnp"
    /\ mapped' \in {mapped, mapped \cup {setup.port}}
    /\ \E pc \in {"stun", "queued"} : setup' = [setup EXCEPT !.pc = pc]
    /\ UNCHANGED <<disk_vars, port_vars, app_vars, session, public>>

(* get_public_address returns or raises.                                   *)
Stun ==
    /\ ProcessRuns
    /\ setup.pc = "stun"
    /\ \/ setup' = [setup EXCEPT !.pc = "queued", !.source = "stun",
                                 !.port_used = NatPort[setup.port]]
       \/ setup' = [setup EXCEPT !.pc = "queued"]
    /\ UNCHANGED <<disk_vars, port_vars, app_vars, session, public, mapped>>

(* _poll_connection_setup finds the result and applies it.                 *)
ApplySetup ==
    /\ app = "running"
    /\ setup.pc = "queued"
    /\ public' = [source |-> setup.source, port |-> setup.port_used]
    /\ setup' = [setup EXCEPT !.pc = "applied"]
    /\ UNCHANGED <<disk_vars, port_vars, app_vars, session, mapped>>

-----------------------------------------------------------------------------
(* At first there may be a file of an earlier version, or edited by hand,  *)
(* without a port or an identifier.                                        *)
SettingsInit ==
    /\ disk \in {Unreadable(kind) : kind \in {"absent", "broken", "undecodable"}}
                \cup [kind : {"valid"}, id : {0, NoId}, port : Ports \cup {BadPort}]
    /\ app = "off"
    /\ profile = Defaults(0)
    /\ cli = NoPort
    /\ field = DefaultPort
    /\ overridden = FALSE
    /\ port_changed = FALSE
    /\ setup = NoSetup
    /\ public = NoPublic
    /\ session = NoSession
    /\ mapped = {}
    /\ starts = 0
    /\ confirmed = [id |-> disk.id, port |-> ParsePort(disk.port)]
    /\ damaged = (disk.kind # "valid")
    /\ unsaved = FALSE
    /\ typed = NoPort

SettingsNext ==
    \/ \E c \in Ports \cup {BadPort, NoPort} : Start(c)
    \/ FinishFirstSave
    \/ Stop
    \/ \E p \in [id : {profile.id, ChosenId}, port : Ports] : SaveProfile(p)
    \/ FinishSave
    \/ FailSave
    \/ \E p \in Ports \cup {BadPort} : TypePort(p)
    \/ Generate
    \/ Paste
    \/ EndSession
    \/ UpnpSucceeds
    \/ UpnpFails
    \/ Stun
    \/ ApplySetup

SettingsSpec == SettingsInit /\ [][SettingsNext]_settings_vars

-----------------------------------------------------------------------------
(* The port on display is the one the session listens on.  The handshake   *)
(* announces that port in the local network, and outside it always what    *)
(* the setup has found for the port it was started with, forwarded or      *)
(* observed: of the same port, then, unless the field has been changed     *)
(* since.  Traces, a save and a late result must not mix the three.        *)
PortsAgree ==
    session.role # "none" =>
        /\ session.local_port = field
        /\ session.role = "mine" /\ session.source = "none" => session.port = field
        /\ session.source = "upnp" => session.port = setup.port /\ setup.port \in mapped
        /\ session.source = "stun" => session.port = NatPort[setup.port]

(* The field shows the user's own port, else that of the command line,     *)
(* else the profile's, in this order and whatever is saved in between, as  *)
(* long as every save succeeds: after a save that failed the profile in    *)
(* memory is ahead of the field for good.                                  *)
FieldFollowsPrecedence ==
    app = "running" =>
        CASE overridden -> field = typed
          [] ~overridden /\ cli # NoPort -> field = cli
          [] OTHER -> unsaved \/ field = profile.port

(* The application comes back as the same client with the same default     *)
(* port, through closing, crashes and failed saves, where the file has the *)
(* client.  A write that is cut anywhere, or a file that cannot be read,   *)
(* costs the profile once and for all: the application comes up with the   *)
(* defaults and one new client, all of it on the disk, and never with      *)
(* something of both.                                                      *)
ProfileSurvivesRestart ==
    [][(app \in {"off", "first_save"} /\ app' = "running")
           => IF damaged
              THEN profile' = Defaults(starts') /\ disk' = Written(profile')
              ELSE /\ profile'.port = confirmed.port
                   /\ (disk.id # NoId => profile'.id = confirmed.id)]_settings_vars

-----------------------------------------------------------------------------
(* What the documentation says and the code does not do: no run checks the *)
(* next three, for TLC refutes each of them in the instance of MCLocal.    *)

(* The client is fixed by the first start and not generated anew each time *)
(* (docstring of load_config), as long as the file is whole.  A file that  *)
(* holds no client gets a new one at every start.                          *)
ClientIsFixed ==
    [][(app \in {"off", "first_save"} /\ app' = "running" /\ ~damaged /\ confirmed.id # NoId)
           => profile'.id = confirmed.id]_settings_vars

(* The default port that is saved goes into the field unless the user or   *)
(* the command line has said another (on_save_profile, dev-notes.md).  A   *)
(* second click, after a save that failed, saves the port and finds it     *)
(* unchanged.                                                              *)
SavedPortIsShown ==
    app = "running" /\ ~damaged /\ profile = confirmed /\ ~overridden /\ cli = NoPort =>
        field = profile.port

(* A port forwarded by the router is announced as what it is locally       *)
(* (dev-notes.md, public_port).  When the field has been changed since the *)
(* setup, the old port is announced and the new one listened on.           *)
UpnpPortIsLocal == session.source = "upnp" => session.port = session.local_port
=============================================================================
