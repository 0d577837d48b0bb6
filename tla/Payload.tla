------------------------------ MODULE Payload ------------------------------
(***************************************************************************)
(* What will be sent: the tree of check boxes over a chosen directory and  *)
(* the preparation of the transfer (src/src/appearance.py, src/src/        *)
(* exchange.py).  The tree shows rows that are loaded when a directory is  *)
(* opened; the marks are kept by path in _file_tree_checked, also for      *)
(* files without a row; the disk changes under all of it.  An archive is   *)
(* always written to the same file, inside the chosen directory: the file  *)
(* is truncated and filled by the GUI thread, which does nothing else      *)
(* meanwhile, while a send worker may be reading it.                       *)
(*                                                                         *)
(* A path is the sequence of its names, as in the code it is their join.   *)
(* Of the session only its key is kept: a reset replaces it.               *)
(***************************************************************************)
EXTENDS Naturals, Sequences, SequencesExt

CONSTANTS
    Dirs,         \* paths of directories, relative to the chosen one
    Files,        \* paths of files
    SessionKeys,  \* the keys of successive sessions
    NoKey

VARIABLES
    present,      \* the paths that exist on the disk
    selected,     \* what is chosen: "none", "file" or "dir"
    checked,      \* _file_tree_checked
    rows,         \* the mark of each path that has a row in tree_files
    opened,       \* directories whose rows have been loaded
    payload,      \* transfer_payload; packed_archive_path is set for "archive"
    archive_key,  \* _transfer_archive_key
    archive,      \* the archive file on the disk
    packing,      \* build_archive_from_selection: what it packs, with which password
    session_key,  \* _session_key(), the key of the channel once it is verified
    sending,      \* "archive" while a send worker on the channel reads it
    wanted,       \* history: what the user last said of each file
    spoiled       \* history: packing has failed since it last succeeded

tree_vars == <<selected, checked, rows, opened, wanted>>
ready_vars == <<payload, archive_key>>
file_vars == <<archive, packing, spoiled>>
payload_vars == <<present, tree_vars, ready_vars, file_vars, session_key, sending>>

Paths == Dirs \cup Files

(* The technical directory of the archive (pack_subdir_name) is nobody's.  *)
PackDir == "pack"

ASSUME PayloadAssumption ==
    /\ Paths \subseteq Seq(STRING)
    /\ << >> \notin Paths /\ <<PackDir, "archive">> \notin Paths
    /\ Dirs \cap Files = {}

NoPayload == [kind |-> "none", files |-> {}]
NoArchive == [exists |-> FALSE, files |-> {}, key |-> NoKey]
NotPacking == [on |-> FALSE, files |-> {}, key |-> NoKey]

PayloadTypeOK ==
    /\ present \subseteq Paths
    /\ selected \in {"none", "file", "dir"}
    /\ DOMAIN checked \subseteq Paths /\ \A p \in DOMAIN checked : checked[p] \in BOOLEAN
    /\ DOMAIN rows \subseteq Paths /\ \A p \in DOMAIN rows : rows[p] \in BOOLEAN
    /\ opened \subseteq DOMAIN rows \cap Dirs
    /\ payload \in [kind : {"none", "file", "files", "archive"}, files : SUBSET Files]
    /\ archive_key \in SessionKeys \cup {NoKey}
    /\ archive \in [exists : BOOLEAN, files : SUBSET Files, key : SessionKeys \cup {NoKey}]
    /\ packing \in [on : BOOLEAN, files : SUBSET Files, key : SessionKeys \cup {NoKey}]
    /\ session_key \in SessionKeys \cup {NoKey}
    /\ sending \in {"nothing", "archive"}
    /\ wanted \in [Files -> BOOLEAN]
    /\ spoiled \in BOOLEAN

(***************************************************************************)
(* The tree.                                                               *)
(***************************************************************************)
(* The archive is a file of the technical directory.                       *)
OnDisk == present \cup (IF archive.exists THEN {<<PackDir, "archive">>} ELSE {})

(* A directory of the technical name is left out at every level, with all  *)
(* there is in it.                                                         *)
Pruned(p) == \E i \in 1..Len(p) : p[i] = PackDir /\ (i < Len(p) \/ p \in Dirs)

(* Mutant: the technical directory is walked like any other.               *)
Walk_PackToo(root) == {p \in OnDisk : IsStrictPrefix(root, p)}

(* os.walk below a directory, as every caller prunes it.                   *)
Walk(root) == {p \in OnDisk : IsStrictPrefix(root, p) /\ ~Pruned(p)}

(* list_entries, which leaves out a file of that name too.                 *)
Entries(dir) == {p \in Walk(dir) : Len(p) = Len(dir) + 1 /\ Last(p) # PackDir}

(* _file_tree_checked.get(path, True).                                     *)
IsChecked(marks, p) == p \in DOMAIN marks => marks[p]

WithRows(old, paths, marks) ==
    [p \in DOMAIN old \cup paths |-> IF p \in paths THEN IsChecked(marks, p) ELSE old[p]]

Marked(paths, mark) ==
    [p \in DOMAIN checked \cup paths |-> IF p \in paths THEN mark ELSE checked[p]]

(* _refresh_visible_checkmarks.                                            *)
Refresh(marks) == [p \in DOMAIN rows |-> IsChecked(marks, p)]

(* _select_send_dir: everything is included, whatever was before.          *)
SelectDir ==
    /\ selected' = "dir"
    /\ payload' = NoPayload
    /\ archive_key' = NoKey
    /\ checked' = << >>
    /\ opened' = {}
    /\ rows' = WithRows(<< >>, Entries(<< >>), << >>)
    /\ wanted' = [f \in Files |-> TRUE]
    /\ UNCHANGED <<present, file_vars, session_key, sending>>

(* on_choose_file: the tree is hidden, not emptied.                        *)
ChooseFile ==
    /\ selected' = "file"
    /\ payload' = NoPayload
    /\ archive_key' = NoKey
    /\ UNCHANGED <<present, checked, rows, opened, wanted, file_vars, session_key, sending>>

(* _on_tree_open: only the first time the rows are loaded, if there still  *)
(* is a directory to read.                                                 *)
OpenDir(d) ==
    /\ selected = "dir"
    /\ d \in DOMAIN rows \ opened
    /\ opened' = opened \cup {d}
    /\ rows' = WithRows(rows, Entries(d), checked)
    /\ UNCHANGED <<present, selected, checked, wanted, ready_vars, file_vars, session_key,
                   sending>>

(* Mutant: only paths that have a row are reached.                         *)
Reached_Rows(p) == {p} \cup {q \in DOMAIN rows : IsStrictPrefix(p, q)}

(* _set_checked_recursive: the path and what is below it, loaded or not.   *)
Reached(p) == {p} \cup Walk(p)

(* What the user means by a directory: the files that are in it now, the   *)
(* application's own apart.                                                *)
Below(dir) == {f \in Files \cap present : IsStrictPrefix(dir, f) /\ ~Pruned(f)}

(* _on_tree_click on the check box of a row.                               *)
ClickRow(p) ==
    /\ selected = "dir"
    /\ p \in DOMAIN rows
    /\ LET mark == ~IsChecked(checked, p) IN
         /\ checked' = Marked(Reached(p), mark)
         /\ rows' = Refresh(checked')
         /\ wanted' = [f \in Files |-> IF f = p \/ f \in Below(p) THEN mark ELSE wanted[f]]
    /\ UNCHANGED <<present, selected, opened, ready_vars, file_vars, session_key, sending>>

(* _set_all_checked.                                                       *)
SetAll(mark) ==
    /\ selected = "dir"
    /\ checked' = Marked(Walk(<< >>), mark)
    /\ rows' = Refresh(checked')
    /\ wanted' = [f \in Files |-> IF f \in Below(<< >>) THEN mark ELSE wanted[f]]
    /\ UNCHANGED <<present, selected, opened, ready_vars, file_vars, session_key, sending>>

(***************************************************************************)
(* on_initiate_transfer.                                                   *)
(***************************************************************************)
Included == {p \in Walk(<< >>) \ Dirs : IsChecked(checked, p)}

Ready(kind, files, key) ==
    /\ payload' = [kind |-> kind, files |-> files]
    /\ archive_key' = key
    /\ UNCHANGED <<present, tree_vars, session_key, sending>>

PrepareFile ==
    /\ selected = "file"
    /\ Ready("file", {}, NoKey)
    /\ UNCHANGED file_vars

PrepareAsIs ==
    /\ selected = "dir"
    /\ Included # {}
    /\ Ready("files", Included, NoKey)
    /\ UNCHANGED file_vars

(* build_archive_from_selection opens the file, which truncates it.  AES   *)
(* needs a session, whose key is the password.  (An error before this      *)
(* changes nothing.)                                                       *)
PackBegins(password) ==
    /\ selected = "dir"
    /\ Included # {}
    /\ password \in {NoKey, session_key}
    /\ packing' = [on |-> TRUE, files |-> Included, key |-> password]
    /\ archive' = [exists |-> TRUE, files |-> {}, key |-> password]
    /\ UNCHANGED <<present, tree_vars, ready_vars, session_key, sending, spoiled>>

(* Every file is in the archive, and the archive is the payload.           *)
PackEnds ==
    /\ packing.on
    /\ packing' = NotPacking
    /\ archive' = [exists |-> TRUE, files |-> packing.files, key |-> packing.key]
    /\ spoiled' = FALSE
    /\ Ready("archive", packing.files, packing.key)

(* It raises on its way: a file has vanished, or cannot be read or packed. *)
(* The archive is closed with what is in it (no file stands for any part   *)
(* of them); an earlier payload stays ready, even if it was this very file.*)
PackFails ==
    /\ packing.on
    /\ packing' = NotPacking
    /\ spoiled' = TRUE
    /\ UNCHANGED <<present, tree_vars, ready_vars, archive, session_key, sending>>

(***************************************************************************)
(* The session, the send worker and the disk.                              *)
(***************************************************************************)
(* on_send_files starts a worker with the payload of this moment, whatever *)
(* other workers are at.                                                   *)
StartSending ==
    /\ payload.kind # "none"
    /\ session_key # NoKey
    /\ archive_key \in {NoKey, session_key}
    /\ sending' = IF payload.kind = "archive" THEN "archive" ELSE sending
    /\ UNCHANGED <<present, tree_vars, ready_vars, file_vars, session_key>>

(* The last worker that reads the archive ends.                            *)
SendingEnds ==
    /\ sending = "archive"
    /\ sending' = "nothing"
    /\ UNCHANGED <<present, tree_vars, ready_vars, file_vars, session_key>>

(* A handshake gives a session its key.                                    *)
SessionBegins(key) ==
    /\ session_key = NoKey
    /\ session_key' = key
    /\ UNCHANGED <<present, tree_vars, ready_vars, file_vars, sending>>

(* Mutant: the file goes, its place in the payload stays.                  *)
DiscardKeyBoundPayload_FileOnly ==
    /\ archive' = IF archive_key # NoKey THEN NoArchive ELSE archive
    /\ UNCHANGED ready_vars

(* _discard_key_bound_payload; the file may resist (os.remove fails).      *)
DiscardKeyBoundPayload ==
    IF archive_key = NoKey
    THEN UNCHANGED <<archive, ready_vars>>
    ELSE /\ archive' \in {archive, NoArchive}
         /\ payload' = NoPayload
         /\ archive_key' = NoKey

(* _reset_channel_attempt: the socket is closed, the session ends or is    *)
(* retried at once with another phrase.                                    *)
SessionReset(key) ==
    /\ session_key # NoKey
    /\ session_key' = key
    /\ sending' = "nothing"
    /\ DiscardKeyBoundPayload
    /\ UNCHANGED <<present, tree_vars, packing, spoiled>>

(* Other programs create and delete files.                                 *)
Appears(p) ==
    /\ p \notin present
    /\ Front(p) \in present \cup {<< >>}
    /\ present' = present \cup {p}
    /\ UNCHANGED <<tree_vars, ready_vars, file_vars, session_key, sending>>

Vanishes(p) ==
    /\ p \in present
    /\ present' = {q \in present : ~IsPrefix(p, q)}
    /\ UNCHANGED <<tree_vars, ready_vars, file_vars, session_key, sending>>

-----------------------------------------------------------------------------
PayloadInit ==
    /\ present = Paths
    /\ selected = "none"
    /\ checked = << >>
    /\ rows = << >>
    /\ opened = {}
    /\ payload = NoPayload
    /\ archive_key = NoKey
    /\ archive = NoArchive
    /\ packing = NotPacking
    /\ session_key = NoKey
    /\ sending = "nothing"
    /\ wanted = [f \in Files |-> TRUE]
    /\ spoiled = FALSE

(* What the GUI thread does between two packings.                          *)
GuiStep ==
    \/ SelectDir
    \/ ChooseFile
    \/ \E d \in Dirs : OpenDir(d)
    \/ \E p \in Paths : ClickRow(p)
    \/ \E mark \in BOOLEAN : SetAll(mark)
    \/ PrepareFile
    \/ PrepareAsIs
    \/ \E password \in SessionKeys \cup {NoKey} : PackBegins(password)
    \/ StartSending
    \/ \E key \in SessionKeys : SessionBegins(key)
    \/ \E key \in SessionKeys \cup {NoKey} : SessionReset(key)

PayloadNext ==
    \/ ~packing.on /\ GuiStep
    \/ PackEnds
    \/ PackFails
    \/ SendingEnds
    \/ \E p \in Paths : Appears(p)
    \/ \E p \in Paths : Vanishes(p)

PayloadSpec == PayloadInit /\ [][PayloadNext]_payload_vars

-----------------------------------------------------------------------------
(* The box the user sees at a file says what the user last said of it:     *)
(* directly, through a directory, opened or not, or through "all"; also    *)
(* when the file vanished and came back, or its row was loaded later.      *)
MarksAreTrue ==
    selected = "dir" =>
        \A f \in Files \cap DOMAIN rows : f \in present => rows[f] = wanted[f]

(* Whenever a directory is prepared, as it is or for the archive, the      *)
(* files are those that exist and that the user has not taken out, with or *)
(* without a row in the tree, never the application's own archive; and the *)
(* archive that is offered was made of what was chosen when it was begun.  *)
PayloadIsTheSelection ==
    [][LET chosen == {f \in Below(<< >>) : wanted[f]} IN
       /\ (payload' # payload /\ payload'.kind = "files") => payload'.files = chosen
       /\ (packing'.on /\ ~packing.on) => packing'.files = chosen
       /\ (payload' # payload /\ payload'.kind = "archive")
              => payload'.files = packing.files]_payload_vars

(* An archive that is ready to be sent is whole and is the one that was    *)
(* prepared.  A worker may find another archive under its hands, half of   *)
(* the one and half of the other, since the file is rewritten in place;    *)
(* but whatever it reads, at any moment, also of an archive that is being  *)
(* written, is encrypted with the key of the present session or not at     *)
(* all.  (Packing that fails ends both, see the next property.)            *)
ArchiveOpens ==
    ~spoiled =>
        /\ payload.kind = "archive" /\ ~packing.on =>
               /\ archive = [exists |-> TRUE, files |-> payload.files, key |-> archive_key]
               /\ archive_key \in {NoKey, session_key}
        /\ sending = "archive" => archive.key \in {NoKey, session_key}

-----------------------------------------------------------------------------
(* What a comment says and the code does not do: no run checks it, for TLC *)
(* refutes it in the instance of MCLocal.                                  *)

(* An encrypted archive goes out only when it is encrypted with the key of *)
(* the channel (docstring of _payload_matches_channel_key).  Packing that  *)
(* fails leaves an archive of another key than the one remembered of the   *)
(* payload that stays ready: a reset does not drop it, and the next        *)
(* session sends it.                                                       *)
SentArchiveHasChannelKey == sending = "archive" => archive.key \in {NoKey, session_key}
=============================================================================
