--------------------------- MODULE Payload_proofs ---------------------------
(***************************************************************************)
(* Theorems about Payload, for every tree of files and directories and     *)
(* every number of session keys.                                           *)
(***************************************************************************)
EXTENDS Payload, TLAPS

(* What the code remembers of a file is what the user last said of it,     *)
(* whether it is on the disk or not, and a row shows what is remembered.   *)
MarksInv ==
    /\ \A f \in Files : IsChecked(checked, f) = wanted[f]
    /\ \A p \in DOMAIN rows : rows[p] = IsChecked(checked, p)

TypeInv ==
    /\ present \subseteq Paths
    /\ spoiled \in BOOLEAN
    /\ wanted \in [Files -> BOOLEAN]

(* An archive that is being written has the password it was begun with,    *)
(* and that is the key of the session, which does not change meanwhile.    *)
PackingInv ==
    packing.on => packing.key \in {NoKey, session_key} /\ archive.key = packing.key

PayloadInv == TypeInv /\ MarksInv /\ PackingInv /\ ArchiveOpens

-----------------------------------------------------------------------------
(* Walking a directory yields what exists below it, but for the technical  *)
(* directory: never the archive.                                           *)
LEMMA WalkFindsFiles ==
    ASSUME NEW root, NEW f
    PROVE  f \in Walk(root) <=> f \in present /\ IsStrictPrefix(root, f) /\ ~Pruned(f)
<1>1. Pruned(<<PackDir, "archive">>)
  <2>1. /\ 1 \in 1..Len(<<PackDir, "archive">>) /\ 1 < Len(<<PackDir, "archive">>)
        /\ <<PackDir, "archive">>[1] = PackDir
    OBVIOUS
  <2>. QED
    BY <2>1 DEF Pruned
<1>2. f \in OnDisk => f \in present \/ f = <<PackDir, "archive">>
  BY DEF OnDisk
<1>3. f \in present => f \in OnDisk
  BY DEF OnDisk
<1>. QED
  BY <1>1, <1>2, <1>3 DEF Walk

(* Of the files, it yields those the user means by the directory.          *)
LEMMA WalkIsBelow ==
    ASSUME NEW root, NEW f \in Files
    PROVE  f \in Walk(root) <=> f \in Below(root)
BY WalkFindsFiles DEF Below

(* What is included is what exists and was not taken out.                  *)
LEMMA IncludedIsWanted ==
    ASSUME TypeInv, MarksInv
    PROVE  Included = {f \in Below(<< >>) : wanted[f]}
<1>1. ASSUME NEW p
      PROVE  p \in Walk(<< >>) \ Dirs <=> p \in Below(<< >>)
  <2>1. p \in Walk(<< >>) => p \in present
    BY WalkFindsFiles
  <2>2. p \in present => p \in Paths
    BY DEF TypeInv
  <2>3. p \in Below(<< >>) => p \in Files
    BY DEF Below
  <2>. QED
    BY <2>1, <2>2, <2>3, WalkIsBelow, PayloadAssumption DEF Paths
<1>2. Walk(<< >>) \ Dirs = Below(<< >>)
  BY <1>1
<1>3. \A f \in Files : IsChecked(checked, f) = wanted[f]
  BY DEF MarksInv
<1>4. Below(<< >>) \subseteq Files
  BY DEF Below
<1>. QED
  BY <1>2, <1>3, <1>4 DEF Included

-----------------------------------------------------------------------------
(* Setting marks and refreshing the rows keeps the marks true.             *)
LEMMA MarkingKeepsMarks ==
    ASSUME TypeInv, MarksInv, NEW paths, NEW mark \in BOOLEAN,
           checked' = Marked(paths, mark),
           rows' = Refresh(checked'),
           wanted' \in [Files -> BOOLEAN],
           \A f \in Files : wanted'[f] = IF f \in paths THEN mark ELSE wanted[f]
    PROVE  MarksInv'
<1>1. \A p : IsChecked(checked', p) = IF p \in paths THEN mark ELSE IsChecked(checked, p)
  BY DEF Marked, IsChecked
<1>2. \A f \in Files : IsChecked(checked', f) = wanted'[f]
  BY <1>1 DEF MarksInv
<1>3. \A p \in DOMAIN rows' : rows'[p] = IsChecked(checked', p)
  BY DEF Refresh
<1>. QED
  BY <1>2, <1>3 DEF MarksInv, IsChecked

(* Rows that are inserted show what is remembered of their paths.          *)
LEMMA InsertingKeepsMarks ==
    ASSUME TypeInv, MarksInv, NEW paths,
           rows' = WithRows(rows, paths, checked),
           UNCHANGED <<checked, wanted>>
    PROVE  MarksInv'
<1>1. \A p \in DOMAIN rows' : rows'[p] = IsChecked(checked, p)
  BY DEF WithRows, MarksInv
<1>. QED
  BY <1>1 DEF MarksInv, IsChecked

-----------------------------------------------------------------------------
(* A path of which nothing is remembered is included.                      *)
LEMMA NothingRemembered == DOMAIN << >> = {} /\ \A p : IsChecked(<< >>, p) = TRUE
<1>1. DOMAIN << >> = {}
  OBVIOUS
<1>. QED
  BY <1>1 DEF IsChecked

(* At the start nothing is chosen, marked or prepared.                     *)
LEMMA PayloadInitially == PayloadInit => PayloadInv
<1>. SUFFICES ASSUME PayloadInit PROVE PayloadInv
  OBVIOUS
<1>1. TypeInv
  BY DEF PayloadInit, TypeInv
<1>2. MarksInv
  BY NothingRemembered DEF PayloadInit, MarksInv
<1>3. ArchiveOpens /\ PackingInv
  BY DEF PayloadInit, ArchiveOpens, PackingInv, NoPayload, NotPacking
<1>. QED
  BY <1>1, <1>2, <1>3 DEF PayloadInv

(* The types, which the tree and the disk need.                            *)
LEMMA TypesAreKept == TypeInv /\ [PayloadNext]_payload_vars => TypeInv'
<1>. SUFFICES ASSUME TypeInv, [PayloadNext]_payload_vars PROVE TypeInv'
  OBVIOUS
<1>1. CASE SelectDir
  BY <1>1 DEF SelectDir, file_vars, TypeInv
<1>2. CASE ChooseFile
  BY <1>2 DEF ChooseFile, file_vars, TypeInv
<1>3. ASSUME NEW d \in Dirs, OpenDir(d) PROVE TypeInv'
  BY <1>3 DEF OpenDir, file_vars, TypeInv
<1>4. ASSUME NEW p \in Paths, ClickRow(p) PROVE TypeInv'
  <2>. DEFINE mark == ~IsChecked(checked, p)
  <2>1. wanted' = [f \in Files |-> IF f = p \/ f \in Below(p) THEN mark ELSE wanted[f]]
    BY <1>4 DEF ClickRow
  <2>2. mark \in BOOLEAN
    OBVIOUS
  <2>. HIDE DEF mark
  <2>3. wanted' \in [Files -> BOOLEAN]
    BY <2>1, <2>2 DEF TypeInv
  <2>. QED
    BY <1>4, <2>3 DEF ClickRow, file_vars, TypeInv
<1>5. ASSUME NEW mark \in BOOLEAN, SetAll(mark) PROVE TypeInv'
  BY <1>5 DEF SetAll, file_vars, TypeInv
<1>6. CASE PrepareFile
  BY <1>6 DEF PrepareFile, Ready, file_vars, tree_vars, TypeInv
<1>7. CASE PrepareAsIs
  BY <1>7 DEF PrepareAsIs, Ready, file_vars, tree_vars, TypeInv
<1>8. ASSUME NEW password \in SessionKeys \cup {NoKey}, PackBegins(password) PROVE TypeInv'
  BY <1>8 DEF PackBegins, tree_vars, TypeInv
<1>9. CASE PackEnds \/ PackFails
  BY <1>9 DEF PackEnds, PackFails, Ready, tree_vars, TypeInv
<1>10. CASE StartSending
  BY <1>10 DEF StartSending, file_vars, tree_vars, TypeInv
<1>11. CASE SendingEnds
  BY <1>11 DEF SendingEnds, file_vars, tree_vars, TypeInv
<1>12. ASSUME NEW key \in SessionKeys, SessionBegins(key) PROVE TypeInv'
  BY <1>12 DEF SessionBegins, file_vars, tree_vars, TypeInv
<1>13. ASSUME NEW key \in SessionKeys \cup {NoKey}, SessionReset(key) PROVE TypeInv'
  BY <1>13 DEF SessionReset, tree_vars, TypeInv
<1>14. ASSUME NEW p \in Paths, Appears(p) PROVE TypeInv'
  BY <1>14 DEF Appears, file_vars, tree_vars, TypeInv
<1>15. ASSUME NEW p \in Paths, Vanishes(p) PROVE TypeInv'
  BY <1>15 DEF Vanishes, file_vars, tree_vars, TypeInv
<1>16. CASE UNCHANGED payload_vars
  BY <1>16 DEF payload_vars, file_vars, tree_vars, TypeInv
<1>. QED
  BY <1>1, <1>2, <1>3, <1>4, <1>5, <1>6, <1>7, <1>8, <1>9, <1>10, <1>11, <1>12, <1>13,
     <1>14, <1>15, <1>16 DEF PayloadNext, GuiStep

(* Only a few actions touch the tree: choosing, opening and clicking.      *)
LEMMA MarksAreKept == TypeInv /\ MarksInv /\ [PayloadNext]_payload_vars => MarksInv'
<1>. SUFFICES ASSUME TypeInv, MarksInv, [PayloadNext]_payload_vars PROVE MarksInv'
  OBVIOUS
<1>1. CASE UNCHANGED <<checked, rows, wanted>>
  BY <1>1 DEF MarksInv, IsChecked
<1>2. CASE SelectDir
  <2>1. \A p \in DOMAIN rows' : rows'[p] = IsChecked(checked', p)
    BY <1>2 DEF SelectDir, WithRows, IsChecked
  <2>2. \A f \in Files : IsChecked(checked', f) = wanted'[f]
    BY <1>2, NothingRemembered DEF SelectDir
  <2>. QED
    BY <2>1, <2>2 DEF MarksInv, IsChecked
<1>3. ASSUME NEW d \in Dirs, OpenDir(d) PROVE MarksInv'
  BY <1>3, InsertingKeepsMarks DEF OpenDir
<1>4. ASSUME NEW p \in Paths, ClickRow(p) PROVE MarksInv'
  <2>. DEFINE mark == ~IsChecked(checked, p)
  <2>1. /\ mark \in BOOLEAN
        /\ checked' = Marked(Reached(p), mark)
        /\ rows' = Refresh(checked')
        /\ wanted' = [f \in Files |-> IF f = p \/ f \in Below(p) THEN mark ELSE wanted[f]]
    BY <1>4 DEF ClickRow
  <2>3. \A f \in Files : f \in Reached(p) <=> f = p \/ f \in Below(p)
    BY WalkIsBelow DEF Reached
  <2>. HIDE DEF mark
  <2>2. wanted' \in [Files -> BOOLEAN]
    BY <2>1 DEF TypeInv
  <2>4. \A f \in Files : wanted'[f] = IF f \in Reached(p) THEN mark ELSE wanted[f]
    BY <2>1, <2>3
  <2>. QED
    BY <2>1, <2>2, <2>4, MarkingKeepsMarks
<1>5. ASSUME NEW mark \in BOOLEAN, SetAll(mark) PROVE MarksInv'
  <2>1. wanted' \in [Files -> BOOLEAN]
    BY <1>5 DEF SetAll, file_vars, TypeInv
  <2>2. \A f \in Files : f \in Walk(<< >>) <=> f \in Below(<< >>)
    BY WalkIsBelow
  <2>3. \A f \in Files : wanted'[f] = IF f \in Walk(<< >>) THEN mark ELSE wanted[f]
    BY <1>5, <2>2 DEF SetAll
  <2>. QED
    BY <1>5, <2>1, <2>3, MarkingKeepsMarks DEF SetAll
<1>. QED
  BY <1>1, <1>2, <1>3, <1>4, <1>5
  DEF PayloadNext, GuiStep, ChooseFile, PrepareFile, PrepareAsIs, PackBegins, PackEnds, PackFails,
      Ready, StartSending, SendingEnds, SessionBegins, SessionReset, Appears, Vanishes,
      payload_vars, tree_vars

(* Packing writes the archive from its first byte on with a password of    *)
(* the session, a reset deletes it or leaves it behind without a payload,  *)
(* and a session key is only replaced where what is bound to it goes too.  *)
LEMMA ArchiveIsKept ==
    PackingInv /\ ArchiveOpens /\ [PayloadNext]_payload_vars => PackingInv' /\ ArchiveOpens'
<1>. SUFFICES ASSUME PackingInv, ArchiveOpens, [PayloadNext]_payload_vars
              PROVE  PackingInv' /\ ArchiveOpens'
  OBVIOUS
<1>. USE DEF PackingInv, ArchiveOpens, ready_vars, file_vars
<1>1. CASE UNCHANGED <<ready_vars, file_vars, session_key, sending>>
  BY <1>1
<1>2. CASE SelectDir \/ ChooseFile
  BY <1>2 DEF SelectDir, ChooseFile, NoPayload
<1>3. CASE PrepareFile \/ PrepareAsIs
  BY <1>3 DEF PrepareFile, PrepareAsIs, Ready
<1>4. ASSUME NEW password \in SessionKeys \cup {NoKey}, PackBegins(password)
      PROVE  PackingInv' /\ ArchiveOpens'
  BY <1>4 DEF PackBegins
<1>5. CASE PackEnds
  BY <1>5 DEF PackEnds, Ready, NotPacking
<1>6. CASE PackFails
  BY <1>6 DEF PackFails, NotPacking
<1>7. CASE StartSending /\ ~packing.on
  BY <1>7 DEF StartSending
<1>8. CASE SendingEnds
  BY <1>8 DEF SendingEnds
<1>9. ASSUME NEW key \in SessionKeys, SessionBegins(key), ~packing.on
      PROVE  PackingInv' /\ ArchiveOpens'
  BY <1>9 DEF SessionBegins
<1>10. ASSUME NEW key \in SessionKeys \cup {NoKey}, SessionReset(key), ~packing.on
       PROVE  PackingInv' /\ ArchiveOpens'
  <2>1. CASE archive_key = NoKey
    BY <1>10, <2>1 DEF SessionReset, DiscardKeyBoundPayload
  <2>2. CASE archive_key # NoKey
    BY <1>10, <2>2 DEF SessionReset, DiscardKeyBoundPayload, NoPayload
  <2>. QED
    BY <2>1, <2>2
<1>. QED
  BY <1>1, <1>2, <1>3, <1>4, <1>5, <1>6, <1>7, <1>8, <1>9, <1>10
  DEF PayloadNext, GuiStep, OpenDir, ClickRow, SetAll, Appears, Vanishes, payload_vars, tree_vars

-----------------------------------------------------------------------------
(* The marks and the archive, in every reachable state                     *)
(* (appearance.py, the tree of check boxes and on_initiate_transfer).      *)
THEOREM PayloadInvariant == PayloadSpec => []PayloadInv
<1>1. PayloadInv /\ [PayloadNext]_payload_vars => PayloadInv'
  BY TypesAreKept, MarksAreKept, ArchiveIsKept DEF PayloadInv
<1>. QED
  BY <1>1, PayloadInitially, PTL DEF PayloadSpec

(* The box at a file says what the user last said of it                    *)
(* (appearance.py, _set_checked_recursive, _refresh_visible_checkmarks).   *)
THEOREM MarksStayTrue == PayloadSpec => []MarksAreTrue
<1>1. PayloadInv => MarksAreTrue
  BY DEF PayloadInv, MarksInv, MarksAreTrue
<1>. QED
  BY <1>1, PayloadInvariant, PTL

(* Unless packing has failed, an archive that is ready is the one that was *)
(* prepared, and whatever a worker reads of an archive, also while it is   *)
(* rewritten, has the key of the session or none (appearance.py,           *)
(* on_initiate_transfer, _discard_key_bound_payload; exchange.py).         *)
THEOREM ArchiveStaysOpen == PayloadSpec => []ArchiveOpens
<1>1. PayloadInv => ArchiveOpens
  BY DEF PayloadInv
<1>. QED
  BY <1>1, PayloadInvariant, PTL

(* What is prepared is what exists and was not taken out                   *)
(* (appearance.py, on_initiate_transfer).                                  *)
THEOREM PreparedIsSelected == PayloadSpec => PayloadIsTheSelection
<1>. DEFINE chosen == {f \in Below(<< >>) : wanted[f]}
            Goal == /\ (payload' # payload /\ payload'.kind = "files") => payload'.files = chosen
                    /\ (packing'.on /\ ~packing.on) => packing'.files = chosen
                    /\ (payload' # payload /\ payload'.kind = "archive")
                           => payload'.files = packing.files
<1>. USE DEF ready_vars, file_vars
<1>1. ASSUME PayloadInv, PayloadNext PROVE Goal
  <2>1. Included = chosen
    BY <1>1, IncludedIsWanted DEF PayloadInv
  <2>. HIDE DEF chosen
  <2>2. CASE UNCHANGED packing /\ (UNCHANGED payload \/ payload'.kind \in {"none", "file"})
    BY <2>2
  <2>3. CASE PrepareAsIs
    BY <2>1, <2>3 DEF PrepareAsIs, Ready
  <2>4. CASE \E password \in SessionKeys \cup {NoKey} : PackBegins(password)
    BY <2>1, <2>4 DEF PackBegins
  <2>5. CASE PackEnds
    BY <2>5 DEF PackEnds, Ready, NotPacking
  <2>6. CASE PackFails
    BY <2>6 DEF PackFails, NotPacking
  <2>. QED
    BY <1>1, <2>2, <2>3, <2>4, <2>5, <2>6
    DEF PayloadNext, GuiStep, SelectDir, ChooseFile, OpenDir, ClickRow, SetAll, PrepareFile, Ready,
        StartSending, SendingEnds, SessionBegins, SessionReset, DiscardKeyBoundPayload, Appears,
        Vanishes, NoPayload
<1>2. ASSUME UNCHANGED payload_vars PROVE Goal
  BY <1>2 DEF payload_vars
<1>3. PayloadInv /\ [PayloadNext]_payload_vars => [Goal]_payload_vars
  BY <1>1, <1>2
<1>. QED
  BY <1>3, PayloadInvariant, PTL DEF PayloadSpec, PayloadIsTheSelection

-----------------------------------------------------------------------------
(***************************************************************************)
(* All the types.                                                          *)
(***************************************************************************)

(* Marks of paths.                                                         *)
Marks(m) == DOMAIN m \subseteq Paths /\ \A p \in DOMAIN m : m[p] \in BOOLEAN

TreeTypes ==
    /\ selected \in {"none", "file", "dir"}
    /\ Marks(checked)
    /\ Marks(rows)
    /\ opened \subseteq DOMAIN rows \cap Dirs

ReadyTypes ==
    /\ payload \in [kind : {"none", "file", "files", "archive"}, files : SUBSET Files]
    /\ archive_key \in SessionKeys \cup {NoKey}
    /\ archive \in [exists : BOOLEAN, files : SUBSET Files, key : SessionKeys \cup {NoKey}]
    /\ packing \in [on : BOOLEAN, files : SUBSET Files, key : SessionKeys \cup {NoKey}]
    /\ session_key \in SessionKeys \cup {NoKey}
    /\ sending \in {"nothing", "archive"}

(* Walking yields paths, and what is included are files.                   *)
LEMMA WalkedPaths ==
    ASSUME TypeInv
    PROVE  /\ \A root : Walk(root) \subseteq Paths /\ Entries(root) \subseteq Paths
           /\ Included \subseteq Files
<1>1. \A root : Walk(root) \subseteq present
  BY WalkFindsFiles
<1>2. present \subseteq Paths
  BY DEF TypeInv
<1>. QED
  BY <1>1, <1>2 DEF Entries, Included, Paths

(* The tree remembers marks of paths only, and shows no others.            *)
LEMMA TreeStep == TypeInv /\ TreeTypes /\ [PayloadNext]_payload_vars => TreeTypes'
<1>. SUFFICES ASSUME TypeInv, TreeTypes, [PayloadNext]_payload_vars PROVE TreeTypes'
  OBVIOUS
<1>1. CASE UNCHANGED <<selected, checked, rows, opened>>
  BY <1>1 DEF TreeTypes, Marks
<1>2. CASE SelectDir
  <2>1. /\ selected' = "dir" /\ opened' = {} /\ DOMAIN checked' = {}
        /\ rows' = WithRows(<< >>, Entries(<< >>), << >>)
    BY <1>2, NothingRemembered DEF SelectDir
  <2>2. DOMAIN rows' = Entries(<< >>)
    BY <2>1, NothingRemembered DEF WithRows
  <2>3. \A p \in DOMAIN rows' : rows'[p] \in BOOLEAN
    BY <2>1, <2>2 DEF WithRows, IsChecked
  <2>. QED
    BY <2>1, <2>2, <2>3, WalkedPaths DEF TreeTypes, Marks
<1>3. CASE ChooseFile
  BY <1>3 DEF ChooseFile, TreeTypes, Marks
<1>4. ASSUME NEW d \in Dirs, OpenDir(d) PROVE TreeTypes'
  <2>1. /\ d \in DOMAIN rows /\ opened' = opened \cup {d}
        /\ rows' = WithRows(rows, Entries(d), checked) /\ UNCHANGED <<selected, checked>>
    BY <1>4 DEF OpenDir
  <2>2. DOMAIN rows' = DOMAIN rows \cup Entries(d)
    BY <2>1 DEF WithRows
  <2>3. \A p \in DOMAIN rows' : rows'[p] \in BOOLEAN
    BY <2>1, <2>2 DEF WithRows, IsChecked, TreeTypes, Marks
  <2>. QED
    BY <2>1, <2>2, <2>3, WalkedPaths DEF TreeTypes, Marks
<1>5. ASSUME NEW paths, paths \subseteq Paths, NEW mark \in BOOLEAN,
             checked' = Marked(paths, mark), rows' = Refresh(checked'),
             UNCHANGED <<selected, opened>>
      PROVE  TreeTypes'
  <2>1. DOMAIN checked' = DOMAIN checked \cup paths
    BY <1>5 DEF Marked
  <2>2. \A p \in DOMAIN checked' : checked'[p] \in BOOLEAN
    BY <1>5, <2>1 DEF Marked, TreeTypes, Marks
  <2>3. DOMAIN rows' = DOMAIN rows /\ \A p \in DOMAIN rows' : rows'[p] \in BOOLEAN
    BY <1>5 DEF Refresh, IsChecked
  <2>. QED
    BY <1>5, <2>1, <2>2, <2>3 DEF TreeTypes, Marks
<1>6. ASSUME NEW p \in Paths, ClickRow(p) PROVE TreeTypes'
  <2>1. Reached(p) \subseteq Paths
    BY WalkedPaths DEF Reached
  <2>2. PICK mark \in BOOLEAN : checked' = Marked(Reached(p), mark)
    BY <1>6 DEF ClickRow
  <2>. QED
    BY <1>5, <1>6, <2>1, <2>2 DEF ClickRow
<1>7. ASSUME NEW mark \in BOOLEAN, SetAll(mark) PROVE TreeTypes'
  BY <1>5, <1>7, WalkedPaths DEF SetAll
<1>. QED
  BY <1>1, <1>2, <1>3, <1>4, <1>6, <1>7
  DEF PayloadNext, GuiStep, PrepareFile, PrepareAsIs, PackBegins, PackEnds, PackFails, Ready,
      StartSending, SendingEnds, SessionBegins, SessionReset, Appears, Vanishes, payload_vars,
      tree_vars

(* What is prepared, packed or sent are files of the tree.                 *)
LEMMA ReadyStep == TypeInv /\ ReadyTypes /\ [PayloadNext]_payload_vars => ReadyTypes'
<1>. SUFFICES ASSUME TypeInv, ReadyTypes, [PayloadNext]_payload_vars PROVE ReadyTypes'
  OBVIOUS
<1>. USE DEF ReadyTypes, ready_vars, file_vars
<1>1. CASE UNCHANGED <<ready_vars, file_vars, session_key, sending>>
  BY <1>1
<1>2. CASE SelectDir \/ ChooseFile
  BY <1>2 DEF SelectDir, ChooseFile, NoPayload
<1>3. CASE PrepareFile \/ PrepareAsIs
  BY <1>3, WalkedPaths DEF PrepareFile, PrepareAsIs, Ready
<1>4. ASSUME NEW password \in SessionKeys \cup {NoKey}, PackBegins(password)
      PROVE  ReadyTypes'
  BY <1>4, WalkedPaths DEF PackBegins
<1>5. CASE PackEnds \/ PackFails
  <2>1. NotPacking \in [on : BOOLEAN, files : SUBSET Files, key : SessionKeys \cup {NoKey}]
    BY DEF NotPacking
  <2>2. packing.files \in SUBSET Files /\ packing.key \in SessionKeys \cup {NoKey}
    OBVIOUS
  <2>3. CASE PackEnds
    BY <2>1, <2>2, <2>3 DEF PackEnds, Ready
  <2>4. CASE PackFails
    BY <2>1, <2>4 DEF PackFails
  <2>. QED
    BY <1>5, <2>3, <2>4
<1>6. CASE StartSending \/ SendingEnds
  BY <1>6 DEF StartSending, SendingEnds
<1>7. ASSUME NEW key \in SessionKeys, SessionBegins(key) PROVE ReadyTypes'
  BY <1>7 DEF SessionBegins
<1>8. ASSUME NEW key \in SessionKeys \cup {NoKey}, SessionReset(key) PROVE ReadyTypes'
  <2>1. /\ NoArchive \in [exists : BOOLEAN, files : SUBSET Files, key : SessionKeys \cup {NoKey}]
        /\ NoPayload \in [kind : {"none", "file", "files", "archive"}, files : SUBSET Files]
    BY DEF NoArchive, NoPayload
  <2>2. /\ archive' = archive \/ archive' = NoArchive
        /\ payload' = payload \/ payload' = NoPayload
        /\ archive_key' \in {archive_key, NoKey}
    BY <1>8 DEF SessionReset, DiscardKeyBoundPayload
  <2>. QED
    BY <1>8, <2>1, <2>2 DEF SessionReset
<1>. QED
  BY <1>1, <1>2, <1>3, <1>4, <1>5, <1>6, <1>7, <1>8
  DEF PayloadNext, GuiStep, OpenDir, ClickRow, SetAll, Appears, Vanishes, payload_vars

(* The types, in every reachable state: no row or mark of a path that is   *)
(* not of the tree, no loaded directory without a row.                     *)
THEOREM PayloadTypes == PayloadSpec => []PayloadTypeOK
<1>1. PayloadInit => TreeTypes /\ ReadyTypes
  BY NothingRemembered
  DEF PayloadInit, TreeTypes, Marks, ReadyTypes, NoPayload, NoArchive, NotPacking
<1>2. TypeInv /\ TreeTypes /\ ReadyTypes => PayloadTypeOK
  BY DEF TypeInv, TreeTypes, Marks, ReadyTypes, PayloadTypeOK
<1>3. PayloadInv => TypeInv
  BY DEF PayloadInv
<1>. QED
  BY <1>1, <1>2, <1>3, TreeStep, ReadyStep, PayloadInvariant, PTL DEF PayloadSpec
=============================================================================
