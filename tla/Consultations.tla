------------------------------- MODULE Consultations -------------------------------
(* The version chain of a consultation and the requests that change it:         *)
(*   views/consultations.py   add, edit (a new row per edit), delete (soft)     *)
(*   views/trash.py           restore                                           *)
(*   cli/apply_data_retention_policy.py   hard_delete of old deleted chains     *)
(*   models/consultation.py, models/soft_delete.py, orm/session.py              *)
(*                                                                              *)
(* A request is a database transaction at READ COMMITTED: each query sees what  *)
(* is committed when it runs, and the flush writes by primary key without       *)
(* looking at what was read.  So a request is three steps here, two for its     *)
(* database reads and one for the flush and commit; a row that is gone at the   *)
(* flush is a StaleDataError, which aborts the transaction.  With one worker    *)
(* requests never overlap; with several they interleave between their steps.    *)
EXTENDS Naturals, FiniteSets

CONSTANTS
    Versions,   \* identities of rows of the table consultations
    Files,      \* identities of rows of the table searchable_files
    Workers,    \* threads and command line processes with a transaction each
    NoVersion   \* SQL NULL, and Python's None

ASSUME NoVersionAssumption == NoVersion \notin Versions

VARIABLES
    exists,       \* SUBSET Versions: the rows of the table
    created,      \* [Versions -> Nat]: column created, 0 for an id never used
    latest,       \* [Versions -> BOOLEAN]: column is_latest_version
    deleted,      \* [Versions -> BOOLEAN]: column deleted
    replacedBy,   \* [Versions -> Versions \cup {NoVersion}]: replaced_consultation_id
    fileOf,       \* [Files -> Versions \cup {NoVersion}]: consultation_id, NoVersion: no row
    fileDeleted,  \* [Files -> BOOLEAN]: the file's column deleted
    uploaded,     \* SUBSET Files: file ids ever used
    clock,        \* Nat: the time, counted in inserted consultations
    req           \* [Workers -> Request]: what each transaction has read

rows == <<exists, created, latest, deleted, replacedBy>>
fileRows == <<fileOf, fileDeleted, uploaded>>
vars == <<rows, fileRows, clock, req>>

-----------------------------------------------------------------------------
(* Types *)

Ops == {"idle", "edit", "delete", "restore", "purge"}

\* target: the context of the request; read: the second query, of its files or
\* of the chains to purge, has run; copied: the files it will write; ids: the
\* consultations it will write.
Request == [op: Ops, target: Versions \cup {NoVersion}, read: BOOLEAN,
            copied: SUBSET Files, ids: SUBSET Versions]

Idle == [op |-> "idle", target |-> NoVersion, read |-> FALSE,
         copied |-> {}, ids |-> {}]

\* Every column holds a value of its type.
TypeOK ==
    /\ exists \subseteq Versions
    /\ created \in [Versions -> Nat]
    /\ latest \in [Versions -> BOOLEAN]
    /\ deleted \in [Versions -> BOOLEAN]
    /\ replacedBy \in [Versions -> Versions \cup {NoVersion}]
    /\ fileOf \in [Files -> Versions \cup {NoVersion}]
    /\ fileDeleted \in [Files -> BOOLEAN]
    /\ uploaded \subseteq Files
    /\ clock \in Nat
    /\ req \in [Workers -> Request]

Init ==
    /\ exists = {}
    /\ created = [v \in Versions |-> 0]
    /\ latest = [v \in Versions |-> FALSE]
    /\ deleted = [v \in Versions |-> FALSE]
    /\ replacedBy = [v \in Versions |-> NoVersion]
    /\ fileOf = [f \in Files |-> NoVersion]
    /\ fileDeleted = [f \in Files |-> FALSE]
    /\ uploaded = {}
    /\ clock = 0
    /\ req = [w \in Workers |-> Idle]

-----------------------------------------------------------------------------
(* Queries *)

\* uuid4 never returns an id that was used before.
FreshVersions == {v \in Versions : created[v] = 0}
FreshFiles == Files \ uploaded

Predecessors(v) == {u \in exists : replacedBy[u] = v}

\* The rows of S and every row a chain of replaced_by leads from to one of S:
\* the least set that holds S and is closed under predecessors.
WithHistory(S) ==
    {v \in exists : \A T \in SUBSET Versions :
        (S \subseteq T /\ \A t \in T : Predecessors(t) \subseteq T) => v \in T}

\* A defect for comparison: the rows found, without their history.
ChainsOfFoundOnly(S) == S

\* previous_version, followed from each row of S to the start of its chain.
ChainsOf(S) == WithHistory(S)

\* ON DELETE CASCADE of replaced_consultation_id.
CascadeOf(S) == WithHistory(S)

\* A defect for comparison: restore does not see the deleted files.
FilesToWriteFiltered(op, v) == {f \in Files : fileOf[f] = v /\ ~fileDeleted[f]}

\* The rows of searchable_files that a request's relationship `files` loads and
\* that its flush will change: restore loads with the soft delete filter off
\* and changes the deleted ones, the other requests never see those.
FilesToWrite(op, v) ==
    {f \in Files : fileOf[f] = v /\ fileDeleted[f] = (op = "restore")}

\* The attribute replaced_by, loaded with the soft delete criteria of the query
\* that loaded v: they propagate to lazy loads, so a deleted successor is None.
VisibleSuccessor(v) ==
    LET u == replacedBy[v]
    IN  IF u \in exists /\ ~deleted[u] THEN u ELSE NoVersion

\* Follow replaced_by while there is one to follow.
LastVisible[v \in Versions] ==
    IF VisibleSuccessor(v) = NoVersion THEN v ELSE LastVisible[VisibleSuccessor(v)]

\* A defect for comparison: one step along the chain instead of all.
GetNextVersion(v) == IF latest[v] THEN v ELSE VisibleSuccessor(v)

\* NoVersion stands for the exception InconsistentChain.
GetLatestVersion(v) ==
    IF latest[v] THEN v
    ELSE IF VisibleSuccessor(v) = NoVersion THEN NoVersion
    ELSE LastVisible[v]

\* The end of the chain of v in the table itself.
ChainEnd[v \in Versions] ==
    IF replacedBy[v] = NoVersion THEN v ELSE ChainEnd[replacedBy[v]]

-----------------------------------------------------------------------------
(* What a flush leaves in the columns *)

\* A defect for comparison: the previous version stays the latest one as well.
LatestAfterEditNotReset(prev, next) == [latest EXCEPT ![next] = TRUE]

LatestAfterEdit(prev, next) == [latest EXCEPT ![prev] = FALSE, ![next] = TRUE]

\* A defect for comparison: the whole history points to the newest version.
ReplacedAfterEditFlat(prev, next) ==
    [v \in Versions |-> IF v = prev \/ (v \in exists /\ replacedBy[v] = prev)
                        THEN next ELSE replacedBy[v]]

ReplacedAfterEdit(prev, next) == [replacedBy EXCEPT ![prev] = next]

DeletedAfter(ids, isDelete) ==
    [v \in Versions |-> IF v \in ids THEN isDelete ELSE deleted[v]]

\* A defect for comparison: only new files are attached to the new version.
FilesAfterEditNotMoved(next, kept, removed) ==
    [f \in Files |-> IF f \in kept /\ fileOf[f] = NoVersion THEN next
                     ELSE IF f \in removed THEN NoVersion ELSE fileOf[f]]

\* Kept and new files belong to next, removed ones are orphans, hence deleted.
FilesAfterEdit(next, kept, removed) ==
    [f \in Files |-> IF f \in kept THEN next
                     ELSE IF f \in removed THEN NoVersion ELSE fileOf[f]]

FileDeletedAfter(fs, isDelete) ==
    [f \in Files |-> IF f \in fs THEN isDelete ELSE fileDeleted[f]]

\* The UPDATEs of a flush find every row they name.
RowsRemain(ids, fs) ==
    /\ ids \subseteq exists
    /\ \A f \in fs : fileOf[f] # NoVersion

-----------------------------------------------------------------------------
(* Requests *)

Insert(v) ==
    /\ exists' = exists \cup {v}
    /\ clock' = clock + 1
    /\ created' = [created EXCEPT ![v] = clock + 1]

Finish(w) == req' = [req EXCEPT ![w] = Idle]

\* add_consultation_view: it reads nothing that it writes, so it is one step.
Add(w) ==
    /\ req[w] = Idle
    /\ \E v \in FreshVersions, new \in SUBSET FreshFiles :
          /\ Insert(v)
          /\ latest' = [latest EXCEPT ![v] = TRUE]
          /\ fileOf' = FilesAfterEdit(v, new, {})
          /\ uploaded' = uploaded \cup new
    /\ UNCHANGED <<deleted, replacedBy, fileDeleted, req>>

\* Which rows the route factory, or the query of the restore view, can return.
IsContext(op, v) ==
    /\ v \in exists
    /\ latest[v]
    /\ op # "restore" => ~deleted[v]

\* A defect for comparison: the replacement is toggled too, even if it is None.
ToToggleWithReplacement(op, v) ==
    IF op \in {"delete", "restore"} THEN {v, replacedBy[v]} ELSE {}

\* The consultations whose column `deleted` the flush will write: restoring a
\* consultation that is not deleted leaves the attribute unchanged.
\* previous_version and replaced_by of a latest version are both None for these
\* requests: the filter on is_latest_version propagates to their lazy loads.
ToToggle(op, v) ==
    IF op = "delete" \/ (op = "restore" /\ deleted[v]) THEN {v} ELSE {}

LoadContext(w, op, v) ==
    /\ req[w] = Idle
    /\ IsContext(op, v)
    /\ req' = [req EXCEPT ![w] =
                  [Idle EXCEPT !.op = op, !.target = v, !.ids = ToToggle(op, v)]]
    /\ UNCHANGED <<rows, fileRows, clock>>

ReadFiles(w) ==
    /\ req[w].op \in {"edit", "delete", "restore"}
    /\ ~req[w].read
    /\ req' = [req EXCEPT ![w] =
                  [req[w] EXCEPT !.read = TRUE,
                                 !.copied = FilesToWrite(req[w].op, req[w].target)]]
    /\ UNCHANGED <<rows, fileRows, clock>>

\* edit_consultation_view with a valid form: the user keeps some of the files
\* the form showed and uploads others.
SaveEdit(w) ==
    LET prev == req[w].target
    IN  /\ req[w].op = "edit"
        /\ req[w].read
        /\ \E next \in FreshVersions, kept \in SUBSET req[w].copied,
              new \in SUBSET FreshFiles :
              /\ RowsRemain({prev}, kept)
              /\ Insert(next)
              /\ latest' = LatestAfterEdit(prev, next)
              /\ replacedBy' = ReplacedAfterEdit(prev, next)
              /\ fileOf' = FilesAfterEdit(next, kept \cup new, req[w].copied \ kept)
              /\ uploaded' = uploaded \cup new
        /\ Finish(w)
        /\ UNCHANGED <<deleted, fileDeleted>>

\* delete_consultation_view (soft) and restore_soft_deleted_model_view: both
\* toggle the column `deleted` of the consultation and of the files they loaded.
SaveToggle(w, op) ==
    /\ req[w].op = op
    /\ req[w].read
    /\ RowsRemain(req[w].ids, req[w].copied)
    /\ deleted' = DeletedAfter(req[w].ids, op = "delete")
    /\ fileDeleted' = FileDeletedAfter(req[w].copied, op = "delete")
    /\ Finish(w)
    /\ UNCHANGED <<exists, created, latest, replacedBy, fileOf, uploaded, clock>>

\* The form of an edit is only shown, or is not valid: next_cons is expunged.
ShowForm(w) ==
    /\ req[w].op = "edit"
    /\ req[w].read
    /\ Finish(w)
    /\ UNCHANGED <<rows, fileRows, clock>>

\* StaleDataError, and the transaction is aborted.
Abort(w) ==
    /\ req[w].op \in {"edit", "delete", "restore"}
    /\ req[w].read
    /\ ~RowsRemain(req[w].ids \cup {req[w].target}, req[w].copied)
    /\ Finish(w)
    /\ UNCHANGED <<rows, fileRows, clock>>

-----------------------------------------------------------------------------
(* The command line job hard_delete *)

\* The deleted consultations that were created by the date of --days.
Expired(date) ==
    {v \in exists : latest[v] /\ deleted[v] /\ created[v] <= date}

ScanTrash(w) ==
    /\ req[w] = Idle
    /\ \E date \in 1 .. clock :
          /\ Expired(date) # {}
          /\ req' = [req EXCEPT ![w] =
                        [Idle EXCEPT !.op = "purge", !.ids = Expired(date)]]
    /\ UNCHANGED <<rows, fileRows, clock>>

FollowChains(w) ==
    /\ req[w].op = "purge"
    /\ ~req[w].read
    /\ req' = [req EXCEPT ![w] =
                  [req[w] EXCEPT !.read = TRUE,
                                 !.ids = req[w].ids \cup ChainsOf(req[w].ids)]]
    /\ UNCHANGED <<rows, fileRows, clock>>

\* Two bulk DELETEs by the collected ids, and what their foreign keys cascade to.
Purge(w) ==
    /\ req[w].op = "purge"
    /\ req[w].read
    /\ LET gone == CascadeOf(req[w].ids)
       IN  /\ exists' = exists \ gone
           /\ fileOf' = [f \in Files |-> IF fileOf[f] \in gone THEN NoVersion
                                          ELSE fileOf[f]]
    /\ Finish(w)
    /\ UNCHANGED <<created, latest, deleted, replacedBy, fileDeleted, uploaded, clock>>

-----------------------------------------------------------------------------

Step(w) ==
    \/ Add(w)
    \/ \E op \in {"edit", "delete", "restore"}, v \in Versions : LoadContext(w, op, v)
    \/ ReadFiles(w)
    \/ SaveEdit(w)
    \/ \E op \in {"delete", "restore"} : SaveToggle(w, op)
    \/ ShowForm(w)
    \/ Abort(w)
    \/ ScanTrash(w)
    \/ FollowChains(w)
    \/ Purge(w)

Next == \E w \in Workers : Step(w)

Spec == Init /\ [][Next]_vars

-----------------------------------------------------------------------------
(* Properties *)

Latest == {v \in exists : latest[v]}

\* The rows form chains in time: a row is the latest version exactly when
\* nothing replaces it, its replacement is a row of the table that is younger.
\* It survives concurrent edits of one version, whose branches then share no
\* row, and a purge of any part of the table (the columns is_latest_version and
\* replaced_consultation_id of models/consultation.py).
ChainShape ==
    \A v \in exists :
        /\ latest[v] <=> replacedBy[v] = NoVersion
        /\ ~latest[v] => /\ replacedBy[v] \in exists
                         /\ created[v] < created[replacedBy[v]]

\* No two versions are replaced by the same one, so that previous_version is
\* one row and following it visits the whole history.
OnePredecessor ==
    \A u, v \in exists :
        replacedBy[u] = replacedBy[v] /\ replacedBy[u] # NoVersion => u = v

\* Only the latest version has files attached (the comment of the columns
\* added_files and removed_files), and they are in the trash with it.  An old
\* version is never in the trash.
FilesOnLatest ==
    /\ \A f \in Files : fileOf[f] # NoVersion =>
          /\ fileOf[f] \in Latest
          /\ fileDeleted[f] = deleted[fileOf[f]]
    /\ \A v \in exists : deleted[v] => latest[v]

\* Every version of a consultation that is not in the trash resolves to its
\* latest one (create_consultation_all_versions_factory): InconsistentChain is
\* never raised for it.
LiveChainResolves ==
    \A v \in exists :
        ~deleted[ChainEnd[v]] => GetLatestVersion(v) = ChainEnd[v]

\* Whatever version is requested, for example by a bookmark, the factory finds
\* the latest one (the docstring of create_consultation_all_versions_factory
\* and the comment of get_latest_version).
BookmarkFindsLatest ==
    \A v \in exists : ~deleted[v] =>
        GetLatestVersion(v) \in {u \in Latest : WithHistory({u}) \cap {v} # {}}

\* hard_delete removes no row whose id it does not report (the docstring of
\* delete_old_consultation_chains), although ON DELETE CASCADE follows the
\* chains as they are at the DELETE and the ids were collected before.
PurgeReportsAll ==
    [][\A w \in Workers : Purge(w) => exists \ exists' = req[w].ids \cap exists]_vars

\* A purge removes only consultations whose latest version is in the trash.
PurgeOnlyTrashed ==
    [][\A v \in Latest : v \notin exists' => deleted[v]]_vars

\* One document for each chain, named by its first version.
IsFirst(v) == v \in exists /\ Predecessors(v) = {}

Status ==
    [v \in Versions |-> IF ~IsFirst(v) THEN "absent"
                        ELSE IF deleted[ChainEnd[v]] THEN "trash" ELSE "live"]

Revisions ==
    [v \in Versions |-> IF ~IsFirst(v) THEN 0
                        ELSE Cardinality(WithHistory({ChainEnd[v]}))]

Attached ==
    [v \in Versions |-> IF ~IsFirst(v) THEN {}
                        ELSE {f \in Files : fileOf[f] = ChainEnd[v]
                                             /\ fileDeleted[f] = deleted[ChainEnd[v]]}]

Records == INSTANCE ConsultationRecords WITH
    Docs <- Versions, status <- Status, revisions <- Revisions, attached <- Attached

\* When requests do not overlap, the tables implement the documents: an edit
\* adds one revision, trash and restore keep history and files, and a purge
\* takes whole documents out of the trash.
ImplementsRecords == Records!Spec
=============================================================================
