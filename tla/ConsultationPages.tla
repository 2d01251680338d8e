------------------------------- MODULE ConsultationPages -------------------------------
(* What is read from the tables of module Consultations:                        *)
(*   views/consultations.py   the list and the page of a consultation           *)
(*   views/activities.py      the feed of all versions                          *)
(*   views/trash.py           the list of the trash                             *)
(*   views/search.py          the search in titles, texts and files             *)
(*   cli/print_trees.py       the version chains: printed, checked, and deleted *)
(*                            by a keyword in the title                         *)
(* The pages change no row.  Every query has the filter of the session on       *)
(* deleted rows; that on latest versions is off where the comment says so.      *)
EXTENDS Consultations, FiniteSetsExt

CONSTANTS
    PageLimit,      \* of the previous versions that the page asks for: 5 in the code
    ListLimit       \* of those among which the list looks for the first one: 1000

ASSUME LimitsAssumption == PageLimit \in Nat /\ ListLimit \in Nat

-----------------------------------------------------------------------------
(* The list and the page of a consultation *)

Listed == {v \in exists : latest[v] /\ ~deleted[v]}

\* get_previous_versions: SQL of its own, then the rows without the version filter.
\* What it may return: a LIMIT without an order leaves the choice to the database.
PreviousVersions(v, limit) ==
    LET replaced == {u \in WithHistory({v}) \ {v} : replacedBy[u] # NoVersion}
    IN  {{u \in found : ~deleted[u]} :
            found \in kSubset(Min({limit, Cardinality(replaced)}), replaced)}

\* get_first_version_creation_date, by which the list is sorted: what it may be.
FirstCreated(v) ==
    {Min({created[u] : u \in {v} \cup old}) : old \in PreviousVersions(v, ListLimit)}

\* The documents of the page.
Documents(v) == {f \in Files : fileOf[f] = v /\ ~fileDeleted[f]}

-----------------------------------------------------------------------------
(* The activity feed *)

\* previous_version, joined without the version filter.
Precedes(u, v) == u \in Predecessors(v) /\ ~deleted[u]

\* A defect for comparison: the version filter stays on.
FeedRowsLatest == Listed

\* All versions.
FeedRows == {v \in exists : ~deleted[v]}

\* A version without a previous one is a creation; the link is to the latest one.
Activity(v) ==
    [type |-> IF \E u \in exists : Precedes(u, v) THEN "update" ELSE "creation",
     timestamp |-> created[v], link |-> GetLatestVersion(v)]

\* The link of a version whose chain is inconsistent is an exception.
HasNoLink(v) == GetLatestVersion(v) = NoVersion

\* get_activities: such a version is passed over.
Feed == {v \in FeedRows : ~HasNoLink(v)}

\* maybe_apply_date_filter.
FilteredRows(from, until) == {v \in FeedRows : created[v] \in from .. until}

\* The feed that is filtered by dates does not catch the exception.
FilterFails(from, until) == \E v \in FilteredRows(from, until) : HasNoLink(v)

-----------------------------------------------------------------------------
(* The trash and the search *)

\* The filter on deleted rows is off, that on latest versions is not.
TrashListed == {v \in exists : latest[v] /\ deleted[v]}

\* Consultations that match, as any may.
FoundConsultations == Listed

\* A defect for comparison: the files of the trash are found.
FoundFilesAnyway == {f \in Files : fileOf[f] # NoVersion}

\* Files that match.
FoundFiles == {f \in Files : fileOf[f] # NoVersion /\ ~fileDeleted[f]}

-----------------------------------------------------------------------------
(* The version chains on the command line, on tables t that may be other ones    *)
(* than those of module Consultations: a keyword deletion leaves what the        *)
(* application never does.  No command has the filter on latest versions.        *)

Tables == [rows |-> exists, next |-> replacedBy]

\* print_latest_consultations_with_files.
PrintedFiles == {p \in Listed \X Files : p[2] \in Documents(p[1])}

\* The row and those that replace it, one after the other.
Chain(t, v) ==
    LET along[u \in Versions] ==
            IF t.next[u] = NoVersion THEN {u} ELSE {u} \cup along[t.next[u]]
    IN  along[v]

Roots(t) == {v \in t.rows : t.next[v] = NoVersion /\ ~deleted[v]}

\* The rows whose chain of replaced_by holds v.
Tree(t, v) == {u \in t.rows : v \in Chain(t, u)}

\* print_consultation_tree: previous_version is not followed to a deleted row.
Printed(t, v) ==
    {u \in Tree(t, v) : \A x \in Tree(t, v) \cap Chain(t, u) : x # v => ~deleted[x]}

\* validate_trees: the count of latest versions in the tree of a root, and the walk
\* from it along replaced_by, which ends where it begins: a root is not replaced.
HasErrors(t, v) == Cardinality({u \in Tree(t, v) : latest[u]}) # 1 \/ ~latest[v]

\* A defect for comparison: the versions before it stay linked to the deleted row.
UnlinkedNot(t, v) == t

\* "carefully unlinks versions before deleting to prevent unintended cascade".
Unlinked(t, v) ==
    [t EXCEPT !.next = [u \in Versions |-> IF @[u] = v THEN NoVersion ELSE @[u]]]

DeletedRow(t, v) == LET free == Unlinked(t, v) IN [free EXCEPT !.rows = @ \ Tree(free, v)]

\* temp_delete_consultations_by_keyword, of the rows whose title matches: those
\* in the trash are not found.
KeywordDeleted(t, matching) == FoldSet(LAMBDA v, u : DeletedRow(u, v), t, matching)

-----------------------------------------------------------------------------
(* Properties *)

\* The feed tells the history of every consultation that is not in the trash: each
\* version once, the oldest one as the creation, and all of them lead to its page.
\* With a filter it fails exactly for dates that include the last version before
\* one in the trash; for all others it tells the same.
FeedTellsHistory ==
    /\ \A d \in Listed : \A v \in WithHistory({d}) :
          /\ v \in Feed /\ Activity(v).link = d
          /\ Activity(v).type = "creation"
             <=> \A u \in WithHistory({d}) : created[v] <= created[u]
    /\ \A from, until \in 0 .. clock :
          FilterFails(from, until)
          <=> \E d \in TrashListed : \E u \in Predecessors(d) : created[u] \in from .. until

\* The readers of the tables agree.  A consultation is listed or in the trash; the
\* search finds those that are listed, and the files that are printed with them; the
\* trees that are printed hold every version once, and their check finds no error.
\* The page shows these versions, up to its limit: with more it shows some of them,
\* and no other row.  Up to its own limit the list sorts by the oldest of them.
ReadersAgree ==
    /\ Latest = Listed \cup TrashListed /\ FoundConsultations = Listed
    /\ PrintedFiles = {<<fileOf[f], f>> : f \in FoundFiles}
    /\ Roots(Tables) = Listed
    /\ \A v \in Listed :
          /\ Printed(Tables, v) = WithHistory({v}) /\ ~HasErrors(Tables, v)
          /\ \A shown \in PreviousVersions(v, PageLimit) :
                /\ {v} \cup shown \subseteq Printed(Tables, v)
                /\ Cardinality({v} \cup shown)
                      = Min({PageLimit + 1, Cardinality(Printed(Tables, v))})
          /\ Cardinality(Printed(Tables, v)) <= ListLimit + 1 =>
                FirstCreated(v) = {Min({created[u] : u \in Printed(Tables, v)})}

\* A deletion by keyword takes the rows it found and no other, although the foreign
\* key cascades; and of the versions it leaves without a latest one, which nobody can
\* open any more, the check of the trees reports every one.  (Several keywords, one
\* after the other, are one larger set of matching titles.)
CheckFindsDeadEnds ==
    \A matching \in SUBSET FeedRows :
        LET t == KeywordDeleted(Tables, matching)
        IN  /\ t.rows = exists \ matching
            /\ \A v \in t.rows : (\A u \in Chain(t, v) : ~latest[u]) =>
                  \E root \in Roots(t) : v \in Tree(t, root) /\ HasErrors(t, root)
=============================================================================
