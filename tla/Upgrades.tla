----------------------------------- MODULE Upgrades -----------------------------------
(* The database of an older release, brought up to date by the command upgrade:  *)
(*   cli/upgrade.py                 the context and the command                  *)
(*   __init__.py                    the steps, in one transaction                *)
(*   views/agenda_items.py          the preferences of the agenda, whose old     *)
(*   cli/cleanup_duplicates.py      duplicates block the upgrade until cleaned   *)
(* Of the columns those are kept which a step asks about; each step runs when    *)
(* the database needs it, so the command can be run again and again.  The        *)
(* positions of agenda items are module Agenda's.                                *)
EXTENDS Naturals

CONSTANTS
    Files,          \* rows of searchable_files
    Consultations,  \* rows a file can belong to
    Meetings,       \* rows a file can belong to
    Users,          \* who was invited to a meeting
    Comments,       \* rows of comments
    Items,          \* agenda items whose display state a user prefers
    Choices,        \* ids of rows of agenda_item_state_preferences, of one user
    MaxUpgrades,    \* bound: upgrades that are committed
    None

ASSUME UpgradesAssumption ==
    /\ None \notin Consultations \cup Meetings \cup Items
    /\ Consultations \cap Meetings = {} /\ MaxUpgrades \in Nat

VARIABLES
    db,         \* Databases: what is committed
    upgrading,  \* the command has made the missing tables and runs its steps
    upgrades,   \* history: how many upgrades were committed
    strictOnce  \* history: the columns that were strict in the older release

vars == <<db, upgrading, upgrades, strictOnce>>

\* The columns of the models, those of one step under one name.
ModelColumns ==
    {"comments.target", "comments.updated", "comments.deleted", "users.abbrev",
     "users.updated", "searchable_files.consultation_id", "searchable_files.meeting_id",
     "meetings.creator_id", "consultations.status", "consultations.added_files",
     "users.mobile_number"}

\* Columns whose definition in the models says more than the one of the upgrade:
\* UNIQUE, ON DELETE CASCADE, NOT NULL with a width of 32.
StrictColumns == {"users.mobile_number", "searchable_files.consultation_id", "users.abbrev"}

\* The names that the older releases had for some of them.
OldColumns ==
    {"comments.modified", "users.tags", "users.modified", "searchable_files.parent"}

ModelTables ==
    {"meetings_users_attendance", "meeting_edit_event", "agenda_item_state_preferences"}

OldTables == {"meetings_users_association"}

States == {"collapsed", "expanded"}

Unchosen == [item |-> None, state |-> "collapsed"]

\* strict: the columns that are as the models define them; parent: the old columns;
\* invited: the old table; failed: a statement failed, and the transaction takes no
\* other; authored: meetings with a creator; events: of type
\* "update" in the trail.
Databases ==
    [columns: SUBSET (ModelColumns \cup OldColumns),
     tables: SUBSET (ModelTables \cup OldTables),
     strict: SUBSET StrictColumns,
     constraints: SUBSET {"one parent", "one choice", "users set null"},
     parent: [Files -> Consultations \cup Meetings \cup {None}],
     consultation: [Files -> Consultations \cup {None}],
     meeting: [Files -> Meetings \cup {None}],
     invited: SUBSET (Meetings \X Users), attendance: SUBSET (Meetings \X Users),
     comment: [Comments -> {"none", "text", "notice"}], marked: SUBSET Comments,
     choice: [Choices -> [item: Items \cup {None}, state: States]],
     authored: SUBSET Meetings, events: [Meetings -> Nat], failed: BOOLEAN]

-----------------------------------------------------------------------------
(* UpgradeContext *)

Has(d, c) == c \in d.columns

AddColumn(d, c) == [d EXCEPT !.columns = @ \cup {c}]

\* The same with the definition of the models, if the column is missing.
AddStrictColumn(d, c) ==
    IF Has(d, c) THEN d ELSE [AddColumn(d, c) EXCEPT !.strict = @ \cup {c}]

\* alter_column with a new name: not if the column is missing or was renamed.
RenameColumn(d, old, new) ==
    IF Has(d, old) /\ ~Has(d, new)
    THEN [d EXCEPT !.columns = (@ \ {old}) \cup {new}] ELSE d

DropColumn(d, c) == [d EXCEPT !.columns = @ \ {c}]

DropTable(d, t) == [d EXCEPT !.tables = @ \ {t}]

Fail(d) == [d EXCEPT !.failed = TRUE]

\* A constraint is not made over rows that violate it.
AddConstraint(d, name, isMet) ==
    IF d.failed \/ name \in d.constraints THEN d
    ELSE IF isMet THEN [d EXCEPT !.constraints = @ \cup {name}]
    ELSE Fail(d)

-----------------------------------------------------------------------------
(* The steps of the upgrade, in their order *)

\* meetings_users_association becomes meetings_users_attendance; a row that is
\* in both already violates the primary key.
MoveInvitations(d) ==
    IF "meetings_users_association" \notin d.tables THEN d
    ELSE IF d.invited \cap d.attendance # {} THEN Fail(d)
    ELSE DropTable([d EXCEPT !.attendance = @ \cup d.invited, !.invited = {}],
                   "meetings_users_association")

PeopleAndMeetings(d) ==
    LET renamed == RenameColumn(d, "comments.modified", "comments.updated")
        moved == MoveInvitations(AddColumn(renamed, "meetings.creator_id"))
    IN  AddColumn(moved, "users.mobile_number")

\* The first column by which a file finds its parent, with a foreign key that does
\* not cascade.
FilesOfConsultations(d) == AddColumn(d, "searchable_files.consultation_id")

\* The target of a comment is not null and has no default.
TargetsOfComments(d) ==
    IF ~Has(d, "comments.target") /\ \E x \in Comments : d.comment[x] # "none"
    THEN Fail(d) ELSE AddColumn(d, "comments.target")

\* fix_user_constraints_to_work_with_hard_delete: dropped and made again.
UserConstraints(d) == AddConstraint(d, "users set null", TRUE)

\* users.tags is added even where it was renamed to abbrev: then it stays.
ColumnsOfUsers(d) ==
    LET tagged == AddColumn(AddColumn(d, "users.tags"), "consultations.status")
    IN  RenameColumn(RenameColumn(tagged, "users.tags", "users.abbrev"),
                     "users.modified", "users.updated")

\* A defect for comparison: the column is there before it is asked for.
MarkDeletedCommentsNever(d) == AddColumn(d, "comments.deleted")

\* Comments whose text says that they were deleted, once: when the column is new.
MarkDeletedComments(d) ==
    IF Has(d, "comments.deleted") THEN d
    ELSE AddColumn([d EXCEPT !.marked = {x \in Comments : d.comment[x] = "notice"}],
                   "comments.deleted")

Parents == Consultations \cup Meetings

\* Both columns cascade here, but the first is there already.
WithParents(d) ==
    AddColumn(AddStrictColumn(d, "searchable_files.consultation_id"),
              "searchable_files.meeting_id")

\* "Only update if not already set".
MoveParents(d) ==
    IF ~Has(d, "searchable_files.parent") THEN d
    ELSE [d EXCEPT
            !.consultation = [f \in Files |-> IF @[f] = None /\ d.parent[f] \in Consultations
                                              THEN d.parent[f] ELSE @[f]],
            !.meeting = [f \in Files |-> IF @[f] = None /\ d.parent[f] \in Meetings
                                         THEN d.parent[f] ELSE @[f]]]

\* num_nonnulls(consultation_id, meeting_id) = 1.
OneParent(d) == \A f \in Files : d.consultation[f] = None <=> d.meeting[f] # None

\* A defect for comparison: the constraint is added before the data migration.
ParentsOfFilesCheckedFirst(d) ==
    LET ready == WithParents(d)
    IN  DropColumn(MoveParents(AddConstraint(ready, "one parent", OneParent(ready))),
                   "searchable_files.parent")

\* A defect for comparison: the old column goes before it is read.
ParentsOfFilesDroppedFirst(d) ==
    LET ready == WithParents(d)
        moved == MoveParents(DropColumn(ready, "searchable_files.parent"))
    IN  [moved EXCEPT !.parent = [f \in Files |-> None]]

\* The exception of a constraint that cannot be added is caught and printed, but
\* PostgreSQL refuses what comes after it in the transaction.
ParentsOfFiles(d) ==
    LET ready == WithParents(d)
        moved == MoveParents(ready)
    IN  [DropColumn(AddConstraint(moved, "one parent", OneParent(moved)),
                    "searchable_files.parent")
            EXCEPT !.parent = [f \in Files |-> None]]

\* create_meeting_edit_events_and_migrate_data: an event for each meeting with a
\* creator, each time.
RecordMeetings(d) ==
    [d EXCEPT !.events = [m \in Meetings |-> IF m \in d.authored THEN @[m] + 1 ELSE @[m]]]

RowsOf(d, i) == {c \in Choices : d.choice[c].item = i}

HasTwo(d, i) == \E b, c \in RowsOf(d, i) : b # c

OneChoice(d) == \A i \in Items : ~HasTwo(d, i)

LastColumns(d) ==
    AddConstraint(AddColumn(d, "consultations.added_files"), "one choice", OneChoice(d))

\* upgrade(context).
Upgraded(d) ==
    LET moved == TargetsOfComments(FilesOfConsultations(PeopleAndMeetings(d)))
        columns == MarkDeletedComments(ColumnsOfUsers(UserConstraints(moved)))
    IN  LastColumns(UserConstraints(RecordMeetings(ParentsOfFiles(columns))))

\* Base.metadata.create_all makes the tables that are missing, as the models say.
WithTables(d) ==
    [d EXCEPT !.tables = @ \cup ModelTables,
              !.constraints = IF "agenda_item_state_preferences" \in d.tables THEN @
                              ELSE @ \cup {"one choice"}]

-----------------------------------------------------------------------------
(* The command line *)

\* The tables are committed before the transaction of the steps begins.
StartUpgrade ==
    /\ ~upgrading /\ upgrades < MaxUpgrades
    /\ db' = WithTables(db)
    /\ upgrading' = TRUE
    /\ UNCHANGED <<upgrades, strictOnce>>

\* upgrade() ends with a commit of its own, so the option --dry commits as well.
CommitUpgrade ==
    /\ upgrading
    /\ ~Upgraded(db).failed
    /\ db' = Upgraded(db)
    /\ upgrading' = FALSE
    /\ upgrades' = upgrades + 1
    /\ UNCHANGED strictOnce

\* A failed statement, or a process that dies, leaves nothing of the steps.
AbortUpgrade ==
    /\ upgrading
    /\ upgrading' = FALSE
    /\ UNCHANGED <<db, upgrades, strictOnce>>

\* A defect for comparison: off by one.
ExcessAll(S, first) == S

\* preferences[1:].
Excess(S, first) == S \ {first}

\* cleanup_duplicate_agenda_preferences, without --dry-run: of each item that has
\* several rows the first stays.  The order of the ids is any.
Cleanup ==
    /\ ~upgrading
    /\ ~OneChoice(db)
    /\ \E first \in [{i \in Items : HasTwo(db, i)} -> Choices] :
          /\ \A i \in DOMAIN first : first[i] \in RowsOf(db, i)
          /\ LET ids == UNION {Excess(RowsOf(db, i), first[i]) : i \in DOMAIN first}
             IN  db' = [WithTables(db) EXCEPT
                          !.choice = [c \in Choices |-> IF c \in ids THEN Unchosen ELSE @[c]]]
    /\ UNCHANGED <<upgrading, upgrades, strictOnce>>

-----------------------------------------------------------------------------
(* The application, on a database of any release with the table *)

CanChoose == ~upgrading /\ "agenda_item_state_preferences" \in db.tables

\* get_display_state_for_user: two rows are an exception.
Shown(d, i) ==
    IF RowsOf(d, i) = {} THEN "collapsed"
    ELSE IF HasTwo(d, i) THEN "MultipleResultsFound"
    ELSE d.choice[CHOOSE c \in RowsOf(d, i) : TRUE].state

FreeRows == {c \in Choices : db.choice[c] = Unchosen}

\* update_single_agenda_item_state: two rows for one item are an exception, which is
\* rolled back and answered like a success.
Choose(i, state) ==
    /\ CanChoose
    /\ \/ \E c \in Choices :
             /\ RowsOf(db, i) = {c}
             /\ db' = [db EXCEPT !.choice[c].state = state]
       \/ \E c \in FreeRows :
             /\ RowsOf(db, i) = {}
             /\ db' = [db EXCEPT !.choice[c] = [item |-> i, state |-> state]]
    /\ UNCHANGED <<upgrading, upgrades, strictOnce>>

\* update_bulk_agenda_items_state: every item; of two rows one is changed.
ChooseAll(state) ==
    /\ CanChoose
    /\ \E row \in [Items -> Choices] :
          /\ \A i \in Items : IF RowsOf(db, i) = {} THEN row[i] \in FreeRows
                              ELSE row[i] \in RowsOf(db, i)
          /\ \A i, j \in Items : row[i] = row[j] => i = j
          /\ db' = [db EXCEPT !.choice =
                      [c \in Choices |->
                         IF \E i \in Items : row[i] = c
                         THEN [item |-> CHOOSE i \in Items : row[i] = c, state |-> state]
                         ELSE @[c]]]
    /\ UNCHANGED <<upgrading, upgrades, strictOnce>>

\* Two requests that both find no row: without the constraint both insert one.
ChooseTwice(i, first, second) ==
    /\ CanChoose
    /\ RowsOf(db, i) = {}
    /\ "one choice" \notin db.constraints
    /\ \E c, d \in FreeRows :
          /\ c # d
          /\ db' = [db EXCEPT !.choice[c] = [item |-> i, state |-> first],
                              !.choice[d] = [item |-> i, state |-> second]]
    /\ UNCHANGED <<upgrading, upgrades, strictOnce>>

-----------------------------------------------------------------------------

\* What a release lacked: the names of columns, or a whole migration.
Lacking == {"comments.updated", "comments.target", "comments.deleted", "users.abbrev",
            "users.updated", "users.mobile_number", "parents", "attendance", "preferences",
            "one choice"}

Before(name, old, lacks) == IF name \in lacks THEN old ELSE {name}

\* A database of a release that lacks these: its columns are strict if that release
\* has made it, and not if it was upgraded to that release.  Files have no parent
\* where the release lost it: the table searchable_files_for_consultations_files is
\* dropped unread.
Legacy(lacks) ==
    {d \in [columns: {(ModelColumns \ (lacks \cup {"searchable_files.consultation_id",
                                                   "searchable_files.meeting_id"}))
                        \cup Before("comments.updated", {"comments.modified"}, lacks)
                        \cup Before("users.abbrev", {"users.tags"}, lacks)
                        \cup Before("users.updated", {"users.modified"}, lacks)
                        \cup IF "parents" \in lacks THEN {"searchable_files.parent"}
                             ELSE {"searchable_files.consultation_id",
                                   "searchable_files.meeting_id"}},
            tables: {(IF "attendance" \in lacks
                      THEN OldTables \cup {"agenda_item_state_preferences"} ELSE ModelTables)
                     \ (IF "preferences" \in lacks THEN {"agenda_item_state_preferences"}
                                                 ELSE {})},
            strict: {{}, StrictColumns \ (lacks \cup IF "parents" \in lacks
                                                     THEN {"searchable_files.consultation_id"}
                                                     ELSE {})},
            constraints: {IF lacks \cap {"preferences", "one choice"} = {}
                          THEN {"one choice"} ELSE {}},
            parent: [Files -> IF "parents" \in lacks THEN Parents \cup {None} ELSE {None}],
            consultation: [Files -> IF "parents" \in lacks THEN {None}
                                    ELSE Consultations \cup {None}],
            meeting: {[f \in Files |-> None]},
            invited: IF "attendance" \in lacks THEN SUBSET (Meetings \X Users) ELSE {{}},
            attendance: IF "attendance" \in lacks THEN {{}} ELSE SUBSET (Meetings \X Users),
            comment: [Comments -> {"none", "text", "notice"}],
            marked: {{}},
            choice: {[c \in Choices |-> Unchosen]},
            authored: SUBSET Meetings,
            events: {[m \in Meetings |-> 0]},
            failed: {FALSE}] :
        "comments.deleted" \notin lacks => \A x \in Comments : d.comment[x] # "notice"}

Init ==
    /\ \E lacks \in SUBSET Lacking : db \in Legacy(lacks)
    /\ upgrading = FALSE
    /\ upgrades = 0
    /\ strictOnce = db.strict

Next ==
    \/ StartUpgrade \/ CommitUpgrade \/ AbortUpgrade \/ Cleanup
    \/ \E i \in Items, s \in States : Choose(i, s) \/ \E t \in States : ChooseTwice(i, s, t)
    \/ \E s \in States : ChooseAll(s)

Spec == Init /\ [][Next]_vars

-----------------------------------------------------------------------------
(* Properties *)

TypeOK ==
    /\ db \in Databases
    /\ upgrading \in BOOLEAN
    /\ upgrades \in 0 .. MaxUpgrades
    /\ strictOnce \subseteq StrictColumns

\* The document a file belongs to, in the columns of whatever release.
ParentOf(d, f) ==
    IF d.consultation[f] # None THEN d.consultation[f]
    ELSE IF d.meeting[f] # None THEN d.meeting[f] ELSE d.parent[f]

LosesNothing ==
    /\ \A f \in Files : ParentOf(db', f) = ParentOf(db, f)
    /\ db.invited \cup db.attendance \subseteq db'.invited \cup db'.attendance

\* No upgrade loses what its users entered, wherever it fails or dies: the documents
\* that files belong to, and who was invited to a meeting.
NothingLost == [][LosesNothing]_vars

\* After one upgrade the application finds the columns and tables of its models and
\* the constraints that the steps make, and a comment is marked as deleted if its
\* text says so.  What the models say of single columns it finds only where the
\* older release had it: an upgrade makes no column strict, not even the one of
\* the files that it would add with a cascade.
UpgradedSchema ==
    upgrades > 0 =>
        /\ ModelColumns \subseteq db.columns /\ ModelTables \subseteq db.tables
        /\ {"one parent", "one choice", "users set null"} \subseteq db.constraints
        /\ OneParent(db) /\ OneChoice(db)
        /\ \A x \in Comments : db.comment[x] = "notice" => x \in db.marked
        /\ db.strict = strictOnce

\* The rows an upgrade cannot cope with.
IsBlocked(d) ==
    \/ \E f \in Files : ParentOf(d, f) = None
    \/ ~Has(d, "comments.target") /\ \E x \in Comments : d.comment[x] # "none"
    \/ ~OneChoice(d)

\* An upgrade fails for those rows only: of files without a parent, comments without
\* a target, and double preferences.  Only the last have a command that mends them.
UpgradeGoesThrough == Upgraded(WithTables(db)).failed <=> IsBlocked(db)

KeepsAChoice ==
    Cleanup => \A i \in Items : RowsOf(db, i) # {} =>
                  Shown(db', i) \in {db.choice[c].state : c \in RowsOf(db, i)}

\* "Keep the first one, mark the rest for deletion": whoever chose a display state for
\* an agenda item sees the item again, in a state that she chose.
CleanupKeepsAChoice == [][KeepsAChoice]_vars
=============================================================================
