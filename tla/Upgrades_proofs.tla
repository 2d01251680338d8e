-------------------------------- MODULE Upgrades_proofs --------------------------------
(* What is proved about the upgrade of a database and the cleanup before it.      *)
EXTENDS Upgrades, TLAPS

-----------------------------------------------------------------------------
(* The inductive invariant *)

\* A file has its parent in the columns of one release, and there only one.
ParentsOK(d) ==
    IF Has(d, "searchable_files.parent")
    THEN /\ \A f \in Files : d.consultation[f] = None /\ d.meeting[f] = None
         /\ "one parent" \notin d.constraints
    ELSE \A f \in Files : /\ d.parent[f] = None
                          /\ d.consultation[f] = None \/ d.meeting[f] = None

\* The constraints are met; a table that is not there has no rows.
ConstraintsOK(d) ==
    /\ "one parent" \in d.constraints => OneParent(d)
    /\ "one choice" \in d.constraints => OneChoice(d)
    /\ "agenda_item_state_preferences" \notin d.tables => OneChoice(d)

\* Until it is moved the old table is the only one with rows.
InvitationsOK(d) == "meetings_users_association" \in d.tables => d.attendance = {}

\* The column that marks deleted comments was filled when it was made.
CommentsOK(d) ==
    Has(d, "comments.deleted") => \A x \in Comments : d.comment[x] = "notice" => x \in d.marked

\* A column that is only renamed has its old name or its new one.
NamesOK(d) ==
    /\ Has(d, "comments.updated") \/ Has(d, "comments.modified")
    /\ Has(d, "users.updated") \/ Has(d, "users.modified")

\* A committed database, of whatever release.
IsSound(d) ==
    /\ d \in Databases /\ ~d.failed
    /\ ParentsOK(d) /\ ConstraintsOK(d) /\ InvitationsOK(d) /\ CommentsOK(d) /\ NamesOK(d)

IInv ==
    /\ upgrading \in BOOLEAN /\ upgrades \in 0 .. MaxUpgrades
    /\ IsSound(db)
    /\ upgrading => ModelTables \subseteq db.tables /\ upgrades < MaxUpgrades
    /\ strictOnce \subseteq StrictColumns /\ db.strict = strictOnce
    /\ UpgradedSchema

-----------------------------------------------------------------------------
(* What the steps change *)

SameRows(d, e) ==
    /\ e.parent = d.parent /\ e.consultation = d.consultation /\ e.meeting = d.meeting
    /\ e.invited = d.invited /\ e.attendance = d.attendance
    /\ e.comment = d.comment /\ e.marked = d.marked /\ e.choice = d.choice
    /\ e.authored = d.authored /\ e.events = d.events /\ e.strict = d.strict

SameSchema(d, e) == e.tables = d.tables /\ e.constraints = d.constraints /\ e.failed = d.failed

\* e is d with these columns.
ColumnsOnly(d, e, columns) ==
    e \in Databases /\ SameRows(d, e) /\ SameSchema(d, e) /\ e.columns = columns

Columns == ModelColumns \cup OldColumns

LEMMA ColumnsFields ==
    ASSUME NEW d \in Databases, NEW columns \in SUBSET Columns
    PROVE  ColumnsOnly(d, [d EXCEPT !.columns = columns], columns)
BY DEF ColumnsOnly, SameRows, SameSchema, Databases, Columns

LEMMA AddColumnFields ==
    ASSUME NEW d \in Databases, NEW c \in Columns
    PROVE  ColumnsOnly(d, AddColumn(d, c), d.columns \cup {c})
<1>1. d.columns \cup {c} \in SUBSET Columns
  BY DEF Databases, Columns
<1> QED
  BY <1>1, ColumnsFields DEF AddColumn

LEMMA RenameColumnFields ==
    ASSUME NEW d \in Databases, NEW old, NEW new \in Columns
    PROVE  ColumnsOnly(d, RenameColumn(d, old, new),
                       IF old \in d.columns /\ new \notin d.columns
                       THEN (d.columns \ {old}) \cup {new} ELSE d.columns)
<1>1. (d.columns \ {old}) \cup {new} \in SUBSET Columns
  BY DEF Databases, Columns
<1>2. CASE old \in d.columns /\ new \notin d.columns
  BY <1>1, <1>2, ColumnsFields DEF RenameColumn, Has
<1>3. CASE ~(old \in d.columns /\ new \notin d.columns)
  BY <1>3 DEF RenameColumn, Has, ColumnsOnly, SameRows, SameSchema
<1> QED
  BY <1>2, <1>3

LEMMA DropColumnFields ==
    ASSUME NEW d \in Databases, NEW c
    PROVE  ColumnsOnly(d, DropColumn(d, c), d.columns \ {c})
<1>1. d.columns \ {c} \in SUBSET Columns
  BY DEF Databases, Columns
<1> QED
  BY <1>1, ColumnsFields DEF DropColumn

LEMMA FailFields ==
    ASSUME NEW d \in Databases
    PROVE  Fail(d) \in Databases /\ Fail(d).failed
BY DEF Fail, Databases

LEMMA AddConstraintFields ==
    ASSUME NEW d \in Databases, NEW name \in {"one parent", "one choice", "users set null"},
           NEW isMet \in BOOLEAN
    PROVE  LET e == AddConstraint(d, name, isMet)
           IN  /\ e \in Databases /\ SameRows(d, e)
               /\ e.columns = d.columns /\ e.tables = d.tables
               /\ e.constraints \subseteq d.constraints \cup {name}
               /\ d.failed => e.failed
               /\ ~d.failed /\ (name \in d.constraints \/ isMet)
                  => ~e.failed /\ e.constraints = d.constraints \cup {name}
               /\ ~d.failed /\ name \notin d.constraints /\ ~isMet => e.failed
<1>1. CASE d.failed \/ name \in d.constraints
  <2>1. name \in d.constraints => d.constraints = d.constraints \cup {name}
    OBVIOUS
  <2> QED BY <1>1, <2>1 DEF AddConstraint, SameRows
<1>2. CASE ~d.failed /\ name \notin d.constraints /\ isMet
  <2>1. d.constraints \cup {name} \in SUBSET {"one parent", "one choice", "users set null"}
    BY DEF Databases
  <2>2. AddConstraint(d, name, isMet) = [d EXCEPT !.constraints = d.constraints \cup {name}]
    BY <1>2 DEF AddConstraint
  <2> QED BY ZenonT(30), <1>2, <2>1, <2>2 DEF SameRows, Databases
<1>3. CASE ~d.failed /\ name \notin d.constraints /\ ~isMet
  <2>1. AddConstraint(d, name, isMet) = [d EXCEPT !.failed = TRUE]
    BY <1>3 DEF AddConstraint, Fail
  <2> QED BY ZenonT(30), <1>3, <2>1 DEF SameRows, Databases
<1> QED
  BY <1>1, <1>2, <1>3

LEMMA MoveInvitationsFields ==
    ASSUME NEW d \in Databases
    PROVE  LET e == MoveInvitations(d)
           IN  /\ e \in Databases
               /\ e.parent = d.parent /\ e.consultation = d.consultation /\ e.meeting = d.meeting
               /\ e.comment = d.comment /\ e.marked = d.marked /\ e.choice = d.choice
               /\ e.authored = d.authored /\ e.events = d.events
               /\ e.columns = d.columns /\ e.constraints = d.constraints
               /\ e.strict = d.strict
               /\ d.failed => e.failed
               /\ InvitationsOK(d) /\ ~d.failed =>
                     /\ ~e.failed
                     /\ e.tables = d.tables \ {"meetings_users_association"}
                     /\ e.invited \cup e.attendance = d.invited \cup d.attendance
<1>1. CASE "meetings_users_association" \notin d.tables
  BY <1>1 DEF MoveInvitations
<1>2. CASE "meetings_users_association" \in d.tables /\ d.invited \cap d.attendance # {}
  BY <1>2 DEF MoveInvitations, Fail, Databases, InvitationsOK
<1>3. CASE "meetings_users_association" \in d.tables /\ d.invited \cap d.attendance = {}
  <2> DEFINE f == [d EXCEPT !.attendance = @ \cup d.invited, !.invited = {}]
  <2>1. /\ f \in Databases
        /\ f.parent = d.parent /\ f.consultation = d.consultation /\ f.meeting = d.meeting
        /\ f.comment = d.comment /\ f.marked = d.marked /\ f.choice = d.choice
        /\ f.authored = d.authored /\ f.events = d.events
        /\ f.columns = d.columns /\ f.constraints = d.constraints /\ f.strict = d.strict
        /\ f.failed = d.failed /\ f.tables = d.tables
        /\ f.invited = {} /\ f.attendance = d.attendance \cup d.invited
    BY DEF Databases
  <2>2. MoveInvitations(d) = DropTable(f, "meetings_users_association")
    BY <1>3 DEF MoveInvitations
  <2> HIDE DEF f
  <2>3. LET e == DropTable(f, "meetings_users_association")
        IN  /\ e \in Databases
            /\ e.parent = f.parent /\ e.consultation = f.consultation /\ e.meeting = f.meeting
            /\ e.comment = f.comment /\ e.marked = f.marked /\ e.choice = f.choice
            /\ e.authored = f.authored /\ e.events = f.events
            /\ e.columns = f.columns /\ e.constraints = f.constraints /\ e.strict = f.strict
            /\ e.failed = f.failed /\ e.tables = f.tables \ {"meetings_users_association"}
            /\ e.invited = f.invited /\ e.attendance = f.attendance
    BY ZenonT(30), <2>1 DEF DropTable, Databases
  <2> QED BY <2>1, <2>2, <2>3
<1> QED
  BY <1>1, <1>2, <1>3

LEMMA MoveParentsFields ==
    ASSUME NEW d \in Databases
    PROVE  LET e == MoveParents(d)
           IN  /\ e \in Databases
               /\ e.parent = d.parent /\ e.invited = d.invited /\ e.attendance = d.attendance
               /\ e.comment = d.comment /\ e.marked = d.marked /\ e.choice = d.choice
               /\ e.authored = d.authored /\ e.events = d.events
               /\ e.columns = d.columns /\ e.strict = d.strict /\ SameSchema(d, e)
<1> DEFINE consultation == [f \in Files |->
                              IF d.consultation[f] = None /\ d.parent[f] \in Consultations
                              THEN d.parent[f] ELSE d.consultation[f]]
           meet == [f \in Files |-> IF d.meeting[f] = None /\ d.parent[f] \in Meetings
                                    THEN d.parent[f] ELSE d.meeting[f]]
<1>1. /\ consultation \in [Files -> Consultations \cup {None}]
      /\ meet \in [Files -> Meetings \cup {None}]
  BY DEF Databases
<1>2. MoveParents(d) = IF ~Has(d, "searchable_files.parent") THEN d
                       ELSE [d EXCEPT !.consultation = consultation, !.meeting = meet]
  BY DEF MoveParents
<1> HIDE DEF consultation, meet
<1> DEFINE f == [d EXCEPT !.consultation = consultation, !.meeting = meet]
<1>3. /\ f \in Databases
      /\ f.parent = d.parent /\ f.invited = d.invited /\ f.attendance = d.attendance
      /\ f.comment = d.comment /\ f.marked = d.marked /\ f.choice = d.choice
      /\ f.authored = d.authored /\ f.events = d.events
      /\ f.columns = d.columns /\ f.strict = d.strict /\ SameSchema(d, f)
  BY <1>1 DEF SameSchema, Databases
<1> HIDE DEF f
<1>4. MoveParents(d) = d \/ MoveParents(d) = f
  BY <1>2 DEF f
<1> QED
  BY <1>3, <1>4 DEF SameSchema

-----------------------------------------------------------------------------
(* The steps, one after the other *)

\* What the steps before the parents of files leave of the rows.
SameDocuments(d, e) ==
    /\ e.parent = d.parent /\ e.consultation = d.consultation /\ e.meeting = d.meeting
    /\ e.comment = d.comment /\ e.choice = d.choice /\ e.strict = d.strict

SameGuests(d, e) == e.invited \cup e.attendance = d.invited \cup d.attendance

\* Columns that are gained and lost; one of them comes back.
Between(d, e, gained, lost) ==
    /\ (d.columns \ lost) \cup gained \subseteq e.columns
    /\ e.columns \subseteq d.columns \cup gained \cup {"users.tags"}

\* Comments that a new column without a default refuses.
TargetMissing(d) == ~Has(d, "comments.target") /\ \E x \in Comments : d.comment[x] # "none"

LEMMA ToComments ==
    ASSUME NEW d, IsSound(d)
    PROVE  LET e == TargetsOfComments(FilesOfConsultations(PeopleAndMeetings(d)))
           IN  /\ e \in Databases /\ SameDocuments(d, e) /\ e.marked = d.marked
               /\ e.constraints = d.constraints
               /\ SameGuests(d, e) /\ e.tables = d.tables \ {"meetings_users_association"}
               /\ e.failed <=> TargetMissing(d)
               /\ e.failed =>
                     Between(d, e, {"comments.updated", "meetings.creator_id",
                                    "searchable_files.consultation_id", "users.mobile_number"},
                            {"comments.modified"})
               /\ ~e.failed =>
                     Between(d, e, {"comments.updated", "meetings.creator_id",
                                    "searchable_files.consultation_id", "comments.target",
                                    "users.mobile_number"},
                             {"comments.modified"})
<1> DEFINE d1 == RenameColumn(d, "comments.modified", "comments.updated")
           d2 == AddColumn(d1, "meetings.creator_id")
           d3 == MoveInvitations(d2)
           d4 == AddColumn(d3, "users.mobile_number")
           d5 == AddColumn(d4, "searchable_files.consultation_id")
           d6 == TargetsOfComments(d5)
<1>1. {"comments.updated", "meetings.creator_id", "searchable_files.consultation_id",
       "comments.target", "users.mobile_number"} \subseteq Columns
  BY DEF Columns, ModelColumns
<1>2. d \in Databases /\ ~d.failed /\ InvitationsOK(d) /\ NamesOK(d)
  BY DEF IsSound
<1>3. ColumnsOnly(d, d1, IF /\ "comments.modified" \in d.columns
                            /\ "comments.updated" \notin d.columns
                         THEN (d.columns \ {"comments.modified"}) \cup {"comments.updated"}
                         ELSE d.columns)
  BY <1>1, <1>2, RenameColumnFields
<1> HIDE DEF d1
<1>4. ColumnsOnly(d1, d2, d1.columns \cup {"meetings.creator_id"})
  BY <1>1, <1>3, AddColumnFields DEF ColumnsOnly
<1> HIDE DEF d2
<1>5. /\ d2 \in Databases /\ SameRows(d, d2) /\ SameSchema(d, d2) /\ InvitationsOK(d2)
      /\ Between(d, d2, {"comments.updated", "meetings.creator_id"}, {"comments.modified"})
  BY <1>2, <1>3, <1>4
     DEF ColumnsOnly, SameRows, SameSchema, InvitationsOK, Between, NamesOK, Has
<1>6. /\ d3 \in Databases /\ SameDocuments(d, d3) /\ d3.marked = d.marked
      /\ d3.columns = d2.columns /\ d3.constraints = d.constraints /\ ~d3.failed
      /\ SameGuests(d, d3) /\ d3.tables = d.tables \ {"meetings_users_association"}
  BY <1>2, <1>5, MoveInvitationsFields DEF SameDocuments, SameGuests, SameRows, SameSchema
<1> HIDE DEF d3
<1>7. ColumnsOnly(d3, d4, d3.columns \cup {"users.mobile_number"})
  BY <1>1, <1>6, AddColumnFields
<1> HIDE DEF d4
<1>8. ColumnsOnly(d4, d5, d4.columns \cup {"searchable_files.consultation_id"})
  BY <1>1, <1>7, AddColumnFields DEF ColumnsOnly
<1> HIDE DEF d5
<1>9. /\ d5 \in Databases /\ SameDocuments(d, d5) /\ d5.marked = d.marked
      /\ d5.constraints = d.constraints /\ ~d5.failed
      /\ SameGuests(d, d5) /\ d5.tables = d.tables \ {"meetings_users_association"}
      /\ Between(d, d5, {"comments.updated", "meetings.creator_id",
                         "searchable_files.consultation_id", "users.mobile_number"},
                            {"comments.modified"})
  BY <1>5, <1>6, <1>8, <1>7
     DEF ColumnsOnly, SameDocuments, SameGuests, SameRows, SameSchema, Between
<1>10. TargetMissing(d5) <=> TargetMissing(d)
  BY <1>9 DEF TargetMissing, Has, SameDocuments, Between
<1>11. CASE TargetMissing(d5)
  <2>1. d6 = Fail(d5)
    BY <1>11 DEF TargetsOfComments, TargetMissing
  <2>2. /\ d6 \in Databases /\ d6.failed /\ SameDocuments(d5, d6) /\ d6.marked = d5.marked
        /\ d6.constraints = d5.constraints /\ d6.columns = d5.columns /\ d6.tables = d5.tables
        /\ SameGuests(d5, d6)
    BY <1>9, <2>1 DEF Fail, Databases, SameDocuments, SameGuests
  <2> HIDE DEF d6
  <2>3. /\ SameDocuments(d, d6) /\ d6.marked = d.marked /\ d6.constraints = d.constraints
        /\ SameGuests(d, d6) /\ d6.tables = d.tables \ {"meetings_users_association"}
        /\ Between(d, d6, {"comments.updated", "meetings.creator_id",
                           "searchable_files.consultation_id", "users.mobile_number"},
                            {"comments.modified"})
    BY <1>9, <2>2 DEF SameDocuments, SameGuests, Between
  <2>4. d6 = TargetsOfComments(FilesOfConsultations(PeopleAndMeetings(d)))
    BY DEF d6, d5, d4, d3, d2, d1, FilesOfConsultations, PeopleAndMeetings
  <2> QED BY <1>10, <1>11, <2>2, <2>3, <2>4
<1>12. CASE ~TargetMissing(d5)
  <2>1. d6 = AddColumn(d5, "comments.target")
    BY <1>12 DEF TargetsOfComments, TargetMissing
  <2>2. ColumnsOnly(d5, d6, d5.columns \cup {"comments.target"})
    BY <1>1, <1>9, <2>1, AddColumnFields
  <2> HIDE DEF d6
  <2>3. /\ d6 \in Databases /\ SameDocuments(d, d6) /\ d6.marked = d.marked
        /\ d6.constraints = d.constraints /\ ~d6.failed
        /\ SameGuests(d, d6) /\ d6.tables = d.tables \ {"meetings_users_association"}
        /\ Between(d, d6, {"comments.updated", "meetings.creator_id",
                           "searchable_files.consultation_id", "comments.target",
                                    "users.mobile_number"},
                   {"comments.modified"})
    BY <1>9, <2>2 DEF ColumnsOnly, SameDocuments, SameGuests, SameRows, SameSchema, Between
  <2>4. d6 = TargetsOfComments(FilesOfConsultations(PeopleAndMeetings(d)))
    BY DEF d6, d5, d4, d3, d2, d1, FilesOfConsultations, PeopleAndMeetings
  <2> QED BY <1>10, <1>12, <2>3, <2>4
<1> QED
  BY <1>11, <1>12

LEMMA UsersFields ==
    ASSUME NEW d \in Databases
    PROVE  LET e == ColumnsOfUsers(d)
           IN  /\ e \in Databases /\ SameRows(d, e) /\ SameSchema(d, e)
               /\ Between(d, e, {"consultations.status", "users.abbrev"},
                          {"users.tags", "users.modified"})
                  \/ Between(d, e, {"consultations.status", "users.abbrev", "users.updated"},
                             {"users.tags", "users.modified"})
               /\ Has(d, "users.updated") \/ Has(d, "users.modified") => Has(e, "users.updated")
<1> DEFINE d1 == AddColumn(d, "users.tags")
           d2 == AddColumn(d1, "consultations.status")
           d3 == RenameColumn(d2, "users.tags", "users.abbrev")
           d4 == RenameColumn(d3, "users.modified", "users.updated")
<1>1. {"consultations.status", "users.abbrev", "users.updated", "users.tags"} \subseteq Columns
  BY DEF Columns, ModelColumns, OldColumns
<1>2. ColumnsOnly(d, d1, d.columns \cup {"users.tags"})
  BY <1>1, AddColumnFields
<1> HIDE DEF d1
<1>3. ColumnsOnly(d1, d2, d1.columns \cup {"consultations.status"})
  BY <1>1, <1>2, AddColumnFields DEF ColumnsOnly
<1> HIDE DEF d2
<1>4. ColumnsOnly(d2, d3, IF "users.tags" \in d2.columns /\ "users.abbrev" \notin d2.columns
                          THEN (d2.columns \ {"users.tags"}) \cup {"users.abbrev"}
                          ELSE d2.columns)
  BY <1>1, <1>3, RenameColumnFields DEF ColumnsOnly
<1> HIDE DEF d3
<1>5. ColumnsOnly(d3, d4, IF "users.modified" \in d3.columns /\ "users.updated" \notin d3.columns
                          THEN (d3.columns \ {"users.modified"}) \cup {"users.updated"}
                          ELSE d3.columns)
  BY <1>1, <1>4, RenameColumnFields DEF ColumnsOnly
<1> HIDE DEF d4
<1>6. d4 \in Databases /\ SameRows(d, d4) /\ SameSchema(d, d4)
  BY <1>2, <1>3, <1>4, <1>5 DEF ColumnsOnly, SameRows, SameSchema
<1>7. Between(d, d3, {"consultations.status", "users.abbrev"}, {"users.tags"})
  BY <1>2, <1>3, <1>4 DEF ColumnsOnly, Between
<1>8. /\ Between(d, d4, {"consultations.status", "users.abbrev"},
                 {"users.tags", "users.modified"})
         \/ Between(d, d4, {"consultations.status", "users.abbrev", "users.updated"},
                    {"users.tags", "users.modified"})
      /\ Has(d, "users.updated") \/ Has(d, "users.modified") => Has(d4, "users.updated")
  BY <1>5, <1>7 DEF ColumnsOnly, Between, Has
<1>9. d4 = ColumnsOfUsers(d)
  BY DEF d4, d3, d2, d1, ColumnsOfUsers
<1> QED
  BY <1>6, <1>8, <1>9

LEMMA MarkFields ==
    ASSUME NEW d \in Databases
    PROVE  LET e == MarkDeletedComments(d)
           IN  /\ e \in Databases /\ SameDocuments(d, e) /\ SameGuests(d, e) /\ SameSchema(d, e)
               /\ e.columns = d.columns \cup {"comments.deleted"}
               /\ CommentsOK(d) => CommentsOK(e)
<1>1. CASE Has(d, "comments.deleted")
  BY <1>1 DEF MarkDeletedComments, Has, SameDocuments, SameGuests, SameSchema
<1>2. CASE ~Has(d, "comments.deleted")
  <2> DEFINE marked == {x \in Comments : d.comment[x] = "notice"}
             f == [d EXCEPT !.marked = marked]
  <2>1. marked \in SUBSET Comments /\ \A x \in Comments : d.comment[x] = "notice" => x \in marked
    OBVIOUS
  <2>2. MarkDeletedComments(d) = AddColumn(f, "comments.deleted")
    BY <1>2 DEF MarkDeletedComments
  <2> HIDE DEF marked
  <2>3. /\ f \in Databases /\ SameDocuments(d, f) /\ SameGuests(d, f) /\ SameSchema(d, f)
        /\ f.columns = d.columns /\ f.marked = marked
    BY <2>1 DEF Databases, SameDocuments, SameGuests, SameSchema
  <2> HIDE DEF f
  <2>4. "comments.deleted" \in Columns
    BY DEF Columns, ModelColumns
  <2>5. ColumnsOnly(f, AddColumn(f, "comments.deleted"), f.columns \cup {"comments.deleted"})
    BY <2>3, <2>4, AddColumnFields
  <2> QED BY <2>1, <2>2, <2>3, <2>5
             DEF ColumnsOnly, SameRows, SameDocuments, SameGuests, SameSchema, CommentsOK
<1> QED
  BY <1>1, <1>2

LEMMA ToParents ==
    ASSUME NEW d \in Databases, Has(d, "users.updated") \/ Has(d, "users.modified")
    PROVE  LET e == MarkDeletedComments(ColumnsOfUsers(UserConstraints(d)))
           IN  /\ e \in Databases /\ SameDocuments(d, e) /\ SameGuests(d, e)
               /\ e.failed <=> d.failed
               /\ ~d.failed => e.constraints = d.constraints \cup {"users set null"}
               /\ e.constraints \subseteq d.constraints \cup {"users set null"}
               /\ e.tables = d.tables
               /\ Between(d, e, {"consultations.status", "users.abbrev", "users.updated",
                                 "comments.deleted"}, {"users.tags", "users.modified"})
               /\ CommentsOK(d) => CommentsOK(e)
<1> DEFINE d1 == UserConstraints(d)
           d2 == ColumnsOfUsers(d1)
           d3 == MarkDeletedComments(d2)
<1>1. /\ d1 \in Databases /\ SameRows(d, d1)
      /\ d1.columns = d.columns /\ d1.tables = d.tables
      /\ d1.failed <=> d.failed
      /\ ~d.failed => d1.constraints = d.constraints \cup {"users set null"}
      /\ d1.constraints \subseteq d.constraints \cup {"users set null"}
  BY AddConstraintFields DEF UserConstraints
<1> HIDE DEF d1
<1>2. /\ d2 \in Databases /\ SameRows(d1, d2) /\ SameSchema(d1, d2)
      /\ Between(d1, d2, {"consultations.status", "users.abbrev"},
                 {"users.tags", "users.modified"})
         \/ Between(d1, d2, {"consultations.status", "users.abbrev", "users.updated"},
                    {"users.tags", "users.modified"})
      /\ Has(d1, "users.updated") \/ Has(d1, "users.modified") => Has(d2, "users.updated")
  BY <1>1, UsersFields
<1> HIDE DEF d2
<1>3. /\ Between(d, d2, {"consultations.status", "users.abbrev", "users.updated"},
                 {"users.tags", "users.modified"})
      /\ SameDocuments(d, d2) /\ SameGuests(d, d2) /\ d2.marked = d.marked
      /\ Has(d2, "comments.deleted") <=> Has(d, "comments.deleted")
  BY <1>1, <1>2 DEF Between, Has, SameRows, SameDocuments, SameGuests
<1>4. CommentsOK(d) => CommentsOK(d2)
  BY <1>3 DEF CommentsOK, SameDocuments
<1>5. /\ d3 \in Databases /\ SameDocuments(d2, d3) /\ SameGuests(d2, d3) /\ SameSchema(d2, d3)
      /\ d3.columns = d2.columns \cup {"comments.deleted"}
      /\ CommentsOK(d2) => CommentsOK(d3)
  BY <1>2, MarkFields
<1> HIDE DEF d3
<1>6. /\ SameDocuments(d, d3) /\ SameGuests(d, d3) /\ (CommentsOK(d) => CommentsOK(d3))
      /\ (d3.failed <=> d.failed) /\ d3.tables = d.tables
      /\ (~d.failed => d3.constraints = d.constraints \cup {"users set null"})
      /\ d3.constraints \subseteq d.constraints \cup {"users set null"}
  BY <1>1, <1>2, <1>3, <1>4, <1>5 DEF SameDocuments, SameGuests, SameSchema
<1>7. Between(d, d3, {"consultations.status", "users.abbrev", "users.updated",
                      "comments.deleted"}, {"users.tags", "users.modified"})
  BY <1>3, <1>5 DEF Between
<1>8. d3 = MarkDeletedComments(ColumnsOfUsers(UserConstraints(d)))
  BY DEF d3, d2, d1
<1> QED
  BY <1>5, <1>6, <1>7, <1>8

\* Files find in the new columns the parents they had in the old one.
LEMMA MovedParents ==
    ASSUME NEW d \in Databases, ParentsOK(d)
    PROVE  LET e == MoveParents(d)
           IN  \A f \in Files :
                  /\ e.consultation[f] = None \/ e.meeting[f] = None
                  /\ ParentOf(d, f) = IF e.consultation[f] # None THEN e.consultation[f]
                                      ELSE e.meeting[f]
<1> SUFFICES ASSUME NEW f \in Files
             PROVE  /\ MoveParents(d).consultation[f] = None \/ MoveParents(d).meeting[f] = None
                    /\ ParentOf(d, f) = IF MoveParents(d).consultation[f] # None
                                        THEN MoveParents(d).consultation[f]
                                        ELSE MoveParents(d).meeting[f]
  OBVIOUS
<1>1. CASE ~Has(d, "searchable_files.parent")
  BY <1>1 DEF MoveParents, ParentsOK, ParentOf
<1>2. CASE Has(d, "searchable_files.parent")
  <2>1. /\ MoveParents(d).consultation[f] =
             (IF d.consultation[f] = None /\ d.parent[f] \in Consultations
              THEN d.parent[f] ELSE d.consultation[f])
        /\ MoveParents(d).meeting[f] =
             (IF d.meeting[f] = None /\ d.parent[f] \in Meetings
              THEN d.parent[f] ELSE d.meeting[f])
    BY <1>2 DEF MoveParents, Databases
  <2>2. d.consultation[f] = None /\ d.meeting[f] = None
    BY <1>2 DEF ParentsOK
  <2>3. d.parent[f] \in Consultations \cup Meetings \cup {None}
    BY DEF Databases
  <2> QED BY <2>1, <2>2, <2>3, UpgradesAssumption DEF ParentOf
<1> QED
  BY <1>1, <1>2

LEMMA ToEvents ==
    ASSUME NEW d \in Databases, ParentsOK(d), Has(d, "searchable_files.consultation_id"),
           "one parent" \in d.constraints => OneParent(d)
    PROVE  LET e == ParentsOfFiles(d)
           IN  /\ e \in Databases /\ e.comment = d.comment /\ e.choice = d.choice
               /\ e.strict = d.strict
               /\ e.constraints \subseteq d.constraints \cup {"one parent"}
               /\ e.failed <=> d.failed \/ \E f \in Files : ParentOf(d, f) = None
               /\ ~e.failed =>
                     /\ e.marked = d.marked /\ SameGuests(d, e)
                     /\ OneParent(e) /\ \A f \in Files : ParentOf(e, f) = ParentOf(d, f)
                     /\ \A f \in Files : e.parent[f] = None
                     /\ e.constraints = d.constraints \cup {"one parent"} /\ e.tables = d.tables
                     /\ Between(d, e, {"searchable_files.consultation_id",
                                       "searchable_files.meeting_id"},
                                {"searchable_files.parent"})
                     /\ ~Has(e, "searchable_files.parent")
<1> DEFINE d2 == WithParents(d)
           d3 == MoveParents(d2)
           d4 == AddConstraint(d3, "one parent", OneParent(d3))
           d5 == DropColumn(d4, "searchable_files.parent")
           d6 == [d5 EXCEPT !.parent = [f \in Files |-> None]]
<1>1. "searchable_files.meeting_id" \in Columns
  BY DEF Columns, ModelColumns
<1>2. d2 = AddColumn(d, "searchable_files.meeting_id")
  BY DEF WithParents, AddStrictColumn
<1>3. ColumnsOnly(d, d2, d.columns \cup {"searchable_files.meeting_id"})
  BY <1>1, <1>2, AddColumnFields
<1> HIDE DEF d2
<1>4. /\ d2 \in Databases /\ SameRows(d, d2) /\ SameSchema(d, d2)
      /\ d2.columns = d.columns \cup {"searchable_files.consultation_id",
                                      "searchable_files.meeting_id"}
  BY <1>3 DEF ColumnsOnly, Has
<1>5. ParentsOK(d2) /\ \A f \in Files : ParentOf(d2, f) = ParentOf(d, f)
  BY <1>4 DEF ParentsOK, Has, SameRows, SameSchema, ParentOf
<1>6. /\ d3 \in Databases /\ d3.comment = d.comment /\ d3.choice = d.choice
      /\ d3.marked = d.marked /\ SameGuests(d, d3) /\ d3.columns = d2.columns
      /\ d3.strict = d.strict
      /\ SameSchema(d, d3)
  BY <1>4, MoveParentsFields DEF SameRows, SameSchema, SameGuests
<1>7. \A f \in Files :
         /\ d3.consultation[f] = None \/ d3.meeting[f] = None
         /\ ParentOf(d, f) = IF d3.consultation[f] # None THEN d3.consultation[f]
                             ELSE d3.meeting[f]
  BY <1>4, <1>5, MovedParents
<1>8. "one parent" \in d.constraints => d3 = d2
  BY <1>4 DEF ParentsOK, MoveParents, Has, SameRows, SameSchema
<1> HIDE DEF d3
<1>9. OneParent(d3) \in BOOLEAN /\ (OneParent(d3) <=> \A f \in Files : ParentOf(d, f) # None)
  <2>1. OneParent(d3) \in BOOLEAN
    BY DEF OneParent
  <2>2. ASSUME NEW f \in Files
        PROVE  (d3.consultation[f] = None <=> d3.meeting[f] # None) <=> ParentOf(d, f) # None
    BY <1>7
  <2>3. OneParent(d3) <=> \A f \in Files : ParentOf(d, f) # None
    BY <2>2 DEF OneParent
  <2> QED BY <2>1, <2>3
<1>10. "one parent" \in d.constraints => OneParent(d3)
  BY ZenonT(30), <1>4, <1>8 DEF OneParent, SameRows
<1>11. /\ d4 \in Databases /\ SameRows(d3, d4)
       /\ d4.columns = d3.columns /\ d4.tables = d3.tables
       /\ d4.constraints \subseteq d3.constraints \cup {"one parent"}
       /\ d4.failed <=> d3.failed \/ ~OneParent(d3)
       /\ ~d4.failed => d4.constraints = d3.constraints \cup {"one parent"}
  <2>1. /\ d4 \in Databases /\ SameRows(d3, d4)
        /\ d4.columns = d3.columns /\ d4.tables = d3.tables
        /\ d4.constraints \subseteq d3.constraints \cup {"one parent"}
        /\ d3.failed => d4.failed
        /\ ~d3.failed /\ ("one parent" \in d3.constraints \/ OneParent(d3))
           => ~d4.failed /\ d4.constraints = d3.constraints \cup {"one parent"}
        /\ ~d3.failed /\ "one parent" \notin d3.constraints /\ ~OneParent(d3) => d4.failed
    BY ZenonT(30), <1>6, <1>9, AddConstraintFields
  <2> QED BY <1>6, <1>10, <2>1 DEF SameSchema
<1> HIDE DEF d4
<1>12. ColumnsOnly(d4, d5, d4.columns \ {"searchable_files.parent"})
  BY <1>11, DropColumnFields
<1> HIDE DEF d5
<1>13. /\ d6 \in Databases /\ d6.comment = d5.comment /\ d6.choice = d5.choice
       /\ d6.marked = d5.marked /\ d6.invited = d5.invited /\ d6.attendance = d5.attendance
       /\ d6.consultation = d5.consultation /\ d6.meeting = d5.meeting
       /\ \A f \in Files : d6.parent[f] = None
       /\ d6.columns = d5.columns /\ d6.strict = d5.strict /\ SameSchema(d5, d6)
  BY <1>12 DEF ColumnsOnly, Databases, SameSchema
<1> HIDE DEF d6
<1>14. /\ d6.comment = d.comment /\ d6.choice = d.choice /\ d6.marked = d.marked
       /\ d6.strict = d.strict
       /\ SameGuests(d, d6) /\ d6.tables = d.tables
       /\ d6.consultation = d3.consultation /\ d6.meeting = d3.meeting
       /\ (d6.failed <=> d.failed \/ \E f \in Files : ParentOf(d, f) = None)
       /\ (~d6.failed => d6.constraints = d.constraints \cup {"one parent"})
       /\ d6.constraints \subseteq d.constraints \cup {"one parent"}
  <2>1. /\ d6.comment = d4.comment /\ d6.choice = d4.choice /\ d6.marked = d4.marked
        /\ d6.strict = d4.strict /\ d6.invited = d4.invited /\ d6.attendance = d4.attendance
        /\ d6.consultation = d4.consultation /\ d6.meeting = d4.meeting
        /\ d6.tables = d4.tables /\ d6.constraints = d4.constraints /\ d6.failed = d4.failed
    BY <1>12, <1>13 DEF ColumnsOnly, SameRows, SameSchema
  <2>2. /\ d6.comment = d.comment /\ d6.choice = d.choice /\ d6.marked = d.marked
        /\ d6.strict = d.strict
        /\ SameGuests(d, d6) /\ d6.tables = d.tables
        /\ d6.consultation = d3.consultation /\ d6.meeting = d3.meeting
    BY <1>6, <1>11, <2>1 DEF SameRows, SameSchema, SameGuests
  <2>3. d3.failed = d.failed /\ d3.constraints = d.constraints
    BY <1>6 DEF SameSchema
  <2> QED BY <1>9, <1>11, <2>1, <2>2, <2>3
<1>15. ~d6.failed => OneParent(d6)
  BY <1>9, <1>14 DEF OneParent
<1>16. ASSUME NEW f \in Files
       PROVE  ParentOf(d6, f) = ParentOf(d, f)
  <2>1. ParentOf(d, f) = IF d3.consultation[f] # None THEN d3.consultation[f] ELSE d3.meeting[f]
    BY <1>7
  <2>2. /\ d6.consultation[f] = d3.consultation[f] /\ d6.meeting[f] = d3.meeting[f]
        /\ d6.parent[f] = None
    BY <1>13, <1>14
  <2>3. CASE d3.consultation[f] # None
    BY <2>1, <2>2, <2>3 DEF ParentOf
  <2>4. CASE d3.consultation[f] = None /\ d3.meeting[f] # None
    BY <2>1, <2>2, <2>4 DEF ParentOf
  <2>5. CASE d3.consultation[f] = None /\ d3.meeting[f] = None
    BY <2>1, <2>2, <2>5 DEF ParentOf
  <2> QED BY <2>3, <2>4, <2>5
<1>17. /\ Between(d, d6, {"searchable_files.consultation_id", "searchable_files.meeting_id"},
                  {"searchable_files.parent"})
       /\ ~Has(d6, "searchable_files.parent")
  BY <1>4, <1>6, <1>11, <1>12, <1>13 DEF ColumnsOnly, Between, Has
<1>18. d6 = ParentsOfFiles(d)
  BY DEF d6, d5, d4, d3, d2, ParentsOfFiles
<1> QED
  BY <1>13, <1>14, <1>15, <1>16, <1>17, <1>18

LEMMA NextIsNat == \A n \in Nat : n + 1 \in Nat
OBVIOUS

LEMMA ToModel ==
    ASSUME NEW d \in Databases, "one choice" \in d.constraints => OneChoice(d)
    PROVE  LET e == LastColumns(UserConstraints(RecordMeetings(d)))
           IN  /\ e \in Databases /\ SameDocuments(d, e) /\ SameGuests(d, e)
               /\ e.marked = d.marked /\ e.tables = d.tables
               /\ e.columns = d.columns \cup {"consultations.added_files"}
               /\ e.failed <=> d.failed \/ ~OneChoice(d)
               /\ ~e.failed => e.constraints = d.constraints \cup {"users set null", "one choice"}
<1> DEFINE d1 == RecordMeetings(d)
           d2 == UserConstraints(d1)
           d3 == AddColumn(d2, "consultations.added_files")
           d4 == AddConstraint(d3, "one choice", OneChoice(d2))
<1>1. /\ d1 \in Databases /\ SameDocuments(d, d1) /\ SameGuests(d, d1) /\ SameSchema(d, d1)
      /\ d1.marked = d.marked /\ d1.columns = d.columns
  <2> DEFINE events == [m \in Meetings |-> IF m \in d.authored THEN d.events[m] + 1
                                            ELSE d.events[m]]
  <2>1. events \in [Meetings -> Nat]
    <3>1. d.events \in [Meetings -> Nat]
      BY DEF Databases
    <3>2. ASSUME NEW old \in [Meetings -> Nat], NEW m \in Meetings
          PROVE  (IF m \in d.authored THEN old[m] + 1 ELSE old[m]) \in Nat
      <4>1. old[m] \in Nat
        OBVIOUS
      <4>2. old[m] + 1 \in Nat
        BY <4>1, NextIsNat, Zenon
      <4> QED BY <4>1, <4>2
    <3> QED BY <3>1, <3>2
  <2>2. d1 = [d EXCEPT !.events = events]
    BY DEF RecordMeetings
  <2> HIDE DEF events, d1
  <2> QED BY <2>1, <2>2 DEF Databases, SameDocuments, SameGuests, SameSchema
<1> HIDE DEF d1
<1>2. /\ d2 \in Databases /\ SameRows(d1, d2)
      /\ d2.columns = d1.columns /\ d2.tables = d1.tables
      /\ d2.failed <=> d1.failed
      /\ ~d1.failed => d2.constraints = d1.constraints \cup {"users set null"}
  BY <1>1, AddConstraintFields DEF UserConstraints
<1> HIDE DEF d2
<1>3. ColumnsOnly(d2, d3, d2.columns \cup {"consultations.added_files"})
  <2>1. "consultations.added_files" \in Columns
    BY DEF Columns, ModelColumns
  <2> QED BY <1>2, <2>1, AddColumnFields
<1> HIDE DEF d3
<1>4. /\ d2.choice = d.choice /\ d3.tables = d.tables /\ (d3.failed <=> d.failed)
      /\ (~d.failed => d3.constraints = d.constraints \cup {"users set null"})
      /\ d3.columns = d.columns \cup {"consultations.added_files"}
  BY <1>1, <1>2, <1>3 DEF ColumnsOnly, SameRows, SameDocuments, SameSchema
<1>5. OneChoice(d2) \in BOOLEAN /\ (OneChoice(d2) <=> OneChoice(d))
  <2>1. \A i : RowsOf(d2, i) = RowsOf(d, i)
    BY <1>4 DEF RowsOf
  <2> QED BY <2>1 DEF OneChoice, HasTwo
<1>6. /\ d4 \in Databases /\ SameRows(d3, d4)
      /\ d4.columns = d3.columns /\ d4.tables = d3.tables
      /\ d3.failed => d4.failed
      /\ ~d3.failed /\ ("one choice" \in d3.constraints \/ OneChoice(d2))
         => ~d4.failed /\ d4.constraints = d3.constraints \cup {"one choice"}
      /\ ~d3.failed /\ "one choice" \notin d3.constraints /\ ~OneChoice(d2) => d4.failed
  <2>1. d3 \in Databases
    BY <1>3 DEF ColumnsOnly
  <2> QED BY <1>5, <2>1, AddConstraintFields
<1>7. /\ SameDocuments(d, d4) /\ SameGuests(d, d4) /\ d4.marked = d.marked
  <2> HIDE DEF d4
  <2>1. SameRows(d1, d3)
    BY <1>2, <1>3 DEF ColumnsOnly, SameRows
  <2>2. SameRows(d1, d4)
    BY <1>6, <2>1 DEF SameRows
  <2>3. SameDocuments(d, d4)
    BY <1>1, <2>2 DEF SameRows, SameDocuments
  <2>4. SameGuests(d, d4)
    BY <1>1, <2>2 DEF SameRows, SameGuests
  <2>5. d4.marked = d.marked
    BY <1>1, <2>2 DEF SameRows
  <2> QED BY <2>3, <2>4, <2>5
<1>8. d4 = LastColumns(UserConstraints(RecordMeetings(d)))
  BY DEF d4, d3, d2, d1, LastColumns
<1> HIDE DEF d4
<1>9. /\ d4.failed <=> d.failed \/ ~OneChoice(d)
      /\ ~d4.failed => d4.constraints = d.constraints \cup {"users set null", "one choice"}
  BY <1>4, <1>5, <1>6
<1> QED
  BY <1>4, <1>6, <1>7, <1>8, <1>9

\* What the application finds after an upgrade.
IsModel(d) ==
    /\ ModelColumns \subseteq d.columns /\ ModelTables \subseteq d.tables
    /\ {"one parent", "one choice", "users set null"} \subseteq d.constraints
    /\ OneParent(d) /\ OneChoice(d)
    /\ \A x \in Comments : d.comment[x] = "notice" => x \in d.marked

LEMMA UpgradedFields ==
    ASSUME NEW d, IsSound(d), ModelTables \subseteq d.tables
    PROVE  LET e == Upgraded(d)
           IN  /\ e.failed <=> IsBlocked(d)
               /\ ~e.failed => /\ IsSound(e) /\ IsModel(e) /\ SameGuests(d, e)
                               /\ e.strict = d.strict
                               /\ \A f \in Files : ParentOf(e, f) = ParentOf(d, f)
<1> DEFINE d1 == TargetsOfComments(FilesOfConsultations(PeopleAndMeetings(d)))
           d2 == MarkDeletedComments(ColumnsOfUsers(UserConstraints(d1)))
           d3 == ParentsOfFiles(d2)
           d4 == LastColumns(UserConstraints(RecordMeetings(d3)))
<1>0. d4 = Upgraded(d)
  BY DEF Upgraded
<1>1. d \in Databases /\ ParentsOK(d) /\ ConstraintsOK(d) /\ InvitationsOK(d) /\ CommentsOK(d)
      /\ NamesOK(d)
  BY DEF IsSound
<1>2. /\ d1 \in Databases /\ SameDocuments(d, d1) /\ d1.marked = d.marked
      /\ d1.constraints = d.constraints
      /\ SameGuests(d, d1) /\ d1.tables = d.tables \ {"meetings_users_association"}
      /\ d1.failed <=> TargetMissing(d)
      /\ d1.failed =>
            Between(d, d1, {"comments.updated", "meetings.creator_id",
                            "searchable_files.consultation_id", "users.mobile_number"},
                            {"comments.modified"})
      /\ ~d1.failed =>
            Between(d, d1, {"comments.updated", "meetings.creator_id",
                            "searchable_files.consultation_id", "comments.target",
                                    "users.mobile_number"},
                    {"comments.modified"})
  BY ToComments
<1> HIDE DEF d1
<1>3. /\ Has(d1, "users.updated") \/ Has(d1, "users.modified")
      /\ Has(d1, "searchable_files.parent") <=> Has(d, "searchable_files.parent")
      /\ Has(d1, "comments.deleted") <=> Has(d, "comments.deleted")
      /\ Has(d1, "searchable_files.consultation_id")
  <2>1. Has(d, "users.updated") \/ Has(d, "users.modified")
    BY <1>1 DEF NamesOK
  <2>2. CASE d1.failed
    BY <1>2, <2>1, <2>2 DEF Has, Between
  <2>3. CASE ~d1.failed
    BY <1>2, <2>1, <2>3 DEF Has, Between
  <2> QED BY <2>2, <2>3
<1>4. /\ d2 \in Databases /\ SameDocuments(d1, d2) /\ SameGuests(d1, d2)
      /\ d2.failed <=> d1.failed
      /\ ~d1.failed => d2.constraints = d1.constraints \cup {"users set null"}
      /\ d2.constraints \subseteq d1.constraints \cup {"users set null"}
      /\ d2.tables = d1.tables
      /\ Between(d1, d2, {"consultations.status", "users.abbrev", "users.updated",
                          "comments.deleted"}, {"users.tags", "users.modified"})
      /\ CommentsOK(d1) => CommentsOK(d2)
  BY <1>2, <1>3, ToParents
<1> HIDE DEF d2
<1>5. SameDocuments(d, d2) /\ SameGuests(d, d2)
  BY <1>2, <1>4 DEF SameDocuments, SameGuests
<1>6. /\ Has(d2, "searchable_files.parent") <=> Has(d, "searchable_files.parent")
      /\ Has(d2, "searchable_files.consultation_id")
  BY <1>3, <1>4 DEF Has, Between
<1>7. ParentsOK(d2) /\ ("one parent" \in d2.constraints => OneParent(d2))
      /\ \A f \in Files : ParentOf(d2, f) = ParentOf(d, f)
  <2>1. "one parent" \in d2.constraints => "one parent" \in d.constraints
    BY <1>2, <1>4
  <2>2. d2.parent = d.parent /\ d2.consultation = d.consultation /\ d2.meeting = d.meeting
    BY <1>5 DEF SameDocuments
  <2> QED BY <1>1, <1>6, <2>1, <2>2 DEF ParentsOK, ConstraintsOK, OneParent, ParentOf
<1>8. CommentsOK(d2)
  BY <1>1, <1>2, <1>3, <1>4 DEF CommentsOK, SameDocuments
<1>9. /\ d3 \in Databases /\ d3.comment = d2.comment /\ d3.choice = d2.choice
      /\ d3.strict = d2.strict
      /\ d3.constraints \subseteq d2.constraints \cup {"one parent"}
      /\ d3.failed <=> d2.failed \/ \E f \in Files : ParentOf(d2, f) = None
      /\ ~d3.failed =>
            /\ d3.marked = d2.marked /\ SameGuests(d2, d3)
            /\ OneParent(d3) /\ \A f \in Files : ParentOf(d3, f) = ParentOf(d2, f)
            /\ \A f \in Files : d3.parent[f] = None
            /\ d3.constraints = d2.constraints \cup {"one parent"} /\ d3.tables = d2.tables
            /\ Between(d2, d3, {"searchable_files.consultation_id",
                                "searchable_files.meeting_id"}, {"searchable_files.parent"})
            /\ ~Has(d3, "searchable_files.parent")
  BY <1>4, <1>6, <1>7, ToEvents
<1> HIDE DEF d3
<1>10. d3.choice = d.choice /\ d3.comment = d.comment
  BY <1>5, <1>9 DEF SameDocuments
<1>11. \A e : e.choice = d.choice => (OneChoice(e) <=> OneChoice(d))
  <2>1. \A e : e.choice = d.choice => \A i : RowsOf(e, i) = RowsOf(d, i)
    BY DEF RowsOf
  <2> QED BY <2>1 DEF OneChoice, HasTwo
<1>12. "one choice" \in d3.constraints => OneChoice(d3)
  BY <1>1, <1>2, <1>4, <1>9, <1>10, <1>11 DEF ConstraintsOK
<1>13. /\ d4 \in Databases /\ SameDocuments(d3, d4) /\ SameGuests(d3, d4)
       /\ d4.marked = d3.marked /\ d4.tables = d3.tables
       /\ d4.columns = d3.columns \cup {"consultations.added_files"}
       /\ d4.failed <=> d3.failed \/ ~OneChoice(d3)
       /\ ~d4.failed => d4.constraints = d3.constraints \cup {"users set null", "one choice"}
  BY <1>9, <1>12, ToModel
<1> HIDE DEF d4
<1>14. d4.failed <=> \/ TargetMissing(d) \/ \E f \in Files : ParentOf(d, f) = None
                     \/ ~OneChoice(d)
  BY <1>2, <1>4, <1>7, <1>9, <1>10, <1>11, <1>13
<1>15. d4.failed <=> IsBlocked(d)
  BY <1>14 DEF IsBlocked, TargetMissing
<1>16. ASSUME ~d4.failed
       PROVE  /\ IsSound(d4) /\ IsModel(d4) /\ SameGuests(d, d4) /\ d4.strict = d.strict
              /\ \A f \in Files : ParentOf(d4, f) = ParentOf(d, f)
  <2>1. ~d3.failed /\ ~d2.failed /\ ~d1.failed /\ OneChoice(d)
    BY <1>4, <1>9, <1>14, <1>16, <1>13
  <2>2. /\ d4.parent = d3.parent /\ d4.consultation = d3.consultation /\ d4.meeting = d3.meeting
        /\ d4.choice = d.choice /\ d4.comment = d.comment /\ d4.marked = d2.marked
    BY <1>9, <1>10, <1>13, <2>1 DEF SameDocuments
  <2>3. OneParent(d4) /\ \A f \in Files : ParentOf(d4, f) = ParentOf(d3, f)
    BY <1>9, <2>1, <2>2 DEF OneParent, ParentOf
  <2>4. \A f \in Files : ParentOf(d4, f) = ParentOf(d, f)
    BY <1>7, <1>9, <2>1, <2>3
  <2>5. SameGuests(d, d4)
    BY <1>5, <1>9, <1>13, <2>1 DEF SameGuests
  <2>6. {"one parent", "one choice", "users set null"} \subseteq d4.constraints
    BY <1>9, <1>13, <1>16, <2>1
  <2>7. ModelTables \subseteq d4.tables /\ "meetings_users_association" \notin d4.tables
    BY <1>2, <1>4, <1>9, <1>13, <2>1 DEF ModelTables
  <2>8. ModelColumns \subseteq d4.columns /\ ~Has(d4, "searchable_files.parent")
    BY <1>2, <1>4, <1>9, <1>13, <2>1 DEF ModelColumns, Between, Has
  <2>9. OneChoice(d4)
    BY <1>11, <2>1, <2>2
  <2>10. \A x \in Comments : d4.comment[x] = "notice" => x \in d4.marked
    <3>1. Has(d2, "comments.deleted")
      BY <1>4 DEF Has, Between
    <3>2. d2.comment = d.comment
      BY <1>5 DEF SameDocuments
    <3> QED BY <1>8, <2>2, <3>1, <3>2 DEF CommentsOK
  <2>11. IsModel(d4)
    BY <2>3, <2>6, <2>7, <2>8, <2>9, <2>10 DEF IsModel
  <2>12. ParentsOK(d4)
    BY <1>9, <2>1, <2>2, <2>3, <2>8 DEF ParentsOK, OneParent
  <2>13. ConstraintsOK(d4) /\ InvitationsOK(d4) /\ CommentsOK(d4)
    BY <2>3, <2>7, <2>9, <2>10 DEF ConstraintsOK, InvitationsOK, CommentsOK
  <2>14. NamesOK(d4)
    BY <2>8 DEF NamesOK, Has, ModelColumns
  <2>15. d4.strict = d.strict
    BY <1>5, <1>9, <1>13 DEF SameDocuments
  <2> QED BY <1>13, <1>16, <2>4, <2>5, <2>11, <2>12, <2>13, <2>14, <2>15 DEF IsSound
<1> QED
  BY <1>0, <1>15, <1>16

-----------------------------------------------------------------------------
(* The steps of Next *)

\* What every step keeps: what the users entered, and which columns are strict.
Keeps(d, e) ==
    /\ SameGuests(d, e) /\ e.strict = d.strict
    /\ \A f \in Files : ParentOf(e, f) = ParentOf(d, f)

LEMMA WithTablesFields ==
    ASSUME NEW d, IsSound(d)
    PROVE  LET e == WithTables(d)
           IN  /\ IsSound(e) /\ ModelTables \subseteq e.tables /\ Keeps(d, e)
               /\ e.choice = d.choice /\ (IsBlocked(e) <=> IsBlocked(d))
               /\ IsModel(d) => IsModel(e)
<1> DEFINE e == WithTables(d)
           more == IF "agenda_item_state_preferences" \in d.tables THEN d.constraints
                   ELSE d.constraints \cup {"one choice"}
<1>1. /\ d \in Databases /\ ~d.failed
      /\ ParentsOK(d) /\ ConstraintsOK(d) /\ InvitationsOK(d) /\ CommentsOK(d) /\ NamesOK(d)
  BY DEF IsSound
<1>2. more \in SUBSET {"one parent", "one choice", "users set null"}
  BY <1>1 DEF Databases
<1>3. d.tables \cup ModelTables \in SUBSET (ModelTables \cup OldTables)
  BY <1>1 DEF Databases
<1>4. e = [d EXCEPT !.tables = d.tables \cup ModelTables, !.constraints = more]
  BY DEF WithTables
<1> HIDE DEF e
<1>5. /\ e \in Databases /\ SameRows(d, e) /\ e.columns = d.columns /\ e.failed = d.failed
      /\ e.tables = d.tables \cup ModelTables /\ e.constraints = more
  <2> HIDE DEF more
  <2> QED BY <1>1, <1>2, <1>3, <1>4 DEF SameRows, Databases
<1>6. OneChoice(e) <=> OneChoice(d)
  <2>1. \A i : RowsOf(e, i) = RowsOf(d, i)
    BY <1>5 DEF RowsOf, SameRows
  <2> QED BY <2>1 DEF OneChoice, HasTwo
<1>7. OneParent(e) <=> OneParent(d)
  BY <1>5 DEF OneParent, SameRows
<1>8. ParentsOK(e)
  BY <1>1, <1>5 DEF ParentsOK, Has, SameRows
<1>9. ConstraintsOK(e)
  <2>1. "agenda_item_state_preferences" \in e.tables
    BY <1>5 DEF ModelTables
  <2>2. "one parent" \in more => "one parent" \in d.constraints
    OBVIOUS
  <2>3. "one choice" \in more => OneChoice(d)
    BY <1>1 DEF ConstraintsOK
  <2>4. "one parent" \in d.constraints => OneParent(d)
    BY <1>1 DEF ConstraintsOK
  <2> HIDE DEF more
  <2>5. "one parent" \in e.constraints => OneParent(e)
    BY <1>5, <1>7, <2>2, <2>4
  <2>6. "one choice" \in e.constraints => OneChoice(e)
    BY <1>5, <1>6, <2>3
  <2> QED BY <2>1, <2>5, <2>6 DEF ConstraintsOK
<1>10. InvitationsOK(e)
  BY <1>1, <1>5 DEF InvitationsOK, SameRows, ModelTables
<1>11. CommentsOK(e) /\ NamesOK(e)
  BY <1>1, <1>5 DEF CommentsOK, NamesOK, Has, SameRows
<1>12. Keeps(d, e)
  BY <1>5 DEF Keeps, SameGuests, ParentOf, SameRows
<1>13. IsBlocked(e) <=> IsBlocked(d)
  BY <1>5, <1>6, <1>12 DEF IsBlocked, Keeps, Has, SameRows
<1>14. IsModel(d) => IsModel(e)
  BY <1>5, <1>6, <1>7 DEF IsModel, SameRows
<1>15. e.choice = d.choice /\ ModelTables \subseteq e.tables
  BY <1>5 DEF SameRows
<1>16. IsSound(e)
  BY <1>1, <1>5, <1>8, <1>9, <1>10, <1>11 DEF IsSound
<1> QED
  BY <1>12, <1>13, <1>14, <1>15, <1>16 DEF e

Rows == [item : Items \cup {None}, state : States]

\* A request that changes preferences, and leaves one of each item where the
\* database demands it.
LEMMA ChoiceFields ==
    ASSUME NEW d, IsSound(d), NEW choice \in [Choices -> Rows], NEW e,
           e = [d EXCEPT !.choice = choice],
           "one choice" \in d.constraints => OneChoice(e),
           "agenda_item_state_preferences" \in d.tables
    PROVE  /\ IsSound(e) /\ Keeps(d, e) /\ e.tables = d.tables
           /\ IsModel(d) => IsModel(e)
<1>1. /\ d \in Databases /\ ~d.failed
      /\ ParentsOK(d) /\ ConstraintsOK(d) /\ InvitationsOK(d) /\ CommentsOK(d) /\ NamesOK(d)
  BY DEF IsSound
<1>2. /\ e \in Databases /\ e.choice = choice /\ e.columns = d.columns /\ SameSchema(d, e)
      /\ e.parent = d.parent /\ e.consultation = d.consultation /\ e.meeting = d.meeting
      /\ e.invited = d.invited /\ e.attendance = d.attendance
      /\ e.comment = d.comment /\ e.marked = d.marked /\ e.strict = d.strict
  BY <1>1 DEF Databases, Rows, SameSchema
<1>3. OneParent(e) <=> OneParent(d)
  BY <1>2 DEF OneParent
<1>4. ParentsOK(e) /\ InvitationsOK(e) /\ CommentsOK(e) /\ NamesOK(e)
  BY <1>1, <1>2 DEF ParentsOK, InvitationsOK, CommentsOK, NamesOK, Has, SameSchema
<1>5. ConstraintsOK(e)
  BY <1>1, <1>2, <1>3 DEF ConstraintsOK, SameSchema
<1>6. Keeps(d, e)
  <2>1. SameGuests(d, e)
    BY <1>2 DEF SameGuests
  <2>2. ASSUME NEW f \in Files
        PROVE  ParentOf(e, f) = ParentOf(d, f)
    <3>1. /\ e.consultation[f] = d.consultation[f] /\ e.meeting[f] = d.meeting[f]
          /\ e.parent[f] = d.parent[f]
      BY <1>2
    <3> QED BY <3>1 DEF ParentOf
  <2> QED BY <1>2, <2>1, <2>2 DEF Keeps
<1>7. IsModel(d) => IsModel(e)
  BY <1>2, <1>3 DEF IsModel, SameSchema
<1> QED BY <1>1, <1>2, <1>4, <1>5, <1>6, <1>7 DEF IsSound, SameSchema

\* A step from one sound database to another.
Goes(d, e) == IsSound(e) /\ Keeps(d, e) /\ (IsModel(d) => IsModel(e))

LEMMA NoneIsNoItem == \A i \in Items : i # None
BY UpgradesAssumption

LEMMA ChooseStep ==
    ASSUME IInv, NEW i \in Items, NEW s \in States, Choose(i, s)
    PROVE  Goes(db, db') /\ db'.tables = db.tables
<1>1. db \in Databases /\ IsSound(db) /\ ("one choice" \in db.constraints => OneChoice(db))
  BY DEF IInv, IsSound, ConstraintsOK
<1>2. "agenda_item_state_preferences" \in db.tables
  BY DEF Choose, CanChoose
<1>3. db.choice \in [Choices -> Rows]
  BY <1>1 DEF Databases, Rows
<1>4. CASE \E c \in Choices : RowsOf(db, i) = {c} /\ db' = [db EXCEPT !.choice[c].state = s]
  <2>1. PICK c \in Choices : RowsOf(db, i) = {c} /\ db' = [db EXCEPT !.choice[c].state = s]
    BY <1>4
  <2> DEFINE choice == [db.choice EXCEPT ![c] = [item |-> db.choice[c].item, state |-> s]]
  <2>2. choice \in [Choices -> Rows]
    BY <1>3 DEF Rows
  <2>3. db' = [db EXCEPT !.choice = choice]
    <3>1. db.choice[c] \in Rows
      BY <1>3
    <3>2. [db.choice[c] EXCEPT !.state = s] = [item |-> db.choice[c].item, state |-> s]
      BY <3>1 DEF Rows
    <3> QED BY <2>1, <3>2
  <2>4. \A b \in Choices : choice[b].item = db.choice[b].item
    BY <1>3 DEF Rows
  <2> HIDE DEF choice
  <2>5. \A j \in Items : RowsOf(db', j) = RowsOf(db, j)
    <3>1. db'.choice = choice
      BY <1>1, <2>3 DEF Databases
    <3> QED BY <2>4, <3>1 DEF RowsOf
  <2>6. "one choice" \in db.constraints => OneChoice(db')
    BY <1>1, <2>5 DEF OneChoice, HasTwo
  <2> QED BY <1>1, <1>2, <2>2, <2>3, <2>6, ChoiceFields DEF Goes
<1>5. CASE \E c \in FreeRows : /\ RowsOf(db, i) = {}
                               /\ db' = [db EXCEPT !.choice[c] = [item |-> i, state |-> s]]
  <2>1. PICK c \in FreeRows : /\ RowsOf(db, i) = {}
                              /\ db' = [db EXCEPT !.choice[c] = [item |-> i, state |-> s]]
    BY <1>5
  <2> DEFINE choice == [db.choice EXCEPT ![c] = [item |-> i, state |-> s]]
  <2>2. c \in Choices /\ db.choice[c].item = None
    BY <2>1 DEF FreeRows, Unchosen
  <2>3. choice \in [Choices -> Rows] /\ choice[c].item = i
    BY <1>3, <2>2 DEF Rows
  <2>4. \A b \in Choices : b # c => choice[b] = db.choice[b]
    BY <1>3
  <2>5. db' = [db EXCEPT !.choice = choice]
    BY <2>1
  <2> HIDE DEF choice
  <2>6. db'.choice = choice
    BY <1>1, <2>5 DEF Databases
  <2>7. ASSUME OneChoice(db), NEW j \in Items
        PROVE  ~HasTwo(db', j)
    <3>1. ~HasTwo(db, j)
      BY <2>7 DEF OneChoice
    <3>2. CASE j = i
      BY <2>1, <2>4, <2>6, <3>2 DEF HasTwo, RowsOf
    <3>3. CASE j # i
      BY <2>3, <2>4, <2>6, <3>1, <3>3 DEF HasTwo, RowsOf
    <3> QED BY <3>2, <3>3
  <2>8. "one choice" \in db.constraints => OneChoice(db')
    BY <1>1, <2>7 DEF OneChoice
  <2> QED BY <1>1, <1>2, <2>3, <2>5, <2>8, ChoiceFields DEF Goes
<1> QED
  BY <1>4, <1>5 DEF Choose

LEMMA ChooseTwiceStep ==
    ASSUME IInv, NEW i \in Items, NEW s \in States, NEW t \in States, ChooseTwice(i, s, t)
    PROVE  Goes(db, db') /\ db'.tables = db.tables
<1>1. db \in Databases /\ IsSound(db)
  BY DEF IInv, IsSound
<1>2. "agenda_item_state_preferences" \in db.tables /\ "one choice" \notin db.constraints
  BY DEF ChooseTwice, CanChoose
<1>3. PICK c \in FreeRows, d \in FreeRows :
        db' = [db EXCEPT !.choice[c] = [item |-> i, state |-> s],
                         !.choice[d] = [item |-> i, state |-> t]]
  BY DEF ChooseTwice
<1> DEFINE choice == [db.choice EXCEPT ![c] = [item |-> i, state |-> s],
                                       ![d] = [item |-> i, state |-> t]]
<1>4. choice \in [Choices -> Rows]
  <2>1. db.choice \in [Choices -> Rows]
    BY <1>1 DEF Databases, Rows
  <2>2. [item |-> i, state |-> s] \in Rows /\ [item |-> i, state |-> t] \in Rows
    BY DEF Rows
  <2> QED BY <2>1, <2>2
<1>5. db' = [db EXCEPT !.choice = choice]
  BY <1>1, <1>3 DEF Databases
<1> HIDE DEF choice
<1> QED
  BY <1>1, <1>2, <1>4, <1>5, ChoiceFields DEF Goes

LEMMA ChooseAllStep ==
    ASSUME IInv, NEW s \in States, ChooseAll(s)
    PROVE  Goes(db, db') /\ db'.tables = db.tables
<1>1. db \in Databases /\ IsSound(db) /\ ("one choice" \in db.constraints => OneChoice(db))
  BY DEF IInv, IsSound, ConstraintsOK
<1>2. "agenda_item_state_preferences" \in db.tables
  BY DEF ChooseAll, CanChoose
<1>3. PICK row \in [Items -> Choices] :
        /\ \A i \in Items : IF RowsOf(db, i) = {} THEN row[i] \in FreeRows
                            ELSE row[i] \in RowsOf(db, i)
        /\ \A i, j \in Items : row[i] = row[j] => i = j
        /\ db' = [db EXCEPT !.choice =
                    [c \in Choices |->
                       IF \E i \in Items : row[i] = c
                       THEN [item |-> CHOOSE i \in Items : row[i] = c, state |-> s]
                       ELSE @[c]]]
  BY DEF ChooseAll
<1> DEFINE choice == [c \in Choices |->
                        IF \E i \in Items : row[i] = c
                        THEN [item |-> CHOOSE i \in Items : row[i] = c, state |-> s]
                        ELSE db.choice[c]]
<1>4. choice \in [Choices -> Rows]
  <2>1. db.choice \in [Choices -> Rows]
    BY <1>1 DEF Databases, Rows
  <2>2. ASSUME NEW c \in Choices, \E i \in Items : row[i] = c
        PROVE  [item |-> CHOOSE i \in Items : row[i] = c, state |-> s] \in Rows
    BY <2>2 DEF Rows
  <2> QED BY <2>1, <2>2
<1>5. db' = [db EXCEPT !.choice = choice]
  BY <1>3
<1>6. ASSUME NEW c \in Choices, NEW j \in Items, choice[c].item = j
      PROVE  row[j] = c \/ (c \in RowsOf(db, j) /\ \A i \in Items : row[i] # c)
  <2>1. CASE \E i \in Items : row[i] = c
    <3>1. choice[c].item \in Items /\ row[choice[c].item] = c
      BY <2>1
    <3> QED BY <1>6, <3>1
  <2>2. CASE ~\E i \in Items : row[i] = c
    BY <1>6, <2>2 DEF RowsOf
  <2> QED BY <2>1, <2>2
<1> HIDE DEF choice
<1>7. db'.choice = choice
  BY <1>1, <1>5 DEF Databases
<1>8. ASSUME OneChoice(db), NEW j \in Items
      PROVE  ~HasTwo(db', j)
  <2>1. ~HasTwo(db, j)
    BY <1>8 DEF OneChoice
  <2>2. ASSUME NEW c \in RowsOf(db', j)
        PROVE  c = row[j]
    <3>1. c \in Choices /\ choice[c].item = j
      BY <1>7 DEF RowsOf
    <3>2. CASE c \in RowsOf(db, j) /\ \A i \in Items : row[i] # c
      <4>1. row[j] \in RowsOf(db, j)
        BY <1>3, <3>2
      <4> QED BY <2>1, <3>2, <4>1 DEF HasTwo
    <3> QED BY <1>6, <3>1, <3>2
  <2> QED BY <2>2 DEF HasTwo
<1>9. "one choice" \in db.constraints => OneChoice(db')
  BY <1>1, <1>8 DEF OneChoice
<1> QED
  BY <1>1, <1>2, <1>4, <1>5, <1>9, ChoiceFields DEF Goes

\* What the cleanup leaves of the preferences.
LEMMA CleanupStep ==
    ASSUME IInv, Cleanup
    PROVE  /\ Goes(db, db') /\ OneChoice(db')
           /\ \A i \in Items : /\ RowsOf(db', i) \subseteq RowsOf(db, i)
                               /\ RowsOf(db, i) # {} => RowsOf(db', i) # {}
                               /\ \A c \in RowsOf(db', i) : db'.choice[c] = db.choice[c]
<1> DEFINE d == WithTables(db)
<1>1. db \in Databases /\ IsSound(db)
  BY DEF IInv, IsSound
<1>2. /\ IsSound(d) /\ ModelTables \subseteq d.tables /\ Keeps(db, d)
      /\ d.choice = db.choice /\ (IsModel(db) => IsModel(d))
  BY <1>1, WithTablesFields
<1>3. PICK first \in [{i \in Items : HasTwo(db, i)} -> Choices] :
        /\ \A i \in DOMAIN first : first[i] \in RowsOf(db, i)
        /\ LET ids == UNION {Excess(RowsOf(db, i), first[i]) : i \in DOMAIN first}
           IN  db' = [d EXCEPT
                        !.choice = [c \in Choices |-> IF c \in ids THEN Unchosen ELSE @[c]]]
  BY DEF Cleanup
<1> DEFINE ids == UNION {Excess(RowsOf(db, i), first[i]) : i \in DOMAIN first}
           choice == [c \in Choices |-> IF c \in ids THEN Unchosen ELSE db.choice[c]]
<1> HIDE DEF d
<1>4. db' = [d EXCEPT !.choice = choice]
  BY <1>2, <1>3
<1>5. ASSUME NEW c \in Choices, NEW i \in Items, db.choice[c].item = i
      PROVE  c \in ids <=> HasTwo(db, i) /\ c # first[i]
  <2>1. c \in RowsOf(db, i)
    BY <1>5 DEF RowsOf
  <2>2. \A j \in Items : c \in RowsOf(db, j) => j = i
    BY <1>5 DEF RowsOf
  <2>3. \A j \in DOMAIN first : c \in Excess(RowsOf(db, j), first[j]) <=> j = i /\ c # first[i]
    BY <2>1, <2>2 DEF Excess
  <2> QED BY <2>3
<1>6. choice \in [Choices -> Rows]
  <2>1. db.choice \in [Choices -> Rows]
    BY <1>1 DEF Databases, Rows
  <2>2. Unchosen \in Rows
    BY DEF Unchosen, Rows, States
  <2> QED BY <2>1, <2>2
<1>7. \A c \in Choices : c \in ids => choice[c].item = None
  BY DEF Unchosen
<1>8. \A c \in Choices : c \notin ids => choice[c] = db.choice[c]
  OBVIOUS
<1> HIDE DEF ids, choice
<1>9. db'.choice = choice
  <2>1. d \in Databases
    BY <1>2 DEF IsSound
  <2> QED BY <1>4, <2>1 DEF Databases
<1>10. ASSUME NEW i \in Items
       PROVE  /\ RowsOf(db', i) = {c \in RowsOf(db, i) : HasTwo(db, i) => c = first[i]}
              /\ \A c \in RowsOf(db', i) : db'.choice[c] = db.choice[c]
              /\ HasTwo(db, i) => first[i] \in RowsOf(db, i)
              /\ RowsOf(db, i) # {} => RowsOf(db', i) # {}
              /\ ~HasTwo(db', i)
  <2>1. ASSUME NEW c \in Choices
        PROVE  choice[c].item = i <=> /\ db.choice[c].item = i
                                      /\ HasTwo(db, i) => c = first[i]
    <3>1. CASE c \in ids
      <4>1. choice[c].item # i
        BY <1>7, <3>1, NoneIsNoItem
      <4> QED BY <1>5, <3>1, <4>1
    <3>2. CASE c \notin ids
      BY <1>5, <1>8, <3>2
    <3> QED BY <3>1, <3>2
  <2>2. RowsOf(db', i) = {c \in RowsOf(db, i) : HasTwo(db, i) => c = first[i]}
    BY <1>9, <2>1 DEF RowsOf
  <2>3. ASSUME NEW c \in RowsOf(db', i)
        PROVE  db'.choice[c] = db.choice[c]
    <3>1. c \in Choices /\ choice[c].item = i
      BY <1>9 DEF RowsOf
    <3>2. c \notin ids
      BY <1>7, <3>1, NoneIsNoItem
    <3> QED BY <1>8, <1>9, <3>1, <3>2
  <2>4. HasTwo(db, i) => first[i] \in RowsOf(db, i)
    BY <1>3
  <2>5. RowsOf(db, i) # {} => RowsOf(db', i) # {}
    BY <2>2, <2>4
  <2>6. ~HasTwo(db', i)
    BY <2>2 DEF HasTwo
  <2> QED BY <2>2, <2>3, <2>4, <2>5, <2>6
<1>11. OneChoice(db')
  BY <1>10 DEF OneChoice
<1>12. IsSound(db') /\ Keeps(d, db') /\ (IsModel(d) => IsModel(db'))
  <2>1. "agenda_item_state_preferences" \in d.tables
    BY <1>2 DEF ModelTables
  <2> QED BY <1>2, <1>4, <1>6, <1>11, <2>1, ChoiceFields
<1>13. Keeps(db, db')
  BY <1>2, <1>12 DEF Keeps, SameGuests
<1> QED
  BY <1>2, <1>10, <1>11, <1>12, <1>13 DEF Goes

LEMMA StartStep ==
    ASSUME IInv, StartUpgrade
    PROVE  Goes(db, db') /\ ModelTables \subseteq db'.tables
BY WithTablesFields DEF IInv, StartUpgrade, Goes

LEMMA CommitStep ==
    ASSUME IInv, CommitUpgrade
    PROVE  IsSound(db') /\ Keeps(db, db') /\ IsModel(db')
BY UpgradedFields DEF IInv, CommitUpgrade, Keeps

\* A database of an older release is sound.
LEMMA LegacyIsSound ==
    ASSUME NEW lacks \in SUBSET Lacking, NEW d \in Legacy(lacks)
    PROVE  IsSound(d)
<1>1. /\ d.columns = (ModelColumns \ (lacks \cup {"searchable_files.consultation_id",
                                                  "searchable_files.meeting_id"}))
                        \cup Before("comments.updated", {"comments.modified"}, lacks)
                        \cup Before("users.abbrev", {"users.tags"}, lacks)
                        \cup Before("users.updated", {"users.modified"}, lacks)
                        \cup IF "parents" \in lacks THEN {"searchable_files.parent"}
                             ELSE {"searchable_files.consultation_id",
                                   "searchable_files.meeting_id"}
      /\ d.tables = (IF "attendance" \in lacks
                     THEN OldTables \cup {"agenda_item_state_preferences"} ELSE ModelTables)
                    \ (IF "preferences" \in lacks THEN {"agenda_item_state_preferences"} ELSE {})
      /\ d.strict \subseteq StrictColumns /\ d.constraints \in {{}, {"one choice"}}
      /\ d.parent \in [Files -> IF "parents" \in lacks THEN Parents \cup {None} ELSE {None}]
      /\ d.consultation \in [Files -> IF "parents" \in lacks THEN {None}
                                      ELSE Consultations \cup {None}]
      /\ d.meeting = [f \in Files |-> None]
      /\ d.invited \in SUBSET (Meetings \X Users) /\ d.attendance \in SUBSET (Meetings \X Users)
      /\ "attendance" \in lacks => d.attendance = {}
      /\ d.comment \in [Comments -> {"none", "text", "notice"}] /\ d.marked = {}
      /\ d.choice = [c \in Choices |-> Unchosen]
      /\ d.authored \in SUBSET Meetings /\ d.events = [m \in Meetings |-> 0]
      /\ d.failed = FALSE
      /\ "comments.deleted" \notin lacks => \A x \in Comments : d.comment[x] # "notice"
  BY DEF Legacy
<1>2. d \in Databases
  <2>1. d = [columns |-> d.columns, tables |-> d.tables, strict |-> d.strict,
             constraints |-> d.constraints,
             parent |-> d.parent, consultation |-> d.consultation, meeting |-> d.meeting,
             invited |-> d.invited, attendance |-> d.attendance, comment |-> d.comment,
             marked |-> d.marked, choice |-> d.choice, authored |-> d.authored,
             events |-> d.events, failed |-> d.failed]
    BY DEF Legacy
  <2>2. d.columns \in SUBSET (ModelColumns \cup OldColumns)
    BY <1>1 DEF Before, ModelColumns, OldColumns
  <2>3. d.tables \in SUBSET (ModelTables \cup OldTables)
    BY <1>1 DEF ModelTables, OldTables
  <2>4. d.constraints \in SUBSET {"one parent", "one choice", "users set null"}
    BY <1>1
  <2>5. /\ d.parent \in [Files -> Consultations \cup Meetings \cup {None}]
        /\ d.consultation \in [Files -> Consultations \cup {None}]
        /\ d.meeting \in [Files -> Meetings \cup {None}]
    BY <1>1 DEF Parents
  <2>6. d.choice \in [Choices -> [item: Items \cup {None}, state: States]]
    <3>1. Unchosen \in [item: Items \cup {None}, state: States]
      BY DEF Unchosen, States
    <3>2. d.choice = [c \in Choices |-> Unchosen]
      BY <1>1
    <3> QED BY <3>1, <3>2
  <2>7. d.events \in [Meetings -> Nat] /\ d.marked \in SUBSET Comments /\ d.failed \in BOOLEAN
    <3>1. d.events = [m \in Meetings |-> 0] /\ d.marked = {} /\ d.failed = FALSE
      BY <1>1
    <3>2. 0 \in Nat
      OBVIOUS
    <3> QED BY <3>1, <3>2
  <2> QED BY <1>1, <2>1, <2>2, <2>3, <2>4, <2>5, <2>6, <2>7 DEF Databases
<1>3. OneChoice(d)
  <2>1. \A i \in Items : RowsOf(d, i) = {}
    <3>1. d.choice = [c \in Choices |-> Unchosen]
      BY <1>1
    <3>2. \A c \in Choices : d.choice[c].item = None
      BY <3>1 DEF Unchosen
    <3> QED BY <3>2, NoneIsNoItem DEF RowsOf
  <2> QED BY <2>1 DEF OneChoice, HasTwo
<1>4. Has(d, "searchable_files.parent") <=> "parents" \in lacks
  BY <1>1 DEF Has, Before, ModelColumns
<1>5. ParentsOK(d)
  BY ZenonT(30), <1>1, <1>4 DEF ParentsOK
<1>6. ConstraintsOK(d)
  BY <1>1, <1>3 DEF ConstraintsOK
<1>7. InvitationsOK(d)
  BY <1>1 DEF InvitationsOK, ModelTables, OldTables
<1>8. Has(d, "comments.deleted") <=> "comments.deleted" \notin lacks
  BY <1>1 DEF Has, Before, ModelColumns
<1>9. CommentsOK(d)
  BY <1>1, <1>8 DEF CommentsOK
<1>10. NamesOK(d)
  BY <1>1 DEF NamesOK, Has, Before
<1> QED
  BY <1>1, <1>2, <1>5, <1>6, <1>7, <1>9, <1>10 DEF IsSound

-----------------------------------------------------------------------------
(* The theorems *)

\* The initial states are sound, and no step leaves the sound ones.
LEMMA InitInv == Init => IInv
<1> SUFFICES ASSUME Init
             PROVE  IInv
  OBVIOUS
<1>1. IsSound(db)
  BY LegacyIsSound DEF Init
<1>2. upgrading = FALSE /\ upgrades = 0
  BY DEF Init
<1>3. upgrades \in 0 .. MaxUpgrades
  BY <1>2, UpgradesAssumption
<1>4. UpgradedSchema
  <2>1. ~(0 > 0)
    OBVIOUS
  <2> QED BY <1>2, <2>1, Zenon DEF UpgradedSchema
<1>5. db.strict = strictOnce
  BY DEF Init
<1>6. strictOnce \subseteq StrictColumns
  BY <1>1, <1>5 DEF IsSound, Databases
<1> QED
  BY <1>1, <1>2, <1>3, <1>4, <1>5, <1>6, Zenon DEF IInv

\* A step of Next that is no commit.
LEMMA StaysInv ==
    ASSUME IInv, Goes(db, db'), upgrades' = upgrades, upgrading' \in BOOLEAN,
           strictOnce' = strictOnce,
           upgrading' => ModelTables \subseteq db'.tables /\ upgrades < MaxUpgrades
    PROVE  IInv'
<1>1. UpgradedSchema'
  BY DEF IInv, UpgradedSchema, Goes, Keeps, IsModel
<1> QED
  BY <1>1 DEF IInv, Goes, Keeps

LEMMA NextInv == IInv /\ [Next]_vars => IInv'
<1> SUFFICES ASSUME IInv, [Next]_vars
             PROVE  IInv'
  OBVIOUS
<1>1. CASE StartUpgrade
  <2>1. Goes(db, db') /\ ModelTables \subseteq db'.tables
    BY <1>1, StartStep
  <2> QED BY <1>1, <2>1, StaysInv DEF StartUpgrade
<1>2. CASE CommitUpgrade
  <2>1. IsSound(db') /\ IsModel(db')
    BY <1>2, CommitStep
  <2>2. upgrades' \in 0 .. MaxUpgrades
    BY <1>2, UpgradesAssumption DEF IInv, CommitUpgrade
  <2>3. db'.strict = strictOnce' /\ strictOnce' = strictOnce
    BY <1>2, CommitStep DEF IInv, CommitUpgrade, Keeps
  <2>4. UpgradedSchema'
    BY <2>1, <2>3 DEF UpgradedSchema, IsModel
  <2> QED BY <1>2, <2>1, <2>2, <2>3, <2>4 DEF IInv, CommitUpgrade
<1>3. CASE AbortUpgrade
  BY <1>3 DEF IInv, AbortUpgrade, UpgradedSchema, OneParent, OneChoice, HasTwo, RowsOf
<1>4. CASE Cleanup
  <2>1. Goes(db, db') /\ upgrading' = FALSE /\ upgrades' = upgrades
         /\ strictOnce' = strictOnce
    BY <1>4, CleanupStep DEF Cleanup, IInv
  <2> QED BY <2>1, StaysInv
<1>5. ASSUME NEW i \in Items, NEW s \in States, Choose(i, s)
      PROVE  IInv'
  <2>1. Goes(db, db') /\ upgrading' = FALSE /\ upgrades' = upgrades
         /\ strictOnce' = strictOnce
    BY <1>5, ChooseStep DEF Choose, CanChoose, IInv
  <2> QED BY <2>1, StaysInv
<1>6. ASSUME NEW i \in Items, NEW s \in States, NEW t \in States, ChooseTwice(i, s, t)
      PROVE  IInv'
  <2>1. Goes(db, db') /\ upgrading' = FALSE /\ upgrades' = upgrades
         /\ strictOnce' = strictOnce
    BY <1>6, ChooseTwiceStep DEF ChooseTwice, CanChoose, IInv
  <2> QED BY <2>1, StaysInv
<1>7. ASSUME NEW s \in States, ChooseAll(s)
      PROVE  IInv'
  <2>1. Goes(db, db') /\ upgrading' = FALSE /\ upgrades' = upgrades
         /\ strictOnce' = strictOnce
    BY <1>7, ChooseAllStep DEF ChooseAll, CanChoose, IInv
  <2> QED BY <2>1, StaysInv
<1>8. CASE UNCHANGED vars
  BY <1>8 DEF IInv, vars, UpgradedSchema, OneParent, OneChoice, HasTwo, RowsOf
<1> QED
  BY <1>1, <1>2, <1>3, <1>4, <1>5, <1>6, <1>7, <1>8 DEF Next

LEMMA Invariance == Spec => []IInv
BY InitInv, NextInv, PTL DEF Spec

\* The database holds values of its columns, and the failed flag of a transaction is
\* never committed.
THEOREM TypeCorrect == Spec => []TypeOK
<1>1. IInv => TypeOK
  BY DEF IInv, IsSound, TypeOK
<1> QED
  BY <1>1, Invariance, PTL

\* From whatever release it starts, one committed upgrade leaves the columns and tables
\* of the models and the constraints its steps make, and nothing that users or the cleanup
\* do afterwards takes them away; the columns that the models define more strictly are
\* as strict as they were in that release.
THEOREM UpgradeReachesSchema == Spec => []UpgradedSchema
<1>1. IInv => UpgradedSchema
  BY DEF IInv
<1> QED
  BY <1>1, Invariance, PTL

\* upgrade() fails exactly for the rows of IsBlocked, whatever was upgraded before.
THEOREM UpgradeFailsForRowsOnly == Spec => []UpgradeGoesThrough
<1>1. IInv => UpgradeGoesThrough
  <2> SUFFICES ASSUME IInv
               PROVE  UpgradeGoesThrough
    OBVIOUS
  <2> DEFINE d == WithTables(db)
  <2>1. IsSound(d) /\ ModelTables \subseteq d.tables /\ (IsBlocked(d) <=> IsBlocked(db))
    BY WithTablesFields DEF IInv
  <2> HIDE DEF d
  <2>2. Upgraded(d).failed <=> IsBlocked(d)
    BY <2>1, UpgradedFields
  <2> QED BY <2>1, <2>2 DEF UpgradeGoesThrough, d
<1> QED
  BY <1>1, Invariance, PTL

\* No step of the upgrade, of the cleanup or of the users takes a file from its document
\* or a guest from a meeting.
THEOREM UpgradeLosesNothing == Spec => NothingLost
<1>1. IInv /\ [Next]_vars => [LosesNothing]_vars
  <2> SUFFICES ASSUME IInv, Next
               PROVE  LosesNothing
    BY DEF vars
  <2>1. Keeps(db, db') => LosesNothing
    BY DEF Keeps, SameGuests, LosesNothing
  <2>2. CASE StartUpgrade
    BY <2>1, <2>2, StartStep DEF Goes
  <2>3. CASE CommitUpgrade
    BY <2>1, <2>3, CommitStep
  <2>4. CASE AbortUpgrade
    BY <2>4 DEF AbortUpgrade, LosesNothing, ParentOf
  <2>5. CASE Cleanup
    BY <2>1, <2>5, CleanupStep DEF Goes
  <2>6. ASSUME NEW i \in Items, NEW s \in States, Choose(i, s)
        PROVE  LosesNothing
    BY <2>1, <2>6, ChooseStep DEF Goes
  <2>7. ASSUME NEW i \in Items, NEW s \in States, NEW t \in States, ChooseTwice(i, s, t)
        PROVE  LosesNothing
    BY <2>1, <2>7, ChooseTwiceStep DEF Goes
  <2>8. ASSUME NEW s \in States, ChooseAll(s)
        PROVE  LosesNothing
    BY <2>1, <2>8, ChooseAllStep DEF Goes
  <2> QED BY <2>2, <2>3, <2>4, <2>5, <2>6, <2>7, <2>8 DEF Next
<1> QED
  BY <1>1, Invariance, PTL DEF Spec, NothingLost

\* The cleanup leaves of each item a row with a state that the user chose, and no other
\* row that could make the page fail.
THEOREM CleanupLeavesAChoice == Spec => CleanupKeepsAChoice
<1>1. IInv /\ [Next]_vars => [KeepsAChoice]_vars
  <2> SUFFICES ASSUME IInv, Cleanup, NEW i \in Items, RowsOf(db, i) # {}
               PROVE  Shown(db', i) \in {db.choice[c].state : c \in RowsOf(db, i)}
    BY DEF KeepsAChoice
  <2>1. /\ RowsOf(db', i) \subseteq RowsOf(db, i) /\ RowsOf(db', i) # {} /\ ~HasTwo(db', i)
        /\ \A c \in RowsOf(db', i) : db'.choice[c] = db.choice[c]
    BY CleanupStep DEF OneChoice
  <2> DEFINE row == CHOOSE c \in RowsOf(db', i) : TRUE
  <2>2. row \in RowsOf(db', i)
    BY <2>1
  <2>3. Shown(db', i) = db'.choice[row].state
    BY <2>1 DEF Shown
  <2> HIDE DEF row
  <2> QED BY <2>1, <2>2, <2>3
<1> QED
  BY <1>1, Invariance, PTL DEF Spec, CleanupKeepsAChoice
=============================================================================
