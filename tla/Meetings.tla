----------------------------------- MODULE Meetings -----------------------------------
(* Meetings of the working groups, who attends them, their files and the trail   *)
(* of their edits:                                                              *)
(*   models/meeting.py, models/association_tables.py    the tables              *)
(*   views/meetings.py, forms/meeting_form.py           the requests            *)
(*   forms/fields/fields.py                             the list of uploads     *)
(* An edit is sent from a page that may be out of date by then.                 *)
EXTENDS WorkingGroups, SequencesExt

CONSTANTS
    Meetings,   \* ids of meetings, which are not used again
    Files,      \* ids of files, which are not used again
    Names,      \* of files, by which the trail calls them: not unique
    Times,      \* when a meeting can be; the name is edited like the attendance
    Statuses,   \* of an attendance: invited, attended
    MaxFiles    \* bound: files of a meeting

ASSUME MeetingsAssumption ==
    /\ None \notin Meetings \cup Files \cup Names /\ MaxFiles \in Nat
    /\ {"keep", "delete"} \cap Files = {}
    /\ "invited" \in Statuses /\ "no" \notin Statuses

VARIABLES
    meeting,    \* [Meetings -> MeetingRows]
    filename,   \* [Files -> Names \cup {None}]: of files that were uploaded
    page,       \* [Clients -> Pages]: the edit page a browser shows
    stale       \* history: SUBSET Meetings: saved from a page that did not show
                \* the files of that time

vars == <<account, group, req, meeting, filename, page, stale>>

Attendance == [Users -> {"no"} \cup Statuses]

\* MeetingEditEvent: added_files and removed_files are lists, so that a name may be
\* in one as often as there were files of it.
Events == [type: {"creation", "update", "file_update"}, added: [Names -> Nat],
           removed: [Names -> Nat]]

MeetingRows == [state: States, group: Groups \cup {None}, time: Times, attendance: Attendance,
                files: Seq(Files), trail: Seq(Events)]

Pages == [meeting: Meetings \cup {None}, listed: SUBSET Users, files: Seq(Files)]

NoPage == [meeting |-> None, listed |-> {}, files |-> <<>>]

\* user and group: what is deleted, or the group of a new meeting; meeting and
\* attendance: the row to insert; meetings, groups, members: what a deletion read.
Requests == [op: {"none", "deleteUser", "deleteGroup", "addMeeting"},
             user: Users \cup {None}, group: Groups \cup {None},
             meeting: Meetings \cup {None}, attendance: Attendance,
             files: Seq(Files), meetings: SUBSET Meetings, groups: SUBSET Groups,
             members: SUBSET Users]

Nobody == [u \in Users |-> "no"]

NoRequest == [op |-> "none", user |-> None, group |-> None, meeting |-> None,
              attendance |-> Nobody, files |-> <<>>, meetings |-> {}, groups |-> {},
              members |-> {}]

MeetingsThere == {m \in Meetings : meeting[m].state = "there"}

MeetingsOf(g) == {m \in MeetingsThere : meeting[m].group = g}

Attendees(m) == {u \in Users : meeting[m].attendance[u] # "no"}

Attends(u) == {m \in MeetingsThere : u \in Attendees(m)}

\* Files of a new upload.
FreshFiles == {f \in Files : filename[f] = None}

\* SearchableFile(filename=...): new files with the names that their users gave them.
Upload(names) ==
    filename' = [f \in Files |-> IF f \in DOMAIN names THEN names[f] ELSE filename[f]]

\* The list of the names of files: how often each is in it.
NamesOf(files, names) == [n \in Names |-> Cardinality({f \in files : names[f] = n})]

\* A browser tab without a page to edit, whose last request was answered.
IsFree(c) == req[c].op = "none" /\ page[c] = NoPage

EndRequest(c) == req' = [req EXCEPT ![c] = NoRequest]

-----------------------------------------------------------------------------
(* add_meeting_view *)

\* The users of the group attend, and the guests that were chosen, but not those
\* whose box "remove" is checked.
StartAddMeeting(c, m, g, attendance, files, names) ==
    /\ IsFree(c)
    /\ g \in GroupsThere
    /\ meeting[m].state = "new" /\ \A d \in Clients : req[d].meeting # m
    /\ \A u \in Users \ There : attendance[u] = "no"
    /\ req' = [req EXCEPT ![c] = [NoRequest EXCEPT !.op = "addMeeting", !.group = g,
                                     !.meeting = m, !.attendance = attendance, !.files = files]]
    /\ Upload(names)
    /\ UNCHANGED <<account, group, meeting, page, stale>>

\* The rows the new meeting refers to are still there.
CanAdd(c) ==
    /\ req[c].group \in GroupsThere
    /\ \A u \in Users \ There : req[c].attendance[u] = "no"

AddMeeting(c, t) ==
    /\ req[c].op = "addMeeting" /\ CanAdd(c)
    /\ meeting' = [meeting EXCEPT ![req[c].meeting] =
                     [state |-> "there", group |-> req[c].group, time |-> t,
                      attendance |-> req[c].attendance, files |-> req[c].files,
                      trail |-> <<[type |-> "creation",
                                   added |-> NamesOf(Range(req[c].files), filename),
                                   removed |-> NamesOf({}, filename)]>>]]
    /\ EndRequest(c)
    /\ UNCHANGED <<account, group, filename, page, stale>>

-----------------------------------------------------------------------------
(* edit_meeting_view *)

ShowEdit(c, m) ==
    /\ IsFree(c)
    /\ m \in MeetingsThere
    /\ page' = [page EXCEPT ![c] = [meeting |-> m, listed |-> Attendees(m),
                                    files |-> meeting[m].files]]
    /\ UNCHANGED <<account, group, req, meeting, filename, stale>>

\* get_guest_and_removed_users: whom the form offers at the time it is sent.
Addable(m) ==
    LET members == group[meeting[m].group].members
        removed == {u \in There \cap members : u \notin Attendees(m)}
        guests == {u \in There \ members : u \notin Attendees(m)}
    IN  guests \cup removed

\* sync_meeting_attendance_records: all records are replaced by those of the
\* listed users, as the form says, and of the added ones.
Synced(listed, marks, added) ==
    [u \in Users |->
        IF u \in There \cap listed THEN marks[u]
        ELSE IF u \in There \cap added THEN "invited" ELSE "no"]

\* A defect for comparison: any entry that keeps no file counts as an upload.
PopulatedByAny(entries, files) ==
    FlattenSeq([i \in 1 .. Len(entries) |->
                  IF entries[i] # "keep" THEN <<entries[i]>>
                  ELSE IF i <= Len(files) THEN <<files[i]>> ELSE <<>>])

\* UploadMultipleFilesWithORMSupport.populate_obj pairs the entries of the form
\* with the files of the meeting by index: "keep", "delete", or a new file.
\* Files past the last entry are left out.
Populated(entries, files) ==
    LET outcome == [i \in 1 .. Len(entries) |->
                      IF entries[i] = "keep" THEN IF i <= Len(files) THEN <<files[i]>> ELSE <<>>
                      ELSE IF entries[i] = "delete" THEN <<>>
                      ELSE <<entries[i]>>]
    IN  FlattenSeq(outcome)

\* A defect for comparison: entries that replace a file are left out.
RemovedFilesDeletedOnly(shown, files) ==
    {files[i] : i \in {i \in 1 .. Len(files) : i <= Len(shown) /\ shown[i] = "delete"}}

\* removed_files: those files of the meeting whose entry deletes or replaces them.
\* The entries of files that were on the page have one of them as object_data, the
\* entries that are appended for uploads have none.
RemovedFiles(shown, files) ==
    {files[i] : i \in {i \in 1 .. Len(files) : i <= Len(shown) /\ shown[i] # "keep"}}

\* added_files, which populate_obj leaves.
AddedFiles(entries) == Range(entries) \ {"keep", "delete"}

\* track_changes: the new records have no user_id before the flush, so any
\* attendance, before or after, counts as a change.
TracksChanges(before, after, timeChanged) ==
    timeChanged \/ before # Nobody \/ after # Nobody

\* An event is written only if files were added or removed.
TrailAfter(trail, changes, added, removed, names) ==
    IF added = {} /\ removed = {} THEN trail
    ELSE Append(trail, [type |-> IF changes THEN "update" ELSE "file_update",
                        added |-> NamesOf(added, names), removed |-> NamesOf(removed, names)])

\* The JSON column cannot take the two times of a changed time: such an edit
\* fails if it also changes files.
CanSerialize(timeChanged, added, removed) == ~timeChanged \/ (added = {} /\ removed = {})

LeaveEdit(c) ==
    /\ page[c] # NoPage
    /\ page' = [page EXCEPT ![c] = NoPage]
    /\ UNCHANGED <<account, group, req, meeting, filename, stale>>

\* shown are the entries of the files on the page, appended those of new uploads.
SaveEdit(c, t, marks, added, shown, appended, names) ==
    LET m == page[c].meeting
        row == meeting[m]
        attendance == Synced(page[c].listed, marks, added)
        new == AddedFiles(shown \o appended)
        removed == RemovedFiles(shown, row.files)
        changes == TracksChanges(row.attendance, attendance, t # row.time)
    IN  /\ m \in MeetingsThere
        /\ added \subseteq Addable(m)
        /\ CanSerialize(t # row.time, new, removed)
        /\ Upload(names)
        /\ meeting' = [meeting EXCEPT ![m] =
                         [row EXCEPT !.time = t, !.attendance = attendance,
                                     !.files = Populated(shown \o appended, row.files),
                                     !.trail = TrailAfter(row.trail, changes, new, removed,
                                                          filename')]]
        /\ stale' = IF page[c].files = row.files THEN stale ELSE stale \cup {m}
        /\ page' = [page EXCEPT ![c] = NoPage]
        /\ UNCHANGED <<account, group, req>>

\* delete_meeting_view: records, files and events go with the meeting.
Without(ms) ==
    [m \in Meetings |-> IF m \in ms THEN [state |-> "gone", group |-> None,
                                          time |-> meeting[m].time, attendance |-> Nobody,
                                          files |-> <<>>, trail |-> <<>>]
                        ELSE meeting[m]]

DeleteMeeting(m) ==
    /\ m \in MeetingsThere
    /\ meeting' = Without({m})
    /\ UNCHANGED <<account, group, req, filename, page, stale>>

-----------------------------------------------------------------------------
(* Deleting users and groups *)

\* delete_user_view: the session reads the records and groups of the user.
StartDeleteUser(c, u) ==
    /\ IsFree(c)
    /\ u \in There
    /\ req' = [req EXCEPT ![c] = [NoRequest EXCEPT !.op = "deleteUser", !.user = u,
                                     !.meetings = Attends(u), !.groups = MemberOf(u)]]
    /\ UNCHANGED <<account, group, meeting, filename, page, stale>>

\* A defect for comparison: records that were not read do not matter.
CanDeleteUserAnyway(c) == req[c].groups \subseteq MemberOf(req[c].user)

\* A record that was not read would lose its primary key, and a membership that
\* was read must still be there.
CanDeleteUser(c) ==
    /\ Attends(req[c].user) \subseteq req[c].meetings
    /\ req[c].groups \subseteq MemberOf(req[c].user)

DeleteUser(c) ==
    LET u == req[c].user
    IN  /\ req[c].op = "deleteUser" /\ CanDeleteUser(c)
        /\ account' = [account EXCEPT ![u] = "gone"]
        /\ group' = WithoutUser(u)
        /\ meeting' = [m \in Meetings |->
                         IF m \in req[c].meetings
                         THEN [meeting[m] EXCEPT !.attendance[u] = "no"] ELSE meeting[m]]
        /\ EndRequest(c)
        /\ UNCHANGED <<filename, page, stale>>

\* ~meetings_exist.
HasNoMeetings(g) == g \in GroupsThere /\ MeetingsOf(g) = {}

\* delete_working_group_view: the group has no meetings when this is asked.
StartDeleteGroup(c, g) ==
    /\ IsFree(c)
    /\ HasNoMeetings(g)
    /\ req' = [req EXCEPT ![c] = [NoRequest EXCEPT !.op = "deleteGroup", !.group = g,
                                     !.members = group[g].members]]
    /\ UNCHANGED <<account, group, meeting, filename, page, stale>>

\* The members that were read are the members, so that no association is left.
CanDeleteGroup(c) ==
    /\ req[c].group \in GroupsThere
    /\ group[req[c].group].members = req[c].members

\* The meetings are read again, for the cascade: those added by now go along.
DeleteGroup(c) ==
    LET g == req[c].group
    IN  /\ req[c].op = "deleteGroup" /\ CanDeleteGroup(c)
        /\ group' = [group EXCEPT ![g] = [NewGroup EXCEPT !.state = "gone"]]
        /\ meeting' = Without(MeetingsOf(g))
        /\ EndRequest(c)
        /\ UNCHANGED <<account, filename, page, stale>>

\* A request that finds its rows changed is aborted.
Abort(c) ==
    /\ \/ req[c].op = "addMeeting" /\ ~CanAdd(c)
       \/ req[c].op = "deleteUser" /\ ~CanDeleteUser(c)
       \/ req[c].op = "deleteGroup" /\ ~CanDeleteGroup(c)
    /\ EndRequest(c)
    /\ UNCHANGED <<account, group, meeting, filename, page, stale>>

-----------------------------------------------------------------------------

Init ==
    /\ GroupInit
    /\ req = [c \in Clients |-> NoRequest]
    /\ \E t \in Times :
          meeting = [m \in Meetings |-> [state |-> "new", group |-> None, time |-> t,
                                         attendance |-> Nobody, files |-> <<>>, trail |-> <<>>]]
    /\ filename = [f \in Files |-> None]
    /\ page = [c \in Clients |-> NoPage]
    /\ stale = {}

Uploads == {<<>>} \cup {<<f>> : f \in FreshFiles}

\* The entries of a form for n files that were shown, and at most one upload more.
Entries(n) ==
    {e \in [shown: [1 .. n -> {"keep", "delete"} \cup FreshFiles], appended: Uploads] :
        LET all == e.shown \o e.appended
        IN  /\ \A i, j \in 1 .. Len(all) : all[i] \in FreshFiles /\ all[i] = all[j] => i = j
            /\ Len(SelectSeq(all, LAMBDA x : x # "delete")) <= MaxFiles}

Next ==
    \/ GroupStep /\ UNCHANGED <<meeting, filename, page, stale>>
    \/ \E c \in Clients :
          \/ \E m \in Meetings, g \in Groups, attendance \in Attendance, files \in Uploads :
                \E names \in [Range(files) -> Names] :
                    StartAddMeeting(c, m, g, attendance, files, names)
          \/ \E t \in Times : AddMeeting(c, t)
          \/ \E m \in Meetings : ShowEdit(c, m)
          \/ \E t \in Times, marks \in [page[c].listed -> {"no"} \cup Statuses],
                added \in SUBSET There, e \in Entries(Len(page[c].files)) :
                \E names \in [AddedFiles(e.shown \o e.appended) -> Names] :
                    SaveEdit(c, t, marks, added, e.shown, e.appended, names)
          \/ \E u \in Users : StartDeleteUser(c, u)
          \/ \E g \in Groups : StartDeleteGroup(c, g)
          \/ LeaveEdit(c) \/ DeleteUser(c) \/ DeleteGroup(c) \/ Abort(c)
    \/ \E m \in Meetings : DeleteMeeting(m)

Spec == Init /\ [][Next]_vars

-----------------------------------------------------------------------------
(* Properties *)

TypeOK ==
    /\ GroupTypeOK
    /\ meeting \in [Meetings -> MeetingRows]
    /\ filename \in [Files -> Names \cup {None}]
    /\ page \in [Clients -> Pages]
    /\ stale \subseteq Meetings
    /\ req \in [Clients -> Requests]

\* No row names a row that is gone: attendance, membership, leadership and the
\* group of a meeting, however deletions overlap with what is added meanwhile.
ReferencesLive ==
    /\ \A m \in MeetingsThere : Attendees(m) \subseteq There /\ meeting[m].group \in GroupsThere
    /\ \A g \in GroupsThere :
          group[g].members \cup ({group[g].leader, group[g].chairman} \ {None}) \subseteq There

\* What the events of a trail make of the number of files with a name.
Stock(trail, n) ==
    LET stock[i \in 0 .. Len(trail)] ==
            IF i = 0 THEN 0 ELSE (stock[i - 1] + trail[i].added[n]) - trail[i].removed[n]
    IN  stock[Len(trail)]

\* Of each name, a meeting has no more files than the events of its trail add up to,
\* whatever pages it was saved from: the trail knows of every file that is there.
\* And it has exactly as many, unless it was saved from a page that did not show the
\* files of that time: then a file may be gone that no event names.
FilesFromTrail ==
    \A m \in MeetingsThere, n \in Names :
        LET files == NamesOf(Range(meeting[m].files), filename)[n]
        IN  /\ files <= Stock(meeting[m].trail, n)
            /\ m \notin stale => files = Stock(meeting[m].trail, n)

\* "Dedicated audit trail for meeting modifications": a request that changes when
\* a meeting is or who attends it adds an event.
EveryChangeInTrail ==
    [][\A m \in MeetingsThere :
         LET changed == meeting[m].time # meeting'[m].time
                        \/ meeting[m].attendance # meeting'[m].attendance
         IN  meeting'[m].state = "there" /\ account' = account /\ changed
             => Len(meeting'[m].trail) > Len(meeting[m].trail)]_vars
=============================================================================
