# privatim, specified

privatim is a web application (Pyramid, SQLAlchemy, PostgreSQL) in which an association manages its
consultations, working groups and meetings. This directory holds TLA+ models of it, TLC
configurations that check them on small instances, and proofs that TLAPS checks for all instances.
Paths below are relative to `src/src/privatim/`.

## 1. The system

A request is one database transaction: `pyramid_tm` begins it, the view runs, and the transaction is
committed or, on an exception, aborted as a whole. Several worker threads serve requests at the same
time; PostgreSQL runs them at READ COMMITTED and no table has a version column, so nothing notices
that a row changed between being read and being written. Command line jobs use the same models from
processes of their own. SMS leave the database world: they are files in a directory, sent by another
process.

| component | state | operations | what is hard | what makes it correct |
|---|---|---|---|---|
| consultations (`models/consultation.py`, `views/consultations.py`, `views/trash.py`, `cli/apply_data_retention_policy.py`) | a row per version, linked by `replaced_consultation_id`; `is_latest_version`; `deleted`; files on the latest version | add, edit (a new row), soft delete, restore, hard delete, resolve an old id | two query filters that propagate to lazy loads; cascades; overlapping edits; the job that reads and then deletes | chains stay chains; files follow the latest version; old ids resolve; the job deletes what it says |
| their readers (`views/consultations.py`, `views/activities.py`, `views/search.py`, `views/trash.py`, `cli/print_trees.py`) | none | list, page, feed, search, trash, printed trees and their check, deletion by keyword | each has filters of its own, some switched off | they agree on which consultations and files there are |
| SMS delivery (`sms/delivery.py`, `sms/tricks.py`) | a directory of messages, hard links `.sending-` and `.rejected-`, one mtime per inode | list, stat, touch, link, parse, send, remove | processes die or race between any two calls; failed sends; half-copied files; file names that grow | nothing lost, nothing sent twice, everything sent in the end |
| login (`models/tan.py`, `mtan_tool.py`, `views/login.py`, `views/mtan.py`, `sms/datamanager.py`) | tokens, numbers, a session in a cookie, temporary files | enter a password, verify a token, set up a number in two forms or in one, log out | a token is verified, used and expired in steps; an SMS commits with the database; the session is no part of the transaction | a token logs in once; an SMS is sent exactly if its token is stored; two factors; no number without an SMS to it |
| password links (`models/password_change_token.py`, `views/password_*.py`, `views/people.py`) | links | request, mail, expire, use | the mail leaves before the commit; links expire each other | a link changes one password once; the newest one works |
| users and groups (`models/user.py`, `models/group.py`, `views/people.py`, `views/working_groups.py`) | memberships, leader, chairman | add, edit, delete | what a deletion reads, and what is added before it deletes | no row names one that is gone |
| meetings (`models/meeting.py`, `forms/meeting_form.py`, `forms/fields/fields.py`, `models/association_tables.py`) | attendance records, guests, files, edit events | add, edit, delete | pages that are out of date; entries and files matched by index; a trail kept by hand | the trail accounts for the files, of which it knows only the names; no row names one that is gone |
| agenda items (`models/meeting.py`, `views/agenda_items.py`, `views/meetings.py`, `static/js/custom/sortable_custom.js`) | rows with a `position` | create, copy, delete, drag, renumber | positions are read and written by overlapping requests, and name items on old pages | positions are distinct, and a list for whoever looks |
| agenda item preferences (`views/agenda_items.py`, `cli/cleanup_duplicates.py`) | expanded or collapsed per user and item | set one, set all, clean duplicates | two rows where one should be | what is left was chosen |
| upgrades (`__init__.py`, `cli/upgrade.py`) | tables, columns and constraints of some release | a list of steps in one transaction | any release, any rows, run again, failing anywhere | it ends with the columns, tables and constraints of its steps; files keep their documents and meetings their guests |
| mail (`mail/mailer.py`) | a batch | send, send in bulk | batches by size and number; answers by position; calls that fail | what is told of a mail is about that mail |
| profile pictures and general files, sample data, copies of a production system, PDF reports, layout, translation | — | — | — | — |

A request with an SMS is a two-phase commit: `SMSDataManager` sorts before the database, whose vote
is its commit, and its last step is the file move that SMS delivery starts from (`Finish` of `Login`
is `Place` of `SmsDelivery`). What a password link sets is what a login asks for; logged-in users
add and delete users, which takes tokens, links, attendance and memberships along. Meetings belong
to groups. Consultations and meetings own files. The upgrade rewrites the tables of all of them. The
feed and the search read consultations.

## 2. Modules

| module | models |
|---|---|
| `ConsultationRecords` | the promise: documents that are absent, live or in the trash, with a number of revisions and files |
| `Consultations` | the tables, and each request as two reads and one write; the purge job |
| `ConsultationPages` | what pages, feed, search and the command line read of these tables |
| `MCConsultations`, `Consultations_proofs`, `ConsultationPages_proofs` | symmetry for TLC; proofs |
| `SmsDelivery` | the directory and its processes, one file system call per step |
| `MCSmsDelivery`, `SmsDelivery_proofs` | for TLC; proofs |
| `AgendaOrder` | the promise: a list one appends to, takes from, and drags in |
| `Agenda` | the rows of one meeting, the pages, and each request as a read and a write |
| `MCAgenda`, `Agenda_proofs` | symmetry for TLC; proofs |
| `UserAccounts` | users, browsers, sessions, and the course of a request |
| `Login` | passwords, tokens and the two-phase commit of an SMS |
| `PasswordLinks` | links by mail: asked for, mailed, committed, used |
| `Accounts` | `Login` and `PasswordLinks` on the same users, and their deletion |
| `MCAccounts`, `Accounts_proofs` | symmetry and a bound for TLC; proofs |
| `WorkingGroups` | users, members, leaders and chairmen |
| `Meetings` | meetings, attendance, files and trail on top of `WorkingGroups`; deletions in two steps |
| `MCMeetings`, `Meetings_proofs` | symmetry and a bound for TLC; proofs |
| `Upgrades` | databases of older releases, the steps of the upgrade, preferences and their cleanup |
| `MCUpgrades`, `Upgrades_proofs` | symmetry for TLC; proofs |
| `Mail`, `Mail_proofs` | the loop over the mails of a call, and its posts; proofs |

Operators whose comment begins "A defect for comparison" are no part of a model: each is a plausible
mistake in the definition that follows it, and a checked property is violated when it takes that
definition's place.

### Consultations

`exists`, `latest`, `deleted`, `replacedBy`, `fileOf` and `fileDeleted` are the columns of the two
tables; `created` orders the rows in time; `req` is what each transaction holds. `LoadContext` is
the route factory (or the restore view's query), `ReadFiles` the lazy load of `files`, and
`SaveEdit`, `SaveToggle`, `ShowForm` and `Abort` are how the request ends. A flush writes by primary
key: a row that is gone is a `StaleDataError` (`Abort`), any other change since the read goes
unnoticed. `ScanTrash`, `FollowChains` and `Purge` are the query, the walk over `previous_version`
and the two bulk deletes of `hard_delete`, with the foreign key's cascade.

The filters of `orm/session.py` decide what a request sees. They are added to each query and
propagate to the lazy loads of what it returned: so restoring or deleting a latest version loads no
previous version, and `get_latest_version` runs along `replaced_by` with the soft delete filter of
the query that found the first row (`VisibleSuccessor`, `LastVisible`).

### ConsultationPages

Pure operators over the tables of `Consultations`: each is a query with the filters that are on for
it (`Listed`, `TrashListed`, `FeedRows`, `FoundFiles`), or a walk along the version chain (`Chain`,
`Tree`, `Printed`, `HasErrors`). They take the tables as an argument `t` where the command line
changes them: `temp_delete_consultations_by_keyword` leaves tables that no request of the
application leaves (`KeywordDeleted`), and the question is what the check of the trees says of
those. `get_previous_versions` has a `LIMIT`, five for the page and a thousand for the list, and no
order, so that beyond it the database chooses: `PreviousVersions` is the set of what it may return,
`PageLimit` and `ListLimit` are constants.

### SmsDelivery

`dir` is the set of names in the directory; a name is a message and the prefixes before it. All
names of a message are links to one inode, hence `content` and `old` belong to the message. `pc` is
the next file system call of a process, `todo` the rest of its batch or of its watcher's events.
`Start` to `RemoveTmp` are `send_messages` and `_send_message`, call by call; an exception that is
logged and an early return go to the next message. `Place` and `Complete` are the rename or copy by
which a message arrives. A process may die at any step (`Crash`), a send may fail before or after
the gateway has accepted the message (`SendFails`), and a half-copied file may be read (`Parse`).
`trouble` is a history variable: which messages had a `.sending-` link listed or become too old.

### Agenda

`position` is the column; `req` holds the page a user sees, the url a drag asks for, and what the
request has read. `AskMove` names items by the positions on the page, `ReadItems` and `SaveMove` are
`move_agenda_item`, and only rows whose position changed are written. `Create` computes a position
from the committed rows and those of its own transaction (autoflush); `SaveNew` commits them. A move
whose url names no item, or which writes a row that is gone, ends in `MoveFails`. `FixPositions` is
the upgrade step; it runs while no request is served, but pages stay open.

### UserAccounts, Login, PasswordLinks, Accounts

`account`, `passwords` and `number` are columns of `users`; `session` is what each browser's cookie
holds; `req` is the request a browser waits for. A request passes the phases `begun` (it has read),
`prepared` (it has done what cannot be undone by the database: a temporary file, a mail),
`committed`, and its response; `Fail` is an abort before the commit, or an error after it. The
session is saved with the response (`Respond`), so that a request that fails leaves the cookie as it
was even when its transaction was committed.

In `Login`, `EnterPassword` is `login_view` with the right password, in its three branches. `Verify`
and `DifferentNumber` are branches of the mTAN views. The view for the set-up sends a token if the
form has a number and goes on to verify the token of the form, if it has one: `SetupSend` is a form
with a number, `SetupVerify` one with a token for the number in the session, and `SetupBoth` one
with both, which stores the new number for a token that was sent before (`entered` is the token of
the form, `tan` the one that is sent). `Spend` is what is committed with an entered token, by
`CommitVerify` or, together with the new token, by `CommitBoth`. `settings` are what an installation
may have or not: `auth.password_only`, and the `UNIQUE` of `mobile_number`, which a database that
was upgraded lacks. `Prepare`, `CommitToken`, `AbortToken`, `Finish` and `FinishFails` are the calls
of `SMSDataManager` in the order in which the transaction package makes them around the database.
`Crash` may come in any phase of any request. `broken`, `spent`, `shared` and `reused` are history:
which tokens' requests ended by a fault, who logged in with what, which tokens were verified by
requests that overlapped, which were used twice.

In `PasswordLinks`, a request for any user (the form's address is a pattern of `LIKE`, so it need
not be an address that anybody has) reads the links it will expire (`seen`), flushes, sends the mail
(`SendMail`) and commits (`CommitLink`). `UseLink` is opening a link that a mail brought, with the
checks of `consume`; `CommitPassword` writes the password. Ages are steps (`ExpireTan`,
`ExpireLink`).

`Accounts` runs both on one set of users and browsers; `DeleteUser` deletes what the foreign keys
cascade to.

### WorkingGroups, Meetings

The variables are the tables: a user's or group's `state`, a group's `members`, `leader` and
`chairman`, a meeting's `attendance` (one record per user, `"no"` if there is none), its `files` in
order and its `trail` of `MeetingEditEvent`s. Files are rows; `filename` is their column, and two
files may have the same name. An event stores names, so that `added` and `removed` count, for each
name, how many files of that name came and went (`NamesOf`). `page` is the edit page a browser
shows; `SaveEdit` is sent from it at any later time: the attendance is synchronised with the users
that were *listed* (`Synced`), the entries of the upload field are matched by index with the files
that are there *now* (`Populated`), of which those are removed whose entry was shown for a file and
deletes or replaces it, while an entry that was appended for an upload may displace one that nobody
names (`RemovedFiles`), and the trail gets an event only if files changed (`TrailAfter`). An edit
that also changes the time is not possible together with one of the files: the JSON column cannot
take the times (`CanSerialize`). A deletion of a user or group reads what it takes along in one step
and deletes in another; `CanDeleteUser` and `CanDeleteGroup` say which commits in between make its
flush fail.

### Upgrades

`db` is a database as the steps see it: which columns, tables and constraints it has, and the rows
that a step moves or asks about. `strict` are the columns whose definition in the models says more
than the upgrade's: `mobile_number` with its `UNIQUE`, `abbrev` with `NOT NULL` and its width, and
`consultation_id` of files with `ON DELETE CASCADE`. The step that would add the last one with its
cascade (`WithParents`) meets the column that an earlier step has added without
(`FilesOfConsultations`). `Legacy(lacks)` are the databases of a release without some of the later
changes. Each step of `upgrade()` is an operator from database to database; `Upgraded` composes them
in the order of the code. A statement that fails makes the transaction refuse all others (`failed`),
even where the code catches the exception. `StartUpgrade` is `create_all` (committed before the
steps), `CommitUpgrade` the commit, which `upgrade()` makes itself. `Choose`, `ChooseAll` and
`ChooseTwice` are the requests that write display preferences, the last being two that overlap;
`Cleanup` is `cleanup_duplicates`.

### Mail

`mails` are the sizes of the mails of a call, `next` the loop's place in them, `buffer` and `size`
the batch; `full` says that `finish_batch` was called. `Answered`, `Refused`, `Disconnected` and
`ConnectionFails` are what can come of a post: an answer per mail, an error for the batch (in doubt
whether the API took it), a connection error that is caught, and one that is not. `accepted` counts
what the API took.

## 3. What is checked

| run | instance | properties |
|---|---|---|
| `ConsultationsSerial` | 4 versions, 2 files, 1 worker | `TypeOK`, `FilesOnLatest`, `LiveChainResolves`, `FeedTellsHistory`, `ReadersAgree`, `CheckFindsDeadEnds`, `ImplementsRecords` |
| `ConsultationsConcurrent` | 4 versions, 2 workers | `ChainShape`, `OnePredecessor`, `PurgeReportsAll` |
| `SmsDelivery` | 1 message, a script and a watcher, 1 prefix, 2 faults | `TypeOK`, `NoLoss`, `DiscardedIsKept`, `OnceUnlessTrouble` |
| `SmsDeliveryRetry` | 2 messages, 1 script, 2 prefixes, 1 fault | `Delivered` |
| `SmsDeliveryTwice` (violation) | 1 message, 2 scripts, no fault | `SoleSender` |
| `AgendaOneUser` | 5 items, 1 user | `DistinctPositions`, `ImplementsOrder` |
| `AgendaTwoUsers` | 3 items, 2 users | `TypeOK`, `FreshMovesKeepDistinct`, `FreshMovesLand` |
| `Accounts` | 2 users, 2 browsers, 2 numbers, 2 tokens, 2 links, 1 fault | `TypeOK`, `TokenIffSms`, `OneLoginPerToken`, `TwoFactors`, `NumberWasCalled`, `OneChangePerLink`, `NewestLinkWorks`, `LinksAreMailed` |
| `Meetings` | 2 users, 1 group, 2 clients, 1 meeting, 2 files, 2 names | `TypeOK`, `ReferencesLive`, `FilesFromTrail` |
| `MeetingsTrail` (violation) | 2 users, 1 group, 2 clients, 1 meeting, 1 file, 2 times | `EveryChangeInTrail` |
| `Upgrades` | 1 file, 1 consultation, 1 meeting, 1 user, 1 comment, 2 items, 3 preferences, 2 upgrades | `UpgradedSchema`, `UpgradeGoesThrough`, `NothingLost`, `CleanupKeepsAChoice` |
| `Mail` | up to 4 mails of sizes 1, 2, 5, 7, 8; limits 10 (2 and 1 of it around the mails) and 3 | `AnswersAreTrue`, `AssertsHold`, `CallsEnd` |

What they show:

- **One request at a time, the version chains are documents.** `ImplementsRecords` is a refinement:
  the first version of a chain names a document, its revisions are the length of the chain, and its
  files are those of the latest version. An edit adds a revision, trash and restore keep history and
  files, the purge removes whole documents from the trash only. `FeedTellsHistory` and
  `ReadersAgree` say that list, page, trash, feed, search and printed trees show these documents,
  although each asks with filters of its own. The page shows as many old versions as its limit
  allows, no matter which, and the list sorts by the date of the oldest one as long as there are no
  more than *its* limit; `CheckFindsDeadEnds` that a deletion by keyword cascades to nothing it did
  not match, and that the check of the trees finds every version it has cut off.
- **Overlapping requests keep the shape of the tables**, not their meaning. Two edits of one version
  leave two latest rows, a delete or a restore that overlaps an edit leaves files on an old version;
  neither is promised away by any document, so no run refutes it. `ChainShape` and `OnePredecessor`
  say what remains true, and `PurgeReportsAll` that the job's cascade never reaches a row it did not
  collect, whatever commits between its queries and its deletes.
- **A message is never lost**, and it is sent twice only after its link was taken for a message or
  was older than `MAX_SEND_TIME`. Run again and again, the script delivers every valid message.
- **One user's agenda is a list**; with two, a move that no other request overtakes still lands next
  to its target and keeps positions distinct: it takes a real overlap, not just an old page, to put
  two items at one position.
- **A login takes two factors, in this order of events and any other.** A token is stored exactly if
  its SMS is in the queue, except where a process dies or a move fails after the commit
  (`TokenIffSms`). A session without `auth.password_only` has spent a token sent to this very user.
  A token is spent twice only by two requests that verified it while neither had committed. A number
  is stored only if a token was made for an SMS to it, in whatever form it was entered and whatever
  request failed (`NumberWasCalled`). That this token was the one that was entered is not true: a
  form with a number and a token stores the number for a token that went elsewhere. Nor do numbers
  stay distinct where the database does not say so: the form asks before, and two forms ask at the
  same time.
- **A link sets one password once**, again but for requests that overlap; older links stop working
  when a newer one is committed, whatever request expires whom; and no link is committed without its
  mail.
- **Deletions leave nothing dangling**: either a deletion sees what was added meanwhile, or it
  fails. For each name, the trail of a meeting adds up to at least the files of that name, whatever
  pages it was edited on, and to exactly those as long as pages show the files of their time; files
  of the same name included.
- **An upgrade goes through for every database but those with rows of three kinds**, which it names:
  files without a parent, comments without a target, double preferences. It then has the columns and
  tables of the models and the three constraints that the steps make. It does not have all the
  models say of single columns: none is stricter than the older release had it (`UpgradedSchema`).
  Wherever it fails or dies, no file has lost its document and no meeting a guest; other columns
  that it drops are not followed.
- **A bulk of mails tells the truth about each mail**, by position, over refused and lost batches,
  and ends.

Two runs show that the code does not do what one of its own comments or docstrings says: a second
delivery process takes the hard link of the first for a message (`SmsDeliveryTwice`), and edits of
the time or the attendance leave no event in the "audit trail for meeting modifications"
(`MeetingsTrail`).

Further differences between code and text are visible in the models. Three are stated as properties
that no run lists; a configuration with one of them finds it violated: `BookmarkFindsLatest` (a
bookmark of an old version whose latest version is in the trash; 3 versions, 1 file, 1 worker),
`PurgeOnlyTrashed` (a restore that the purge does not notice; 2 versions, 1 file, 2 workers) and
`MovesTheDragged` (a drag on an old page moves another item; 3 items, 2 users). Others are written
at their definitions: the feed that is filtered by dates fails where the other passes over a version
(`FilterFails`, and `FeedTellsHistory` says when); `consume` lets an expired link set a first
password (`CanConsume`); a set-up of a number keeps, in the session, the number of somebody else's
set-up in the same browser, and one form both sends a token to a number and stores it for another
token (`NumberWasCalled`, `SetupBoth`); of more than five old versions the page shows any five
(`PreviousVersions`); an upgraded database lacks a `UNIQUE`, a `NOT NULL` and a cascade of the
models (`StrictColumns`), so that two users may have one number (`CanSpend`); a file that is
displaced by an upload on an old page leaves without an event (`RemovedFiles`); a group takes along
meetings that were added after its deletion began (`DeleteGroup`); `track_changes` takes any
attendance for a change (`TracksChanges`); the errors of `requests` are not those the mailer catches
(`ConnectionFails`); `print_single_consultation` "shows the version history chain" and prints the
oldest version only; the option `--dry` of the upgrade commits (`CommitUpgrade`).

### Bounds

- *Versions, Files, Items, Meetings, Groups, Users, Tans, Links* are ids and are never reused, as
  `uuid4` does not repeat. Four versions hold a chain of four, two documents that are edited, or a
  fork next to a document; five items allow a copy of two, deletions and moves over several places.
  The runs stop when the ids are used up, which is why `CHECK_DEADLOCK FALSE` stands in them: the
  system itself could always go on.
- *Files* is empty in `ConsultationsConcurrent`: its properties are about consultation rows, and no
  guard on those depends on a file except through `Abort`, which `ConsultationsSerial` has files
  for.
- *PageLimit* and *ListLimit* are 1 and 2, for 5 and 1000: with up to three old versions, both sides
  of both limits are reached.
- *clock* counts insertions, so it is bounded by the versions. `ScanTrash` takes any date up to it.
- *MaxPrefixes* stands for the length of a file name: `os.link` fails beyond it. One prefix suffices
  to take a link for a message and to be refused the next one.
- *MaxFaults* bounds, in `SmsDelivery`, deaths of a process, sends that are not confirmed and reads
  of a partial copy together; two reach a crash during the repair of a crash. `Age` is not bounded:
  messages get too old as often as they are touched. In `Accounts` it bounds crashes and failures of
  mail, database and file moves: each property is about one request's fault and what another does
  later.
- *MaxCopy* is the size of the meeting that is copied from. Positions need no bound of their own: a
  move never exceeds the largest position, a creation uses up an id.
- *TwoRows* (`MCAccounts`) allows two rows in all: two tokens, two links, or one of each. Every
  property of `Accounts` relates at most two rows, of one kind; a token and a link together show
  that a link's password and a token make a login. *SettingsApart* leaves out settings that make no
  difference: two links without a token are followed where a password is enough to log in, and a
  database without the `UNIQUE` where two tokens can store one number twice.
- `settings` has a password alone, or tokens with and without the `UNIQUE`, in the initial states of
  `Accounts`.
- *MaxFiles* bounds a meeting's files; two show a replacement next to a file that is kept, and an
  index that has shifted. Two *Names* let two files have the same name or different ones.
  *FilesApart* (`MCMeetings`) separates states with files from those with leaders, chairmen or a
  deletion under way: no guard or value of one reads the other, so that their product would add
  states and no behaviour to a property.
- *Times* and *Statuses* have one value in `Meetings`, whose properties do not mention them, and two
  in `MeetingsTrail`, which is about them.
- *Choices* are three rows of preferences: two for one item and one for another, which `ChooseAll`
  and `Cleanup` must keep apart. *MaxUpgrades* is two: a database is upgraded, used and upgraded
  again.
- *Sizes* of `Mail`: with the limit 10 and what is around the mails, 1 and 5 fill it exactly with
  their comma, 2 and 5 without it, and one byte more or less counts; 7 fills it alone, 8 is too
  large alone, which is when the second assert fails; four mails make two batches by number and up
  to four by size.

Symmetry is used for ids and workers, which no property tells apart, and only in runs without
liveness.

### Fairness

`SmsDelivery` assumes weak fairness of a process's own steps (a process that lives goes on), of
`Start` for the script (cron runs it again and again), and of `Complete` (a copy comes to its end).
It assumes nothing of time (`Age`), of crashes, of failures and of arrivals, and nothing of a
watcher that died: nothing in the repository restarts it. A call that never returns is excluded:
`requests.post` has no timeout. `Delivered` holds with more prefixes than faults.

`Mail` assumes weak fairness of the call as a whole: it is a loop, and its posts have a timeout of
ten seconds, after which one of the failures is the outcome. It assumes nothing of which outcome.

The other modules have safety properties only. A user may stop at any point.

## 4. What is proved

Every invariant and every action property that a passing run checks is a theorem of its
specification, for all values of the constants; so is one of the two refinements. Every module's
named assumptions are about the constants' types and bounds. Three further hypotheses are stated
where they are used: `OneWorker` and `OneUser`, which say that requests do not overlap, for
properties that are false if they do; and that the set of ids of agenda items is finite.

| theorem | says |
|---|---|
| `Consultations_proofs!TypeCorrect` | `Spec => []TypeOK` |
| `Consultations_proofs!ChainsKeepShape` | `Spec => []ChainShape` |
| `Consultations_proofs!ChainsDoNotJoin` | `Spec => []OnePredecessor` |
| `Consultations_proofs!PurgeReports` | `Spec => PurgeReportsAll` |
| `Consultations_proofs!FilesFollow` | `Spec => []FilesOnLatest` for one worker |
| `Consultations_proofs!BookmarksResolve` | `Spec => []LiveChainResolves` for one worker |
| `Consultations_proofs!TablesImplementRecords` | `Spec => ImplementsRecords` for one worker |
| `ConsultationPages_proofs!ReadersDoAgree` | `Spec => []ReadersAgree` for one worker |
| `ConsultationPages_proofs!FeedIsHistory` | `Spec => []FeedTellsHistory` for one worker |
| `ConsultationPages_proofs!DeadEndsAreFound` | `Spec => []CheckFindsDeadEnds` for one worker |
| `SmsDelivery_proofs!TypeCorrect` | `Spec => []TypeOK` |
| `SmsDelivery_proofs!NothingIsLost` | `Spec => []NoLoss` |
| `SmsDelivery_proofs!NothingDiscardedIsLost` | `Spec => []DiscardedIsKept` |
| `SmsDelivery_proofs!SentOnce` | `Spec => []OnceUnlessTrouble` |
| `Agenda_proofs!TypeCorrect` | `Spec => []TypeOK` |
| `Agenda_proofs!FreshMoves` | `Spec => FreshMovesKeepDistinct` |
| `Agenda_proofs!FreshMovesReachTarget` | `Spec => FreshMovesLand` |
| `Agenda_proofs!PositionsStayDistinct` | `Spec => []DistinctPositions` for one user |
| `Accounts_proofs!TypeCorrect` | `Spec => []TypeOK` |
| `Accounts_proofs!TokenAndSmsTogether` | `Spec => []TokenIffSms` |
| `Accounts_proofs!TokenLogsInOnce` | `Spec => []OneLoginPerToken` |
| `Accounts_proofs!LoginTakesTwoFactors` | `Spec => []TwoFactors` |
| `Accounts_proofs!StoredNumberWasCalled` | `Spec => []NumberWasCalled` |
| `Accounts_proofs!LinkChangesOnce` | `Spec => []OneChangePerLink` |
| `Accounts_proofs!OvertakenLinkFails` | `Spec => []NewestLinkWorks` |
| `Accounts_proofs!StoredLinkWasMailed` | `Spec => []LinksAreMailed` |
| `Meetings_proofs!TypeCorrect` | `Spec => []TypeOK` |
| `Meetings_proofs!NoReferenceDangles` | `Spec => []ReferencesLive` |
| `Meetings_proofs!TrailTellsFiles` | `Spec => []FilesFromTrail` |
| `Upgrades_proofs!TypeCorrect` | `Spec => []TypeOK` |
| `Upgrades_proofs!UpgradeReachesSchema` | `Spec => []UpgradedSchema` |
| `Upgrades_proofs!UpgradeFailsForRowsOnly` | `Spec => []UpgradeGoesThrough` |
| `Upgrades_proofs!UpgradeLosesNothing` | `Spec => NothingLost` |
| `Upgrades_proofs!CleanupLeavesAChoice` | `Spec => CleanupKeepsAChoice` |
| `Mail_proofs!AnswersMatchMails` | `Spec => []AnswersAreTrue` |
| `Mail_proofs!AssertsOnlyForGiants` | `Spec => []AssertsHold` |

**Consultations, overlapping requests**, for any sets of versions, files and workers, from
`NoVersionAssumption` alone. The chain properties are not inductive: `SaveEdit` writes `replacedBy`
of a version it read earlier, and a purge removes what it collected earlier. `IInv` adds what a
transaction may rely on: `CreatedOK`, by which ids in use have a time up to the clock and unused
ones no columns, and `RequestsOK`, by which a request names only ids that were inserted, and a purge
that has followed the chains holds every predecessor of every row it holds. The last stays true
because an edit gives a predecessor only to the row it inserts, which no request can have collected.
That a purge deletes exactly what it reports follows: `CascadeOf` of a set closed under predecessors
is the set itself (`HistoryOfClosed`). `WithHistory` is defined as a least closed set, not by
recursion; TLC evaluates the same definition.

**Consultations, one request at a time.** `FInv` adds to `IInv` that what a request has read is
still so (`ReadIsCurrent`) and that rows never inserted carry no file (`UnusedOK`); from it,
`FilesOnLatest` is inductive. `ChainEnd`, `LastVisible` and `Chain` are recursive functions, of
which TLA+ only says that they solve their equation if it has a solution. `EndExists` and
`ChainRecursion` give one, as the least set that holds a row and what replaces it (`RowsAlong`), and
`ChainInduction` replaces induction over chains: a property of the latest versions that passes from
a version to the one it replaces holds for all, as the youngest version without it would be replaced
by one that has it. For the refinement, `ChainFacts` says that a chain is the history of its latest
version and has one first version, so that `Revisions` counts what an edit adds; and
`PurgeIsCurrent` that a purge holds whole chains whose latest versions are in the trash. There is
one lemma per request (`AddRefines`, `EditRefines`, `ToggleRefines`, `PurgeRefines`). The set of
versions may be infinite: only finitely many are inserted, which `RInv` says.

**The readers** need nothing inductive of their own: `ReadersInv`, `FeedInv` and `DeadEndsInv`
derive them from `FInv` and the facts about chains. A deletion by keyword is a fold over the
matching rows in an order nobody chose; `KeywordCuts` shows that every order leaves the same tables
(`Cut`), by a counterexample of least size. `ReadersAgree` holds for any limits; what it needs of
`kSubset` is that a set of rows taken under a limit no smaller than their number is all of them, for
which only finitely many rows may be there (`RInv`).

**SmsDelivery**, for any messages, processes, watchers and bounds, from the named assumptions of the
module. `NoLoss` and `DiscardedIsKept` are about messages, but what threatens them is what a process
does later with what it knew before, so `IInv` adds `ProcessOK`: a process about to remove a message
removes one that is accepted, or an invalid one with a name *longer* than the one it removes. Longer
is needed: two processes that took different links of one message for messages may discard both at
once, each removing the name the other one counts on, unless the names are ordered. `Keeps` states
what all steps but one leave to the others; `RemoveStep` is the exception. `SentOnce` needs the
opposite of a name that stays: `OnceOK` says that of an untroubled message at most one process is
past the link, that the link is there as long as one is, and that it is removed only after the
message's own name is gone, so that nobody can list the message again.

**Agenda**, for any finite set of items, any gaps and `MaxCopy`. Positions have no bound in the
code, but `AgendaItem.create` asks for their maximum, so that `TypeOK` needs more than types: `GInv`
adds that positions and pending positions are bounded, and `LargestExists` gives the maximum. It
holds for any users, and so do `FreshMoves` and `FreshMovesReachTarget`: `MovedIsInjective` and
`DragArithmetic` are the arithmetic of the drag, by which shifting the range between the old and the
new place by one and putting the subject into the gap keeps distinct positions distinct, and leaves
no position between subject and target. With one user `IInv` adds to `GInv` the positions being
distinct, that a request about to move has read what is still there, and that new positions are
free.

**Accounts**, for any users, browsers, numbers, tokens, links and faults. Even `TypeOK` is not
inductive: a request that sends or spends a token must have one, and the rows that were never
inserted must name no user, or `ON DELETE CASCADE` would delete them. The properties are about rows,
and the invariant adds what each request relies on between its steps. The row that a request is
about to insert is nobody else's (`SendOK`, `AskOK`). A token that is being verified was sent, to
this user, and whoever verifies or has spent it too did so at the same time (`VerifyOK`; `UseOK`
says the like of links). A session, and the one that a request in progress will save, know only
users whose token was entered in this browser and numbers that an SMS went to (`SessionOK`). Of a
number that is stored less is known: that a token was made for it (`NumberOK`), as the request that
stores it may be the one that sends, and its SMS may be lost after the commit. The links older than
the one that a retrieval makes are expired already or among those it has seen and will expire.

**Meetings**, for any users, groups, meetings, clients, files and times; the run has one group, the
theorems have any number. `ReferencesLive` and the trail (`TrailOK`, which adds that no file is
listed twice, so that an index names one) need `AddOK`, by which the meeting that a request is about
to insert is nobody else's, and types. The trail is about counts of names: a file never changes its
name once it has one (`NamesStay`), so what an edit adds and removes changes the count of each name
by the difference (`NamesOfChanged`), and an event adds just that to what the trail makes of it
(`StockNext`, `EditTold`). On an old page the files that are left without an event only make the
count smaller.

**Upgrades**, for any rows of any release. The invariant `IsSound` is about a database: parents,
constraints, invitations, comments and names are in one of the states that a release, or a step of
the upgrade, can leave (`ParentsOK`, `ConstraintsOK`, `InvitationsOK`, `CommentsOK`, `NamesOK`).
There is one lemma per step, and `Upgraded` composes them. No step changes `strict`, as the one that
could finds its column there. That the upgrade fails for three kinds of rows *only* is the other
direction of the same lemmas: a step that meets none of them leaves `failed` as it was.

**Mail**, for any mails, sizes, limits and outcomes. The invariant is that of the loop: the buffer
holds the mails from `Len(result) + 1` to `next - 1`, so that a place in the answers to a batch is a
place in the list (`BatchOK`); what is in it fits, unless some mail fits in no batch (`SizeOK`); and
the API has taken no mail that the call cannot tell of yet, unless the connection broke
(`AnswersOK`).

Only model-checked: the refinement `ImplementsOrder` of the agenda, whose abstract steps filter and
cut sequences; and `Delivered` and `CallsEnd`, which are liveness under fairness and out of TLAPS's
reach. `SoleSender` and `EveryChangeInTrail` are not proved as they are not true.

## 5. What is not modelled

- Texts, tags, titles and comments of consultations, and the texts of agenda items: no step depends
  on them.
- Profile pictures and general files: one row, replaced or deleted; the one hazard, two first
  requests that both make the default picture, is listed and not modelled.
- The search's match and ranking and the extraction of text from files: the database's and a
  library's.
- The feed's filter by type, and the events of meetings in it.
- The mailer's `get_message_state` and `validate_template`, and the formatting of addresses: they
  read, and change nothing.
- Reports, rendering, layout, translation, avatars, forms as far as they parse and render.
- `transfer_data`, a script of external commands, and the other development tools: sample data,
  stubs for the type checker, test fixtures.
- Transactions are at READ COMMITTED without locks; a deadlock between two flushes, which PostgreSQL
  resolves by aborting one of them, is not distinguished from an abort.

## 6. Plan

1. *Done*: consultations and their readers, SMS delivery, agenda, accounts, meetings, upgrades,
   mail; proofs about the first three.
2. *Done*: proofs of every invariant and action property of every module, and of the refinement of
   `ConsultationRecords`.
3. The refinement of `AgendaOrder`: the rank of an item is the number of positions below its own;
   `DragArithmetic` says how a drag changes it.
4. A model of time for SMS delivery in which runs are more frequent than `MAX_SEND_TIME`, for the
   message whose link never gets old.
5. Composition of `Login` with `SmsDelivery` through the directory.

All recursion is by recursive functions or folds, so that every module can be reasoned about.
