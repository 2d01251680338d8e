------------------------------------ MODULE Login -------------------------------------
(* Login with a password and a token sent by SMS:                               *)
(*   views/login.py, views/mtan.py     the views                                *)
(*   mtan_tool.py, models/tan.py       the tokens                               *)
(*   sms/sms_gateway.py, sms/datamanager.py   the SMS of a request, which joins *)
(*                                            its two-phase commit              *)
(* The data managers of a transaction are sorted: "files" comes before the      *)
(* database, whose vote is its commit.  So a request that sends a token writes  *)
(* a temporary file (Prepare), commits the database (CommitToken) and moves the *)
(* file into the queue (Finish), where SmsDelivery!Place takes over.            *)
EXTENDS UserAccounts

VARIABLES
    settings,     \* passwordOnly: auth.password_only; uniqueNumbers: whether the
                  \* database has the UNIQUE of mobile_number
    tan,          \* [Tans -> TanRows]
    temp,         \* SUBSET Tans: tokens whose SMS is in a temporary file
    queued,       \* SUBSET Tans: tokens whose SMS is or was in the queue
    broken,       \* history: tokens whose request ended by a fault
    spent,        \* history: SUBSET (Browsers \X Tans): who logged in with what
    shared,       \* history: tokens two overlapping requests have verified
    reused        \* history: tokens that logged in more than once

loginVars == <<settings, tan, temp, queued, broken, spent, shared, reused>>

\* A database of an older release that was upgraded has no UNIQUE: its column is
\* added without.
Settings == [passwordOnly: BOOLEAN, uniqueNumbers: BOOLEAN]

\* expired: time_expired is in the past, or the request of the token 72 hours
\* ago.  to: the number the SMS goes to.
TanRows == [state: {"none", "row", "deleted"}, user: Users \cup {None},
            to: Numbers \cup {None}, expired: BOOLEAN]

NoTan == [state |-> "none", user |-> None, to |-> None, expired |-> FALSE]

LoginTypeOK ==
    /\ settings \in Settings
    /\ tan \in [Tans -> TanRows]
    /\ \A t \in Tans : tan[t].state = "row" => tan[t].user # None /\ tan[t].to # None
    /\ temp \subseteq Tans /\ queued \subseteq Tans /\ broken \subseteq Tans
    /\ spent \subseteq Browsers \X Tans
    /\ shared \subseteq Tans /\ reused \subseteq Tans

LoginInit ==
    /\ settings \in Settings
    /\ tan = [t \in Tans |-> NoTan]
    /\ temp = {} /\ queued = {} /\ broken = {}
    /\ spent = {} /\ shared = {} /\ reused = {}

-----------------------------------------------------------------------------
(* login_view, with the right password *)

Fresh(t) == tan[t].state = "none" /\ ~Reserved(t)

\* MTanTool.create_tan for a user, and gateway.send to a number.
SendToken(b, op, u, n, s) ==
    \E t \in {t \in Tans : Fresh(t)} :
        Begin(b, [NoRequest EXCEPT !.op = op, !.user = u, !.tan = t, !.number = n], s)

Request(op, u) == [NoRequest EXCEPT !.op = op, !.user = u]

\* A defect for comparison: the user is remembered at once.
AwaitsTokenRemembered(b, u) == [session[b] EXCEPT !.mtan_user = u, !.userid = u]

\* The session after the password, when a token is sent.
AwaitsToken(b, u) == [session[b] EXCEPT !.mtan_user = u]

EnterPassword(b, u) ==
    /\ Active(u) /\ ChecksPassword(u)
    /\ \/ /\ settings.passwordOnly
          /\ Begin(b, Request("enter", u), [session[b] EXCEPT !.userid = u])
       \/ /\ ~settings.passwordOnly /\ number[u] = None
          /\ Begin(b, Request("setup", u), [session[b] EXCEPT !.mtan_setup_user = u])
       \/ /\ ~settings.passwordOnly /\ number[u] # None
          /\ SendToken(b, "sendTan", u, number[u], AwaitsToken(b, u))
    /\ UNCHANGED <<userVars, session, faults, loginVars>>

-----------------------------------------------------------------------------
(* Tokens *)

\* MTanTool.verify: a token of the user that is not expired.
Verifies(u, t) == tan[t].state = "row" /\ tan[t].user = u /\ ~tan[t].expired

\* A token was verified by a request under way.
Verifying(t) == \E b \in Browsers : req[b].entered = t

\* In a request r, the user enters a token that an SMS brought.
BeginVerify(b, r, t, s) ==
    /\ r.user # None /\ t \in queued
    /\ Verifies(r.user, t)
    /\ Begin(b, [r EXCEPT !.entered = t], s)
    /\ shared' = IF Verifying(t) THEN shared \cup {t} ELSE shared
    /\ UNCHANGED <<userVars, session, faults, settings, tan, temp, queued, broken,
                   spent, reused>>

\* mtan_view: the token of a login.
Verify(b, t) ==
    LET u == session[b].mtan_user
    IN  BeginVerify(b, Request("verify", u), t,
                    [session[b] EXCEPT !.mtan_user = None, !.userid = u])

\* The session after a set-up.
SetUp(b, u) == [session[b] EXCEPT !.mtan_setup_user = None, !.mtan_mobile_number = None,
                                  !.userid = u]

\* mtan_setup_view, with a number in the session: the token of a set-up.
SetupVerify(b, t) ==
    LET u == session[b].mtan_setup_user
    IN  /\ session[b].mtan_mobile_number # None
        /\ BeginVerify(b, [Request("setupVerify", u) EXCEPT
                             !.number = session[b].mtan_mobile_number], t, SetUp(b, u))

\* UniqueMobileNumber finds nobody else with the number that is entered.
CanEnter(u, n) == u # None /\ Active(u) /\ \A v \in Users \ {u} : Active(v) => number[v] # n

\* mtan_setup_view with a number in the form: the session has none, or the user
\* has asked to enter a different one.
SetupSend(b, n) ==
    LET u == session[b].mtan_setup_user
    IN  /\ CanEnter(u, n)
        /\ SendToken(b, "setupSend", u, n, [session[b] EXCEPT !.mtan_mobile_number = n])
        /\ UNCHANGED <<userVars, session, faults, loginVars>>

\* The same with a token in the form as well: after it has sent a token to the
\* number, the view verifies the one that was entered and stores the number.
SetupBoth(b, n, t) ==
    LET u == session[b].mtan_setup_user
    IN  /\ CanEnter(u, n)
        /\ \E f \in {f \in Tans : Fresh(f)} :
              BeginVerify(b, [Request("setupBoth", u) EXCEPT !.tan = f, !.number = n],
                          t, SetUp(b, u))

\* The link to enter a different number.
DifferentNumber(b) ==
    /\ IsIdle(b)
    /\ session[b].mtan_setup_user # None /\ session[b].mtan_mobile_number # None
    /\ session' = [session EXCEPT ![b].mtan_mobile_number = None]
    /\ UNCHANGED <<userVars, req, faults, loginVars>>

\* 72 hours pass.
ExpireTan(t) ==
    /\ tan[t].state = "row" /\ ~tan[t].expired
    /\ tan' = [tan EXCEPT ![t].expired = TRUE]
    /\ UNCHANGED <<userVars, session, req, faults, settings, temp, queued, broken,
                   spent, shared, reused>>

-----------------------------------------------------------------------------
(* The end of a request without an SMS *)

\* user.last_login is written, if the user is still there.
CommitEnter(b) ==
    /\ req[b].op \in {"enter", "setup"} /\ req[b].phase = "begun"
    /\ req[b].op = "enter" => Active(req[b].user)
    /\ Advance(b, "committed")
    /\ UNCHANGED <<userVars, session, faults, loginVars>>

Stores(b) == req[b].op \in {"setupVerify", "setupBoth"}

\* The row of the entered token is still there, and the number belongs to nobody
\* else, where the database looks at that.
CanSpend(b) ==
    /\ tan[req[b].entered].state = "row"
    /\ Stores(b) /\ settings.uniqueNumbers
       => \A v \in Users \ {req[b].user} : Active(v) => number[v] # req[b].number

\* A defect for comparison: the token is not expired.
SpentTanKept(t) == tan

\* MTanTool.expire.
SpentTan(t) == [tan EXCEPT ![t].expired = TRUE]

\* What is committed with a token that was entered: its user is known and, in a
\* set-up, the number is stored.
Spend(b) ==
    LET t == req[b].entered
    IN  /\ CanSpend(b)
        /\ number' = IF Stores(b) THEN [number EXCEPT ![req[b].user] = req[b].number]
                                  ELSE number
        /\ reused' = IF \E c \in Browsers : <<c, t>> \in spent THEN reused \cup {t}
                                                               ELSE reused
        /\ spent' = spent \cup {<<b, t>>}

CommitVerify(b) ==
    /\ req[b].op \in {"verify", "setupVerify"} /\ req[b].phase = "begun"
    /\ Spend(b)
    /\ tan' = SpentTan(req[b].entered)
    /\ Advance(b, "committed")
    /\ UNCHANGED <<account, passwords, session, faults, settings, temp, queued, broken,
                   shared>>

\* A flush finds the user gone or the number taken.
FailLogin(b) ==
    /\ req[b].phase = "begun"
    /\ \/ req[b].op = "enter" /\ ~Active(req[b].user)
       \/ req[b].op \in {"verify", "setupVerify"} /\ ~CanSpend(b)
    /\ Fail(b)
    /\ UNCHANGED <<userVars, faults, loginVars>>

RespondLogin(b) ==
    /\ req[b].op \in {"enter", "setup", "verify", "setupVerify"}
    /\ req[b].phase = "committed"
    /\ Respond(b)
    /\ UNCHANGED <<userVars, faults, loginVars>>

-----------------------------------------------------------------------------
(* The two-phase commit of a request with an SMS *)

Sends(b) == req[b].op \in {"sendTan", "setupSend", "setupBoth"}

\* SMSDataManager.commit.
Prepare(b) ==
    /\ Sends(b) /\ req[b].phase = "begun"
    /\ temp' = temp \cup {req[b].tan}
    /\ Advance(b, "prepared")
    /\ UNCHANGED <<userVars, session, faults, settings, tan, queued, broken, spent,
                   shared, reused>>

\* Both vote: the temporary file is there, no file of that name is in the queue,
\* and the database commits the row of a user who is still there.
Votes(b) == req[b].phase = "prepared" /\ req[b].tan \in temp \ queued /\ Active(req[b].user)

WithTan(b, rows) ==
    [rows EXCEPT ![req[b].tan] = [state |-> "row", user |-> req[b].user,
                                  to |-> req[b].number, expired |-> FALSE]]

CommitToken(b) ==
    /\ req[b].op \in {"sendTan", "setupSend"} /\ Votes(b)
    /\ tan' = WithTan(b, tan)
    /\ Advance(b, "committed")
    /\ UNCHANGED <<userVars, session, faults, settings, temp, queued, broken, spent,
                   shared, reused>>

CommitBoth(b) ==
    /\ req[b].op = "setupBoth" /\ Votes(b)
    /\ Spend(b)
    /\ tan' = WithTan(b, SpentTan(req[b].entered))
    /\ Advance(b, "committed")
    /\ UNCHANGED <<account, passwords, session, faults, settings, temp, queued, broken,
                   shared>>

\* os.remove(self.tempfn).
TempRemoved(t) == temp \ {t}

\* The user or the entered token is gone, the number is taken, or the database
\* fails: tpc_abort.
AbortToken(b) ==
    /\ Sends(b) /\ req[b].phase \in {"begun", "prepared"}
    /\ IF Active(req[b].user) /\ (req[b].op = "setupBoth" => CanSpend(b))
          THEN Fault
          ELSE faults' = faults
    /\ temp' = TempRemoved(req[b].tan)
    /\ Fail(b)
    /\ UNCHANGED <<userVars, settings, tan, queued, broken, spent, shared, reused>>

\* A defect for comparison: the move happens in the vote, before the database
\* commits.
FinishesPrepared(b) == Sends(b) /\ req[b].phase \in {"prepared", "committed"}

Finishes(b) == Sends(b) /\ req[b].phase = "committed"

\* SMSDataManager.tpc_finish, and the response.
Finish(b) ==
    /\ Finishes(b)
    /\ queued' = queued \cup {req[b].tan}
    /\ temp' = temp \ {req[b].tan}
    /\ Respond(b)
    /\ UNCHANGED <<userVars, faults, settings, tan, broken, spent, shared, reused>>

\* The move fails: the database has committed, the error reaches the browser.
FinishFails(b) ==
    /\ Finishes(b)
    /\ Fault
    /\ temp' = TempRemoved(req[b].tan)
    /\ broken' = broken \cup {req[b].tan}
    /\ Fail(b)
    /\ UNCHANGED <<userVars, settings, tan, queued, spent, shared, reused>>

\* The worker dies, in this or in any other request: whatever was not committed
\* is gone, files stay.
Crash(b) ==
    /\ ~IsIdle(b)
    /\ Fault
    /\ broken' = IF Sends(b) THEN broken \cup {req[b].tan} ELSE broken
    /\ Fail(b)
    /\ UNCHANGED <<userVars, settings, tan, temp, queued, spent, shared, reused>>

-----------------------------------------------------------------------------

LoginStep(b) ==
    \/ \E u \in Users : EnterPassword(b, u)
    \/ \E t \in Tans : Verify(b, t) \/ SetupVerify(b, t)
    \/ \E n \in Numbers : SetupSend(b, n) \/ \E t \in Tans : SetupBoth(b, n, t)
    \/ DifferentNumber(b) \/ CommitEnter(b) \/ CommitVerify(b) \/ FailLogin(b)
    \/ RespondLogin(b) \/ Prepare(b) \/ CommitToken(b) \/ CommitBoth(b)
    \/ AbortToken(b) \/ Finish(b) \/ FinishFails(b) \/ Crash(b)

\* A defect for comparison: the column is set to NULL.
TansOrphaned(u) ==
    [t \in Tans |-> IF tan[t].user = u THEN [tan[t] EXCEPT !.user = None] ELSE tan[t]]

\* ON DELETE CASCADE: the tokens of a deleted user.
TansWithout(u) ==
    [t \in Tans |-> IF tan[t].user = u THEN [tan[t] EXCEPT !.state = "deleted"] ELSE tan[t]]

-----------------------------------------------------------------------------
(* Properties *)

\* An SMS is in the queue exactly if its token is in the database, unless the
\* worker died or the move failed after the commit: a request that is aborted
\* leaves neither, one that is answered leaves both, and none of them leaves a
\* temporary file.
TokenIffSms ==
    /\ \A t \in Tans \ broken :
          /\ t \in queued => tan[t].state # "none"
          /\ tan[t].state # "none" => t \in queued \/ Reserved(t)
    /\ \A t \in temp : t \in broken \/ Reserved(t)

\* A token logs in once, unless two requests verify it at the same time.
OneLoginPerToken == reused \subseteq shared

\* Whoever is logged in without auth.password_only has entered, in this browser,
\* a token that was sent by SMS for this very user.
TwoFactors ==
    \A b \in Browsers :
        LET u == session[b].userid
        IN  ~settings.passwordOnly /\ u # None
            => \E t \in Tans : <<b, t>> \in spent /\ tan[t].user = u /\ t \in queued

\* Whatever requests fail or overlap, a number is stored only if a token was made
\* for an SMS to it: one that is in the queue, that its request is about to put
\* there, or that was lost with a move or a worker.  That the token of that SMS
\* was this user's, or that it was entered, does not hold: the session keeps the
\* number of a set-up that somebody else began in the same browser, and a form
\* with a number and a token stores the number for a token that was sent before.
NumberWasCalled ==
    \A u \in Users :
        number[u] # None
        => \E t \in Tans : tan[t].to = number[u] /\ (t \in queued \cup broken \/ Reserved(t))
=============================================================================
