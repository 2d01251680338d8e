--------------------------------- MODULE UserAccounts ---------------------------------
(* What the login and the password links share: the users, the browsers with    *)
(* their sessions, and the course of a request.                                 *)
(*   models/user.py, views/people.py        users                               *)
(*   security_policy.py, views/logout.py    who a session is                    *)
(*                                                                              *)
(* A browser waits for the response before it sends the next request; requests  *)
(* of different browsers overlap.  A request reads when it begins, writes when  *)
(* its transaction commits, and its session is saved with the response, after   *)
(* the commit: a request that fails leaves the session as it was.               *)
EXTENDS Naturals, FiniteSets

CONSTANTS
    Users,       \* ids of users, which are not used again
    Browsers,
    Numbers,     \* mobile numbers
    Tans,        \* rows of tans
    Links,       \* rows of password_change_tokens
    MaxFaults,   \* bound: crashes and failures of what a request calls
    None         \* an empty column, session key or field

ASSUME NoneAssumption == None \notin Users \cup Numbers \cup Tans \cup Links
ASSUME FaultsAssumption == MaxFaults \in Nat

VARIABLES
    account,     \* [Users -> {"none", "active", "deleted"}]
    passwords,   \* SUBSET Users: those with a password
    number,      \* [Users -> Numbers \cup {None}]: mobile_number
    session,     \* [Browsers -> Sessions]
    req,         \* [Browsers -> Requests]: the request under way
    faults       \* how many faults there were

userVars == <<account, passwords, number>>

-----------------------------------------------------------------------------

Sessions == [userid: Users \cup {None}, mtan_user: Users \cup {None},
             mtan_setup_user: Users \cup {None},
             mtan_mobile_number: Numbers \cup {None}]

Ops == {"none", "setup", "enter", "sendTan", "verify", "setupSend", "setupVerify",
        "setupBoth", "askLink", "addUser", "useLink"}

Phases == {"idle", "begun", "prepared", "committed"}

\* user, link and number are what the request is about, tan is the token that it
\* sends and entered the one that it verifies, seen are the rows it has read and
\* will write, after is the session its response will save.
Requests == [op: Ops, phase: Phases, user: Users \cup {None}, tan: Tans \cup {None},
             entered: Tans \cup {None}, link: Links \cup {None},
             number: Numbers \cup {None}, seen: SUBSET Links, after: Sessions]

NoSession == [userid |-> None, mtan_user |-> None, mtan_setup_user |-> None,
              mtan_mobile_number |-> None]

NoRequest == [op |-> "none", phase |-> "idle", user |-> None, tan |-> None,
              entered |-> None, link |-> None, number |-> None, seen |-> {},
              after |-> NoSession]

Active(u) == account[u] = "active"

IsIdle(b) == req[b].phase = "idle"

\* check_password, of what the user was told: without a password there is none.
ChecksPassword(u) == u \in passwords

\* set_password.
PasswordsWith(u) == passwords \cup {u}

\* SessionSecurityPolicy.permits, for a view with the default permission: the
\* user id of the session is that of a user.
Authenticated(b) == session[b].userid # None /\ Active(session[b].userid)

\* A request r begins, whose response will save the session s.
Begin(b, r, s) ==
    /\ IsIdle(b)
    /\ req' = [req EXCEPT ![b] = [r EXCEPT !.phase = "begun", !.after = s]]

Advance(b, phase) == req' = [req EXCEPT ![b].phase = phase]

\* Whether some request under way has taken a new row.
Reserved(x) == \E b \in Browsers : x \in {req[b].tan, req[b].link, req[b].user}

\* The response is sent and the session saved.
Respond(b) ==
    /\ session' = [session EXCEPT ![b] = req[b].after]
    /\ req' = [req EXCEPT ![b] = NoRequest]

\* A defect for comparison: the session is saved all the same.
FailSaved(b) ==
    /\ req' = [req EXCEPT ![b] = NoRequest]
    /\ session' = [session EXCEPT ![b] = req[b].after]

\* The request ends in an error: its transaction is aborted.
Fail(b) ==
    /\ req' = [req EXCEPT ![b] = NoRequest]
    /\ session' = session

Fault == faults < MaxFaults /\ faults' = faults + 1

-----------------------------------------------------------------------------

\* forget: logout_view, or the next request of a session that was not used for
\* longer than its timeout.  The keys of an unfinished login stay.
Forget(b) ==
    /\ IsIdle(b)
    /\ session[b].userid # None
    /\ session' = [session EXCEPT ![b].userid = None]
    /\ UNCHANGED <<userVars, req, faults>>

UserInit ==
    /\ account \in [Users -> {"none", "active"}]
    /\ passwords = {u \in Users : account[u] = "active"}
    /\ number = [u \in Users |-> None]
    /\ session = [b \in Browsers |-> NoSession]
    /\ req = [b \in Browsers |-> NoRequest]
    /\ faults = 0

UserTypeOK ==
    /\ account \in [Users -> {"none", "active", "deleted"}]
    /\ passwords \subseteq Users
    /\ number \in [Users -> Numbers \cup {None}]
    /\ session \in [Browsers -> Sessions]
    /\ req \in [Browsers -> Requests]
    /\ faults \in 0 .. MaxFaults
=============================================================================
