--------------------------------- MODULE PasswordLinks --------------------------------
(* Links by mail that set a password:                                           *)
(*   models/password_change_token.py                    the links               *)
(*   views/password_retrieval.py, views/people.py       who gets one            *)
(*   views/password_change.py                           what it does            *)
(* The mail is sent in the middle of the transaction, after the flush and       *)
(* before the commit.                                                           *)
EXTENDS UserAccounts

VARIABLES
    link,      \* [Links -> LinkRows]
    mailed,    \* SUBSET Links: links a mail was sent with
    older,     \* history: [Links -> SUBSET Links]: the user's links that were
               \* there when the request of this one began
    uses,      \* history: [Links -> 0 .. 2]: how often a link set a password
    overlaps   \* history: links that two requests used at the same time

linkVars == <<link, mailed, older, uses, overlaps>>

\* expired: by a newer link, or because it was requested 48 hours ago.
LinkRows == [state: {"none", "row", "deleted"}, user: Users \cup {None},
             expired: BOOLEAN, consumed: BOOLEAN]

NoLink == [state |-> "none", user |-> None, expired |-> FALSE, consumed |-> FALSE]

LinkTypeOK ==
    /\ link \in [Links -> LinkRows]
    /\ mailed \subseteq Links
    /\ older \in [Links -> SUBSET Links]
    /\ uses \in [Links -> 0 .. 2]
    /\ overlaps \subseteq Links

LinkInit ==
    /\ link = [l \in Links |-> NoLink]
    /\ mailed = {}
    /\ older = [l \in Links |-> {}]
    /\ uses = [l \in Links |-> 0]
    /\ overlaps = {}

-----------------------------------------------------------------------------
(* mail_retrieval *)

LinksOf(u) == {l \in Links : link[l].state = "row" /\ link[l].user = u}

\* The request of a new link reads the links it will expire.
BeginLink(b, op, u) ==
    \E l \in {l \in Links : link[l].state = "none" /\ ~Reserved(l)} :
        /\ Begin(b, [NoRequest EXCEPT !.op = op, !.user = u, !.link = l,
                                      !.seen = {k \in LinksOf(u) : ~link[k].expired}],
                 session[b])
        /\ older' = [older EXCEPT ![l] = LinksOf(u)]
        /\ UNCHANGED <<userVars, session, faults, link, mailed, uses, overlaps>>

\* password_retrieval_view: the text of the form is matched with LIKE, wildcards
\* included, and the link is for the first user it fits, who may be anyone.
AskLink(b, u) == Active(u) /\ BeginLink(b, "askLink", u)

\* add_user_view: a new user has no password, and gets a link.
AddUser(b, u) ==
    /\ Authenticated(b)
    /\ account[u] = "none" /\ ~Reserved(u)
    /\ BeginLink(b, "addUser", u)

Asks(b) == req[b].op \in {"askLink", "addUser"}

\* The flush inserts the link of a user who is there, and the mail is sent.
SendMail(b) ==
    /\ Asks(b) /\ req[b].phase = "begun"
    /\ req[b].op = "askLink" => Active(req[b].user)
    /\ mailed' = mailed \cup {req[b].link}
    /\ Advance(b, "prepared")
    /\ UNCHANGED <<userVars, session, faults, link, older, uses, overlaps>>

\* A defect for comparison: older links stay as they are.
WithLinkOnly(b) ==
    [link EXCEPT ![req[b].link] = [NoLink EXCEPT !.state = "row", !.user = req[b].user]]

\* expire_all_tokens and the new row.
WithLink(b) ==
    [l \in Links |->
        CASE l = req[b].link -> [NoLink EXCEPT !.state = "row", !.user = req[b].user]
          [] l \in req[b].seen -> [link[l] EXCEPT !.expired = TRUE]
          [] OTHER -> link[l]]

\* A defect for comparison: the commit does not wait for the mail.
IsMailedOrNot(b) == Asks(b) /\ req[b].phase \in {"begun", "prepared"}

IsMailed(b) == Asks(b) /\ req[b].phase = "prepared"

\* The user of the new link and the links to expire are still there.
CanCommitLink(b) ==
    /\ req[b].op = "askLink" => Active(req[b].user)
    /\ \A l \in req[b].seen : link[l].state = "row"

CommitLink(b) ==
    /\ IsMailed(b) /\ CanCommitLink(b)
    /\ link' = WithLink(b)
    /\ account' = IF req[b].op = "addUser" THEN [account EXCEPT ![req[b].user] = "active"]
                                           ELSE account
    /\ Advance(b, "committed")
    /\ UNCHANGED <<passwords, number, session, faults, mailed, older, uses, overlaps>>

-----------------------------------------------------------------------------
(* password_change_view *)

\* PasswordChangeToken.consume does not raise: an expired link still sets the
\* first password.
CanConsume(l) ==
    /\ link[l].state = "row"
    /\ ~link[l].consumed
    /\ link[l].expired => link[l].user \notin passwords

\* A link of a mail is opened, and its form is sent with the user's address.
UseLink(b, l) ==
    /\ l \in mailed
    /\ CanConsume(l)
    /\ Begin(b, [NoRequest EXCEPT !.op = "useLink", !.user = link[l].user, !.link = l],
             session[b])
    /\ overlaps' = IF \E c \in Browsers : req[c].op = "useLink" /\ req[c].link = l
                      THEN overlaps \cup {l} ELSE overlaps
    /\ UNCHANGED <<userVars, session, faults, link, mailed, older, uses>>

\* A defect for comparison: time_consumed is not written.
ConsumedNot(l) == link

Consumed(l) == [link EXCEPT ![l].consumed = TRUE]

CommitPassword(b) ==
    LET l == req[b].link
    IN  /\ req[b].op = "useLink" /\ req[b].phase = "begun"
        /\ link[l].state = "row"
        /\ link' = Consumed(l)
        /\ passwords' = PasswordsWith(req[b].user)
        /\ uses' = [uses EXCEPT ![l] = IF @ < 2 THEN @ + 1 ELSE @]
        /\ Advance(b, "committed")
        /\ UNCHANGED <<account, number, session, faults, mailed, older, overlaps>>

-----------------------------------------------------------------------------

\* The mail or the database fails, or a row is gone.
FailLink(b) ==
    /\ \/ /\ Asks(b) /\ req[b].phase \in {"begun", "prepared"}
          /\ IF CanCommitLink(b) THEN Fault ELSE faults' = faults
       \/ /\ req[b].op = "useLink" /\ req[b].phase = "begun"
          /\ link[req[b].link].state # "row"
          /\ faults' = faults
    /\ Fail(b)
    /\ UNCHANGED <<userVars, linkVars>>

RespondLink(b) ==
    /\ Asks(b) \/ req[b].op = "useLink"
    /\ req[b].phase = "committed"
    /\ Respond(b)
    /\ UNCHANGED <<userVars, faults, linkVars>>

\* 48 hours pass.
ExpireLink(l) ==
    /\ link[l].state = "row" /\ ~link[l].expired
    /\ link' = [link EXCEPT ![l].expired = TRUE]
    /\ UNCHANGED <<userVars, session, req, faults, mailed, older, uses, overlaps>>

LinkStep(b) ==
    \/ \E u \in Users : AskLink(b, u) \/ AddUser(b, u)
    \/ \E l \in Links : UseLink(b, l)
    \/ SendMail(b) \/ CommitLink(b) \/ CommitPassword(b) \/ FailLink(b) \/ RespondLink(b)

\* ON DELETE CASCADE: the links of a deleted user.
LinksWithout(u) ==
    [l \in Links |-> IF link[l].user = u THEN [link[l] EXCEPT !.state = "deleted"]
                                         ELSE link[l]]

-----------------------------------------------------------------------------
(* Properties *)

\* A link sets a password once, unless two requests used it at the same time.
OneChangePerLink == \A l \in Links : uses[l] > 1 => l \in overlaps

Overtaken(k, l) == k \in older[l] /\ link[l].state = "row"

\* Of a user who has a password, a link that was there when a newer one was
\* asked for does not work any more, however requests and crashes are ordered.
NewestLinkWorks ==
    \A k, l \in Links : Overtaken(k, l) /\ CanConsume(k) => link[k].user \notin passwords

\* A link that is in the database is in a mail: whatever fails in between, no
\* link is waiting that its user does not know of.
LinksAreMailed == \A l \in Links : link[l].state # "none" => l \in mailed
=============================================================================
