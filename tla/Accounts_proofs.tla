-------------------------------- MODULE Accounts_proofs --------------------------------
(* Proofs about Accounts, for any users, browsers, numbers, tokens and links:    *)
(* however requests interleave, fail and die, a token and its SMS stay together,  *)
(* a login takes two factors, and tokens and links are used once.                 *)
EXTENDS Accounts, TLAPS

-----------------------------------------------------------------------------
(* The inductive invariant *)

\* A token of a request that sends it.
Sending(t) == \E b \in Browsers : Sends(b) /\ req[b].tan = t

Verifier(b) == req[b].op \in {"verify", "setupVerify", "setupBoth"}

IsSpent(t) == \E b \in Browsers : <<b, t>> \in spent

\* An SMS with a token went to the number.
Called(n) == \E t \in queued : tan[t].to = n

\* A token was made for an SMS to the number.
Reached(n) == \E t \in Tans : tan[t].state # "none" /\ tan[t].to = n

\* In this browser a token was entered that was sent for the user.
Witnessed(b, u) == \E t \in Tans : <<b, t>> \in spent /\ tan[t].user = u /\ t \in queued

\* What a request that sends a token relies on: nobody else has its row.
SendOK(b) ==
    Sends(b) =>
        /\ req[b].tan \in Tans \ queued /\ req[b].user \in Users /\ req[b].number \in Numbers
        /\ req[b].phase \in {"begun", "prepared"} => tan[req[b].tan].state = "none"
        /\ req[b].phase = "committed" =>
              tan[req[b].tan].state # "none" /\ tan[req[b].tan].to = req[b].number
        /\ \A c \in Browsers \ {b} : Sends(c) => req[c].tan # req[b].tan

\* What a request that verifies a token relies on: it is the user's and was sent;
\* whoever verifies it too, or has spent it, has verified it at the same time.
VerifyOK(b) ==
    Verifier(b) =>
        /\ req[b].entered \in queued /\ req[b].user \in Users
        /\ tan[req[b].entered].user = req[b].user
        /\ Stores(b) => req[b].number # None
        /\ \A c \in Browsers \ {b} : Verifier(c) /\ req[c].entered = req[b].entered
              => req[b].entered \in shared
        /\ req[b].phase # "committed" /\ IsSpent(req[b].entered) => req[b].entered \in shared

TokenOK(t) ==
    /\ tan[t].state = "none" => tan[t].user = None
    /\ t \in queued => tan[t].state # "none" /\ t \notin temp
    /\ tan[t].state # "none" => t \in broken \/ t \in queued \/ Sending(t)
    /\ t \in temp => t \in broken \/ Sending(t)
    /\ tan[t].state = "row" => Active(tan[t].user)
    /\ IsSpent(t) => tan[t].expired /\ tan[t].state # "none"

\* Who a session of browser b knows has entered a token here, and the number it
\* knows got one.
KnownUser(b, s) == ~settings.passwordOnly /\ s.userid # None => Witnessed(b, s.userid)
KnownNumber(s) == s.mtan_mobile_number # None => Called(s.mtan_mobile_number)

\* The session of a browser, and the one that its request will save: only a
\* commit makes the user of a token, and only an SMS the number of a set-up, known.
SessionOK(b) ==
    /\ KnownUser(b, session[b]) /\ KnownNumber(session[b])
    /\ \/ KnownUser(b, req[b].after)
       \/ Verifier(b) /\ req[b].phase # "committed" /\ req[b].after.userid = req[b].user
    /\ \/ KnownNumber(req[b].after)
       \/ req[b].op = "setupSend" /\ req[b].number = req[b].after.mtan_mobile_number
    /\ req[b].op = "setupVerify" => Called(req[b].number)

NumberOK(u) == number[u] # None => Reached(number[u])

\* What a request that makes a link relies on: nobody else has its row, its mail
\* was sent, and the older links that it will not expire are expired already.
AskOK(b) ==
    Asks(b) /\ req[b].phase \in {"begun", "prepared"} =>
        /\ req[b].user \in Users /\ req[b].link \in Links /\ link[req[b].link].state = "none"
        /\ \A c \in Browsers \ {b} : Asks(c) => req[c].link # req[b].link
        /\ \A k \in older[req[b].link] :
              link[k].state # "none" /\ (link[k].expired \/ k \in req[b].seen)
        /\ req[b].phase = "prepared" => req[b].link \in mailed

UseOK(b) ==
    req[b].op = "useLink" =>
        /\ req[b].user \in Users /\ req[b].link \in Links
        /\ link[req[b].link].state # "none"
        /\ \A c \in Browsers \ {b} : req[c].op = "useLink" /\ req[c].link = req[b].link
              => req[b].link \in overlaps
        /\ req[b].phase = "begun" /\ uses[req[b].link] > 0 => req[b].link \in overlaps

LinkOK(l) ==
    /\ link[l].state = "none" => link[l].user = None
    /\ link[l].state # "none" =>
          /\ link[l].user \in Users /\ l \in mailed
          /\ \A k \in older[l] : link[k].state # "none" /\ link[k].expired
    /\ uses[l] > 0 => link[l].consumed /\ link[l].state # "none"
    /\ uses[l] > 1 => l \in overlaps

IdleOK(b) == IsIdle(b) => req[b] = NoRequest

LoginInv ==
    /\ \A b \in Browsers : SendOK(b) /\ VerifyOK(b) /\ SessionOK(b)
    /\ \A t \in Tans : TokenOK(t)
    /\ \A u \in Users : NumberOK(u)
    /\ OneLoginPerToken

LinkInv ==
    /\ \A b \in Browsers : AskOK(b) /\ UseOK(b)
    /\ \A l \in Links : LinkOK(l)

IInv == TypeOK /\ LoginInv /\ LinkInv /\ \A b \in Browsers : IdleOK(b)

-----------------------------------------------------------------------------
(* Requests that begin, go on and end *)

\* A browser without a request, and a session without a user.
LEMMA NothingType == NoRequest \in Requests /\ NoSession \in Sessions
BY DEF NoRequest, NoSession, Requests, Sessions, Ops, Phases

\* A request that begins is the only one to change.
LEMMA Begins ==
    ASSUME UserTypeOK, NEW b \in Browsers, NEW r \in Requests, NEW s \in Sessions,
           Begin(b, r, s)
    PROVE  /\ req' \in [Browsers -> Requests] /\ req[b].phase = "idle"
           /\ \A c \in Browsers \ {b} : req'[c] = req[c]
           /\ req'[b].op = r.op /\ req'[b].phase = "begun" /\ req'[b].user = r.user
           /\ req'[b].tan = r.tan /\ req'[b].entered = r.entered /\ req'[b].link = r.link
           /\ req'[b].number = r.number /\ req'[b].seen = r.seen /\ req'[b].after = s
<1>1. [r EXCEPT !.phase = "begun", !.after = s] \in Requests
  BY DEF Requests, Phases
<1>2. QED
  BY <1>1 DEF Begin, IsIdle, UserTypeOK, Requests

\* Neither does one that goes on change another, nor more than its phase.
LEMMA Advances ==
    ASSUME UserTypeOK, NEW b \in Browsers, NEW p \in Phases, Advance(b, p)
    PROVE  /\ req' \in [Browsers -> Requests]
           /\ \A c \in Browsers \ {b} : req'[c] = req[c]
           /\ req'[b].op = req[b].op /\ req'[b].phase = p /\ req'[b].user = req[b].user
           /\ req'[b].tan = req[b].tan /\ req'[b].entered = req[b].entered
           /\ req'[b].link = req[b].link /\ req'[b].number = req[b].number
           /\ req'[b].seen = req[b].seen
           /\ req'[b].after = req[b].after
BY DEF Advance, UserTypeOK, Requests

\* A request that ends leaves its browser without one, and gives it the session
\* that was saved or the one it had.
LEMMA Ends ==
    ASSUME UserTypeOK, NEW b \in Browsers, Respond(b) \/ Fail(b)
    PROVE  /\ req' \in [Browsers -> Requests] /\ session' \in [Browsers -> Sessions]
           /\ \A c \in Browsers \ {b} : req'[c] = req[c] /\ session'[c] = session[c]
           /\ req'[b] = NoRequest
           /\ Respond(b) => session'[b] = req[b].after
           /\ Fail(b) => session' = session
<1>1. req[b].after \in Sessions
  BY DEF UserTypeOK, Requests
<1>2. QED
  BY <1>1, NothingType DEF Respond, Fail, UserTypeOK

\* The session keys of a browser.
LEMMA SessionType ==
    ASSUME UserTypeOK, NEW b \in Browsers
    PROVE  /\ session[b] \in Sessions
           /\ session[b].userid \in Users \cup {None}
           /\ session[b].mtan_user \in Users \cup {None}
           /\ session[b].mtan_setup_user \in Users \cup {None}
           /\ session[b].mtan_mobile_number \in Numbers \cup {None}
BY DEF UserTypeOK, Sessions

LEMMA RequestType ==
    ASSUME UserTypeOK, NEW b \in Browsers
    PROVE  /\ req[b].op \in Ops /\ req[b].phase \in Phases
           /\ req[b].user \in Users \cup {None} /\ req[b].tan \in Tans \cup {None}
           /\ req[b].entered \in Tans \cup {None} /\ req[b].link \in Links \cup {None}
           /\ req[b].number \in Numbers \cup {None}
           /\ req[b].seen \subseteq Links /\ req[b].after \in Sessions
           /\ req[b].after.userid \in Users \cup {None}
           /\ req[b].after.mtan_mobile_number \in Numbers \cup {None}
BY DEF UserTypeOK, Requests, Sessions

\* The sessions after a password and after a set-up.
LEMMA LoginSessions ==
    ASSUME UserTypeOK, NEW b \in Browsers, NEW u \in Users \cup {None}
    PROVE  /\ [session[b] EXCEPT !.userid = u] \in Sessions
           /\ [session[b] EXCEPT !.mtan_setup_user = u] \in Sessions
           /\ [session[b] EXCEPT !.mtan_user = None, !.userid = u] \in Sessions
           /\ AwaitsToken(b, u) \in Sessions /\ SetUp(b, u) \in Sessions
           /\ SetUp(b, u).userid = u /\ SetUp(b, u).mtan_mobile_number = None
BY SessionType DEF Sessions, AwaitsToken, SetUp

\* A request that sends a token that is nobody else's, and one that verifies one.
LEMMA SendBegins ==
    ASSUME NEW b \in Browsers, NEW op \in {"sendTan", "setupSend"}, NEW u \in Users,
           NEW n \in Numbers, NEW s \in Sessions, SendToken(b, op, u, n, s)
    PROVE  \E t \in Tans, r \in Requests :
              /\ Fresh(t) /\ Begin(b, r, s)
              /\ r.op = op /\ r.user = u /\ r.tan = t /\ r.number = n
<1>1. PICK t \in Tans : Fresh(t) /\
        Begin(b, [NoRequest EXCEPT !.op = op, !.user = u, !.tan = t, !.number = n], s)
  BY DEF SendToken
<1> DEFINE r == [NoRequest EXCEPT !.op = op, !.user = u, !.tan = t, !.number = n]
<1>2. r \in Requests /\ r.op = op /\ r.user = u /\ r.tan = t /\ r.number = n
  BY NothingType DEF Requests, Ops, NoRequest
<1>3. QED
  BY <1>1, <1>2

LEMMA VerifyBegins ==
    ASSUME NEW b \in Browsers, NEW r \in Requests, NEW t \in Tans, NEW s \in Sessions,
           BeginVerify(b, r, t, s)
    PROVE  /\ [r EXCEPT !.entered = t] \in Requests
           /\ [r EXCEPT !.entered = t].entered = t
           /\ [r EXCEPT !.entered = t].op = r.op /\ [r EXCEPT !.entered = t].user = r.user
           /\ [r EXCEPT !.entered = t].tan = r.tan
           /\ [r EXCEPT !.entered = t].number = r.number
           /\ Begin(b, [r EXCEPT !.entered = t], s)
BY DEF BeginVerify, Requests

\* The requests that verify a token, before it is entered.
LEMMA VerifyRequest ==
    ASSUME NEW u \in Users \cup {None}
    PROVE  /\ Request("verify", u) \in Requests /\ Request("verify", u).op = "verify"
           /\ Request("verify", u).user = u
BY NothingType DEF Request, Requests, Ops, NoRequest

LEMMA SetupRequest ==
    ASSUME NEW u \in Users \cup {None}, NEW n \in Numbers
    PROVE  /\ [Request("setupVerify", u) EXCEPT !.number = n] \in Requests
           /\ [Request("setupVerify", u) EXCEPT !.number = n].op = "setupVerify"
           /\ [Request("setupVerify", u) EXCEPT !.number = n].user = u
           /\ [Request("setupVerify", u) EXCEPT !.number = n].number = n
BY NothingType DEF Request, Requests, Ops, NoRequest

\* A request of a login that verifies a token, and what it finds.
Entering(b, r, t, s) ==
    /\ Begin(b, r, s) /\ r.op \in {"verify", "setupVerify", "setupBoth"}
    /\ r.entered = t /\ r.user \in Users /\ s.userid = r.user
    /\ s.mtan_mobile_number \in {None, session[b].mtan_mobile_number}
    /\ r.op = "setupVerify" => r.number = session[b].mtan_mobile_number /\ r.number # None
    /\ r.op = "setupBoth" => r.tan \in Tans /\ Fresh(r.tan) /\ r.number \in Numbers
    /\ t \in queued /\ Verifies(r.user, t)
    /\ shared' = IF Verifying(t) THEN shared \cup {t} ELSE shared
    /\ UNCHANGED <<userVars, session, faults, settings, tan, temp, queued, broken,
                   spent, reused>>

LEMMA EntersBegin ==
    ASSUME UserTypeOK, NEW b \in Browsers, NEW t \in Tans,
           Verify(b, t) \/ SetupVerify(b, t) \/ \E n \in Numbers : SetupBoth(b, n, t)
    PROVE  \E r \in Requests, s \in Sessions : Entering(b, r, t, s)
<1>1. CASE Verify(b, t)
  <2> DEFINE u == session[b].mtan_user
             s == [session[b] EXCEPT !.mtan_user = None, !.userid = u]
             q == Request("verify", u)
  <2>1. u \in Users \cup {None} /\ s \in Sessions
    BY SessionType, LoginSessions
  <2>2. s.userid = u /\ s.mtan_mobile_number = session[b].mtan_mobile_number
    BY <2>1, SessionType DEF Sessions
  <2>3. q \in Requests /\ q.op = "verify" /\ q.user = u
    BY <2>1, VerifyRequest
  <2>4. BeginVerify(b, q, t, s)
    BY <1>1 DEF Verify
  <2>5. Entering(b, [q EXCEPT !.entered = t], t, s)
    <3> HIDE DEF q, s, u
    <3>1. QED
      BY <2>1, <2>2, <2>3, <2>4, VerifyBegins DEF BeginVerify, Entering
  <2>6. QED
    BY <2>1, <2>3, <2>4, <2>5, VerifyBegins
<1>2. CASE SetupVerify(b, t)
  <2> DEFINE u == session[b].mtan_setup_user
             n == session[b].mtan_mobile_number
             q == [Request("setupVerify", u) EXCEPT !.number = n]
  <2>1. u \in Users \cup {None} /\ n \in Numbers /\ SetUp(b, u) \in Sessions
        /\ SetUp(b, u).userid = u /\ SetUp(b, u).mtan_mobile_number = None
    BY <1>2, SessionType, LoginSessions DEF SetupVerify
  <2>2. q \in Requests /\ q.op = "setupVerify" /\ q.user = u /\ q.number = n
    BY <2>1, SetupRequest
  <2>3. BeginVerify(b, q, t, SetUp(b, u)) /\ n # None
    BY <1>2 DEF SetupVerify
  <2>4. Entering(b, [q EXCEPT !.entered = t], t, SetUp(b, u))
    <3> HIDE DEF q, u
    <3>1. QED
      BY <2>1, <2>2, <2>3, VerifyBegins DEF BeginVerify, Entering
  <2>5. QED
    BY <2>1, <2>2, <2>3, <2>4, VerifyBegins
<1>3. ASSUME NEW n \in Numbers, SetupBoth(b, n, t)
      PROVE  \E r \in Requests, s \in Sessions : Entering(b, r, t, s)
  <2> DEFINE u == session[b].mtan_setup_user
  <2>1. u \in Users \cup {None} /\ SetUp(b, u) \in Sessions
        /\ SetUp(b, u).userid = u /\ SetUp(b, u).mtan_mobile_number = None
    BY SessionType, LoginSessions
  <2>2. PICK f \in Tans :
          /\ Fresh(f)
          /\ BeginVerify(b, [Request("setupBoth", u) EXCEPT !.tan = f, !.number = n], t,
                         SetUp(b, u))
    BY <1>3 DEF SetupBoth
  <2> DEFINE q == [Request("setupBoth", u) EXCEPT !.tan = f, !.number = n]
  <2>3. q \in Requests /\ q.op = "setupBoth" /\ q.user = u /\ q.tan = f /\ q.number = n
    <3> HIDE DEF u
    <3>1. f \in Tans /\ u \in Users \cup {None}
      BY <2>1, <2>2
    <3>2. QED
      BY <3>1, NothingType DEF Request, Requests, Ops, NoRequest
  <2>4. Entering(b, [q EXCEPT !.entered = t], t, SetUp(b, u))
    <3>1. BeginVerify(b, q, t, SetUp(b, u))
      BY <2>2
    <3> HIDE DEF q, u
    <3>2. QED
      BY <2>1, <2>2, <2>3, <3>1, VerifyBegins DEF BeginVerify, Entering
  <2>5. QED
    BY <2>1, <2>2, <2>3, <2>4, VerifyBegins
<1>4. QED
  BY <1>1, <1>2, <1>3

\* A request of a login that begins.
LEMMA LoginBegins ==
    ASSUME UserTypeOK, NEW b \in Browsers,
           \/ \E u \in Users : EnterPassword(b, u)
           \/ \E t \in Tans : Verify(b, t) \/ SetupVerify(b, t)
           \/ \E n \in Numbers : SetupSend(b, n) \/ \E t \in Tans : SetupBoth(b, n, t)
    PROVE  \E r \in Requests, s \in Sessions :
              r.op \notin {"askLink", "addUser", "useLink"} /\ Begin(b, r, s)
<1> DEFINE Goal == \E r \in Requests, s \in Sessions :
                      r.op \notin {"askLink", "addUser", "useLink"} /\ Begin(b, r, s)
<1>1. ASSUME NEW u \in Users, EnterPassword(b, u) PROVE Goal
  <2>1. /\ Request("enter", u) \in Requests /\ Request("enter", u).op = "enter"
        /\ Request("setup", u) \in Requests /\ Request("setup", u).op = "setup"
    BY NothingType DEF Request, Requests, Ops, NoRequest
  <2>2. number[u] # None => number[u] \in Numbers
    BY DEF UserTypeOK
  <2>3. /\ [session[b] EXCEPT !.userid = u] \in Sessions
        /\ [session[b] EXCEPT !.mtan_setup_user = u] \in Sessions
        /\ AwaitsToken(b, u) \in Sessions
    BY LoginSessions
  <2>4. CASE SendToken(b, "sendTan", u, number[u], AwaitsToken(b, u)) /\ number[u] # None
    BY <2>2, <2>3, <2>4, SendBegins
  <2>5. QED
    BY <1>1, <2>1, <2>3, <2>4 DEF EnterPassword
<1>2. ASSUME NEW n \in Numbers, SetupSend(b, n) PROVE Goal
  <2>1. [session[b] EXCEPT !.mtan_mobile_number = n] \in Sessions
    BY SessionType DEF Sessions
  <2>2. QED
    BY <1>2, <2>1, SessionType, SendBegins DEF SetupSend, CanEnter
<1>3. ASSUME NEW t \in Tans,
             Verify(b, t) \/ SetupVerify(b, t) \/ \E n \in Numbers : SetupBoth(b, n, t)
      PROVE  Goal
  BY <1>3, EntersBegin DEF Entering
<1>4. QED
  BY <1>1, <1>2, <1>3

\* A request about a link that begins.
LEMMA LinkBegins ==
    ASSUME UserTypeOK, LinkTypeOK, NEW b \in Browsers,
           \/ \E u \in Users : AskLink(b, u) \/ AddUser(b, u)
           \/ \E l \in Links : UseLink(b, l)
    PROVE  \E r \in Requests :
             r.op \in {"askLink", "addUser", "useLink"} /\ Begin(b, r, session[b])
<1>1. ASSUME NEW u \in Users, NEW op \in {"askLink", "addUser"}, BeginLink(b, op, u)
      PROVE  \E r \in Requests :
               r.op \in {"askLink", "addUser", "useLink"} /\ Begin(b, r, session[b])
  <2>1. PICK l \in Links :
          Begin(b, [NoRequest EXCEPT !.op = op, !.user = u, !.link = l,
                      !.seen = {k \in LinksOf(u) : ~link[k].expired}], session[b])
    BY <1>1 DEF BeginLink
  <2> DEFINE r == [NoRequest EXCEPT !.op = op, !.user = u, !.link = l,
                     !.seen = {k \in LinksOf(u) : ~link[k].expired}]
  <2>2. r \in Requests /\ r.op = op
    BY NothingType DEF Requests, Ops, LinksOf, NoRequest
  <2>3. QED
    BY <2>1, <2>2
<1>2. ASSUME NEW l \in Links, UseLink(b, l)
      PROVE  \E r \in Requests :
               r.op \in {"askLink", "addUser", "useLink"} /\ Begin(b, r, session[b])
  <2> DEFINE r == [NoRequest EXCEPT !.op = "useLink", !.user = link[l].user, !.link = l]
  <2>1. link[l].user \in Users \cup {None}
    BY DEF LinkTypeOK, LinkRows
  <2>2. r \in Requests /\ r.op = "useLink"
    BY <2>1, NothingType DEF Requests, Ops, NoRequest
  <2>3. QED
    BY <1>2, <2>2 DEF UseLink
<1>3. QED
  BY <1>1, <1>2 DEF AskLink, AddUser

-----------------------------------------------------------------------------
(* Type correctness *)

\* No step of a login takes a variable out of its type: a request that sends or
\* verifies a token has one.
LEMMA LoginTypeStep ==
    ASSUME IInv, NEW b \in Browsers, LoginStep(b), UNCHANGED linkVars
    PROVE  TypeOK'
<1>1. UserTypeOK /\ LoginTypeOK /\ LinkTypeOK /\ LinkTypeOK'
  BY DEF IInv, TypeOK, LinkTypeOK, linkVars
<1> USE <1>1
<1>2. SUFFICES UserTypeOK' /\ LoginTypeOK'
  BY DEF TypeOK
<1>3. CASE \/ \E u \in Users : EnterPassword(b, u)
           \/ \E t \in Tans : Verify(b, t) \/ SetupVerify(b, t)
           \/ \E n \in Numbers : SetupSend(b, n) \/ \E t \in Tans : SetupBoth(b, n, t)
  <2>1. req' \in [Browsers -> Requests]
    BY <1>3, LoginBegins, Begins
  <2>2. /\ UNCHANGED <<userVars, session, faults, settings, tan, temp, queued, broken,
                       spent, reused>>
        /\ shared' = shared \/ \E t \in Tans : shared' = shared \cup {t}
    BY <1>3 DEF EnterPassword, Verify, SetupVerify, SetupBoth, BeginVerify, SetupSend,
                 loginVars
  <2>3. QED
    BY <2>1, <2>2 DEF UserTypeOK, LoginTypeOK, userVars
<1>4. CASE DifferentNumber(b)
  BY <1>4, SessionType DEF DifferentNumber, UserTypeOK, LoginTypeOK, Sessions, userVars,
                           loginVars
<1>5. CASE CommitEnter(b)
  BY <1>5, Advances DEF CommitEnter, Phases, UserTypeOK, LoginTypeOK, userVars, loginVars
<1>6. CASE CommitVerify(b) \/ CommitBoth(b)
  <2>1. req' \in [Browsers -> Requests]
    BY <1>6, Advances DEF CommitVerify, CommitBoth, Phases
  <2>2. PICK e \in Tans, u \in Users, n \in Numbers \cup {None} :
          req[b].entered = e /\ req[b].user = u /\ req[b].number = n
    BY <1>6, RequestType
       DEF IInv, LoginInv, VerifyOK, Verifier, CommitVerify, CommitBoth, LoginTypeOK
  <2>3. number' \in [Users -> Numbers \cup {None}]
    BY <1>6, <2>2 DEF CommitVerify, CommitBoth, Spend, UserTypeOK
  <2>4. /\ SpentTan(e) \in [Tans -> TanRows]
        /\ \A t \in Tans : SpentTan(e)[t].state = "row" =>
                              SpentTan(e)[t].user # None /\ SpentTan(e)[t].to # None
    <3>1. \A t \in Tans : tan[t] \in TanRows /\ [tan[t] EXCEPT !.expired = TRUE] \in TanRows
                          /\ [tan[t] EXCEPT !.expired = TRUE].state = tan[t].state
                          /\ [tan[t] EXCEPT !.expired = TRUE].user = tan[t].user
                          /\ [tan[t] EXCEPT !.expired = TRUE].to = tan[t].to
      BY DEF LoginTypeOK, TanRows
    <3>2. QED
      BY <3>1 DEF SpentTan, LoginTypeOK
  <2>5. /\ tan' \in [Tans -> TanRows]
        /\ \A t \in Tans : tan'[t].state = "row" => tan'[t].user # None /\ tan'[t].to # None
    <3>1. CASE CommitVerify(b)
      BY <2>2, <2>4, <3>1 DEF CommitVerify
    <3>2. CASE CommitBoth(b)
      <4>1. req[b].tan \in Tans /\ n \in Numbers
        BY <2>2, <3>2 DEF CommitBoth, IInv, LoginInv, SendOK, Sends
      <4>2. [state |-> "row", user |-> u, to |-> n, expired |-> FALSE] \in TanRows
        BY <4>1 DEF TanRows
      <4>3. tan' = [SpentTan(e) EXCEPT ![req[b].tan] =
                      [state |-> "row", user |-> u, to |-> n, expired |-> FALSE]]
        BY <2>2, <3>2 DEF CommitBoth, WithTan
      <4>4. QED
        BY <2>4, <4>1, <4>2, <4>3, NoneAssumption
    <3>3. QED
      BY <1>6, <3>1, <3>2
  <2>6. spent' \subseteq Browsers \X Tans /\ reused' \subseteq Tans
    <3>1. <<b, e>> \in Browsers \X Tans
      BY <2>2
    <3>2. spent' = spent \cup {<<b, e>>} /\ reused' \in {reused, reused \cup {e}}
      BY <1>6, <2>2 DEF CommitVerify, CommitBoth, Spend
    <3>3. QED
      BY <2>2, <3>1, <3>2 DEF LoginTypeOK
  <2>7. UserTypeOK'
    BY <1>6, <2>1, <2>3 DEF CommitVerify, CommitBoth, UserTypeOK
  <2>8. QED
    BY <1>6, <2>5, <2>6, <2>7 DEF CommitVerify, CommitBoth, LoginTypeOK
<1>7. CASE FailLogin(b) \/ RespondLogin(b)
  BY <1>7, Ends DEF FailLogin, RespondLogin, UserTypeOK, LoginTypeOK, userVars, loginVars
<1>8. ASSUME Sends(b)
       PROVE  req[b].tan \in Tans /\ req[b].user \in Users /\ req[b].number \in Numbers
  BY <1>8 DEF IInv, LoginInv, SendOK
<1>9. CASE Prepare(b)
  BY <1>8, <1>9, Advances DEF Prepare, Phases, UserTypeOK, LoginTypeOK, userVars
<1>10. CASE CommitToken(b)
  <2>1. req' \in [Browsers -> Requests]
    BY <1>10, Advances DEF CommitToken, Phases
  <2>2. [state |-> "row", user |-> req[b].user, to |-> req[b].number, expired |-> FALSE]
          \in TanRows
    BY <1>8, <1>10 DEF CommitToken, Sends, TanRows
  <2>3. tan' \in [Tans -> TanRows]
    BY <1>10, <2>2 DEF CommitToken, WithTan, LoginTypeOK
  <2>4. \A t \in Tans : tan'[t].state = "row" => tan'[t].user # None /\ tan'[t].to # None
    BY <1>8, <1>10, NoneAssumption DEF CommitToken, Sends, WithTan, LoginTypeOK
  <2>5. QED
    BY <1>10, <2>1, <2>3, <2>4 DEF CommitToken, UserTypeOK, LoginTypeOK, userVars
<1>11. CASE AbortToken(b)
  BY <1>11, Ends, FaultsAssumption
     DEF AbortToken, Fault, TempRemoved, UserTypeOK, LoginTypeOK, userVars
<1>12. CASE Finish(b)
  BY <1>8, <1>12, Ends DEF Finish, Finishes, UserTypeOK, LoginTypeOK, userVars
<1>13. CASE FinishFails(b)
  BY <1>8, <1>13, Ends, FaultsAssumption
     DEF FinishFails, Finishes, Fault, TempRemoved, UserTypeOK, LoginTypeOK, userVars
<1>14. CASE Crash(b)
  BY <1>8, <1>14, Ends, FaultsAssumption
     DEF Crash, Fault, UserTypeOK, LoginTypeOK, userVars
<1>15. QED
  BY <1>3, <1>4, <1>5, <1>6, <1>7, <1>9, <1>10, <1>11, <1>12, <1>13, <1>14
     DEF LoginStep

\* Nor does a step of a password link.
LEMMA LinkTypeStep ==
    ASSUME IInv, NEW b \in Browsers, LinkStep(b), UNCHANGED loginVars
    PROVE  TypeOK'
<1>1. UserTypeOK /\ LoginTypeOK /\ LinkTypeOK /\ LoginTypeOK'
  BY DEF IInv, TypeOK, LoginTypeOK, loginVars
<1> USE <1>1
<1>2. SUFFICES UserTypeOK' /\ LinkTypeOK'
  BY DEF TypeOK
<1>3. CASE \/ \E u \in Users : AskLink(b, u) \/ AddUser(b, u)
           \/ \E l \in Links : UseLink(b, l)
  <2>1. req' \in [Browsers -> Requests]
    BY <1>3, SessionType, LinkBegins, Begins
  <2>2. /\ UNCHANGED <<userVars, session, faults, link, mailed, uses>>
        /\ overlaps' = overlaps \/ \E l \in Links : overlaps' = overlaps \cup {l}
        /\ \/ older' = older
           \/ \E l \in Links, u \in Users : older' = [older EXCEPT ![l] = LinksOf(u)]
    BY <1>3 DEF AskLink, AddUser, BeginLink, UseLink
  <2>3. older' \in [Links -> SUBSET Links]
    BY <2>2 DEF LinkTypeOK, LinksOf
  <2>4. QED
    BY <2>1, <2>2, <2>3 DEF UserTypeOK, LinkTypeOK, userVars
<1>4. CASE SendMail(b)
  BY <1>4, Advances DEF SendMail, Phases, IInv, LinkInv, AskOK, UserTypeOK, LinkTypeOK, userVars
<1>5. CASE CommitLink(b)
  <2>1. req' \in [Browsers -> Requests]
    BY <1>5, Advances DEF CommitLink, Phases
  <2>2. req[b].user \in Users \cup {None}
    BY RequestType
  <2>3. WithLink(b) \in [Links -> LinkRows]
    BY <2>2 DEF WithLink, NoLink, LinkTypeOK, LinkRows
  <2>4. account' \in [Users -> {"none", "active", "deleted"}]
    BY <1>5 DEF CommitLink, UserTypeOK
  <2>5. QED
    BY <1>5, <2>1, <2>3, <2>4 DEF CommitLink, UserTypeOK, LinkTypeOK
<1>6. CASE CommitPassword(b)
  <2>1. req' \in [Browsers -> Requests]
    BY <1>6, Advances DEF CommitPassword, Phases
  <2>2. Consumed(req[b].link) \in [Links -> LinkRows]
    BY DEF Consumed, LinkTypeOK, LinkRows
  <2>3. uses' \in [Links -> 0 .. 2]
    <3>1. \A l \in Links : (IF uses[l] < 2 THEN uses[l] + 1 ELSE uses[l]) \in 0 .. 2
      BY DEF LinkTypeOK
    <3>2. QED
      BY <1>6, <3>1 DEF CommitPassword, LinkTypeOK
  <2>4. passwords' \subseteq Users
    BY <1>6 DEF CommitPassword, PasswordsWith, UserTypeOK, IInv, LinkInv, UseOK
  <2>5. QED
    BY <1>6, <2>1, <2>2, <2>3, <2>4 DEF CommitPassword, UserTypeOK, LinkTypeOK
<1>7. CASE FailLink(b)
  BY <1>7, Ends, FaultsAssumption
     DEF FailLink, Fault, UserTypeOK, LinkTypeOK, userVars, linkVars
<1>8. CASE RespondLink(b)
  BY <1>8, Ends DEF RespondLink, UserTypeOK, LinkTypeOK, userVars, linkVars
<1>9. QED
  BY <1>3, <1>4, <1>5, <1>6, <1>7, <1>8 DEF LinkStep

\* No step takes a variable out of its type.
LEMMA TypeStep == IInv /\ [Next]_vars => TypeOK'
<1>0. SUFFICES ASSUME IInv, [Next]_vars PROVE TypeOK'
  OBVIOUS
<1>1. UserTypeOK /\ LoginTypeOK /\ LinkTypeOK
  BY <1>0 DEF IInv, TypeOK
<1>2. ASSUME NEW b \in Browsers, Forget(b), UNCHANGED <<loginVars, linkVars>> PROVE TypeOK'
  <2>1. session' \in [Browsers -> Sessions]
    BY <1>1, <1>2 DEF Forget, UserTypeOK, Sessions
  <2>2. QED
    BY <1>1, <1>2, <2>1 DEF Forget, TypeOK, UserTypeOK, LoginTypeOK, LinkTypeOK, userVars,
                            loginVars, linkVars
<1>3. ASSUME NEW b \in Browsers, NEW u \in Users, DeleteUser(b, u) PROVE TypeOK'
  <2>1. UserTypeOK'
    BY <1>1, <1>3 DEF DeleteUser, UserTypeOK
  <2>2. tan' \in [Tans -> TanRows] /\ link' \in [Links -> LinkRows]
    <3>1. \A t \in Tans : tan[t] \in TanRows
                          /\ [tan[t] EXCEPT !.state = "deleted"] \in TanRows
      BY <1>1 DEF LoginTypeOK, TanRows
    <3>2. \A l \in Links : link[l] \in LinkRows
                           /\ [link[l] EXCEPT !.state = "deleted"] \in LinkRows
      BY <1>1 DEF LinkTypeOK, LinkRows
    <3>3. QED
      BY <1>3, <3>1, <3>2 DEF DeleteUser, TansWithout, LinksWithout
  <2>3. \A t \in Tans : tan'[t].state = "row" => tan'[t] = tan[t]
    BY <1>1, <1>3 DEF DeleteUser, TansWithout, LoginTypeOK, TanRows
  <2>4. LoginTypeOK' /\ LinkTypeOK'
    BY <1>1, <1>3, <2>2, <2>3 DEF DeleteUser, LoginTypeOK, LinkTypeOK
  <2>5. QED
    BY <2>1, <2>4 DEF TypeOK
<1>4. ASSUME NEW t \in Tans, ExpireTan(t), UNCHANGED linkVars PROVE TypeOK'
  <2>1. tan' \in [Tans -> TanRows]
    BY <1>1, <1>4 DEF ExpireTan, LoginTypeOK, TanRows
  <2>2. \A x \in Tans : tan'[x].state = tan[x].state /\ tan'[x].user = tan[x].user
                        /\ tan'[x].to = tan[x].to
    BY <1>1, <1>4 DEF ExpireTan, LoginTypeOK, TanRows
  <2>3. QED
    BY <1>1, <1>4, <2>1, <2>2 DEF ExpireTan, TypeOK, UserTypeOK, LoginTypeOK, LinkTypeOK,
                                  userVars, linkVars
<1>5. ASSUME NEW l \in Links, ExpireLink(l), UNCHANGED loginVars PROVE TypeOK'
  <2>1. link' \in [Links -> LinkRows]
    BY <1>1, <1>5 DEF ExpireLink, LinkTypeOK, LinkRows
  <2>2. QED
    BY <1>1, <1>5, <2>1 DEF ExpireLink, TypeOK, UserTypeOK, LoginTypeOK, LinkTypeOK,
                            userVars, loginVars
<1>6. CASE UNCHANGED vars
  BY <1>1, <1>6 DEF vars, TypeOK, UserTypeOK, LoginTypeOK, LinkTypeOK, userVars, loginVars,
                    linkVars
<1>7. QED
  BY <1>0, <1>2, <1>3, <1>4, <1>5, <1>6, LoginTypeStep, LinkTypeStep DEF Next

-----------------------------------------------------------------------------
(* Logins: what the steps of the other requests leave alone *)

\* Numbers that were called stay called, and who entered a token has entered it,
\* if the tokens that were sent keep their user and their number.
LEMMA KnownStays ==
    ASSUME TypeOK, queued \subseteq queued', spent \subseteq spent',
           settings' = settings,
           \A t \in queued : tan'[t].user = tan[t].user /\ tan'[t].to = tan[t].to
    PROVE  /\ \A n : Called(n) => Called(n)'
           /\ \A b, u : Witnessed(b, u) => Witnessed(b, u)'
           /\ \A b, s : KnownUser(b, s) => KnownUser(b, s)'
           /\ \A s : KnownNumber(s) => KnownNumber(s)'
<1>1. \A n : Called(n) => Called(n)'
  BY DEF Called
<1>2. \A b, u : Witnessed(b, u) => Witnessed(b, u)'
  BY DEF Witnessed
<1>3. QED
  BY <1>1, <1>2 DEF KnownUser, KnownNumber

\* A step of a browser that neither sends a token nor begins to verify one: its
\* session, and the session its request will save, know no one new.
Quiet(b) ==
    /\ UNCHANGED <<loginVars, number>>
    /\ \A u \in Users : Active(u) => Active(u)'
    /\ \A c \in Browsers \ {b} : req'[c] = req[c] /\ session'[c] = session[c]
    /\ ~Sends(b) /\ ~Sends(b)'
    /\ Verifier(b)' => /\ req'[b].op = req[b].op /\ req'[b].phase = req[b].phase
                       /\ req'[b].entered = req[b].entered
                       /\ req'[b].user = req[b].user /\ req'[b].number = req[b].number
                       /\ req'[b].after = req[b].after
    /\ KnownUser(b, session'[b]) /\ KnownNumber(session'[b])
    /\ Verifier(b)' \/ (KnownUser(b, req'[b].after) /\ KnownNumber(req'[b].after))

LEMMA QuietStep ==
    ASSUME IInv, NEW b \in Browsers, Quiet(b)
    PROVE  LoginInv'
<1>1. /\ \A n : Called(n)' <=> Called(n)
      /\ \A c, u : Witnessed(c, u)' <=> Witnessed(c, u)
      /\ \A c, s : KnownUser(c, s)' <=> KnownUser(c, s)
      /\ \A s : KnownNumber(s)' <=> KnownNumber(s)
      /\ \A t : IsSpent(t)' <=> IsSpent(t)
      /\ \A n : Reached(n)' <=> Reached(n)
  BY DEF Quiet, loginVars, Called, Witnessed, KnownUser, KnownNumber, IsSpent, Reached
<1>2. \A t : Sending(t)' <=> Sending(t)
  BY DEF Quiet, Sending, Sends
<1>3. ASSUME NEW c \in Browsers PROVE SendOK(c)'
  <2>1. CASE c = b
    BY <2>1 DEF Quiet, SendOK
  <2>2. CASE c # b
    BY <2>2 DEF IInv, LoginInv, Quiet, SendOK, Sends, loginVars
  <2>3. QED
    BY <2>1, <2>2
<1>4. ASSUME NEW c \in Browsers PROVE VerifyOK(c)'
  BY <1>1 DEF IInv, LoginInv, Quiet, VerifyOK, Verifier, Stores, loginVars
<1>5. ASSUME NEW c \in Browsers PROVE SessionOK(c)'
  <2>1. CASE c = b
    BY <1>1, <2>1 DEF IInv, LoginInv, Quiet, SessionOK, Verifier
  <2>2. CASE c # b
    BY <1>1, <2>2 DEF IInv, LoginInv, Quiet, SessionOK, Verifier
  <2>3. QED
    BY <2>1, <2>2
<1>6. ASSUME NEW t \in Tans PROVE TokenOK(t)'
  BY <1>1, <1>2 DEF IInv, LoginInv, TypeOK, LoginTypeOK, TanRows, Quiet, TokenOK, loginVars
<1>7. ASSUME NEW u \in Users PROVE NumberOK(u)'
  BY <1>1 DEF IInv, LoginInv, Quiet, NumberOK
<1>8. OneLoginPerToken'
  BY DEF IInv, LoginInv, Quiet, OneLoginPerToken, loginVars
<1>9. QED
  BY <1>3, <1>4, <1>5, <1>6, <1>7, <1>8 DEF LoginInv

\* What a browser without a request has in it, and what its request has.
LEMMA SessionKnown ==
    ASSUME IInv, NEW b \in Browsers
    PROVE  /\ KnownUser(b, session[b]) /\ KnownNumber(session[b])
           /\ KnownUser(b, NoSession) /\ KnownNumber(NoSession)
           /\ req[b].phase = "idle" => req[b] = NoRequest
           /\ req[b].phase = "committed" \/ ~Verifier(b) => KnownUser(b, req[b].after)
           /\ req[b].op # "setupSend" => KnownNumber(req[b].after)
BY DEF IInv, LoginInv, SessionOK, IdleOK, IsIdle, KnownUser, KnownNumber, NoSession

\* The steps of a login that concern no token.
LEMMA QuietLogin ==
    ASSUME IInv, NEW b \in Browsers, UNCHANGED linkVars,
           \/ \E u \in Users : EnterPassword(b, u) /\ (settings.passwordOnly \/ number[u] = None)
           \/ DifferentNumber(b) \/ CommitEnter(b) \/ FailLogin(b) \/ RespondLogin(b)
           \/ Crash(b) /\ ~Sends(b)
           \/ Forget(b) /\ UNCHANGED loginVars
    PROVE  Quiet(b)
<1>1. UserTypeOK
  BY DEF IInv, TypeOK
<1> USE <1>1
<1>2. ASSUME NEW u \in Users, EnterPassword(b, u), settings.passwordOnly \/ number[u] = None
      PROVE  Quiet(b)
  <2>1. PICK r \in {Request("enter", u), Request("setup", u)}, s \in Sessions :
          /\ Begin(b, r, s)
          /\ KnownUser(b, s) /\ KnownNumber(s)
    <3>1. /\ [session[b] EXCEPT !.userid = u] \in Sessions
          /\ [session[b] EXCEPT !.mtan_setup_user = u] \in Sessions
      BY SessionType DEF Sessions
    <3>2. /\ settings.passwordOnly => KnownUser(b, [session[b] EXCEPT !.userid = u])
          /\ KnownNumber([session[b] EXCEPT !.userid = u])
          /\ KnownUser(b, [session[b] EXCEPT !.mtan_setup_user = u])
          /\ KnownNumber([session[b] EXCEPT !.mtan_setup_user = u])
      BY SessionKnown, SessionType DEF KnownUser, KnownNumber, Sessions
    <3>3. QED
      BY <1>2, <3>1, <3>2 DEF EnterPassword
  <2>2. r \in Requests /\ r.op \in {"enter", "setup"}
    BY <2>1, NothingType DEF Request, Requests, Ops
  <2>3. req'[b].op \in {"enter", "setup"} /\ req'[b].after = s /\ req[b].phase = "idle"
        /\ \A c \in Browsers \ {b} : req'[c] = req[c]
    BY <2>1, <2>2, Begins
  <2>4. req[b].op = "none"
    BY <2>3, SessionKnown DEF NoRequest
  <2>5. QED
    BY <1>2, <2>1, <2>3, <2>4, SessionKnown
       DEF EnterPassword, Quiet, Sends, Verifier, userVars, Active
<1>3. CASE DifferentNumber(b) \/ (Forget(b) /\ UNCHANGED loginVars)
  <2>1. req[b] = NoRequest
    BY <1>3, SessionKnown DEF DifferentNumber, Forget, IsIdle
  <2>2. KnownUser(b, session'[b]) /\ KnownNumber(session'[b])
    BY <1>3, SessionType, SessionKnown
       DEF DifferentNumber, Forget, KnownUser, KnownNumber, UserTypeOK, Sessions
  <2>3. QED
    BY <1>3, <2>1, <2>2, SessionKnown DEF DifferentNumber, Forget, Quiet, Sends, Verifier,
       userVars, Active, NoRequest, UserTypeOK
<1>4. CASE CommitEnter(b)
  <2>1. KnownUser(b, req[b].after) /\ KnownNumber(req[b].after)
    BY <1>4 DEF CommitEnter, IInv, LoginInv, SessionOK, Verifier
  <2>2. QED
    BY <1>4, <2>1, Advances, SessionKnown
       DEF CommitEnter, Quiet, Sends, Verifier, userVars, Active, Phases
<1>5. CASE FailLogin(b) \/ RespondLogin(b) \/ (Crash(b) /\ ~Sends(b))
  <2>1. ~Sends(b) /\ ~Sends(b)' /\ ~Verifier(b)' /\ req'[b].after = NoSession
    BY <1>5, Ends DEF FailLogin, RespondLogin, Crash, Sends, Verifier, NoRequest
  <2>2. KnownUser(b, session'[b]) /\ KnownNumber(session'[b])
    BY <1>5, Ends, SessionKnown DEF FailLogin, RespondLogin, Crash
  <2>3. UNCHANGED <<userVars, loginVars>>
    BY <1>5 DEF FailLogin, RespondLogin, Crash, userVars, loginVars
  <2>4. QED
    BY <1>5, <2>1, <2>2, <2>3, Ends, SessionKnown
       DEF FailLogin, RespondLogin, Crash, Quiet, userVars, Active
<1>6. QED
  BY <1>2, <1>3, <1>4, <1>5

\* No step of a password link concerns a token.
LEMMA QuietLink ==
    ASSUME IInv, NEW b \in Browsers, LinkStep(b), UNCHANGED loginVars
    PROVE  Quiet(b)
<1>1. UserTypeOK
  BY DEF IInv, TypeOK
<1> USE <1>1
<1>2. CASE \/ \E u \in Users : AskLink(b, u) \/ AddUser(b, u)
           \/ \E l \in Links : UseLink(b, l)
  <2>1. PICK r \in Requests :
          r.op \in {"askLink", "addUser", "useLink"} /\ Begin(b, r, session[b])
    BY <1>2, LinkBegins DEF IInv, TypeOK
  <2>2. req'[b].op = r.op /\ req'[b].after = session[b] /\ req[b].phase = "idle"
        /\ \A c \in Browsers \ {b} : req'[c] = req[c]
    BY <2>1, SessionType, Begins
  <2>3. req[b].op = "none"
    BY <2>2, SessionKnown DEF NoRequest
  <2>4. UNCHANGED <<userVars, session>>
    BY <1>2 DEF AskLink, AddUser, BeginLink, UseLink
  <2>5. QED
    BY <2>1, <2>2, <2>3, <2>4, SessionKnown DEF Quiet, Sends, Verifier, userVars, Active
<1>3. CASE SendMail(b) \/ CommitLink(b) \/ CommitPassword(b)
  <2>1. PICK p \in {"prepared", "committed"} : Advance(b, p)
    BY <1>3 DEF SendMail, CommitLink, CommitPassword
  <2>2. req[b].op \in {"askLink", "addUser", "useLink"}
    BY <1>3 DEF SendMail, CommitLink, CommitPassword, IsMailed, Asks
  <2>3. /\ number' = number /\ session' = session
        /\ \A u \in Users : Active(u) => Active(u)'
    BY <1>3 DEF SendMail, CommitLink, CommitPassword, userVars, Active, UserTypeOK
  <2>4. KnownUser(b, req[b].after) /\ KnownNumber(req[b].after)
    BY <2>2 DEF IInv, LoginInv, SessionOK, Verifier
  <2>5. /\ req'[b].op = req[b].op /\ req'[b].after = req[b].after
        /\ \A c \in Browsers \ {b} : req'[c] = req[c]
    BY <2>1, Advances DEF Phases
  <2>6. QED
    BY <2>2, <2>3, <2>4, <2>5, SessionKnown DEF Quiet, Sends, Verifier
<1>4. CASE FailLink(b) \/ RespondLink(b)
  <2>1. ~Sends(b) /\ ~Sends(b)' /\ ~Verifier(b)' /\ req'[b].after = NoSession
    BY <1>4, Ends DEF FailLink, RespondLink, Asks, Sends, Verifier, NoRequest
  <2>2. KnownUser(b, session'[b]) /\ KnownNumber(session'[b])
    BY <1>4, Ends, SessionKnown DEF FailLink, RespondLink, Asks
  <2>3. UNCHANGED userVars
    BY <1>4 DEF FailLink, RespondLink, userVars
  <2>4. QED
    BY <1>4, <2>1, <2>2, <2>3, Ends, SessionKnown
       DEF FailLink, RespondLink, Quiet, userVars, Active
<1>5. QED
  BY <1>2, <1>3, <1>4 DEF LinkStep

-----------------------------------------------------------------------------
(* Logins: the steps of a token *)

\* A token that a request takes is nobody's, and has no SMS.
LEMMA FreshToken ==
    ASSUME IInv, NEW t \in Tans, Fresh(t)
    PROVE  /\ t \notin queued /\ t \notin temp \ broken /\ ~Sending(t) /\ ~IsSpent(t)
           /\ \A c \in Browsers : req[c].tan # t
BY DEF IInv, LoginInv, TokenOK, Fresh, Reserved, Sending

\* A request begins that sends a token.
LEMMA SendTokenStep ==
    ASSUME IInv, NEW b \in Browsers, NEW op \in {"sendTan", "setupSend"},
           NEW u \in Users, NEW n \in Numbers, NEW s \in Sessions, SendToken(b, op, u, n, s),
           KnownUser(b, s),
           KnownNumber(s) \/ (op = "setupSend" /\ s.mtan_mobile_number = n),
           UNCHANGED <<userVars, session, loginVars>>
    PROVE  LoginInv'
<1>1. UserTypeOK
  BY DEF IInv, TypeOK
<1>2. PICK t \in Tans, r \in Requests :
        /\ Fresh(t) /\ Begin(b, r, s)
        /\ r.op = op /\ r.user = u /\ r.tan = t /\ r.number = n
  BY SendBegins
<1>3. /\ req'[b].op = op /\ req'[b].phase = "begun" /\ req'[b].user = u
      /\ req'[b].tan = t /\ req'[b].number = n /\ req'[b].after = s
      /\ req[b].phase = "idle"
      /\ \A c \in Browsers \ {b} : req'[c] = req[c]
  BY <1>1, <1>2, Begins
<1>4. req[b].op = "none"
  BY <1>3, SessionKnown DEF NoRequest
<1>5. /\ \A m : Called(m)' <=> Called(m)
      /\ \A c, v : Witnessed(c, v)' <=> Witnessed(c, v)
      /\ \A c, x : KnownUser(c, x)' <=> KnownUser(c, x)
      /\ \A x : KnownNumber(x)' <=> KnownNumber(x)
      /\ \A x : IsSpent(x)' <=> IsSpent(x)
      /\ \A m : Reached(m)' <=> Reached(m)
  BY DEF loginVars, Called, Witnessed, KnownUser, KnownNumber, IsSpent, Reached
<1>6. \A x : Sending(x) => Sending(x)'
  BY <1>3, <1>4 DEF Sending, Sends
<1>7. ASSUME NEW c \in Browsers PROVE SendOK(c)'
  <2>1. CASE c = b
    BY <1>2, <1>3, <2>1, FreshToken DEF SendOK, Sends, Fresh, loginVars
  <2>2. CASE c # b
    BY <1>2, <1>3, <1>4, <2>2, FreshToken DEF IInv, LoginInv, SendOK, Sends, loginVars
  <2>3. QED
    BY <2>1, <2>2
<1>8. ASSUME NEW c \in Browsers PROVE VerifyOK(c)'
  BY <1>3, <1>4, <1>5 DEF IInv, LoginInv, VerifyOK, Verifier, Stores, loginVars
<1>9. ASSUME NEW c \in Browsers PROVE SessionOK(c)'
  <2>1. CASE c = b
    BY <1>3, <1>5, <2>1, SessionKnown DEF SessionOK, Verifier
  <2>2. CASE c # b
    BY <1>3, <1>5, <2>2 DEF IInv, LoginInv, SessionOK, Verifier
  <2>3. QED
    BY <2>1, <2>2
<1>10. ASSUME NEW x \in Tans PROVE TokenOK(x)'
  BY <1>5, <1>6 DEF IInv, LoginInv, TokenOK, loginVars, userVars, Active
<1>11. ASSUME NEW v \in Users PROVE NumberOK(v)'
  BY <1>5 DEF IInv, LoginInv, NumberOK, userVars, Active
<1>12. OneLoginPerToken'
  BY DEF IInv, LoginInv, OneLoginPerToken, loginVars
<1>13. QED
  BY <1>7, <1>8, <1>9, <1>10, <1>11, <1>12 DEF LoginInv

\* A request begins that has verified a token, and may send another.
LEMMA VerifyStep ==
    ASSUME IInv, NEW b \in Browsers, NEW t \in Tans, NEW r \in Requests, NEW s \in Sessions,
           Entering(b, r, t, s)
    PROVE  LoginInv'
<1>1. UserTypeOK
  BY DEF IInv, TypeOK
<1>2. /\ req'[b].op = r.op /\ req'[b].phase = "begun" /\ req'[b].user = r.user
      /\ req'[b].tan = r.tan /\ req'[b].entered = t /\ req'[b].number = r.number
      /\ req'[b].after = s /\ req[b].phase = "idle"
      /\ \A c \in Browsers \ {b} : req'[c] = req[c]
  BY <1>1, Begins DEF Entering
<1>3. req[b].op = "none"
  BY <1>2, SessionKnown DEF NoRequest
<1>4. /\ UNCHANGED <<userVars, session, settings, tan, temp, queued, broken, spent, reused>>
      /\ r.user \in Users /\ t \in queued /\ Verifies(r.user, t) /\ shared \subseteq shared'
      /\ Verifying(t) => t \in shared'
      /\ r.op \in {"verify", "setupVerify", "setupBoth"} /\ s.userid = r.user
      /\ s.mtan_mobile_number \in {None, session[b].mtan_mobile_number}
      /\ r.op = "setupVerify" => r.number = session[b].mtan_mobile_number /\ r.number # None
      /\ r.op = "setupBoth" => r.tan \in Tans /\ Fresh(r.tan) /\ r.number \in Numbers
  BY DEF Entering
<1>5. /\ \A m : Called(m)' <=> Called(m)
      /\ \A c, v : Witnessed(c, v)' <=> Witnessed(c, v)
      /\ \A c, x : KnownUser(c, x)' <=> KnownUser(c, x)
      /\ \A x : KnownNumber(x)' <=> KnownNumber(x)
      /\ \A x : IsSpent(x)' <=> IsSpent(x)
      /\ \A m : Reached(m)' <=> Reached(m)
  BY <1>4 DEF Called, Witnessed, KnownUser, KnownNumber, IsSpent, Reached
<1>6. \A x : Sending(x) => Sending(x)'
  BY <1>2, <1>3 DEF Sending, Sends
<1>7. ASSUME NEW c \in Browsers PROVE SendOK(c)'
  <2>1. r.op = "setupBoth" => r.tan \notin queued /\ tan[r.tan].state = "none"
                              /\ \A d \in Browsers : req[d].tan # r.tan
    BY <1>4, FreshToken DEF Fresh
  <2>2. CASE c = b
    BY <1>2, <1>4, <2>1, <2>2 DEF SendOK, Sends
  <2>3. CASE c # b
    BY <1>2, <1>3, <1>4, <2>1, <2>3 DEF IInv, LoginInv, SendOK, Sends
  <2>4. QED
    BY <2>2, <2>3
<1>8. ~IsSpent(t)
  BY <1>4 DEF IInv, LoginInv, TokenOK, Verifies
<1>9. ASSUME NEW c \in Browsers PROVE VerifyOK(c)'
  <2>1. CASE c = b
    <3>1. Stores(b)' => r.number # None
      BY <1>2, <1>4, NoneAssumption DEF Stores
    <3>2. \A d \in Browsers \ {b} : Verifier(d)' /\ req'[d].entered = t => t \in shared'
      BY <1>2, <1>4 DEF Verifying
    <3>3. QED
      BY <1>2, <1>4, <1>5, <1>8, <2>1, <3>1, <3>2 DEF VerifyOK, Verifies
  <2>2. CASE c # b
    BY <1>2, <1>3, <1>4, <1>5, <2>2
       DEF IInv, LoginInv, VerifyOK, Verifier, Verifying, Stores
  <2>3. QED
    BY <2>1, <2>2
<1>10. ASSUME NEW c \in Browsers PROVE SessionOK(c)'
  <2>1. CASE c = b
    BY <1>2, <1>4, <1>5, <2>1, SessionKnown DEF SessionOK, Verifier, KnownNumber
  <2>2. CASE c # b
    BY <1>2, <1>4, <1>5, <2>2 DEF IInv, LoginInv, SessionOK, Verifier
  <2>3. QED
    BY <2>1, <2>2
<1>11. ASSUME NEW x \in Tans PROVE TokenOK(x)'
  BY <1>4, <1>5, <1>6 DEF IInv, LoginInv, TokenOK, userVars, Active
<1>12. ASSUME NEW v \in Users PROVE NumberOK(v)'
  BY <1>4, <1>5 DEF IInv, LoginInv, NumberOK, userVars
<1>13. OneLoginPerToken'
  BY <1>4 DEF IInv, LoginInv, OneLoginPerToken
<1>14. QED
  BY <1>7, <1>9, <1>10, <1>11, <1>12, <1>13 DEF LoginInv

\* What a request that sends a token has.
LEMMA SenderHas ==
    ASSUME IInv, NEW b \in Browsers, Sends(b)
    PROVE  \E t \in Tans, n \in Numbers :
             /\ req[b].tan = t /\ req[b].user \in Users /\ req[b].number = n
             /\ t \notin queued
             /\ req[b].phase # "committed" => tan[t].state = "none" /\ ~IsSpent(t)
             /\ req[b].phase = "committed" => tan[t].state # "none" /\ tan[t].to = n
             /\ \A c \in Browsers \ {b} : Sends(c) => req[c].tan # t
             /\ \A c \in Browsers : Verifier(c) => req[c].entered # t
<1>1. req[b].phase # "idle"
  BY DEF IInv, IdleOK, IsIdle, NoRequest, Sends
<1>2. req[b].phase \in {"begun", "prepared", "committed"}
  BY <1>1, RequestType DEF IInv, TypeOK, Phases
<1>3. \A t \in Tans : IsSpent(t) => tan[t].state # "none"
  BY DEF IInv, LoginInv, TokenOK
<1>4. \A c \in Browsers : Verifier(c) => req[c].entered \in queued
  BY DEF IInv, LoginInv, VerifyOK
<1>5. QED
  BY <1>2, <1>3, <1>4 DEF IInv, LoginInv, SendOK

\* A token is spent, the number of a set-up is stored, and a request that sends a
\* token as well has the row of that one.
LEMMA SpendStep ==
    ASSUME IInv, NEW b \in Browsers, CommitVerify(b) \/ CommitBoth(b)
    PROVE  LoginInv'
<1>1. UserTypeOK /\ LoginTypeOK
  BY DEF IInv, TypeOK
<1>2. PICK t \in Tans, u \in Users :
      /\ req[b].entered = t /\ req[b].user = u
      /\ t \in queued /\ tan[t].user = u /\ tan[t].state # "none" /\ Active(u)
      /\ Verifier(b) /\ req[b].phase # "committed"
      /\ req[b].op = "setupVerify" => Called(req[b].number)
      /\ Stores(b) => req[b].number # None
      /\ IsSpent(t) => t \in shared
  BY <1>1 DEF CommitVerify, CommitBoth, Votes, Spend, CanSpend, IInv, LoginInv, VerifyOK,
              SessionOK, TokenOK, Verifier, LoginTypeOK
<1>3. /\ \A c \in Browsers \ {b} : req'[c] = req[c]
      /\ req'[b].op = req[b].op /\ req'[b].phase = "committed" /\ req'[b].entered = t
      /\ req'[b].user = u /\ req'[b].number = req[b].number /\ req'[b].tan = req[b].tan
      /\ req'[b].after = req[b].after
  BY <1>1, <1>2, Advances DEF CommitVerify, CommitBoth, Phases
<1>4. /\ UNCHANGED <<account, passwords, session, settings, temp, queued, broken, shared>>
      /\ spent' = spent \cup {<<b, t>>}
      /\ reused' = IF IsSpent(t) THEN reused \cup {t} ELSE reused
  BY <1>2 DEF CommitVerify, CommitBoth, Spend, IsSpent
<1>5. /\ Sends(b) => /\ req[b].op = "setupBoth" /\ req[b].tan \in Tans \ queued
                     /\ tan[req[b].tan].state = "none" /\ req[b].number \in Numbers
                     /\ \A c \in Browsers \ {b} : Sends(c) => req[c].tan # req[b].tan
                     /\ \A c \in Browsers : Verifier(c) => req[c].entered # req[b].tan
  <2>1. ASSUME Sends(b)
        PROVE  /\ req[b].op = "setupBoth" /\ req[b].tan \in Tans \ queued
               /\ tan[req[b].tan].state = "none" /\ req[b].number \in Numbers
               /\ \A c \in Browsers \ {b} : Sends(c) => req[c].tan # req[b].tan
               /\ \A c \in Browsers : Verifier(c) => req[c].entered # req[b].tan
    BY <1>2, <2>1, SenderHas DEF Sends, Verifier
  <2>2. QED
    BY <2>1
<1>6. /\ SpentTan(t) \in [Tans -> TanRows] /\ SpentTan(t)[t].expired
      /\ \A x \in Tans : /\ SpentTan(t)[x].state = tan[x].state
                         /\ SpentTan(t)[x].user = tan[x].user
                         /\ SpentTan(t)[x].to = tan[x].to
                         /\ tan[x].expired => SpentTan(t)[x].expired
  BY <1>1 DEF SpentTan, LoginTypeOK, TanRows
<1>7. /\ ~Sends(b) => tan' = SpentTan(t)
      /\ Sends(b) => tan' = [SpentTan(t) EXCEPT ![req[b].tan] =
                               [state |-> "row", user |-> u, to |-> req[b].number,
                                expired |-> FALSE]]
  BY <1>2 DEF CommitVerify, CommitBoth, WithTan, Sends
<1>8. /\ \A x \in Tans : ~(Sends(b) /\ x = req[b].tan) =>
            /\ tan'[x].state = tan[x].state /\ tan'[x].user = tan[x].user
            /\ tan'[x].to = tan[x].to
            /\ tan[x].expired => tan'[x].expired
      /\ Sends(b) => /\ tan'[req[b].tan].state = "row" /\ tan'[req[b].tan].user = u
                     /\ tan'[req[b].tan].to = req[b].number
      /\ tan'[t].expired
  <2>1. CASE Sends(b)
    <3>1. req[b].tan \in Tans /\ req[b].tan # t
      BY <1>2, <1>5, <2>1
    <3>2. QED
      BY <1>6, <1>7, <2>1, <3>1
  <2>2. CASE ~Sends(b)
    BY <1>6, <1>7, <2>2
  <2>3. QED
    BY <2>1, <2>2
<1>9. \A x \in Tans : tan[x].state # "none" => ~(Sends(b) /\ x = req[b].tan)
  BY <1>5
<1>10. /\ \A m : Called(m) => Called(m)'
       /\ \A c, v : Witnessed(c, v) => Witnessed(c, v)'
       /\ \A c, x : KnownUser(c, x) => KnownUser(c, x)'
       /\ \A x : KnownNumber(x) => KnownNumber(x)'
  <2>1. queued \subseteq queued' /\ spent \subseteq spent' /\ settings' = settings
    BY <1>4
  <2>2. \A x \in queued : tan'[x].user = tan[x].user /\ tan'[x].to = tan[x].to
    BY <1>1, <1>5, <1>8 DEF LoginTypeOK
  <2>3. TypeOK
    BY DEF IInv
  <2>4. QED
    BY <2>1, <2>2, <2>3, KnownStays
<1>11. \A m : Reached(m) => Reached(m)'
  BY <1>8, <1>9 DEF Reached
<1>12. Stores(b) => \E x \in Tans : tan'[x].state # "none" /\ tan'[x].to = req[b].number
  <2>1. CASE req[b].op = "setupVerify"
    BY <1>1, <1>2, <1>8, <1>9, <2>1 DEF Called, IInv, LoginInv, TokenOK, LoginTypeOK
  <2>2. CASE req[b].op = "setupBoth"
    BY <1>5, <1>8, <2>2 DEF Sends
  <2>3. QED
    BY <2>1, <2>2 DEF Stores
<1>13. Witnessed(b, u)'
  BY <1>2, <1>4, <1>8, <1>9 DEF Witnessed
<1>14. \A x : IsSpent(x)' <=> IsSpent(x) \/ x = t
  BY <1>4 DEF IsSpent
<1>15. \A x : Sending(x)' <=> Sending(x)
  BY <1>3 DEF Sending, Sends
<1>16. number' = IF Stores(b) THEN [number EXCEPT ![u] = req[b].number] ELSE number
  BY <1>2 DEF CommitVerify, CommitBoth, Spend
<1>17. ASSUME NEW c \in Browsers PROVE SendOK(c)'
  <2>1. CASE c = b
    BY <1>2, <1>3, <1>4, <1>5, <1>8, <2>1 DEF SendOK, Sends
  <2>2. CASE c # b
    <3>1. SendOK(c)
      BY DEF IInv, LoginInv
    <3>2. Sends(c) => ~(Sends(b) /\ req[c].tan = req[b].tan)
      BY <1>5, <2>2
    <3>3. QED
      BY <1>3, <1>4, <1>8, <2>2, <3>1, <3>2 DEF SendOK, Sends
  <2>3. QED
    BY <2>1, <2>2
<1>18. ASSUME NEW c \in Browsers PROVE VerifyOK(c)'
  <2>1. CASE c = b
    BY <1>2, <1>3, <1>4, <1>8, <1>9, <2>1 DEF IInv, LoginInv, VerifyOK, Verifier, Stores
  <2>2. CASE c # b
    <3>1. VerifyOK(c)
      BY DEF IInv, LoginInv
    <3>2. Verifier(c) => /\ req[c].entered \in Tans
                         /\ tan'[req[c].entered].user = tan[req[c].entered].user
      BY <1>1, <1>5, <1>8, <3>1 DEF VerifyOK, LoginTypeOK
    <3>3. Verifier(c) /\ req[c].entered = t => t \in shared
      BY <1>2, <2>2, <3>1 DEF VerifyOK
    <3>4. QED
      BY <1>2, <1>3, <1>4, <1>14, <2>2, <3>1, <3>2, <3>3 DEF VerifyOK, Verifier, Stores
  <2>3. QED
    BY <2>1, <2>2
<1>19. ASSUME NEW c \in Browsers PROVE SessionOK(c)'
  <2>1. KnownUser(c, session[c]) /\ KnownNumber(session[c])
    BY SessionKnown
  <2>2. CASE c = b
    <3>1. KnownNumber(req[b].after)
      BY <1>2, SessionKnown DEF Verifier
    <3>2. KnownUser(b, req[b].after)'
      <4>1. KnownUser(b, req[b].after) \/ req[b].after.userid = u
        BY <1>2 DEF IInv, LoginInv, SessionOK
      <4>2. QED
        BY <1>3, <1>10, <1>13, <4>1 DEF KnownUser
    <3>3. QED
      BY <1>2, <1>3, <1>4, <1>10, <2>1, <2>2, <3>1, <3>2
         DEF IInv, LoginInv, SessionOK, Verifier
  <2>3. CASE c # b
    BY <1>3, <1>4, <1>10, <2>1, <2>3 DEF IInv, LoginInv, SessionOK, Verifier
  <2>4. QED
    BY <2>2, <2>3
<1>20. ASSUME NEW x \in Tans PROVE TokenOK(x)'
  <2>1. CASE Sends(b) /\ x = req[b].tan
    <3>1. Sending(x)
      BY <2>1 DEF Sending
    <3>2. ~IsSpent(x) /\ x # t /\ x \notin queued
      BY <1>2, <1>5, <2>1 DEF IInv, LoginInv, TokenOK
    <3>3. QED
      BY <1>2, <1>4, <1>8, <1>14, <1>15, <2>1, <3>1, <3>2
         DEF IInv, LoginInv, TokenOK, Active
  <2>2. CASE ~(Sends(b) /\ x = req[b].tan)
    BY <1>2, <1>4, <1>8, <1>14, <1>15, <2>2 DEF IInv, LoginInv, TokenOK, Active
  <2>3. QED
    BY <2>1, <2>2
<1>21. ASSUME NEW v \in Users PROVE NumberOK(v)'
  <2>1. CASE Stores(b) /\ v = u
    BY <1>1, <1>12, <1>16, <2>1 DEF NumberOK, Reached, UserTypeOK
  <2>2. CASE ~(Stores(b) /\ v = u)
    BY <1>1, <1>11, <1>16, <2>2 DEF IInv, LoginInv, NumberOK, UserTypeOK
  <2>3. QED
    BY <2>1, <2>2
<1>22. OneLoginPerToken'
  BY <1>2, <1>4 DEF IInv, LoginInv, OneLoginPerToken
<1>23. QED
  BY <1>17, <1>18, <1>19, <1>20, <1>21, <1>22 DEF LoginInv

\* A temporary file is written, or the database commits the token's row.
LEMMA SendGoesOn ==
    ASSUME IInv, NEW b \in Browsers, Prepare(b) \/ CommitToken(b)
    PROVE  LoginInv'
<1>1. UserTypeOK /\ LoginTypeOK /\ Sends(b)
  BY DEF IInv, TypeOK, Prepare, CommitToken, Sends
<1>2. PICK t \in Tans, n \in Numbers :
        /\ req[b].tan = t /\ req[b].user \in Users /\ req[b].number = n
        /\ t \notin queued
        /\ req[b].phase # "committed" => tan[t].state = "none" /\ ~IsSpent(t)
        /\ req[b].phase = "committed" => tan[t].state # "none" /\ tan[t].to = n
        /\ \A c \in Browsers \ {b} : Sends(c) => req[c].tan # t
        /\ \A c \in Browsers : Verifier(c) => req[c].entered # t
  BY <1>1, SenderHas
<1>3. tan[t].state = "none" /\ ~IsSpent(t)
  BY <1>2 DEF Prepare, CommitToken, Votes
<1>4. PICK p \in {"prepared", "committed"} :
        /\ Advance(b, p)
        /\ p = "prepared" => tan' = tan
        /\ p = "committed" => /\ Active(req[b].user)
                              /\ tan' = [tan EXCEPT ![t] =
                                   [state |-> "row", user |-> req[b].user, to |-> n,
                                    expired |-> FALSE]]
        /\ req[b].phase # "committed"
        /\ p = "committed" => req[b].op # "setupBoth"
  BY <1>2 DEF Prepare, CommitToken, Votes, WithTan
<1>5. /\ UNCHANGED <<userVars, session, settings, queued, broken, spent, shared, reused>>
      /\ temp' \in {temp, temp \cup {t}}
  BY <1>2 DEF Prepare, CommitToken
<1>6. /\ \A c \in Browsers \ {b} : req'[c] = req[c]
      /\ req'[b].op = req[b].op /\ req'[b].phase = p /\ req'[b].tan = t
      /\ req'[b].user = req[b].user /\ req'[b].number = n
      /\ req'[b].entered = req[b].entered /\ req'[b].after = req[b].after
  BY <1>1, <1>2, <1>4, Advances DEF Phases
<1>7. /\ \A x \in Tans \ {t} : tan'[x] = tan[x]
      /\ p = "prepared" => tan'[t] = tan[t]
      /\ p = "committed" => /\ tan'[t].state = "row" /\ tan'[t].to = n
                            /\ tan'[t].user = req[b].user
  BY <1>1, <1>2, <1>4 DEF LoginTypeOK
<1>8. /\ \A m : Called(m) => Called(m)'
      /\ \A c, v : Witnessed(c, v) => Witnessed(c, v)'
      /\ \A c, x : KnownUser(c, x) => KnownUser(c, x)'
      /\ \A x : KnownNumber(x) => KnownNumber(x)'
  <2>1. queued \subseteq queued' /\ spent \subseteq spent' /\ settings' = settings
    BY <1>5
  <2>2. \A x \in queued : tan'[x].user = tan[x].user /\ tan'[x].to = tan[x].to
    BY <1>1, <1>2, <1>7 DEF LoginTypeOK
  <2>3. TypeOK
    BY DEF IInv
  <2>4. QED
    BY <2>1, <2>2, <2>3, KnownStays
<1>9. (\A x : Sending(x)' <=> Sending(x)) /\ (\A x : IsSpent(x)' <=> IsSpent(x))
  BY <1>2, <1>5, <1>6 DEF Sending, Sends, IsSpent
<1>10. ASSUME NEW c \in Browsers PROVE SendOK(c)'
  <2>1. CASE c = b
    BY <1>2, <1>3, <1>5, <1>6, <1>7, <2>1 DEF SendOK, Sends
  <2>2. CASE c # b
    BY <1>1, <1>2, <1>5, <1>6, <1>7, <2>2 DEF IInv, LoginInv, SendOK, Sends
  <2>3. QED
    BY <2>1, <2>2
<1>11. ASSUME NEW c \in Browsers PROVE VerifyOK(c)'
  <2>1. Verifier(b) => p = "prepared"
    BY <1>1, <1>4 DEF Sends, Verifier
  <2>2. QED
    BY <1>1, <1>2, <1>4, <1>5, <1>6, <1>7, <1>9, <2>1
       DEF IInv, LoginInv, VerifyOK, Verifier, Stores, LoginTypeOK
<1>12. ASSUME NEW c \in Browsers PROVE SessionOK(c)'
  <2>1. CASE c = b
    BY <1>1, <1>2, <1>4, <1>5, <1>6, <1>8, <2>1
       DEF IInv, LoginInv, SessionOK, Verifier, Sends
  <2>2. CASE c # b
    BY <1>5, <1>6, <1>8, <2>2 DEF IInv, LoginInv, SessionOK, Verifier
  <2>3. QED
    BY <2>1, <2>2
<1>13. ASSUME NEW x \in Tans PROVE TokenOK(x)'
  <2>1. CASE x = t
    <3>1. Sending(t)
      BY <1>1, <1>2 DEF Sending
    <3>2. QED
      BY <1>2, <1>3, <1>4, <1>5, <1>7, <1>9, <2>1, <3>1
         DEF IInv, LoginInv, TokenOK, userVars, Active
  <2>2. CASE x # t
    BY <1>5, <1>7, <1>9, <2>2 DEF IInv, LoginInv, TokenOK, userVars, Active
  <2>3. QED
    BY <2>1, <2>2
<1>14. ASSUME NEW v \in Users PROVE NumberOK(v)'
  <2>1. \A m : Reached(m) => Reached(m)'
    BY <1>3, <1>7 DEF Reached
  <2>2. QED
    BY <1>5, <2>1 DEF IInv, LoginInv, NumberOK, userVars
<1>15. OneLoginPerToken'
  BY <1>5 DEF IInv, LoginInv, OneLoginPerToken
<1>16. QED
  BY <1>10, <1>11, <1>12, <1>13, <1>14, <1>15 DEF LoginInv

\* A request with a token ends in an error: either its row is not there and its
\* temporary file is gone, or the token counts as broken.
LEMMA SendFails ==
    ASSUME IInv, NEW b \in Browsers,
           AbortToken(b) \/ FinishFails(b) \/ (Crash(b) /\ Sends(b))
    PROVE  LoginInv'
<1>1. UserTypeOK /\ LoginTypeOK /\ Sends(b)
  BY DEF IInv, TypeOK, AbortToken, FinishFails, Finishes
<1>2. PICK t \in Tans, n \in Numbers :
        /\ req[b].tan = t /\ req[b].user \in Users /\ req[b].number = n
        /\ t \notin queued
        /\ req[b].phase # "committed" => tan[t].state = "none" /\ ~IsSpent(t)
        /\ req[b].phase = "committed" => tan[t].state # "none" /\ tan[t].to = n
        /\ \A c \in Browsers \ {b} : Sends(c) => req[c].tan # t
        /\ \A c \in Browsers : Verifier(c) => req[c].entered # t
  BY <1>1, SenderHas
<1>3. /\ UNCHANGED <<userVars, session, settings, tan, queued, spent, shared, reused>>
      /\ temp' \subseteq temp /\ broken \subseteq broken' /\ broken' \subseteq broken \cup {t}
      /\ t \in broken' \/ (tan[t].state = "none" /\ t \notin temp')
  BY <1>1, <1>2 DEF AbortToken, FinishFails, Crash, Fail, TempRemoved
<1>4. /\ \A c \in Browsers \ {b} : req'[c] = req[c]
      /\ req'[b] = NoRequest
  BY <1>1, Ends DEF AbortToken, FinishFails, Crash
<1>5. /\ \A m : Called(m)' <=> Called(m)
      /\ \A c, v : Witnessed(c, v)' <=> Witnessed(c, v)
      /\ \A c, x : KnownUser(c, x)' <=> KnownUser(c, x)
      /\ \A x : KnownNumber(x)' <=> KnownNumber(x)
      /\ \A x : IsSpent(x)' <=> IsSpent(x)
      /\ \A m : Reached(m)' <=> Reached(m)
  BY <1>3 DEF Called, Witnessed, KnownUser, KnownNumber, IsSpent, Reached
<1>6. \A x \in Tans \ {t} : Sending(x)' <=> Sending(x)
  BY <1>2, <1>4 DEF Sending, Sends, NoRequest
<1>7. ASSUME NEW c \in Browsers PROVE SendOK(c)'
  BY <1>3, <1>4 DEF IInv, LoginInv, SendOK, Sends, NoRequest
<1>8. ASSUME NEW c \in Browsers PROVE VerifyOK(c)'
  BY <1>3, <1>4, <1>5 DEF IInv, LoginInv, VerifyOK, Verifier, Stores, NoRequest
<1>9. ASSUME NEW c \in Browsers PROVE SessionOK(c)'
  <2>1. CASE c = b
    BY <1>3, <1>4, <1>5, <2>1, SessionKnown DEF SessionOK, Verifier, NoRequest
  <2>2. CASE c # b
    BY <1>3, <1>4, <1>5, <2>2 DEF IInv, LoginInv, SessionOK, Verifier
  <2>3. QED
    BY <2>1, <2>2
<1>10. ASSUME NEW x \in Tans PROVE TokenOK(x)'
  <2>1. CASE x = t
    BY <1>2, <1>3, <1>5, <2>1 DEF IInv, LoginInv, TokenOK, userVars, Active
  <2>2. CASE x # t
    BY <1>3, <1>5, <1>6, <2>2 DEF IInv, LoginInv, TokenOK, userVars, Active
  <2>3. QED
    BY <2>1, <2>2
<1>11. ASSUME NEW v \in Users PROVE NumberOK(v)'
  BY <1>3, <1>5 DEF IInv, LoginInv, NumberOK, userVars
<1>12. OneLoginPerToken'
  BY <1>3 DEF IInv, LoginInv, OneLoginPerToken
<1>13. QED
  BY <1>7, <1>8, <1>9, <1>10, <1>11, <1>12 DEF LoginInv

\* The SMS moves into the queue, and the number of a set-up was called.
LEMMA FinishStep ==
    ASSUME IInv, NEW b \in Browsers, Finish(b)
    PROVE  LoginInv'
<1>1. UserTypeOK /\ LoginTypeOK /\ Sends(b) /\ req[b].phase = "committed"
  BY DEF IInv, TypeOK, Finish, Finishes
<1>2. PICK t \in Tans, n \in Numbers :
        /\ req[b].tan = t /\ req[b].user \in Users /\ req[b].number = n
        /\ t \notin queued
        /\ req[b].phase # "committed" => tan[t].state = "none" /\ ~IsSpent(t)
        /\ req[b].phase = "committed" => tan[t].state # "none" /\ tan[t].to = n
        /\ \A c \in Browsers \ {b} : Sends(c) => req[c].tan # t
        /\ \A c \in Browsers : Verifier(c) => req[c].entered # t
  BY <1>1, SenderHas
<1>3. /\ UNCHANGED <<userVars, settings, tan, broken, spent, shared, reused>>
      /\ temp' = temp \ {t} /\ queued' = queued \cup {t}
  BY <1>2 DEF Finish
<1>4. /\ \A c \in Browsers \ {b} : req'[c] = req[c] /\ session'[c] = session[c]
      /\ req'[b] = NoRequest /\ session'[b] = req[b].after
  BY <1>1, Ends DEF Finish
<1>5. /\ \A m : Called(m) => Called(m)'
      /\ \A c, v : Witnessed(c, v) => Witnessed(c, v)'
      /\ \A c, x : KnownUser(c, x) => KnownUser(c, x)'
      /\ \A x : KnownNumber(x) => KnownNumber(x)'
  BY <1>3, KnownStays DEF IInv
<1>6. \A x : IsSpent(x)' <=> IsSpent(x)
  BY <1>3 DEF IsSpent
<1>7. \A x \in Tans \ {t} : Sending(x)' <=> Sending(x)
  BY <1>2, <1>4 DEF Sending, Sends, NoRequest
<1>8. ASSUME NEW c \in Browsers PROVE SendOK(c)'
  BY <1>1, <1>2, <1>3, <1>4 DEF IInv, LoginInv, SendOK, Sends, NoRequest
<1>9. ASSUME NEW c \in Browsers PROVE VerifyOK(c)'
  BY <1>3, <1>4, <1>6 DEF IInv, LoginInv, VerifyOK, Verifier, Stores, NoRequest
<1>10. ASSUME NEW c \in Browsers PROVE SessionOK(c)'
  <2>1. CASE c = b
    <3>1. Called(n)'
      BY <1>1, <1>2, <1>3 DEF Called
    <3>2. KnownNumber(req[b].after) \/ req[b].after.mtan_mobile_number = n
      BY <1>2 DEF IInv, LoginInv, SessionOK
    <3>3. KnownNumber(session[b])'
      BY <1>4, <1>5, <3>1, <3>2 DEF KnownNumber
    <3>4. KnownUser(b, session[b])'
      BY <1>1, <1>4, <1>5, SessionKnown
    <3>5. KnownUser(b, NoSession)' /\ KnownNumber(NoSession)'
      BY <1>5, SessionKnown
    <3>6. QED
      BY <1>4, <2>1, <3>3, <3>4, <3>5 DEF SessionOK, Verifier, NoRequest
  <2>2. CASE c # b
    BY <1>4, <1>5, <2>2 DEF IInv, LoginInv, SessionOK, Verifier
  <2>3. QED
    BY <2>1, <2>2
<1>11. ASSUME NEW x \in Tans PROVE TokenOK(x)'
  <2>1. CASE x = t
    BY <1>1, <1>2, <1>3, <1>6, <2>1 DEF IInv, LoginInv, TokenOK, userVars, Active
  <2>2. CASE x # t
    BY <1>3, <1>6, <1>7, <2>2 DEF IInv, LoginInv, TokenOK, userVars, Active
  <2>3. QED
    BY <2>1, <2>2
<1>12. ASSUME NEW v \in Users PROVE NumberOK(v)'
  <2>1. \A m : Reached(m)' <=> Reached(m)
    BY <1>3 DEF Reached
  <2>2. QED
    BY <1>3, <2>1 DEF IInv, LoginInv, NumberOK, userVars
<1>13. OneLoginPerToken'
  BY <1>3 DEF IInv, LoginInv, OneLoginPerToken
<1>14. QED
  BY <1>8, <1>9, <1>10, <1>11, <1>12, <1>13 DEF LoginInv

\* A user is deleted with the tokens, or a token expires.
LEMMA TokensFade ==
    ASSUME IInv,
           \/ \E b \in Browsers, u \in Users : DeleteUser(b, u)
           \/ \E t \in Tans : ExpireTan(t)
    PROVE  LoginInv'
<1>1. UserTypeOK /\ LoginTypeOK
  BY DEF IInv, TypeOK
<1>2. UNCHANGED <<session, req, settings, temp, queued, broken, spent, shared, reused>>
  BY DEF DeleteUser, ExpireTan
<1>3. \A t \in Tans : /\ tan'[t].user = tan[t].user /\ tan'[t].to = tan[t].to
                      /\ tan'[t].state = "none" <=> tan[t].state = "none"
                      /\ tan[t].expired => tan'[t].expired
                      /\ tan'[t].state = "row" => tan[t].state = "row"
  <2>1. CASE \E b \in Browsers, u \in Users : DeleteUser(b, u)
    <3>1. PICK u \in Users : tan' = TansWithout(u) /\ Active(u)
      BY <2>1 DEF DeleteUser
    <3>2. \A t \in Tans : tan'[t] = IF tan[t].user = u THEN [tan[t] EXCEPT !.state = "deleted"]
                                                       ELSE tan[t]
      BY <3>1 DEF TansWithout
    <3>3. \A t \in Tans : tan[t].user = u => tan[t].state # "none"
      BY NoneAssumption DEF IInv, LoginInv, TokenOK
    <3>4. QED
      BY ZenonT(30), <1>1, <3>2, <3>3 DEF LoginTypeOK, TanRows
  <2>2. CASE \E t \in Tans : ExpireTan(t)
    BY <1>1, <2>2 DEF ExpireTan, LoginTypeOK, TanRows
  <2>3. QED
    BY <2>1, <2>2
<1>4. \A m : Reached(m) => Reached(m)'
  BY <1>3 DEF Reached
<1>5. \A u \in Users : number'[u] # None => number'[u] = number[u]
  BY <1>1 DEF DeleteUser, ExpireTan, UserTypeOK, userVars
<1>6. \A t \in Tans : tan'[t].state = "row" => Active(tan[t].user)'
  <2>1. CASE \E b \in Browsers, u \in Users : DeleteUser(b, u)
    <3>1. PICK u \in Users : /\ tan' = TansWithout(u)
                             /\ account' = [account EXCEPT ![u] = "deleted"]
      BY <2>1 DEF DeleteUser
    <3>2. \A t \in Tans : tan'[t] = IF tan[t].user = u THEN [tan[t] EXCEPT !.state = "deleted"]
                                                       ELSE tan[t]
      BY <3>1 DEF TansWithout
    <3>3. \A t \in Tans : tan'[t].state = "row" => tan[t].user # u /\ tan'[t] = tan[t]
      BY <1>1, <3>2 DEF LoginTypeOK, TanRows
    <3>4. \A t \in Tans : tan'[t].state = "row" => tan[t].user \in Users /\ Active(tan[t].user)
      BY <1>1, <3>3 DEF IInv, LoginInv, TokenOK, LoginTypeOK, TanRows
    <3>5. QED
      BY <1>1, <3>1, <3>3, <3>4 DEF Active, UserTypeOK
  <2>2. CASE \E t \in Tans : ExpireTan(t)
    BY <1>3, <2>2 DEF ExpireTan, IInv, LoginInv, TokenOK, userVars, Active
  <2>3. QED
    BY <2>1, <2>2
<1>7. /\ \A m : Called(m) => Called(m)'
      /\ \A c, v : Witnessed(c, v) => Witnessed(c, v)'
      /\ \A c, x : KnownUser(c, x) => KnownUser(c, x)'
      /\ \A x : KnownNumber(x) => KnownNumber(x)'
  <2>1. \A x \in queued : tan'[x].user = tan[x].user /\ tan'[x].to = tan[x].to
    BY <1>1, <1>3 DEF LoginTypeOK
  <2>2. QED
    BY <1>2, <2>1, KnownStays DEF IInv
<1>8. (\A x : Sending(x)' <=> Sending(x)) /\ (\A x : IsSpent(x)' <=> IsSpent(x))
  BY <1>2 DEF Sending, Sends, IsSpent
<1>9. ASSUME NEW c \in Browsers PROVE SendOK(c)' /\ VerifyOK(c)' /\ SessionOK(c)'
  <2>1. SendOK(c)'
    BY <1>2, <1>3 DEF IInv, LoginInv, SendOK, Sends
  <2>2. VerifyOK(c)'
    BY <1>1, <1>2, <1>3, <1>8 DEF IInv, LoginInv, VerifyOK, Verifier, Stores, LoginTypeOK
  <2>3. SessionOK(c)'
    BY <1>2, <1>7 DEF IInv, LoginInv, SessionOK, Verifier
  <2>4. QED
    BY <2>1, <2>2, <2>3
<1>10. ASSUME NEW t \in Tans PROVE TokenOK(t)'
  BY <1>2, <1>3, <1>6, <1>8 DEF IInv, LoginInv, TokenOK
<1>11. ASSUME NEW u \in Users PROVE NumberOK(u)'
  BY <1>4, <1>5 DEF IInv, LoginInv, NumberOK
<1>12. OneLoginPerToken'
  BY <1>2 DEF IInv, LoginInv, OneLoginPerToken
<1>13. QED
  BY <1>9, <1>10, <1>11, <1>12 DEF LoginInv

\* A step that changes nothing of a login.
LEMMA LoginAside ==
    ASSUME IInv, UNCHANGED <<userVars, session, req, loginVars>>
    PROVE  LoginInv'
<1>1. /\ \A m : Called(m)' <=> Called(m)
      /\ \A c, v : Witnessed(c, v)' <=> Witnessed(c, v)
      /\ \A c, x : KnownUser(c, x)' <=> KnownUser(c, x)
      /\ \A x : KnownNumber(x)' <=> KnownNumber(x)
      /\ \A x : IsSpent(x)' <=> IsSpent(x)
      /\ \A x : Sending(x)' <=> Sending(x)
      /\ \A m : Reached(m)' <=> Reached(m)
  BY DEF loginVars, Called, Witnessed, KnownUser, KnownNumber, IsSpent, Sending, Sends, Reached
<1>2. ASSUME NEW c \in Browsers PROVE SendOK(c)' /\ VerifyOK(c)' /\ SessionOK(c)'
  BY <1>1 DEF IInv, LoginInv, SendOK, Sends, VerifyOK, Verifier, Stores, SessionOK,
                loginVars
<1>3. ASSUME NEW t \in Tans PROVE TokenOK(t)'
  BY <1>1 DEF IInv, LoginInv, TokenOK, loginVars, userVars, Active
<1>4. ASSUME NEW v \in Users PROVE NumberOK(v)'
  BY <1>1 DEF IInv, LoginInv, NumberOK, userVars
<1>5. OneLoginPerToken'
  BY DEF IInv, LoginInv, OneLoginPerToken, loginVars
<1>6. QED
  BY <1>2, <1>3, <1>4, <1>5 DEF LoginInv

\* Every step keeps what the tokens rely on.
LEMMA LoginInvStep == IInv /\ [Next]_vars => LoginInv'
<1>0. SUFFICES ASSUME IInv, [Next]_vars PROVE LoginInv'
  OBVIOUS
<1>1. UserTypeOK
  BY <1>0 DEF IInv, TypeOK
<1>2. ASSUME NEW b \in Browsers, LoginStep(b), UNCHANGED linkVars PROVE LoginInv'
  <2>1. ASSUME NEW u \in Users, EnterPassword(b, u) PROVE LoginInv'
    <3>1. CASE settings.passwordOnly \/ number[u] = None
      BY <1>0, <1>2, <2>1, <3>1, QuietLogin, QuietStep
    <3>2. CASE ~(settings.passwordOnly \/ number[u] = None)
      <4>1. number[u] \in Numbers
        BY <1>1, <3>2 DEF UserTypeOK
      <4>2. AwaitsToken(b, u) \in Sessions
        BY <1>1, SessionType DEF AwaitsToken, Sessions
      <4>3. KnownUser(b, AwaitsToken(b, u)) /\ KnownNumber(AwaitsToken(b, u))
        BY <1>0, <1>1, SessionKnown, SessionType
        DEF AwaitsToken, Sessions, KnownUser, KnownNumber
      <4>4. QED
        BY <1>0, <2>1, <3>2, <4>1, <4>2, <4>3, SendTokenStep DEF EnterPassword
    <3>3. QED
      BY <3>1, <3>2
  <2>2. ASSUME NEW t \in Tans, Verify(b, t) \/ SetupVerify(b, t) PROVE LoginInv'
    BY <1>0, <1>1, <2>2, EntersBegin, VerifyStep
  <2>3. ASSUME NEW n \in Numbers, NEW t \in Tans, SetupBoth(b, n, t) PROVE LoginInv'
    BY <1>0, <1>1, <2>3, EntersBegin, VerifyStep
  <2>4. ASSUME NEW n \in Numbers, SetupSend(b, n) PROVE LoginInv'
    <3> DEFINE u == session[b].mtan_setup_user
               s == [session[b] EXCEPT !.mtan_mobile_number = n]
    <3>1. s \in Sessions /\ s.userid = session[b].userid /\ s.mtan_mobile_number = n
          /\ u \in Users
      BY <1>1, <2>4, SessionType DEF Sessions, SetupSend, CanEnter
    <3>2. KnownUser(b, s)
      BY <1>0, <3>1, SessionKnown DEF KnownUser
    <3>3. SendToken(b, "setupSend", u, n, s) /\ UNCHANGED <<userVars, session, loginVars>>
      BY <2>4 DEF SetupSend
    <3> HIDE DEF s, u
    <3>4. QED
      BY <1>0, <3>1, <3>2, <3>3, SendTokenStep
  <2>5. CASE CommitVerify(b) \/ CommitBoth(b)
    BY <1>0, <2>5, SpendStep
  <2>6. CASE Prepare(b) \/ CommitToken(b)
    BY <1>0, <2>6, SendGoesOn
  <2>7. CASE AbortToken(b) \/ FinishFails(b) \/ (Crash(b) /\ Sends(b))
    BY <1>0, <2>7, SendFails
  <2>8. CASE Finish(b)
    BY <1>0, <2>8, FinishStep
  <2>9. CASE DifferentNumber(b) \/ CommitEnter(b) \/ FailLogin(b) \/ RespondLogin(b)
             \/ (Crash(b) /\ ~Sends(b))
    BY <1>0, <1>2, <2>9, QuietLogin, QuietStep
  <2>10. QED
    BY <1>2, <2>1, <2>2, <2>3, <2>4, <2>5, <2>6, <2>7, <2>8, <2>9 DEF LoginStep
<1>3. ASSUME NEW b \in Browsers, LinkStep(b), UNCHANGED loginVars PROVE LoginInv'
  BY <1>0, <1>3, QuietLink, QuietStep
<1>4. ASSUME NEW b \in Browsers, Forget(b), UNCHANGED <<loginVars, linkVars>>
      PROVE  LoginInv'
  BY <1>0, <1>4, QuietLogin, QuietStep
<1>5. ASSUME NEW b \in Browsers, NEW u \in Users, DeleteUser(b, u) PROVE LoginInv'
  BY <1>0, <1>5, TokensFade
<1>6. ASSUME NEW t \in Tans, ExpireTan(t) PROVE LoginInv'
  BY <1>0, <1>6, TokensFade
<1>7. ASSUME NEW l \in Links, ExpireLink(l), UNCHANGED loginVars PROVE LoginInv'
  BY <1>0, <1>7, LoginAside DEF ExpireLink
<1>8. CASE UNCHANGED vars
  BY <1>0, <1>8, LoginAside DEF vars
<1>9. QED
  BY <1>0, <1>2, <1>3, <1>4, <1>5, <1>6, <1>7, <1>8 DEF Next

-----------------------------------------------------------------------------
(* Password links *)

\* A step that changes no link and begins no request about one.
LEMMA LinkAside ==
    ASSUME IInv, UNCHANGED linkVars,
           \A c \in Browsers : \/ req'[c] = req[c]
                               \/ req'[c].op \notin {"askLink", "addUser", "useLink"}
    PROVE  LinkInv'
<1>1. ASSUME NEW c \in Browsers PROVE AskOK(c)'
  BY DEF IInv, LinkInv, AskOK, Asks, linkVars
<1>2. ASSUME NEW c \in Browsers PROVE UseOK(c)'
  BY DEF IInv, LinkInv, UseOK, linkVars
<1>3. ASSUME NEW l \in Links PROVE LinkOK(l)'
  BY DEF IInv, LinkInv, LinkOK, linkVars
<1>4. QED
  BY <1>1, <1>2, <1>3 DEF LinkInv

\* The steps of a login are such steps.
LEMMA LoginAsideOfLinks ==
    ASSUME IInv, NEW b \in Browsers, LoginStep(b), UNCHANGED linkVars
    PROVE  LinkInv'
<1> DEFINE Aside == \A c \in Browsers : \/ req'[c] = req[c]
                                        \/ req'[c].op \notin {"askLink", "addUser", "useLink"}
<1>0. SUFFICES Aside
  BY LinkAside
<1>1. UserTypeOK
  BY DEF IInv, TypeOK
<1>2. CASE \/ \E u \in Users : EnterPassword(b, u)
           \/ \E t \in Tans : Verify(b, t) \/ SetupVerify(b, t)
           \/ \E n \in Numbers : SetupSend(b, n) \/ \E t \in Tans : SetupBoth(b, n, t)
  BY <1>1, <1>2, LoginBegins, Begins
<1>3. CASE DifferentNumber(b)
  BY <1>3 DEF DifferentNumber
<1>4. ASSUME NEW p \in Phases, Advance(b, p),
             req[b].op \notin {"askLink", "addUser", "useLink"}
      PROVE  Aside
  BY <1>1, <1>4, Advances
<1>5. CASE CommitEnter(b) \/ CommitVerify(b) \/ Prepare(b) \/ CommitToken(b) \/ CommitBoth(b)
  BY <1>4, <1>5
     DEF CommitEnter, CommitVerify, Prepare, CommitToken, CommitBoth, Sends, Phases
<1>6. CASE FailLogin(b) \/ RespondLogin(b) \/ AbortToken(b) \/ Finish(b)
            \/ FinishFails(b) \/ Crash(b)
  BY <1>1, <1>6, Ends DEF FailLogin, RespondLogin, AbortToken, Finish, FinishFails, Crash,
                           NoRequest
<1>7. QED
  BY <1>2, <1>3, <1>5, <1>6 DEF LoginStep

\* A request begins that makes a link: the user's links that are there now are
\* the ones it will expire, or are expired.
LEMMA BeginLinkStep ==
    ASSUME IInv, NEW b \in Browsers, NEW u \in Users, NEW op \in {"askLink", "addUser"},
           BeginLink(b, op, u)
    PROVE  LinkInv'
<1>1. UserTypeOK /\ LinkTypeOK
  BY DEF IInv, TypeOK
<1>2. PICK l \in Links, r \in Requests :
        /\ link[l].state = "none" /\ ~Reserved(l)
        /\ Begin(b, r, session[b])
        /\ r.op = op /\ r.user = u /\ r.link = l
        /\ r.seen = {k \in LinksOf(u) : ~link[k].expired}
        /\ older' = [older EXCEPT ![l] = LinksOf(u)]
        /\ UNCHANGED <<link, mailed, uses, overlaps>>
  <2>1. PICK l \in Links :
          /\ link[l].state = "none" /\ ~Reserved(l)
          /\ Begin(b, [NoRequest EXCEPT !.op = op, !.user = u, !.link = l,
                         !.seen = {k \in LinksOf(u) : ~link[k].expired}], session[b])
          /\ older' = [older EXCEPT ![l] = LinksOf(u)]
          /\ UNCHANGED <<link, mailed, uses, overlaps>>
    BY DEF BeginLink
  <2> DEFINE r == [NoRequest EXCEPT !.op = op, !.user = u, !.link = l,
                     !.seen = {k \in LinksOf(u) : ~link[k].expired}]
  <2>2. /\ r \in Requests /\ r.op = op /\ r.user = u /\ r.link = l
        /\ r.seen = {k \in LinksOf(u) : ~link[k].expired}
    BY NothingType DEF Requests, Ops, LinksOf, NoRequest
  <2>3. QED
    BY <2>1, <2>2
<1>3. /\ req'[b].op = op /\ req'[b].phase = "begun" /\ req'[b].user = u
      /\ req'[b].link = l /\ req'[b].seen = r.seen
      /\ \A c \in Browsers \ {b} : req'[c] = req[c]
  BY <1>1, <1>2, SessionType, Begins
<1>4. \A c \in Browsers : req[c].link # l
  BY <1>2 DEF Reserved
<1>5. /\ older'[l] = LinksOf(u)
      /\ \A k \in Links \ {l} : older'[k] = older[k]
  BY <1>1, <1>2 DEF LinkTypeOK
<1>6. ASSUME NEW c \in Browsers PROVE AskOK(c)'
  <2>1. CASE c = b
    BY <1>2, <1>3, <1>4, <1>5, <2>1 DEF AskOK, Asks, LinksOf
  <2>2. CASE c # b
    BY <1>2, <1>3, <1>4, <1>5, <2>2 DEF IInv, LinkInv, AskOK, Asks
  <2>3. QED
    BY <2>1, <2>2
<1>7. ASSUME NEW c \in Browsers PROVE UseOK(c)'
  BY <1>2, <1>3 DEF IInv, LinkInv, UseOK
<1>8. ASSUME NEW k \in Links PROVE LinkOK(k)'
  <2>1. CASE k = l
    BY <1>2, <2>1 DEF IInv, LinkInv, LinkOK
  <2>2. CASE k # l
    BY <1>2, <1>5, <2>2 DEF IInv, LinkInv, LinkOK
  <2>3. QED
    BY <2>1, <2>2
<1>9. QED
  BY <1>6, <1>7, <1>8 DEF LinkInv

\* A request begins that uses a link.
LEMMA UseLinkStep ==
    ASSUME IInv, NEW b \in Browsers, NEW l \in Links, UseLink(b, l)
    PROVE  LinkInv'
<1>1. UserTypeOK /\ LinkTypeOK
  BY DEF IInv, TypeOK
<1>2. /\ link[l].state = "row" /\ ~link[l].consumed /\ link[l].user \in Users
      /\ uses[l] = 0
      /\ UNCHANGED <<link, mailed, older, uses>>
      /\ overlaps \subseteq overlaps'
      /\ \A c \in Browsers : req[c].op = "useLink" /\ req[c].link = l => l \in overlaps'
  BY <1>1 DEF UseLink, CanConsume, IInv, LinkInv, LinkOK, LinkTypeOK
<1>3. PICK r \in Requests :
        /\ Begin(b, r, session[b])
        /\ r.op = "useLink" /\ r.user = link[l].user /\ r.link = l
  <2> DEFINE r == [NoRequest EXCEPT !.op = "useLink", !.user = link[l].user, !.link = l]
  <2>1. r \in Requests /\ r.op = "useLink" /\ r.user = link[l].user /\ r.link = l
    BY <1>2, NothingType DEF Requests, Ops, NoRequest
  <2>2. QED
    BY <2>1 DEF UseLink
<1>4. /\ req'[b].op = "useLink" /\ req'[b].phase = "begun" /\ req'[b].user = link[l].user
      /\ req'[b].link = l
      /\ \A c \in Browsers \ {b} : req'[c] = req[c]
  BY <1>1, <1>3, SessionType, Begins
<1>5. ASSUME NEW c \in Browsers PROVE AskOK(c)'
  BY <1>2, <1>4 DEF IInv, LinkInv, AskOK, Asks
<1>6. ASSUME NEW c \in Browsers PROVE UseOK(c)'
  <2>1. CASE c = b
    BY <1>2, <1>4, <2>1 DEF UseOK
  <2>2. CASE c # b
    BY <1>2, <1>4, <2>2 DEF IInv, LinkInv, UseOK
  <2>3. QED
    BY <2>1, <2>2
<1>7. ASSUME NEW k \in Links PROVE LinkOK(k)'
  BY <1>2 DEF IInv, LinkInv, LinkOK
<1>8. QED
  BY <1>5, <1>6, <1>7 DEF LinkInv

\* The mail of a link goes out.
LEMMA SendMailStep ==
    ASSUME IInv, NEW b \in Browsers, SendMail(b)
    PROVE  LinkInv'
<1>1. UserTypeOK
  BY DEF IInv, TypeOK
<1>2. /\ \A c \in Browsers \ {b} : req'[c] = req[c]
      /\ req'[b].op = req[b].op /\ req'[b].phase = "prepared" /\ req'[b].user = req[b].user
      /\ req'[b].link = req[b].link /\ req'[b].seen = req[b].seen
  BY <1>1, Advances DEF SendMail, Phases
<1>3. /\ UNCHANGED <<link, older, uses, overlaps>>
      /\ mailed' = mailed \cup {req[b].link}
      /\ Asks(b) /\ req[b].phase = "begun"
  BY DEF SendMail
<1>4. ASSUME NEW c \in Browsers PROVE AskOK(c)'
  <2>1. CASE c = b
    BY <1>2, <1>3, <2>1 DEF IInv, LinkInv, AskOK, Asks
  <2>2. CASE c # b
    BY <1>2, <1>3, <2>2 DEF IInv, LinkInv, AskOK, Asks
  <2>3. QED
    BY <2>1, <2>2
<1>5. ASSUME NEW c \in Browsers PROVE UseOK(c)'
  BY <1>2, <1>3 DEF IInv, LinkInv, UseOK, Asks
<1>6. ASSUME NEW k \in Links PROVE LinkOK(k)'
  BY <1>3 DEF IInv, LinkInv, LinkOK
<1>7. QED
  BY <1>4, <1>5, <1>6 DEF LinkInv

\* A link is stored: every older one of its user is expired.
LEMMA CommitLinkStep ==
    ASSUME IInv, NEW b \in Browsers, CommitLink(b)
    PROVE  LinkInv'
<1>1. UserTypeOK /\ LinkTypeOK
  BY DEF IInv, TypeOK
<1>2. PICK l \in Links :
        /\ req[b].link = l /\ req[b].user \in Users /\ link[l].state = "none" /\ l \in mailed
        /\ \A c \in Browsers \ {b} : Asks(c) => req[c].link # l
        /\ \A k \in older[l] : link[k].state # "none"
                               /\ (link[k].expired \/ k \in req[b].seen)
        /\ Asks(b) /\ req[b].phase = "prepared"
        /\ req[b].seen \subseteq Links /\ l \notin req[b].seen
  BY <1>1, RequestType DEF CommitLink, IsMailed, CanCommitLink, IInv, LinkInv, AskOK
<1>3. /\ \A c \in Browsers \ {b} : req'[c] = req[c]
      /\ req'[b].op = req[b].op /\ req'[b].phase = "committed" /\ req'[b].link = l
  BY <1>1, <1>2, Advances DEF CommitLink, Phases
<1>4. /\ UNCHANGED <<mailed, older, uses, overlaps>>
      /\ link' = WithLink(b)
  BY DEF CommitLink
<1>5. /\ link'[l].state = "row" /\ link'[l].user \in Users
      /\ \A k \in Links \ {l} : /\ link'[k].state = link[k].state
                                /\ link'[k].user = link[k].user
                                /\ link'[k].consumed = link[k].consumed
                                /\ link[k].expired \/ k \in req[b].seen => link'[k].expired
  <2>1. link'[l] = [NoLink EXCEPT !.state = "row", !.user = req[b].user]
    BY <1>2, <1>4 DEF WithLink
  <2>2. link'[l].state = "row" /\ link'[l].user \in Users
    BY <1>2, <2>1 DEF NoLink
  <2>3. \A k \in Links \ {l} : link'[k] = IF k \in req[b].seen
                                          THEN [link[k] EXCEPT !.expired = TRUE] ELSE link[k]
    BY <1>2, <1>4 DEF WithLink
  <2>4. \A k \in Links : LET x == [link[k] EXCEPT !.expired = TRUE]
                         IN  /\ x.state = link[k].state /\ x.user = link[k].user
                             /\ x.consumed = link[k].consumed /\ x.expired
    BY <1>1 DEF LinkTypeOK, LinkRows
  <2>5. QED
    BY <2>2, <2>3, <2>4
<1>6. ASSUME NEW c \in Browsers PROVE AskOK(c)'
  <2>1. CASE c = b
    BY <1>3, <2>1 DEF AskOK
  <2>2. CASE c # b
    <3>1. SUFFICES ASSUME Asks(c), req[c].phase \in {"begun", "prepared"}
                   PROVE  AskOK(c)'
      BY <1>3, <2>2 DEF AskOK, Asks
    <3>2. req[c].link \in Links \ {l} /\ older[req[c].link] \subseteq Links /\ AskOK(c)
      BY <1>1, <1>2, <2>2, <3>1 DEF LinkTypeOK, IInv, LinkInv, AskOK
    <3>3. \A k \in Links : link[k].state # "none" => link'[k].state # "none"
                                                    /\ (link[k].expired => link'[k].expired)
      BY <1>2, <1>5
    <3>4. QED
      BY <1>2, <1>3, <1>4, <1>5, <2>2, <3>1, <3>2, <3>3 DEF AskOK, Asks
  <2>3. QED
    BY <2>1, <2>2
<1>7. ASSUME NEW c \in Browsers PROVE UseOK(c)'
  BY <1>2, <1>3, <1>4, <1>5 DEF IInv, LinkInv, UseOK, Asks
<1>8. ASSUME NEW k \in Links PROVE LinkOK(k)'
  <2>1. CASE k = l
    <3>1. \A x \in older[l] : x \in Links \ {l}
      BY <1>1, <1>2 DEF LinkTypeOK
    <3>2. \A x \in older[l] : link'[x].state # "none" /\ link'[x].expired
      BY <1>2, <1>5, <3>1
    <3>3. ~(uses[l] > 0) /\ ~(uses[l] > 1)
      BY <1>1, <1>2 DEF IInv, LinkInv, LinkOK, LinkTypeOK
    <3>4. QED
      BY <1>2, <1>4, <1>5, <2>1, <3>2, <3>3, NoneAssumption DEF LinkOK
  <2>2. CASE k # l
    <3>1. \A x \in older[k] : x \in Links
      BY <1>1 DEF LinkTypeOK
    <3>2. LinkOK(k)
      BY DEF IInv, LinkInv
    <3>3. \A x \in older[k] : link[x].state # "none" => x # l
      BY <1>2
    <3>4. QED
      BY <1>4, <1>5, <2>2, <3>1, <3>2, <3>3 DEF LinkOK
  <2>3. QED
    BY <2>1, <2>2
<1>9. QED
  BY <1>6, <1>7, <1>8 DEF LinkInv

\* A password is stored and its link consumed.
LEMMA CommitPasswordStep ==
    ASSUME IInv, NEW b \in Browsers, CommitPassword(b)
    PROVE  LinkInv'
<1>1. UserTypeOK /\ LinkTypeOK
  BY DEF IInv, TypeOK
<1>2. PICK l \in Links :
        /\ req[b].link = l /\ req[b].op = "useLink" /\ req[b].phase = "begun"
        /\ link[l].state # "none"
        /\ \A c \in Browsers \ {b} : req[c].op = "useLink" /\ req[c].link = l => l \in overlaps
        /\ uses[l] > 0 => l \in overlaps
  BY DEF CommitPassword, IInv, LinkInv, UseOK
<1>3. /\ \A c \in Browsers \ {b} : req'[c] = req[c]
      /\ req'[b].op = "useLink" /\ req'[b].phase = "committed"
      /\ req'[b].user = req[b].user /\ req'[b].link = l
  BY <1>1, <1>2, Advances DEF CommitPassword, Phases
<1>4. /\ UNCHANGED <<mailed, older, overlaps>>
      /\ link' = [link EXCEPT ![l].consumed = TRUE]
      /\ uses' = [uses EXCEPT ![l] = IF @ < 2 THEN @ + 1 ELSE @]
  BY <1>2 DEF CommitPassword, Consumed
<1>5. /\ \A k \in Links : /\ link'[k].state = link[k].state
                          /\ link'[k].user = link[k].user
                          /\ link'[k].expired = link[k].expired
      /\ \A k \in Links \ {l} : link'[k].consumed = link[k].consumed
      /\ link'[l].consumed
  BY <1>1, <1>4 DEF LinkTypeOK, LinkRows
<1>6. /\ \A k \in Links \ {l} : uses'[k] = uses[k]
      /\ uses'[l] > 1 => l \in overlaps
  <2>1. uses[l] \in 0 .. 2 /\ uses'[l] = IF uses[l] < 2 THEN uses[l] + 1 ELSE uses[l]
    BY <1>1, <1>4 DEF LinkTypeOK
  <2>2. uses'[l] > 1 => uses[l] > 0
    BY <2>1
  <2>3. QED
    BY <1>1, <1>2, <1>4, <2>2 DEF LinkTypeOK
<1>7. ASSUME NEW c \in Browsers PROVE AskOK(c)'
  <2>1. \A k \in Links : older[k] \subseteq Links
    BY <1>1 DEF LinkTypeOK
  <2>2. QED
    BY <1>2, <1>3, <1>4, <1>5, <2>1 DEF IInv, LinkInv, AskOK, Asks
<1>8. ASSUME NEW c \in Browsers PROVE UseOK(c)'
  <2>1. CASE c = b
    BY <1>1, <1>2, <1>3, <1>4, <1>5, <2>1 DEF IInv, LinkInv, UseOK
  <2>2. CASE c # b
    BY <1>1, <1>2, <1>3, <1>4, <1>5, <1>6, <2>2 DEF IInv, LinkInv, UseOK
  <2>3. QED
    BY <2>1, <2>2
<1>9. ASSUME NEW k \in Links PROVE LinkOK(k)'
  <2>1. older[k] \subseteq Links /\ LinkOK(k)
    BY <1>1 DEF LinkTypeOK, IInv, LinkInv
  <2>2. CASE k = l
    BY <1>2, <1>4, <1>5, <1>6, <2>1, <2>2 DEF LinkOK
  <2>3. CASE k # l
    BY <1>4, <1>5, <1>6, <2>1, <2>3 DEF LinkOK
  <2>4. QED
    BY <2>2, <2>3
<1>10. QED
  BY <1>7, <1>8, <1>9 DEF LinkInv

\* A user is deleted with the links, or a link expires.
LEMMA LinksFade ==
    ASSUME IInv,
           \/ \E b \in Browsers, u \in Users : DeleteUser(b, u)
           \/ \E l \in Links : ExpireLink(l)
    PROVE  LinkInv'
<1>1. UserTypeOK /\ LinkTypeOK
  BY DEF IInv, TypeOK
<1>2. UNCHANGED <<req, mailed, older, uses, overlaps>>
  BY DEF DeleteUser, ExpireLink
<1>3. \A l \in Links : /\ link'[l].user = link[l].user
                       /\ link'[l].consumed = link[l].consumed
                       /\ link'[l].state = "none" <=> link[l].state = "none"
                       /\ link[l].expired => link'[l].expired
  <2>1. CASE \E b \in Browsers, u \in Users : DeleteUser(b, u)
    <3>1. PICK u \in Users : link' = LinksWithout(u)
      BY <2>1 DEF DeleteUser
    <3>2. \A l \in Links : link'[l] = IF link[l].user = u
                                       THEN [link[l] EXCEPT !.state = "deleted"] ELSE link[l]
      BY <3>1 DEF LinksWithout
    <3>3. \A l \in Links : link[l].user = u => link[l].state # "none"
      BY NoneAssumption DEF IInv, LinkInv, LinkOK
    <3>4. QED
      BY <1>1, <3>2, <3>3 DEF LinkTypeOK, LinkRows
  <2>2. CASE \E l \in Links : ExpireLink(l)
    BY <1>1, <2>2 DEF ExpireLink, LinkTypeOK, LinkRows
  <2>3. QED
    BY <2>1, <2>2
<1>4. \A k \in Links : older[k] \subseteq Links
  BY <1>1 DEF LinkTypeOK
<1>5. ASSUME NEW c \in Browsers PROVE AskOK(c)'
  BY <1>2, <1>3, <1>4 DEF IInv, LinkInv, AskOK, Asks
<1>6. ASSUME NEW c \in Browsers PROVE UseOK(c)'
  BY <1>2, <1>3 DEF IInv, LinkInv, UseOK
<1>7. ASSUME NEW k \in Links PROVE LinkOK(k)'
  BY <1>2, <1>3, <1>4 DEF IInv, LinkInv, LinkOK
<1>8. QED
  BY <1>5, <1>6, <1>7 DEF LinkInv

\* Every step keeps what the links rely on.
LEMMA LinkInvStep == IInv /\ [Next]_vars => LinkInv'
<1>0. SUFFICES ASSUME IInv, [Next]_vars PROVE LinkInv'
  OBVIOUS
<1>1. UserTypeOK
  BY <1>0 DEF IInv, TypeOK
<1>2. ASSUME NEW b \in Browsers, LinkStep(b), UNCHANGED loginVars PROVE LinkInv'
  <2>1. ASSUME NEW u \in Users, AskLink(b, u) \/ AddUser(b, u) PROVE LinkInv'
    BY <1>0, <2>1, BeginLinkStep DEF AskLink, AddUser
  <2>2. ASSUME NEW l \in Links, UseLink(b, l) PROVE LinkInv'
    BY <1>0, <2>2, UseLinkStep
  <2>3. CASE SendMail(b) \/ CommitLink(b) \/ CommitPassword(b)
    BY <1>0, <2>3, SendMailStep, CommitLinkStep, CommitPasswordStep
  <2>4. CASE FailLink(b) \/ RespondLink(b)
    <3>1. UNCHANGED linkVars /\ (Fail(b) \/ Respond(b))
      BY <2>4 DEF FailLink, RespondLink
    <3>2. \A c \in Browsers : \/ req'[c] = req[c]
                              \/ req'[c].op \notin {"askLink", "addUser", "useLink"}
      BY <1>1, <3>1, Ends DEF NoRequest
    <3>3. QED
      BY <1>0, <3>1, <3>2, LinkAside
  <2>5. QED
    BY <1>2, <2>1, <2>2, <2>3, <2>4 DEF LinkStep
<1>3. ASSUME NEW b \in Browsers, LoginStep(b), UNCHANGED linkVars PROVE LinkInv'
  BY <1>0, <1>3, LoginAsideOfLinks
<1>4. CASE \E b \in Browsers, u \in Users : DeleteUser(b, u)
  BY <1>0, <1>4, LinksFade
<1>5. CASE \E l \in Links : ExpireLink(l)
  BY <1>0, <1>5, LinksFade
<1>6. ASSUME UNCHANGED <<req, linkVars>> PROVE LinkInv'
  BY <1>0, <1>6, LinkAside
<1>7. QED
  BY <1>0, <1>2, <1>3, <1>4, <1>5, <1>6 DEF Next, Forget, ExpireTan, vars

-----------------------------------------------------------------------------
(* The theorems *)

\* A browser without a request has none.
LEMMA IdleStep == IInv /\ [Next]_vars => \A b \in Browsers : IdleOK(b)'
<1>0. SUFFICES ASSUME IInv, [Next]_vars, NEW c \in Browsers PROVE IdleOK(c)'
  OBVIOUS
<1>1. UserTypeOK /\ LinkTypeOK /\ IdleOK(c)
  BY <1>0 DEF IInv, TypeOK
<1>2. ASSUME req'[c] \in {req[c], NoRequest} PROVE IdleOK(c)'
  BY <1>1, <1>2 DEF IdleOK, IsIdle
<1>3. ASSUME NEW b \in Browsers, LoginStep(b) PROVE IdleOK(c)'
  <2>1. CASE \/ \E u \in Users : EnterPassword(b, u)
             \/ \E t \in Tans : Verify(b, t) \/ SetupVerify(b, t)
             \/ \E n \in Numbers :
                   SetupSend(b, n) \/ \E t \in Tans : SetupBoth(b, n, t)
    BY <1>1, <1>2, <2>1, LoginBegins, Begins DEF IdleOK, IsIdle
  <2>2. CASE DifferentNumber(b)
    BY <1>2, <2>2 DEF DifferentNumber
  <2>3. CASE CommitEnter(b) \/ CommitVerify(b) \/ Prepare(b) \/ CommitToken(b)
             \/ CommitBoth(b)
    BY <1>1, <1>2, <2>3, Advances
       DEF CommitEnter, CommitVerify, Prepare, CommitToken, CommitBoth, Phases, IdleOK, IsIdle
  <2>4. CASE FailLogin(b) \/ RespondLogin(b) \/ AbortToken(b) \/ Finish(b)
             \/ FinishFails(b) \/ Crash(b)
    BY <1>1, <1>2, <2>4, Ends
       DEF FailLogin, RespondLogin, AbortToken, Finish, FinishFails, Crash
  <2>5. QED
    BY <1>3, <2>1, <2>2, <2>3, <2>4 DEF LoginStep
<1>4. ASSUME NEW b \in Browsers, LinkStep(b) PROVE IdleOK(c)'
  <2>1. CASE \/ \E u \in Users : AskLink(b, u) \/ AddUser(b, u)
             \/ \E l \in Links : UseLink(b, l)
    BY <1>1, <1>2, <2>1, SessionType, LinkBegins, Begins DEF IdleOK, IsIdle
  <2>2. CASE SendMail(b) \/ CommitLink(b) \/ CommitPassword(b)
    BY <1>1, <1>2, <2>2, Advances
       DEF SendMail, CommitLink, CommitPassword, Phases, IdleOK, IsIdle
  <2>3. CASE FailLink(b) \/ RespondLink(b)
    BY <1>1, <1>2, <2>3, Ends DEF FailLink, RespondLink
  <2>4. QED
    BY <1>4, <2>1, <2>2, <2>3 DEF LinkStep
<1>5. QED
  BY <1>0, <1>2, <1>3, <1>4 DEF Next, Forget, DeleteUser, ExpireTan, ExpireLink, vars

\* The initial states satisfy the invariant.
LEMMA InitHolds == Init => IInv
<1>0. SUFFICES ASSUME Init PROVE IInv
  OBVIOUS
<1>1. UserInit /\ LoginInit /\ LinkInit
  BY <1>0 DEF Init
<1>2. TypeOK
  <2>1. UserTypeOK
    BY <1>1, NothingType, FaultsAssumption DEF UserInit, UserTypeOK
  <2>2. LoginTypeOK
    BY <1>1 DEF LoginInit, LoginTypeOK, TanRows, NoTan
  <2>3. LinkTypeOK
    BY <1>1 DEF LinkInit, LinkTypeOK, LinkRows, NoLink
  <2>4. QED
    BY <2>1, <2>2, <2>3 DEF TypeOK
<1>3. \A b \in Browsers : req[b] = NoRequest /\ session[b] = NoSession
  BY <1>1 DEF UserInit
<1>4. LoginInv
  <2>1. \A b \in Browsers : SendOK(b) /\ VerifyOK(b) /\ SessionOK(b)
    BY <1>3 DEF SendOK, Sends, VerifyOK, Verifier, SessionOK, KnownUser, KnownNumber,
                NoRequest, NoSession
  <2>2. \A t \in Tans : TokenOK(t)
    BY <1>1 DEF LoginInit, TokenOK, NoTan, IsSpent
  <2>3. QED
    BY <1>1, <2>1, <2>2 DEF LoginInv, UserInit, LoginInit, NumberOK, OneLoginPerToken
<1>5. LinkInv
  <2>1. \A b \in Browsers : AskOK(b) /\ UseOK(b)
    BY <1>3 DEF AskOK, Asks, UseOK, NoRequest
  <2>2. \A l \in Links : LinkOK(l)
    BY <1>1 DEF LinkInit, LinkOK, NoLink
  <2>3. QED
    BY <2>1, <2>2 DEF LinkInv
<1>6. QED
  BY <1>2, <1>3, <1>4, <1>5 DEF IInv, IdleOK

LEMMA Inductive == Spec => []IInv
<1>1. IInv /\ [Next]_vars => IInv'
  BY TypeStep, LoginInvStep, LinkInvStep, IdleStep DEF IInv
<1>2. QED
  BY <1>1, InitHolds, PTL DEF Spec

\* The variables keep their types, and a row of a token has a user and a number.
THEOREM TypeCorrect == Spec => []TypeOK
<1>1. IInv => TypeOK
  BY DEF IInv
<1>2. QED
  BY <1>1, Inductive, PTL

\* Whatever fails between the vote, the commit and the move of the file, a token
\* is in the database exactly if its SMS is in the queue, except after a crash or
\* a move that failed: CommitToken waits for the temporary file, AbortToken
\* removes it.
THEOREM TokenAndSmsTogether == Spec => []TokenIffSms
<1>1. ASSUME IInv PROVE TokenIffSms
  <2>1. \A t \in Tans : Sending(t) => Reserved(t)
    BY DEF Sending, Reserved
  <2>2. QED
    BY <1>1, <2>1 DEF IInv, LoginInv, TypeOK, LoginTypeOK, TokenOK, TokenIffSms
<1>2. QED
  BY <1>1, Inductive, PTL

\* A token that logs in twice was verified by two requests at the same time.
THEOREM TokenLogsInOnce == Spec => []OneLoginPerToken
<1>1. IInv => OneLoginPerToken
  BY DEF IInv, LoginInv
<1>2. QED
  BY <1>1, Inductive, PTL

\* Nobody is logged in who has not entered, in this browser, a token that was sent
\* for them, unless the password alone is enough.
THEOREM LoginTakesTwoFactors == Spec => []TwoFactors
<1>1. IInv => TwoFactors
  BY DEF IInv, LoginInv, SessionOK, KnownUser, Witnessed, TwoFactors
<1>2. QED
  BY <1>1, Inductive, PTL

\* A number is stored only if a token was made for an SMS to it, which is in the
\* queue, about to go there or lost: CommitBoth stores the number and inserts the
\* row of its token in one commit, CommitVerify stores what SetupSend has called.
THEOREM StoredNumberWasCalled == Spec => []NumberWasCalled
<1>1. ASSUME IInv PROVE NumberWasCalled
  <2>1. \A t \in Tans : Sending(t) => Reserved(t)
    BY DEF Sending, Reserved
  <2>2. \A t \in Tans : tan[t].state # "none" => t \in queued \cup broken \/ Reserved(t)
    BY <1>1, <2>1 DEF IInv, LoginInv, TokenOK
  <2>3. QED
    BY <1>1, <2>2 DEF IInv, LoginInv, NumberOK, Reached, NumberWasCalled
<1>2. QED
  BY <1>1, Inductive, PTL

\* A link that sets a password twice was used by two requests at the same time.
THEOREM LinkChangesOnce == Spec => []OneChangePerLink
<1>1. IInv => OneChangePerLink
  BY DEF IInv, LinkInv, LinkOK, OneChangePerLink
<1>2. QED
  BY <1>1, Inductive, PTL

\* A link that a newer one has overtaken changes no password.
THEOREM OvertakenLinkFails == Spec => []NewestLinkWorks
<1>1. IInv => NewestLinkWorks
  BY DEF IInv, LinkInv, LinkOK, NewestLinkWorks, Overtaken, CanConsume
<1>2. QED
  BY <1>1, Inductive, PTL

\* Every link in the database is in a mail.
THEOREM StoredLinkWasMailed == Spec => []LinksAreMailed
<1>1. IInv => LinksAreMailed
  BY DEF IInv, LinkInv, LinkOK, LinksAreMailed
<1>2. QED
  BY <1>1, Inductive, PTL
========================================================================================
