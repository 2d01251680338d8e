---------------------------------- MODULE Accounts ------------------------------------
(* Users, their login and their password links together: a password a link has  *)
(* set is what a login asks for, a login is what adds and deletes users, and a   *)
(* deleted user takes tokens and links along.                                    *)
EXTENDS Login, PasswordLinks

vars == <<userVars, session, req, faults, loginVars, linkVars>>

TypeOK == UserTypeOK /\ LoginTypeOK /\ LinkTypeOK

Init == UserInit /\ LoginInit /\ LinkInit

\* delete_user_view.
DeleteUser(b, u) ==
    /\ IsIdle(b) /\ Authenticated(b)
    /\ Active(u)
    /\ account' = [account EXCEPT ![u] = "deleted"]
    /\ passwords' = passwords \ {u}
    /\ number' = [number EXCEPT ![u] = None]
    /\ tan' = TansWithout(u)
    /\ link' = LinksWithout(u)
    /\ UNCHANGED <<session, req, faults, settings, temp, queued, broken, spent, shared,
                   reused, mailed, older, uses, overlaps>>

Next ==
    \/ \E b \in Browsers :
          \/ LoginStep(b) /\ UNCHANGED linkVars
          \/ LinkStep(b) /\ UNCHANGED loginVars
          \/ Forget(b) /\ UNCHANGED <<loginVars, linkVars>>
          \/ \E u \in Users : DeleteUser(b, u)
    \/ \E t \in Tans : ExpireTan(t) /\ UNCHANGED linkVars
    \/ \E l \in Links : ExpireLink(l) /\ UNCHANGED loginVars

Spec == Init /\ [][Next]_vars
=============================================================================
