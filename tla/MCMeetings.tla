---------------------------------- MODULE MCMeetings ----------------------------------
(* Meetings for TLC. *)
EXTENDS Meetings, TLC

Symmetry == Permutations(Users) \cup Permutations(Groups) \cup Permutations(Clients)
            \cup Permutations(Meetings) \cup Permutations(Files) \cup Permutations(Names)
            \cup Permutations(Times)

HasFiles ==
    \/ \E c \in Clients : req[c].files # <<>>
    \/ \E m \in Meetings : meeting[m].files # <<>> \/ Len(meeting[m].trail) > 1

HasLeaders == \E g \in Groups : group[g].leader # None \/ group[g].chairman # None

IsDeleting == \E c \in Clients : req[c].op \in {"deleteUser", "deleteGroup"}

\* Files are followed where nobody leads or chairs a group and no user or group is
\* being deleted: none of these reads the other.
FilesApart == ~(HasFiles /\ (HasLeaders \/ IsDeleting))
=============================================================================
