-------------------------------- MODULE WorkingGroups --------------------------------
(* Users and the working groups they belong to, lead and chair:                 *)
(*   models/group.py, models/user.py                       the tables           *)
(*   views/people.py, forms/user_form.py                   the users' forms     *)
(*   views/working_groups.py, forms/working_group_forms.py the groups' forms    *)
(* A form is saved in one step.  A deletion reads the rows it takes along, and   *)
(* deletes them in another step: other requests commit in between.              *)
EXTENDS Naturals, FiniteSets

CONSTANTS
    Users,     \* ids of users, which are not used again
    Groups,    \* ids of working groups, which are not used again
    Clients,   \* browsers whose requests overlap
    None       \* an empty column or field

ASSUME NoneAssumption == None \notin Users \cup Groups

VARIABLES
    account,   \* [Users -> States]
    group,     \* [Groups -> GroupRows]
    req        \* [Clients -> Requests]: a deletion or insertion under way

States == {"new", "there", "gone"}

\* leader and chairman: foreign keys that a deletion sets to NULL.
GroupRows == [state: States, members: SUBSET Users,
              leader: Users \cup {None}, chairman: Users \cup {None}]

NewGroup == [state |-> "new", members |-> {}, leader |-> None, chairman |-> None]

There == {u \in Users : account[u] = "there"}

GroupsThere == {g \in Groups : group[g].state = "there"}

MemberOf(u) == {g \in GroupsThere : u \in group[g].members}

-----------------------------------------------------------------------------
(* People *)

\* Users set their groups: obj.groups = added_group.
WithMember(u, gs) ==
    [g \in Groups |->
        IF group[g].state = "there"
        THEN [group[g] EXCEPT !.members = IF g \in gs THEN @ \cup {u} ELSE @ \ {u}]
        ELSE group[g]]

\* add_user_view.
AddUser(u, gs) ==
    /\ account[u] = "new"
    /\ account' = [account EXCEPT ![u] = "there"]
    /\ group' = WithMember(u, gs)
    /\ UNCHANGED req

\* edit_user_view.
EditUser(u, gs) ==
    /\ u \in There
    /\ group' = WithMember(u, gs)
    /\ UNCHANGED <<account, req>>

\* The memberships that go with a user: by the foreign keys, or written by the
\* session before the user is deleted.
WithoutUser(u) ==
    [g \in Groups |->
        [group[g] EXCEPT !.members = @ \ {u},
                         !.leader = IF @ = u THEN None ELSE @,
                         !.chairman = IF @ = u THEN None ELSE @]]

-----------------------------------------------------------------------------
(* Working groups *)

\* "Leader is also part of members even if not explicitly set".
MembersWith(us, leader) == us \cup ({leader} \ {None})

\* What a form can name: users who are there, or nobody.
Chosen(us, leader, chairman) ==
    us # {} /\ us \subseteq There /\ {leader, chairman} \subseteq There \cup {None}

\* add_working_group: the chairman is not made a member.
AddGroup(g, us, leader, chairman) ==
    /\ group[g].state = "new"
    /\ Chosen(us, leader, chairman)
    /\ group' = [group EXCEPT ![g] = [state |-> "there", members |-> MembersWith(us, leader),
                                      leader |-> leader, chairman |-> chairman]]
    /\ UNCHANGED <<account, req>>

\* edit_working_group.
EditGroup(g, us, leader, chairman) ==
    /\ g \in GroupsThere
    /\ Chosen(us, leader, chairman)
    /\ group' = [group EXCEPT ![g] = [state |-> "there", leader |-> leader,
                                      chairman |-> chairman,
                                      members |-> MembersWith(MembersWith(us, leader), chairman)]]
    /\ UNCHANGED <<account, req>>

GroupStep ==
    \/ \E u \in Users, gs \in SUBSET GroupsThere : AddUser(u, gs) \/ EditUser(u, gs)
    \/ \E g \in Groups, us \in SUBSET There, leader \in There \cup {None},
          chairman \in There \cup {None} :
          AddGroup(g, us, leader, chairman) \/ EditGroup(g, us, leader, chairman)

-----------------------------------------------------------------------------

GroupInit ==
    /\ account \in [Users -> {"new", "there"}]
    /\ group = [g \in Groups |-> NewGroup]

GroupTypeOK ==
    /\ account \in [Users -> States]
    /\ group \in [Groups -> GroupRows]
=============================================================================
