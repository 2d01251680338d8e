------------------------------------ MODULE Agenda ------------------------------------
(* The agenda items of one meeting and their column `position`:                 *)
(*   models/meeting.py        AgendaItem.create, Meeting.agenda_items           *)
(*   views/agenda_items.py    add, delete, and copy from another meeting        *)
(*   views/meetings.py        move_agenda_item                                  *)
(*   utils.py                 fix_agenda_item_positions, run by an upgrade      *)
(*   sortable_custom.js       the page that is dragged on                       *)
(*                                                                              *)
(* A user drags on a page that was rendered earlier and that names items by     *)
(* their positions; the server reads the items, computes new positions from     *)
(* what it read, and writes the ones that changed.  Each of these is a step, so *)
(* that the requests of several users interleave between them.                  *)
EXTENDS Naturals, FiniteSets

CONSTANTS
    Items,     \* identities of rows of the table agenda_items
    Users,     \* the users who edit this meeting
    MaxCopy    \* bound: how many items another meeting has

ASSUME MaxCopyAssumption == MaxCopy \in Nat

VARIABLES
    items,      \* SUBSET Items: the rows of the meeting
    position,   \* [Items -> Nat]: their column position
    used,       \* SUBSET Items: ids ever used
    req         \* [Users -> Request]: what each user is doing

vars == <<items, position, used, req>>

-----------------------------------------------------------------------------
(* Types *)

\* seen: the positions a page shows, or a request has read; pending: those of
\* new items, left of which are still to be created; item, subject, target and
\* direction: what was dragged, and the url that asks for it.
Request == [op: {"idle", "page", "asked", "move", "create"},
            on: SUBSET Items, seen: [Items -> Nat],
            pending: SUBSET Nat, left: Nat,
            item: SUBSET Items, subject: Nat, target: Nat,
            direction: {"above", "below"}]

Idle == [op |-> "idle", on |-> {}, seen |-> [i \in Items |-> 0],
         pending |-> {}, left |-> 0,
         item |-> {}, subject |-> 0, target |-> 0, direction |-> "above"]

\* Positions are natural numbers, and requests are what they can be.
TypeOK ==
    /\ items \subseteq Items
    /\ position \in [Items -> Nat]
    /\ used \subseteq Items
    /\ req \in [Users -> Request]

Init ==
    /\ items = {}
    /\ position = [i \in Items |-> 0]
    /\ used = {}
    /\ req = [u \in Users |-> Idle]

Finish(u) == req' = [req EXCEPT ![u] = Idle]

-----------------------------------------------------------------------------
(* New items *)

Taken(u) == {position[i] : i \in items} \cup req[u].pending

\* A defect for comparison: the number of items as the next position.
NextPositionCount(u) == Cardinality(items) + Cardinality(req[u].pending)

\* AgendaItem.create: one more than the largest, of the rows and of what this
\* transaction has flushed.
NextPosition(u) ==
    IF Taken(u) = {} THEN 0
    ELSE (CHOOSE n \in Taken(u) : \A k \in Taken(u) : k <= n) + 1

\* add_agenda_item_view creates one item, copy_agenda_item_view one for each
\* item of another meeting.
StartCreate(u) ==
    /\ req[u].op = "idle"
    /\ \E n \in 1 .. MaxCopy :
          req' = [req EXCEPT ![u] = [Idle EXCEPT !.op = "create", !.left = n]]
    /\ UNCHANGED <<items, position, used>>

Create(u) ==
    /\ req[u].op = "create"
    /\ req[u].left > 0
    /\ req' = [req EXCEPT ![u] = [req[u] EXCEPT !.left = req[u].left - 1,
                                    !.pending = req[u].pending \cup {NextPosition(u)}]]
    /\ UNCHANGED <<items, position, used>>

\* The commit gives each new item its position.
SaveNew(u) ==
    /\ req[u].op = "create"
    /\ req[u].left = 0
    /\ \E new \in SUBSET (Items \ used), place \in [Items -> req[u].pending] :
          /\ \A i, j \in new : place[i] = place[j] => i = j
          /\ \A n \in req[u].pending : \E i \in new : place[i] = n
          /\ items' = items \cup new
          /\ used' = used \cup new
          /\ position' = [i \in Items |-> IF i \in new THEN place[i] ELSE position[i]]
    /\ Finish(u)

-----------------------------------------------------------------------------
(* delete_agenda_item_view leaves a gap in the positions *)

Delete(u, i) ==
    /\ req[u].op = "idle"
    /\ i \in items
    /\ items' = items \ {i}
    /\ UNCHANGED <<position, used, req>>

-----------------------------------------------------------------------------
(* Dragging *)

ShowPage(u) ==
    /\ req[u].op = "idle"
    /\ req' = [req EXCEPT ![u] =
                  [Idle EXCEPT !.op = "page", !.on = items, !.seen = position]]
    /\ UNCHANGED <<items, position, used>>

LeavePage(u) ==
    /\ req[u].op = "page"
    /\ Finish(u)
    /\ UNCHANGED <<items, position, used>>

\* on_move_element: the url names both items by what data-sortable-id shows.
AskMove(u, i, j, direction) ==
    /\ req[u].op = "page"
    /\ {i, j} \subseteq req[u].on
    /\ i # j
    /\ req' = [req EXCEPT ![u] =
                  [Idle EXCEPT !.op = "asked", !.item = {i}, !.direction = direction,
                               !.subject = req[u].seen[i], !.target = req[u].seen[j]]]
    /\ UNCHANGED <<items, position, used>>

\* move_agenda_item reads context.agenda_items.
ReadItems(u) ==
    /\ req[u].op = "asked"
    /\ req' = [req EXCEPT ![u] = [req[u] EXCEPT !.op = "move", !.on = items,
                                                !.seen = position]]
    /\ UNCHANGED <<items, position, used>>

\* A defect for comparison: everything above the new place moves up.
BetweenOpen(old, new, n) == IF old < new THEN n <= new - 1 ELSE new <= n /\ n < old

\* "Adjust positions of items between old and new positions".
Between(old, new, n) == IF old < new THEN old < n /\ n <= new - 1 ELSE new <= n /\ n < old

\* A defect for comparison: below the target is where the target is.
NewPlaceAtTarget(target, direction) == target

NewPlace(target, direction) == IF direction = "above" THEN target ELSE target + 1

Shifted(old, new, n) ==
    IF ~Between(old, new, n) THEN n ELSE IF old < new THEN n - 1 ELSE n + 1

\* A defect for comparison: the two places are exchanged.
MovedSwapped(seen, subject, old, new) ==
    LET place == IF old < new THEN new - 1 ELSE new
    IN  [i \in Items |-> IF i = subject THEN place
                         ELSE IF seen[i] = place THEN old ELSE seen[i]]

\* A defect for comparison: the place it leaves is not taken into account.
MovedToNew(seen, subject, old, new) ==
    [i \in Items |-> IF i = subject THEN new ELSE Shifted(old, new, seen[i])]

Moved(seen, subject, old, new) ==
    [i \in Items |->
        IF i = subject THEN (IF old < new THEN new - 1 ELSE new)
        ELSE Shifted(old, new, seen[i])]

\* The first items with the positions of the url, or what a tie makes the first.
IsMeant(r, i, j) ==
    /\ r.seen[i] = r.subject
    /\ r.seen[j] = r.target
    /\ r.subject = r.target => i = j

After(r, i) == Moved(r.seen, i, r.subject, NewPlace(r.target, r.direction))

\* The flush writes the rows whose position is not what was read.
Written(r, i) == {k \in r.on : After(r, i)[k] # r.seen[k]}

SaveMove(u) ==
    LET r == req[u]
    IN  /\ r.op = "move"
        /\ \E i, j \in r.on :
              /\ IsMeant(r, i, j)
              /\ Written(r, i) \subseteq items
              /\ position' = [k \in Items |-> IF k \in Written(r, i) THEN After(r, i)[k]
                                               ELSE position[k]]
        /\ Finish(u)
        /\ UNCHANGED <<items, used>>

\* No item has these positions any more, or a row to write is gone at the flush.
MoveFails(u) ==
    LET r == req[u]
    IN  /\ r.op = "move"
        /\ \A i, j \in r.on : IsMeant(r, i, j) => ~ Written(r, i) \subseteq items
        /\ Finish(u)
        /\ UNCHANGED <<items, position, used>>

-----------------------------------------------------------------------------
(* fix_agenda_item_positions: 0, 1, 2 ... in the order of the positions.  The   *)
(* upgrade runs when no request is being served; pages stay open.               *)

FixPositions ==
    /\ \A u \in Users : req[u].op \in {"idle", "page"}
    /\ \E place \in [Items -> 0 .. Cardinality(items)] :
          /\ \A i, j \in items : position[i] < position[j] => place[i] < place[j]
          /\ \A i \in items : place[i] < Cardinality(items)
          /\ \A i, j \in items : place[i] = place[j] => i = j
          /\ position' = [i \in Items |-> IF i \in items THEN place[i] ELSE position[i]]
    /\ UNCHANGED <<items, used, req>>

-----------------------------------------------------------------------------

Act(u) ==
    \/ StartCreate(u) \/ Create(u) \/ SaveNew(u)
    \/ \E i \in Items : Delete(u, i)
    \/ ShowPage(u) \/ LeavePage(u)
    \/ \E i, j \in Items, direction \in {"above", "below"} : AskMove(u, i, j, direction)
    \/ ReadItems(u) \/ SaveMove(u) \/ MoveFails(u)

Next == (\E u \in Users : Act(u)) \/ FixPositions

Spec == Init /\ [][Next]_vars

-----------------------------------------------------------------------------
(* Properties *)

\* No two items of a meeting share a position, with gaps or without.
DistinctPositions ==
    \A i, j \in items : position[i] = position[j] => i = j

\* No request committed since u has read the items.
IsFresh(u) ==
    /\ req[u].on = items
    /\ \A i \in items : req[u].seen[i] = position[i]
    /\ DistinctPositions

\* However old the page is, a move that overlaps no other request leaves no two
\* items at the same position if there were none before (move_agenda_item).
FreshMovesKeepDistinct ==
    [][\A u \in Users : SaveMove(u) /\ IsFresh(u) => DistinctPositions']_vars

Beside(i, j, direction, place) ==
    /\ IF direction = "above" THEN place[i] < place[j] ELSE place[j] < place[i]
    /\ \A k \in items \ {i, j} : \/ place[k] < place[i] /\ place[k] < place[j]
                                 \/ place[k] > place[i] /\ place[k] > place[j]

LandsBeside(u) ==
    \A i, j \in items :
        position[i] = req[u].subject /\ position[j] = req[u].target /\ i # j
        => Beside(i, j, req[u].direction, position')

\* Such a move puts the subject right above or below the target, with no item
\* between them ("the id above which or below which the subject is moved" in
\* sortable_custom.js), whatever gaps deletions have left.
FreshMovesLand ==
    [][\A u \in Users : SaveMove(u) /\ IsFresh(u) => LandsBeside(u)]_vars

\* A move changes the place of the item that was dragged, and of no other
\* relative to the rest ("subject_id: the id of the item moved around" in
\* sortable_custom.js).
MovesTheDragged ==
    [][\A u \in Users : SaveMove(u) =>
          \A i, j \in items \ req[u].item :
              position[i] < position[j] => position'[i] < position'[j]]_vars

\* The agenda from top to bottom.
Order == [k \in 1 .. Cardinality(items) |->
             CHOOSE i \in items :
                 Cardinality({j \in items : position[j] < position[i]}) = k - 1]

Agenda == INSTANCE AgendaOrder WITH order <- Order

\* As long as one user works at a time the positions implement a list: items
\* are appended, taken out and dragged, and the upgrade changes nothing.
ImplementsOrder == Agenda!Spec
=============================================================================
