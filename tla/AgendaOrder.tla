--------------------------------- MODULE AgendaOrder ---------------------------------
(* What the agenda of a meeting promises its users: a list of items, where new  *)
(* ones go to the end, one can be taken out, and one can be dragged to a place  *)
(* next to another without disturbing the rest.  Agenda.tla implements it as    *)
(* long as one user works at a time.                                            *)
EXTENDS Naturals, Sequences

CONSTANT Items

VARIABLE order   \* the items from top to bottom, without repetition

Elements(s) == {s[k] : k \in 1 .. Len(s)}

Without(i) == SelectSeq(order, LAMBDA j : j # i)

Init == order = << >>

\* New items, or copies of those of another meeting, go to the end.
Extend(s) == Elements(s) \cap Elements(order) = {} /\ order' = order \o s

Remove(i) == i \in Elements(order) /\ order' = Without(i)

\* i leaves its place and stands right above or right below j.
Drag(i, j, direction) ==
    /\ {i, j} \subseteq Elements(order)
    /\ i # j
    /\ LET rest == Without(i)
           k == CHOOSE n \in 1 .. Len(rest) : rest[n] = j
           cut == IF direction = "above" THEN k - 1 ELSE k
       IN  order' = SubSeq(rest, 1, cut) \o <<i>> \o SubSeq(rest, cut + 1, Len(rest))

Next ==
    \/ \E n \in 0 .. Len(order') : Extend(SubSeq(order', n + 1, Len(order')))
    \/ \E i \in Items : Remove(i)
    \/ \E i, j \in Items, direction \in {"above", "below"} : Drag(i, j, direction)

Spec == Init /\ [][Next]_order
=============================================================================
