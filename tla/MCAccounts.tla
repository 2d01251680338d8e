---------------------------------- MODULE MCAccounts ----------------------------------
(* Accounts for TLC. *)
EXTENDS Accounts, TLC

Symmetry == Permutations(Users) \cup Permutations(Browsers) \cup Permutations(Tans)
            \cup Permutations(Links) \cup Permutations(Numbers)

RowsOfTans == Cardinality({t \in Tans : tan[t].state # "none" \/ Reserved(t)})

RowsOfLinks == Cardinality({l \in Links : link[l].state # "none" \/ Reserved(l)})

\* Bound: two rows in all, two tokens, two links or one of each.
TwoRows == RowsOfTans + RowsOfLinks <= 2

\* Each setting where it counts.  Without a token, nobody is logged in unless
\* passwordOnly is set, and with it no number is stored; it takes two tokens to
\* store one number twice.
SettingsApart ==
    /\ RowsOfLinks = 2 => settings.passwordOnly
    /\ settings.passwordOnly \/ RowsOfLinks > 0 => settings.uniqueNumbers
=============================================================================
