---------------------------- MODULE ConsultationRecords ----------------------------
(* What the consultation component promises a user, with no table rows and no   *)
(* version chain: a set of documents, each absent, live or in the trash, with   *)
(* a number of revisions and the set of attached files.  Consultations.tla      *)
(* implements it when requests do not overlap.                                  *)
EXTENDS Naturals

CONSTANTS Docs, Files

VARIABLES
    status,     \* [Docs -> {"absent", "live", "trash"}]
    revisions,  \* [Docs -> Nat], the length of the document's history
    attached    \* [Docs -> SUBSET Files]

vars == <<status, revisions, attached>>

TypeOK ==
    /\ status \in [Docs -> {"absent", "live", "trash"}]
    /\ revisions \in [Docs -> Nat]
    /\ attached \in [Docs -> SUBSET Files]

InUse == UNION {attached[d] : d \in Docs}

Init ==
    /\ status = [d \in Docs |-> "absent"]
    /\ revisions = [d \in Docs |-> 0]
    /\ attached = [d \in Docs |-> {}]

Create(d) ==
    /\ status[d] = "absent"
    /\ status' = [status EXCEPT ![d] = "live"]
    /\ revisions' = [revisions EXCEPT ![d] = 1]
    /\ \E fs \in SUBSET (Files \ InUse) :
          attached' = [attached EXCEPT ![d] = fs]

Revise(d) ==
    /\ status[d] = "live"
    /\ revisions' = [revisions EXCEPT ![d] = @ + 1]
    /\ \E fs \in SUBSET (attached[d] \cup (Files \ InUse)) :
          attached' = [attached EXCEPT ![d] = fs]
    /\ UNCHANGED status

\* A document in the trash keeps its history and its files ...
Trash(d) ==
    /\ status[d] = "live"
    /\ status' = [status EXCEPT ![d] = "trash"]
    /\ UNCHANGED <<revisions, attached>>

\* ... and comes back with all of them.
Restore(d) ==
    /\ status[d] = "trash"
    /\ status' = [status EXCEPT ![d] = "live"]
    /\ UNCHANGED <<revisions, attached>>

\* Only documents in the trash are ever purged, each with its whole history.
Purge(ds) ==
    /\ \A d \in ds : status[d] = "trash"
    /\ status' = [d \in Docs |-> IF d \in ds THEN "absent" ELSE status[d]]
    /\ revisions' = [d \in Docs |-> IF d \in ds THEN 0 ELSE revisions[d]]
    /\ attached' = [d \in Docs |-> IF d \in ds THEN {} ELSE attached[d]]

Next ==
    \/ \E d \in Docs : Create(d) \/ Revise(d) \/ Trash(d) \/ Restore(d)
    \/ \E ds \in SUBSET Docs : Purge(ds)

Spec == Init /\ [][Next]_vars
=============================================================================
