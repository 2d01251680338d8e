--------------------------- MODULE Consultations_proofs ---------------------------
(* Proofs about Consultations, for any set of rows and any number of workers:   *)
(* the version chains keep their shape, and hard_delete removes exactly the     *)
(* rows whose ids it reports, however requests interleave.                      *)
EXTENDS Consultations, TLAPS, WellFoundedInduction, FiniteSetTheorems

-----------------------------------------------------------------------------
(* The inductive invariant *)

\* An id in use was inserted before now; one never used has no columns.
CreatedOK ==
    \A v \in Versions :
        /\ created[v] <= clock
        /\ v \in exists => created[v] > 0
        /\ created[v] = 0 => replacedBy[v] = NoVersion

\* A request only names rows that were inserted, and a purge that has followed
\* the chains holds every predecessor of its rows.
RequestOK(r) ==
    /\ \A v \in r.ids : created[v] > 0
    /\ r.target # NoVersion => created[r.target] > 0
    /\ r.op = "purge" /\ r.read => \A i \in r.ids : Predecessors(i) \subseteq r.ids

RequestsOK == \A w \in Workers : RequestOK(req[w])

IInv == TypeOK /\ CreatedOK /\ ChainShape /\ OnePredecessor /\ RequestsOK

-----------------------------------------------------------------------------
(* Lemmas on the history of a set of rows *)

\* The rows of S belong to their own history.
LEMMA HistoryContains ==
    ASSUME NEW S, exists \subseteq Versions
    PROVE  S \cap exists \subseteq WithHistory(S)
BY DEF WithHistory

\* The history of S is closed under predecessors.
LEMMA HistoryClosed ==
    ASSUME NEW S, exists \subseteq Versions,
           NEW v \in WithHistory(S), NEW u \in Predecessors(v)
    PROVE  u \in WithHistory(S)
<1>1. u \in exists
  BY DEF Predecessors
<1>2. SUFFICES ASSUME NEW T \in SUBSET Versions, S \subseteq T,
                      \A t \in T : Predecessors(t) \subseteq T
               PROVE  u \in T
  BY <1>1 DEF WithHistory
<1>3. v \in T
  BY <1>2 DEF WithHistory
<1>4. QED
  BY <1>2, <1>3

\* A predecessor of a row of S is in the history of S, even if that row is gone.
LEMMA HistoryOfGone ==
    ASSUME NEW S, exists \subseteq Versions,
           NEW v \in S, NEW u \in Predecessors(v)
    PROVE  u \in WithHistory(S)
<1>1. u \in exists
  BY DEF Predecessors
<1>2. QED
  BY <1>1 DEF WithHistory

\* A set that is closed under predecessors holds its whole history.
LEMMA HistoryOfClosed ==
    ASSUME NEW S \in SUBSET Versions,
           \A s \in S : Predecessors(s) \subseteq S
    PROVE  WithHistory(S) \subseteq S
BY DEF WithHistory

-----------------------------------------------------------------------------
(* Type correctness *)

\* A worker without a request.
LEMMA IdleType == Idle \in Request
BY DEF Idle, Request, Ops

\* No step of a request takes a column or a request out of its type.
LEMMA TypeStep == TypeOK /\ [Next]_vars => TypeOK'
<1>0. SUFFICES ASSUME TypeOK, [Next]_vars PROVE TypeOK'
  OBVIOUS
<1>1. ASSUME NEW w \in Workers, Add(w) PROVE TypeOK'
  BY <1>0, <1>1 DEF TypeOK, Add, Insert, FreshVersions, FreshFiles, FilesAfterEdit
<1>2. ASSUME NEW w \in Workers, NEW op \in {"edit", "delete", "restore"},
             NEW v \in Versions, LoadContext(w, op, v)
      PROVE  TypeOK'
  <2>1. [Idle EXCEPT !.op = op, !.target = v, !.ids = ToToggle(op, v)] \in Request
    BY DEF Idle, Request, Ops, ToToggle
  <2>2. QED
    BY <1>0, <1>2, <2>1 DEF TypeOK, LoadContext, rows, fileRows
<1>3. ASSUME NEW w \in Workers, ReadFiles(w) PROVE TypeOK'
  <2>1. FilesToWrite(req[w].op, req[w].target) \in SUBSET Files
    BY DEF FilesToWrite
  <2>2. [req[w] EXCEPT !.read = TRUE,
           !.copied = FilesToWrite(req[w].op, req[w].target)] \in Request
    BY <1>0, <2>1 DEF TypeOK, Request
  <2>3. QED
    BY <1>0, <1>3, <2>2 DEF TypeOK, ReadFiles, rows, fileRows
<1>4. ASSUME NEW w \in Workers, SaveEdit(w) PROVE TypeOK'
  <2>1. PICK next \in FreshVersions, kept \in SUBSET req[w].copied,
             new \in SUBSET FreshFiles :
          /\ Insert(next)
          /\ latest' = LatestAfterEdit(req[w].target, next)
          /\ replacedBy' = ReplacedAfterEdit(req[w].target, next)
          /\ fileOf' = FilesAfterEdit(next, kept \cup new, req[w].copied \ kept)
          /\ uploaded' = uploaded \cup new
    BY <1>4 DEF SaveEdit
  <2>2. next \in Versions /\ new \subseteq Files
    BY DEF FreshVersions, FreshFiles
  <2>3. /\ exists' \subseteq Versions
        /\ created' \in [Versions -> Nat]
        /\ clock' \in Nat
        /\ uploaded' \subseteq Files
    BY <1>0, <2>1, <2>2 DEF TypeOK, Insert
  <2>4. /\ latest' \in [Versions -> BOOLEAN]
        /\ replacedBy' \in [Versions -> Versions \cup {NoVersion}]
    BY <1>0, <2>1, <2>2 DEF TypeOK, LatestAfterEdit, ReplacedAfterEdit
  <2>5. fileOf' \in [Files -> Versions \cup {NoVersion}]
    BY <1>0, <2>1, <2>2 DEF TypeOK, FilesAfterEdit
  <2>6. QED
    BY <1>0, <1>4, IdleType, <2>3, <2>4, <2>5 DEF TypeOK, SaveEdit, Finish
<1>5. ASSUME NEW w \in Workers, NEW op \in {"delete", "restore"}, SaveToggle(w, op)
      PROVE  TypeOK'
  <2>1. deleted' \in [Versions -> BOOLEAN]
    BY <1>0, <1>5 DEF TypeOK, SaveToggle, DeletedAfter
  <2>2. fileDeleted' \in [Files -> BOOLEAN]
    BY <1>0, <1>5 DEF TypeOK, SaveToggle, FileDeletedAfter
  <2>3. QED
    BY <1>0, <1>5, IdleType, <2>1, <2>2 DEF TypeOK, SaveToggle, Finish
<1>6. ASSUME NEW w \in Workers, ShowForm(w) \/ Abort(w) PROVE TypeOK'
  BY <1>0, <1>6, IdleType DEF TypeOK, ShowForm, Abort, Finish, rows, fileRows
<1>7. ASSUME NEW w \in Workers, ScanTrash(w) PROVE TypeOK'
  <2>1. PICK date \in 1 .. clock :
          req' = [req EXCEPT ![w] = [Idle EXCEPT !.op = "purge", !.ids = Expired(date)]]
    BY <1>7 DEF ScanTrash
  <2>2. [Idle EXCEPT !.op = "purge", !.ids = Expired(date)] \in Request
    BY <1>0 DEF TypeOK, Idle, Request, Ops, Expired
  <2>3. QED
    BY <1>0, <1>7, <2>1, <2>2 DEF TypeOK, ScanTrash, rows, fileRows
<1>8. ASSUME NEW w \in Workers, FollowChains(w) PROVE TypeOK'
  <2>1. ChainsOf(req[w].ids) \in SUBSET Versions
    BY <1>0 DEF TypeOK, ChainsOf, WithHistory
  <2>2. [req[w] EXCEPT !.read = TRUE,
           !.ids = req[w].ids \cup ChainsOf(req[w].ids)] \in Request
    BY <1>0, <2>1 DEF TypeOK, Request
  <2>3. QED
    BY <1>0, <1>8, <2>2 DEF TypeOK, FollowChains, rows, fileRows
<1>9. ASSUME NEW w \in Workers, Purge(w) PROVE TypeOK'
  BY <1>0, <1>9, IdleType DEF TypeOK, Purge, Finish
<1>10. CASE UNCHANGED vars
  BY <1>0, <1>10 DEF TypeOK, vars, rows, fileRows
<1>11. QED
  BY <1>0, <1>1, <1>2, <1>3, <1>4, <1>5, <1>6, <1>7, <1>8, <1>9, <1>10 DEF Next, Step

\* Every column and every request holds a value of its type in every state.
THEOREM TypeCorrect == Spec => []TypeOK
<1>1. Init => TypeOK
  BY IdleType DEF Init, TypeOK
<1>2. QED
  BY <1>1, TypeStep, PTL DEF Spec

-----------------------------------------------------------------------------
(* The shape of the chains *)

\* A step that leaves the columns alone keeps the shape of the chains.
LEMMA ShapeUnchanged ==
    ASSUME ChainShape, OnePredecessor,
           UNCHANGED <<exists, created, latest, replacedBy>>
    PROVE  ChainShape' /\ OnePredecessor'
BY DEF ChainShape, OnePredecessor

\* add_consultation_view inserts a chain of one row.
LEMMA AddShape ==
    ASSUME IInv, NEW w \in Workers, Add(w)
    PROVE  ChainShape' /\ OnePredecessor'
<1>1. PICK v \in FreshVersions :
        Insert(v) /\ latest' = [latest EXCEPT ![v] = TRUE]
  BY DEF Add
<1>2. v \in Versions /\ v \notin exists /\ replacedBy[v] = NoVersion
  BY DEF IInv, CreatedOK, FreshVersions
<1>3. replacedBy' = replacedBy
  BY DEF Add
<1>4. ChainShape'
  BY <1>1, <1>2, <1>3, NoVersionAssumption DEF IInv, TypeOK, ChainShape, Insert
<1>5. OnePredecessor'
  BY <1>1, <1>2, <1>3 DEF IInv, TypeOK, OnePredecessor, Insert
<1>6. QED
  BY <1>4, <1>5

\* edit_consultation_view puts its new row behind the row it edits, which is
\* cut from a newer one if another edit came first.
LEMMA EditShape ==
    ASSUME IInv, NEW w \in Workers, SaveEdit(w)
    PROVE  ChainShape' /\ OnePredecessor'
<1> DEFINE prev == req[w].target
<1>1. PICK next \in FreshVersions :
        /\ prev \in exists
        /\ Insert(next)
        /\ latest' = LatestAfterEdit(prev, next)
        /\ replacedBy' = ReplacedAfterEdit(prev, next)
  BY DEF SaveEdit, RowsRemain
<1>2. next \in Versions /\ next \notin exists /\ replacedBy[next] = NoVersion
  BY DEF IInv, CreatedOK, FreshVersions
<1>3. prev \in Versions /\ prev # next /\ created[prev] <= clock
  BY <1>1, <1>2 DEF IInv, TypeOK, CreatedOK
<1>4. \A u \in exists : replacedBy[u] # next
  BY <1>2, NoVersionAssumption DEF IInv, ChainShape
<1>5. /\ exists' = exists \cup {next}
      /\ \A v \in Versions : created'[v] = IF v = next THEN clock + 1 ELSE created[v]
      /\ \A v \in Versions :
            /\ latest'[v] = IF v = prev THEN FALSE ELSE IF v = next THEN TRUE ELSE latest[v]
            /\ replacedBy'[v] = IF v = prev THEN next ELSE replacedBy[v]
  BY <1>1, <1>2, <1>3 DEF IInv, TypeOK, Insert, LatestAfterEdit, ReplacedAfterEdit
<1>6. ChainShape'
  <2>1. SUFFICES ASSUME NEW v \in exists'
                 PROVE  /\ latest'[v] <=> replacedBy'[v] = NoVersion
                        /\ ~latest'[v] => /\ replacedBy'[v] \in exists'
                                         /\ created'[v] < created'[replacedBy'[v]]
    BY DEF ChainShape
  <2>2. CASE v = next
    BY <1>2, <1>3, <1>5, <2>2
  <2>3. CASE v = prev
    <3>1. /\ latest'[v] = FALSE /\ replacedBy'[v] = next /\ next \in exists'
          /\ created'[v] = created[prev] /\ created'[next] = clock + 1
      BY <1>2, <1>3, <1>5, <2>3
    <3>2. next # NoVersion /\ created[prev] < clock + 1
      BY <1>2, <1>3, NoVersionAssumption DEF IInv, TypeOK
    <3>3. QED
      BY <3>1, <3>2
  <2>4. CASE v # next /\ v # prev
    <3>1. /\ v \in exists /\ v \in Versions
          /\ latest'[v] = latest[v] /\ replacedBy'[v] = replacedBy[v]
          /\ created'[v] = created[v]
      BY <1>2, <1>5, <2>1, <2>4 DEF IInv, TypeOK
    <3>2. /\ latest[v] <=> replacedBy[v] = NoVersion
          /\ ~latest[v] => /\ replacedBy[v] \in exists
                           /\ created[v] < created[replacedBy[v]]
      BY <3>1 DEF IInv, ChainShape
    <3>3. ~latest[v] => created'[replacedBy[v]] = created[replacedBy[v]]
      BY <1>2, <1>5, <3>2 DEF IInv, TypeOK
    <3>4. QED
      BY <1>5, <3>1, <3>2, <3>3
  <2>5. QED
    BY <2>2, <2>3, <2>4
<1>7. OnePredecessor'
  <2>1. SUFFICES ASSUME NEW u \in exists', NEW v \in exists',
                        replacedBy'[u] = replacedBy'[v], replacedBy'[u] # NoVersion
                 PROVE  u = v
    BY DEF OnePredecessor
  <2>2. u \in Versions /\ v \in Versions /\ u # next /\ v # next
    BY <1>2, <1>3, <1>5, <2>1 DEF IInv, TypeOK
  <2>3. CASE replacedBy'[u] = next
    BY <1>4, <1>5, <2>1, <2>2, <2>3
  <2>4. CASE replacedBy'[u] # next
    <3>1. u \in exists /\ v \in exists /\ u # prev /\ v # prev
      BY <1>3, <1>5, <2>1, <2>2, <2>4
    <3>2. QED
      BY ZenonT(30), <1>5, <2>1, <2>2, <3>1 DEF IInv, OnePredecessor
  <2>5. QED
    BY <2>3, <2>4
<1>8. QED
  BY <1>6, <1>7

\* hard_delete takes the predecessors of every row it removes.
LEMMA PurgeShape ==
    ASSUME IInv, NEW w \in Workers, Purge(w)
    PROVE  ChainShape' /\ OnePredecessor'
<1> DEFINE gone == CascadeOf(req[w].ids)
<1>1. exists' = exists \ gone /\ UNCHANGED <<created, latest, replacedBy>>
  BY DEF Purge
<1>2. ASSUME NEW v \in exists, replacedBy[v] \in gone
      PROVE  v \in gone
  BY <1>2, HistoryClosed DEF IInv, TypeOK, CascadeOf, Predecessors
<1>3. ChainShape'
  BY <1>1, <1>2 DEF IInv, ChainShape
<1>4. OnePredecessor'
  BY <1>1 DEF IInv, OnePredecessor
<1>5. QED
  BY <1>3, <1>4


\* No request breaks the chains, however requests interleave.
LEMMA ShapeStep ==
    ASSUME IInv, [Next]_vars
    PROVE  ChainShape' /\ OnePredecessor'
<1>1. ASSUME NEW w \in Workers, Step(w), ~Add(w), ~SaveEdit(w), ~Purge(w)
      PROVE  UNCHANGED <<exists, created, latest, replacedBy>>
  BY <1>1 DEF Step, LoadContext, ReadFiles, SaveToggle, ShowForm, Abort, ScanTrash,
     FollowChains, rows
<1>2. UNCHANGED vars => UNCHANGED <<exists, created, latest, replacedBy>>
  BY DEF vars, rows
<1>3. QED
  BY <1>1, <1>2, AddShape, EditShape, PurgeShape, ShapeUnchanged DEF Next, IInv

-----------------------------------------------------------------------------
(* What the requests remember *)

\* created counts up, and columns of unused ids stay empty.
LEMMA CreatedStep ==
    ASSUME IInv, [Next]_vars
    PROVE  /\ CreatedOK'
           /\ \A v \in Versions : created[v] > 0 => created'[v] > 0
<1>1. ASSUME NEW w \in Workers, Add(w) \/ SaveEdit(w)
      PROVE  /\ CreatedOK'
             /\ \A v \in Versions : created[v] > 0 => created'[v] > 0
  <2>1. PICK v \in FreshVersions :
          /\ Insert(v)
          /\ \/ replacedBy' = replacedBy
             \/ /\ req[w].target \in exists
                /\ replacedBy' = ReplacedAfterEdit(req[w].target, v)
    BY <1>1 DEF Add, SaveEdit, RowsRemain
  <2>2. v \in Versions /\ clock \in Nat
    BY DEF FreshVersions, IInv, TypeOK
  <2>3. /\ clock' = clock + 1 /\ exists' = exists \cup {v}
        /\ \A u \in Versions : /\ created[u] \in Nat
                              /\ created'[u] = IF u = v THEN clock + 1 ELSE created[u]
    BY <2>1, <2>2 DEF Insert, IInv, TypeOK
  <2>4. \A u \in Versions : created[u] = 0 => replacedBy'[u] = replacedBy[u]
    BY <2>1 DEF ReplacedAfterEdit, IInv, TypeOK, CreatedOK
  <2>5. QED
    BY <2>2, <2>3, <2>4 DEF IInv, CreatedOK
<1>2. ASSUME NEW w \in Workers, Step(w), ~Add(w), ~SaveEdit(w)
      PROVE  exists' \subseteq exists /\ UNCHANGED <<created, replacedBy, clock>>
  BY <1>2 DEF Step, LoadContext, ReadFiles, SaveToggle, ShowForm, Abort, ScanTrash,
     FollowChains, Purge, rows
<1>3. UNCHANGED vars => exists' \subseteq exists /\ UNCHANGED <<created, replacedBy, clock>>
  BY DEF vars, rows
<1>4. exists' \subseteq exists /\ UNCHANGED <<created, replacedBy, clock>>
        => /\ CreatedOK'
           /\ \A v \in Versions : created[v] > 0 => created'[v] > 0
  BY DEF IInv, CreatedOK
<1>5. QED
  BY <1>1, <1>2, <1>3, <1>4 DEF Next

\* A row that gets a new successor gets a fresh one, so nothing that a purge
\* has collected gains a predecessor.
LEMMA PredecessorsStep ==
    ASSUME IInv, [Next]_vars, NEW v \in Versions, created[v] > 0
    PROVE  Predecessors(v)' \subseteq Predecessors(v)
<1>1. ASSUME NEW w \in Workers, Add(w) PROVE Predecessors(v)' \subseteq Predecessors(v)
  <2>1. PICK n \in FreshVersions : Insert(n)
    BY <1>1 DEF Add
  <2>2. replacedBy[n] # v /\ replacedBy' = replacedBy /\ exists' = exists \cup {n}
    BY <1>1, <2>1, NoVersionAssumption DEF Add, Insert, FreshVersions, IInv, CreatedOK
  <2>3. QED
    BY <2>2 DEF Predecessors
<1>2. ASSUME NEW w \in Workers, SaveEdit(w) PROVE Predecessors(v)' \subseteq Predecessors(v)
  <2>1. PICK n \in FreshVersions :
          Insert(n) /\ replacedBy' = ReplacedAfterEdit(req[w].target, n)
    BY <1>2 DEF SaveEdit
  <2>2. n # v /\ replacedBy[n] # v /\ n \in Versions
    BY <2>1, NoVersionAssumption DEF FreshVersions, IInv, CreatedOK
  <2>3. \A u \in Versions : replacedBy'[u] = v => replacedBy[u] = v
    BY <2>1, <2>2 DEF ReplacedAfterEdit, IInv, TypeOK
  <2>4. exists' = exists \cup {n} /\ exists \subseteq Versions
    BY <2>1 DEF Insert, IInv, TypeOK
  <2>5. QED
    BY <2>2, <2>3, <2>4 DEF Predecessors
<1>3. ASSUME NEW w \in Workers, Step(w), ~Add(w), ~SaveEdit(w)
      PROVE  exists' \subseteq exists /\ UNCHANGED replacedBy
  BY <1>3 DEF Step, LoadContext, ReadFiles, SaveToggle, ShowForm, Abort, ScanTrash,
     FollowChains, Purge, rows
<1>4. UNCHANGED vars => exists' \subseteq exists /\ UNCHANGED replacedBy
  BY DEF vars, rows
<1>5. exists' \subseteq exists /\ UNCHANGED replacedBy
        => Predecessors(v)' \subseteq Predecessors(v)
  BY DEF Predecessors
<1>6. QED
  BY <1>1, <1>2, <1>3, <1>4, <1>5 DEF Next

\* A request that a step does not change stays consistent with the rows.
LEMMA RequestKept ==
    ASSUME IInv, [Next]_vars, NEW r \in Request, RequestOK(r)
    PROVE  RequestOK(r)'
<1>1. r.ids \subseteq Versions /\ r.target \in Versions \cup {NoVersion}
  BY DEF Request
<1>2. \A v \in Versions : created[v] > 0 => created'[v] > 0
  BY CreatedStep
<1>3. \A v \in Versions : created[v] > 0 => Predecessors(v)' \subseteq Predecessors(v)
  BY PredecessorsStep
<1>4. QED
  BY <1>1, <1>2, <1>3 DEF RequestOK

\* What each step writes into its request is consistent with the rows.
LEMMA RequestWritten ==
    ASSUME IInv, NEW w \in Workers, Step(w)
    PROVE  \/ req' = req
           \/ \E r \in Request : RequestOK(r)' /\ req' = [req EXCEPT ![w] = r]
<1>1. CASE Add(w)
  BY <1>1 DEF Add
<1>2. CASE SaveEdit(w) \/ ShowForm(w) \/ Abort(w) \/ Purge(w)
           \/ \E op \in {"delete", "restore"} : SaveToggle(w, op)
  <2>1. req' = [req EXCEPT ![w] = Idle]
    BY <1>2 DEF SaveEdit, ShowForm, Abort, Purge, SaveToggle, Finish
  <2>2. RequestOK(Idle)'
    BY DEF RequestOK, Idle
  <2>3. QED
    BY <2>1, <2>2, IdleType
<1>3. ASSUME NEW op \in {"edit", "delete", "restore"}, NEW v \in Versions,
             LoadContext(w, op, v)
      PROVE  \E r \in Request : RequestOK(r)' /\ req' = [req EXCEPT ![w] = r]
  <2>0. PICK r : r = [Idle EXCEPT !.op = op, !.target = v, !.ids = ToToggle(op, v)]
    OBVIOUS
  <2>1. r \in Request /\ req' = [req EXCEPT ![w] = r]
    BY <1>3, <2>0 DEF LoadContext, Idle, Request, Ops, ToToggle
  <2>2. created[v] > 0 /\ created' = created
    BY <1>3 DEF LoadContext, IsContext, IInv, CreatedOK, rows
  <2>3. r.op # "purge" /\ r.target = v /\ r.ids \subseteq {v}
    BY <2>0 DEF Idle, ToToggle
  <2>4. RequestOK(r)'
    BY <2>2, <2>3 DEF RequestOK
  <2>5. QED
    BY <2>1, <2>4
<1>4. CASE ReadFiles(w)
  <2>0. PICK r : r = [req[w] EXCEPT !.read = TRUE,
                        !.copied = FilesToWrite(req[w].op, req[w].target)]
    OBVIOUS
  <2>1. r \in Request /\ req' = [req EXCEPT ![w] = r]
    BY <1>4, <2>0 DEF ReadFiles, IInv, TypeOK, Request, FilesToWrite
  <2>2. r.op # "purge" /\ r.target = req[w].target /\ r.ids = req[w].ids
    BY <1>4, <2>0 DEF ReadFiles, IInv, TypeOK, Request
  <2>3. created' = created
    BY <1>4 DEF ReadFiles, rows
  <2>4. RequestOK(r)'
    BY <2>2, <2>3 DEF RequestOK, IInv, RequestsOK
  <2>5. QED
    BY <2>1, <2>4
<1>5. CASE ScanTrash(w)
  <2>1. PICK date \in 1 .. clock :
          req' = [req EXCEPT ![w] = [Idle EXCEPT !.op = "purge", !.ids = Expired(date)]]
    BY <1>5 DEF ScanTrash
  <2>0. PICK r : r = [Idle EXCEPT !.op = "purge", !.ids = Expired(date)]
    OBVIOUS
  <2>2. r \in Request /\ ~r.read /\ r.target = NoVersion /\ r.ids = Expired(date)
    BY <2>0 DEF IInv, TypeOK, Idle, Request, Ops, Expired
  <2>3. \A v \in r.ids : created'[v] > 0
    BY <1>5, <2>2 DEF ScanTrash, Expired, IInv, TypeOK, CreatedOK, rows
  <2>4. RequestOK(r)'
    BY <2>2, <2>3 DEF RequestOK
  <2>5. QED
    BY <2>0, <2>1, <2>2, <2>4
<1>6. CASE FollowChains(w)
  <2>0. PICK ids, r : /\ ids = req[w].ids \cup ChainsOf(req[w].ids)
                      /\ r = [req[w] EXCEPT !.read = TRUE, !.ids = ids]
    OBVIOUS
  <2>1. exists \subseteq Versions /\ req[w] \in Request
    BY DEF IInv, TypeOK
  <2>2. ids \subseteq Versions
    BY <2>0, <2>1 DEF ChainsOf, WithHistory, Request
  <2>3. r \in Request /\ r.ids = ids /\ r.target = req[w].target
    BY <2>0, <2>1, <2>2 DEF Request
  <2>4. req' = [req EXCEPT ![w] = r] /\ UNCHANGED <<created, exists, replacedBy>>
    BY <1>6, <2>0 DEF FollowChains, rows
  <2>5. \A i \in ids : Predecessors(i) \subseteq ids
    BY <2>0, <2>1, HistoryClosed, HistoryOfGone DEF ChainsOf
  <2>6. \A i \in ids : created[i] > 0
    BY <2>0 DEF IInv, RequestsOK, RequestOK, CreatedOK, TypeOK, ChainsOf, WithHistory
  <2>7. req[w].target # NoVersion => created[req[w].target] > 0
    BY DEF IInv, RequestsOK, RequestOK
  <2>8. RequestOK(r)'
    BY <2>3, <2>4, <2>5, <2>6, <2>7 DEF RequestOK, Predecessors
  <2>9. QED
    BY <2>3, <2>4, <2>8
<1>7. QED
  BY <1>1, <1>2, <1>3, <1>4, <1>5, <1>6 DEF Step

LEMMA RequestsStep ==
    ASSUME IInv, [Next]_vars
    PROVE  RequestsOK'
<1>1. \A x \in Workers : req[x] \in Request /\ RequestOK(req[x])
  BY DEF IInv, TypeOK, RequestsOK, RequestOK
<1>2. ASSUME NEW x \in Workers PROVE RequestOK(req[x])'
  <2>1. PICK s : s = req[x]
    OBVIOUS
  <2>2. RequestOK(s)'
    BY <1>1, <2>1, RequestKept
  <2>3. CASE req'[x] = s
    BY <2>2, <2>3 DEF RequestOK
  <2>4. CASE UNCHANGED vars
    BY <2>1, <2>3, <2>4 DEF vars
  <2>5. ASSUME NEW w \in Workers, Step(w) PROVE RequestOK(req[x])'
    <3>1. CASE req' = req
      BY <2>1, <2>3, <3>1
    <3>2. ASSUME NEW r \in Request, RequestOK(r)', req' = [req EXCEPT ![w] = r]
          PROVE  RequestOK(req[x])'
      <4>1. CASE x = w
        <5>1. req'[x] = r
          BY <3>2, <4>1 DEF IInv, TypeOK
        <5>2. QED
          BY <3>2, <5>1 DEF RequestOK
      <4>2. CASE x # w
        BY <2>1, <2>3, <3>2, <4>2 DEF IInv, TypeOK
      <4>3. QED
        BY <4>1, <4>2
    <3>3. QED
      BY <2>5, <3>1, <3>2, RequestWritten
  <2>6. QED
    BY <2>4, <2>5 DEF Next
<1>3. QED
  BY <1>2 DEF RequestsOK, RequestOK

-----------------------------------------------------------------------------
(* Theorems *)

LEMMA IInvStep == IInv /\ [Next]_vars => IInv'
BY TypeStep, CreatedStep, ShapeStep, RequestsStep DEF IInv

\* IInv is an inductive invariant.
THEOREM Inductive == Spec => []IInv
<1>1. Init => IInv
  BY IdleType
  DEF Init, IInv, TypeOK, CreatedOK, ChainShape, OnePredecessor, RequestsOK, RequestOK, Idle
<1>2. QED
  BY <1>1, IInvStep, PTL DEF Spec

\* The rows of the table form chains in time whatever requests overlap: a row
\* is the latest version exactly when nothing replaces it, and a purge never
\* leaves a row whose replacement is gone.
THEOREM ChainsKeepShape == Spec => []ChainShape
<1>1. IInv => ChainShape
  BY DEF IInv
<1>2. QED
  BY <1>1, Inductive, PTL

\* Every row replaces at most one row: previous_version is well defined.
THEOREM ChainsDoNotJoin == Spec => []OnePredecessor
<1>1. IInv => OnePredecessor
  BY DEF IInv
<1>2. QED
  BY <1>1, Inductive, PTL

\* hard_delete removes exactly the rows it reports, as far as they are still
\* there, although the cascade follows the chains again at the DELETE.
THEOREM PurgeReports == Spec => PurgeReportsAll
<1>1. ASSUME IInv, NEW w \in Workers, Purge(w)
      PROVE  exists \ exists' = req[w].ids \cap exists
  <2>1. req[w].ids \subseteq Versions /\ exists \subseteq Versions
    BY <1>1 DEF IInv, TypeOK, Request
  <2>2. \A i \in req[w].ids : Predecessors(i) \subseteq req[w].ids
    BY <1>1 DEF Purge, IInv, RequestsOK, RequestOK
  <2>3. CascadeOf(req[w].ids) \subseteq req[w].ids
    BY <2>1, <2>2, HistoryOfClosed DEF CascadeOf
  <2>4. req[w].ids \cap exists \subseteq CascadeOf(req[w].ids)
    BY <2>1, HistoryContains DEF CascadeOf
  <2>5. exists' = exists \ CascadeOf(req[w].ids)
    BY <1>1 DEF Purge
  <2>6. QED
    BY <2>3, <2>4, <2>5
<1>2. IInv => \A w \in Workers : Purge(w) => exists \ exists' = req[w].ids \cap exists
  BY <1>1
<1>3. QED
  BY <1>2, Inductive, PTL DEF PurgeReportsAll
-----------------------------------------------------------------------------
(* Files, with one worker *)

OneWorker == \A v, w \in Workers : v = w

\* Ids that were never used have no columns.
UnusedOK ==
    /\ \A v \in Versions : created[v] = 0 => ~deleted[v]
    /\ \A f \in Files \ uploaded : fileOf[f] = NoVersion /\ ~fileDeleted[f]

\* With one worker, what a request has read is what is there when it writes.
ReadIsCurrent ==
    \A w \in Workers : req[w].op \in {"edit", "delete", "restore"} =>
        /\ IsContext(req[w].op, req[w].target)
        /\ req[w].ids = ToToggle(req[w].op, req[w].target)
        /\ req[w].read => req[w].copied = FilesToWrite(req[w].op, req[w].target)

FInv == IInv /\ UnusedOK /\ FilesOnLatest /\ ReadIsCurrent

\* add_consultation_view attaches new files to a new row.
LEMMA AddFiles ==
    ASSUME FInv, NEW w \in Workers, Add(w)
    PROVE  UnusedOK' /\ FilesOnLatest'
<1>1. PICK v \in FreshVersions, new \in SUBSET FreshFiles :
        /\ Insert(v)
        /\ latest' = [latest EXCEPT ![v] = TRUE]
        /\ fileOf' = FilesAfterEdit(v, new, {})
        /\ uploaded' = uploaded \cup new
  BY DEF Add
<1>2. deleted' = deleted /\ fileDeleted' = fileDeleted
  BY DEF Add
<1>3. /\ v \in Versions /\ v \notin exists /\ ~deleted[v]
      /\ new \subseteq Files /\ \A f \in new : ~fileDeleted[f]
  BY DEF FreshVersions, FreshFiles, FInv, IInv, CreatedOK, UnusedOK
<1>4. \A f \in Files : fileOf'[f] = IF f \in new THEN v ELSE fileOf[f]
  BY <1>1 DEF FilesAfterEdit
<1>5. Latest' = Latest \cup {v} /\ exists' = exists \cup {v}
  BY <1>1, <1>3 DEF Latest, Insert, FInv, IInv, TypeOK
<1>6. UnusedOK'
  BY <1>1, <1>2, <1>3, <1>4 DEF UnusedOK, FInv, IInv, TypeOK, Insert
<1>7. \A f \in Files : fileOf'[f] # NoVersion =>
          fileOf'[f] \in Latest' /\ fileDeleted'[f] = deleted'[fileOf'[f]]
  BY <1>2, <1>3, <1>4, <1>5 DEF FInv, IInv, TypeOK, FilesOnLatest
<1>8. \A u \in exists' : deleted'[u] => latest'[u]
  BY <1>1, <1>2, <1>3, <1>5 DEF FInv, IInv, TypeOK, FilesOnLatest
<1>9. QED
  BY <1>6, <1>7, <1>8 DEF FilesOnLatest

\* A context that is not in the trash has no file in the trash, so that what the
\* query of its files returns is all of them.
LEMMA ReadsAllFiles ==
    ASSUME FInv, NEW v \in Latest, NEW op \in {"edit", "delete", "restore"}
    PROVE  IF deleted[v] = (op = "restore")
           THEN FilesToWrite(op, v) = {f \in Files : fileOf[f] = v}
           ELSE FilesToWrite(op, v) = {}
<1>1. v # NoVersion
  BY NoVersionAssumption DEF Latest, FInv, IInv, TypeOK
<1>2. \A f \in Files : fileOf[f] = v => fileDeleted[f] = deleted[v]
  BY <1>1 DEF FInv, FilesOnLatest
<1>3. fileDeleted \in [Files -> BOOLEAN] /\ deleted[v] \in BOOLEAN
  BY DEF Latest, FInv, IInv, TypeOK
<1>4. QED
  BY <1>2, <1>3 DEF FilesToWrite

\* edit_consultation_view takes every file of the row it replaces, to attach it
\* to the new one or to delete it.
LEMMA EditFiles ==
    ASSUME FInv, NEW w \in Workers, SaveEdit(w)
    PROVE  UnusedOK' /\ FilesOnLatest'
<1>1. PICK prev : prev = req[w].target
  OBVIOUS
<1>2. PICK next \in FreshVersions, kept \in SUBSET req[w].copied,
           new \in SUBSET FreshFiles :
        /\ Insert(next)
        /\ latest' = LatestAfterEdit(prev, next)
        /\ fileOf' = FilesAfterEdit(next, kept \cup new, req[w].copied \ kept)
        /\ uploaded' = uploaded \cup new
  BY <1>1 DEF SaveEdit
<1>3. deleted' = deleted /\ fileDeleted' = fileDeleted
  BY DEF SaveEdit
<1>4. prev \in Latest /\ ~deleted[prev] /\ req[w].copied = FilesToWrite("edit", prev)
  BY <1>1 DEF SaveEdit, FInv, ReadIsCurrent, IsContext, Latest
<1>5. req[w].copied = {f \in Files : fileOf[f] = prev}
  BY <1>4, ReadsAllFiles DEF FInv, IInv, TypeOK, Latest
<1>6. /\ next \in Versions /\ next \notin exists /\ ~deleted[next]
      /\ new \subseteq Files /\ \A f \in new : ~fileDeleted[f]
  BY DEF FreshVersions, FreshFiles, FInv, IInv, CreatedOK, UnusedOK
<1>7. prev \in Versions /\ prev \in exists /\ prev # next /\ prev # NoVersion
  BY <1>4, <1>6, NoVersionAssumption DEF Latest, FInv, IInv, TypeOK
<1>8. \A f \in Files : fileOf'[f] = IF f \in kept \cup new THEN next
                                   ELSE IF fileOf[f] = prev THEN NoVersion ELSE fileOf[f]
  BY <1>2, <1>5 DEF FilesAfterEdit
<1>9. Latest' = (Latest \ {prev}) \cup {next} /\ exists' = exists \cup {next}
  BY <1>2, <1>6, <1>7 DEF Latest, Insert, FInv, IInv, TypeOK, LatestAfterEdit
<1>10. \A f \in kept : f \in Files /\ fileOf[f] = prev /\ ~fileDeleted[f]
  BY <1>4, <1>5, <1>7 DEF FInv, FilesOnLatest
<1>11. \A f \in kept : f \in uploaded
  BY <1>7, <1>10 DEF FInv, UnusedOK
<1>12. UnusedOK'
  <2>1. \A v \in Versions : created'[v] = 0 => created[v] = 0
    BY <1>2, <1>6 DEF Insert, FInv, IInv, TypeOK
  <2>2. \A f \in Files \ uploaded' : f \in Files \ uploaded /\ f \notin kept \cup new
    BY <1>2, <1>11
  <2>3. \A f \in Files \ uploaded : fileOf[f] = NoVersion /\ ~fileDeleted[f]
    BY DEF FInv, UnusedOK
  <2>4. \A f \in Files \ uploaded' : fileOf'[f] = NoVersion /\ ~fileDeleted'[f]
    BY <1>3, <1>7, <1>8, <2>2, <2>3
  <2>5. \A v \in Versions : created'[v] = 0 => ~deleted'[v]
    BY <1>3, <2>1 DEF FInv, UnusedOK
  <2>6. QED
    BY <2>4, <2>5 DEF UnusedOK
<1>13. ASSUME NEW f \in Files, fileOf'[f] # NoVersion
       PROVE  fileOf'[f] \in Latest' /\ fileDeleted'[f] = deleted'[fileOf'[f]]
  <2>1. CASE f \in kept \cup new
    <3>1. fileOf'[f] = next /\ ~fileDeleted[f]
      BY <1>6, <1>8, <1>10, <2>1
    <3>2. fileDeleted[f] \in BOOLEAN /\ deleted[next] \in BOOLEAN
      BY <1>6 DEF FInv, IInv, TypeOK
    <3>3. QED
      BY <1>3, <1>6, <1>9, <3>1, <3>2
  <2>2. CASE f \notin kept \cup new
    <3>1. fileOf[f] # prev /\ fileOf'[f] = fileOf[f]
      BY <1>8, <1>13, <2>2
    <3>2. fileOf[f] \in Latest /\ fileDeleted[f] = deleted[fileOf[f]]
      BY <1>13, <3>1 DEF FInv, FilesOnLatest
    <3>3. QED
      BY <1>3, <1>9, <3>1, <3>2
  <2>3. QED
    BY <2>1, <2>2
<1>14. ASSUME NEW u \in exists', deleted'[u] PROVE latest'[u]
  <2>1. u \in exists /\ u # next /\ u # prev
    BY <1>3, <1>4, <1>6, <1>9, <1>14
  <2>2. latest[u]
    BY <1>3, <1>14, <2>1 DEF FInv, FilesOnLatest
  <2>3. QED
    BY <1>2, <1>6, <1>7, <2>1, <2>2 DEF LatestAfterEdit, FInv, IInv, TypeOK
<1>15. QED
  BY <1>12, <1>13, <1>14 DEF FilesOnLatest

\* Soft delete and restore take the row and all of its files.
LEMMA ToggleFiles ==
    ASSUME FInv, NEW w \in Workers, NEW op \in {"delete", "restore"}, SaveToggle(w, op)
    PROVE  UnusedOK' /\ FilesOnLatest'
<1>1. PICK v : v = req[w].target
  OBVIOUS
<1>2. /\ v \in Latest /\ v \in Versions /\ created[v] > 0 /\ v # NoVersion
      /\ op = "delete" => ~deleted[v]
      /\ req[w].ids = ToToggle(op, v) /\ req[w].copied = FilesToWrite(op, v)
  BY <1>1, NoVersionAssumption
     DEF SaveToggle, FInv, ReadIsCurrent, IsContext, Latest, IInv, TypeOK, CreatedOK
<1>3. UNCHANGED <<exists, created, latest, fileOf, uploaded>>
  BY DEF SaveToggle
<1>4. Latest' = Latest
  BY <1>3 DEF Latest
<1>5. /\ deleted[v] \in BOOLEAN /\ deleted \in [Versions -> BOOLEAN]
      /\ fileDeleted \in [Files -> BOOLEAN] /\ Latest \subseteq exists
      /\ exists \subseteq Versions
  BY <1>2 DEF FInv, IInv, TypeOK, Latest
<1>6. CASE op = "restore" /\ ~deleted[v]
  <2>1. req[w].ids = {} /\ req[w].copied = {}
    BY <1>2, <1>6, ReadsAllFiles DEF ToToggle
  <2>2. deleted' = deleted /\ fileDeleted' = fileDeleted
    BY <1>5, <2>1 DEF SaveToggle, DeletedAfter, FileDeletedAfter
  <2>3. QED
    BY <1>3, <1>4, <2>2 DEF FInv, FilesOnLatest, UnusedOK
<1>7. CASE op = "delete" \/ deleted[v]
  <2>1. deleted[v] = (op = "restore")
    BY <1>2, <1>5, <1>7
  <2>2. req[w].ids = {v} /\ req[w].copied = {f \in Files : fileOf[f] = v}
    BY <1>2, <1>7, <2>1, ReadsAllFiles DEF ToToggle
  <2>3. /\ \A u \in Versions : deleted'[u] = IF u = v THEN op = "delete" ELSE deleted[u]
        /\ \A f \in Files : fileDeleted'[f] = IF fileOf[f] = v THEN op = "delete"
                                             ELSE fileDeleted[f]
    BY <2>2 DEF SaveToggle, DeletedAfter, FileDeletedAfter
  <2>4. UnusedOK'
    BY <1>2, <1>3, <2>3 DEF FInv, UnusedOK
  <2>5. \A f \in Files : fileOf[f] # NoVersion =>
            fileOf[f] \in Latest /\ fileDeleted[f] = deleted[fileOf[f]]
    BY DEF FInv, FilesOnLatest
  <2>6. \A f \in Files : fileOf[f] # NoVersion => fileDeleted'[f] = deleted'[fileOf[f]]
    BY <1>2, <1>5, <2>3, <2>5
  <2>7. \A u \in exists : deleted'[u] => latest[u]
    BY <1>2, <1>5, <2>3 DEF FInv, FilesOnLatest, Latest
  <2>8. QED
    BY <1>3, <1>4, <2>4, <2>5, <2>6, <2>7 DEF FilesOnLatest
<1>8. QED
  BY <1>6, <1>7

\* hard_delete takes the files of the rows it removes.
LEMMA PurgeFiles ==
    ASSUME FInv, NEW w \in Workers, Purge(w)
    PROVE  UnusedOK' /\ FilesOnLatest'
<1>1. PICK gone : /\ exists' = exists \ gone
                  /\ fileOf' = [f \in Files |-> IF fileOf[f] \in gone THEN NoVersion
                                                ELSE fileOf[f]]
                  /\ UNCHANGED <<created, latest, deleted, fileDeleted, uploaded>>
  BY DEF Purge
<1>2. Latest' = Latest \ gone
  BY <1>1 DEF Latest
<1>3. QED
  BY <1>1, <1>2 DEF FInv, UnusedOK, FilesOnLatest

LEMMA FilesStep ==
    ASSUME FInv, [Next]_vars
    PROVE  UnusedOK' /\ FilesOnLatest'
<1>1. ASSUME UNCHANGED <<rows, fileRows>> PROVE UnusedOK' /\ FilesOnLatest'
  BY <1>1 DEF rows, fileRows, FInv, UnusedOK, FilesOnLatest, Latest
<1>2. ASSUME NEW w \in Workers, Step(w) PROVE UnusedOK' /\ FilesOnLatest'
  BY <1>1, <1>2, AddFiles, EditFiles, ToggleFiles, PurgeFiles
     DEF Step, LoadContext, ReadFiles, ShowForm, Abort, ScanTrash, FollowChains
<1>3. QED
  BY <1>1, <1>2 DEF Next, vars

\* With one worker nothing comes between what a request reads and what it writes.
LEMMA ReadStep ==
    ASSUME FInv, OneWorker, [Next]_vars
    PROVE  ReadIsCurrent'
<1> USE DEF FInv, IInv, TypeOK
<1>1. ASSUME NEW w \in Workers, req'[w].op \notin {"edit", "delete", "restore"}
      PROVE  ReadIsCurrent'
  BY <1>1 DEF OneWorker, ReadIsCurrent
<1>2. ASSUME UNCHANGED <<rows, fileRows, req>> PROVE ReadIsCurrent'
  BY <1>2 DEF ReadIsCurrent, IsContext, ToToggle, FilesToWrite, rows, fileRows
<1>3. ASSUME NEW w \in Workers,
             \/ SaveEdit(w) \/ ShowForm(w) \/ Abort(w) \/ Purge(w)
             \/ \E op \in {"delete", "restore"} : SaveToggle(w, op)
      PROVE  ReadIsCurrent'
  <2>1. req'[w] = Idle
    BY <1>3 DEF SaveEdit, ShowForm, Abort, Purge, SaveToggle, Finish
  <2>2. Idle.op = "idle"
    BY DEF Idle
  <2>3. QED
    BY <1>1, <2>1, <2>2
<1>4. ASSUME NEW w \in Workers, Add(w) PROVE ReadIsCurrent'
  <2>1. req'[w] = Idle
    BY <1>4 DEF Add
  <2>2. Idle.op = "idle"
    BY DEF Idle
  <2>3. QED
    BY <1>1, <2>1, <2>2
<1>5. ASSUME NEW w \in Workers, NEW op \in {"edit", "delete", "restore"},
             NEW v \in Versions, LoadContext(w, op, v)
      PROVE  ReadIsCurrent'
  <2>1. PICK r : r = [Idle EXCEPT !.op = op, !.target = v, !.ids = ToToggle(op, v)]
    OBVIOUS
  <2>2. r.op = op /\ r.target = v /\ r.ids = ToToggle(op, v) /\ ~r.read
    BY <2>1 DEF Idle
  <2>3. req'[w] = r /\ IsContext(op, v) /\ UNCHANGED <<rows, fileRows>>
    BY <1>5, <2>1 DEF LoadContext
  <2>4. IsContext(op, v)' /\ ToToggle(op, v)' = ToToggle(op, v)
    BY <2>3 DEF IsContext, ToToggle, rows
  <2>5. QED
    BY <2>2, <2>3, <2>4 DEF OneWorker, ReadIsCurrent
<1>6. ASSUME NEW w \in Workers, ReadFiles(w) PROVE ReadIsCurrent'
  <2>1. PICK r \in Request : r = req[w]
    OBVIOUS
  <2>2. PICK s : s = [r EXCEPT !.read = TRUE, !.copied = FilesToWrite(r.op, r.target)]
    OBVIOUS
  <2>3. /\ s.op = r.op /\ s.target = r.target /\ s.ids = r.ids
        /\ s.copied = FilesToWrite(r.op, r.target)
    BY <2>2 DEF Request
  <2>4. req'[w] = s /\ UNCHANGED <<rows, fileRows>>
    BY <1>6, <2>1, <2>2 DEF ReadFiles
  <2>5. IsContext(r.op, r.target) /\ r.ids = ToToggle(r.op, r.target)
    BY <1>6, <2>1 DEF ReadFiles, ReadIsCurrent
  <2>6. /\ IsContext(r.op, r.target)' /\ ToToggle(r.op, r.target)' = ToToggle(r.op, r.target)
        /\ FilesToWrite(r.op, r.target)' = FilesToWrite(r.op, r.target)
    BY <2>4, <2>5 DEF IsContext, ToToggle, FilesToWrite, rows, fileRows
  <2>7. QED
    BY <2>3, <2>4, <2>5, <2>6 DEF OneWorker, ReadIsCurrent
<1>7. ASSUME NEW w \in Workers, ScanTrash(w) PROVE ReadIsCurrent'
  <2>1. PICK ids : req' = [req EXCEPT ![w] = [Idle EXCEPT !.op = "purge", !.ids = ids]]
    BY <1>7 DEF ScanTrash
  <2>2. PICK r : r = [Idle EXCEPT !.op = "purge", !.ids = ids]
    OBVIOUS
  <2>3. r.op = "purge" /\ req'[w] = r
    BY <2>1, <2>2 DEF Idle
  <2>4. QED
    BY <1>1, <2>3
<1>8. ASSUME NEW w \in Workers, FollowChains(w) PROVE ReadIsCurrent'
  <2>1. PICK r \in Request : r = req[w]
    OBVIOUS
  <2>2. PICK ids : req' = [req EXCEPT ![w] = [r EXCEPT !.read = TRUE, !.ids = ids]]
    BY <1>8, <2>1 DEF FollowChains
  <2>3. PICK s : s = [r EXCEPT !.read = TRUE, !.ids = ids]
    OBVIOUS
  <2>4. s.op = "purge" /\ req'[w] = s
    BY <1>8, <2>1, <2>2, <2>3 DEF FollowChains, Request
  <2>5. QED
    BY <1>1, <2>4
<1>9. QED
  BY <1>2, <1>3, <1>4, <1>5, <1>6, <1>7, <1>8 DEF Next, Step, vars

\* FInv is an inductive invariant as long as requests do not overlap.
LEMMA FilesInvariant == ASSUME OneWorker PROVE Spec => []FInv
<1>1. Init => UnusedOK /\ FilesOnLatest /\ ReadIsCurrent
  BY DEF Init, UnusedOK, FilesOnLatest, ReadIsCurrent, Idle
<1>2. IInv /\ UnusedOK /\ FilesOnLatest /\ ReadIsCurrent /\ [Next]_vars
      => (UnusedOK /\ FilesOnLatest /\ ReadIsCurrent)'
  BY FilesStep, ReadStep DEF FInv
<1>3. QED
  BY <1>1, <1>2, Inductive, PTL DEF Spec, FInv

\* As long as requests do not overlap, files are attached to latest versions only
\* and are in the trash with them: an edit takes all of a consultation's files
\* along, a soft delete and a restore toggle all of them.
THEOREM FilesFollow == ASSUME OneWorker PROVE Spec => []FilesOnLatest
<1>1. FInv => FilesOnLatest
  BY DEF FInv
<1>2. QED
  BY <1>1, FilesInvariant, PTL

-----------------------------------------------------------------------------
(* The recursive functions along a chain.  next is a column that leads from row *)
(* to row; the rows it leads to from v are the least set that holds v and is    *)
(* closed under next, and a value that depends on this set solves the recursion *)

RowsAlong(next, v) ==
    {u \in Versions : \A T \in SUBSET Versions :
        /\ v \in T
        /\ \A t \in T : next[t] # NoVersion => next[t] \in T
        => u \in T}

EndsAlong(next, v) == {u \in RowsAlong(next, v) : next[u] = NoVersion}

\* The rows from v on are v and the rows from its successor on.
LEMMA AlongStep ==
    ASSUME NEW next \in [Versions -> Versions \cup {NoVersion}], NEW v \in Versions
    PROVE  /\ next[v] = NoVersion => RowsAlong(next, v) = {v}
           /\ next[v] # NoVersion => RowsAlong(next, v) = {v} \cup RowsAlong(next, next[v])
<1>1. ASSUME NEW u \in Versions
      PROVE  /\ u \in RowsAlong(next, u)
             /\ \A t \in RowsAlong(next, u) :
                   next[t] # NoVersion => next[t] \in RowsAlong(next, u)
  BY DEF RowsAlong
<1>2. ASSUME NEW T \in SUBSET Versions, v \in T,
             \A t \in T : next[t] # NoVersion => next[t] \in T
      PROVE  RowsAlong(next, v) \subseteq T
  BY <1>2 DEF RowsAlong
<1>3. CASE next[v] = NoVersion
  <2>1. RowsAlong(next, v) \subseteq {v}
    BY ZenonT(30), <1>2, <1>3
  <2>2. QED
    BY <1>1, <1>3, <2>1
<1>4. CASE next[v] # NoVersion
  <2>1. PICK n \in Versions : n = next[v]
    BY <1>4
  <2>2. RowsAlong(next, n) \subseteq Versions
    BY DEF RowsAlong
  <2>3. RowsAlong(next, v) \subseteq {v} \cup RowsAlong(next, n)
    <3>1. PICK T \in SUBSET Versions : T = {v} \cup RowsAlong(next, n)
      BY <2>2
    <3>2. v \in T /\ \A t \in T : next[t] # NoVersion => next[t] \in T
      BY <1>1, <2>1, <3>1
    <3>3. QED
      BY <1>2, <3>1, <3>2
  <2>4. RowsAlong(next, n) \subseteq RowsAlong(next, v)
    BY <1>4, <2>1 DEF RowsAlong
  <2>5. QED
    BY <1>1, <1>4, <2>1, <2>3, <2>4
<1>5. QED
  BY <1>3, <1>4

\* The recursion that follows next to its end has a solution.
LEMMA EndExists ==
    ASSUME NEW next \in [Versions -> Versions \cup {NoVersion}], NoVersion \notin Versions
    PROVE  \E f : f = [v \in Versions |-> IF next[v] = NoVersion THEN v ELSE f[next[v]]]
<1> DEFINE End(v) == CHOOSE u : u \in EndsAlong(next, v)
           f == [v \in Versions |-> End(v)]
<1>1. ASSUME NEW v \in Versions, next[v] = NoVersion PROVE f[v] = v
  <2>1. EndsAlong(next, v) = {v}
    BY <1>1, AlongStep DEF EndsAlong
  <2>2. QED
    BY <2>1
<1>2. ASSUME NEW v \in Versions, next[v] # NoVersion PROVE f[v] = f[next[v]]
  <2>1. EndsAlong(next, v) = EndsAlong(next, next[v])
    BY <1>2, AlongStep DEF EndsAlong
  <2>2. next[v] \in Versions
    BY <1>2
  <2>3. End(v) = End(next[v])
    BY <2>1
  <2> HIDE DEF End
  <2>4. f[v] = End(v) /\ f[next[v]] = End(next[v])
    BY <2>2
  <2>5. QED
    BY <2>3, <2>4
<1>3. f = [v \in Versions |-> IF next[v] = NoVersion THEN v ELSE f[next[v]]]
  <2>1. \A v \in Versions : f[v] = IF next[v] = NoVersion THEN v ELSE f[next[v]]
    BY <1>1, <1>2
  <2> HIDE DEF End
  <2>2. QED
    BY <2>1
<1>4. QED
  BY <1>3

\* A set of natural numbers that is not empty has a least one.
LEMMA LeastNumber ==
    ASSUME NEW T \in SUBSET Nat, T # {}
    PROVE  \E n \in T : \A m \in T : ~ (m < n)
<1>1. PICK n \in T : \A m \in T : ~ (<<m, n>> \in OpToRel(<, Nat))
  BY NatLessThanWellFounded, WFMin
<1>2. QED
  BY <1>1 DEF OpToRel

\* What is true of latest versions, and of a row if it is true of the one that
\* replaces it, is true of all rows: chains lead forward in time, so they end.
LEMMA ChainInduction ==
    ASSUME IInv, NEW S, Latest \subseteq S,
           \A v \in exists \ Latest : replacedBy[v] \in S => v \in S
    PROVE  exists \subseteq S
<1> DEFINE ToGo(v) == clock - created[v]
           Left == {ToGo(v) : v \in exists \ S}
<1>1. \A v \in exists : v \in Versions /\ ToGo(v) \in Nat
  BY DEF IInv, TypeOK, CreatedOK
<1>2. SUFFICES ASSUME exists \ S # {} PROVE FALSE
  OBVIOUS
<1>3. Left \subseteq Nat /\ Left # {}
  BY <1>1, <1>2
<1>4. PICK n \in Left : \A m \in Left : ~ (m < n)
  BY <1>3, LeastNumber, Zenon
<1>5. PICK v \in exists \ S : n = ToGo(v)
  BY <1>4
<1>6. /\ v \in exists \ Latest /\ replacedBy[v] \in exists
      /\ created[v] < created[replacedBy[v]]
  BY <1>5 DEF Latest, IInv, ChainShape
<1>7. replacedBy[v] \notin S
  BY <1>5, <1>6
<1>8. ToGo(replacedBy[v]) \in Left
  BY <1>6, <1>7
<1>9. created[v] \in Nat /\ created[replacedBy[v]] \in Nat /\ clock \in Nat
  BY <1>1, <1>6 DEF IInv, TypeOK
<1>10. ToGo(replacedBy[v]) < ToGo(v)
  BY <1>6, <1>9
<1>11. QED
  BY <1>4, <1>5, <1>8, <1>10

EndEquation ==
    \A v \in Versions : ChainEnd[v] = IF replacedBy[v] = NoVersion THEN v
                                      ELSE ChainEnd[replacedBy[v]]

LEMMA EndEquationHolds == TypeOK => EndEquation
<1>1. SUFFICES ASSUME TypeOK PROVE EndEquation
  OBVIOUS
<1>2. replacedBy \in [Versions -> Versions \cup {NoVersion}]
  BY <1>1 DEF TypeOK
<1>3. \E f : f = [u \in Versions |-> IF replacedBy[u] = NoVersion THEN u
                                    ELSE f[replacedBy[u]]]
  BY <1>2, EndExists, NoVersionAssumption
<1>4. ChainEnd = [u \in Versions |-> IF replacedBy[u] = NoVersion THEN u
                                     ELSE ChainEnd[replacedBy[u]]]
  BY <1>3 DEF ChainEnd
<1>5. QED
  BY <1>4 DEF EndEquation

\* The chain of a latest version ends there, that of a replaced one where the
\* chain of its replacement ends.
LEMMA ChainEndStep ==
    ASSUME IInv, NEW v \in exists
    PROVE  /\ v \in Latest => ChainEnd[v] = v
           /\ v \notin Latest => ChainEnd[v] = ChainEnd[replacedBy[v]]
<1>1. v \in Versions /\ EndEquation
  BY EndEquationHolds DEF IInv, TypeOK
<1>2. v \in Latest <=> replacedBy[v] = NoVersion
  BY DEF IInv, ChainShape, Latest
<1>3. QED
  BY <1>1, <1>2 DEF EndEquation

\* The same for the walk of get_latest_version.
LEMMA LastVisibleStep ==
    ASSUME IInv, NEW v \in exists
    PROVE  LastVisible[v] = IF VisibleSuccessor(v) = NoVersion THEN v
                            ELSE LastVisible[VisibleSuccessor(v)]
<1>1. PICK next : next = [u \in Versions |-> VisibleSuccessor(u)]
  OBVIOUS
<1>2. next \in [Versions -> Versions \cup {NoVersion}]
  BY <1>1 DEF VisibleSuccessor, IInv, TypeOK
<1>3. \E f : f = [u \in Versions |-> IF next[u] = NoVersion THEN u ELSE f[next[u]]]
  BY <1>2, EndExists, NoVersionAssumption
<1>4. PICK f : f = [u \in Versions |-> IF next[u] = NoVersion THEN u ELSE f[next[u]]]
  BY <1>3
<1>5. f = [u \in Versions |-> IF VisibleSuccessor(u) = NoVersion THEN u
                              ELSE f[VisibleSuccessor(u)]]
  BY <1>1, <1>4
<1>6. LastVisible = [u \in Versions |-> IF VisibleSuccessor(u) = NoVersion THEN u
                                        ELSE LastVisible[VisibleSuccessor(u)]]
  BY <1>5 DEF LastVisible
<1>7. v \in Versions
  BY DEF IInv, TypeOK
<1>8. QED
  BY <1>6, <1>7

\* Every chain ends at a latest version.
LEMMA ChainEndIsLatest ==
    ASSUME IInv
    PROVE  \A v \in exists : ChainEnd[v] \in Latest
<1> DEFINE S == {v \in exists : ChainEnd[v] \in Latest}
<1>1. Latest \subseteq S
  BY ChainEndStep DEF Latest
<1>2. \A v \in exists \ Latest : replacedBy[v] \in S => v \in S
  BY ChainEndStep
<1>3. exists \subseteq S
  <2> HIDE DEF S
  <2>1. QED
    BY <1>1, <1>2, ChainInduction
<1>4. QED
  BY <1>3

-----------------------------------------------------------------------------
(* The versions of a consultation that is not in the trash resolve *)

\* Only latest versions are in the trash, so the walk along a chain that does not
\* end there loses no row to the filter on deleted ones.
LEMMA WalkReachesEnd ==
    ASSUME IInv, FilesOnLatest
    PROVE  \A v \in exists : ~deleted[ChainEnd[v]] =>
              /\ LastVisible[v] = ChainEnd[v]
              /\ v \notin Latest => VisibleSuccessor(v) = replacedBy[v]
<1> DEFINE S == {v \in exists : ~deleted[ChainEnd[v]] => LastVisible[v] = ChainEnd[v]}
<1>1. ASSUME NEW v \in Latest PROVE v \in S
  <2>1. v \in exists /\ replacedBy[v] = NoVersion /\ NoVersion \notin exists
    BY NoVersionAssumption DEF Latest, IInv, ChainShape, TypeOK
  <2>2. VisibleSuccessor(v) = NoVersion
    BY <2>1 DEF VisibleSuccessor
  <2>3. LastVisible[v] = v /\ ChainEnd[v] = v
    BY <2>1, <2>2, LastVisibleStep, ChainEndStep
  <2>4. QED
    BY <2>1, <2>3
<1>2. ASSUME NEW v \in exists \ Latest, ~deleted[ChainEnd[v]]
      PROVE  /\ replacedBy[v] \in exists
             /\ ChainEnd[v] = ChainEnd[replacedBy[v]]
             /\ VisibleSuccessor(v) = replacedBy[v]
  <2>1. replacedBy[v] \in exists /\ ChainEnd[v] = ChainEnd[replacedBy[v]]
    BY ChainEndStep DEF Latest, IInv, ChainShape
  <2>2. ASSUME deleted[replacedBy[v]] PROVE FALSE
    <3>1. replacedBy[v] \in Latest
      BY <2>1, <2>2 DEF FilesOnLatest, Latest
    <3>2. ChainEnd[replacedBy[v]] = replacedBy[v]
      BY <2>1, <3>1, ChainEndStep
    <3>3. QED
      BY <1>2, <2>1, <2>2, <3>2
  <2>3. QED
    BY <2>1, <2>2 DEF VisibleSuccessor
<1>3. ASSUME NEW v \in exists \ Latest, replacedBy[v] \in S PROVE v \in S
  <2>1. SUFFICES ASSUME ~deleted[ChainEnd[v]] PROVE LastVisible[v] = ChainEnd[v]
    OBVIOUS
  <2>2. replacedBy[v] # NoVersion
    BY <1>2, <2>1, NoVersionAssumption DEF IInv, TypeOK
  <2>3. LastVisible[v] = LastVisible[replacedBy[v]]
    BY <1>2, <2>1, <2>2, LastVisibleStep
  <2>4. QED
    BY <1>2, <1>3, <2>1, <2>3
<1>4. exists \subseteq S
  <2>1. Latest \subseteq S
    BY <1>1
  <2>2. \A v \in exists \ Latest : replacedBy[v] \in S => v \in S
    BY <1>3
  <2> HIDE DEF S
  <2>3. QED
    BY <2>1, <2>2, ChainInduction
<1>5. QED
  BY <1>2, <1>4

LEMMA Resolves == IInv /\ FilesOnLatest => LiveChainResolves
<1>1. SUFFICES ASSUME IInv, FilesOnLatest, NEW v \in exists, ~deleted[ChainEnd[v]]
               PROVE  GetLatestVersion(v) = ChainEnd[v]
  BY DEF LiveChainResolves
<1>2. CASE latest[v]
  BY <1>1, <1>2, ChainEndStep DEF GetLatestVersion, Latest
<1>3. CASE ~latest[v]
  <2>1. LastVisible[v] = ChainEnd[v] /\ VisibleSuccessor(v) = replacedBy[v]
    BY <1>1, <1>3, WalkReachesEnd DEF Latest
  <2>2. replacedBy[v] # NoVersion
    BY <1>1, <1>3 DEF IInv, ChainShape
  <2>3. QED
    BY <1>3, <2>1, <2>2 DEF GetLatestVersion
<1>4. QED
  BY <1>2, <1>3

\* As long as requests do not overlap, every version of a consultation that is not
\* in the trash resolves to its latest one, however long the chain.
THEOREM BookmarksResolve == ASSUME OneWorker PROVE Spec => []LiveChainResolves
<1>1. FInv => LiveChainResolves
  BY Resolves DEF FInv
<1>2. QED
  BY <1>1, FilesInvariant, PTL

-----------------------------------------------------------------------------
(* Chains as sets of rows *)

\* The rows whose chain ends at e.
Members(e) == {u \in exists : ChainEnd[u] = e}

EndsAreLatest == \A v \in exists : ChainEnd[v] \in Latest

HistoryIsChain == \A e \in Latest : WithHistory({e}) = Members(e)

OneFirst ==
    \A e \in Latest : \E d \in Members(e) :
        IsFirst(d) /\ \A q \in Members(e) : IsFirst(q) => q = d

ChainFacts == EndEquation /\ EndsAreLatest /\ HistoryIsChain /\ OneFirst

\* The history of a row is the row, and the history of the one before it.
LEMMA HistoryStep ==
    ASSUME IInv, NEW v \in exists
    PROVE  /\ Predecessors(v) = {} => WithHistory({v}) = {v}
           /\ \A p \in Predecessors(v) : WithHistory({v}) = {v} \cup WithHistory({p})
<1>1. exists \subseteq Versions /\ v \in Versions
  BY DEF IInv, TypeOK
<1>2. v \in WithHistory({v})
  BY <1>1, HistoryContains
<1>3. CASE Predecessors(v) = {}
  <2>1. WithHistory({v}) \subseteq {v}
    BY <1>1, <1>3, HistoryOfClosed
  <2>2. QED
    BY <1>2, <1>3, <2>1
<1>4. ASSUME NEW p \in Predecessors(v)
      PROVE  WithHistory({v}) = {v} \cup WithHistory({p})
  <2>1. p \in exists /\ replacedBy[p] = v /\ v # NoVersion
    BY <1>1, NoVersionAssumption DEF Predecessors
  <2>2. Predecessors(v) = {p}
    BY <1>1, <2>1 DEF Predecessors, IInv, OnePredecessor
  <2>3. WithHistory({p}) \subseteq Versions
    BY <1>1 DEF WithHistory
  <2>4. PICK T \in SUBSET Versions : T = {v} \cup WithHistory({p})
    BY <1>1, <2>3
  <2>5. p \in WithHistory({p})
    BY <1>1, <2>1, HistoryContains
  <2>6. \A t \in T : Predecessors(t) \subseteq T
    BY <1>1, <2>2, <2>4, <2>5, HistoryClosed
  <2>7. WithHistory({v}) \subseteq T
    BY <2>4, <2>6 DEF WithHistory
  <2>8. WithHistory({p}) \subseteq WithHistory({v})
    <3>1. SUFFICES ASSUME NEW u \in WithHistory({p}), NEW S \in SUBSET Versions,
                          {v} \subseteq S, \A t \in S : Predecessors(t) \subseteq S
                   PROVE  u \in S
      BY DEF WithHistory
    <3>2. {p} \subseteq S
      BY <2>2, <3>1
    <3>3. QED
      BY <3>1, <3>2 DEF WithHistory
  <2>9. QED
    BY <1>2, <2>4, <2>7, <2>8
<1>5. QED
  BY <1>3, <1>4

\* What is true of first versions, and of a row if it is true of the one before
\* it, is true of all rows.
LEMMA HistoryInduction ==
    ASSUME IInv, NEW S, \A v \in exists : IsFirst(v) => v \in S,
           \A v \in exists : \A p \in Predecessors(v) : p \in S => v \in S
    PROVE  exists \subseteq S
<1>1. \A v \in exists : v \in Versions /\ created[v] \in Nat
  BY DEF IInv, TypeOK
<1>2. SUFFICES ASSUME exists \ S # {} PROVE FALSE
  OBVIOUS
<1>3. PICK Left \in SUBSET Nat : Left # {} /\ Left = {created[v] : v \in exists \ S}
  BY <1>1, <1>2
<1>4. PICK n \in Left : \A m \in Left : ~ (m < n)
  BY <1>3, LeastNumber, Zenon
<1>5. PICK v \in exists \ S : n = created[v]
  BY <1>3, <1>4
<1>6. PICK p \in Predecessors(v) : TRUE
  BY <1>5 DEF IsFirst
<1>7. p \in exists \ S
  BY <1>5, <1>6 DEF Predecessors
<1>8. replacedBy[p] = v /\ v # NoVersion
  BY <1>1, <1>5, <1>6, NoVersionAssumption DEF Predecessors
<1>9. created[p] < created[v]
  BY <1>7, <1>8 DEF IInv, ChainShape
<1>10. QED
  BY <1>3, <1>4, <1>5, <1>7, <1>9

\* The history of a latest version is its chain.
LEMMA HistoryIsMembers == IInv => HistoryIsChain
<1>1. SUFFICES ASSUME IInv, NEW e \in Latest PROVE WithHistory({e}) = Members(e)
  BY DEF HistoryIsChain
<1>2. exists \subseteq Versions /\ e \in exists
  BY <1>1 DEF IInv, TypeOK, Latest
<1>3. WithHistory({e}) \subseteq Members(e)
  <2>1. e \in Members(e)
    BY <1>1, <1>2, ChainEndStep DEF Members
  <2>2. ASSUME NEW t \in Members(e), NEW p \in Predecessors(t) PROVE p \in Members(e)
    <3>1. p \in exists /\ replacedBy[p] = t /\ t # NoVersion
      BY <1>2, NoVersionAssumption DEF Predecessors, Members
    <3>2. p \notin Latest
      BY <1>1, <3>1 DEF IInv, ChainShape, Latest
    <3>3. QED
      BY <1>1, <3>1, <3>2, ChainEndStep DEF Members
  <2>3. Members(e) \in SUBSET Versions
    BY <1>2 DEF Members
  <2>4. {e} \subseteq Members(e) /\ \A t \in Members(e) : Predecessors(t) \subseteq Members(e)
    BY <2>1, <2>2
  <2>5. QED
    BY <2>3, <2>4 DEF WithHistory
<1>4. Members(e) \subseteq WithHistory({e})
  <2> DEFINE S == {u \in exists : u \in WithHistory({ChainEnd[u]})}
  <2>1. Latest \subseteq S
    BY <1>1, <1>2, ChainEndStep, HistoryContains DEF Latest
  <2>2. ASSUME NEW u \in exists \ Latest, replacedBy[u] \in S PROVE u \in S
    <3>1. u \in Predecessors(replacedBy[u])
      BY DEF Predecessors
    <3>2. ChainEnd[u] = ChainEnd[replacedBy[u]]
      BY <1>1, ChainEndStep
    <3>3. QED
      BY <1>2, <2>2, <3>1, <3>2, HistoryClosed
  <2> HIDE DEF S
  <2>3. exists \subseteq S
    BY <1>1, <2>1, <2>2, ChainInduction
  <2>4. QED
    BY <2>3 DEF S, Members
<1>5. QED
  BY <1>3, <1>4

\* Every chain has one first version.
LEMMA FirstIsOne == IInv => OneFirst
<1>1. SUFFICES ASSUME IInv PROVE OneFirst
  OBVIOUS
<1> DEFINE Unique(v) == \E d \in WithHistory({v}) :
                            /\ IsFirst(d)
                            /\ \A q \in WithHistory({v}) : IsFirst(q) => q = d
           S == {v \in exists : Unique(v)}
<1>2. ASSUME NEW v \in exists, IsFirst(v) PROVE v \in S
  <2>1. WithHistory({v}) = {v}
    BY <1>1, <1>2, HistoryStep DEF IsFirst
  <2>2. QED
    BY <1>2, <2>1
<1>3. ASSUME NEW v \in exists, NEW p \in Predecessors(v), p \in S PROVE v \in S
  <2>1. WithHistory({v}) = {v} \cup WithHistory({p}) /\ ~IsFirst(v)
    BY <1>1, HistoryStep DEF IsFirst
  <2>2. PICK d \in WithHistory({p}) :
            IsFirst(d) /\ \A q \in WithHistory({p}) : IsFirst(q) => q = d
    BY <1>3
  <2>3. d \in WithHistory({v}) /\ \A q \in WithHistory({v}) : IsFirst(q) => q = d
    BY <2>1, <2>2
  <2>4. QED
    BY <2>2, <2>3
<1> HIDE DEF S
<1>4. exists \subseteq S
  BY <1>1, <1>2, <1>3, HistoryInduction
<1>5. ASSUME NEW e \in Latest PROVE Unique(e) /\ WithHistory({e}) = Members(e)
  BY <1>1, <1>4, HistoryIsMembers DEF Latest, S, HistoryIsChain
<1>6. QED
  BY <1>5 DEF OneFirst

LEMMA ChainFactsHold == IInv => ChainFacts
<1>1. IInv => EndsAreLatest
  BY ChainEndIsLatest DEF EndsAreLatest
<1>2. IInv => EndEquation
  BY EndEquationHolds DEF IInv
<1>3. QED
  BY <1>1, <1>2, HistoryIsMembers, FirstIsOne DEF ChainFacts
-----------------------------------------------------------------------------
(* The documents of ConsultationRecords, with one worker *)

\* With one worker, what a purge has collected are chains that end in the trash.
PurgeIsCurrent ==
    \A w \in Workers : req[w].op = "purge" =>
        IF req[w].read
        THEN \A i \in req[w].ids : /\ i \in exists
                                   /\ deleted[ChainEnd[i]]
                                   /\ Members(ChainEnd[i]) \subseteq req[w].ids
        ELSE \A i \in req[w].ids : i \in Latest /\ deleted[i]

RInv == FInv /\ PurgeIsCurrent /\ IsFiniteSet(exists)

\* What the documents are, given FilesOnLatest: the files of a chain are all that
\* are attached to its latest version.
MapFacts ==
    /\ Status = [d \in Versions |-> Status[d]]
    /\ Revisions = [d \in Versions |-> Revisions[d]]
    /\ Attached = [d \in Versions |-> Attached[d]]
    /\ \A d \in Versions : ~IsFirst(d) =>
          Status[d] = "absent" /\ Revisions[d] = 0 /\ Attached[d] = {}
    /\ \A d, e \in Versions : IsFirst(d) /\ ChainEnd[d] = e =>
          /\ Status[d] = IF deleted[e] THEN "trash" ELSE "live"
          /\ Revisions[d] = Cardinality(Members(e))
          /\ Attached[d] = {f \in Files : fileOf[f] = e}

Ctx == RInv /\ ChainFacts /\ MapFacts

LEMMA MapFactsHold == IInv /\ FilesOnLatest => MapFacts
<1>1. SUFFICES ASSUME IInv, FilesOnLatest PROVE MapFacts
  OBVIOUS
<1>2. /\ Status = [d \in Versions |-> Status[d]]
      /\ Revisions = [d \in Versions |-> Revisions[d]]
      /\ Attached = [d \in Versions |-> Attached[d]]
  BY DEF Status, Revisions, Attached
<1>3. ASSUME NEW d \in Versions, ~IsFirst(d)
      PROVE  Status[d] = "absent" /\ Revisions[d] = 0 /\ Attached[d] = {}
  BY <1>3 DEF Status, Revisions, Attached
<1>4. ASSUME NEW d \in Versions, IsFirst(d)
      PROVE  /\ Status[d] = IF deleted[ChainEnd[d]] THEN "trash" ELSE "live"
             /\ Revisions[d] = Cardinality(Members(ChainEnd[d]))
             /\ Attached[d] = {f \in Files : fileOf[f] = ChainEnd[d]}
  <2>1. ChainEnd[d] \in Latest /\ WithHistory({ChainEnd[d]}) = Members(ChainEnd[d])
    BY <1>1, <1>4, ChainEndIsLatest, HistoryIsMembers DEF IsFirst, HistoryIsChain
  <2>2. Status[d] = IF deleted[ChainEnd[d]] THEN "trash" ELSE "live"
    BY <1>4 DEF Status
  <2>3. Revisions[d] = Cardinality(WithHistory({ChainEnd[d]}))
    BY <1>4 DEF Revisions
  <2>4. Attached[d] = {f \in Files : fileOf[f] = ChainEnd[d]
                                     /\ fileDeleted[f] = deleted[ChainEnd[d]]}
    BY <1>4 DEF Attached
  <2>5. ChainEnd[d] # NoVersion
    BY <1>1, <2>1, NoVersionAssumption DEF IInv, TypeOK, Latest
  <2>6. \A f \in Files : fileOf[f] = ChainEnd[d] => fileDeleted[f] = deleted[ChainEnd[d]]
    BY <1>1, <2>5 DEF FilesOnLatest
  <2>7. QED
    BY <2>1, <2>2, <2>3, <2>4, <2>6
<1>5. QED
  BY <1>2, <1>3, <1>4 DEF MapFacts

\* The rows that are collected from ends in the trash are the chains of these.
LEMMA CollectedChains ==
    ASSUME IInv, ChainFacts, NEW ends \in SUBSET Latest
    PROVE  WithHistory(ends) = {u \in exists : ChainEnd[u] \in ends}
<1>1. exists \subseteq Versions /\ ends \subseteq exists
  BY DEF IInv, TypeOK, Latest
<1>2. PICK T \in SUBSET Versions : T = {u \in exists : ChainEnd[u] \in ends}
  BY <1>1
<1>3. ends \subseteq T
  BY <1>1, <1>2, ChainEndStep
<1>4. ASSUME NEW t \in T, NEW p \in Predecessors(t) PROVE p \in T
  <2>1. p \in exists /\ replacedBy[p] = t /\ t # NoVersion
    BY <1>1, <1>2, NoVersionAssumption DEF Predecessors
  <2>2. p \notin Latest
    BY <2>1 DEF IInv, ChainShape, Latest
  <2>3. QED
    BY <1>2, <2>1, <2>2, ChainEndStep
<1>5. WithHistory(ends) \subseteq T
  BY <1>3, <1>4 DEF WithHistory
<1>6. ASSUME NEW u \in T PROVE u \in WithHistory(ends)
  <2>1. PICK e \in ends : u \in WithHistory({e})
    BY <1>2 DEF ChainFacts, HistoryIsChain, Members
  <2>2. QED
    BY <2>1 DEF WithHistory
<1>7. QED
  BY <1>2, <1>5, <1>6

\* A step that writes no columns of the chains leaves their ends alone.
LEMMA EndsKept ==
    ASSUME IInv, EndEquation, EndEquation', replacedBy' = replacedBy
    PROVE  \A u \in exists : ChainEnd'[u] = ChainEnd[u]
<1> DEFINE S == {u \in exists : ChainEnd'[u] = ChainEnd[u]}
<1>1. \A u \in exists : u \in Versions /\ (u \in Latest <=> replacedBy[u] = NoVersion)
  BY DEF IInv, TypeOK, ChainShape, Latest
<1>2. \A u \in exists : IF u \in Latest THEN ChainEnd'[u] = u /\ ChainEnd[u] = u
                        ELSE /\ ChainEnd'[u] = ChainEnd'[replacedBy[u]]
                             /\ ChainEnd[u] = ChainEnd[replacedBy[u]]
  BY <1>1 DEF EndEquation
<1>3. Latest \subseteq S
  BY <1>2 DEF Latest
<1>4. \A u \in exists \ Latest : replacedBy[u] \in S => u \in S
  BY <1>2
<1> HIDE DEF S
<1>5. exists \subseteq S
  BY <1>3, <1>4, ChainInduction
<1>6. QED
  BY <1>5 DEF S
LEMMA PurgeStays ==
    ASSUME Ctx, OneWorker, [Next]_vars, ChainFacts'
    PROVE  PurgeIsCurrent'
<1> USE DEF Ctx, RInv, FInv, IInv, TypeOK
<1>1. ASSUME NEW w \in Workers, req'[w].op # "purge" PROVE PurgeIsCurrent'
  BY <1>1 DEF OneWorker, PurgeIsCurrent
<1>2. ASSUME NEW w \in Workers,
             \/ Add(w) \/ SaveEdit(w) \/ ShowForm(w) \/ Abort(w) \/ Purge(w)
             \/ \E op \in {"delete", "restore"} : SaveToggle(w, op)
      PROVE  PurgeIsCurrent'
  <2>1. req'[w] = Idle
    BY <1>2 DEF Add, SaveEdit, ShowForm, Abort, Purge, SaveToggle, Finish
  <2>2. Idle.op = "idle"
    BY DEF Idle
  <2>3. QED
    BY <1>1, <2>1, <2>2
<1>3. ASSUME NEW w \in Workers, NEW op \in {"edit", "delete", "restore"},
             NEW v \in Versions, LoadContext(w, op, v)
      PROVE  PurgeIsCurrent'
  <2>1. PICK r : r = [Idle EXCEPT !.op = op, !.target = v, !.ids = ToToggle(op, v)]
    OBVIOUS
  <2>2. r.op = op
    BY <2>1 DEF Idle
  <2>3. req'[w] = r
    BY <1>3, <2>1 DEF LoadContext
  <2>4. QED
    BY <1>1, <2>2, <2>3
<1>4. ASSUME NEW w \in Workers, ReadFiles(w) PROVE PurgeIsCurrent'
  <2>1. PICK r \in Request : r = req[w]
    OBVIOUS
  <2>2. PICK s : s = [r EXCEPT !.read = TRUE, !.copied = FilesToWrite(r.op, r.target)]
    OBVIOUS
  <2>3. s.op = r.op
    BY <2>2 DEF Request
  <2>4. req'[w] = s /\ r.op # "purge"
    BY <1>4, <2>1, <2>2 DEF ReadFiles
  <2>5. QED
    BY <1>1, <2>3, <2>4
<1>5. ASSUME NEW w \in Workers, ScanTrash(w) PROVE PurgeIsCurrent'
  <2>1. PICK date : req' = [req EXCEPT ![w] = [Idle EXCEPT !.op = "purge", !.ids = Expired(date)]]
    BY <1>5 DEF ScanTrash
  <2>2. PICK r : r = [Idle EXCEPT !.op = "purge", !.ids = Expired(date)]
    OBVIOUS
  <2>3. r.op = "purge" /\ ~r.read /\ r.ids = Expired(date)
    BY <2>2 DEF Idle
  <2>4. req'[w] = r /\ UNCHANGED rows
    BY <1>5, <2>1, <2>2 DEF ScanTrash
  <2>5. \A i \in Expired(date) : i \in Latest' /\ deleted'[i]
    BY <2>4 DEF Expired, Latest, rows
  <2>6. QED
    BY <2>3, <2>4, <2>5 DEF OneWorker, PurgeIsCurrent
<1>6. ASSUME NEW w \in Workers, FollowChains(w) PROVE PurgeIsCurrent'
  <2>1. PICK r \in Request : r = req[w]
    OBVIOUS
  <2>2. PICK ids : ids = r.ids \cup ChainsOf(r.ids)
    OBVIOUS
  <2>3. PICK s : s = [r EXCEPT !.read = TRUE, !.ids = ids]
    OBVIOUS
  <2>4. s.op = "purge" /\ s.read /\ s.ids = ids
    BY <1>6, <2>1, <2>3 DEF FollowChains, Request
  <2>5. req'[w] = s /\ UNCHANGED rows
    BY <1>6, <2>1, <2>2, <2>3 DEF FollowChains
  <2>6. r.ids \subseteq Latest /\ \A e \in r.ids : deleted[e]
    BY <1>6, <2>1 DEF FollowChains, PurgeIsCurrent
  <2>7. ids = {u \in exists : ChainEnd[u] \in r.ids}
    <3>1. WithHistory(r.ids) = {u \in exists : ChainEnd[u] \in r.ids}
      BY <2>6, CollectedChains
    <3>2. r.ids \subseteq WithHistory(r.ids)
      BY <2>6, HistoryContains DEF Latest
    <3>3. QED
      BY <2>2, <3>1, <3>2 DEF ChainsOf
  <2>8. exists' = exists /\ deleted' = deleted /\ \A u \in exists : ChainEnd'[u] = ChainEnd[u]
    BY <2>5, EndsKept DEF rows, ChainFacts
  <2>9. \A i \in ids : /\ i \in exists' /\ deleted'[ChainEnd'[i]]
                       /\ \A u \in exists' : ChainEnd'[u] = ChainEnd'[i] => u \in ids
    BY <2>6, <2>7, <2>8
  <2>10. QED
    BY <2>4, <2>5, <2>9 DEF OneWorker, PurgeIsCurrent, Members
<1>7. ASSUME UNCHANGED vars PROVE PurgeIsCurrent'
  <2>1. UNCHANGED <<exists, latest, deleted, req>> /\ \A u \in exists : ChainEnd'[u] = ChainEnd[u]
    BY <1>7, EndsKept DEF vars, rows, ChainFacts
  <2>2. Latest' = Latest
    BY <2>1 DEF Latest
  <2>3. ASSUME NEW w \in Workers, req[w].op = "purge", req[w].read, NEW i \in req[w].ids
        PROVE  /\ i \in exists' /\ deleted'[ChainEnd'[i]]
               /\ \A u \in exists' : ChainEnd'[u] = ChainEnd'[i] => u \in req[w].ids
    <3>1. i \in exists /\ deleted[ChainEnd[i]] /\ Members(ChainEnd[i]) \subseteq req[w].ids
      BY <2>3 DEF PurgeIsCurrent
    <3>2. QED
      BY <2>1, <3>1 DEF Members
  <2>4. QED
    BY <2>1, <2>2, <2>3 DEF PurgeIsCurrent, Members
<1>8. QED
  BY <1>2, <1>3, <1>4, <1>5, <1>6, <1>7 DEF Next, Step

\* Rows are inserted one at a time.
LEMMA FiniteStep ==
    ASSUME IsFiniteSet(exists), [Next]_vars
    PROVE  IsFiniteSet(exists')
<1>1. ASSUME NEW v, exists' = exists \cup {v} PROVE IsFiniteSet(exists')
  BY <1>1, FS_AddElement
<1>2. ASSUME exists' \subseteq exists PROVE IsFiniteSet(exists')
  BY <1>2, FS_Subset
<1>3. QED
  BY ZenonT(30), <1>1, <1>2 DEF Next, Step, vars, rows, Add, SaveEdit, Insert, Purge,
     LoadContext, ReadFiles, SaveToggle, ShowForm, Abort, ScanTrash, FollowChains

LEMMA CtxInvariant == ASSUME OneWorker PROVE Spec => []Ctx
<1>1. IInv => ChainFacts
  BY ChainFactsHold
<1>2. FInv => MapFacts
  BY MapFactsHold DEF FInv
<1>3. FInv => IInv
  BY DEF FInv
<1>4. Init => PurgeIsCurrent /\ IsFiniteSet(exists)
  BY FS_EmptySet DEF Init, PurgeIsCurrent, Idle
<1>5. /\ FInv /\ ChainFacts /\ MapFacts /\ PurgeIsCurrent /\ IsFiniteSet(exists)
      /\ [Next]_vars /\ ChainFacts'
      => PurgeIsCurrent' /\ IsFiniteSet(exists)'
  BY PurgeStays, FiniteStep DEF Ctx, RInv
<1>6. QED
  BY <1>1, <1>2, <1>3, <1>4, <1>5, FilesInvariant, PTL DEF Spec, Ctx, RInv
-----------------------------------------------------------------------------
(* Each step of a request is a step of the documents, or none *)

LEMMA NothingWritten ==
    ASSUME Ctx, Ctx', UNCHANGED <<rows, fileRows>>
    PROVE  UNCHANGED Records!vars
<1>1. /\ UNCHANGED <<exists, replacedBy, deleted, fileOf>>
      /\ \A u \in exists : ChainEnd'[u] = ChainEnd[u]
  BY EndsKept DEF rows, fileRows, Ctx, RInv, FInv, ChainFacts
<1>2. \A d \in Versions : IsFirst(d)' = IsFirst(d)
  BY <1>1 DEF IsFirst, Predecessors
<1>3. \A e \in exists : Members(e)' = Members(e)
  BY <1>1 DEF Members
<1>4. ASSUME NEW d \in Versions, IsFirst(d)
      PROVE  /\ Status'[d] = Status[d] /\ Revisions'[d] = Revisions[d]
             /\ Attached'[d] = Attached[d]
  <2>1. PICK e \in Versions : e = ChainEnd[d] /\ e \in exists
    BY <1>4 DEF IsFirst, Ctx, RInv, FInv, IInv, TypeOK, ChainFacts, EndsAreLatest, Latest
  <2>2. ChainEnd'[d] = e /\ IsFirst(d)' /\ Members(e)' = Members(e)
    BY <1>1, <1>2, <1>3, <1>4, <2>1 DEF IsFirst
  <2>3. QED
    BY <1>1, <1>4, <2>1, <2>2 DEF Ctx, MapFacts
<1>5. ASSUME NEW d \in Versions, ~IsFirst(d)
      PROVE  /\ Status'[d] = Status[d] /\ Revisions'[d] = Revisions[d]
             /\ Attached'[d] = Attached[d]
  BY <1>2, <1>5 DEF Ctx, MapFacts
<1>6. QED
  BY <1>4, <1>5 DEF Ctx, MapFacts, Records!vars
\* Where chains end, and what a file of theirs is.
LEMMA EndsOfFirsts ==
    ASSUME Ctx
    PROVE  /\ \A u \in exists : ChainEnd[u] \in Latest
           /\ Latest \subseteq exists /\ exists \subseteq Versions
           /\ \A d \in Versions : \A f \in Attached[d] : fileOf[f] # NoVersion
<1> USE DEF Ctx, RInv, FInv, IInv, TypeOK
<1>1. \A u \in exists : ChainEnd[u] \in Latest
  BY DEF ChainFacts, EndsAreLatest
<1>2. Latest \subseteq exists /\ exists \subseteq Versions
  BY DEF Latest
<1>3. ASSUME NEW d \in Versions, NEW f \in Attached[d] PROVE fileOf[f] # NoVersion
  <2>1. IsFirst(d)
    BY <1>3 DEF MapFacts
  <2>2. PICK e \in Versions : e = ChainEnd[d]
    BY <1>1, <1>2, <2>1 DEF IsFirst
  <2>3. fileOf[f] = e
    BY <1>3, <2>1, <2>2 DEF MapFacts
  <2>4. QED
    BY <2>2, <2>3, NoVersionAssumption
<1>4. QED
  BY <1>1, <1>2, <1>3

\* A new consultation is a new document.
LEMMA AddRefines ==
    ASSUME Ctx, Ctx', NEW w \in Workers, Add(w)
    PROVE  Records!Next
<1> USE DEF Ctx, RInv, FInv, IInv, TypeOK
<1>1. PICK v \in FreshVersions, new \in SUBSET FreshFiles :
        /\ exists' = exists \cup {v}
        /\ fileOf' = FilesAfterEdit(v, new, {})
        /\ UNCHANGED <<deleted, replacedBy>>
  BY DEF Add, Insert
<1>2. /\ v \in Versions /\ v \notin exists /\ ~deleted[v] /\ replacedBy[v] = NoVersion
      /\ new \subseteq Files /\ \A f \in new : fileOf[f] = NoVersion
      /\ v # NoVersion
  BY NoVersionAssumption DEF FreshVersions, FreshFiles, CreatedOK, UnusedOK
<1>3. \A f \in Files : fileOf'[f] = IF f \in new THEN v ELSE fileOf[f]
  BY <1>1 DEF FilesAfterEdit
<1>4. \A f \in Files : fileOf[f] # v
  BY <1>2 DEF FilesOnLatest, Latest
<1>5. /\ \A u \in exists : ChainEnd'[u] = ChainEnd[u] /\ ChainEnd[u] \in exists
      /\ exists \subseteq Versions
  BY <1>1, EndsKept, EndsOfFirsts DEF ChainFacts
<1>6. ChainEnd'[v] = v
  BY <1>1, <1>2 DEF ChainFacts, EndEquation
<1>7. \A u \in exists' : replacedBy'[u] # v
  BY <1>1, <1>2 DEF ChainShape
<1>8. \A d \in Versions : Predecessors(d)' = Predecessors(d)
  BY <1>1, <1>2, NoVersionAssumption DEF Predecessors
<1>9. IsFirst(v)' /\ \A d \in Versions \ {v} : IsFirst(d)' = IsFirst(d)
  BY <1>1, <1>2, <1>7, <1>8 DEF IsFirst, Predecessors
<1>10. Members(v)' = {v} /\ \A e \in exists : Members(e)' = Members(e)
  BY <1>1, <1>2, <1>5, <1>6 DEF Members
<1>11. /\ ~IsFirst(v) /\ Status[v] = "absent"
       /\ Status'[v] = "live" /\ Revisions'[v] = 1 /\ Attached'[v] = new
  <2>1. ~IsFirst(v)
    BY <1>2 DEF IsFirst
  <2>2. Cardinality({v}) = 1
    BY FS_Singleton
  <2>3. {f \in Files : fileOf'[f] = v} = new
    BY <1>2, <1>3, <1>4
  <2>4. /\ Status'[v] = IF deleted'[v] THEN "trash" ELSE "live"
        /\ Revisions'[v] = Cardinality(Members(v)')
        /\ Attached'[v] = {f \in Files : fileOf'[f] = v}
    BY <1>2, <1>6, <1>9 DEF MapFacts
  <2>5. QED
    BY <1>1, <1>2, <1>10, <2>1, <2>2, <2>3, <2>4 DEF MapFacts
<1>12. ASSUME NEW d \in Versions \ {v}
       PROVE  /\ Status'[d] = Status[d] /\ Revisions'[d] = Revisions[d]
              /\ Attached'[d] = Attached[d]
  <2>1. CASE ~IsFirst(d)
    BY <1>9, <2>1 DEF MapFacts
  <2>2. CASE IsFirst(d)
    <3>1. PICK e \in Versions : e = ChainEnd[d] /\ e \in exists
      BY <1>5, <2>2 DEF IsFirst
    <3>2. ChainEnd'[d] = e /\ IsFirst(d)' /\ Members(e)' = Members(e) /\ e # v
      BY <1>2, <1>5, <1>9, <1>10, <2>2, <3>1 DEF IsFirst
    <3>3. {f \in Files : fileOf'[f] = e} = {f \in Files : fileOf[f] = e}
      BY <1>2, <1>3, <3>1, <3>2, NoVersionAssumption
    <3>4. /\ Status'[d] = IF deleted'[e] THEN "trash" ELSE "live"
          /\ Revisions'[d] = Cardinality(Members(e)')
          /\ Attached'[d] = {f \in Files : fileOf'[f] = e}
      BY <3>1, <3>2 DEF MapFacts
    <3>5. /\ Status[d] = IF deleted[e] THEN "trash" ELSE "live"
          /\ Revisions[d] = Cardinality(Members(e))
          /\ Attached[d] = {f \in Files : fileOf[f] = e}
      BY <2>2, <3>1 DEF MapFacts
    <3>6. QED
      BY <1>1, <3>2, <3>3, <3>4, <3>5
  <2>3. QED
    BY <2>1, <2>2
<1>13. new \in SUBSET (Files \ Records!InUse)
  BY <1>2, EndsOfFirsts DEF Records!InUse
<1>14. Records!Create(v)
  BY <1>2, <1>11, <1>12, <1>13 DEF MapFacts, Records!Create
<1>15. QED
  BY <1>2, <1>14 DEF Records!Next
\* What an edit does to the ends of the chains.
LEMMA EditEnds ==
    ASSUME Ctx, Ctx', NEW prev \in Latest, NEW next \in Versions \ exists,
           exists' = exists \cup {next}, replacedBy[next] = NoVersion,
           replacedBy' = [replacedBy EXCEPT ![prev] = next]
    PROVE  /\ ChainEnd'[next] = next
           /\ \A u \in exists :
                 ChainEnd'[u] = IF ChainEnd[u] = prev THEN next ELSE ChainEnd[u]
           /\ ~IsFirst(next)' /\ \A d \in Versions \ {next} : IsFirst(d)' = IsFirst(d)
<1> USE DEF Ctx, RInv, FInv, IInv, TypeOK
<1>1. /\ prev \in exists /\ prev \in Versions /\ prev # next /\ replacedBy[prev] = NoVersion
      /\ \A u \in Versions : replacedBy'[u] = IF u = prev THEN next ELSE replacedBy[u]
      /\ next # NoVersion /\ exists \subseteq Versions
  BY NoVersionAssumption DEF Latest, ChainShape
<1>2. ChainEnd'[next] = next
  BY <1>1 DEF ChainFacts, EndEquation
<1>3. ASSUME NEW u \in exists
      PROVE  /\ u \in Latest /\ u # prev => ChainEnd'[u] = u /\ ChainEnd[u] = u
             /\ u = prev => ChainEnd'[u] = next /\ ChainEnd[u] = u
             /\ u \notin Latest => /\ ChainEnd'[u] = ChainEnd'[replacedBy[u]]
                                   /\ ChainEnd[u] = ChainEnd[replacedBy[u]]
  <2>1. u \in Latest <=> replacedBy[u] = NoVersion
    BY DEF ChainShape, Latest
  <2>2. ChainEnd'[u] = IF replacedBy'[u] = NoVersion THEN u ELSE ChainEnd'[replacedBy'[u]]
    BY <1>1 DEF ChainFacts, EndEquation
  <2>3. ChainEnd[u] = IF replacedBy[u] = NoVersion THEN u ELSE ChainEnd[replacedBy[u]]
    BY <1>1 DEF ChainFacts, EndEquation
  <2>4. QED
    BY <1>1, <1>2, <2>1, <2>2, <2>3
<1> DEFINE S == {u \in exists :
                    ChainEnd'[u] = IF ChainEnd[u] = prev THEN next ELSE ChainEnd[u]}
<1>4. Latest \subseteq S
  BY <1>3 DEF Latest
<1>5. \A u \in exists \ Latest : replacedBy[u] \in S => u \in S
  BY <1>3
<1>6. exists \subseteq S
  <2> HIDE DEF S
  <2>1. QED
    BY <1>4, <1>5, ChainInduction
<1>7. ~IsFirst(next)'
  BY <1>1 DEF IsFirst, Predecessors
<1>8. ASSUME NEW d \in Versions \ {next} PROVE IsFirst(d)' = IsFirst(d)
  <2>1. Predecessors(d)' = Predecessors(d)
    BY <1>1, <1>8, NoVersionAssumption DEF Predecessors
  <2>2. QED
    BY <1>8, <2>1 DEF IsFirst
<1>9. QED
  BY <1>2, <1>6, <1>7, <1>8

\* An edit is a revision of the document whose latest version it replaces.
LEMMA EditRefines ==
    ASSUME Ctx, Ctx', NEW w \in Workers, SaveEdit(w)
    PROVE  Records!Next
<1> USE DEF Ctx, RInv, FInv, IInv, TypeOK
<1>1. PICK prev \in Latest : /\ prev = req[w].target /\ ~deleted[prev]
                             /\ req[w].copied = {f \in Files : fileOf[f] = prev}
  <2>1. PICK prev : prev = req[w].target
    OBVIOUS
  <2>2. /\ prev \in Latest /\ ~deleted[prev]
        /\ req[w].copied = FilesToWrite("edit", prev)
    BY <2>1 DEF SaveEdit, ReadIsCurrent, IsContext, Latest
  <2>3. req[w].copied = {f \in Files : fileOf[f] = prev}
    BY <2>2, ReadsAllFiles DEF Latest
  <2>4. QED
    BY <2>1, <2>2, <2>3
<1>2. PICK next \in FreshVersions, kept \in SUBSET req[w].copied, new \in SUBSET FreshFiles :
        /\ exists' = exists \cup {next}
        /\ replacedBy' = [replacedBy EXCEPT ![prev] = next]
        /\ fileOf' = FilesAfterEdit(next, kept \cup new, req[w].copied \ kept)
        /\ deleted' = deleted
  BY <1>1 DEF SaveEdit, Insert, ReplacedAfterEdit
<1>3. /\ next \in Versions \ exists /\ ~deleted[next] /\ replacedBy[next] = NoVersion
      /\ next # NoVersion /\ prev \in exists /\ prev \in Versions /\ prev # next
      /\ prev # NoVersion
      /\ \A f \in new : f \in Files /\ fileOf[f] = NoVersion
      /\ \A f \in kept : f \in Files /\ fileOf[f] = prev
  BY <1>1, NoVersionAssumption
     DEF FreshVersions, FreshFiles, CreatedOK, UnusedOK, Latest
<1>4. /\ \A f \in Files : fileOf'[f] = IF f \in kept \cup new THEN next
                                       ELSE IF fileOf[f] = prev THEN NoVersion ELSE fileOf[f]
      /\ \A f \in Files : fileOf[f] # next
  BY <1>1, <1>2, <1>3 DEF FilesAfterEdit, FilesOnLatest, Latest
<1>5. /\ ChainEnd'[next] = next
      /\ \A u \in exists :
            ChainEnd'[u] = IF ChainEnd[u] = prev THEN next ELSE ChainEnd[u]
      /\ ~IsFirst(next)' /\ \A d \in Versions \ {next} : IsFirst(d)' = IsFirst(d)
  BY <1>2, <1>3, EditEnds
<1>6. \A u \in exists : ChainEnd[u] \in exists /\ ChainEnd[u] # next /\ u \in Versions
  BY <1>3, EndsOfFirsts
<1>7. /\ Members(next)' = Members(prev) \cup {next}
      /\ \A e \in exists \ {prev} : Members(e)' = Members(e)
  BY <1>2, <1>3, <1>5, <1>6 DEF Members
<1>8. PICK d \in Members(prev) : IsFirst(d) /\ \A q \in Members(prev) : IsFirst(q) => q = d
  BY DEF ChainFacts, OneFirst
<1>9. /\ d \in exists /\ d \in Versions /\ d # next /\ ChainEnd[d] = prev
      /\ ChainEnd'[d] = next /\ IsFirst(d)'
  BY <1>3, <1>5, <1>6, <1>8 DEF Members
<1>10. /\ Status[d] = "live" /\ Status'[d] = "live"
       /\ Revisions'[d] = Revisions[d] + 1
       /\ Attached'[d] = kept \cup new /\ kept \subseteq Attached[d]
  <2>1. /\ Status[d] = IF deleted[prev] THEN "trash" ELSE "live"
        /\ Revisions[d] = Cardinality(Members(prev))
        /\ Attached[d] = {f \in Files : fileOf[f] = prev}
    BY <1>3, <1>8, <1>9 DEF MapFacts
  <2>2. /\ Status'[d] = IF deleted'[next] THEN "trash" ELSE "live"
        /\ Revisions'[d] = Cardinality(Members(next)')
        /\ Attached'[d] = {f \in Files : fileOf'[f] = next}
    BY <1>3, <1>9 DEF MapFacts
  <2>3. {f \in Files : fileOf'[f] = next} = kept \cup new
    BY <1>3, <1>4
  <2>4. Members(prev) \subseteq exists /\ next \notin Members(prev)
    BY <1>3 DEF Members
  <2>5. IsFiniteSet(Members(prev))
    BY <2>4, FS_Subset
  <2>6. Cardinality(Members(prev) \cup {next}) = Cardinality(Members(prev)) + 1
    BY <2>4, <2>5, FS_AddElement
  <2>7. QED
    BY <1>1, <1>2, <1>3, <1>7, <2>1, <2>2, <2>3, <2>6
<1>11. ASSUME NEW q \in Versions \ {d}
       PROVE  /\ Status'[q] = Status[q] /\ Revisions'[q] = Revisions[q]
              /\ Attached'[q] = Attached[q]
  <2>1. CASE ~IsFirst(q)
    <3>1. ~IsFirst(q)'
      BY <1>5, <2>1
    <3>2. QED
      BY <2>1, <3>1 DEF MapFacts
  <2>2. CASE IsFirst(q)
    <3>1. q \in exists /\ q # next
      BY <1>3, <2>2 DEF IsFirst
    <3>2. PICK e \in Versions : e = ChainEnd[q] /\ e \in exists
      BY <1>6, <3>1
    <3>3. e # prev
      BY <1>8, <1>11, <2>2, <3>1, <3>2 DEF Members
    <3>4. ChainEnd'[q] = e /\ IsFirst(q)' /\ Members(e)' = Members(e) /\ e # next
      BY <1>3, <1>5, <1>7, <2>2, <3>1, <3>2, <3>3
    <3>5. {f \in Files : fileOf'[f] = e} = {f \in Files : fileOf[f] = e}
      <4>1. ASSUME NEW f \in Files PROVE fileOf'[f] = e <=> fileOf[f] = e
        BY <1>3, <1>4, <3>2, <3>3, <3>4, NoVersionAssumption
      <4>2. QED
        BY <4>1
    <3>6. /\ Status'[q] = IF deleted'[e] THEN "trash" ELSE "live"
          /\ Revisions'[q] = Cardinality(Members(e)')
          /\ Attached'[q] = {f \in Files : fileOf'[f] = e}
      BY <3>2, <3>4 DEF MapFacts
    <3>7. /\ Status[q] = IF deleted[e] THEN "trash" ELSE "live"
          /\ Revisions[q] = Cardinality(Members(e))
          /\ Attached[q] = {f \in Files : fileOf[f] = e}
      BY <2>2, <3>2 DEF MapFacts
    <3>8. QED
      BY <1>2, <3>4, <3>5, <3>6, <3>7
  <2>3. QED
    BY <2>1, <2>2
<1>12. kept \cup new \in SUBSET (Attached[d] \cup (Files \ Records!InUse))
  BY <1>3, <1>10, EndsOfFirsts DEF Records!InUse
<1>13. UNCHANGED Status
  BY <1>10, <1>11 DEF MapFacts
<1>14. Records!Revise(d)
  BY <1>9, <1>10, <1>11, <1>12, <1>13 DEF MapFacts, Records!Revise
<1>15. QED
  BY <1>9, <1>14 DEF Records!Next
\* Soft delete and restore move one document into the trash and out of it;
\* restoring what is not in the trash does nothing.
LEMMA ToggleRefines ==
    ASSUME Ctx, Ctx', NEW w \in Workers, NEW op \in {"delete", "restore"}, SaveToggle(w, op)
    PROVE  Records!Next \/ UNCHANGED Records!vars
<1> USE DEF Ctx, RInv, FInv, IInv, TypeOK
<1>1. PICK v \in Latest : /\ v = req[w].target /\ (op = "delete" => ~deleted[v])
                          /\ req[w].ids = ToToggle(op, v)
  BY DEF SaveToggle, ReadIsCurrent, IsContext, Latest
<1>2. UNCHANGED <<exists, latest, replacedBy, fileOf>>
  BY DEF SaveToggle
<1>3. v \in Versions /\ v \in exists /\ deleted[v] \in BOOLEAN
  BY DEF Latest
<1>4. \A u \in Versions : deleted'[u] = IF u = v THEN op = "delete" ELSE deleted[u]
  <2>1. \A u \in Versions : deleted'[u] = IF u \in ToToggle(op, v) THEN op = "delete"
                                          ELSE deleted[u]
    BY <1>1 DEF SaveToggle, DeletedAfter
  <2>2. CASE op = "restore" /\ ~deleted[v]
    BY <1>3, <2>1, <2>2 DEF ToToggle
  <2>3. CASE op = "delete" \/ deleted[v]
    <3>1. ToToggle(op, v) = {v}
      BY <2>3 DEF ToToggle
    <3>2. QED
      BY <2>1, <3>1
  <2>4. QED
    BY <2>2, <2>3
<1>5. \A u \in exists : ChainEnd'[u] = ChainEnd[u] /\ ChainEnd[u] \in exists /\ u \in Versions
  BY <1>2, EndsKept, EndsOfFirsts DEF ChainFacts
<1>6. \A d \in Versions : IsFirst(d)' = IsFirst(d)
  BY <1>2 DEF IsFirst, Predecessors
<1>7. \A e \in exists : Members(e)' = Members(e)
  BY <1>2, <1>5 DEF Members
<1>8. PICK d \in Members(v) : IsFirst(d) /\ \A q \in Members(v) : IsFirst(q) => q = d
  BY DEF ChainFacts, OneFirst
<1>9. d \in exists /\ d \in Versions /\ ChainEnd[d] = v
  BY <1>5, <1>8 DEF Members
<1>10. ASSUME NEW q \in Versions
       PROVE  /\ q # d => Status'[q] = Status[q]
              /\ Revisions'[q] = Revisions[q]
              /\ Attached'[q] = Attached[q]
  <2>1. CASE ~IsFirst(q)
    BY <1>6, <2>1 DEF MapFacts
  <2>2. CASE IsFirst(q)
    <3>1. PICK e \in Versions : e = ChainEnd[q] /\ e \in exists
      BY <1>5, <2>2 DEF IsFirst
    <3>2. q # d => e # v
      BY <1>8, <2>2, <3>1 DEF IsFirst, Members
    <3>3. ChainEnd'[q] = e /\ IsFirst(q)' /\ Members(e)' = Members(e)
      BY <1>5, <1>6, <1>7, <2>2, <3>1 DEF IsFirst
    <3>4. /\ Status'[q] = IF deleted'[e] THEN "trash" ELSE "live"
          /\ Revisions'[q] = Cardinality(Members(e)')
          /\ Attached'[q] = {f \in Files : fileOf'[f] = e}
      BY <3>1, <3>3 DEF MapFacts
    <3>5. /\ Status[q] = IF deleted[e] THEN "trash" ELSE "live"
          /\ Revisions[q] = Cardinality(Members(e))
          /\ Attached[q] = {f \in Files : fileOf[f] = e}
      BY <2>2, <3>1 DEF MapFacts
    <3>6. e # v => deleted'[e] = deleted[e]
      BY <1>4
    <3>7. QED
      BY <1>2, <3>2, <3>3, <3>4, <3>5, <3>6
  <2>3. QED
    BY <2>1, <2>2
<1>11. Revisions' = Revisions /\ Attached' = Attached
  BY <1>10 DEF MapFacts
<1>12. /\ Status[d] = IF deleted[v] THEN "trash" ELSE "live"
       /\ Status'[d] = IF op = "delete" THEN "trash" ELSE "live"
  <2>1. Status[d] = IF deleted[v] THEN "trash" ELSE "live"
    BY <1>3, <1>8, <1>9 DEF MapFacts
  <2>2. Status'[d] = IF deleted'[v] THEN "trash" ELSE "live"
    BY <1>3, <1>5, <1>6, <1>8, <1>9 DEF MapFacts
  <2>3. deleted'[v] = (op = "delete")
    BY <1>3, <1>4
  <2>4. QED
    BY <2>1, <2>2, <2>3
<1>13. CASE op = "delete"
  <2>1. Status' = [Status EXCEPT ![d] = "trash"] /\ Status[d] = "live"
    BY <1>1, <1>10, <1>12, <1>13 DEF MapFacts
  <2>2. Records!Trash(d)
    BY <1>11, <2>1 DEF Records!Trash
  <2>3. QED
    BY <1>9, <2>2 DEF Records!Next
<1>14. CASE op = "restore" /\ deleted[v]
  <2>1. Status' = [Status EXCEPT ![d] = "live"] /\ Status[d] = "trash"
    BY <1>10, <1>12, <1>14 DEF MapFacts
  <2>2. Records!Restore(d)
    BY <1>11, <2>1 DEF Records!Restore
  <2>3. QED
    BY <1>9, <2>2 DEF Records!Next
<1>15. CASE op = "restore" /\ ~deleted[v]
  <2>1. \A q \in Versions : Status'[q] = Status[q]
    BY <1>10, <1>12, <1>15
  <2>2. Status' = Status
    BY <2>1 DEF MapFacts
  <2>3. QED
    BY <1>11, <2>2 DEF Records!vars
<1>16. QED
  BY <1>13, <1>14, <1>15

\* hard_delete takes whole documents, out of the trash.
LEMMA PurgeRefines ==
    ASSUME Ctx, Ctx', NEW w \in Workers, Purge(w)
    PROVE  Records!Next
<1> USE DEF Ctx, RInv, FInv, IInv, TypeOK
<1>1. PICK gone \in SUBSET exists :
        /\ gone = req[w].ids
        /\ \A i \in gone : deleted[ChainEnd[i]] /\ Members(ChainEnd[i]) \subseteq gone
  BY DEF Purge, PurgeIsCurrent
<1>2. CascadeOf(req[w].ids) = gone
  <2>1. \A i \in gone : Predecessors(i) \subseteq gone
    BY <1>1 DEF Purge, RequestsOK, RequestOK
  <2>2. WithHistory(gone) \subseteq gone
    BY <2>1, HistoryOfClosed
  <2>3. gone \subseteq WithHistory(gone)
    BY HistoryContains
  <2>4. QED
    BY <1>1, <2>2, <2>3 DEF CascadeOf
<1>3. /\ exists' = exists \ gone
      /\ \A f \in Files : fileOf'[f] = IF fileOf[f] \in gone THEN NoVersion ELSE fileOf[f]
      /\ UNCHANGED <<replacedBy, deleted>>
  BY <1>2 DEF Purge
<1>4. \A u \in exists : /\ ChainEnd'[u] = ChainEnd[u] /\ ChainEnd[u] \in Latest
                        /\ ChainEnd[u] \in exists /\ u \in Versions
  BY <1>3, EndsKept, EndsOfFirsts DEF ChainFacts
<1>5. \A u \in exists : u \in gone <=> ChainEnd[u] \in gone
  <2>1. ASSUME NEW u \in exists, u \in gone PROVE ChainEnd[u] \in gone
    <3>1. ChainEnd[ChainEnd[u]] = ChainEnd[u]
      BY <1>4, ChainEndStep
    <3>2. ChainEnd[u] \in Members(ChainEnd[u])
      BY <1>4, <3>1 DEF Members
    <3>3. QED
      BY <1>1, <2>1, <3>2
  <2>2. ASSUME NEW u \in exists, ChainEnd[u] \in gone PROVE u \in gone
    <3>1. ChainEnd[ChainEnd[u]] = ChainEnd[u]
      BY <1>4, ChainEndStep
    <3>2. u \in Members(ChainEnd[ChainEnd[u]])
      BY <3>1 DEF Members
    <3>3. QED
      BY <1>1, <2>2, <3>2
  <2>3. QED
    BY <2>1, <2>2
<1>6. \A d \in Versions : IsFirst(d)' <=> IsFirst(d) /\ d \notin gone
  <2>1. ASSUME NEW d \in exists \ gone PROVE Predecessors(d)' = Predecessors(d)
    <3>1. ASSUME NEW p \in Predecessors(d) PROVE p \notin gone
      <4>1. p \in exists /\ replacedBy[p] = d /\ d # NoVersion
        BY NoVersionAssumption DEF Predecessors
      <4>2. p \notin Latest
        BY <4>1 DEF ChainShape, Latest
      <4>3. ChainEnd[p] = ChainEnd[d]
        BY <4>1, <4>2, ChainEndStep
      <4>4. QED
        BY <1>5, <4>1, <4>3
    <3>2. QED
      BY <1>3, <3>1 DEF Predecessors
  <2>2. QED
    BY <1>3, <2>1 DEF IsFirst
<1>7. \A e \in exists \ gone : Members(e)' = Members(e)
  BY <1>3, <1>4, <1>5 DEF Members
<1>8. ASSUME NEW d \in Versions
      PROVE  IF IsFirst(d) /\ d \in gone
             THEN /\ Status[d] = "trash" /\ Status'[d] = "absent"
                  /\ Revisions'[d] = 0 /\ Attached'[d] = {}
             ELSE /\ Status'[d] = Status[d] /\ Revisions'[d] = Revisions[d]
                  /\ Attached'[d] = Attached[d]
  <2>1. CASE ~IsFirst(d)
    BY <1>6, <2>1 DEF MapFacts
  <2>2. CASE IsFirst(d) /\ d \in gone
    <3>1. PICK e \in Versions : e = ChainEnd[d] /\ deleted[e]
      BY <1>1, <1>4, <2>2 DEF IsFirst
    <3>2. Status[d] = "trash"
      BY <2>2, <3>1 DEF MapFacts
    <3>3. Status'[d] = "absent" /\ Revisions'[d] = 0 /\ Attached'[d] = {}
      BY <1>6, <2>2 DEF MapFacts
    <3>4. QED
      BY <2>2, <3>2, <3>3
  <2>3. CASE IsFirst(d) /\ d \notin gone
    <3>1. PICK e \in Versions : e = ChainEnd[d] /\ e \in exists \ gone
      BY <1>4, <1>5, <2>3 DEF IsFirst
    <3>2. ChainEnd'[d] = e /\ IsFirst(d)' /\ Members(e)' = Members(e)
      BY <1>4, <1>6, <1>7, <2>3, <3>1 DEF IsFirst
    <3>3. {f \in Files : fileOf'[f] = e} = {f \in Files : fileOf[f] = e}
      <4>1. ASSUME NEW f \in Files PROVE fileOf'[f] = e <=> fileOf[f] = e
        BY <1>3, <3>1, NoVersionAssumption
      <4>2. QED
        BY <4>1
    <3>4. /\ Status'[d] = IF deleted'[e] THEN "trash" ELSE "live"
          /\ Revisions'[d] = Cardinality(Members(e)')
          /\ Attached'[d] = {f \in Files : fileOf'[f] = e}
      BY <3>1, <3>2 DEF MapFacts
    <3>5. /\ Status[d] = IF deleted[e] THEN "trash" ELSE "live"
          /\ Revisions[d] = Cardinality(Members(e))
          /\ Attached[d] = {f \in Files : fileOf[f] = e}
      BY <2>3, <3>1 DEF MapFacts
    <3>6. QED
      BY <1>3, <2>3, <3>2, <3>3, <3>4, <3>5
  <2>4. QED
    BY <2>1, <2>2, <2>3
<1>9. PICK ds \in SUBSET Versions : ds = {d \in Versions : IsFirst(d) /\ d \in gone}
  OBVIOUS
<1>10. /\ \A d \in ds : Status[d] = "trash"
       /\ Status' = [d \in Versions |-> IF d \in ds THEN "absent" ELSE Status[d]]
       /\ Revisions' = [d \in Versions |-> IF d \in ds THEN 0 ELSE Revisions[d]]
       /\ Attached' = [d \in Versions |-> IF d \in ds THEN {} ELSE Attached[d]]
  BY <1>8, <1>9 DEF MapFacts
<1>11. Records!Purge(ds)
  BY <1>10 DEF Records!Purge
<1>12. QED
  BY <1>11 DEF Records!Next

\* As long as requests do not overlap, the tables implement the documents: an edit
\* adds one revision and may replace files, trash and restore keep history and
\* files, and hard_delete takes whole documents out of the trash.
THEOREM TablesImplementRecords == ASSUME OneWorker PROVE Spec => ImplementsRecords
<1>1. Ctx /\ Ctx' /\ [Next]_vars => [Records!Next]_Records!vars
  <2>1. SUFFICES ASSUME Ctx, Ctx', [Next]_vars PROVE Records!Next \/ UNCHANGED Records!vars
    OBVIOUS
  <2>2. ASSUME NEW w \in Workers, Step(w) PROVE Records!Next \/ UNCHANGED Records!vars
    BY <2>1, <2>2, NothingWritten, AddRefines, EditRefines, ToggleRefines, PurgeRefines
       DEF Step, LoadContext, ReadFiles, ShowForm, Abort, ScanTrash, FollowChains
  <2>3. QED
    BY <2>1, <2>2, NothingWritten DEF Next, vars
<1>2. Init => Records!Init
  BY DEF Init, Status, Revisions, Attached, IsFirst, Records!Init
<1>3. QED
  BY <1>1, <1>2, CtxInvariant, PTL DEF Spec, ImplementsRecords, Records!Spec
=============================================================================
