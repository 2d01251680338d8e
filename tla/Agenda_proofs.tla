-------------------------------- MODULE Agenda_proofs --------------------------------
(* Proofs about Agenda, for any number of items and any gaps: a move that is    *)
(* not overtaken keeps positions distinct, whoever else is at work; and as long *)
(* as one user works at a time, any sequence of creating, copying, deleting,    *)
(* dragging and fixing does.                                                    *)
EXTENDS Agenda, TLAPS, WellFoundedInduction, FiniteSetTheorems

OneUser == \A u, v \in Users : u = v

-----------------------------------------------------------------------------
(* The inductive invariants *)

Bounded(S) == \E b \in Nat : \A n \in S : n <= b

BoundedFun(f) == \E b \in Nat : \A i \in Items : f[i] <= b

BoundedRequest(r) == BoundedFun(r.seen) /\ Bounded(r.pending)

Places == {position[i] : i \in items}

\* What holds for any number of users: the largest position exists.
GInv ==
    /\ TypeOK
    /\ BoundedFun(position)
    /\ \A u \in Users : BoundedRequest(req[u])

\* With one user, a request that moves has read what is there, and one that
\* creates has chosen positions that are free.
ReqOK ==
    \A u \in Users :
        /\ req[u].op = "move" => req[u].on = items /\ req[u].seen = position
        /\ req[u].op = "create" => req[u].pending \cap Places = {}

IInv == GInv /\ DistinctPositions /\ ReqOK

-----------------------------------------------------------------------------
(* The largest position *)

\* A non-empty set of natural numbers with an upper bound has a largest one.
LEMMA LargestExists ==
    ASSUME NEW T \in SUBSET Nat, T # {}, NEW b \in Nat, \A t \in T : t <= b
    PROVE  \E n \in T : \A k \in T : k <= n
<1> DEFINE U == {n \in Nat : \A k \in T : k <= n}
<1>1. U \subseteq Nat /\ U # {}
  OBVIOUS
<1>2. PICK m \in U : \A y \in U : ~ (<<y, m>> \in OpToRel(<, Nat))
  BY <1>1, NatLessThanWellFounded, WFMin
<1>3. \A y \in U : ~ (y < m)
  BY <1>1, <1>2 DEF OpToRel
<1>4. CASE m \in T
  BY <1>4
<1>5. CASE m \notin T
  <2>1. \A k \in T : k < m
    BY <1>5
  <2>2. PICK k \in T : k < m
    BY <2>1
  <2>3. m - 1 \in Nat
    BY <2>2
  <2>4. \A t \in T : t <= m - 1
    BY <2>1, <2>3
  <2>5. m - 1 \in U /\ m - 1 < m
    BY <2>3, <2>4
  <2>6. QED
    BY <1>3, <2>5
<1>6. QED
  BY <1>4, <1>5

\* AgendaItem.create finds a position above all that are taken.
LEMMA NextPositionIsFree ==
    ASSUME GInv, NEW u \in Users
    PROVE  NextPosition(u) \in Nat /\ \A n \in Taken(u) : n < NextPosition(u)
<1>1. Taken(u) \subseteq Nat
  BY DEF GInv, TypeOK, Request, Taken
<1>2. PICK a \in Nat : \A i \in Items : position[i] <= a
  BY DEF GInv, BoundedFun
<1>3. PICK b \in Nat : \A n \in req[u].pending : n <= b
  BY DEF GInv, BoundedRequest, Bounded
<1>4. \A n \in Taken(u) : n <= a + b
  <2>1. \A i \in items : position[i] \in Nat /\ position[i] <= a
    BY <1>2 DEF GInv, TypeOK
  <2>2. \A n \in req[u].pending : n \in Nat /\ n <= b
    BY <1>1, <1>3 DEF Taken
  <2>3. QED
    BY <2>1, <2>2 DEF Taken
<1>5. CASE Taken(u) = {}
  BY <1>5 DEF NextPosition
<1>6. CASE Taken(u) # {}
  <2>1. \E n \in Taken(u) : \A k \in Taken(u) : k <= n
    <3>1. a + b \in Nat
      OBVIOUS
    <3>2. Taken(u) \in SUBSET Nat
      BY <1>1
    <3>3. QED
      BY <1>4, <1>6, <3>1, <3>2, LargestExists, Zenon
  <2>2. PICK n \in Taken(u) : n + 1 = NextPosition(u) /\ \A k \in Taken(u) : k <= n
    BY <1>6, <2>1 DEF NextPosition
  <2>3. QED
    BY <1>1, <2>2
<1>7. QED
  BY <1>5, <1>6

-----------------------------------------------------------------------------
(* Type correctness *)

LEMMA IdleType == Idle \in Request
BY DEF Idle, Request

\* Whatever was read, the positions a move computes are natural numbers.
LEMMA MovedType ==
    ASSUME NEW seen \in [Items -> Nat], NEW subject \in Items, NEW old \in Nat,
           NEW new \in Nat
    PROVE  Moved(seen, subject, old, new) \in [Items -> Nat]
<1>1. ASSUME NEW i \in Items
      PROVE  Shifted(old, new, seen[i]) \in Nat
  BY DEF Shifted, Between
<1>2. old < new => new - 1 \in Nat
  OBVIOUS
<1>3. QED
  BY <1>1, <1>2 DEF Moved

LEMMA TypeStep == ASSUME GInv, [Next]_vars PROVE TypeOK'
<1> USE DEF GInv, TypeOK
<1>1. ASSUME NEW u \in Users, StartCreate(u) PROVE TypeOK'
  <2>1. PICK n \in 1 .. MaxCopy :
               req' = [req EXCEPT ![u] = [Idle EXCEPT !.op = "create", !.left = n]]
    BY <1>1 DEF StartCreate
  <2>2. n \in Nat
    BY MaxCopyAssumption
  <2>3. PICK r \in Request : r = Idle
    BY IdleType
  <2>4. [r EXCEPT !.op = "create", !.left = n] \in Request
    BY <2>2 DEF Request
  <2>5. QED
    BY <1>1, <2>1, <2>3, <2>4 DEF StartCreate
<1>2. ASSUME NEW u \in Users, Create(u) PROVE TypeOK'
  <2>1. PICK n \in Nat : n = NextPosition(u)
    BY <1>2, NextPositionIsFree DEF Create
  <2>2. PICK r \in Request : r = req[u]
    OBVIOUS
  <2>3. r.left - 1 \in Nat /\ r.pending \cup {n} \in SUBSET Nat
    BY <1>2, <2>2 DEF Create, Request
  <2>4. [r EXCEPT !.left = r.left - 1, !.pending = r.pending \cup {n}] \in Request
    BY <2>3 DEF Request
  <2>5. req' \in [Users -> Request]
    BY <1>2, <2>1, <2>2, <2>4 DEF Create
  <2>6. QED
    BY <1>2, <2>5 DEF Create
<1>3. ASSUME NEW u \in Users, SaveNew(u) PROVE TypeOK'
  <2>1. req[u].pending \subseteq Nat
    BY DEF Request
  <2>2. QED
    BY <1>3, <2>1, IdleType DEF SaveNew, Finish
<1>4. ASSUME NEW u \in Users, NEW i \in Items, Delete(u, i) PROVE TypeOK'
  BY <1>4 DEF Delete
<1>5. ASSUME NEW u \in Users, ShowPage(u) PROVE TypeOK'
  BY <1>5, IdleType DEF ShowPage, Request
<1>6. ASSUME NEW u \in Users, LeavePage(u) PROVE TypeOK'
  BY <1>6, IdleType DEF LeavePage, Finish
<1>7. ASSUME NEW u \in Users, NEW i \in Items, NEW j \in Items,
             NEW direction \in {"above", "below"}, AskMove(u, i, j, direction)
      PROVE  TypeOK'
  <2>1. req[u].seen[i] \in Nat /\ req[u].seen[j] \in Nat
    BY DEF Request
  <2>2. [Idle EXCEPT !.op = "asked", !.item = {i}, !.direction = direction,
                     !.subject = req[u].seen[i], !.target = req[u].seen[j]] \in Request
    BY <2>1, IdleType DEF Request
  <2>3. QED
    BY <1>7, <2>2 DEF AskMove
<1>8. ASSUME NEW u \in Users, ReadItems(u) PROVE TypeOK'
  <2>1. PICK r \in Request : r = req[u]
    OBVIOUS
  <2>2. [r EXCEPT !.op = "move", !.on = items, !.seen = position] \in Request
    BY DEF Request
  <2>3. QED
    BY <1>8, <2>1, <2>2 DEF ReadItems
<1>9. ASSUME NEW u \in Users, SaveMove(u) PROVE TypeOK'
  <2>1. req[u].subject \in Nat /\ req[u].target \in Nat
        /\ req[u].seen \in [Items -> Nat] /\ req[u].on \subseteq Items
    BY DEF Request
  <2>2. NewPlace(req[u].target, req[u].direction) \in Nat
    BY <2>1 DEF NewPlace
  <2>3. \A i \in req[u].on :
          Moved(req[u].seen, i, req[u].subject,
                NewPlace(req[u].target, req[u].direction)) \in [Items -> Nat]
    BY <2>1, <2>2, MovedType
  <2>4. position' \in [Items -> Nat]
    BY <1>9, <2>3 DEF SaveMove, After
  <2>5. QED
    BY <1>9, <2>4, IdleType DEF SaveMove, Finish
<1>10. ASSUME NEW u \in Users, MoveFails(u) PROVE TypeOK'
  BY <1>10, IdleType DEF MoveFails, Finish
<1>11. CASE FixPositions
  BY <1>11 DEF FixPositions
<1>12. CASE UNCHANGED vars
  BY <1>12 DEF vars
<1>13. QED
  BY <1>1, <1>2, <1>3, <1>4, <1>5, <1>6, <1>7, <1>8, <1>9, <1>10, <1>11, <1>12
     DEF Next, Act

-----------------------------------------------------------------------------
(* Bounds *)

\* A move computes positions that are bounded if what it read was.
LEMMA MovedIsBounded ==
    ASSUME NEW seen \in [Items -> Nat], NEW subject \in Items, NEW old \in Nat,
           NEW new \in Nat, NEW b \in Nat, \A i \in Items : seen[i] <= b
    PROVE  \A i \in Items : Moved(seen, subject, old, new)[i] <= b + 1 + new
<1> SUFFICES ASSUME NEW i \in Items
             PROVE  Moved(seen, subject, old, new)[i] <= b + 1 + new
  OBVIOUS
<1>1. PICK p \in Nat : p = seen[i] /\ p <= b
  OBVIOUS
<1>2. Moved(seen, subject, old, new)[i] \in {new - 1, new, Shifted(old, new, p)}
  BY <1>1 DEF Moved
<1>3. Shifted(old, new, p) \in {p - 1, p, p + 1}
  BY DEF Shifted
<1>4. QED
  BY <1>1, <1>2, <1>3

\* Every step keeps the positions bounded.
LEMMA BoundedStep ==
    ASSUME GInv, IsFiniteSet(Items), [Next]_vars
    PROVE  BoundedFun(position)'
<1> USE DEF GInv, TypeOK
<1>1. PICK a \in Nat : \A i \in Items : position[i] <= a
  BY DEF BoundedFun
<1>2. ASSUME position' = position PROVE BoundedFun(position)'
  BY <1>2 DEF BoundedFun
<1>3. ASSUME NEW u \in Users, SaveNew(u) PROVE BoundedFun(position)'
  <2>1. PICK b \in Nat : \A n \in req[u].pending : n <= b
    BY DEF BoundedRequest, Bounded
  <2>2. req[u].pending \subseteq Nat
    BY DEF Request
  <2>3. \A i \in Items : position'[i] = position[i] \/ position'[i] \in req[u].pending
    BY <1>3 DEF SaveNew
  <2>4. a + b \in Nat /\ \A i \in Items : position'[i] <= a + b
    <3>1. ASSUME NEW i \in Items PROVE position'[i] <= a + b
      BY <1>1, <2>1, <2>2, <2>3
    <3>2. QED
      BY <3>1
  <2>5. QED
    BY <2>4 DEF BoundedFun
<1>4. ASSUME NEW u \in Users, SaveMove(u) PROVE BoundedFun(position)'
  <2>1. PICK b \in Nat : \A i \in Items : req[u].seen[i] <= b
    BY DEF BoundedRequest, BoundedFun
  <2>2. req[u].subject \in Nat /\ req[u].target \in Nat
        /\ req[u].seen \in [Items -> Nat] /\ req[u].on \subseteq Items
    BY DEF Request
  <2>3. PICK n \in Nat : n = NewPlace(req[u].target, req[u].direction)
    BY <2>2 DEF NewPlace
  <2>4. PICK i \in req[u].on :
             position' = [k \in Items |-> IF k \in Written(req[u], i)
                                          THEN After(req[u], i)[k] ELSE position[k]]
    BY <1>4 DEF SaveMove
  <2>5. \A k \in Items : After(req[u], i)[k] <= b + 1 + n
    BY <2>1, <2>2, <2>3, MovedIsBounded DEF After
  <2>6. \A k \in Items : position'[k] = position[k] \/ position'[k] = After(req[u], i)[k]
    BY <2>4
  <2>7. a + (b + 1 + n) \in Nat
    OBVIOUS
  <2>8. \A k \in Items : position'[k] <= a + (b + 1 + n)
    <3>1. After(req[u], i) \in [Items -> Nat]
      BY <2>2, <2>3, MovedType DEF After
    <3>2. ASSUME NEW k \in Items PROVE position'[k] <= a + (b + 1 + n)
      <4>1. PICK p \in Nat : p = position[k] /\ p <= a
        BY <1>1
      <4>2. PICK q \in Nat : q = After(req[u], i)[k] /\ q <= b + 1 + n
        BY <2>5, <3>1
      <4>3. position'[k] \in {p, q}
        BY <2>6, <4>1, <4>2
      <4>4. QED
        BY <4>1, <4>2, <4>3
    <3>3. QED
      BY <3>2
  <2>9. QED
    BY <2>7, <2>8 DEF BoundedFun
<1>5. ASSUME FixPositions PROVE BoundedFun(position)'
  <2>1. PICK c \in Nat : c = Cardinality(items)
    BY FS_Subset, FS_CardinalityType
  <2>2. \A i \in Items : position'[i] = position[i] \/ position'[i] \in 0 .. c
    BY <1>5, <2>1 DEF FixPositions
  <2>3. a + c \in Nat /\ \A i \in Items : position'[i] <= a + c
    <3>1. ASSUME NEW i \in Items PROVE position'[i] <= a + c
      BY <1>1, <2>2
    <3>2. QED
      BY <3>1
  <2>4. QED
    BY <2>3 DEF BoundedFun
<1>6. QED
  BY <1>2, <1>3, <1>4, <1>5
     DEF Next, Act, vars, StartCreate, Create, Delete, ShowPage, LeavePage, AskMove,
         ReadItems, MoveFails

LEMMA IdleIsBounded == BoundedRequest(Idle)
<1>1. Idle.seen = [i \in Items |-> 0] /\ Idle.pending = {}
  BY DEF Idle
<1>2. 0 \in Nat /\ \A i \in Items : Idle.seen[i] <= 0
  BY <1>1
<1>3. BoundedFun(Idle.seen)
  BY <1>2 DEF BoundedFun
<1>4. Bounded(Idle.pending)
  BY <1>1, <1>2 DEF Bounded
<1>5. QED
  BY <1>3, <1>4 DEF BoundedRequest

\* What a request has read and chosen is bounded as well.
LEMMA BoundedRequests ==
    ASSUME GInv, [Next]_vars
    PROVE  (\A u \in Users : BoundedRequest(req[u]))'
<1> USE DEF GInv, TypeOK
<1>1. ASSUME UNCHANGED req PROVE (\A u \in Users : BoundedRequest(req[u]))'
  BY <1>1 DEF BoundedRequest, BoundedFun, Bounded
<1>2. ASSUME NEW u \in Users, Act(u), UNCHANGED req \/ BoundedRequest(req'[u])
      PROVE  (\A v \in Users : BoundedRequest(req[v]))'
  <2>1. CASE UNCHANGED req
    BY <1>1, <2>1
  <2>2. CASE BoundedRequest(req'[u])
    <3>1. \A v \in Users \ {u} : req'[v] = req[v]
      BY <1>2 DEF Act, StartCreate, Create, SaveNew, Delete, ShowPage, LeavePage, AskMove,
                  ReadItems, SaveMove, MoveFails, Finish
    <3>2. QED
      BY <2>2, <3>1 DEF BoundedRequest, BoundedFun, Bounded
  <2>3. QED
    BY <1>2, <2>1, <2>2
<1>3. ASSUME NEW u \in Users, SaveNew(u) \/ LeavePage(u) \/ SaveMove(u) \/ MoveFails(u)
      PROVE  BoundedRequest(req'[u])
  <2>1. req'[u] = Idle
    BY <1>3 DEF SaveNew, LeavePage, SaveMove, MoveFails, Finish
  <2>2. QED
    BY <2>1, IdleIsBounded
<1>4. ASSUME NEW u \in Users,
             StartCreate(u) \/ \E i, j \in Items, d \in {"above", "below"} : AskMove(u, i, j, d)
      PROVE  BoundedRequest(req'[u])
  <2>1. PICK r \in Request : r = Idle
    BY IdleType
  <2>2. CASE StartCreate(u)
    <3>1. PICK n : req' = [req EXCEPT ![u] = [r EXCEPT !.op = "create", !.left = n]]
      BY <2>1, <2>2 DEF StartCreate
    <3>2. PICK s : s = [r EXCEPT !.op = "create", !.left = n]
      OBVIOUS
    <3>3. s.seen = r.seen /\ s.pending = r.pending /\ req'[u] = s
      BY <3>1, <3>2 DEF Request
    <3>4. QED
      BY <2>1, <3>3, IdleIsBounded DEF BoundedRequest
  <2>3. ASSUME NEW i \in Items, NEW j \in Items, NEW d \in {"above", "below"},
               AskMove(u, i, j, d)
        PROVE  BoundedRequest(req'[u])
    <3>1. PICK s : s = [r EXCEPT !.op = "asked", !.item = {i}, !.direction = d,
                                 !.subject = req[u].seen[i], !.target = req[u].seen[j]]
      OBVIOUS
    <3>2. s.seen = r.seen /\ s.pending = r.pending
      BY <3>1 DEF Request
    <3>3. req'[u] = s
      BY <2>1, <2>3, <3>1 DEF AskMove
    <3>4. QED
      BY <2>1, <3>2, <3>3, IdleIsBounded DEF BoundedRequest
  <2>4. QED
    BY <1>4, <2>2, <2>3
<1>5. ASSUME NEW u \in Users, ShowPage(u) PROVE BoundedRequest(req'[u])
  <2>1. PICK r \in Request : r = Idle
    BY IdleType
  <2>2. req'[u].seen = position /\ req'[u].pending = r.pending
    BY <1>5, <2>1 DEF ShowPage, Request
  <2>3. QED
    BY <2>1, <2>2, IdleIsBounded DEF BoundedRequest
<1>6. ASSUME NEW u \in Users, ReadItems(u) PROVE BoundedRequest(req'[u])
  <2>1. PICK r \in Request : r = req[u]
    OBVIOUS
  <2>2. req'[u].seen = position /\ req'[u].pending = r.pending
    BY <1>6, <2>1 DEF ReadItems, Request
  <2>3. QED
    BY <2>1, <2>2 DEF BoundedRequest
<1>7. ASSUME NEW u \in Users, Create(u) PROVE BoundedRequest(req'[u])
  <2>1. PICK n \in Nat : n = NextPosition(u) /\ \A k \in Taken(u) : k < n
    BY NextPositionIsFree
  <2>2. PICK r \in Request : r = req[u]
    OBVIOUS
  <2>3. PICK s : s = [r EXCEPT !.left = r.left - 1, !.pending = r.pending \cup {n}]
    OBVIOUS
  <2>4. s.seen = r.seen /\ s.pending = r.pending \cup {n}
    BY <2>2, <2>3 DEF Request
  <2>5. req'[u] = s
    BY <1>7, <2>1, <2>2, <2>3 DEF Create
  <2>6. \A k \in s.pending : k <= n
    BY <2>1, <2>2, <2>4 DEF Taken, Request
  <2>7. QED
    BY <2>2, <2>4, <2>5, <2>6 DEF BoundedRequest, Bounded
<1>8. ASSUME NEW u \in Users, Act(u) PROVE UNCHANGED req \/ BoundedRequest(req'[u])
  BY <1>3, <1>4, <1>5, <1>6, <1>7, <1>8 DEF Act, Delete
<1>9. QED
  BY <1>1, <1>2, <1>8 DEF Next, FixPositions, vars

LEMMA GStep == ASSUME GInv, IsFiniteSet(Items), [Next]_vars PROVE GInv'
BY TypeStep, BoundedStep, BoundedRequests DEF GInv

LEMMA InitGInv == Init => GInv
<1>1. ASSUME Init PROVE TypeOK
  BY <1>1, IdleType DEF Init, TypeOK
<1>2. ASSUME Init PROVE BoundedFun(position)
  <2>1. 0 \in Nat /\ \A i \in Items : position[i] <= 0
    BY <1>2 DEF Init
  <2>2. QED
    BY <2>1 DEF BoundedFun
<1>3. ASSUME Init PROVE \A u \in Users : BoundedRequest(req[u])
  BY <1>3, IdleIsBounded DEF Init
<1>4. QED
  BY <1>1, <1>2, <1>3 DEF GInv

\* For any number of users, columns and requests are of their types.
THEOREM TypeCorrect == ASSUME IsFiniteSet(Items) PROVE Spec => []TypeOK
<1>1. GInv /\ [Next]_vars => GInv'
  BY GStep
<1>2. GInv => TypeOK
  BY DEF GInv
<1>3. QED
  BY InitGInv, <1>1, <1>2, PTL DEF Spec

-----------------------------------------------------------------------------
(* A move that is not overtaken, whoever else is at work *)

InjectiveOn(S, f) == \A i, j \in S : f[i] = f[j] => i = j

\* A move shifts the items between the old and the new place by one and puts the
\* dragged one into the gap.
LEMMA MovedIsInjective ==
    ASSUME NEW S \in SUBSET Items, NEW seen \in [Items -> Nat], NEW s \in S,
           InjectiveOn(S, seen), NEW new \in Nat
    PROVE  InjectiveOn(S, Moved(seen, s, seen[s], new))
<1> SUFFICES ASSUME NEW i \in S, NEW j \in S,
                    Moved(seen, s, seen[s], new)[i] = Moved(seen, s, seen[s], new)[j]
             PROVE  i = j
  BY DEF InjectiveOn
<1> USE DEF InjectiveOn
<1>1. seen[i] \in Nat /\ seen[j] \in Nat /\ seen[s] \in Nat
  OBVIOUS
<1>2. \A k \in S : seen[k] = seen[s] => k = s
  OBVIOUS
<1>3. ASSUME NEW k \in S, NEW l \in S,
             Moved(seen, s, seen[s], new)[k] = Moved(seen, s, seen[s], new)[l],
             k = s, l # s
      PROVE  FALSE
  <2>1. seen[l] \in Nat /\ seen[l] # seen[s]
    BY <1>2, <1>3
  <2>2. CASE seen[s] < new
    BY <1>1, <1>3, <2>1, <2>2 DEF Moved, Shifted, Between
  <2>3. CASE ~ (seen[s] < new)
    BY <1>1, <1>3, <2>1, <2>3 DEF Moved, Shifted, Between
  <2>4. QED
    BY <2>2, <2>3
<1>4. CASE i # s /\ j # s
  <2>1. seen[i] # seen[s] /\ seen[j] # seen[s]
    BY <1>2, <1>4
  <2>2. Shifted(seen[s], new, seen[i]) = Shifted(seen[s], new, seen[j])
    BY <1>4 DEF Moved
  <2>3. seen[i] = seen[j]
    BY <1>1, <2>1, <2>2 DEF Shifted, Between
  <2>4. QED
    BY <2>3
<1>5. QED
  BY <1>3, <1>4


\* What such a move writes: places computed from what is there.
LEMMA FreshMoveWrites ==
    ASSUME GInv, NEW u \in Users, SaveMove(u), IsFresh(u)
    PROVE  \E i, j \in items :
              /\ position[i] = req[u].subject
              /\ position[j] = req[u].target
              /\ \A k \in items :
                    position'[k] = Moved(position, i, position[i],
                                         NewPlace(position[j], req[u].direction))[k]
<1> USE DEF GInv, TypeOK
<1>1. PICK seen \in [Items -> Nat] : seen = req[u].seen
  BY DEF Request
<1>2. req[u].on = items /\ \A k \in items : seen[k] = position[k]
  BY <1>1 DEF IsFresh
<1>3. PICK i \in items, j \in items :
          /\ seen[i] = req[u].subject
          /\ seen[j] = req[u].target
          /\ position' = [k \in Items |-> IF k \in Written(req[u], i)
                                          THEN After(req[u], i)[k] ELSE position[k]]
  BY <1>1, <1>2 DEF SaveMove, IsMeant
<1>4. PICK n : n = NewPlace(position[j], req[u].direction)
  OBVIOUS
<1>5. After(req[u], i) = Moved(seen, i, position[i], n)
  BY <1>1, <1>2, <1>3, <1>4 DEF After
<1>6. \A k \in items : position'[k] = Moved(seen, i, position[i], n)[k]
  BY <1>1, <1>2, <1>3, <1>5 DEF Written
<1>7. \A k \in items : Moved(seen, i, position[i], n)[k]
                      = Moved(position, i, position[i], n)[k]
  BY <1>2 DEF Moved
<1>8. QED
  BY SMTT(20), <1>2, <1>3, <1>4, <1>6, <1>7

LEMMA FreshMoveKeeps ==
    ASSUME GInv, NEW u \in Users, SaveMove(u), IsFresh(u)
    PROVE  DistinctPositions'
<1> USE DEF GInv, TypeOK
<1>1. PICK i \in items, j \in items :
          \A k \in items : position'[k] = Moved(position, i, position[i],
                                   NewPlace(position[j], req[u].direction))[k]
  BY FreshMoveWrites
<1>2. PICK n \in Nat : n = NewPlace(position[j], req[u].direction)
  BY DEF NewPlace
<1>3. InjectiveOn(items, position)
  BY DEF IsFresh, DistinctPositions, InjectiveOn
<1>4. InjectiveOn(items, Moved(position, i, position[i], n))
  BY <1>3, MovedIsInjective
<1>5. items' = items
  BY DEF SaveMove
<1>6. QED
  BY <1>1, <1>2, <1>4, <1>5 DEF DistinctPositions, InjectiveOn

\* For any number of users, and however old the page, a move whose read is not
\* overtaken by another request keeps the positions of a meeting distinct.
THEOREM FreshMoves == ASSUME IsFiniteSet(Items) PROVE Spec => FreshMovesKeepDistinct
<1>1. GInv /\ [Next]_vars => GInv'
  BY GStep
<1>2. GInv /\ [Next]_vars
      => [\A u \in Users : SaveMove(u) /\ IsFresh(u) => DistinctPositions']_vars
  BY FreshMoveKeeps
<1>3. QED
  BY InitGInv, <1>1, <1>2, PTL DEF Spec, FreshMovesKeepDistinct

-----------------------------------------------------------------------------
(* Such a move lands next to its target *)

\* The dragged item stands at a, its target at b and a third one at c.
LEMMA DragArithmetic ==
    ASSUME NEW a \in Nat, NEW b \in Nat, NEW c \in Nat, a # b, a # c, b # c,
           NEW n \in Nat, NEW p \in Nat, p = IF a < n THEN n - 1 ELSE n
    PROVE  /\ n = b => p < Shifted(a, n, b)
           /\ n = b + 1 => Shifted(a, n, b) < p
           /\ n \in {b, b + 1} =>
                 \/ Shifted(a, n, c) < p /\ Shifted(a, n, c) < Shifted(a, n, b)
                 \/ Shifted(a, n, c) > p /\ Shifted(a, n, c) > Shifted(a, n, b)
<1>1. CASE n = b /\ a < b
  BY <1>1 DEF Shifted, Between
<1>2. CASE n = b /\ b < a
  BY <1>2 DEF Shifted, Between
<1>3. CASE n = b + 1 /\ a < b
  BY <1>3 DEF Shifted, Between
<1>4. CASE n = b + 1 /\ b < a
  BY <1>4 DEF Shifted, Between
<1>5. QED
  BY <1>1, <1>2, <1>3, <1>4

\* With gaps or without, a move puts the dragged item next to its target.
LEMMA MovedLands ==
    ASSUME GInv, NEW seen \in [Items -> Nat], InjectiveOn(items, seen),
           NEW i \in items, NEW j \in items, i # j,
           NEW direction \in {"above", "below"},
           NEW n \in Nat, n = NewPlace(seen[j], direction),
           NEW place, \A k \in items : place[k] = Moved(seen, i, seen[i], n)[k]
    PROVE  Beside(i, j, direction, place)
<1> USE DEF GInv, TypeOK
<1>1. PICK p \in Nat : p = IF seen[i] < n THEN n - 1 ELSE n
  OBVIOUS
<1>2. place[i] = p
  BY <1>1 DEF Moved
<1>3. \A k \in items \ {i} : place[k] = Shifted(seen[i], n, seen[k])
  BY DEF Moved
<1>4. \A k \in items \ {i, j} : seen[k] # seen[i] /\ seen[k] # seen[j]
  BY DEF InjectiveOn
<1>5. seen[i] \in Nat /\ seen[j] \in Nat /\ seen[i] # seen[j]
  BY DEF InjectiveOn
<1>6. n = IF direction = "above" THEN seen[j] ELSE seen[j] + 1
  BY DEF NewPlace
<1>7. IF direction = "above" THEN place[i] < place[j] ELSE place[j] < place[i]
  <2>1. PICK c \in Nat : c # seen[i] /\ c # seen[j]
    <3>1. seen[i] + seen[j] + 1 \in Nat /\ seen[i] + seen[j] + 1 # seen[i]
          /\ seen[i] + seen[j] + 1 # seen[j]
      BY <1>5
    <3>2. QED
      BY <3>1
  <2>2. /\ n = seen[j] => p < Shifted(seen[i], n, seen[j])
        /\ n = seen[j] + 1 => Shifted(seen[i], n, seen[j]) < p
    BY <1>1, <1>5, <2>1, DragArithmetic
  <2>3. QED
    BY <1>2, <1>3, <1>6, <2>2
<1>8. ASSUME NEW k \in items \ {i, j}
      PROVE  \/ place[k] < place[i] /\ place[k] < place[j]
             \/ place[k] > place[i] /\ place[k] > place[j]
  <2>1. seen[k] \in Nat /\ seen[k] # seen[i] /\ seen[k] # seen[j]
    BY <1>4
  <2>2. n \in {seen[j], seen[j] + 1}
    BY <1>6
  <2>3. \/ Shifted(seen[i], n, seen[k]) < p
           /\ Shifted(seen[i], n, seen[k]) < Shifted(seen[i], n, seen[j])
        \/ Shifted(seen[i], n, seen[k]) > p
           /\ Shifted(seen[i], n, seen[k]) > Shifted(seen[i], n, seen[j])
    BY <1>1, <1>5, <2>1, <2>2, DragArithmetic
  <2>4. place[k] = Shifted(seen[i], n, seen[k])
        /\ place[j] = Shifted(seen[i], n, seen[j])
    BY <1>3
  <2>5. QED
    BY <1>2, <2>3, <2>4
<1>9. QED
  BY <1>7, <1>8 DEF Beside

LEMMA FreshMoveLands ==
    ASSUME GInv, NEW u \in Users, SaveMove(u), IsFresh(u)
    PROVE  LandsBeside(u)
<1> USE DEF GInv, TypeOK
<1> SUFFICES ASSUME NEW i \in items, NEW j \in items, i # j,
                    position[i] = req[u].subject, position[j] = req[u].target
             PROVE  Beside(i, j, req[u].direction, position')
  BY DEF LandsBeside
<1>1. PICK seen \in [Items -> Nat], n \in Nat :
          /\ seen = position
          /\ n = NewPlace(seen[j], req[u].direction)
  BY DEF NewPlace
<1>2. InjectiveOn(items, seen)
  BY <1>1 DEF IsFresh, DistinctPositions, InjectiveOn
<1>3. req[u].direction \in {"above", "below"}
  BY DEF Request
<1>4. \A k \in items : position'[k] = Moved(seen, i, seen[i], n)[k]
  BY <1>1, FreshMoveWrites DEF IsFresh, DistinctPositions
<1>5. QED
  BY <1>1, <1>2, <1>3, <1>4, MovedLands

\* The same moves put the dragged item right above or below its target.
THEOREM FreshMovesReachTarget ==
    ASSUME IsFiniteSet(Items) PROVE Spec => FreshMovesLand
<1>1. GInv /\ [Next]_vars => GInv'
  BY GStep
<1>2. GInv /\ [Next]_vars
      => [\A u \in Users : SaveMove(u) /\ IsFresh(u) => LandsBeside(u)]_vars
  BY FreshMoveLands
<1>3. QED
  BY InitGInv, <1>1, <1>2, PTL DEF Spec, FreshMovesLand

-----------------------------------------------------------------------------
(* Distinct positions, with one user *)

\* New positions are those of the transaction, which are free.
LEMMA SaveNewKeeps ==
    ASSUME IInv, NEW u \in Users, SaveNew(u)
    PROVE  DistinctPositions'
<1>1. PICK new \in SUBSET (Items \ used), place \in [Items -> req[u].pending] :
          /\ \A i, j \in new : place[i] = place[j] => i = j
          /\ items' = items \cup new
          /\ position' = [i \in Items |-> IF i \in new THEN place[i] ELSE position[i]]
  BY DEF SaveNew
<1> USE DEF IInv, GInv, TypeOK
<1>2. req[u].pending \cap Places = {}
  BY DEF SaveNew, ReqOK
<1>3. \A i \in items' : \/ i \in new /\ position'[i] = place[i] /\ place[i] \in req[u].pending
                        \/ i \in items \ new /\ position'[i] = position[i]
                           /\ position[i] \in Places
  BY <1>1 DEF Places
<1>4. QED
  BY <1>1, <1>2, <1>3 DEF DistinctPositions

\* With one user every move is fresh.
LEMMA SaveMoveKeeps ==
    ASSUME IInv, NEW u \in Users, SaveMove(u)
    PROVE  DistinctPositions'
BY FreshMoveKeeps DEF IInv, ReqOK, SaveMove, IsFresh

\* The upgrade numbers the items from 0.
LEMMA FixKeeps ==
    ASSUME IInv, FixPositions
    PROVE  DistinctPositions'
BY DEF FixPositions, IInv, GInv, TypeOK, DistinctPositions

\* Every step keeps the positions of a meeting distinct.
LEMMA PositionsStep ==
    ASSUME IInv, [Next]_vars
    PROVE  DistinctPositions'
<1>1. ASSUME UNCHANGED <<items, position>> PROVE DistinctPositions'
  BY <1>1 DEF IInv, DistinctPositions
<1>2. ASSUME NEW u \in Users, NEW i \in Items, Delete(u, i)
      PROVE  DistinctPositions'
  BY <1>2 DEF Delete, IInv, DistinctPositions
<1>3. ASSUME NEW u \in Users, Act(u) PROVE DistinctPositions'
  BY <1>1, <1>2, <1>3, SaveNewKeeps, SaveMoveKeeps
     DEF Act, StartCreate, Create, ShowPage, LeavePage, AskMove, ReadItems, MoveFails
<1>4. CASE UNCHANGED vars
  BY <1>1, <1>4 DEF vars
<1>5. QED
  BY <1>3, <1>4, FixKeeps DEF Next

-----------------------------------------------------------------------------
(* Requests: with one user nothing comes between what a request reads and what  *)
(* it writes                                                                    *)

\* A request that waits for nothing it has read or chosen is ReqOK.
LEMMA HarmlessRequest ==
    ASSUME OneUser, NEW u \in Users, req'[u].op \notin {"move", "create"}
    PROVE  ReqOK'
BY DEF OneUser, ReqOK

LEMMA ReqStep == ASSUME IInv, OneUser, [Next]_vars PROVE ReqOK'
<1> USE DEF IInv, GInv, TypeOK
<1>1. ASSUME NEW u \in Users, StartCreate(u) PROVE ReqOK'
  <2>1. PICK n \in 1 .. MaxCopy :
               req' = [req EXCEPT ![u] = [Idle EXCEPT !.op = "create", !.left = n]]
    BY <1>1 DEF StartCreate
  <2>2. PICK r : r = [Idle EXCEPT !.op = "create", !.left = n]
    OBVIOUS
  <2>3. r.op = "create" /\ r.pending = {}
    BY <2>2 DEF Idle
  <2>4. req'[u] = r
    BY <2>1, <2>2
  <2>5. QED
    BY <2>3, <2>4 DEF OneUser, ReqOK
<1>2. ASSUME NEW u \in Users, Create(u) PROVE ReqOK'
  <2>1. PICK n \in Nat : n = NextPosition(u) /\ \A k \in Taken(u) : k < n
    BY <1>2, NextPositionIsFree DEF Create
  <2>2. PICK r \in Request : r = req[u]
    OBVIOUS
  <2>3. PICK s : s = [r EXCEPT !.left = r.left - 1, !.pending = r.pending \cup {n}]
    OBVIOUS
  <2>4. s.op = "create" /\ s.pending = r.pending \cup {n}
    BY <1>2, <2>2, <2>3 DEF Create, Request
  <2>5. req'[u] = s /\ items' = items /\ position' = position
    BY <1>2, <2>1, <2>2, <2>3 DEF Create
  <2>6. Places' = Places
    BY <2>5 DEF Places
  <2>7. \A k \in Places : k < n /\ k \in Nat
    BY <2>1 DEF Taken, Places
  <2>8. n \notin Places
    BY <2>7
  <2>9. s.pending \cap Places = {}
    BY <1>2, <2>2, <2>4, <2>8 DEF Create, ReqOK
  <2>10. QED
    BY <2>4, <2>5, <2>6, <2>9 DEF OneUser, ReqOK
<1>3. ASSUME NEW u \in Users, SaveNew(u) \/ LeavePage(u) \/ SaveMove(u) \/ MoveFails(u)
      PROVE  ReqOK'
  <2>1. req'[u] = Idle
    BY <1>3 DEF SaveNew, LeavePage, SaveMove, MoveFails, Finish
  <2>2. Idle.op = "idle"
    BY DEF Idle
  <2>3. QED
    BY <2>1, <2>2, HarmlessRequest
<1>4. ASSUME NEW u \in Users, NEW i \in Items, Delete(u, i) PROVE ReqOK'
  BY <1>4, HarmlessRequest DEF Delete
<1>5. ASSUME NEW u \in Users, ShowPage(u) PROVE ReqOK'
  <2>1. PICK r \in Request : r = Idle
    BY IdleType
  <2>2. req'[u].op = "page"
    BY <1>5, <2>1 DEF ShowPage, Request
  <2>3. QED
    BY <2>2, HarmlessRequest
<1>6. ASSUME NEW u \in Users, NEW i \in Items, NEW j \in Items,
             NEW direction \in {"above", "below"}, AskMove(u, i, j, direction)
      PROVE  ReqOK'
  <2>1. PICK r \in Request : r = Idle
    BY IdleType
  <2>2. req'[u].op = "asked"
    BY <1>6, <2>1 DEF AskMove, Request
  <2>3. QED
    BY <2>2, HarmlessRequest
<1>7. ASSUME NEW u \in Users, ReadItems(u) PROVE ReqOK'
  <2>1. PICK r \in Request : r = req[u]
    OBVIOUS
  <2>2. PICK s : s = [r EXCEPT !.op = "move", !.on = items, !.seen = position]
    OBVIOUS
  <2>3. s.op = "move" /\ s.on = items /\ s.seen = position
    BY <2>2 DEF Request
  <2>4. req'[u] = s /\ items' = items /\ position' = position
    BY <1>7, <2>1, <2>2 DEF ReadItems
  <2>5. QED
    BY <2>3, <2>4 DEF OneUser, ReqOK
<1>8. ASSUME FixPositions PROVE ReqOK'
  BY <1>8 DEF FixPositions, ReqOK
<1>9. ASSUME UNCHANGED vars PROVE ReqOK'
  BY <1>9 DEF vars, ReqOK, Places
<1>10. QED
  BY <1>1, <1>2, <1>3, <1>4, <1>5, <1>6, <1>7, <1>8, <1>9 DEF Next, Act

-----------------------------------------------------------------------------
(* The theorem *)

LEMMA InitIInv == Init => IInv
<1>1. ASSUME Init PROVE DistinctPositions /\ ReqOK
  BY <1>1 DEF Init, DistinctPositions, ReqOK, Idle
<1>2. QED
  BY <1>1, InitGInv DEF IInv

\* Whatever one user does, and whenever the upgrade runs, no two agenda items of
\* a meeting share a position.
THEOREM PositionsStayDistinct ==
    ASSUME OneUser, IsFiniteSet(Items)
    PROVE  Spec => []DistinctPositions
<1>1. IInv /\ [Next]_vars => IInv'
  BY GStep, PositionsStep, ReqStep DEF IInv
<1>2. IInv => DistinctPositions
  BY DEF IInv
<1>3. QED
  BY InitIInv, <1>1, <1>2, PTL DEF Spec
=============================================================================
