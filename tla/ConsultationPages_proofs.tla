--------------------------- MODULE ConsultationPages_proofs ---------------------------
(* Proofs about ConsultationPages, for any number of consultations and versions:  *)
(* as long as requests do not overlap, the pages, the feed, the search and the    *)
(* printed trees agree about what there is, and the check of the trees finds what *)
(* a deletion by keyword cuts off.                                                *)
EXTENDS ConsultationPages, Consultations_proofs

-----------------------------------------------------------------------------
(* Chains, as the command line follows them *)

LEMMA ChainRecursion ==
    ASSUME NEW t, t.next \in [Versions -> Versions \cup {NoVersion}], NEW u \in Versions
    PROVE  Chain(t, u) = IF t.next[u] = NoVersion THEN {u}
                         ELSE {u} \cup Chain(t, t.next[u])
<1> DEFINE along == CHOOSE f : f = [v \in Versions |->
                        IF t.next[v] = NoVersion THEN {v} ELSE {v} \cup f[t.next[v]]]
<1>1. PICK f : f = [v \in Versions |-> RowsAlong(t.next, v)]
  OBVIOUS
<1>2. \A v \in Versions : f[v] = IF t.next[v] = NoVersion THEN {v}
                                 ELSE {v} \cup f[t.next[v]]
  BY <1>1, AlongStep
<1>3. f = [v \in Versions |-> IF t.next[v] = NoVersion THEN {v} ELSE {v} \cup f[t.next[v]]]
  BY <1>1, <1>2
<1>4. along = [v \in Versions |->
                  IF t.next[v] = NoVersion THEN {v} ELSE {v} \cup along[t.next[v]]]
  BY <1>3
<1>5. \A v : Chain(t, v) = along[v]
  BY DEF Chain
<1> HIDE DEF along
<1>6. QED
  BY <1>4, <1>5

LEMMA ChainStep ==
    ASSUME IInv, NEW u \in exists
    PROVE  /\ u \in Latest => Chain(Tables, u) = {u}
           /\ u \notin Latest => Chain(Tables, u) = {u} \cup Chain(Tables, replacedBy[u])
<1>1. Tables.next = replacedBy
  BY DEF Tables
<1>2. replacedBy \in [Versions -> Versions \cup {NoVersion}]
  BY DEF IInv, TypeOK
<1>3. u \in Versions /\ (u \in Latest <=> replacedBy[u] = NoVersion)
  BY DEF IInv, TypeOK, ChainShape, Latest
<1>4. QED
  BY <1>1, <1>2, <1>3, ChainRecursion

\* Of the latest versions, a chain holds the one where it ends.
LEMMA ChainHoldsEnd ==
    ASSUME IInv
    PROVE  \A u \in exists, v \in Latest : v \in Chain(Tables, u) <=> ChainEnd[u] = v
<1> DEFINE S == {u \in exists : \A v \in Latest : v \in Chain(Tables, u) <=> ChainEnd[u] = v}
<1>1. Latest \subseteq S
  BY ChainStep, ChainEndStep DEF Latest
<1>2. \A u \in exists \ Latest : replacedBy[u] \in S => u \in S
  BY ChainStep, ChainEndStep
<1> HIDE DEF S
<1>3. exists \subseteq S
  BY <1>1, <1>2, ChainInduction
<1>4. QED
  BY <1>3 DEF S
\* What the trees are made of.
LEMMA TreeIsHistory ==
    ASSUME IInv, NEW v \in Latest
    PROVE  Tree(Tables, v) = Members(v) /\ WithHistory({v}) = Members(v)
BY ChainHoldsEnd, HistoryIsMembers DEF Tree, Tables, Members, HistoryIsChain

\* Old versions are not in the trash, and each is replaced.
LEMMA OldVersions ==
    ASSUME IInv, FilesOnLatest, NEW v \in Latest, NEW u \in Members(v)
    PROVE  /\ u \in exists /\ (u \in Latest => u = v)
           /\ u \notin Latest => ~deleted[u] /\ replacedBy[u] # NoVersion
           /\ v \in Members(v)
<1>1. u \in exists /\ ChainEnd[u] = v /\ v \in exists
  BY DEF Members, Latest
<1>2. u \in Latest => u = v
  BY <1>1, ChainEndStep
<1>3. u \notin Latest => ~deleted[u] /\ replacedBy[u] # NoVersion
  BY <1>1 DEF FilesOnLatest, Latest, IInv, ChainShape
<1>4. v \in Members(v)
  BY <1>1, ChainEndStep DEF Members
<1>5. QED
  BY <1>1, <1>2, <1>3, <1>4

-----------------------------------------------------------------------------
(* The readers *)

LEMMA MinOfTwo ==
    ASSUME NEW a \in Nat, NEW b \in Nat
    PROVE  Min({a, b}) = IF a <= b THEN a ELSE b
<1>1. \A n \in {a, b} : (\A m \in {a, b} : n <= m) <=> n = IF a <= b THEN a ELSE b
  OBVIOUS
<1>2. QED
  BY <1>1 DEF Min

\* What a query with a limit returns: versions of the document, as many as there are
\* or the limit allows.
LEMMA PageOfOne ==
    ASSUME IInv, FilesOnLatest, IsFiniteSet(exists), NEW v \in Listed, NEW limit \in Nat
    PROVE  /\ \A shown \in PreviousVersions(v, limit) :
                 /\ {v} \cup shown \subseteq Members(v)
                 /\ Cardinality({v} \cup shown) = Min({limit + 1, Cardinality(Members(v))})
           /\ Cardinality(Members(v)) <= limit + 1 =>
                 PreviousVersions(v, limit) = {Members(v) \ {v}}
<1>1. v \in Latest /\ WithHistory({v}) = Members(v)
  BY TreeIsHistory DEF Listed, Latest
<1>2. \A u \in Members(v) : u # v => ~deleted[u] /\ replacedBy[u] # NoVersion
  BY <1>1, OldVersions DEF Latest
<1>3. v \in Members(v) /\ Members(v) \in SUBSET exists
  BY <1>1, ChainEndStep DEF Members, Latest
<1>4. PICK old \in SUBSET exists : old = Members(v) \ {v}
  BY <1>3
<1>5. IsFiniteSet(Members(v)) /\ IsFiniteSet(old)
  BY <1>3, FS_Subset
<1>6. /\ Cardinality(old) \in Nat /\ Cardinality(Members(v)) \in Nat
      /\ Cardinality(Members(v)) = Cardinality(old) + 1
  BY <1>3, <1>4, <1>5, FS_RemoveElement, FS_CardinalityType
<1>7. PICK k \in Nat : k = Min({limit, Cardinality(old)})
  BY <1>6, MinOfTwo
<1>8. /\ k = IF limit <= Cardinality(old) THEN limit ELSE Cardinality(old)
      /\ k + 1 = Min({limit + 1, Cardinality(Members(v))})
  BY <1>6, <1>7, MinOfTwo
<1>9. PreviousVersions(v, limit) = {s \in SUBSET old : Cardinality(s) = k}
  <2>1. {u \in WithHistory({v}) \ {v} : replacedBy[u] # NoVersion} = old
    BY <1>1, <1>2, <1>4
  <2>2. PreviousVersions(v, limit) = {{u \in found : ~deleted[u]} : found \in kSubset(k, old)}
    BY <1>7, <2>1 DEF PreviousVersions
  <2>3. \A found \in kSubset(k, old) : {u \in found : ~deleted[u]} = found
    BY <1>2, <1>4 DEF kSubset
  <2>4. PreviousVersions(v, limit) = kSubset(k, old)
    BY <2>2, <2>3
  <2>5. QED
    BY <2>4 DEF kSubset
<1>10. ASSUME NEW shown \in PreviousVersions(v, limit)
       PROVE  /\ {v} \cup shown \subseteq Members(v)
              /\ Cardinality({v} \cup shown) = k + 1
  <2>1. shown \in SUBSET old /\ Cardinality(shown) = k
    BY <1>9
  <2>2. IsFiniteSet(shown) /\ v \notin shown /\ shown \cup {v} = {v} \cup shown
    BY <1>4, <1>5, <2>1, FS_Subset
  <2>3. QED
    BY <1>3, <1>4, <2>1, <2>2, FS_AddElement
<1>11. ASSUME Cardinality(Members(v)) <= limit + 1
       PROVE  PreviousVersions(v, limit) = {old}
  <2>1. k = Cardinality(old)
    BY <1>6, <1>8, <1>11
  <2>2. \A s \in SUBSET old : Cardinality(s) = k <=> s = old
    BY <1>5, <2>1, FS_Subset
  <2>3. QED
    BY <1>9, <2>2
<1>12. QED
  BY <1>4, <1>8, <1>10, <1>11

LEMMA ReadersOfOne ==
    ASSUME IInv, FilesOnLatest, NEW v \in Listed
    PROVE  /\ Printed(Tables, v) = Members(v) /\ WithHistory({v}) = Members(v)
           /\ ~HasErrors(Tables, v)
<1>1. v \in Latest /\ v \in exists /\ latest[v] /\ ~deleted[v] /\ replacedBy[v] = NoVersion
  BY DEF Listed, Latest, IInv, ChainShape
<1>2. Tree(Tables, v) = Members(v) /\ WithHistory({v}) = Members(v)
  BY <1>1, TreeIsHistory
<1>3. \A u \in Members(v) : u # v => ~deleted[u] /\ replacedBy[u] # NoVersion /\ ~latest[u]
  BY <1>1, OldVersions DEF Latest
<1>4. v \in Members(v)
  BY <1>1, ChainEndStep DEF Members
<1>5. Printed(Tables, v) = Members(v)
  BY <1>2, <1>3 DEF Printed
<1>6. {u \in Tree(Tables, v) : latest[u]} = {v}
  BY <1>1, <1>2, <1>3, <1>4
<1>7. ~HasErrors(Tables, v)
  BY <1>1, <1>6, FS_Singleton DEF HasErrors
<1>8. QED
  BY <1>2, <1>5, <1>7

\* The date by which a document is sorted, within the limit.
LEMMA DateOfOne ==
    ASSUME IInv, FilesOnLatest, IsFiniteSet(exists), NEW v \in Listed,
           Cardinality(Members(v)) <= ListLimit + 1
    PROVE  FirstCreated(v) = {Min({created[u] : u \in Members(v)})}
<1>1. PreviousVersions(v, ListLimit) = {Members(v) \ {v}}
  BY PageOfOne, LimitsAssumption
<1>2. {v} \cup (Members(v) \ {v}) = Members(v)
  BY OldVersions, ChainEndStep DEF Members, Listed, Latest
<1>3. PICK times : times = {created[u] : u \in Members(v)}
  OBVIOUS
<1>4. FirstCreated(v) = {Min({created[u] : u \in {v} \cup old}) : old \in {Members(v) \ {v}}}
  BY <1>1 DEF FirstCreated
<1>5. QED
  BY <1>2, <1>4

LEMMA ReadersInv == IInv /\ FilesOnLatest /\ IsFiniteSet(exists) => ReadersAgree
<1>1. SUFFICES ASSUME IInv, FilesOnLatest, IsFiniteSet(exists) PROVE ReadersAgree
  OBVIOUS
<1>2. Latest = Listed \cup TrashListed /\ FoundConsultations = Listed
  BY DEF Latest, Listed, TrashListed, FoundConsultations
<1>3. \A f \in Files : fileOf[f] # NoVersion =>
          fileOf[f] \in Latest /\ fileDeleted[f] = deleted[fileOf[f]]
  BY <1>1 DEF FilesOnLatest
<1>4. \A v \in Listed : v # NoVersion
  BY <1>1, NoVersionAssumption DEF Listed, IInv, TypeOK
<1>5. PrintedFiles = {<<fileOf[f], f>> : f \in FoundFiles}
  <2>1. ASSUME NEW p \in PrintedFiles PROVE \E f \in FoundFiles : p = <<fileOf[f], f>>
    <3>1. PICK v \in Listed, f \in Files : p = <<v, f>> /\ f \in Documents(v)
      BY <2>1 DEF PrintedFiles
    <3>2. fileOf[f] = v /\ ~fileDeleted[f]
      BY <3>1 DEF Documents
    <3>3. QED
      BY <1>4, <3>1, <3>2 DEF FoundFiles
  <2>2. ASSUME NEW f \in FoundFiles PROVE <<fileOf[f], f>> \in PrintedFiles
    <3>1. f \in Files /\ fileOf[f] # NoVersion /\ ~fileDeleted[f]
      BY <2>2 DEF FoundFiles
    <3>2. fileOf[f] \in Listed
      BY <1>3, <3>1 DEF Latest, Listed
    <3>3. f \in Documents(fileOf[f])
      BY <3>1 DEF Documents
    <3>4. QED
      BY <3>1, <3>2, <3>3 DEF PrintedFiles
  <2>3. QED
    BY <2>1, <2>2
<1>6. Roots(Tables) = Listed
  BY <1>1 DEF Roots, Tables, Listed, IInv, ChainShape
<1>7. ASSUME NEW v \in Listed
      PROVE  /\ Printed(Tables, v) = WithHistory({v}) /\ ~HasErrors(Tables, v)
             /\ \A shown \in PreviousVersions(v, PageLimit) :
                   /\ {v} \cup shown \subseteq Printed(Tables, v)
                   /\ Cardinality({v} \cup shown)
                         = Min({PageLimit + 1, Cardinality(Printed(Tables, v))})
             /\ Cardinality(Printed(Tables, v)) <= ListLimit + 1 =>
                   FirstCreated(v) = {Min({created[u] : u \in Printed(Tables, v)})}
  <2>1. Printed(Tables, v) = Members(v) /\ WithHistory({v}) = Members(v) /\ ~HasErrors(Tables, v)
    BY <1>1, ReadersOfOne
  <2>2. \A shown \in PreviousVersions(v, PageLimit) :
            /\ {v} \cup shown \subseteq Members(v)
            /\ Cardinality({v} \cup shown) = Min({PageLimit + 1, Cardinality(Members(v))})
    BY <1>1, PageOfOne, LimitsAssumption
  <2>3. Cardinality(Members(v)) <= ListLimit + 1 =>
            FirstCreated(v) = {Min({created[u] : u \in Members(v)})}
    BY <1>1, DateOfOne
  <2>4. QED
    BY <2>1, <2>2, <2>3
<1>8. QED
  BY <1>2, <1>5, <1>6, <1>7 DEF ReadersAgree

\* As long as requests do not overlap, list, trash, search and printed trees show
\* the same consultations with the same files, and the check of the trees finds
\* no error, however many versions there are; the page shows these versions up to
\* its limit, and the list sorts by the first of them up to its own.
THEOREM ReadersDoAgree == ASSUME OneWorker PROVE Spec => []ReadersAgree
<1>1. Ctx => ReadersAgree
  BY ReadersInv DEF Ctx, RInv, FInv
<1>2. QED
  BY <1>1, CtxInvariant, PTL
-----------------------------------------------------------------------------
(* The feed *)

\* The first version of a consultation is the one that was created first.
LEMMA FirstIsOldest ==
    ASSUME IInv, FilesOnLatest, NEW d \in Listed, NEW v \in Members(d)
    PROVE  IsFirst(v) <=> \A u \in Members(d) : created[v] <= created[u]
<1>1. d \in Latest /\ d \in Members(d)
  BY OldVersions DEF Listed, Latest
<1>2. \A u \in Members(d) : u \in exists /\ u \in Versions /\ created[u] \in Nat
  BY DEF Members, IInv, TypeOK
<1>3. PICK times \in SUBSET Nat : times = {created[u] : u \in Members(d)}
  BY <1>2
<1>4. PICK least \in times : \A n \in times : ~ (n < least)
  BY <1>1, <1>3, LeastNumber, Zenon
<1>5. \A n \in times : least <= n
  BY <1>4
<1>6. created[v] = least <=> \A u \in Members(d) : created[v] <= created[u]
  BY <1>2, <1>3, <1>4, <1>5
<1>7. \A u \in Members(d) : \A p \in Predecessors(u) : p \in Members(d) /\ created[p] < created[u]
  <2>1. SUFFICES ASSUME NEW u \in Members(d), NEW p \in Predecessors(u)
                 PROVE  p \in Members(d) /\ created[p] < created[u]
    OBVIOUS
  <2>2. p \in exists /\ replacedBy[p] = u /\ u # NoVersion
    BY <1>2, NoVersionAssumption DEF Predecessors
  <2>3. ~latest[p] /\ created[p] < created[u]
    BY <2>2 DEF IInv, ChainShape
  <2>4. ChainEnd[p] = ChainEnd[u]
    BY <2>2, <2>3, ChainEndStep DEF Latest
  <2>5. QED
    BY <2>2, <2>3, <2>4 DEF Members
<1>8. PICK o \in Members(d) : created[o] = least
  BY <1>3, <1>4
<1>9. IsFirst(o)
  <2>1. ASSUME NEW p \in Predecessors(o) PROVE FALSE
    BY <1>2, <1>3, <1>5, <1>7, <1>8, <2>1
  <2>2. QED
    BY <1>2, <2>1 DEF IsFirst
<1>10. ASSUME IsFirst(v) PROVE created[v] = least
  BY <1>1, <1>8, <1>9, <1>10, FirstIsOne DEF OneFirst
<1>11. ASSUME created[v] = least PROVE IsFirst(v)
  <2>1. ASSUME NEW p \in Predecessors(v) PROVE FALSE
    BY <1>2, <1>3, <1>5, <1>7, <1>11, <2>1
  <2>2. QED
    BY <1>2, <2>1 DEF IsFirst
<1>12. QED
  BY <1>6, <1>10, <1>11

\* The feed and the history of one consultation.
LEMMA FeedOfOne ==
    ASSUME IInv, FilesOnLatest, NEW d \in Listed, NEW v \in WithHistory({d})
    PROVE  /\ v \in Feed /\ Activity(v).link = d
           /\ Activity(v).type = "creation"
              <=> \A u \in WithHistory({d}) : created[v] <= created[u]
<1>1. d \in Latest /\ ~deleted[d] /\ v \in Members(d)
  BY TreeIsHistory DEF Listed, Latest
<1>2. v \in exists /\ ChainEnd[v] = d /\ ~deleted[v]
  BY <1>1, OldVersions DEF Members
<1>3. GetLatestVersion(v) = d
  BY <1>1, <1>2, Resolves DEF LiveChainResolves
<1>4. d # NoVersion
  BY NoVersionAssumption DEF Listed, IInv, TypeOK
<1>5. v \in Feed /\ Activity(v).link = d
  BY <1>2, <1>3, <1>4 DEF Feed, FeedRows, HasNoLink, Activity
<1>6. \A u \in exists : Precedes(u, v) <=> u \in Predecessors(v)
  <2>1. ASSUME NEW u \in Predecessors(v) PROVE ~deleted[u]
    <3>1. u \in exists /\ replacedBy[u] = v /\ v # NoVersion
      BY <1>2, NoVersionAssumption DEF Predecessors, IInv, TypeOK
    <3>2. QED
      BY <3>1 DEF IInv, ChainShape, FilesOnLatest
  <2>2. QED
    BY <2>1 DEF Precedes
<1>7. Activity(v).type = "creation" <=> IsFirst(v)
  BY <1>2, <1>6 DEF Activity, IsFirst, Predecessors
<1>8. WithHistory({d}) = Members(d)
  BY <1>1, TreeIsHistory
<1>9. QED
  BY <1>1, <1>5, <1>7, <1>8, FirstIsOldest

\* The versions without a link are the last ones before one in the trash.
LEMMA DeadLinks ==
    ASSUME IInv, FilesOnLatest, NEW v \in exists
    PROVE  /\ v \in FeedRows /\ HasNoLink(v) => replacedBy[v] \in TrashListed
           /\ replacedBy[v] \in TrashListed => v \in FeedRows /\ HasNoLink(v)
<1>1. LastVisible[v] # NoVersion
  <2> DEFINE S == {u \in exists : LastVisible[u] # NoVersion}
  <2>1. \A u \in exists : u # NoVersion
    BY NoVersionAssumption DEF IInv, TypeOK
  <2>2. \A u \in exists : VisibleSuccessor(u) \in {NoVersion, replacedBy[u]}
    BY DEF VisibleSuccessor
  <2>3. \A u \in exists \ Latest : replacedBy[u] \in S => u \in S
    BY <2>1, <2>2, LastVisibleStep
  <2>4. ASSUME NEW u \in Latest PROVE u \in S
    <3>1. u \in exists /\ replacedBy[u] = NoVersion
      BY DEF Latest, IInv, ChainShape
    <3>2. QED
      BY <2>1, <2>2, <3>1, LastVisibleStep
  <2> HIDE DEF S
  <2>5. exists \subseteq S
    BY <2>3, <2>4, ChainInduction
  <2>6. QED
    BY <2>5 DEF S
<1>2. v \in Versions /\ v # NoVersion
  BY NoVersionAssumption DEF IInv, TypeOK
<1>3. HasNoLink(v) <=> ~latest[v] /\ VisibleSuccessor(v) = NoVersion
  BY <1>1, <1>2 DEF HasNoLink, GetLatestVersion
<1>4. ~latest[v] => replacedBy[v] \in exists /\ replacedBy[v] # NoVersion
  BY NoVersionAssumption DEF IInv, ChainShape, TypeOK
<1>5. ~latest[v] => (VisibleSuccessor(v) = NoVersion <=> deleted[replacedBy[v]])
  BY <1>4 DEF VisibleSuccessor
<1>6. ASSUME HasNoLink(v) PROVE replacedBy[v] \in TrashListed
  BY <1>3, <1>4, <1>5, <1>6 DEF FilesOnLatest, TrashListed
<1>7. ASSUME replacedBy[v] \in TrashListed PROVE v \in FeedRows /\ HasNoLink(v)
  <2>1. replacedBy[v] # NoVersion
    BY <1>7, NoVersionAssumption DEF TrashListed, IInv, TypeOK
  <2>2. ~latest[v] /\ ~deleted[v]
    BY <2>1 DEF IInv, ChainShape, FilesOnLatest
  <2>3. deleted[replacedBy[v]]
    BY <1>7 DEF TrashListed
  <2>4. QED
    BY <1>3, <1>5, <2>2, <2>3 DEF FeedRows
<1>8. QED
  BY <1>6, <1>7

LEMMA FeedInv == IInv /\ FilesOnLatest => FeedTellsHistory
<1>1. SUFFICES ASSUME IInv, FilesOnLatest PROVE FeedTellsHistory
  OBVIOUS
<1>2. ASSUME NEW from \in 0 .. clock, NEW until \in 0 .. clock
      PROVE  FilterFails(from, until)
             <=> \E d \in TrashListed : \E u \in Predecessors(d) : created[u] \in from .. until
  <2>1. ASSUME FilterFails(from, until)
        PROVE  \E d \in TrashListed : \E u \in Predecessors(d) : created[u] \in from .. until
    <3>1. PICK v \in FeedRows : created[v] \in from .. until /\ HasNoLink(v)
      BY <2>1 DEF FilterFails, FilteredRows
    <3>2. v \in exists /\ replacedBy[v] \in TrashListed
      BY <1>1, <3>1, DeadLinks DEF FeedRows
    <3>3. v \in Predecessors(replacedBy[v])
      BY <3>2 DEF Predecessors
    <3>4. QED
      BY <3>1, <3>2, <3>3
  <2>2. ASSUME NEW d \in TrashListed, NEW u \in Predecessors(d), created[u] \in from .. until
        PROVE  FilterFails(from, until)
    <3>1. u \in exists /\ replacedBy[u] = d
      BY DEF Predecessors
    <3>2. u \in FeedRows /\ HasNoLink(u)
      BY <1>1, <3>1, DeadLinks
    <3>3. QED
      BY <2>2, <3>2 DEF FilterFails, FilteredRows
  <2>3. QED
    BY <2>1, <2>2
<1>3. \A d \in Listed : \A v \in WithHistory({d}) :
          /\ v \in Feed /\ Activity(v).link = d
          /\ Activity(v).type = "creation"
             <=> \A u \in WithHistory({d}) : created[v] <= created[u]
  BY <1>1, FeedOfOne
<1>4. QED
  BY <1>2, <1>3 DEF FeedTellsHistory

\* As long as requests do not overlap, the feed shows every version of every
\* consultation that is not in the trash, the oldest as its creation, all linked
\* to its page; and it fails, when filtered by dates, exactly for those that hold
\* the last version before one in the trash.
THEOREM FeedIsHistory == ASSUME OneWorker PROVE Spec => []FeedTellsHistory
<1>1. FInv => FeedTellsHistory
  BY FeedInv DEF FInv
<1>2. QED
  BY <1>1, FilesInvariant, PTL
-----------------------------------------------------------------------------
(* The deletion by keyword *)

\* The tables without the rows of S, whatever the order in which they went: no row
\* is linked to one of them.
Cut(S) ==
    [rows |-> exists \ S,
     next |-> [u \in Versions |-> IF replacedBy[u] \in S THEN NoVersion ELSE replacedBy[u]]]

LEMMA CutLinks ==
    ASSUME IInv, NEW S \in SUBSET exists
    PROVE  /\ Cut(S).next \in [Versions -> Versions \cup {NoVersion}]
           /\ \A u \in exists : Cut(S).next[u] \in {NoVersion, replacedBy[u]}
<1>1. replacedBy \in [Versions -> Versions \cup {NoVersion}] /\ exists \subseteq Versions
  BY DEF IInv, TypeOK
<1>2. QED
  BY <1>1 DEF Cut

\* What is true of a row if it is true of the one that it is linked to is true of
\* every row, also where rows have been unlinked.
LEMMA CutInduction ==
    ASSUME IInv, NEW S \in SUBSET exists, NEW T,
           \A u \in exists : (Cut(S).next[u] # NoVersion => Cut(S).next[u] \in T) => u \in T
    PROVE  exists \subseteq T
<1>1. PICK R \in SUBSET exists : R = exists \cap T
  OBVIOUS
<1>2. \A u \in exists : replacedBy[u] # NoVersion => replacedBy[u] \in exists
  BY DEF IInv, ChainShape
<1>3. Latest \subseteq R
  BY <1>1, CutLinks DEF Latest, IInv, ChainShape
<1>4. \A u \in exists \ Latest : replacedBy[u] \in R => u \in R
  BY <1>1, CutLinks
<1>5. exists \subseteq R
  BY <1>3, <1>4, ChainInduction
<1>6. QED
  BY <1>1, <1>5

\* Where nothing is linked to a row, no other row leads to it: the foreign key's
\* cascade takes that row only.
LEMMA CutRow ==
    ASSUME IInv, NEW S \in SUBSET exists, NEW x \in exists \ S
    PROVE  DeletedRow(Cut(S), x) = Cut(S \cup {x})
<1>1. PICK A \in SUBSET exists : A = S \cup {x}
  OBVIOUS
<1>2. x # NoVersion
  BY NoVersionAssumption DEF IInv, TypeOK
<1>3. PICK free : free = [rows |-> exists \ S, next |-> Cut(A).next]
  OBVIOUS
<1>4. Unlinked(Cut(S), x) = free
  <2>1. PICK g : g = [u \in Versions |-> IF Cut(S).next[u] = x THEN NoVersion
                                         ELSE Cut(S).next[u]]
    OBVIOUS
  <2>2. Unlinked(Cut(S), x) = [rows |-> exists \ S, next |-> g]
    <3>1. PICK h : h = Cut(S).next
      OBVIOUS
    <3>2. Cut(S) = [rows |-> exists \ S, next |-> h]
      BY <3>1 DEF Cut
    <3>3. Unlinked(Cut(S), x) = [Cut(S) EXCEPT !.next = g]
      BY <2>1, <3>1, <3>2 DEF Unlinked
    <3>4. QED
      BY <3>2, <3>3
  <2>3. \A u \in Versions : g[u] = IF replacedBy[u] \in A THEN NoVersion ELSE replacedBy[u]
    BY <1>1, <1>2, <2>1 DEF Cut
  <2>4. g = Cut(A).next
    BY <2>1, <2>3 DEF Cut
  <2>5. QED
    BY <1>3, <2>2, <2>4
<1>5. \A u \in exists : u # x => x \notin Chain(free, u)
  <2>1. PICK T : T = {u \in exists : u # x => x \notin Chain(free, u)}
    OBVIOUS
  <2>2. ASSUME NEW u \in exists, Cut(A).next[u] # NoVersion => Cut(A).next[u] \in T
        PROVE  u \in T
    <3>1. u \in Versions /\ Cut(A).next[u] # x
      BY <1>1, <1>2 DEF Cut, IInv, TypeOK
    <3>2. Chain(free, u) = IF free.next[u] = NoVersion THEN {u}
                           ELSE {u} \cup Chain(free, free.next[u])
      BY <1>3, <3>1, CutLinks, ChainRecursion
    <3>3. QED
      BY <1>3, <2>1, <2>2, <3>1, <3>2
  <2>3. exists \subseteq T
    BY <2>2, CutInduction
  <2>4. QED
    BY <2>1, <2>3
<1>6. x \in Chain(free, x)
  <2>1. x \in Versions
    BY DEF IInv, TypeOK
  <2>2. Chain(free, x) = IF free.next[x] = NoVersion THEN {x}
                         ELSE {x} \cup Chain(free, free.next[x])
    BY <1>3, <2>1, CutLinks, ChainRecursion
  <2>3. QED
    BY <2>2
<1>7. Tree(free, x) = {x}
  BY <1>3, <1>5, <1>6 DEF Tree
<1>8. DeletedRow(Cut(S), x) = [rows |-> (exists \ S) \ {x}, next |-> Cut(A).next]
  BY <1>3, <1>4, <1>7 DEF DeletedRow
<1>9. QED
  BY <1>1, <1>8 DEF Cut

\* What the command deletes, one row after the other, is what it has found.
LEMMA KeywordCuts ==
    ASSUME IInv, NEW S \in SUBSET exists, IsFiniteSet(S)
    PROVE  KeywordDeleted(Tables, S) = Cut(S)
<1> DEFINE Row(s) == CHOOSE x \in s : TRUE
           Fold(f, s) == IF s = {} THEN Tables ELSE DeletedRow(f[s \ {Row(s)}], Row(s))
           iter == CHOOSE f : f = [s \in SUBSET S |-> Fold(f, s)]
<1>1. KeywordDeleted(Tables, S) = iter[S]
  BY DEF KeywordDeleted, FoldSet, MapThenFoldSet
<1>2. Tables = Cut({})
  BY DEF Tables, Cut, IInv, TypeOK
<1>3. \A s \in SUBSET S : s # {} =>
          /\ Row(s) \in s /\ s \ {Row(s)} \in SUBSET S
          /\ DeletedRow(Cut(s \ {Row(s)}), Row(s)) = Cut(s)
  <2>1. ASSUME NEW s \in SUBSET S, NEW x \in s PROVE DeletedRow(Cut(s \ {x}), x) = Cut(s)
    <3>1. PICK r \in SUBSET exists : r = s \ {x}
      OBVIOUS
    <3>2. x \in exists \ r /\ r \cup {x} = s
      BY <3>1
    <3>3. QED
      BY <3>1, <3>2, CutRow
  <2>2. QED
    BY <2>1
<1> HIDE DEF Row
<1>4. PICK f : f = [s \in SUBSET S |-> Cut(s)]
  OBVIOUS
<1>5. f = [s \in SUBSET S |-> Fold(f, s)]
  <2>1. \A s \in SUBSET S : f[s] = Fold(f, s)
    BY <1>2, <1>3, <1>4
  <2>2. QED
    BY <1>4, <2>1
<1> HIDE DEF Fold
<1>6. iter = [s \in SUBSET S |-> Fold(iter, s)]
  BY <1>5
<1> HIDE DEF iter
<1>7. ASSUME iter[S] # Cut(S) PROVE FALSE
  <2>1. \A s \in SUBSET S : IsFiniteSet(s)
    BY FS_Subset
  <2>2. PICK sizes \in SUBSET Nat :
            sizes = {Cardinality(s) : s \in {s \in SUBSET S : iter[s] # Cut(s)}}
    BY <2>1, FS_CardinalityType
  <2>3. PICK n \in sizes : \A m \in sizes : ~ (m < n)
    BY <1>7, <2>2, LeastNumber
  <2>4. PICK s \in SUBSET S : iter[s] # Cut(s) /\ Cardinality(s) = n
    BY <2>2, <2>3
  <2>5. s # {}
    BY <1>2, <1>6, <2>4 DEF Fold
  <2>6. PICK r \in SUBSET S : r = s \ {Row(s)}
    OBVIOUS
  <2>7. Cardinality(r) = Cardinality(s) - 1 /\ Cardinality(s) \in Nat
    BY <1>3, <2>1, <2>5, <2>6, FS_RemoveElement, FS_CardinalityType
  <2>8. iter[r] = Cut(r)
    BY <2>2, <2>3, <2>4, <2>7
  <2>9. QED
    BY <1>3, <1>6, <2>4, <2>5, <2>6, <2>8 DEF Fold
<1>8. QED
  BY <1>1, <1>7

LEMMA DeadEndsInv == IInv /\ FilesOnLatest /\ IsFiniteSet(exists) => CheckFindsDeadEnds
<1>1. SUFFICES ASSUME IInv, FilesOnLatest, IsFiniteSet(exists), NEW matching \in SUBSET FeedRows
               PROVE  LET t == KeywordDeleted(Tables, matching)
                      IN  /\ t.rows = exists \ matching
                          /\ \A v \in t.rows : (\A u \in Chain(t, v) : ~latest[u]) =>
                                \E root \in Roots(t) : v \in Tree(t, root) /\ HasErrors(t, root)
  BY DEF CheckFindsDeadEnds
<1>2. matching \in SUBSET exists /\ IsFiniteSet(matching)
  BY <1>1, FS_Subset DEF FeedRows
<1>3. PICK t : t = Cut(matching) /\ t = KeywordDeleted(Tables, matching)
  BY <1>1, <1>2, KeywordCuts
<1>4. t.rows = exists \ matching
  BY <1>3 DEF Cut
<1>5. \A v \in exists : v \in Chain(t, v) /\
          (t.next[v] # NoVersion => Chain(t, v) = {v} \cup Chain(t, t.next[v]))
  <2>1. exists \subseteq Versions
    BY <1>1 DEF IInv, TypeOK
  <2>2. t.next \in [Versions -> Versions \cup {NoVersion}]
    BY <1>1, <1>2, <1>3, CutLinks
  <2>3. QED
    BY <2>1, <2>2, ChainRecursion
<1>6. ASSUME NEW v \in t.rows
      PROVE  \E root \in t.rows : t.next[root] = NoVersion /\ root \in Chain(t, v)
  <2>1. PICK T : T = {u \in exists : u \in t.rows =>
                         \E root \in t.rows : t.next[root] = NoVersion /\ root \in Chain(t, u)}
    OBVIOUS
  <2>2. ASSUME NEW u \in exists, t.next[u] # NoVersion => t.next[u] \in T
        PROVE  u \in T
    <3>1. CASE t.next[u] = NoVersion
      BY <1>5, <2>1, <3>1
    <3>2. CASE t.next[u] # NoVersion
      <4>1. t.next[u] = replacedBy[u] /\ t.next[u] \notin matching
        BY <1>1, <1>2, <1>3, <3>2 DEF Cut, IInv, TypeOK
      <4>2. t.next[u] \in t.rows
        BY <1>4, <2>1, <2>2, <3>2, <4>1
      <4>3. QED
        BY <1>5, <2>1, <2>2, <3>2, <4>2
    <3>3. QED
      BY <3>1, <3>2
  <2>3. exists \subseteq T
    BY <1>1, <1>2, <1>3, <2>2, CutInduction
  <2>4. QED
    BY <1>4, <2>1, <2>3
<1>7. ASSUME NEW v \in t.rows, \A u \in Chain(t, v) : ~latest[u]
      PROVE  \E root \in Roots(t) : v \in Tree(t, root) /\ HasErrors(t, root)
  <2>1. PICK root \in t.rows : t.next[root] = NoVersion /\ root \in Chain(t, v)
    BY <1>6
  <2>2. ~latest[root] /\ ~deleted[root]
    BY <1>1, <1>4, <1>7, <2>1 DEF FilesOnLatest
  <2>3. QED
    BY <2>1, <2>2 DEF Roots, Tree, HasErrors
<1>8. QED
  BY <1>3, <1>4, <1>7

\* As long as requests do not overlap, a deletion by keyword takes what it found and
\* no other row, however many there are, and the check of the trees reports each
\* version that it leaves without a latest one.
THEOREM DeadEndsAreFound == ASSUME OneWorker PROVE Spec => []CheckFindsDeadEnds
<1>1. Ctx => CheckFindsDeadEnds
  BY DeadEndsInv DEF Ctx, RInv, FInv
<1>2. QED
  BY <1>1, CtxInvariant, PTL
=============================================================================
