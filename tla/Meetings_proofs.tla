-------------------------------- MODULE Meetings_proofs --------------------------------
(* What is proved about meetings, their attendance and their groups.             *)
EXTENDS Meetings, FiniteSetTheorems, SequenceTheorems, WellFoundedInduction, TLAPS

-----------------------------------------------------------------------------
(* Lists of files *)

\* A set of natural numbers with a member has a least one.
LEMMA LeastNumber ==
    ASSUME NEW T, T \subseteq Nat, T # {}
    PROVE  \E n \in T : \A k \in T : ~(k < n)
<1>1. PICK n \in T : \A k \in T : <<k, n>> \notin OpToRel(<, Nat)
  BY NatLessThanWellFounded, WFMin
<1>2. ASSUME NEW k \in T, k < n
      PROVE  FALSE
  BY <1>1, <1>2 DEF OpToRel
<1> QED
  BY <1>1, <1>2

\* The pieces of a list, put together one after the other: the function by which
\* FlattenSeq does so exists.
Pieces(seqs, n, g) == g = [i \in 1 .. n |-> IF i = 1 THEN seqs[i] ELSE g[i - 1] \o seqs[i]]

LEMMA PiecesExist ==
    ASSUME NEW seqs, NEW n \in Nat
    PROVE  \E g : Pieces(seqs, n, g)
<1> DEFINE T == {k \in Nat : ~\E g : Pieces(seqs, k, g)}
<1> SUFFICES ASSUME T # {} PROVE FALSE
  OBVIOUS
<1>1. PICK k \in T : \A j \in T : ~(j < k)
  <2> HIDE DEF T
  <2>1. T \subseteq Nat
    BY DEF T
  <2> QED BY <2>1, LeastNumber
<1>2. k # 0
  <2>1. Pieces(seqs, 0, [i \in 1 .. 0 |-> <<>>])
    BY DEF Pieces
  <2> QED BY <1>1, <2>1
<1>3. PICK g : Pieces(seqs, k - 1, g)
  BY <1>1, <1>2
<1> DEFINE h == [i \in 1 .. k |-> IF i = k THEN (IF k = 1 THEN seqs[k] ELSE g[k - 1] \o seqs[k])
                                 ELSE g[i]]
<1>4. ASSUME NEW i \in 1 .. k
      PROVE  h[i] = IF i = 1 THEN seqs[i] ELSE h[i - 1] \o seqs[i]
  <2>1. CASE i = k
    BY <1>1, <1>2, <2>1
  <2>2. CASE i # k
    <3>1. i \in 1 .. k - 1 /\ h[i] = g[i] /\ (i # 1 => h[i - 1] = g[i - 1])
      BY <2>2
    <3>2. g[i] = IF i = 1 THEN seqs[i] ELSE g[i - 1] \o seqs[i]
      BY <1>3, <3>1 DEF Pieces
    <3> QED BY <3>1, <3>2
  <2> QED BY <2>1, <2>2
<1>5. Pieces(seqs, k, h)
  BY <1>4 DEF Pieces
<1> QED
  BY <1>1, <1>5

\* No file is listed twice.
NoneTwice(files) == \A i, j \in 1 .. Len(files) : files[i] = files[j] => i = j

\* s is what the first k pieces make together.
Joined(S, seqs, k, s) ==
    /\ s \in Seq(S)
    /\ Range(s) = {x \in S : \E i \in 1 .. k : x \in Range(seqs[i])}
    /\ (/\ \A i \in 1 .. k : NoneTwice(seqs[i])
        /\ \A i, j \in 1 .. k : i # j => Range(seqs[i]) \cap Range(seqs[j]) = {})
       => NoneTwice(s)

LEMMA NoneTwiceTogether ==
    ASSUME NEW S, NEW s \in Seq(S), NEW t \in Seq(S), NoneTwice(s), NoneTwice(t),
           Range(s) \cap Range(t) = {}
    PROVE  NoneTwice(s \o t)
<1>1. /\ Len(s) \in Nat /\ Len(t) \in Nat /\ Len(s \o t) = Len(s) + Len(t)
      /\ \A i \in 1 .. Len(s) + Len(t) :
            (s \o t)[i] = IF i <= Len(s) THEN s[i] ELSE t[i - Len(s)]
  BY ConcatProperties
<1> SUFFICES ASSUME NEW i \in 1 .. Len(s \o t), NEW j \in 1 .. Len(s \o t),
                    (s \o t)[i] = (s \o t)[j]
             PROVE  i = j
  BY DEF NoneTwice
<1>2. /\ \A k \in 1 .. Len(s) : s[k] \in Range(s)
      /\ \A k \in 1 .. Len(t) : t[k] \in Range(t)
  BY RangeOfSeq DEF Range
<1>3. CASE i <= Len(s) /\ j <= Len(s)
  BY <1>1, <1>3 DEF NoneTwice
<1>4. CASE i > Len(s) /\ j > Len(s)
  BY <1>1, <1>4 DEF NoneTwice
<1>5. CASE i <= Len(s) /\ j > Len(s)
  <2>1. s[i] \in Range(s) /\ t[j - Len(s)] \in Range(t) /\ s[i] = t[j - Len(s)]
    BY <1>1, <1>2, <1>5
  <2> QED BY <2>1
<1>6. CASE i > Len(s) /\ j <= Len(s)
  <2>1. s[j] \in Range(s) /\ t[i - Len(s)] \in Range(t) /\ s[j] = t[i - Len(s)]
    BY <1>1, <1>2, <1>6
  <2> QED BY <2>1
<1> QED
  BY <1>1, <1>3, <1>4, <1>5, <1>6

LEMMA JoinedFirst ==
    ASSUME NEW S, NEW seqs \in Seq(Seq(S)), Len(seqs) # 0
    PROVE  Joined(S, seqs, 1, seqs[1])
<1>1. seqs[1] \in Seq(S)
  OBVIOUS
<1>2. Range(seqs[1]) \subseteq S
  BY <1>1, RangeOfSeq
<1> QED
  BY <1>1, <1>2 DEF Joined

LEMMA JoinedNext ==
    ASSUME NEW S, NEW seqs \in Seq(Seq(S)), NEW k \in 1 .. Len(seqs), k # 1, NEW s,
           Joined(S, seqs, k - 1, s)
    PROVE  Joined(S, seqs, k, s \o seqs[k])
<1>1. seqs[k] \in Seq(S) /\ s \in Seq(S)
  BY DEF Joined
<1>2. s \o seqs[k] \in Seq(S)
  BY <1>1, ConcatProperties
<1>3. Range(s \o seqs[k]) = Range(s) \cup Range(seqs[k]) /\ Range(seqs[k]) \subseteq S
  BY <1>1, RangeConcatenation, RangeOfSeq
<1>4. Range(s) = {x \in S : \E i \in 1 .. k - 1 : x \in Range(seqs[i])}
  BY DEF Joined
<1>5. Range(s \o seqs[k]) = {x \in S : \E i \in 1 .. k : x \in Range(seqs[i])}
  <2>1. \A i \in 1 .. k : i = k \/ i \in 1 .. k - 1
    OBVIOUS
  <2>2. k \in 1 .. k /\ \A i \in 1 .. k - 1 : i \in 1 .. k
    OBVIOUS
  <2> QED BY <1>3, <1>4, <2>1, <2>2
<1>6. ASSUME \A i \in 1 .. k : NoneTwice(seqs[i]),
             \A i, j \in 1 .. k : i # j => Range(seqs[i]) \cap Range(seqs[j]) = {}
      PROVE  NoneTwice(s \o seqs[k])
  <2>1. \A i \in 1 .. k - 1 : i \in 1 .. k /\ i # k
    OBVIOUS
  <2>2. k \in 1 .. k
    OBVIOUS
  <2>3. Range(s) \cap Range(seqs[k]) = {}
    BY <1>4, <1>6, <2>1, <2>2
  <2>4. NoneTwice(s)
    BY <1>6, <2>1 DEF Joined
  <2> QED BY <1>1, <1>6, <2>2, <2>3, <2>4, NoneTwiceTogether
<1> QED
  BY <1>2, <1>5, <1>6 DEF Joined

\* What FlattenSeq makes of the pieces: a list of what they list, with no file twice
\* if no piece lists one twice and no two list the same.
LEMMA FlattenJoins ==
    ASSUME NEW S, NEW seqs \in Seq(Seq(S))
    PROVE  Joined(S, seqs, Len(seqs), FlattenSeq(seqs))
<1> DEFINE f == CHOOSE g : Pieces(seqs, Len(seqs), g)
           T == {k \in 1 .. Len(seqs) : ~Joined(S, seqs, k, f[k])}
<1>1. Pieces(seqs, Len(seqs), f)
  <2>1. Len(seqs) \in Nat
    OBVIOUS
  <2>2. \E g : Pieces(seqs, Len(seqs), g)
    <3> HIDE DEF f, T
    <3> QED BY <2>1, PiecesExist
  <2> QED BY <2>2
<1>2. T = {}
  <2> SUFFICES ASSUME T # {} PROVE FALSE
    OBVIOUS
  <2>1. PICK k \in T : \A j \in T : ~(j < k)
    <3> HIDE DEF f
    <3>1. T \subseteq Nat
      OBVIOUS
    <3> HIDE DEF T
    <3> QED BY <3>1, LeastNumber
  <2> HIDE DEF f
  <2>2. f[k] = IF k = 1 THEN seqs[k] ELSE f[k - 1] \o seqs[k]
    BY <1>1 DEF Pieces
  <2>3. k \in 1 .. Len(seqs) /\ ~Joined(S, seqs, k, f[k])
    OBVIOUS
  <2>4. CASE k = 1
    BY <2>2, <2>3, <2>4, JoinedFirst
  <2>5. CASE k # 1
    <3>1. k - 1 \in 1 .. Len(seqs) /\ k - 1 < k
      BY <2>3, <2>5
    <3>2. Joined(S, seqs, k - 1, f[k - 1])
      BY <2>1, <3>1
    <3>3. f[k] = f[k - 1] \o seqs[k]
      BY <2>2, <2>5
    <3>4. Joined(S, seqs, k, f[k - 1] \o seqs[k])
      <4> HIDE DEF T
      <4> QED BY <2>3, <2>5, <3>2, JoinedNext
    <3> QED BY <2>3, <3>3, <3>4
  <2> QED BY <2>4, <2>5
<1>3. CASE Len(seqs) = 0
  <2>1. FlattenSeq(seqs) = <<>>
    BY <1>3 DEF FlattenSeq
  <2>2. Range(<<>>) = {} /\ NoneTwice(<<>>)
    BY DEF Range, NoneTwice
  <2> QED BY <1>3, <2>1, <2>2 DEF Joined
<1>4. CASE Len(seqs) # 0
  <2>1. Joined(S, seqs, Len(seqs), f[Len(seqs)])
    <3> HIDE DEF f
    <3> QED BY SMTT(20), <1>2, <1>4
  <2>2. FlattenSeq(seqs) = f[Len(seqs)]
    BY <1>4 DEF FlattenSeq, Pieces
  <2> QED BY <2>1, <2>2
<1> QED
  BY <1>3, <1>4

-----------------------------------------------------------------------------
(* The files of an edit *)

\* What an entry of the form leaves of the files, or adds.
Outcome(e, files) ==
    [i \in 1 .. Len(e) |->
        IF e[i] = "keep" THEN IF i <= Len(files) THEN <<files[i]>> ELSE <<>>
        ELSE IF e[i] = "delete" THEN <<>>
        ELSE <<e[i]>>]

LEMMA Singleton ==
    ASSUME NEW x
    PROVE  Range(<<x>>) = {x} /\ NoneTwice(<<x>>) /\ Range(<<>>) = {} /\ NoneTwice(<<>>)
BY DEF Range, NoneTwice

LEMMA OutcomeType ==
    ASSUME NEW fresh \in SUBSET Files, NEW e \in Seq({"keep", "delete"} \cup fresh),
           NEW files \in Seq(Files)
    PROVE  /\ Outcome(e, files) \in Seq(Seq(Files)) /\ Len(Outcome(e, files)) = Len(e)
           /\ Populated(e, files) = FlattenSeq(Outcome(e, files))
<1>1. ASSUME NEW i \in 1 .. Len(e)
      PROVE  Outcome(e, files)[i] \in Seq(Files)
  <2>1. e[i] \in {"keep", "delete"} \cup fresh
    OBVIOUS
  <2>2. i <= Len(files) => files[i] \in Files
    OBVIOUS
  <2>3. <<>> \in Seq(Files) /\ \A f \in Files : <<f>> \in Seq(Files)
    OBVIOUS
  <2> QED BY <2>1, <2>2, <2>3 DEF Outcome
<1>2. Outcome(e, files) \in [1 .. Len(e) -> Seq(Files)] /\ Len(e) \in Nat
  BY <1>1 DEF Outcome
<1>3. Outcome(e, files) \in Seq(Seq(Files)) /\ Len(Outcome(e, files)) = Len(e)
  <2> HIDE DEF Outcome
  <2> QED BY <1>2, IsASeq
<1> QED
  BY <1>3 DEF Outcome, Populated

\* What a file needs to be in the outcome of an entry.
LEMMA OutcomeFiles ==
    ASSUME NEW fresh \in SUBSET Files, NEW e \in Seq({"keep", "delete"} \cup fresh),
           NEW files \in Seq(Files), NEW i \in 1 .. Len(e)
    PROVE  /\ NoneTwice(Outcome(e, files)[i])
           /\ \A f : f \in Range(Outcome(e, files)[i])
                     <=> \/ e[i] = "keep" /\ i <= Len(files) /\ f = files[i]
                         \/ e[i] \notin {"keep", "delete"} /\ f = e[i]
<1>1. Outcome(e, files)[i] =
        IF e[i] = "keep" THEN IF i <= Len(files) THEN <<files[i]>> ELSE <<>>
        ELSE IF e[i] = "delete" THEN <<>>
        ELSE <<e[i]>>
  BY DEF Outcome
<1>2. Range(<<>>) = {} /\ NoneTwice(<<>>)
  BY Singleton
<1>3. CASE e[i] = "keep" /\ i <= Len(files)
  BY <1>1, <1>3, Singleton
<1>4. CASE e[i] = "keep" /\ ~(i <= Len(files))
  BY <1>1, <1>2, <1>4
<1>5. CASE e[i] = "delete"
  BY <1>1, <1>2, <1>5
<1>6. CASE e[i] \notin {"keep", "delete"}
  BY <1>1, <1>6, Singleton
<1> QED
  BY <1>3, <1>4, <1>5, <1>6

LEMMA PopulatedType ==
    ASSUME NEW fresh \in SUBSET Files, NEW e \in Seq({"keep", "delete"} \cup fresh),
           NEW files \in Seq(Files)
    PROVE  Populated(e, files) \in Seq(Files)
<1>1. Outcome(e, files) \in Seq(Seq(Files))
      /\ Populated(e, files) = FlattenSeq(Outcome(e, files))
  BY OutcomeType
<1>2. Joined(Files, Outcome(e, files), Len(Outcome(e, files)), FlattenSeq(Outcome(e, files)))
  BY <1>1, FlattenJoins
<1> QED
  BY <1>1, <1>2 DEF Joined

\* The entries e of a form that showed n files, for a meeting with files, of which
\* none is fresh.
IsEdit(files, fresh, e, shown, n) ==
    /\ files \in Seq(Files) /\ NoneTwice(files)
    /\ fresh \in SUBSET Files /\ fresh \cap Range(files) = {}
    /\ e \in Seq({"keep", "delete"} \cup fresh)
    /\ n \in Nat /\ Len(shown) = n /\ n <= Len(e) /\ \A i \in 1 .. n : e[i] = shown[i]
    /\ \A i, j \in 1 .. Len(e) : e[i] \in fresh /\ e[i] = e[j] => i = j

\* An edit leaves no file that it removes, and adds what the form uploads.  From a
\* page that shows all files, it keeps every other.
LEMMA PopulatedFiles ==
    ASSUME NEW files, NEW fresh, NEW e, NEW shown, NEW n, IsEdit(files, fresh, e, shown, n)
    PROVE  LET left == (Range(files) \ RemovedFiles(shown, files)) \cup AddedFiles(e)
           IN  /\ NoneTwice(Populated(e, files))
               /\ Range(Populated(e, files)) \subseteq left
               /\ Len(files) <= n => Range(Populated(e, files)) = left
<1> DEFINE o == Outcome(e, files)
           left == (Range(files) \ RemovedFiles(shown, files)) \cup AddedFiles(e)
<1> USE DEF IsEdit
<1>1. /\ Len(files) \in Nat /\ Len(e) \in Nat /\ DOMAIN e = 1 .. Len(e)
      /\ \A i \in 1 .. Len(e) : e[i] \in {"keep", "delete"} \cup fresh
  OBVIOUS
<1>2. /\ \A i \in 1 .. Len(files) : files[i] \in Range(files)
      /\ \A f \in Range(files) : \E i \in 1 .. Len(files) : f = files[i]
  BY DEF Range
<1>3. \A i \in 1 .. Len(e) :
         /\ NoneTwice(o[i])
         /\ \A f : f \in Range(o[i]) <=> \/ e[i] = "keep" /\ i <= Len(files) /\ f = files[i]
                                         \/ e[i] \notin {"keep", "delete"} /\ f = e[i]
  BY ZenonT(30), OutcomeFiles
<1>4. o \in Seq(Seq(Files)) /\ Len(o) = Len(e) /\ Populated(e, files) = FlattenSeq(o)
  BY OutcomeType
<1> HIDE DEF o
<1>5. Joined(Files, o, Len(e), Populated(e, files))
  BY <1>4, FlattenJoins
<1>6. ASSUME NEW i \in 1 .. Len(e), NEW f, f \in Range(o[i]), e[i] = "keep"
       PROVE  i \in 1 .. Len(files) /\ f = files[i] /\ f \in Range(files)
  <2>1. i <= Len(files) /\ f = files[i]
    BY <1>3, <1>6
  <2> QED BY <1>1, <1>2, <2>1
<1>7. ASSUME NEW i \in 1 .. Len(e), NEW f, f \in Range(o[i]), e[i] # "keep"
       PROVE  f = e[i] /\ f \in fresh
  <2>1. e[i] \notin {"keep", "delete"} /\ f = e[i]
    BY <1>3, <1>7
  <2> QED BY <1>1, <2>1
<1>8. ASSUME NEW i \in 1 .. Len(e), NEW j \in 1 .. Len(e), i # j,
             NEW f, f \in Range(o[i]), f \in Range(o[j])
      PROVE  FALSE
  <2>1. CASE e[i] = "keep" /\ e[j] = "keep"
    <3>1. i \in 1 .. Len(files) /\ j \in 1 .. Len(files) /\ files[i] = files[j]
      BY <1>6, <1>8, <2>1
    <3> QED BY <1>8, <3>1 DEF NoneTwice
  <2>2. CASE e[i] = "keep" /\ e[j] # "keep"
    BY <1>6, <1>7, <1>8, <2>2
  <2>3. CASE e[i] # "keep" /\ e[j] = "keep"
    BY <1>6, <1>7, <1>8, <2>3
  <2>4. CASE e[i] # "keep" /\ e[j] # "keep"
    <3>1. e[i] = e[j] /\ e[i] \in fresh
      BY <1>7, <1>8, <2>4
    <3> QED BY <1>8, <3>1
  <2> QED BY <2>1, <2>2, <2>3, <2>4
<1>9. NoneTwice(Populated(e, files))
  BY <1>3, <1>5, <1>8 DEF Joined
<1>10. Range(Populated(e, files)) = {f \in Files : \E i \in 1 .. Len(e) : f \in Range(o[i])}
  BY <1>5 DEF Joined
<1>11. AddedFiles(e) = {e[i] : i \in 1 .. Len(e)} \ {"keep", "delete"}
  BY <1>1 DEF AddedFiles, Range
<1>12. \A f \in Range(files) :
          f \in RemovedFiles(shown, files) <=>
             \E i \in 1 .. Len(files) : f = files[i] /\ i <= n /\ shown[i] # "keep"
  BY <1>1 DEF RemovedFiles
<1>13. ASSUME NEW f \in Files, NEW i \in 1 .. Len(e), f \in Range(o[i])
       PROVE  f \in left
  <2>1. CASE e[i] = "keep"
    <3>1. i \in 1 .. Len(files) /\ f = files[i]
      BY <1>6, <1>13, <2>1
    <3>2. \A j \in 1 .. Len(files) : f = files[j] => j = i
      BY <3>1 DEF NoneTwice
    <3>3. f \notin RemovedFiles(shown, files)
      BY <1>1, <1>2, <1>12, <2>1, <3>1, <3>2
    <3> QED BY <1>2, <3>1, <3>3
  <2>2. CASE e[i] # "keep"
    BY <1>3, <1>11, <1>13, <2>2
  <2> QED BY <2>1, <2>2
<1>14. ASSUME Len(files) <= n, NEW f \in Range(files), f \notin RemovedFiles(shown, files)
       PROVE  \E i \in 1 .. Len(e) : f \in Range(o[i])
  <2>1. PICK i \in 1 .. Len(files) : f = files[i]
    BY <1>2
  <2>2. i \in 1 .. n /\ i \in 1 .. Len(e) /\ i <= Len(files)
    BY <1>1, <1>14
  <2>3. e[i] = "keep"
    BY <1>1, <1>12, <1>14, <2>1, <2>2
  <2> QED BY <1>3, <2>1, <2>2, <2>3
<1>15. ASSUME NEW f \in AddedFiles(e)
       PROVE  f \in Files /\ \E i \in 1 .. Len(e) : f \in Range(o[i])
  BY <1>1, <1>3, <1>11
<1>16. Range(files) \subseteq Files
  BY RangeOfSeq
<1>17. Len(files) <= n => left \subseteq Range(Populated(e, files))
  BY <1>10, <1>14, <1>15, <1>16
<1>18. Range(Populated(e, files)) \subseteq left
  BY <1>10, <1>13
<1> QED
  BY <1>9, <1>17, <1>18

-----------------------------------------------------------------------------
(* How often a name is in a list *)

LEMMA FiniteRange ==
    ASSUME NEW S, NEW s \in Seq(S)
    PROVE  IsFiniteSet(Range(s))
<1>1. s \in Surjection(1 .. Len(s), Range(s))
  BY DEF Surjection, Range
<1>2. Len(s) \in Nat /\ IsFiniteSet(1 .. Len(s))
  BY FS_Interval
<1> QED
  BY <1>1, <1>2, FS_Surjection

\* The files of a set with a name, of which NamesOf tells the number.
Called(files, names, n) == {f \in files : names[f] = n}

LEMMA CalledFew ==
    ASSUME NEW files, IsFiniteSet(files), NEW names, NEW n \in Names
    PROVE  /\ IsFiniteSet(Called(files, names, n))
           /\ NamesOf(files, names)[n] = Cardinality(Called(files, names, n))
           /\ NamesOf(files, names)[n] \in Nat
<1>1. IsFiniteSet(Called(files, names, n))
  BY FS_Subset DEF Called
<1>2. NamesOf(files, names)[n] = Cardinality(Called(files, names, n))
  BY DEF NamesOf, Called
<1> QED
  BY <1>1, <1>2, FS_CardinalityType

LEMMA NamesOfType ==
    ASSUME NEW files, IsFiniteSet(files), NEW names
    PROVE  NamesOf(files, names) \in [Names -> Nat]
<1>1. \A n \in Names : NamesOf(files, names)[n] \in Nat
  BY CalledFew
<1> QED
  BY <1>1 DEF NamesOf

LEMMA NamesOfNone ==
    ASSUME NEW names, NEW n \in Names
    PROVE  NamesOf({}, names)[n] = 0
<1>1. IsFiniteSet({}) /\ Cardinality({}) = 0 /\ Called({}, names, n) = {}
  BY FS_EmptySet DEF Called
<1> QED
  BY <1>1, CalledFew

\* A list is counted by the names of its files alone.
LEMMA NamesOfSame ==
    ASSUME NEW files, NEW names, NEW others, \A f \in files : names[f] = others[f]
    PROVE  NamesOf(files, names) = NamesOf(files, others)
<1>1. \A n : {f \in files : names[f] = n} = {f \in files : others[f] = n}
  OBVIOUS
<1> QED
  BY <1>1 DEF NamesOf

LEMMA NamesOfFewer ==
    ASSUME NEW files, IsFiniteSet(files), NEW few \in SUBSET files, NEW names,
           NEW n \in Names
    PROVE  NamesOf(few, names)[n] <= NamesOf(files, names)[n]
<1>1. IsFiniteSet(few)
  BY FS_Subset
<1>2. Called(few, names, n) \subseteq Called(files, names, n)
  BY DEF Called
<1> QED
  BY <1>1, <1>2, CalledFew, FS_Subset

LEMMA RestAndMore ==
    ASSUME NEW F, IsFiniteSet(F), NEW R, F \cap R = R, NEW A, IsFiniteSet(A),
           (F \ R) \cap A = {}
    PROVE  Cardinality((F \ R) \cup A) = (Cardinality(F) + Cardinality(A)) - Cardinality(R)
<1> DEFINE D == F \ R
<1>1. IsFiniteSet(D) /\ Cardinality(D) = Cardinality(F) - Cardinality(F \cap R)
  BY FS_Difference
<1>2. Cardinality(F \cap R) = Cardinality(R)
  OBVIOUS
<1> HIDE DEF D
<1>3. Cardinality(D \cup A) = Cardinality(D) + Cardinality(A) - Cardinality(D \cap A)
  BY <1>1, FS_Union
<1>4. Cardinality(D \cap A) = 0
  BY FS_EmptySet DEF D
<1>5. /\ Cardinality(F) \in Nat /\ Cardinality(A) \in Nat /\ Cardinality(D) \in Nat
      /\ Cardinality(R) \in Nat
  <2>1. IsFiniteSet(R)
    BY FS_Subset
  <2> QED BY <1>1, <2>1, FS_CardinalityType
<1>6. Cardinality(D \cup A) = (Cardinality(F) + Cardinality(A)) - Cardinality(R)
  BY <1>1, <1>2, <1>3, <1>4, <1>5
<1> QED
  BY <1>6 DEF D

LEMMA NamesOfChanged ==
    ASSUME NEW files, IsFiniteSet(files), NEW removed \in SUBSET files, NEW added,
           IsFiniteSet(added), added \cap files = {}, NEW names, NEW n \in Names
    PROVE  /\ IsFiniteSet((files \ removed) \cup added) /\ IsFiniteSet(removed)
           /\ NamesOf((files \ removed) \cup added, names)[n] =
                (NamesOf(files, names)[n] + NamesOf(added, names)[n]) - NamesOf(removed, names)[n]
<1> DEFINE F == Called(files, names, n)
           R == Called(removed, names, n)
           A == Called(added, names, n)
           left == (files \ removed) \cup added
<1>1. IsFiniteSet(removed) /\ IsFiniteSet(files \ removed) /\ IsFiniteSet(left)
  BY FS_Subset, FS_Difference, FS_Union
<1>2. Called(left, names, n) = (F \ R) \cup A /\ (F \ R) \cap A = {} /\ F \cap R = R
  BY DEF Called
<1>3. /\ IsFiniteSet(F) /\ IsFiniteSet(R) /\ IsFiniteSet(A)
      /\ NamesOf(files, names)[n] = Cardinality(F)
      /\ NamesOf(removed, names)[n] = Cardinality(R)
      /\ NamesOf(added, names)[n] = Cardinality(A)
      /\ NamesOf(left, names)[n] = Cardinality(Called(left, names, n))
  BY <1>1, CalledFew
<1> HIDE DEF F, R, A, left
<1>4. Cardinality((F \ R) \cup A) = (Cardinality(F) + Cardinality(A)) - Cardinality(R)
  BY <1>2, <1>3, RestAndMore
<1>5. NamesOf(left, names)[n] = (NamesOf(files, names)[n] + NamesOf(added, names)[n])
                                - NamesOf(removed, names)[n]
  BY <1>2, <1>3, <1>4
<1> QED
  BY <1>1, <1>5 DEF left

-----------------------------------------------------------------------------
(* What a trail adds up to *)

\* The stock after each of the first k events.
Stocks(trail, n, k, s) ==
    s = [i \in 0 .. k |-> IF i = 0 THEN 0
                          ELSE (s[i - 1] + trail[i].added[n]) - trail[i].removed[n]]

LEMMA StocksExist ==
    ASSUME NEW trail, NEW n, NEW k \in Nat
    PROVE  \E s : Stocks(trail, n, k, s)
<1> DEFINE T == {j \in Nat : ~\E s : Stocks(trail, n, j, s)}
<1> SUFFICES ASSUME T # {} PROVE FALSE
  OBVIOUS
<1>1. PICK j \in T : \A i \in T : ~(i < j)
  <2>1. T \subseteq Nat
    OBVIOUS
  <2> HIDE DEF T
  <2> QED BY <2>1, LeastNumber
<1>2. j # 0
  <2>1. Stocks(trail, n, 0, [i \in 0 .. 0 |-> 0])
    BY DEF Stocks
  <2> QED BY <1>1, <2>1
<1>3. PICK s : Stocks(trail, n, j - 1, s)
  BY <1>1, <1>2
<1> DEFINE t == [i \in 0 .. j |-> IF i = j THEN (s[j - 1] + trail[j].added[n]) - trail[j].removed[n]
                                 ELSE s[i]]
<1>4. ASSUME NEW i \in 0 .. j
      PROVE  t[i] = IF i = 0 THEN 0 ELSE (t[i - 1] + trail[i].added[n]) - trail[i].removed[n]
  <2>1. CASE i = j
    BY <1>1, <1>2, <2>1
  <2>2. CASE i # j
    <3>1. i \in 0 .. j - 1 /\ t[i] = s[i] /\ (i # 0 => t[i - 1] = s[i - 1])
      BY <2>2
    <3>2. s[i] = IF i = 0 THEN 0 ELSE (s[i - 1] + trail[i].added[n]) - trail[i].removed[n]
      BY <1>3, <3>1 DEF Stocks
    <3> QED BY <3>1, <3>2
  <2> QED BY <2>1, <2>2
<1>5. Stocks(trail, n, j, t)
  BY <1>4 DEF Stocks
<1> QED
  BY <1>1, <1>5

LEMMA StocksSame ==
    ASSUME NEW trail, NEW other, NEW n, NEW k \in Nat, NEW l \in Nat, k <= l, NEW s, NEW t,
           Stocks(trail, n, k, s), Stocks(other, n, l, t),
           \A i \in 1 .. k : other[i] = trail[i]
    PROVE  s[k] = t[k]
<1> DEFINE T == {j \in 0 .. k : s[j] # t[j]}
<1> SUFFICES ASSUME T # {} PROVE FALSE
  OBVIOUS
<1>1. PICK j \in T : \A i \in T : ~(i < j)
  <2>1. T \subseteq Nat
    OBVIOUS
  <2> HIDE DEF T
  <2> QED BY <2>1, LeastNumber
<1>2. /\ s[j] = IF j = 0 THEN 0 ELSE (s[j - 1] + trail[j].added[n]) - trail[j].removed[n]
      /\ t[j] = IF j = 0 THEN 0 ELSE (t[j - 1] + other[j].added[n]) - other[j].removed[n]
  BY DEF Stocks
<1>3. CASE j = 0
  BY <1>2, <1>3
<1>4. CASE j # 0
  <2>1. j - 1 \in 0 .. k /\ j - 1 < j /\ j \in 1 .. k
    BY <1>4
  <2>2. s[j - 1] = t[j - 1]
    BY <1>1, <2>1
  <2> QED BY <1>2, <1>4, <2>1, <2>2
<1> QED
  BY <1>3, <1>4

\* Stock is the last of the stocks, however it is chosen.
LEMMA StockIsLast ==
    ASSUME NEW trail \in Seq(Events), NEW n, NEW s, Stocks(trail, n, Len(trail), s)
    PROVE  Stock(trail, n) = s[Len(trail)]
<1> DEFINE t == CHOOSE x : Stocks(trail, n, Len(trail), x)
<1>1. Len(trail) \in Nat
  OBVIOUS
<1>2. Stocks(trail, n, Len(trail), t)
  BY <1>1, StocksExist
<1>3. Stock(trail, n) = t[Len(trail)]
  BY DEF Stock, Stocks
<1> HIDE DEF t
<1>4. s[Len(trail)] = t[Len(trail)]
  BY <1>1, <1>2, StocksSame
<1> QED
  BY <1>3, <1>4

LEMMA StockFirst == \A n : Stock(<<>>, n) = 0
<1> TAKE n
<1> DEFINE s == [i \in 0 .. 0 |-> 0]
<1>1. <<>> \in Seq(Events) /\ Len(<<>>) = 0
  OBVIOUS
<1>2. Stocks(<<>>, n, 0, s)
  BY DEF Stocks
<1>3. s[0] = 0
  OBVIOUS
<1> HIDE DEF s
<1> QED
  BY <1>1, <1>2, <1>3, StockIsLast

LEMMA StockNext ==
    ASSUME NEW trail \in Seq(Events), NEW e \in Events, NEW n
    PROVE  Stock(Append(trail, e), n) = (Stock(trail, n) + e.added[n]) - e.removed[n]
<1> DEFINE k == Len(trail)
           new == Append(trail, e)
<1>1. /\ k \in Nat /\ new \in Seq(Events) /\ Len(new) = k + 1 /\ new[k + 1] = e
      /\ \A i \in 1 .. k : new[i] = trail[i]
  BY AppendProperties
<1> HIDE DEF new
<1>2. PICK s : Stocks(trail, n, k, s)
  BY <1>1, StocksExist
<1>3. PICK t : Stocks(new, n, k + 1, t)
  <2>1. k + 1 \in Nat
    BY <1>1
  <2> QED BY <2>1, StocksExist
<1>4. Stock(trail, n) = s[k] /\ Stock(new, n) = t[k + 1]
  BY <1>1, <1>2, <1>3, StockIsLast
<1>5. s[k] = t[k]
  <2>1. k + 1 \in Nat /\ k <= k + 1
    BY <1>1
  <2> QED BY <1>1, <1>2, <1>3, <2>1, StocksSame
<1>6. t[k + 1] = (t[k] + e.added[n]) - e.removed[n]
  <2>1. k + 1 \in 0 .. k + 1 /\ k + 1 # 0 /\ (k + 1) - 1 = k
    BY <1>1
  <2> QED BY <1>1, <1>3, <2>1 DEF Stocks
<1> QED
  BY <1>4, <1>5, <1>6 DEF new

LEMMA StockType ==
    ASSUME NEW trail \in Seq(Events), NEW n \in Names
    PROVE  Stock(trail, n) \in Int
<1> DEFINE k == Len(trail)
<1>1. k \in Nat /\ \A i \in 1 .. k : trail[i] \in Events
  OBVIOUS
<1>2. PICK s : Stocks(trail, n, k, s)
  BY <1>1, StocksExist
<1> DEFINE T == {j \in 0 .. k : s[j] \notin Int}
<1>3. T = {}
  <2> SUFFICES ASSUME T # {} PROVE FALSE
    OBVIOUS
  <2>1. PICK j \in T : \A i \in T : ~(i < j)
    <3>1. T \subseteq Nat
      OBVIOUS
    <3> HIDE DEF T
    <3> QED BY <3>1, LeastNumber
  <2>2. s[j] = IF j = 0 THEN 0 ELSE (s[j - 1] + trail[j].added[n]) - trail[j].removed[n]
    BY <1>2 DEF Stocks
  <2>3. CASE j = 0
    BY <2>2, <2>3
  <2>4. CASE j # 0
    <3>1. j - 1 \in 0 .. k /\ j - 1 < j /\ j \in 1 .. k
      BY <2>4
    <3>2. s[j - 1] \in Int
      BY <2>1, <3>1
    <3>3. trail[j].added[n] \in Nat /\ trail[j].removed[n] \in Nat
      BY <1>1, <3>1 DEF Events
    <3> QED BY <2>2, <2>4, <3>2, <3>3
  <2> QED BY <2>3, <2>4
<1>4. Stock(trail, n) = s[k]
  BY <1>2, StockIsLast
<1> QED
  BY <1>1, <1>3, <1>4

-----------------------------------------------------------------------------
(* The inductive invariant *)

AttendanceLive ==
    \A m \in MeetingsThere : Attendees(m) \subseteq There /\ meeting[m].group \in GroupsThere

MembersLive ==
    \A g \in GroupsThere :
        group[g].members \cup ({group[g].leader, group[g].chairman} \ {None}) \subseteq There

\* Files that were uploaded, and are listed once.
Uploaded(files) == NoneTwice(files) /\ Range(files) \cap FreshFiles = {}

\* The meeting of an insertion under way is nobody else's.
AddOK ==
    \A c \in Clients : req[c].op = "addMeeting" =>
        /\ req[c].meeting \in Meetings /\ req[c].group \in Groups
        /\ meeting[req[c].meeting].state = "new"
        /\ Uploaded(req[c].files)
        /\ \A d \in Clients : req[d].meeting = req[c].meeting => d = c

DeleteOK ==
    \A c \in Clients :
        /\ req[c].op = "deleteUser" => req[c].user \in Users
        /\ req[c].op = "deleteGroup" => req[c].group \in Groups

\* What a trail tells of a list of files.
Told(files, trail, names, exactly) ==
    \A n \in Names :
        /\ NamesOf(Range(files), names)[n] <= Stock(trail, n)
        /\ exactly => NamesOf(Range(files), names)[n] = Stock(trail, n)

TrailOK ==
    \A m \in MeetingsThere :
        /\ Uploaded(meeting[m].files)
        /\ Told(meeting[m].files, meeting[m].trail, filename, m \notin stale)

IInv == TypeOK /\ AttendanceLive /\ MembersLive /\ AddOK /\ DeleteOK /\ TrailOK

-----------------------------------------------------------------------------
(* Types *)

\* The entries of a form, and how they are put together.
LEMMA EntriesType ==
    ASSUME NEW n \in Nat, NEW e \in Entries(n)
    PROVE  /\ e.shown \o e.appended \in Seq({"keep", "delete"} \cup FreshFiles)
           /\ Len(e.shown) = n /\ n <= Len(e.shown \o e.appended)
           /\ \A i \in 1 .. n : (e.shown \o e.appended)[i] = e.shown[i]
           /\ \A i, j \in 1 .. Len(e.shown \o e.appended) :
                 /\ (e.shown \o e.appended)[i] \in FreshFiles
                 /\ (e.shown \o e.appended)[i] = (e.shown \o e.appended)[j]
                 => i = j
<1> DEFINE K == {"keep", "delete"} \cup FreshFiles
           all == e.shown \o e.appended
<1>1. e.shown \in [1 .. n -> K] /\ e.appended \in Uploads
  BY DEF Entries
<1>2. e.shown \in Seq(K) /\ Len(e.shown) = n
  <2> HIDE DEF K
  <2> QED BY <1>1, IsASeq, LenProperties
<1>3. e.appended \in Seq(K)
  <2>1. CASE e.appended = <<>>
    BY <2>1
  <2>2. ASSUME NEW f \in FreshFiles, e.appended = <<f>>
        PROVE  e.appended \in Seq(K)
    BY <2>2
  <2> QED BY <1>1, <2>1, <2>2 DEF Uploads
<1>4. ASSUME NEW s \in Seq(K), NEW t \in Seq(K), Len(s) = n
      PROVE  /\ s \o t \in Seq(K) /\ n <= Len(s \o t)
             /\ \A i \in 1 .. n : (s \o t)[i] = s[i]
  <2> HIDE DEF K
  <2>1. /\ s \o t \in Seq(K) /\ Len(s \o t) = Len(s) + Len(t)
        /\ \A i \in 1 .. Len(s) + Len(t) :
              (s \o t)[i] = IF i <= Len(s) THEN s[i] ELSE t[i - Len(s)]
    BY ConcatProperties
  <2>2. Len(t) \in Nat
    OBVIOUS
  <2> QED BY <1>4, <2>1, <2>2
<1>5. /\ all \in Seq(K) /\ n <= Len(all)
      /\ \A i \in 1 .. n : all[i] = e.shown[i]
  <2> HIDE DEF K
  <2> QED BY <1>2, <1>3, <1>4
<1>6. \A i, j \in 1 .. Len(all) : all[i] \in FreshFiles /\ all[i] = all[j] => i = j
  BY DEF Entries
<1> QED
  BY <1>2, <1>5, <1>6

\* New files get their names, and no other file another one.
LEMMA UploadNames ==
    ASSUME filename \in [Files -> Names \cup {None}], NEW new \in SUBSET FreshFiles,
           NEW names \in [new -> Names], Upload(names)
    PROVE  /\ filename' \in [Files -> Names \cup {None}]
           /\ FreshFiles' = FreshFiles \ new
           /\ \A f \in Files \ FreshFiles : filename'[f] = filename[f]
<1>1. \A f \in Files : filename'[f] = IF f \in new THEN names[f] ELSE filename[f]
  BY DEF Upload
<1>2. filename' \in [Files -> Names \cup {None}]
  BY DEF Upload
<1>3. \A f \in new : f \in FreshFiles /\ names[f] # None
  BY MeetingsAssumption
<1> QED
  BY <1>1, <1>2, <1>3 DEF FreshFiles

LEMMA NothingType ==
    /\ NoRequest \in Requests /\ NoPage \in Pages /\ Nobody \in Attendance
    /\ \A u \in Users : Nobody[u] = "no"
<1>1. Nobody \in Attendance /\ \A u \in Users : Nobody[u] = "no"
  BY DEF Nobody, Attendance
<1> QED
  BY <1>1 DEF NoRequest, Requests, NoPage, Pages

\* A file list of a new upload.
LEMMA UploadsType ==
    ASSUME NEW files \in Uploads
    PROVE  files \in Seq(Files) /\ NoneTwice(files) /\ Range(files) \in SUBSET FreshFiles
<1>1. CASE files = <<>>
  BY <1>1 DEF NoneTwice, Range
<1>2. ASSUME NEW f \in FreshFiles, files = <<f>>
      PROVE  /\ files \in Seq(Files) /\ NoneTwice(files) /\ Range(files) \in SUBSET FreshFiles
  <2>1. f \in Files
    BY DEF FreshFiles
  <2> QED BY <1>2, <2>1, Singleton
<1> QED
  BY <1>1, <1>2 DEF Uploads

\* A request that ends, or begins, leaves the requests of their type.
LEMMA RequestsType ==
    ASSUME req \in [Clients -> Requests], NEW c \in Clients, NEW r \in Requests,
           req' = [req EXCEPT ![c] = r]
    PROVE  req' \in [Clients -> Requests]
OBVIOUS

LEMMA EndType ==
    ASSUME req \in [Clients -> Requests], NEW c \in Clients, EndRequest(c)
    PROVE  req' \in [Clients -> Requests]
BY NothingType, RequestsType DEF EndRequest

LEMMA GroupStepType ==
    ASSUME TypeOK, GroupStep
    PROVE  GroupTypeOK' /\ req' = req
<1>1. ASSUME NEW u \in Users, NEW gs
      PROVE  WithMember(u, gs) \in [Groups -> GroupRows]
  <2>1. ASSUME NEW g \in Groups
        PROVE  (IF group[g].state = "there"
                THEN [group[g] EXCEPT !.members = IF g \in gs THEN @ \cup {u} ELSE @ \ {u}]
                ELSE group[g]) \in GroupRows
    BY DEF TypeOK, GroupTypeOK, GroupRows
  <2> QED BY <2>1 DEF WithMember
<1>2. ASSUME NEW u \in Users, NEW gs, AddUser(u, gs) \/ EditUser(u, gs)
      PROVE  GroupTypeOK' /\ req' = req
  BY <1>1, <1>2 DEF AddUser, EditUser, TypeOK, GroupTypeOK, States
<1>3. ASSUME NEW g \in Groups, NEW us \in SUBSET There, NEW leader \in There \cup {None},
             NEW chairman \in There \cup {None},
             AddGroup(g, us, leader, chairman) \/ EditGroup(g, us, leader, chairman)
      PROVE  GroupTypeOK' /\ req' = req
  <2>1. us \subseteq Users /\ leader \in Users \cup {None} /\ chairman \in Users \cup {None}
    BY DEF There
  <2>2. MembersWith(us, leader) \subseteq Users
        /\ MembersWith(MembersWith(us, leader), chairman) \subseteq Users
    BY <2>1 DEF MembersWith
  <2>3. CASE AddGroup(g, us, leader, chairman)
    BY <2>1, <2>2, <2>3 DEF AddGroup, TypeOK, GroupTypeOK, GroupRows, States
  <2>4. CASE EditGroup(g, us, leader, chairman)
    BY <2>1, <2>2, <2>4 DEF EditGroup, TypeOK, GroupTypeOK, GroupRows, States
  <2> QED BY <1>3, <2>3, <2>4
<1> QED
  BY <1>2, <1>3 DEF GroupStep

\* Meetings that are deleted, with what is theirs.
LEMMA WithoutType ==
    ASSUME meeting \in [Meetings -> MeetingRows], NEW ms
    PROVE  Without(ms) \in [Meetings -> MeetingRows]
<1>1. ASSUME NEW m \in Meetings
      PROVE  [state |-> "gone", group |-> None, time |-> meeting[m].time, attendance |-> Nobody,
              files |-> <<>>, trail |-> <<>>] \in MeetingRows
  BY NothingType DEF MeetingRows, States
<1> QED
  BY <1>1 DEF Without

LEMMA SyncedType ==
    ASSUME NEW listed, NEW added, NEW marks \in [listed -> {"no"} \cup Statuses]
    PROVE  Synced(listed, marks, added) \in Attendance
BY MeetingsAssumption DEF Synced, Attendance

LEMMA TrailType ==
    ASSUME NEW trail \in Seq(Events), NEW changes \in BOOLEAN, NEW added, IsFiniteSet(added),
           NEW removed, IsFiniteSet(removed), NEW names
    PROVE  TrailAfter(trail, changes, added, removed, names) \in Seq(Events)
<1>1. NamesOf(added, names) \in [Names -> Nat] /\ NamesOf(removed, names) \in [Names -> Nat]
  BY NamesOfType
<1>2. [type |-> IF changes THEN "update" ELSE "file_update", added |-> NamesOf(added, names),
       removed |-> NamesOf(removed, names)] \in Events
  BY <1>1 DEF Events
<1>3. \A e \in Events : Append(trail, e) \in Seq(Events)
  BY AppendProperties
<1> QED
  BY <1>2, <1>3 DEF TrailAfter

\* What an edit does with the files of its meeting, whatever it was sent from.
LEMMA EditFiles ==
    ASSUME NEW files \in Seq(Files), NEW n \in Nat, NEW e \in Entries(n)
    PROVE  LET new == AddedFiles(e.shown \o e.appended)
               removed == RemovedFiles(e.shown, files)
           IN  /\ new \in SUBSET FreshFiles /\ IsFiniteSet(new)
               /\ removed \in SUBSET Range(files) /\ IsFiniteSet(removed)
               /\ IsFiniteSet(Range(files))
               /\ Populated(e.shown \o e.appended, files) \in Seq(Files)
<1> DEFINE all == e.shown \o e.appended
           removed == RemovedFiles(e.shown, files)
<1>1. all \in Seq({"keep", "delete"} \cup FreshFiles)
  BY EntriesType
<1>2. FreshFiles \in SUBSET Files
  BY DEF FreshFiles
<1> HIDE DEF all
<1>3. IsFiniteSet(Range(all)) /\ IsFiniteSet(Range(files))
  BY <1>1, FiniteRange
<1>4. AddedFiles(all) \in SUBSET FreshFiles /\ AddedFiles(all) \in SUBSET Range(all)
  BY <1>1 DEF AddedFiles, Range
<1>5. removed \in SUBSET Range(files)
  BY DEF RemovedFiles, Range
<1>6. Populated(all, files) \in Seq(Files)
  BY <1>1, <1>2, PopulatedType
<1> HIDE DEF removed
<1>7. IsFiniteSet(AddedFiles(all)) /\ IsFiniteSet(removed)
  BY <1>3, <1>4, <1>5, FS_Subset
<1> QED
  BY <1>3, <1>4, <1>5, <1>6, <1>7 DEF all, removed

LEMMA SaveEditType ==
    ASSUME TypeOK, NEW c \in Clients, NEW t \in Times, NEW added,
           NEW marks \in [page[c].listed -> {"no"} \cup Statuses],
           NEW e \in Entries(Len(page[c].files)),
           NEW names \in [AddedFiles(e.shown \o e.appended) -> Names],
           SaveEdit(c, t, marks, added, e.shown, e.appended, names)
    PROVE  TypeOK'
<1> DEFINE m == page[c].meeting
           row == meeting[m]
           all == e.shown \o e.appended
           attendance == Synced(page[c].listed, marks, added)
           new == AddedFiles(all)
           removed == RemovedFiles(e.shown, row.files)
           changes == TracksChanges(row.attendance, attendance, t # row.time)
           trail == TrailAfter(row.trail, changes, new, removed, filename')
<1>1. m \in Meetings /\ row \in MeetingRows
  BY DEF SaveEdit, TypeOK, MeetingsThere
<1>2. row.files \in Seq(Files) /\ row.trail \in Seq(Events)
  BY <1>1 DEF MeetingRows
<1>3. Len(page[c].files) \in Nat
  <2>1. page[c].files \in Seq(Files)
    BY DEF TypeOK, Pages
  <2> QED BY <2>1
<1>4. /\ new \in SUBSET FreshFiles /\ IsFiniteSet(new) /\ IsFiniteSet(removed)
      /\ Populated(all, row.files) \in Seq(Files)
  <2> HIDE DEF row
  <2> QED BY <1>2, <1>3, EditFiles
<1>5. filename' \in [Files -> Names \cup {None}]
  <2>1. Upload(names) /\ filename \in [Files -> Names \cup {None}]
    BY DEF SaveEdit, TypeOK
  <2> QED BY <1>4, <2>1, UploadNames
<1>6. changes \in BOOLEAN
  BY DEF TracksChanges
<1>7. trail \in Seq(Events)
  <2> HIDE DEF row, removed, changes, new
  <2> QED BY <1>2, <1>4, <1>6, TrailType
<1>8. attendance \in Attendance
  BY SyncedType
<1>9. [row EXCEPT !.time = t, !.attendance = attendance,
                  !.files = Populated(all, row.files), !.trail = trail] \in MeetingRows
  <2> HIDE DEF row, attendance, trail, all
  <2> QED BY <1>1, <1>4, <1>7, <1>8 DEF MeetingRows
<1>10. meeting' = [meeting EXCEPT ![m] =
                     [row EXCEPT !.time = t, !.attendance = attendance,
                                 !.files = Populated(all, row.files), !.trail = trail]]
  BY DEF SaveEdit
<1>11. meeting' \in [Meetings -> MeetingRows]
  <2> HIDE DEF m, row, attendance, trail, all
  <2> QED BY <1>9, <1>10 DEF TypeOK
<1>12. page' \in [Clients -> Pages] /\ stale' \subseteq Meetings
  BY <1>1, NothingType DEF SaveEdit, TypeOK
<1> QED
  BY <1>5, <1>11, <1>12 DEF SaveEdit, TypeOK, GroupTypeOK

\* The first event of a trail.
Creation(files, names) ==
    [type |-> "creation", added |-> NamesOf(Range(files), names), removed |-> NamesOf({}, names)]

LEMMA CreationType ==
    ASSUME NEW files \in Seq(Files), NEW names
    PROVE  /\ Creation(files, names) \in Events
           /\ Creation(files, names).added = NamesOf(Range(files), names)
           /\ Creation(files, names).removed = NamesOf({}, names)
<1>1. NamesOf(Range(files), names) \in [Names -> Nat]
  BY FiniteRange, NamesOfType
<1>2. NamesOf({}, names) \in [Names -> Nat]
  BY FS_EmptySet, NamesOfType
<1> QED
  BY <1>1, <1>2 DEF Creation, Events

LEMMA AddMeetingType ==
    ASSUME TypeOK, AddOK, NEW c \in Clients, NEW t \in Times, AddMeeting(c, t)
    PROVE  TypeOK'
<1> DEFINE r == req[c]
           row == [state |-> "there", group |-> r.group, time |-> t, attendance |-> r.attendance,
                   files |-> r.files, trail |-> <<Creation(r.files, filename)>>]
<1>1. r \in Requests /\ r.meeting \in Meetings /\ r.group \in Groups
  BY DEF TypeOK, AddOK, AddMeeting
<1>2. r.files \in Seq(Files) /\ r.attendance \in Attendance
  BY <1>1 DEF Requests
<1>3. Creation(r.files, filename) \in Events
  <2> HIDE DEF r
  <2> QED BY <1>2, CreationType
<1>4. row \in MeetingRows
  <2>1. row.trail \in Seq(Events)
    BY <1>3
  <2> HIDE DEF r
  <2> QED BY <1>1, <1>2, <1>3, <2>1 DEF MeetingRows, States
<1>5. meeting' = [meeting EXCEPT ![r.meeting] = row]
  BY DEF AddMeeting, Creation
<1>6. meeting' \in [Meetings -> MeetingRows]
  <2> HIDE DEF r, row
  <2> QED BY <1>4, <1>5 DEF TypeOK
<1>7. req' \in [Clients -> Requests]
  BY EndType DEF AddMeeting, TypeOK
<1> QED
  BY <1>6, <1>7 DEF AddMeeting, TypeOK, GroupTypeOK

LEMMA DeleteUserType ==
    ASSUME TypeOK, DeleteOK, NEW c \in Clients, DeleteUser(c)
    PROVE  TypeOK'
<1> DEFINE u == req[c].user
<1>1. u \in Users
  BY DEF DeleteOK, DeleteUser
<1>2. WithoutUser(u) \in [Groups -> GroupRows]
  <2>1. ASSUME NEW g \in Groups
        PROVE  [group[g] EXCEPT !.members = @ \ {u}, !.leader = IF @ = u THEN None ELSE @,
                                !.chairman = IF @ = u THEN None ELSE @] \in GroupRows
    BY DEF TypeOK, GroupTypeOK, GroupRows
  <2> QED BY <2>1 DEF WithoutUser
<1>3. ASSUME NEW m \in Meetings
      PROVE  [meeting[m] EXCEPT !.attendance[u] = "no"] \in MeetingRows
  <2>1. meeting[m] \in MeetingRows /\ meeting[m].attendance \in Attendance
    BY DEF TypeOK, MeetingRows
  <2>2. [meeting[m].attendance EXCEPT ![u] = "no"] \in Attendance
    BY <2>1 DEF Attendance
  <2> HIDE DEF u
  <2> QED BY <2>1, <2>2 DEF MeetingRows
<1>4. meeting' \in [Meetings -> MeetingRows]
  <2>1. \A m \in Meetings : meeting[m] \in MeetingRows
    BY DEF TypeOK
  <2> QED BY <1>3, <2>1 DEF DeleteUser
<1>5. req' \in [Clients -> Requests]
  BY EndType DEF DeleteUser, TypeOK
<1>6. account' \in [Users -> States] /\ group' \in [Groups -> GroupRows]
  BY <1>1, <1>2 DEF DeleteUser, TypeOK, GroupTypeOK, States
<1> QED
  BY <1>4, <1>5, <1>6 DEF DeleteUser, TypeOK, GroupTypeOK

LEMMA TypeStep ==
    ASSUME TypeOK, AddOK, DeleteOK, [Next]_vars
    PROVE  TypeOK'
<1>1. CASE GroupStep /\ UNCHANGED <<meeting, filename, page, stale>>
  BY <1>1, GroupStepType DEF TypeOK
<1>2. ASSUME NEW c \in Clients, NEW m \in Meetings, NEW g \in Groups,
             NEW attendance \in Attendance, NEW files \in Uploads,
             NEW names \in [Range(files) -> Names],
             StartAddMeeting(c, m, g, attendance, files, names)
      PROVE  TypeOK'
  <2>1. [NoRequest EXCEPT !.op = "addMeeting", !.group = g, !.meeting = m,
                          !.attendance = attendance, !.files = files] \in Requests
    <3>1. files \in Seq(Files)
      BY UploadsType
    <3> QED BY <3>1, NothingType DEF NoRequest, Requests
  <2>2. req' \in [Clients -> Requests]
    BY <1>2, <2>1, RequestsType DEF StartAddMeeting, TypeOK
  <2>3. filename' \in [Files -> Names \cup {None}]
    <3>1. Upload(names) /\ filename \in [Files -> Names \cup {None}]
      BY <1>2 DEF StartAddMeeting, TypeOK
    <3> QED BY <3>1, UploadsType, UploadNames
  <2> QED BY <1>2, <2>2, <2>3 DEF StartAddMeeting, TypeOK, GroupTypeOK
<1>3. ASSUME NEW c \in Clients, NEW m \in Meetings, ShowEdit(c, m)
      PROVE  TypeOK'
  <2>1. [meeting |-> m, listed |-> Attendees(m), files |-> meeting[m].files] \in Pages
    <3>1. meeting[m].files \in Seq(Files) /\ Attendees(m) \subseteq Users
      BY DEF TypeOK, MeetingRows, Attendees
    <3> QED BY <3>1 DEF Pages
  <2> QED BY <1>3, <2>1 DEF ShowEdit, TypeOK, GroupTypeOK
<1>4. ASSUME NEW c \in Clients, NEW u \in Users, StartDeleteUser(c, u)
      PROVE  TypeOK'
  <2>1. Attends(u) \in SUBSET Meetings /\ MemberOf(u) \in SUBSET Groups
    BY DEF Attends, MeetingsThere, MemberOf, GroupsThere
  <2>2. [NoRequest EXCEPT !.op = "deleteUser", !.user = u, !.meetings = Attends(u),
                          !.groups = MemberOf(u)] \in Requests
    <3> HIDE DEF Attends, MemberOf
    <3> QED BY <2>1, NothingType DEF NoRequest, Requests
  <2>3. req' \in [Clients -> Requests]
    BY <1>4, <2>2, RequestsType DEF StartDeleteUser, TypeOK
  <2> QED BY <1>4, <2>3 DEF StartDeleteUser, TypeOK, GroupTypeOK
<1>5. ASSUME NEW c \in Clients, NEW g \in Groups, StartDeleteGroup(c, g)
      PROVE  TypeOK'
  <2>1. group[g].members \in SUBSET Users
    BY DEF TypeOK, GroupTypeOK, GroupRows
  <2>2. [NoRequest EXCEPT !.op = "deleteGroup", !.group = g,
                          !.members = group[g].members] \in Requests
    BY <2>1, NothingType DEF NoRequest, Requests
  <2>3. req' \in [Clients -> Requests]
    BY <1>5, <2>2, RequestsType DEF StartDeleteGroup, TypeOK
  <2> QED BY <1>5, <2>3 DEF StartDeleteGroup, TypeOK, GroupTypeOK
<1>6. ASSUME NEW c \in Clients, LeaveEdit(c)
      PROVE  TypeOK'
  BY <1>6, NothingType DEF LeaveEdit, TypeOK, GroupTypeOK
<1>7. ASSUME NEW c \in Clients, DeleteGroup(c)
      PROVE  TypeOK'
  <2>1. req' \in [Clients -> Requests] /\ meeting' \in [Meetings -> MeetingRows]
    BY <1>7, EndType, WithoutType DEF DeleteGroup, TypeOK
  <2>2. group' \in [Groups -> GroupRows]
    BY <1>7 DEF DeleteGroup, TypeOK, GroupTypeOK, GroupRows, NewGroup, States
  <2> QED BY <1>7, <2>1, <2>2 DEF DeleteGroup, TypeOK, GroupTypeOK
<1>8. ASSUME NEW c \in Clients, Abort(c)
      PROVE  TypeOK'
  <2>1. req' \in [Clients -> Requests]
    BY <1>8, EndType DEF Abort, TypeOK
  <2> QED BY <1>8, <2>1 DEF Abort, TypeOK, GroupTypeOK
<1>9. ASSUME NEW m \in Meetings, DeleteMeeting(m)
      PROVE  TypeOK'
  <2>1. meeting' \in [Meetings -> MeetingRows]
    BY <1>9, WithoutType DEF DeleteMeeting, TypeOK
  <2> QED BY <1>9, <2>1 DEF DeleteMeeting, TypeOK, GroupTypeOK
<1>10. CASE UNCHANGED vars
  BY <1>10 DEF vars, TypeOK, GroupTypeOK
<1> QED
  BY <1>1, <1>2, <1>3, <1>4, <1>5, <1>6, <1>7, <1>8, <1>9, <1>10, AddMeetingType,
     SaveEditType, DeleteUserType DEF Next

-----------------------------------------------------------------------------
(* Rows that are there *)

\* Records of users who attend and memberships: what a step on users and groups
\* leaves of the meetings' references.
LEMMA GroupsOnlyGrow ==
    ASSUME TypeOK, AttendanceLive, There \subseteq There', GroupsThere \subseteq GroupsThere',
           meeting' = meeting
    PROVE  AttendanceLive'
BY DEF AttendanceLive, MeetingsThere, Attendees

LEMMA GroupStepLive ==
    ASSUME TypeOK, MembersLive, GroupStep
    PROVE  MembersLive' /\ There \subseteq There' /\ GroupsThere \subseteq GroupsThere'
<1> USE DEF TypeOK, GroupTypeOK
<1>1. ASSUME NEW u \in Users, NEW gs, AddUser(u, gs) \/ EditUser(u, gs)
      PROVE  MembersLive' /\ There \subseteq There' /\ GroupsThere \subseteq GroupsThere'
  <2>1. There' = There \cup {u} /\ There \subseteq Users
    BY <1>1 DEF AddUser, EditUser, There
  <2>2. ASSUME NEW g \in Groups
        PROVE  /\ group'[g].state = group[g].state /\ group'[g].leader = group[g].leader
               /\ group'[g].chairman = group[g].chairman
               /\ group'[g].members \subseteq group[g].members \cup {u}
    BY <1>1 DEF AddUser, EditUser, WithMember, GroupRows
  <2>3. GroupsThere' = GroupsThere
    BY <2>2 DEF GroupsThere
  <2> QED BY <2>1, <2>2, <2>3 DEF MembersLive, GroupsThere
<1>2. ASSUME NEW g \in Groups, NEW us \in SUBSET There, NEW leader \in There \cup {None},
             NEW chairman \in There \cup {None},
             AddGroup(g, us, leader, chairman) \/ EditGroup(g, us, leader, chairman)
      PROVE  MembersLive' /\ There \subseteq There' /\ GroupsThere \subseteq GroupsThere'
  <2>1. There' = There
    BY <1>2 DEF AddGroup, EditGroup, There
  <2>2. /\ group'[g].state = "there" /\ group'[g].leader = leader
        /\ group'[g].chairman = chairman /\ group'[g].members \subseteq There
    BY <1>2 DEF AddGroup, EditGroup, MembersWith
  <2>3. \A h \in Groups \ {g} : group'[h] = group[h]
    BY <1>2 DEF AddGroup, EditGroup
  <2>4. GroupsThere' = GroupsThere \cup {g}
    BY <2>2, <2>3 DEF GroupsThere
  <2>5. ASSUME NEW h \in GroupsThere'
        PROVE  group'[h].members \cup ({group'[h].leader, group'[h].chairman} \ {None})
                 \subseteq There
    <3>1. CASE h = g
      BY <2>2, <3>1
    <3>2. CASE h # g
      BY <2>3, <2>4, <2>5, <3>2 DEF MembersLive, GroupsThere
    <3> QED BY <3>1, <3>2
  <2> QED BY <2>1, <2>4, <2>5 DEF MembersLive
<1> QED
  BY <1>1, <1>2 DEF GroupStep

LEMMA AddMeetingLive ==
    ASSUME TypeOK, AttendanceLive, AddOK, NEW c \in Clients, NEW t \in Times, AddMeeting(c, t)
    PROVE  AttendanceLive'
<1> PICK m \in Meetings : m = req[c].meeting
  BY DEF AddMeeting, AddOK
<1>1. There' = There /\ GroupsThere' = GroupsThere
  BY DEF AddMeeting, There, GroupsThere
<1>2. /\ meeting'[m].state = "there" /\ meeting'[m].group = req[c].group
      /\ meeting'[m].attendance = req[c].attendance
      /\ \A n \in Meetings \ {m} : meeting'[n] = meeting[n]
  BY <1>1 DEF AddMeeting, TypeOK
<1>3. meeting'[m].group \in GroupsThere /\ Attendees(m)' \subseteq There
  BY <1>2 DEF AddMeeting, CanAdd, Attendees
<1>4. \A n \in Meetings \ {m} : Attendees(n)' = Attendees(n)
  BY <1>2 DEF Attendees
<1> QED
  BY <1>1, <1>2, <1>3, <1>4 DEF AttendanceLive, MeetingsThere

LEMMA SaveEditLive ==
    ASSUME TypeOK, AttendanceLive, NEW c \in Clients, NEW t, NEW added, NEW marks, NEW shown,
           NEW appended, NEW names, SaveEdit(c, t, marks, added, shown, appended, names)
    PROVE  AttendanceLive'
<1> PICK m \in MeetingsThere : m = page[c].meeting
  BY DEF SaveEdit
<1> DEFINE attendance == Synced(page[c].listed, marks, added)
<1>1. m \in Meetings /\ meeting[m] \in MeetingRows /\ meeting[m].state = "there"
      /\ There' = There /\ GroupsThere' = GroupsThere
  BY DEF SaveEdit, TypeOK, MeetingsThere, There, GroupsThere
<1>2. /\ meeting'[m].state = "there" /\ meeting'[m].group = meeting[m].group
      /\ meeting'[m].attendance = attendance
      /\ \A n \in Meetings \ {m} : meeting'[n] = meeting[n]
  BY <1>1 DEF SaveEdit, TypeOK, MeetingRows
<1>3. \A u \in Users \ There : attendance[u] = "no"
  BY DEF Synced
<1>4. Attendees(m)' \subseteq There
  BY <1>2, <1>3 DEF Attendees
<1>5. \A n \in Meetings \ {m} : Attendees(n)' = Attendees(n)
  BY <1>2 DEF Attendees
<1> QED
  BY <1>1, <1>2, <1>4, <1>5 DEF AttendanceLive, MeetingsThere

LEMMA WithoutLive ==
    ASSUME TypeOK, AttendanceLive, NEW ms \in SUBSET Meetings, meeting' = Without(ms),
           There' = There,
           \A m \in MeetingsThere \ ms : meeting[m].group \in GroupsThere'
    PROVE  AttendanceLive'
<1>1. \A m \in Meetings : m \in ms => meeting'[m].state = "gone"
  BY DEF Without
<1>2. \A m \in Meetings : m \notin ms => meeting'[m] = meeting[m]
  BY DEF Without
<1>3. \A m \in Meetings : m \notin ms => Attendees(m)' = Attendees(m)
  BY <1>2 DEF Attendees
<1> QED
  BY <1>1, <1>2, <1>3 DEF AttendanceLive, MeetingsThere

LEMMA DeleteUserLive ==
    ASSUME TypeOK, AttendanceLive, MembersLive, DeleteOK, NEW c \in Clients, DeleteUser(c)
    PROVE  AttendanceLive' /\ MembersLive'
<1> PICK u \in Users : u = req[c].user
  BY DEF DeleteUser, DeleteOK
<1>1. There' = There \ {u} /\ u \in Users
  BY DEF DeleteUser, There, TypeOK, GroupTypeOK
<1>2. ASSUME NEW g \in Groups
      PROVE  /\ group'[g].state = group[g].state
             /\ group'[g].members = group[g].members \ {u}
             /\ group'[g].leader \in {group[g].leader, None} \ {u}
             /\ group'[g].chairman \in {group[g].chairman, None} \ {u}
  <2>1. group[g] \in GroupRows /\ group' = WithoutUser(u)
    BY DEF DeleteUser, TypeOK, GroupTypeOK
  <2>2. group'[g] = WithoutUser(u)[g]
    BY <2>1
  <2> QED BY <2>1, <2>2, NoneAssumption DEF WithoutUser, GroupRows
<1>3. GroupsThere' = GroupsThere
  BY <1>2 DEF GroupsThere
<1>4. ASSUME NEW m \in Meetings
      PROVE  /\ meeting'[m].state = meeting[m].state /\ meeting'[m].group = meeting[m].group
             /\ Attendees(m)' \subseteq Attendees(m)
             /\ m \in req[c].meetings => u \notin Attendees(m)'
  <2>1. CASE m \in req[c].meetings
    <3>1. /\ meeting'[m] = [meeting[m] EXCEPT !.attendance[u] = "no"]
          /\ meeting[m] \in MeetingRows /\ meeting[m].attendance \in Attendance
      BY <2>1 DEF DeleteUser, TypeOK, MeetingRows
    <3>2. /\ meeting'[m].state = meeting[m].state /\ meeting'[m].group = meeting[m].group
          /\ meeting'[m].attendance = [meeting[m].attendance EXCEPT ![u] = "no"]
      BY <3>1 DEF MeetingRows
    <3> QED BY <3>1, <3>2 DEF Attendees, Attendance
  <2>2. CASE m \notin req[c].meetings
    BY <2>2 DEF DeleteUser, Attendees
  <2> QED BY <2>1, <2>2
<1>5. ASSUME NEW m \in MeetingsThere'
      PROVE  Attendees(m)' \subseteq There' /\ meeting'[m].group \in GroupsThere'
  <2>1. m \in Meetings /\ m \in MeetingsThere
    BY <1>4, <1>5 DEF MeetingsThere
  <2>2. Attendees(m) \subseteq There /\ meeting[m].group \in GroupsThere
    BY <2>1 DEF AttendanceLive
  <2>3. u \notin Attendees(m)'
    <3>1. CASE m \in req[c].meetings
      BY <1>4, <2>1, <3>1
    <3>2. CASE m \notin req[c].meetings
      BY <1>4, <2>1, <3>2 DEF DeleteUser, CanDeleteUser, Attends
    <3> QED BY <3>1, <3>2
  <2> QED BY <1>1, <1>3, <1>4, <2>1, <2>2, <2>3
<1>6. AttendanceLive'
  BY <1>5 DEF AttendanceLive
<1>7. MembersLive'
  BY <1>1, <1>2, <1>3 DEF MembersLive, GroupsThere
<1> QED
  BY <1>6, <1>7

LEMMA DeleteGroupLive ==
    ASSUME TypeOK, AttendanceLive, MembersLive, DeleteOK, NEW c \in Clients, DeleteGroup(c)
    PROVE  AttendanceLive' /\ MembersLive'
<1> PICK g \in Groups : g = req[c].group
  BY DEF DeleteGroup, DeleteOK
<1>1. There' = There
  BY DEF DeleteGroup, There
<1>2. /\ group'[g].state = "gone" /\ \A h \in Groups \ {g} : group'[h] = group[h]
      /\ GroupsThere' = GroupsThere \ {g}
  BY DEF DeleteGroup, GroupsThere, NewGroup, TypeOK, GroupTypeOK
<1>3. MembersLive'
  BY <1>1, <1>2 DEF MembersLive, GroupsThere
<1>4. AttendanceLive'
  <2>1. meeting' = Without(MeetingsOf(g)) /\ MeetingsOf(g) \in SUBSET Meetings
    BY DEF DeleteGroup, MeetingsOf, MeetingsThere
  <2>2. \A m \in MeetingsThere \ MeetingsOf(g) : meeting[m].group \in GroupsThere'
    BY <1>2 DEF MeetingsOf, AttendanceLive
  <2> QED BY <1>1, <2>1, <2>2, WithoutLive
<1> QED
  BY <1>3, <1>4

\* A step that leaves the rows alone.
LEMMA SameRowsLive ==
    ASSUME AttendanceLive, MembersLive, UNCHANGED <<account, group, meeting>>
    PROVE  AttendanceLive' /\ MembersLive'
BY DEF AttendanceLive, MembersLive, MeetingsThere, GroupsThere, There, Attendees

LEMMA LiveStep ==
    ASSUME TypeOK, AttendanceLive, MembersLive, AddOK, DeleteOK, [Next]_vars
    PROVE  AttendanceLive' /\ MembersLive'
<1>1. CASE GroupStep /\ UNCHANGED <<meeting, filename, page, stale>>
  BY <1>1, GroupStepLive, GroupsOnlyGrow
<1>2. ASSUME NEW c \in Clients,
             \/ \E m, g, attendance, files, names :
                   StartAddMeeting(c, m, g, attendance, files, names)
             \/ \E m \in Meetings : ShowEdit(c, m)
             \/ \E u \in Users : StartDeleteUser(c, u)
             \/ \E g \in Groups : StartDeleteGroup(c, g)
             \/ LeaveEdit(c) \/ Abort(c)
      PROVE  AttendanceLive' /\ MembersLive'
  BY <1>2, SameRowsLive
     DEF StartAddMeeting, ShowEdit, StartDeleteUser, StartDeleteGroup, LeaveEdit, Abort
<1>3. ASSUME NEW c \in Clients, NEW t \in Times, AddMeeting(c, t)
      PROVE  AttendanceLive' /\ MembersLive'
  <2>1. MembersLive'
    BY <1>3 DEF AddMeeting, MembersLive, GroupsThere, There
  <2> QED BY <1>3, <2>1, AddMeetingLive
<1>4. ASSUME NEW c \in Clients, NEW t, NEW marks, NEW added, NEW shown,
             NEW appended, NEW names, SaveEdit(c, t, marks, added, shown, appended, names)
      PROVE  AttendanceLive' /\ MembersLive'
  <2>1. MembersLive'
    BY <1>4 DEF SaveEdit, MembersLive, GroupsThere, There
  <2> QED BY <1>4, <2>1, SaveEditLive
<1>5. ASSUME NEW m \in Meetings, DeleteMeeting(m)
      PROVE  AttendanceLive' /\ MembersLive'
  <2>1. MembersLive' /\ There' = There /\ GroupsThere' = GroupsThere
    BY <1>5 DEF DeleteMeeting, MembersLive, GroupsThere, There
  <2>2. \A n \in MeetingsThere : meeting[n].group \in GroupsThere
    BY DEF AttendanceLive
  <2>3. meeting' = Without({m})
    BY <1>5 DEF DeleteMeeting
  <2> QED BY <2>1, <2>2, <2>3, WithoutLive
<1>6. CASE UNCHANGED vars
  BY <1>6, SameRowsLive DEF vars
<1> QED
  BY <1>1, <1>2, <1>3, <1>4, <1>5, <1>6, DeleteUserLive, DeleteGroupLive DEF Next

-----------------------------------------------------------------------------
(* Names of files *)

\* A file that was uploaded keeps its name, and is not uploaded again.
LEMMA NamesStay ==
    ASSUME TypeOK, [Next]_vars
    PROVE  /\ FreshFiles' \subseteq FreshFiles
           /\ \A f \in Files \ FreshFiles : filename'[f] = filename[f]
<1>1. CASE filename' = filename
  BY <1>1 DEF FreshFiles
<1>2. ASSUME NEW new \in SUBSET FreshFiles, NEW names \in [new -> Names], Upload(names)
      PROVE  /\ FreshFiles' \subseteq FreshFiles
             /\ \A f \in Files \ FreshFiles : filename'[f] = filename[f]
  BY <1>2, UploadNames DEF TypeOK
<1>3. ASSUME NEW files \in Uploads, NEW names \in [Range(files) -> Names], Upload(names)
      PROVE  /\ FreshFiles' \subseteq FreshFiles
             /\ \A f \in Files \ FreshFiles : filename'[f] = filename[f]
  BY <1>2, <1>3, UploadsType
<1>4. ASSUME NEW c \in Clients, NEW e \in Entries(Len(page[c].files)),
             NEW names \in [AddedFiles(e.shown \o e.appended) -> Names], Upload(names)
      PROVE  /\ FreshFiles' \subseteq FreshFiles
             /\ \A f \in Files \ FreshFiles : filename'[f] = filename[f]
  <2>1. page[c].files \in Seq(Files)
    BY DEF TypeOK, Pages
  <2>2. Len(page[c].files) \in Nat
    BY <2>1
  <2>3. AddedFiles(e.shown \o e.appended) \in SUBSET FreshFiles
    BY <2>1, <2>2, EditFiles
  <2> QED BY <1>2, <1>4, <2>3
<1>5. ASSUME NEW c \in Clients, NEW m \in Meetings, NEW g \in Groups,
             NEW attendance \in Attendance, NEW files \in Uploads,
             NEW names \in [Range(files) -> Names],
             StartAddMeeting(c, m, g, attendance, files, names)
      PROVE  /\ FreshFiles' \subseteq FreshFiles
             /\ \A f \in Files \ FreshFiles : filename'[f] = filename[f]
  BY <1>3, <1>5 DEF StartAddMeeting
<1>6. ASSUME NEW c \in Clients, NEW t, NEW marks, NEW added,
             NEW e \in Entries(Len(page[c].files)),
             NEW names \in [AddedFiles(e.shown \o e.appended) -> Names],
             SaveEdit(c, t, marks, added, e.shown, e.appended, names)
      PROVE  /\ FreshFiles' \subseteq FreshFiles
             /\ \A f \in Files \ FreshFiles : filename'[f] = filename[f]
  <2>1. Upload(names)
    BY <1>6 DEF SaveEdit
  <2> QED BY <1>4, <2>1
<1>7. ASSUME NEW c \in Clients,
             \/ \E m : ShowEdit(c, m)
             \/ \E t : AddMeeting(c, t)
             \/ \E u : StartDeleteUser(c, u)
             \/ \E g : StartDeleteGroup(c, g)
             \/ LeaveEdit(c) \/ DeleteUser(c) \/ DeleteGroup(c) \/ Abort(c)
      PROVE  filename' = filename
  BY <1>7 DEF ShowEdit, AddMeeting, StartDeleteUser, StartDeleteGroup, LeaveEdit, DeleteUser,
              DeleteGroup, Abort
<1>8. ASSUME NEW m, DeleteMeeting(m)
      PROVE  filename' = filename
  BY <1>8 DEF DeleteMeeting
<1>9. CASE UNCHANGED vars
  BY <1>1, <1>9 DEF vars
<1> QED
  BY <1>1, <1>5, <1>6, <1>7, <1>8, <1>9 DEF Next

-----------------------------------------------------------------------------
(* Requests under way *)

\* Requests that go on or end keep what they know of a meeting that is inserted, is
\* deleted or is somebody else's.
LEMMA RequestsGoOn ==
    ASSUME TypeOK, AddOK, DeleteOK, FreshFiles' \subseteq FreshFiles,
           \A c \in Clients : req'[c] = req[c] \/ req'[c] = NoRequest,
           \A m \in Meetings : \/ meeting[m].state = "new" => meeting'[m].state = "new"
                               \/ \A c \in Clients : req'[c].meeting # m
    PROVE  AddOK' /\ DeleteOK'
<1>1. /\ NoRequest.op = "none" /\ NoRequest.meeting = None
      /\ \A m \in Meetings : m # None
  BY MeetingsAssumption DEF NoRequest
<1>2. AddOK'
  <2> SUFFICES ASSUME NEW c \in Clients, req'[c].op = "addMeeting"
               PROVE  /\ req'[c].meeting \in Meetings /\ req'[c].group \in Groups
                      /\ meeting'[req'[c].meeting].state = "new"
                      /\ NoneTwice(req'[c].files)
                      /\ Range(req'[c].files) \cap FreshFiles' = {}
                      /\ \A d \in Clients : req'[d].meeting = req'[c].meeting => d = c
    BY DEF AddOK, Uploaded, NoneTwice, Range
  <2>1. req'[c] = req[c]
    BY <1>1
  <2>2. /\ req[c].meeting \in Meetings /\ req[c].group \in Groups
        /\ meeting[req[c].meeting].state = "new"
        /\ NoneTwice(req[c].files) /\ Range(req[c].files) \cap FreshFiles = {}
        /\ \A d \in Clients : req[d].meeting = req[c].meeting => d = c
    BY <2>1 DEF AddOK, Uploaded
  <2>3. meeting'[req[c].meeting].state = "new"
    BY <2>1, <2>2
  <2>4. \A d \in Clients : req'[d].meeting = req[c].meeting => d = c
    BY <1>1, <2>2
  <2> QED BY <2>1, <2>2, <2>3, <2>4
<1>3. DeleteOK'
  BY <1>1 DEF DeleteOK
<1> QED
  BY <1>2, <1>3

LEMMA StartAddMeetingRequests ==
    ASSUME TypeOK, AddOK, DeleteOK, NEW c \in Clients, NEW m \in Meetings, NEW g \in Groups,
           NEW attendance \in Attendance, NEW files \in Uploads,
           NEW names \in [Range(files) -> Names],
           StartAddMeeting(c, m, g, attendance, files, names)
    PROVE  AddOK' /\ DeleteOK'
<1>1. /\ req'[c].op = "addMeeting" /\ req'[c].group = g /\ req'[c].meeting = m
      /\ req'[c].files = files
      /\ \A d \in Clients \ {c} : req'[d] = req[d]
  BY DEF StartAddMeeting, TypeOK, NoRequest
<1>2. meeting' = meeting /\ meeting[m].state = "new" /\ \A d \in Clients : req[d].meeting # m
  BY DEF StartAddMeeting
<1>3. NoneTwice(files) /\ Range(files) \in SUBSET FreshFiles
  BY UploadsType
<1>4. FreshFiles' = FreshFiles \ Range(files)
  <2>1. Upload(names) /\ filename \in [Files -> Names \cup {None}]
    BY DEF StartAddMeeting, TypeOK
  <2> QED BY <1>3, <2>1, UploadNames
<1>5. ASSUME NEW d \in Clients, req'[d].op = "addMeeting"
      PROVE  /\ req'[d].meeting \in Meetings /\ req'[d].group \in Groups
             /\ meeting'[req'[d].meeting].state = "new"
             /\ NoneTwice(req'[d].files) /\ Range(req'[d].files) \cap FreshFiles' = {}
             /\ \A e \in Clients : req'[e].meeting = req'[d].meeting => e = d
  <2>1. CASE d = c
    BY <1>1, <1>2, <1>3, <1>4, <2>1
  <2>2. CASE d # c
    <3>1. req'[d] = req[d]
      BY <1>1, <2>2
    <3>2. Range(req[d].files) \cap FreshFiles = {}
      BY <1>5, <3>1 DEF AddOK, Uploaded
    <3> QED BY <1>1, <1>2, <1>4, <1>5, <3>1, <3>2 DEF AddOK, Uploaded
  <2> QED BY <2>1, <2>2
<1>6. AddOK'
  BY <1>5 DEF AddOK, Uploaded, NoneTwice, Range
<1>7. DeleteOK'
  BY <1>1 DEF DeleteOK
<1> QED
  BY <1>6, <1>7

LEMMA StartDeleteRequests ==
    ASSUME TypeOK, AddOK, DeleteOK, NEW c \in Clients,
           \/ \E u \in Users : StartDeleteUser(c, u)
           \/ \E g \in Groups : StartDeleteGroup(c, g)
    PROVE  AddOK' /\ DeleteOK'
<1>1. /\ meeting' = meeting /\ filename' = filename
      /\ \A d \in Clients \ {c} : req'[d] = req[d]
  BY DEF StartDeleteUser, StartDeleteGroup, TypeOK
<1>2. req'[c].op \in {"deleteUser", "deleteGroup"} /\ req'[c].meeting = None
  BY ZenonT(30) DEF StartDeleteUser, StartDeleteGroup, TypeOK, NoRequest
<1>3. \A m \in Meetings : m # None
  BY MeetingsAssumption
<1>4. AddOK'
  BY <1>1, <1>2, <1>3 DEF AddOK, Uploaded, NoneTwice, Range, FreshFiles
<1>5. ASSUME NEW u \in Users, StartDeleteUser(c, u)
      PROVE  DeleteOK'
  <2>1. req'[c].op = "deleteUser" /\ req'[c].user = u
    BY <1>5 DEF StartDeleteUser, TypeOK, NoRequest
  <2> QED BY <1>1, <2>1 DEF DeleteOK
<1>6. ASSUME NEW g \in Groups, StartDeleteGroup(c, g)
      PROVE  DeleteOK'
  <2>1. req'[c].op = "deleteGroup" /\ req'[c].group = g
    BY <1>6 DEF StartDeleteGroup, TypeOK, NoRequest
  <2> QED BY <1>1, <2>1 DEF DeleteOK
<1> QED
  BY <1>4, <1>5, <1>6

\* Nothing but the insertion of a meeting ends its being new, and its request.
LEMMA NewMeetings ==
    ASSUME TypeOK, AddOK, DeleteOK, Next, NEW m \in Meetings
    PROVE  \/ meeting[m].state = "new" => meeting'[m].state = "new"
           \/ \A c \in Clients : req'[c].meeting # m
<1> DEFINE Stays == \/ meeting[m].state = "new" => meeting'[m].state = "new"
                    \/ \A c \in Clients : req'[c].meeting # m
<1> SUFFICES Stays
  OBVIOUS
<1>1. CASE meeting' = meeting
  BY <1>1
<1>2. ASSUME NEW c \in Clients, NEW t \in Times, AddMeeting(c, t)
      PROVE  Stays
  <2>1. CASE m = req[c].meeting
    <3>1. \A d \in Clients : req[d].meeting = m => d = c
      BY <1>2, <2>1 DEF AddMeeting, AddOK
    <3>2. req'[c].meeting = None /\ \A d \in Clients \ {c} : req'[d] = req[d]
      BY <1>2 DEF AddMeeting, EndRequest, NoRequest, TypeOK
    <3> QED BY <3>1, <3>2, MeetingsAssumption
  <2>2. CASE m # req[c].meeting
    BY <1>2, <2>2 DEF AddMeeting, TypeOK
  <2> QED BY <2>1, <2>2
<1>3. ASSUME NEW c \in Clients, NEW t, NEW marks, NEW added, NEW shown,
             NEW appended, NEW names, SaveEdit(c, t, marks, added, shown, appended, names)
      PROVE  Stays
  <2>1. meeting[m] \in MeetingRows
    BY DEF TypeOK
  <2>2. meeting'[m].state = meeting[m].state
    BY <1>3, <2>1 DEF SaveEdit, TypeOK, MeetingRows
  <2> QED BY <2>2
<1>4. ASSUME NEW c \in Clients, DeleteUser(c)
      PROVE  Stays
  <2>1. meeting[m] \in MeetingRows
    BY DEF TypeOK
  <2>2. meeting'[m].state = meeting[m].state
    BY <1>4, <2>1 DEF DeleteUser, MeetingRows
  <2> QED BY <2>2
<1>5. ASSUME NEW c \in Clients, DeleteGroup(c)
      PROVE  Stays
  BY <1>5 DEF DeleteGroup, Without, MeetingsOf, MeetingsThere
<1>6. ASSUME NEW n \in Meetings, DeleteMeeting(n)
      PROVE  Stays
  BY <1>6 DEF DeleteMeeting, Without, MeetingsThere
<1> HIDE DEF Stays
<1>7. ASSUME NEW c \in Clients,
             \/ \E n, g, attendance, files, names :
                   StartAddMeeting(c, n, g, attendance, files, names)
             \/ \E n \in Meetings : ShowEdit(c, n)
             \/ \E u \in Users : StartDeleteUser(c, u)
             \/ \E g \in Groups : StartDeleteGroup(c, g)
             \/ LeaveEdit(c) \/ Abort(c)
      PROVE  Stays
  BY <1>1, <1>7
     DEF StartAddMeeting, ShowEdit, StartDeleteUser, StartDeleteGroup, LeaveEdit, Abort
<1> QED
  BY <1>1, <1>2, <1>3, <1>4, <1>5, <1>6, <1>7 DEF Next

LEMMA RequestsStep ==
    ASSUME TypeOK, AddOK, DeleteOK, [Next]_vars
    PROVE  AddOK' /\ DeleteOK'
<1> DEFINE GoOn == \A c \in Clients : req'[c] = req[c] \/ req'[c] = NoRequest
<1>1. ASSUME Next, GoOn
      PROVE  AddOK' /\ DeleteOK'
  <2>1. \A m \in Meetings : \/ meeting[m].state = "new" => meeting'[m].state = "new"
                            \/ \A c \in Clients : req'[c].meeting # m
    BY <1>1, NewMeetings
  <2>2. FreshFiles' \subseteq FreshFiles
    BY NamesStay
  <2> QED BY <1>1, <2>1, <2>2, RequestsGoOn
<1>2. ASSUME NEW c \in Clients,
             \/ \E t \in Times : AddMeeting(c, t)
             \/ DeleteUser(c) \/ DeleteGroup(c) \/ Abort(c)
      PROVE  GoOn
  BY <1>2 DEF AddMeeting, DeleteUser, DeleteGroup, Abort, EndRequest, TypeOK
<1>3. ASSUME NEW c \in Clients,
             \/ \E m \in Meetings : ShowEdit(c, m)
             \/ \E t, marks, added, shown, appended, names :
                   SaveEdit(c, t, marks, added, shown, appended, names)
             \/ LeaveEdit(c)
      PROVE  GoOn
  BY ZenonT(30), <1>3 DEF ShowEdit, SaveEdit, LeaveEdit
<1>4. ASSUME NEW m \in Meetings, DeleteMeeting(m)
      PROVE  GoOn
  BY <1>4 DEF DeleteMeeting
<1>5. CASE UNCHANGED vars
  BY <1>5 DEF vars, AddOK, DeleteOK, Uploaded, NoneTwice, Range, FreshFiles
<1>6. ASSUME GroupStep
      PROVE  GoOn
  BY <1>6, GroupStepType
<1> HIDE DEF GoOn
<1> QED
  BY <1>1, <1>2, <1>3, <1>4, <1>5, <1>6, StartAddMeetingRequests, StartDeleteRequests DEF Next

-----------------------------------------------------------------------------
(* Files and the trail *)

\* What is told of files that were uploaded stays told while others are uploaded.
LEMMA StaysTold ==
    ASSUME NEW files \in Seq(Files), NEW trail, NEW names, NEW others, NEW exactly,
           \A f \in Range(files) : others[f] = names[f],
           Told(files, trail, names, exactly)
    PROVE  Told(files, trail, others, exactly)
<1>1. NamesOf(Range(files), others) = NamesOf(Range(files), names)
  BY NamesOfSame
<1> QED
  BY <1>1 DEF Told

\* The first event tells the files of a new meeting.
LEMMA CreationTold ==
    ASSUME NEW files \in Seq(Files), NEW names
    PROVE  Told(files, <<Creation(files, names)>>, names, TRUE)
<1> DEFINE e == Creation(files, names)
<1>1. e \in Events /\ e.added = NamesOf(Range(files), names) /\ e.removed = NamesOf({}, names)
  BY CreationType
<1>2. <<>> \in Seq(Events) /\ Append(<<>>, e) = <<e>>
  OBVIOUS
<1> HIDE DEF e
<1>3. ASSUME NEW n \in Names
      PROVE  Stock(<<e>>, n) = NamesOf(Range(files), names)[n]
             /\ NamesOf(Range(files), names)[n] \in Nat
  <2>1. Stock(<<e>>, n) = (Stock(<<>>, n) + e.added[n]) - e.removed[n]
    BY <1>1, <1>2, StockNext
  <2>2. Stock(<<>>, n) = 0 /\ NamesOf({}, names)[n] = 0
    BY StockFirst, NamesOfNone
  <2>3. NamesOf(Range(files), names)[n] \in Nat
    BY FiniteRange, CalledFew
  <2> QED BY <1>1, <2>1, <2>2, <2>3
<1> QED
  BY <1>3 DEF Told, e

\* An edit writes its event unless it leaves the files alone.
LEMMA StockAfter ==
    ASSUME NEW trail \in Seq(Events), NEW changes \in BOOLEAN, NEW added, IsFiniteSet(added),
           NEW removed, IsFiniteSet(removed), NEW names, NEW n \in Names
    PROVE  Stock(TrailAfter(trail, changes, added, removed, names), n) =
             (Stock(trail, n) + NamesOf(added, names)[n]) - NamesOf(removed, names)[n]
<1> DEFINE e == [type |-> IF changes THEN "update" ELSE "file_update",
                 added |-> NamesOf(added, names), removed |-> NamesOf(removed, names)]
<1>1. e \in Events /\ e.added = NamesOf(added, names) /\ e.removed = NamesOf(removed, names)
  <2>1. NamesOf(added, names) \in [Names -> Nat] /\ NamesOf(removed, names) \in [Names -> Nat]
    BY NamesOfType
  <2> QED BY <2>1 DEF Events
<1>2. CASE added = {} /\ removed = {}
  <2>1. NamesOf(added, names)[n] = 0 /\ NamesOf(removed, names)[n] = 0
    BY <1>2, NamesOfNone
  <2>2. TrailAfter(trail, changes, added, removed, names) = trail
    BY <1>2 DEF TrailAfter
  <2> QED BY <2>1, <2>2, StockType
<1>3. CASE ~(added = {} /\ removed = {})
  <2>1. TrailAfter(trail, changes, added, removed, names) = Append(trail, e)
    BY <1>3 DEF TrailAfter
  <2> HIDE DEF e
  <2> QED BY <1>1, <2>1, StockNext
<1> QED
  BY <1>2, <1>3

\* An edit of a meeting whose files the trail tells: it goes on telling them, if not
\* exactly from a page that showed fewer.
LEMMA EditTold ==
    ASSUME NEW files \in Seq(Files), Uploaded(files), NEW trail \in Seq(Events),
           NEW exactly \in BOOLEAN, NEW n \in Nat, NEW e \in Entries(n),
           NEW changes \in BOOLEAN, NEW names, Told(files, trail, names, exactly)
    PROVE  LET all == e.shown \o e.appended
               after == Populated(all, files)
           IN  /\ NoneTwice(after)
               /\ Range(after) \subseteq Range(files) \cup AddedFiles(all)
               /\ Told(after, TrailAfter(trail, changes, AddedFiles(all),
                                         RemovedFiles(e.shown, files), names),
                       names, exactly /\ Len(files) <= n)
<1> DEFINE all == e.shown \o e.appended
           after == Populated(all, files)
           new == AddedFiles(all)
           removed == RemovedFiles(e.shown, files)
           left == (Range(files) \ removed) \cup new
           trail1 == TrailAfter(trail, changes, new, removed, names)
<1>1. /\ new \in SUBSET FreshFiles /\ IsFiniteSet(new)
      /\ removed \in SUBSET Range(files) /\ IsFiniteSet(removed) /\ IsFiniteSet(Range(files))
  BY EditFiles
<1>2. /\ NoneTwice(after) /\ Range(after) \subseteq left
      /\ Len(files) <= n => Range(after) = left
  <2>1. FreshFiles \in SUBSET Files /\ NoneTwice(files) /\ FreshFiles \cap Range(files) = {}
    BY DEF FreshFiles, Uploaded
  <2>2. IsEdit(files, FreshFiles, all, e.shown, n)
    BY <2>1, EntriesType DEF IsEdit
  <2> HIDE DEF all
  <2> QED BY <2>2, PopulatedFiles
<1>3. new \cap Range(files) = {}
  BY <1>1 DEF Uploaded
<1> HIDE DEF new, removed, after
<1>4. ASSUME NEW k \in Names
      PROVE  /\ NamesOf(Range(after), names)[k] <= Stock(trail1, k)
             /\ exactly /\ Len(files) <= n
                => NamesOf(Range(after), names)[k] = Stock(trail1, k)
  <2>1. /\ IsFiniteSet(left)
        /\ NamesOf(left, names)[k] = (NamesOf(Range(files), names)[k] + NamesOf(new, names)[k])
                                     - NamesOf(removed, names)[k]
    BY <1>1, <1>3, NamesOfChanged
  <2>2. Stock(trail1, k) = (Stock(trail, k) + NamesOf(new, names)[k])
                           - NamesOf(removed, names)[k]
    BY <1>1, StockAfter
  <2>3. /\ NamesOf(Range(files), names)[k] <= Stock(trail, k)
        /\ exactly => NamesOf(Range(files), names)[k] = Stock(trail, k)
    BY DEF Told
  <2>4. /\ NamesOf(Range(files), names)[k] \in Nat /\ NamesOf(new, names)[k] \in Nat
        /\ NamesOf(removed, names)[k] \in Nat /\ Stock(trail, k) \in Int
    BY <1>1, CalledFew, StockType
  <2>5. NamesOf(left, names)[k] <= Stock(trail1, k)
    BY <2>1, <2>2, <2>3, <2>4
  <2>6. exactly => NamesOf(left, names)[k] = Stock(trail1, k)
    BY <2>1, <2>2, <2>3, <2>4
  <2> HIDE DEF left, trail1
  <2>7. /\ NamesOf(Range(after), names)[k] <= NamesOf(left, names)[k]
        /\ NamesOf(Range(after), names)[k] \in Nat /\ NamesOf(left, names)[k] \in Nat
    <3>1. IsFiniteSet(Range(after))
      BY <1>2, <2>1, FS_Subset
    <3> QED BY <1>2, <2>1, <3>1, NamesOfFewer, CalledFew
  <2>8. Stock(trail1, k) \in Int
    BY <2>2, <2>4
  <2> QED BY <1>2, <2>5, <2>6, <2>7, <2>8
<1>5. Told(after, trail1, names, exactly /\ Len(files) <= n)
  BY <1>4 DEF Told
<1>6. Range(after) \subseteq Range(files) \cup new
  BY <1>2
<1> QED
  BY <1>2, <1>5, <1>6 DEF after, new, removed

\* The files of a meeting are not those of new uploads, in any step.
LEMMA SameFilesTrail ==
    ASSUME TypeOK, TrailOK, [Next]_vars, NEW m \in MeetingsThere,
           meeting'[m].files = meeting[m].files, meeting'[m].trail = meeting[m].trail,
           m \in stale' <=> m \in stale
    PROVE  /\ NoneTwice(meeting'[m].files) /\ Range(meeting'[m].files) \cap FreshFiles' = {}
           /\ Told(meeting'[m].files, meeting'[m].trail, filename', m \notin stale')
<1>1. meeting[m].files \in Seq(Files)
  BY DEF TypeOK, MeetingsThere, MeetingRows
<1>2. /\ NoneTwice(meeting[m].files) /\ Range(meeting[m].files) \cap FreshFiles = {}
      /\ Told(meeting[m].files, meeting[m].trail, filename, m \notin stale)
  BY DEF TrailOK, Uploaded
<1>3. /\ FreshFiles' \subseteq FreshFiles
      /\ \A f \in Files \ FreshFiles : filename'[f] = filename[f]
  BY NamesStay
<1>4. Range(meeting[m].files) \subseteq Files \ FreshFiles
  BY <1>1, <1>2, RangeOfSeq
<1>5. Told(meeting[m].files, meeting[m].trail, filename', m \notin stale)
  BY <1>1, <1>2, <1>3, <1>4, StaysTold
<1>6. (m \notin stale') = (m \notin stale)
  OBVIOUS
<1> QED
  BY <1>2, <1>3, <1>5, <1>6

LEMMA SaveEditTrail ==
    ASSUME TypeOK, TrailOK, NEW c \in Clients, NEW t \in Times, NEW added,
           NEW marks \in [page[c].listed -> {"no"} \cup Statuses],
           NEW e \in Entries(Len(page[c].files)),
           NEW names \in [AddedFiles(e.shown \o e.appended) -> Names],
           SaveEdit(c, t, marks, added, e.shown, e.appended, names),
           NEW m \in MeetingsThere, m = page[c].meeting
    PROVE  /\ NoneTwice(meeting'[m].files) /\ Range(meeting'[m].files) \cap FreshFiles' = {}
           /\ Told(meeting'[m].files, meeting'[m].trail, filename', m \notin stale')
<1> DEFINE row == meeting[m]
           all == e.shown \o e.appended
           attendance == Synced(page[c].listed, marks, added)
           removed == RemovedFiles(e.shown, row.files)
           new == AddedFiles(all)
           changes == TracksChanges(row.attendance, attendance, t # row.time)
           trail == TrailAfter(row.trail, changes, new, removed, filename')
           n == Len(page[c].files)
           exactly == m \notin stale
<1>1. m \in Meetings /\ row \in MeetingRows
  BY DEF TypeOK, MeetingsThere
<1>2. row.files \in Seq(Files) /\ row.trail \in Seq(Events)
  BY <1>1 DEF MeetingRows
<1>3. meeting'[m].files = Populated(all, row.files) /\ meeting'[m].trail = trail
  <2>1. meeting' = [meeting EXCEPT ![m] =
                      [row EXCEPT !.time = t, !.attendance = attendance,
                                  !.files = Populated(all, row.files), !.trail = trail]]
    BY DEF SaveEdit
  <2> HIDE DEF row, attendance, trail, all
  <2>2. meeting'[m] = [row EXCEPT !.time = t, !.attendance = attendance,
                                  !.files = Populated(all, row.files), !.trail = trail]
    BY <1>1, <2>1 DEF TypeOK
  <2> QED BY <1>1, <2>2 DEF MeetingRows
<1>4. n \in Nat
  <2>1. page[c].files \in Seq(Files)
    BY DEF TypeOK, Pages
  <2> QED BY <2>1
<1>5. new \in SUBSET FreshFiles
  <2> HIDE DEF n, row
  <2> QED BY <1>2, <1>4, EditFiles DEF n
<1>6. /\ FreshFiles' = FreshFiles \ new
      /\ \A f \in Files \ FreshFiles : filename'[f] = filename[f]
  <2>1. Upload(names) /\ filename \in [Files -> Names \cup {None}]
    BY DEF SaveEdit, TypeOK
  <2> QED BY <1>5, <2>1, UploadNames
<1>7. Uploaded(row.files) /\ Told(row.files, row.trail, filename, exactly)
  BY DEF TrailOK
<1>8. Range(row.files) \subseteq Files \ FreshFiles
  BY <1>2, <1>7, RangeOfSeq DEF Uploaded
<1>9. Told(row.files, row.trail, filename', exactly)
  <2> HIDE DEF row, exactly
  <2> QED BY <1>2, <1>6, <1>7, <1>8, StaysTold
<1>10. changes \in BOOLEAN /\ exactly \in BOOLEAN
  BY DEF TracksChanges
<1>11. /\ NoneTwice(Populated(all, row.files))
       /\ Range(Populated(all, row.files)) \subseteq Range(row.files) \cup new
       /\ Told(Populated(all, row.files), trail, filename', exactly /\ Len(row.files) <= n)
  <2> HIDE DEF row, changes, exactly
  <2> QED BY <1>2, <1>4, <1>7, <1>9, <1>10, EditTold
<1>12. m \notin stale' => exactly /\ Len(row.files) <= n
  <2>1. stale' = IF page[c].files = row.files THEN stale ELSE stale \cup {m}
    BY DEF SaveEdit
  <2> QED BY <1>4, <2>1
<1>13. Range(Populated(all, row.files)) \cap FreshFiles' = {}
  BY <1>6, <1>8, <1>11
<1> HIDE DEF row, trail, exactly, all, new
<1>14. Told(Populated(all, row.files), trail, filename', m \notin stale')
  BY <1>11, <1>12 DEF Told
<1> QED
  BY <1>3, <1>11, <1>13, <1>14

LEMMA AddMeetingTrail ==
    ASSUME TypeOK, AddOK, NEW c \in Clients, NEW t \in Times, AddMeeting(c, t),
           NEW m \in Meetings, m = req[c].meeting
    PROVE  /\ NoneTwice(meeting'[m].files) /\ Range(meeting'[m].files) \cap FreshFiles' = {}
           /\ Told(meeting'[m].files, meeting'[m].trail, filename', m \notin stale')
<1>1. /\ meeting'[m].files = req[c].files
      /\ meeting'[m].trail = <<Creation(req[c].files, filename)>>
  BY DEF AddMeeting, TypeOK, Creation
<1>2. /\ NoneTwice(req[c].files) /\ Range(req[c].files) \cap FreshFiles = {}
      /\ FreshFiles' = FreshFiles /\ filename' = filename
  BY DEF AddMeeting, AddOK, Uploaded, FreshFiles
<1>3. req[c].files \in Seq(Files)
  BY DEF TypeOK, Requests
<1>4. Told(req[c].files, <<Creation(req[c].files, filename)>>, filename, TRUE)
  BY <1>3, CreationTold
<1>5. Told(req[c].files, <<Creation(req[c].files, filename)>>, filename, m \notin stale')
  BY <1>4 DEF Told
<1> QED
  BY <1>1, <1>2, <1>5

\* In a step, a meeting that is there after it is inserted, saved, or has the files
\* and the trail it had.
LEMMA FilesChange ==
    ASSUME TypeOK, AddOK, [Next]_vars, NEW m \in MeetingsThere'
    PROVE  \/ /\ m \in MeetingsThere /\ (m \in stale' <=> m \in stale)
              /\ meeting'[m].files = meeting[m].files /\ meeting'[m].trail = meeting[m].trail
           \/ \E c \in Clients, t \in Times : AddMeeting(c, t) /\ m = req[c].meeting
           \/ \E c \in Clients : \E t \in Times, added \in SUBSET There,
                 marks \in [page[c].listed -> {"no"} \cup Statuses],
                 e \in Entries(Len(page[c].files)) :
                 \E names \in [AddedFiles(e.shown \o e.appended) -> Names] :
                    /\ SaveEdit(c, t, marks, added, e.shown, e.appended, names)
                    /\ m = page[c].meeting /\ m \in MeetingsThere
<1> DEFINE Same == /\ m \in MeetingsThere /\ (m \in stale' <=> m \in stale)
                   /\ meeting'[m].files = meeting[m].files
                   /\ meeting'[m].trail = meeting[m].trail
<1>1. CASE meeting' = meeting /\ stale' = stale
  <2>1. Same
    BY <1>1 DEF MeetingsThere
  <2> QED BY <2>1
<1>2. ASSUME NEW c \in Clients, NEW t \in Times, AddMeeting(c, t), m # req[c].meeting
      PROVE  Same
  BY <1>2 DEF AddMeeting, MeetingsThere, TypeOK
<1>3. ASSUME NEW c \in Clients, NEW t, NEW marks, NEW added, NEW shown, NEW appended,
             NEW names, SaveEdit(c, t, marks, added, shown, appended, names),
             m # page[c].meeting
      PROVE  Same
  <2>1. page[c].meeting \in Meetings /\ meeting'[m] = meeting[m]
    BY <1>3 DEF SaveEdit, MeetingsThere, TypeOK
  <2>2. m \in stale' <=> m \in stale
    BY <1>3 DEF SaveEdit
  <2> QED BY <2>1, <2>2 DEF MeetingsThere
<1>4. ASSUME NEW c \in Clients, NEW t, NEW marks, NEW added, NEW shown, NEW appended,
             NEW names, SaveEdit(c, t, marks, added, shown, appended, names)
      PROVE  page[c].meeting \in MeetingsThere
  BY <1>4 DEF SaveEdit
<1>5. ASSUME NEW c \in Clients, DeleteUser(c)
      PROVE  Same
  <2>1. meeting[m] \in MeetingRows /\ m \in Meetings
    BY DEF TypeOK, MeetingsThere
  <2>2. /\ meeting'[m].state = meeting[m].state /\ meeting'[m].files = meeting[m].files
        /\ meeting'[m].trail = meeting[m].trail
    BY <1>5, <2>1 DEF DeleteUser, MeetingRows
  <2> QED BY <1>5, <2>2 DEF DeleteUser, MeetingsThere
<1>6. ASSUME NEW ms, meeting' = Without(ms), stale' = stale
      PROVE  Same
  BY <1>6 DEF Without, MeetingsThere
<1>7. ASSUME NEW c \in Clients, DeleteGroup(c)
      PROVE  Same
  BY <1>6, <1>7 DEF DeleteGroup
<1>8. ASSUME NEW n \in Meetings, DeleteMeeting(n)
      PROVE  Same
  BY <1>6, <1>8 DEF DeleteMeeting
<1>9. ASSUME NEW c \in Clients,
             \/ \E n, g, attendance, files, names :
                   StartAddMeeting(c, n, g, attendance, files, names)
             \/ \E n \in Meetings : ShowEdit(c, n)
             \/ \E u \in Users : StartDeleteUser(c, u)
             \/ \E g \in Groups : StartDeleteGroup(c, g)
             \/ LeaveEdit(c) \/ Abort(c)
      PROVE  meeting' = meeting /\ stale' = stale
  BY <1>9
     DEF StartAddMeeting, ShowEdit, StartDeleteUser, StartDeleteGroup, LeaveEdit, Abort
<1>10. CASE UNCHANGED vars
  BY <1>1, <1>10 DEF vars
<1> HIDE DEF Same
<1>11. CASE \E c \in Clients : \E t \in Times, marks \in [page[c].listed -> {"no"} \cup Statuses],
                added \in SUBSET There, e \in Entries(Len(page[c].files)) :
                \E names \in [AddedFiles(e.shown \o e.appended) -> Names] :
                    SaveEdit(c, t, marks, added, e.shown, e.appended, names)
  BY <1>3, <1>4, <1>11 DEF Same
<1> QED
  BY <1>1, <1>2, <1>5, <1>7, <1>8, <1>9, <1>10, <1>11 DEF Next, Same

LEMMA TrailStep ==
    ASSUME TypeOK, AddOK, TrailOK, [Next]_vars
    PROVE  TrailOK'
<1>1. ASSUME NEW m \in MeetingsThere'
      PROVE  /\ NoneTwice(meeting'[m].files) /\ Range(meeting'[m].files) \cap FreshFiles' = {}
             /\ Told(meeting'[m].files, meeting'[m].trail, filename', m \notin stale')
  <2>1. m \in Meetings
    BY DEF MeetingsThere
  <2> QED BY <2>1, FilesChange, SameFilesTrail, AddMeetingTrail, SaveEditTrail
<1> QED
  BY <1>1 DEF TrailOK, Uploaded, NoneTwice, Range, Told

-----------------------------------------------------------------------------
(* Theorems *)

LEMMA InitHolds == Init => IInv
<1> SUFFICES ASSUME Init PROVE IInv
  OBVIOUS
<1>1. /\ \A m \in Meetings : meeting[m].state = "new"
      /\ \A c \in Clients : req[c] = NoRequest
  BY DEF Init
<1>2. TypeOK
  <2>1. GroupTypeOK
    BY DEF Init, GroupInit, GroupTypeOK, GroupRows, NewGroup, States
  <2>2. meeting \in [Meetings -> MeetingRows]
    BY NothingType DEF Init, MeetingRows, States
  <2> QED BY <2>1, <2>2, NothingType DEF Init, TypeOK
<1>3. MembersLive
  BY DEF Init, GroupInit, NewGroup, MembersLive, GroupsThere
<1> QED
  BY <1>1, <1>2, <1>3
  DEF IInv, AttendanceLive, MeetingsThere, AddOK, DeleteOK, TrailOK, NoRequest

THEOREM Inductive == Spec => []IInv
<1>1. IInv /\ [Next]_vars => IInv'
  BY TypeStep, LiveStep, RequestsStep, TrailStep DEF IInv
<1> QED
  BY InitHolds, <1>1, PTL DEF Spec

\* The tables, the pages, the names of files and the requests under way hold values
\* of their types.
THEOREM TypeCorrect == Spec => []TypeOK
<1>1. IInv => TypeOK
  BY DEF IInv
<1> QED
  BY Inductive, <1>1, PTL

\* No meeting is attended by, and no group has as member, leader or chairman, a user
\* who is gone, and no meeting belongs to a group that is gone: deletions, which
\* read and write in two steps, overlap with everything else that is saved.
THEOREM NoReferenceDangles == Spec => []ReferencesLive
<1>1. IInv => ReferencesLive
  BY DEF IInv, AttendanceLive, MembersLive, ReferencesLive
<1> QED
  BY Inductive, <1>1, PTL

\* Of each file name, the events of a trail add up to at least as many files as the
\* meeting has, whatever pages it was saved from and however many files share the
\* name, and to exactly as many unless a page did not show the files of its time.
THEOREM TrailTellsFiles == Spec => []FilesFromTrail
<1>1. IInv => FilesFromTrail
  BY DEF IInv, TrailOK, Told, FilesFromTrail
<1> QED
  BY Inductive, <1>1, PTL
=============================================================================
