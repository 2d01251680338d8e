---------------------------------- MODULE Mail_proofs ----------------------------------
(* Proofs about Mail, for any number of mails, any sizes and any limits: what a  *)
(* call tells of a mail is about that mail, and the asserts of finish_batch fail *)
(* only for a mail that is too large on its own.                                 *)
EXTENDS Mail, SequenceTheorems, TLAPS

-----------------------------------------------------------------------------
(* The inductive invariant *)

TypeOK ==
    /\ mails \in Seq(Sizes)
    /\ next \in 1 .. Len(mails) + 1
    /\ buffer \in Seq(1 .. Len(mails))
    /\ size \in Nat
    /\ full \in BOOLEAN
    /\ result \in Seq(States)
    /\ accepted \in [1 .. Len(mails) -> Nat]
    /\ end \in Ends

\* The batch are the mails after those the call can tell of, up to where the
\* loop has come: a place in the answers of a batch is a place in the list.
BatchOK ==
    /\ Len(result) + Len(buffer) = next - 1
    /\ \A k \in 1 .. Len(buffer) : buffer[k] = Len(result) + k
    /\ Len(buffer) <= BatchLimit
    /\ ~full => Len(buffer) < BatchLimit
    /\ full => Len(buffer) > 0

TooLargeAlone == \E i \in DOMAIN mails : Preamble + mails[i] + Postamble > SizeLimit

\* The batch fits, unless there is a mail that fits in no batch.
SizeOK ==
    /\ Len(buffer) = 0 => size = Preamble
    /\ Len(buffer) > 0 => size + Postamble <= SizeLimit \/ TooLargeAlone

\* The API has taken no mail twice, and none that the call cannot tell of yet.
AnswersOK ==
    \A i \in 1 .. Len(mails) :
        /\ accepted[i] <= 1
        /\ i > Len(result) /\ end # "connection" => accepted[i] = 0
        /\ i <= Len(result) => /\ result[i] = "id" => accepted[i] = 1
                               /\ result[i] = "inactive_recipient" => accepted[i] = 0

IInv == TypeOK /\ BatchOK /\ SizeOK /\ AnswersOK /\ AssertsHold

-----------------------------------------------------------------------------
(* Sequences *)

\* A function on 1 .. n is a sequence of length n.
LEMMA FunctionIsSeq ==
    ASSUME NEW S, NEW n \in Nat, NEW f \in [1 .. n -> S]
    PROVE  f \in Seq(S) /\ Len(f) = n
<1>1. f \in Seq(S)
  BY SeqDef
<1>2. QED
  BY <1>1, LenProperties

\* The initial states satisfy the invariant.
LEMMA InitHolds == Init => IInv
<1>0. SUFFICES ASSUME Init PROVE IInv
  OBVIOUS
<1>1. mails \in Seq(Sizes)
  <2>1. PICK n \in 0 .. MaxMails : mails \in [1 .. n -> Sizes]
    BY <1>0 DEF Init
  <2>2. QED
    BY <2>1, MailAssumption, FunctionIsSeq
<1>2. Len(mails) \in Nat /\ DOMAIN mails = 1 .. Len(mails)
  BY <1>1, LenProperties
<1>3. /\ next = 1 /\ buffer = <<>> /\ size = Preamble /\ full = FALSE /\ result = <<>>
      /\ accepted = [i \in 1 .. Len(mails) |-> 0] /\ end = "none"
  BY <1>0 DEF Init
<1>4. /\ buffer \in Seq(1 .. Len(mails)) /\ Len(buffer) = 0
      /\ result \in Seq(States) /\ Len(result) = 0
  BY <1>3, EmptySeq
<1>5. accepted \in [1 .. Len(mails) -> Nat] /\ \A i \in 1 .. Len(mails) : accepted[i] = 0
  BY <1>3
<1>6. TypeOK
  <2>1. next \in 1 .. Len(mails) + 1
    BY <1>2, <1>3
  <2>2. QED
    BY <1>1, <1>3, <1>4, <1>5, <2>1, MailAssumption DEF TypeOK, Ends
<1>7. BatchOK /\ SizeOK /\ AssertsHold
  BY <1>3, <1>4, MailAssumption DEF BatchOK, SizeOK, AssertsHold
<1>8. AnswersOK
  BY <1>2, <1>4, <1>5 DEF AnswersOK
<1>9. QED
  BY <1>6, <1>7, <1>8 DEF IInv

-----------------------------------------------------------------------------
(* The steps *)

\* Numbers that the steps count with.
LEMMA Counts ==
    ASSUME IInv
    PROVE  /\ Len(mails) \in Nat /\ DOMAIN mails = 1 .. Len(mails)
           /\ \A i \in 1 .. Len(mails) : mails[i] \in Nat
           /\ Len(buffer) \in Nat /\ Len(result) \in Nat
           /\ DOMAIN result = 1 .. Len(result)
           /\ buffer = <<>> <=> Len(buffer) = 0
           /\ Len(result) + Len(buffer) <= Len(mails)
<1>1. mails \in Seq(Sizes) /\ buffer \in Seq(1 .. Len(mails)) /\ result \in Seq(States)
  BY DEF IInv, TypeOK
<1>2. /\ Len(mails) \in Nat /\ DOMAIN mails = 1 .. Len(mails)
      /\ Len(buffer) \in Nat /\ Len(result) \in Nat
      /\ DOMAIN result = 1 .. Len(result)
  BY <1>1, LenProperties
<1>3. \A i \in 1 .. Len(mails) : mails[i] \in Nat
  BY <1>1, MailAssumption, ElementOfSeq
<1>4. buffer = <<>> <=> Len(buffer) = 0
  BY <1>1, EmptySeq
<1>5. Len(result) + Len(buffer) <= Len(mails)
  BY <1>2 DEF IInv, TypeOK, BatchOK
<1>6. QED
  BY <1>2, <1>3, <1>4, <1>5

LEMMA Lengths ==
    ASSUME IInv
    PROVE  Len(mails) \in Nat /\ Len(buffer) \in Nat /\ Len(result) \in Nat
BY Counts

\* The loop writes a mail into the batch, or finds that the batch is full.
LEMMA WriteStep ==
    ASSUME IInv, Write
    PROVE  IInv'
<1>1. /\ UNCHANGED <<mails, result, accepted, end>>
      /\ buffer' = Append(buffer, next) /\ next' = next + 1
      /\ size' = size + Comma + mails[next]
      /\ full' \in BOOLEAN /\ (full' <=> Len(buffer') = BatchLimit)
      /\ ~full /\ next \in 1 .. Len(mails) /\ end = "none"
      /\ IsTooLarge(next) => Len(buffer) = 0
  <2>1. full' = (Len(buffer') = BatchLimit)
    BY DEF Write
  <2>2. full' \in BOOLEAN /\ (full' <=> Len(buffer') = BatchLimit)
    BY <2>1
  <2>3. QED
    BY <2>2, Counts DEF Write, IInv, TypeOK
<1>2. /\ buffer' \in Seq(1 .. Len(mails)) /\ Len(buffer') = Len(buffer) + 1
      /\ \A k \in 1 .. Len(buffer) : buffer'[k] = buffer[k]
      /\ buffer'[Len(buffer) + 1] = next
  BY <1>1, AppendProperties DEF IInv, TypeOK
<1>3. Comma \in {0, 1} /\ (Len(buffer) = 0 => Comma = 0)
  BY Counts DEF Comma
<1>4. TypeOK'
  <2>1. size' \in Nat
    <3>1. size \in Nat /\ mails[next] \in Nat
      BY <1>1, Counts DEF IInv, TypeOK
    <3>2. QED
      BY <1>1, <1>3, <3>1
  <2>2. next' \in 1 .. Len(mails) + 1
    BY <1>1, Counts
  <2>3. QED
    BY <1>1, <1>2, <2>1, <2>2 DEF IInv, TypeOK
<1>5. BatchOK'
  <2>1. /\ Len(result) + Len(buffer) = next - 1 /\ Len(buffer) < BatchLimit
        /\ \A k \in 1 .. Len(buffer) : buffer[k] = Len(result) + k
    BY <1>1 DEF IInv, BatchOK
  <2>2. next = Len(result) + Len(buffer) + 1
    BY <1>1, <2>1, Counts
  <2>3. Len(result) + Len(buffer') = next' - 1
    BY <1>1, <1>2, <2>2, Counts
  <2>4. \A k \in 1 .. Len(buffer') : buffer'[k] = Len(result) + k
    <3>1. ASSUME NEW k \in 1 .. Len(buffer) + 1 PROVE buffer'[k] = Len(result) + k
      <4>1. k \in 1 .. Len(buffer) \/ k = Len(buffer) + 1
        BY Lengths
      <4>2. QED
        BY <1>2, <2>1, <2>2, <4>1, Lengths
    <3>2. QED
      BY <1>2, <3>1
  <2>5. /\ Len(buffer') <= BatchLimit /\ Len(buffer') > 0
        /\ ~full' => Len(buffer') < BatchLimit
    BY <1>1, <1>2, <2>1, Lengths, MailAssumption
  <2>6. QED
    BY <1>1, <2>3, <2>4, <2>5 DEF BatchOK
<1>6. SizeOK'
  <2>1. size \in Nat /\ mails[next] \in Nat
    BY <1>1, Counts DEF IInv, TypeOK
  <2>2. CASE IsTooLarge(next)
    <3>1. size' = Preamble + mails[next]
      BY <1>1, <1>3, <2>1, <2>2, MailAssumption DEF IInv, SizeOK
    <3>2. size' + Postamble <= SizeLimit \/ TooLargeAlone
      <4>1. next \in DOMAIN mails
        BY <1>1, Counts
      <4>2. Preamble + mails[next] + Postamble > SizeLimit => TooLargeAlone
        BY <4>1 DEF TooLargeAlone
      <4>3. QED
        BY <2>1, <3>1, <4>2, MailAssumption
    <3>3. QED
      BY <1>1, <1>2, <3>2, Counts DEF SizeOK, TooLargeAlone
  <2>3. CASE ~IsTooLarge(next)
    <3>1. size' + Postamble <= SizeLimit
      BY <1>1, <1>3, <2>1, <2>3, MailAssumption DEF IsTooLarge
    <3>2. QED
      BY <1>2, <3>1, Counts DEF SizeOK
  <2>4. QED
    BY <2>2, <2>3
<1>7. AnswersOK' /\ AssertsHold'
  BY <1>1 DEF IInv, AnswersOK, AssertsHold
<1>8. QED
  BY <1>4, <1>5, <1>6, <1>7 DEF IInv

\* A batch is posted: the answers are about its mails, of which the API took each
\* at most once.
LEMMA PostStep ==
    ASSUME IInv, CanPost, Continue, NEW answers \in [1 .. Len(buffer) -> States],
           NEW S \in SUBSET (1 .. Len(buffer)),
           result' = result \o answers,
           accepted' = Taken({buffer[k] : k \in S}),
           \A k \in 1 .. Len(buffer) : /\ answers[k] = "id" => k \in S
                                       /\ answers[k] = "inactive_recipient" => k \notin S
    PROVE  IInv'
<1>1. /\ UNCHANGED <<mails, next, end>> /\ end = "none" /\ full
      /\ buffer' = <<>> /\ size' = Preamble /\ full' = FALSE
  BY DEF Continue, NextBatch, CanPost
<1>2. Len(buffer') = 0 /\ buffer' \in Seq(1 .. Len(mails))
  BY <1>1, EmptySeq
<1>3. answers \in Seq(States) /\ Len(answers) = Len(buffer)
  BY Counts, FunctionIsSeq
<1>4. /\ result' \in Seq(States) /\ Len(result') = Len(result) + Len(buffer)
      /\ \A i \in 1 .. Len(result) : result'[i] = result[i]
      /\ \A i \in 1 .. Len(result) + Len(buffer) :
            i > Len(result) => result'[i] = answers[i - Len(result)]
  <2>1. result \in Seq(States)
    BY DEF IInv, TypeOK
  <2>2. /\ result \o answers \in Seq(States)
        /\ Len(result \o answers) = Len(result) + Len(answers)
        /\ \A i \in 1 .. Len(result) + Len(answers) : (result \o answers)[i] =
              IF i <= Len(result) THEN result[i] ELSE answers[i - Len(result)]
    BY <1>3, <2>1, ConcatProperties
  <2>3. QED
    BY <1>3, <2>2, Counts
<1>5. /\ accepted' \in [1 .. Len(mails) -> Nat]
      /\ \A i \in 1 .. Len(mails) :
            accepted'[i] = accepted[i] + IF i \in {buffer[k] : k \in S} THEN 1 ELSE 0
  BY SMTT(20), Counts DEF IInv, TypeOK, Taken
<1>6. ASSUME NEW i \in 1 .. Len(mails)
      PROVE  i \in {buffer[k] : k \in S} <=> i - Len(result) \in S
  <2>1. \A k \in S : k \in Nat /\ buffer[k] = Len(result) + k
    BY Counts DEF IInv, BatchOK
  <2>2. \A k \in S : i = Len(result) + k <=> k = i - Len(result)
    BY <2>1, Counts
  <2>3. QED
    BY <2>1, <2>2
<1>7. TypeOK'
  BY <1>1, <1>2, <1>4, <1>5, MailAssumption DEF IInv, TypeOK
<1>8. BatchOK'
  BY <1>1, <1>2, <1>4, Counts, MailAssumption DEF IInv, TypeOK, BatchOK
<1>9. SizeOK'
  BY <1>1, <1>2 DEF SizeOK
<1>10. ASSUME NEW i \in 1 .. Len(mails)
       PROVE  /\ accepted'[i] <= 1
              /\ i > Len(result') => accepted'[i] = 0
              /\ i <= Len(result') => /\ result'[i] = "id" => accepted'[i] = 1
                                      /\ result'[i] = "inactive_recipient" => accepted'[i] = 0
  <2>1. accepted[i] \in Nat /\ accepted[i] <= 1 /\ (i > Len(result) => accepted[i] = 0)
    BY <1>1 DEF IInv, TypeOK, AnswersOK
  <2>2. CASE i <= Len(result)
    <3>1. i - Len(result) \notin S
      BY <2>2, Counts
    <3>2. accepted'[i] = accepted[i]
      <4>1. i \notin {buffer[k] : k \in S}
        BY <1>6, <3>1
      <4>2. QED
        BY SMTT(20), <1>5, <2>1, <4>1
    <3>3. result'[i] = result[i] /\ ~(i > Len(result'))
      BY <1>4, <2>2, Counts
    <3>4. QED
      BY <2>1, <2>2, <3>2, <3>3 DEF IInv, AnswersOK
  <2>3. CASE i > Len(result)
    <3>1. accepted'[i] = IF i - Len(result) \in S THEN 1 ELSE 0
      BY SMTT(20), <1>5, <1>6, <2>1, <2>3
    <3>2. i <= Len(result') => /\ i - Len(result) \in 1 .. Len(buffer)
                               /\ result'[i] = answers[i - Len(result)]
      BY <1>4, <2>3, Counts
    <3>3. i > Len(result') => i - Len(result) \notin S
      BY <1>4, Counts
    <3>4. QED
      BY <3>1, <3>2, <3>3
  <2>4. QED
    BY <2>2, <2>3, Counts
<1>11. AnswersOK' /\ AssertsHold'
  BY <1>1, <1>10 DEF AnswersOK, AssertsHold
<1>12. QED
  BY <1>7, <1>8, <1>9, <1>11 DEF IInv

\* A connection that fails ends the call: what it took of the batch is not told.
LEMMA ConnectionStep ==
    ASSUME IInv, ConnectionFails
    PROVE  IInv'
<1>1. /\ UNCHANGED <<mails, next, buffer, size, full, result>>
      /\ end = "none" /\ end' = "connection"
      /\ accepted' \in {accepted, Taken(Range(buffer))}
  BY DEF ConnectionFails, CanPost
<1>2. \A i \in 1 .. Len(mails) : i \in Range(buffer) => i > Len(result)
  <2>1. DOMAIN buffer = 1 .. Len(buffer)
    BY LenProperties DEF IInv, TypeOK
  <2>2. QED
    BY <2>1, Counts DEF IInv, BatchOK, Range
<1>3. /\ accepted' \in [1 .. Len(mails) -> Nat]
      /\ \A i \in 1 .. Len(mails) :
            accepted'[i] \in {accepted[i], accepted[i] + IF i \in Range(buffer) THEN 1 ELSE 0}
  <2>1. DOMAIN accepted = 1 .. Len(mails) /\ \A i \in 1 .. Len(mails) : accepted[i] \in Nat
    BY DEF IInv, TypeOK
  <2>2. Taken(Range(buffer)) = [i \in 1 .. Len(mails) |->
                                  accepted[i] + IF i \in Range(buffer) THEN 1 ELSE 0]
    BY <2>1 DEF Taken
  <2>3. Taken(Range(buffer)) \in [1 .. Len(mails) -> Nat]
    BY <2>1, <2>2
  <2>4. QED
    BY <1>1, <2>2, <2>3 DEF IInv, TypeOK
<1>4. ASSUME NEW i \in 1 .. Len(mails)
      PROVE  accepted'[i] <= 1 /\ (i <= Len(result) => accepted'[i] = accepted[i])
  <2>1. accepted[i] \in Nat /\ accepted[i] <= 1 /\ (i > Len(result) => accepted[i] = 0)
    BY <1>1 DEF IInv, TypeOK, AnswersOK
  <2>2. i > Len(result) \/ i \notin Range(buffer)
    BY <1>2
  <2>3. QED
    BY <1>3, <2>1, <2>2, Counts
<1>5. TypeOK'
  BY <1>1, <1>3 DEF IInv, TypeOK, Ends
<1>6. BatchOK' /\ SizeOK' /\ AssertsHold'
  BY <1>1 DEF IInv, BatchOK, SizeOK, AssertsHold, TooLargeAlone
<1>7. AnswersOK'
  BY <1>1, <1>4 DEF IInv, AnswersOK
<1>8. QED
  BY <1>5, <1>6, <1>7 DEF IInv

\* Every step keeps the invariant.
LEMMA Step == IInv /\ [Next]_vars => IInv'
<1>0. SUFFICES ASSUME IInv, [Next]_vars PROVE IInv'
  OBVIOUS
<1>1. CASE FinishBefore \/ UNCHANGED vars
  <2>1. /\ UNCHANGED <<mails, next, buffer, size, result, accepted, end>>
        /\ full' \in BOOLEAN /\ (full' => Len(buffer) > 0) /\ (~full' => ~full)
    <3>1. full \in BOOLEAN /\ (full => Len(buffer) > 0)
      BY <1>0 DEF IInv, TypeOK, BatchOK
    <3>2. CASE FinishBefore
      BY <1>0, <3>2, Counts DEF FinishBefore
    <3>3. CASE UNCHANGED vars
      BY <3>1, <3>3 DEF vars
    <3>4. QED
      BY <1>1, <3>2, <3>3
  <2>2. QED
    <3>1. TypeOK' /\ BatchOK'
      BY <1>0, <2>1 DEF IInv, TypeOK, BatchOK
    <3>2. SizeOK' /\ AnswersOK' /\ AssertsHold'
      BY <1>0, <2>1 DEF IInv, SizeOK, AnswersOK, AssertsHold, TooLargeAlone
    <3>3. QED
      BY <3>1, <3>2 DEF IInv
<1>2. CASE Write
  BY <1>0, <1>2, WriteStep
<1>3. CASE FinishLast
  <2>1. /\ UNCHANGED <<mails, next, buffer, size, result, accepted>> /\ end = "none"
        /\ end' \in {"none", "returned"}
        /\ full' \in BOOLEAN /\ (full' => Len(buffer) > 0) /\ (~full' => ~full)
    <3>1. full \in BOOLEAN /\ ~full
      BY <1>0, <1>3 DEF FinishLast, IInv, TypeOK
    <3>2. CASE buffer = <<>>
      BY <1>3, <3>1, <3>2 DEF FinishLast
    <3>3. CASE buffer # <<>>
      BY <1>0, <1>3, <3>3, Counts DEF FinishLast
    <3>4. QED
      BY <3>2, <3>3
  <2>2. QED
    <3>1. TypeOK' /\ BatchOK'
      BY <1>0, <2>1 DEF IInv, TypeOK, Ends, BatchOK
    <3>2. SizeOK' /\ AnswersOK' /\ AssertsHold'
      BY <1>0, <2>1 DEF IInv, SizeOK, AnswersOK, AssertsHold, TooLargeAlone
    <3>3. QED
      BY <3>1, <3>2 DEF IInv
<1>4. CASE AssertionFails
  <2>1. /\ UNCHANGED <<mails, next, buffer, size, full, result, accepted>> /\ end = "none"
        /\ end' = "assertion" /\ full /\ ~IsWithinLimits
    BY <1>4 DEF AssertionFails
  <2>2. TooLargeAlone
    BY <1>0, <2>1, MailAssumption DEF IsWithinLimits, IInv, TypeOK, BatchOK, SizeOK
  <2>3. AssertsHold'
    BY <2>1, <2>2 DEF AssertsHold, TooLargeAlone
  <2>4. QED
    BY <1>0, <2>1, <2>3 DEF IInv, TypeOK, Ends, BatchOK, SizeOK, AnswersOK, TooLargeAlone
<1>5. CASE Answered
  <2>1. PICK answers \in [1 .. Len(buffer) -> {"id", "inactive_recipient", "failed"}] :
          /\ result' = result \o answers
          /\ accepted' = Taken({buffer[k] : k \in {k \in 1 .. Len(buffer) : answers[k] = "id"}})
    BY <1>5 DEF Answered, StatesOf
  <2> DEFINE S == {k \in 1 .. Len(buffer) : answers[k] = "id"}
  <2>2. answers \in [1 .. Len(buffer) -> States]
    BY DEF States
  <2>3. CanPost /\ Continue
    BY <1>5 DEF Answered
  <2>4. S \in SUBSET (1 .. Len(buffer)) /\ accepted' = Taken({buffer[k] : k \in S})
    BY <2>1
  <2>5. \A k \in 1 .. Len(buffer) : /\ answers[k] = "id" => k \in S
                                    /\ answers[k] = "inactive_recipient" => k \notin S
    OBVIOUS
  <2> HIDE DEF S
  <2>6. QED
    BY <1>0, <2>1, <2>2, <2>3, <2>4, <2>5, PostStep
<1>6. CASE Refused \/ Disconnected
  <2>1. PICK state \in {"failed", "temporary_failure"}, S \in {{}, 1 .. Len(buffer)} :
          /\ result' = result \o AllOf(state)
          /\ accepted' = Taken({buffer[k] : k \in S})
    <3>1. Range(buffer) = {buffer[k] : k \in 1 .. Len(buffer)}
      BY <1>0, LenProperties DEF IInv, TypeOK, Range
    <3>2. accepted = Taken({buffer[k] : k \in {}})
      <4>1. accepted = [i \in DOMAIN accepted |-> accepted[i]]
            /\ \A i \in DOMAIN accepted : accepted[i] \in Nat
        BY <1>0 DEF IInv, TypeOK
      <4>2. \A i \in DOMAIN accepted :
              accepted[i] + (IF i \in {buffer[k] : k \in {}} THEN 1 ELSE 0) = accepted[i]
        BY <4>1
      <4>3. QED
        BY <4>1, <4>2 DEF Taken
    <3>3. accepted' \in {accepted, Taken(Range(buffer))}
      BY <1>6 DEF Refused, Disconnected
    <3>4. QED
      BY <1>6, <3>1, <3>2, <3>3 DEF Refused, Disconnected
  <2>2. AllOf(state) \in [1 .. Len(buffer) -> States]
        /\ \A k \in 1 .. Len(buffer) : AllOf(state)[k] = state
    BY DEF AllOf, States
  <2>3. CanPost /\ Continue
    BY <1>6 DEF Refused, Disconnected
  <2>4. QED
    BY <1>0, <2>1, <2>2, <2>3, PostStep
<1>7. CASE ConnectionFails
  BY <1>0, <1>7, ConnectionStep
<1>8. QED
  BY <1>0, <1>1, <1>2, <1>3, <1>4, <1>5, <1>6, <1>7 DEF Next

LEMMA Inductive == Spec => []IInv
BY InitHolds, Step, PTL DEF Spec

-----------------------------------------------------------------------------
(* The theorems *)

\* What a call tells of a mail is about that mail, and no mail is posted twice,
\* however batches are cut, refused and lost.
THEOREM AnswersMatchMails == Spec => []AnswersAreTrue
<1>1. ASSUME IInv PROVE AnswersAreTrue
  <2>1. Len(result) <= Len(mails)
    BY <1>1, Counts
  <2>2. DOMAIN mails = 1 .. Len(mails) /\ DOMAIN result = 1 .. Len(result)
    BY <1>1, Counts
  <2>3. \A i \in DOMAIN result : i \in 1 .. Len(mails) /\ i <= Len(result)
    BY <1>1, <2>1, <2>2, Lengths
  <2>4. QED
    BY <1>1, <2>1, <2>2, <2>3 DEF IInv, AnswersOK, AnswersAreTrue
<1>2. QED
  BY <1>1, Inductive, PTL

\* The asserts of finish_batch fail only for a mail that is too large on its own,
\* although the comma is not counted: the comparison is not strict.
THEOREM AssertsOnlyForGiants == Spec => []AssertsHold
<1>1. IInv => AssertsHold
  BY DEF IInv
<1>2. QED
  BY <1>1, Inductive, PTL
=============================================================================
