------------------------------------- MODULE Mail -------------------------------------
(* Mails sent in bulk to the Postmark API: mail/mailer.py, mail/types.py.         *)
(* A call collects mails in a buffer until one more would exceed a limit, posts   *)
(* the buffer, and answers for each mail in their order.                          *)
EXTENDS Integers, Sequences, SequencesExt

CONSTANTS
    MaxMails,    \* bound: mails of one call
    Sizes,       \* of a mail, as JSON
    SizeLimit,   \* SIZE_LIMIT
    BatchLimit,  \* BATCH_LIMIT
    Preamble,    \* sizes of what stands around the mails
    Postamble

ASSUME MailAssumption ==
    /\ MaxMails \in Nat /\ Sizes \subseteq Nat
    /\ SizeLimit \in Nat /\ BatchLimit \in Nat \ {0}
    /\ Preamble \in Nat /\ Postamble \in Nat

VARIABLES
    mails,     \* Seq(Sizes): the mails of the call
    next,      \* 1 .. Len(mails) + 1: the mail the loop comes to
    buffer,    \* the mails of the batch, in order
    size,      \* buffer.tell()
    full,      \* finish_batch is called: the batch is posted before the loop goes on
    result,    \* what the call will return
    accepted,  \* [1 .. Len(mails) -> Nat]: how often the API took a mail
    end        \* "none", or how the call ended

vars == <<mails, next, buffer, size, full, result, accepted, end>>

\* What the call tells of a mail; "id" is a MessageID.
States == {"id", "inactive_recipient", "failed", "temporary_failure"}

Ends == {"none", "returned", "assertion", "connection"}

-----------------------------------------------------------------------------
(* The loop *)

\* A defect for comparison: off by one.
IsTooLargeByOne(i) == size + mails[i] + Postamble > SizeLimit

\* The comma before the mail is not counted.
IsTooLarge(i) == size + mails[i] + Postamble >= SizeLimit

Comma == IF buffer = <<>> THEN 0 ELSE 1

\* A mail that does not fit has the batch before it posted.
FinishBefore ==
    /\ end = "none" /\ ~full /\ next <= Len(mails)
    /\ IsTooLarge(next) /\ buffer # <<>>
    /\ full' = TRUE
    /\ UNCHANGED <<mails, next, buffer, size, result, accepted, end>>

\* It is written then, even if it is too large on its own.
Write ==
    /\ end = "none" /\ ~full /\ next <= Len(mails)
    /\ IsTooLarge(next) => buffer = <<>>
    /\ buffer' = Append(buffer, next)
    /\ size' = size + Comma + mails[next]
    /\ full' = (Len(buffer') = BatchLimit)
    /\ next' = next + 1
    /\ UNCHANGED <<mails, result, accepted, end>>

\* "finish final partially full batch"; an empty one is skipped.
FinishLast ==
    /\ end = "none" /\ ~full /\ next > Len(mails)
    /\ IF buffer = <<>> THEN end' = "returned" /\ UNCHANGED full
                        ELSE full' = TRUE /\ UNCHANGED end
    /\ UNCHANGED <<mails, next, buffer, size, result, accepted>>

-----------------------------------------------------------------------------
(* finish_batch *)

\* The two asserts before the post.
IsWithinLimits == Len(buffer) <= BatchLimit /\ size + Postamble <= SizeLimit

AssertionFails ==
    /\ full /\ end = "none" /\ ~IsWithinLimits
    /\ end' = "assertion"
    /\ UNCHANGED <<mails, next, buffer, size, full, result, accepted>>

CanPost == full /\ end = "none" /\ IsWithinLimits

\* A defect for comparison: the mails that were posted stay in the batch.
NextBatchKept == buffer

NextBatch == <<>>

Continue ==
    /\ buffer' = NextBatch
    /\ size' = Preamble
    /\ full' = FALSE
    /\ UNCHANGED <<mails, next, end>>

Taken(S) == [i \in DOMAIN accepted |-> accepted[i] + IF i \in S THEN 1 ELSE 0]

\* A defect for comparison: mails without an id are left out.
StatesOfIds(answers) == SelectSeq(answers, LAMBDA s : s = "id")

\* The states of the messages of a response, in their order.
StatesOf(answers) == answers

\* The API answers for each mail: it took those that got an id.
Answered ==
    /\ CanPost
    /\ \E answers \in [1 .. Len(buffer) -> {"id", "inactive_recipient", "failed"}] :
          /\ result' = result \o StatesOf(answers)
          /\ accepted' = Taken({buffer[k] : k \in {k \in 1 .. Len(buffer) : answers[k] = "id"}})
    /\ Continue

AllOf(state) == [k \in 1 .. Len(buffer) |-> state]

\* A response with an error, or one that cannot be read: MailError.
Refused ==
    /\ CanPost
    /\ result' = result \o AllOf("failed")
    /\ accepted' \in {accepted, Taken(Range(buffer))}
    /\ Continue

\* A connection that fails with an error of Python's own is caught.
Disconnected ==
    /\ CanPost
    /\ result' = result \o AllOf("temporary_failure")
    /\ accepted' \in {accepted, Taken(Range(buffer))}
    /\ Continue

\* The errors of requests, a timeout among them, are no ConnectionError of Python's:
\* the call ends, and tells nothing of the batches it has posted.
ConnectionFails ==
    /\ CanPost
    /\ end' = "connection"
    /\ accepted' \in {accepted, Taken(Range(buffer))}
    /\ UNCHANGED <<mails, next, buffer, size, full, result>>

-----------------------------------------------------------------------------

Init ==
    /\ mails \in UNION {[1 .. n -> Sizes] : n \in 0 .. MaxMails}
    /\ next = 1
    /\ buffer = <<>>
    /\ size = Preamble
    /\ full = FALSE
    /\ result = <<>>
    /\ accepted = [i \in 1 .. Len(mails) |-> 0]
    /\ end = "none"

Next ==
    \/ FinishBefore \/ Write \/ FinishLast
    \/ AssertionFails \/ Answered \/ Refused \/ Disconnected \/ ConnectionFails

\* The loop goes on, and requests waits ten seconds at most for an answer.
Fairness == WF_vars(Next)

Spec == Init /\ [][Next]_vars /\ Fairness

-----------------------------------------------------------------------------
(* Properties *)

\* What the call tells of a mail is about that mail, by its place in the list: a mail
\* with an id was taken by the API, one with an inactive recipient was not, and none
\* was posted twice.
AnswersAreTrue ==
    /\ Len(result) <= Len(mails)
    /\ \A i \in DOMAIN mails : accepted[i] <= 1
    /\ \A i \in DOMAIN result :
          /\ result[i] = "id" => accepted[i] = 1
          /\ result[i] = "inactive_recipient" => accepted[i] = 0

\* The asserts of finish_batch fail only for a mail that is too large on its own.
AssertsHold ==
    end = "assertion" =>
        \E i \in DOMAIN mails : Preamble + mails[i] + Postamble > SizeLimit

\* Every call ends, and if it returns it tells something of every mail.
CallsEnd == <>(end # "none" /\ (end = "returned" => Len(result) = Len(mails)))
=============================================================================
