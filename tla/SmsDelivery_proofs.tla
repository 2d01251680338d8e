------------------------------ MODULE SmsDelivery_proofs ------------------------------
(* Proofs about SmsDelivery, for any messages, processes and bounds: no message *)
(* is lost, and a discarded one keeps a name, whatever interleaves, fails and   *)
(* dies; and a clean message is sent once.                                      *)
EXTENDS SmsDelivery, FiniteSetTheorems, TLAPS

-----------------------------------------------------------------------------
(* Names *)

LEMMA PrefixesAreSequences ==
    ASSUME NEW s \in Prefixes
    PROVE  s \in Seq({"sending", "rejected"})
<1>1. PICK k \in 0 .. MaxPrefixes : s \in [1 .. k -> {"sending", "rejected"}]
  BY DEF Prefixes
<1>2. k \in Nat
  BY BoundsAssumption
<1>3. QED
  BY <1>1, <1>2

LEMMA NameFacts ==
    ASSUME NEW n \in Names
    PROVE  /\ n.msg \in Messages
           /\ Len(n.prefix) \in Nat
           /\ Tmp(n).msg = n.msg /\ IsTmp(Tmp(n))
           /\ Rejected(n).msg = n.msg /\ ~IsTmp(Rejected(n))
           /\ Len(Rejected(n).prefix) = Len(n.prefix) + 1
<1>1. n.msg \in Messages /\ n.prefix \in Prefixes
  BY DEF Names
<1>2. n.prefix \in Seq({"sending", "rejected"})
  BY <1>1, PrefixesAreSequences
<1>3. ASSUME NEW x \in {"sending", "rejected"}
      PROVE  /\ (<<x>> \o n.prefix)[1] = x
             /\ <<x>> \o n.prefix # << >>
             /\ Len(<<x>> \o n.prefix) = Len(n.prefix) + 1
  BY <1>2
<1>4. QED
  BY <1>1, <1>2, <1>3 DEF Tmp, Rejected, Prefixed, IsTmp

LEMMA BaseFacts ==
    ASSUME NEW m \in Messages
    PROVE  Base(m) \in Names /\ Base(m).msg = m /\ ~IsTmp(Base(m))
<1>1. << >> \in [1 .. 0 -> {"sending", "rejected"}]
  OBVIOUS
<1>2. 0 \in 0 .. MaxPrefixes
  BY BoundsAssumption
<1>3. << >> \in Prefixes
  BY <1>1, <1>2 DEF Prefixes
<1>4. QED
  BY <1>3 DEF Base, Names, IsTmp

-----------------------------------------------------------------------------
(* The inductive invariant *)

\* The steps of _send_message, in which current is a name.
InMessage == Steps \ {"down", "listing", "ready"}

\* A name of m that outlives the removal of n by a discard.
Outlives(x, n) ==
    /\ x \in dir /\ x.msg = n.msg /\ ~IsTmp(x)
    /\ Len(x.prefix) > Len(n.prefix)

\* What a process knows of its message: it is about to send a valid one, to
\* discard an invalid one, and to remove one that is accepted or that has got a
\* name longer than its own.
ProcessOK(p) ==
    /\ pc[p] \in InMessage => current[p] \in Names
    /\ pc[p] = "send" => content[current[p].msg] = "valid"
    /\ pc[p] = "reject" => content[current[p].msg] = "invalid"
    /\ pc[p] = "removeMessage" =>
          \/ content[current[p].msg] = "valid" /\ accepted[current[p].msg] > 0
          \/ content[current[p].msg] = "invalid" /\ \E x \in dir : Outlives(x, current[p])

\* What the directory keeps of a message.
MessageOK(m) ==
    /\ content[m] = "none" => \A n \in dir : n.msg # m
    /\ content[m] = "partial" => Base(m) \in dir
    /\ content[m] = "valid" => Base(m) \in dir \/ accepted[m] > 0
    /\ content[m] = "invalid" => \E n \in dir : n.msg = m /\ ~IsTmp(n)

IInv ==
    /\ TypeOK
    /\ \A p \in Processes : ProcessOK(p)
    /\ \A m \in Messages : MessageOK(m)

LEMMA InitIInv == Init => IInv
<1>1. 0 \in 0 .. MaxFaults
  BY BoundsAssumption
<1>2. QED
  BY <1>1 DEF Init, IInv, TypeOK, Contents, Steps, ProcessOK, MessageOK, InMessage

\* Each step keeps the types.
LEMMA TypeStep == TypeOK /\ (\A p \in Processes : ProcessOK(p)) /\ [Next]_vars => TypeOK'
<1> SUFFICES ASSUME TypeOK, \A p \in Processes : ProcessOK(p), [Next]_vars PROVE TypeOK'
  OBVIOUS
<1> USE DEF TypeOK
<1>f. ASSUME Fault PROVE faults' \in 0 .. MaxFaults
  BY <1>f, BoundsAssumption DEF Fault
<1>a. ASSUME NEW m \in Messages, Accept(m) PROVE accepted' \in [Messages -> 0 .. 2]
  BY <1>a DEF Accept
<1>g. ASSUME NEW p \in Processes, NEW s \in Steps, Goto(p, s)
      PROVE  pc' \in [Processes -> Steps] /\ current' \in [Processes -> Names \cup {NoName}]
  BY <1>g DEF Goto
<1>1. ASSUME NEW m \in Messages, Place(m) PROVE TypeOK'
  BY <1>1, BaseFacts DEF Place, Contents, history
<1>2. ASSUME NEW m \in Messages, Complete(m) PROVE TypeOK'
  BY <1>2 DEF Complete, Contents, procs, history
<1>3. ASSUME NEW m \in Messages, Age(m) PROVE TypeOK'
  BY <1>3 DEF Age, procs
<1>4. ASSUME NEW p \in Processes, Start(p) PROVE TypeOK'
  BY <1>4, NameFacts DEF Start, Listed, Steps, files
<1>5. ASSUME NEW p \in Processes, Send(p) PROVE TypeOK'
  <2>1. CASE GetMtimes(p) \/ GetMtimesFails(p)
    BY <2>1 DEF GetMtimes, GetMtimesFails, Steps, files, history
  <2>2. CASE EndOfBatch(p)
    BY <2>2 DEF EndOfBatch, StartsObserver, Steps, files, history
  <2>3. CASE Take(p)
    BY <2>3 DEF Take, Steps, files, history
  <2>4. CASE Stat(p)
    BY <2>4, <1>g DEF Stat, AfterStat, Steps, files, history
  <2>5. CASE RemoveOld(p)
    BY <2>5, <1>g DEF RemoveOld, Steps, history
  <2>6. CASE Touch(p)
    BY <2>6, <1>g DEF Touch, Steps, history
  <2>7. CASE Link(p)
    BY <2>7, <1>g DEF Link, CanLink, Steps, history
  <2>8. CASE Parse(p)
    BY <2>8, <1>g, <1>f DEF Parse, AfterParse, Steps, files
  <2>9. CASE SendOk(p) \/ SendFails(p)
    <3>1. current[p].msg \in Messages
      BY <2>9, NameFacts DEF ProcessOK, InMessage, Steps, SendOk, SendFails
    <3>2. QED
      BY <2>9, <3>1, <1>g, <1>f, <1>a DEF SendOk, SendFails, AfterFailure, Steps, files
  <2>10. CASE Reject(p)
    BY <2>10, <1>g DEF Reject, CanLink, WithRejected, Steps, history
  <2>11. CASE RemoveMessage(p) \/ RemoveTmp(p)
    BY <2>11, <1>g DEF RemoveMessage, RemoveTmp, WithoutMessage, Steps, history
  <2>12. QED
    BY <1>5, <2>1, <2>2, <2>3, <2>4, <2>5, <2>6, <2>7, <2>8, <2>9, <2>10, <2>11 DEF Send
<1>6. ASSUME NEW p \in Processes, Crash(p) PROVE TypeOK'
  BY <1>6, <1>g, <1>f DEF Crash, Steps, files
<1>7. CASE UNCHANGED vars
  BY <1>7 DEF vars, files, procs, history
<1>8. QED
  BY <1>1, <1>2, <1>3, <1>4, <1>5, <1>6, <1>7 DEF Next

\* What nearly every step leaves to the others: the names that are not .sending-
\* links, the contents that are complete, and what was accepted; new names are
\* of messages that were put into the queue.
Keeps ==
    /\ {n \in dir : ~IsTmp(n)} \subseteq dir'
    /\ \A m \in Messages :
          /\ content[m] \in {"valid", "invalid"} => content'[m] = content[m]
          /\ accepted[m] > 0 => accepted'[m] > 0
    /\ \A x \in dir' \ dir : content'[x.msg] # "none"

LEMMA KeepsProcess ==
    ASSUME TypeOK, Keeps, NEW q \in Processes, ProcessOK(q),
           pc'[q] = pc[q], current'[q] = current[q]
    PROVE  ProcessOK(q)'
<1>1. current[q] \in Names => current[q].msg \in Messages
  BY NameFacts
<1>2. \A x \in dir : Outlives(x, current[q]) => x \in dir' /\ Outlives(x, current[q])'
  BY DEF Keeps, Outlives, IsTmp
<1>3. QED
  BY <1>1, <1>2 DEF ProcessOK, Keeps, InMessage, Steps, TypeOK, Outlives

LEMMA KeepsMessage ==
    ASSUME TypeOK, Keeps, NEW m \in Messages, MessageOK(m), content'[m] = content[m]
    PROVE  MessageOK(m)'
<1>1. Base(m)' = Base(m) /\ ~IsTmp(Base(m))
  BY BaseFacts DEF Base
<1>2. QED
  BY <1>1 DEF MessageOK, Keeps, IsTmp, Base

\* A step that writes the directory and the contents in no other way than Keeps
\* allows, and goes to a step of which ProcessOK asks nothing or what is known.
LEMMA KeepsIInv ==
    ASSUME IInv, TypeOK', Keeps, content' = content, NEW p \in Processes, ProcessOK(p)',
           \A q \in Processes \ {p} : pc'[q] = pc[q] /\ current'[q] = current[q]
    PROVE  IInv'
<1>1. \A q \in Processes \ {p} : ProcessOK(q)'
  BY KeepsProcess DEF IInv
<1>2. \A m \in Messages : MessageOK(m)'
  BY KeepsMessage DEF IInv
<1>3. QED
  BY <1>1, <1>2 DEF IInv

LEMMA QueueStep ==
    ASSUME IInv, TypeOK', NEW m \in Messages, Place(m) \/ Complete(m) \/ Age(m)
    PROVE  IInv'
<1>1. Keeps
  BY BaseFacts DEF Place, Complete, Age, Keeps, IInv, TypeOK, Contents, procs, history
<1>2. \A q \in Processes : ProcessOK(q)'
  <2>1. pc' = pc /\ current' = current
    BY DEF Place, Complete, Age, procs
  <2>2. QED
    BY <2>1, <1>1, KeepsProcess DEF IInv
<1>3. ASSUME NEW k \in Messages PROVE MessageOK(k)'
  <2>1. CASE content'[k] = content[k]
    BY <2>1, <1>1, KeepsMessage DEF IInv
  <2>2. CASE content'[k] # content[k]
    <3>1. k = m /\ (Place(m) \/ Complete(m))
      BY <2>2 DEF Place, Complete, Age, IInv, TypeOK
    <3>2. content'[m] # "none" /\ Base(m) \in dir'
      BY <3>1 DEF Place, Complete, IInv, TypeOK, MessageOK, Contents
    <3>3. QED
      BY <3>1, <3>2, BaseFacts DEF MessageOK, Base, IsTmp
  <2>3. QED
    BY <2>1, <2>2
<1>4. QED
  BY <1>2, <1>3 DEF IInv

LEMMA ProcessStep ==
    ASSUME IInv, TypeOK', NEW p \in Processes, Start(p) \/ Send(p) \/ Crash(p),
           ~RemoveMessage(p)
    PROVE  IInv'
<1> DEFINE n == current[p]
<1> USE DEF IInv
<1>n. pc[p] \in InMessage => n \in Names /\ n.msg \in Messages
  BY NameFacts DEF ProcessOK
<1>o. ASSUME NEW s, Goto(p, s)
      PROVE  \A q \in Processes \ {p} : pc'[q] = pc[q] /\ current'[q] = current[q]
  BY <1>o DEF Goto, TypeOK
<1>g. ASSUME NEW s \in Steps, Goto(p, s)
      PROVE  pc'[p] = s /\ (s \in InMessage => current'[p] = n)
  BY <1>g DEF Goto, TypeOK, InMessage
<1>k. ASSUME dir \ {Tmp(n)} \subseteq dir', content' = content, accepted' = accepted,
             pc[p] \in InMessage, \A x \in dir' \ dir : x.msg = n.msg /\ n \in dir
      PROVE  Keeps
  <2>1. n \in dir => content[n.msg] # "none"
    BY <1>k, <1>n DEF MessageOK
  <2>2. QED
    BY <1>k, <1>n, <2>1, NameFacts DEF Keeps
<1>1. CASE Start(p) \/ GetMtimes(p) \/ GetMtimesFails(p) \/ EndOfBatch(p) \/ Take(p) \/ Crash(p)
  <2>1. Keeps /\ content' = content
    BY <1>1 DEF Keeps, Start, GetMtimes, GetMtimesFails, EndOfBatch, Take, Crash, files, history
  <2>2. \A q \in Processes \ {p} : pc'[q] = pc[q] /\ current'[q] = current[q]
    BY <1>1, <1>o DEF Start, GetMtimes, GetMtimesFails, EndOfBatch, Take, Crash, TypeOK
  <2>3. ProcessOK(p)'
    <3>1. CASE Take(p)
      BY <3>1 DEF Take, ProcessOK, TypeOK, InMessage, Steps
    <3>2. CASE ~Take(p)
      BY <1>1, <3>2, <1>g DEF ProcessOK, InMessage, Steps, TypeOK,
            Start, GetMtimes, GetMtimesFails, EndOfBatch, Crash
    <3>3. QED
      BY <3>1, <3>2
  <2>4. QED
    BY <2>1, <2>2, <2>3, KeepsIInv
<1>2. CASE Stat(p) \/ RemoveOld(p) \/ Touch(p) \/ Link(p) \/ RemoveTmp(p)
  <2>1. PICK s \in {"ready", "removeOld", "touch", "link", "parse"} : Goto(p, s)
    BY <1>2 DEF Stat, AfterStat, RemoveOld, Touch, Link, RemoveTmp
  <2>2. pc[p] \in InMessage /\ dir \ {Tmp(n)} \subseteq dir' /\ content' = content
        /\ accepted' = accepted
    BY <1>2 DEF Stat, RemoveOld, Touch, Link, RemoveTmp, InMessage, Steps, files, history
  <2>3. \A x \in dir' \ dir : x.msg = n.msg /\ n \in dir
    BY <1>2, <2>2, <1>n, NameFacts DEF Stat, RemoveOld, Touch, Link, RemoveTmp, CanLink, files
  <2>4. ProcessOK(p)'
    BY <2>1, <2>2, <1>g, <1>n DEF ProcessOK, InMessage, Steps
  <2>5. QED
    BY <2>1, <2>2, <2>3, <2>4, <1>k, <1>o, KeepsIInv
<1>3. CASE Parse(p)
  <2>1. /\ pc[p] \in InMessage /\ dir' = dir /\ content' = content /\ accepted' = accepted
        /\ AfterParse(n) \in {"ready", "send", "reject"} /\ Goto(p, AfterParse(n))
    BY <1>3 DEF Parse, AfterParse, InMessage, Steps, files
  <2>2. /\ AfterParse(n) = "send" => content[n.msg] = "valid"
        /\ AfterParse(n) = "reject" => n \in dir /\ content[n.msg] \notin {"valid", "partial"}
    BY DEF AfterParse, TooEarly
  <2>3. n \in dir => content[n.msg] # "none"
    BY <2>1, <1>n DEF MessageOK
  <2>4. ProcessOK(p)'
    BY <2>1, <2>2, <2>3, <1>g, <1>n DEF ProcessOK, InMessage, Steps, TypeOK, Contents
  <2>5. QED
    BY <2>1, <2>4, <1>k, <1>o, KeepsIInv
<1>4. CASE SendOk(p) \/ SendFails(p)
  <2>1. PICK s \in {"removeMessage", "ready"} : Goto(p, s) /\ (s = "removeMessage" => SendOk(p))
    BY <1>4 DEF SendOk, SendFails, AfterFailure
  <2>2. pc[p] = "send" /\ pc[p] \in InMessage /\ dir' = dir /\ content' = content
    BY <1>4 DEF SendOk, SendFails, InMessage, Steps, files
  <2>3. ASSUME Accept(n.msg)
        PROVE  accepted'[n.msg] > 0 /\ \A m \in Messages : accepted[m] > 0 => accepted'[m] > 0
    BY <2>3, <2>2, <1>n DEF Accept, TypeOK
  <2>4. Keeps
    BY <1>4, <2>2, <2>3 DEF Keeps, SendOk, SendFails
  <2>5. ProcessOK(p)'
    <3>1. content[n.msg] = "valid"
      BY <2>2 DEF ProcessOK
    <3>2. CASE s = "ready"
      BY <3>2, <2>1, <1>g DEF ProcessOK, InMessage, Steps
    <3>3. CASE s = "removeMessage"
      <4>1. accepted'[n.msg] > 0
        BY <3>3, <2>1, <2>3 DEF SendOk
      <4>2. pc'[p] = "removeMessage" /\ current'[p] = n
        BY <3>3, <2>1, <1>g DEF InMessage, Steps
      <4>3. QED
        BY <4>1, <4>2, <3>1, <2>2, <1>n DEF ProcessOK
    <3>4. QED
      BY <3>2, <3>3
  <2>6. QED
    BY <2>1, <2>2, <2>4, <2>5, <1>o, KeepsIInv
<1>5. CASE Reject(p)
  <2>1. /\ pc[p] = "reject" /\ pc[p] \in InMessage
        /\ content' = content /\ accepted' = accepted
        /\ dir \subseteq dir'
    BY <1>5 DEF Reject, WithRejected, InMessage, Steps, history
  <2>2. \A x \in dir' \ dir : x.msg = n.msg /\ n \in dir
    BY <1>5, <2>1, <1>n, NameFacts DEF Reject, WithRejected, CanLink
  <2>3. Keeps
    BY <2>1, <2>2, <1>k
  <2>4. ProcessOK(p)' /\ \A q \in Processes \ {p} : pc'[q] = pc[q] /\ current'[q] = current[q]
    <3>1. CASE Goto(p, "ready")
      BY <3>1, <1>g, <1>o DEF ProcessOK, InMessage, Steps
    <3>2. CASE Goto(p, "removeMessage") /\ dir' = dir \cup {Rejected(n)}
      <4>1. pc'[p] = "removeMessage" /\ current'[p] = n
        BY <3>2, <1>g DEF InMessage, Steps
      <4>2. PICK x : x = Rejected(n)
        OBVIOUS
      <4>3. x \in dir' /\ x.msg = n.msg /\ ~IsTmp(x) /\ Len(x.prefix) > Len(n.prefix)
        BY <4>2, <3>2, <2>1, <1>n, NameFacts
      <4>4. content[n.msg] = "invalid"
        BY <2>1 DEF ProcessOK
      <4>5. QED
        BY <3>2, <4>1, <4>3, <4>4, <2>1, <1>n, <1>o DEF ProcessOK, Outlives, IsTmp
    <3>3. QED
      BY <1>5, <3>1, <3>2 DEF Reject, WithRejected
  <2>5. QED
    BY <2>1, <2>3, <2>4, KeepsIInv
<1>6. QED
  BY <1>1, <1>2, <1>3, <1>4, <1>5 DEF Send

\* The step that takes a name away which is no .sending- link: another name, or
\* the acceptance of the message, remains.
LEMMA RemoveStep ==
    ASSUME IInv, TypeOK', NEW p \in Processes, RemoveMessage(p)
    PROVE  IInv'
<1> DEFINE n == current[p]
<1> USE DEF IInv
<1>1. /\ pc[p] = "removeMessage" /\ n \in Names /\ n.msg \in Messages
      /\ dir' = dir \ {n} /\ content' = content /\ accepted' = accepted
      /\ pc' = [pc EXCEPT ![p] = "removeTmp"] /\ current' = current
  <2>1. pc[p] = "removeMessage" /\ Goto(p, "removeTmp")
        /\ dir' = dir \ {n} /\ content' = content /\ accepted' = accepted
    BY DEF RemoveMessage, WithoutMessage, history
  <2>2. n \in Names /\ n.msg \in Messages
    BY <2>1, NameFacts DEF ProcessOK, InMessage, Steps
  <2>3. QED
    BY <2>1, <2>2 DEF Goto, TypeOK
<1>2. \/ content[n.msg] = "valid" /\ accepted[n.msg] > 0
      \/ content[n.msg] = "invalid" /\ \E x \in dir : Outlives(x, n)
  BY <1>1 DEF ProcessOK
\* A name longer than n that outlives another one leaves a still longer one.
<1>3. ASSUME NEW y \in Names, content[y.msg] = "invalid", NEW x \in dir, Outlives(x, y)
      PROVE  \E z \in dir' : Outlives(z, y)'
  <2>1. CASE x # n
    BY <2>1, <1>1, <1>3 DEF Outlives, IsTmp
  <2>2. CASE x = n
    <3>1. content[n.msg] = "invalid"
      BY <2>2, <1>3 DEF Outlives
    <3>2. PICK z \in dir : Outlives(z, n)
      BY <3>1, <1>2
    <3>3. z # n /\ z.msg = y.msg /\ Len(z.prefix) > Len(y.prefix)
      <4>1. z \in Names /\ Len(z.prefix) \in Nat /\ Len(n.prefix) \in Nat /\ Len(y.prefix) \in Nat
        BY <1>1, NameFacts DEF TypeOK
      <4>2. QED
        BY <4>1, <3>2, <2>2, <1>3 DEF Outlives
    <3>4. QED
      BY <3>2, <3>3, <1>1 DEF Outlives, IsTmp
  <2>3. QED
    BY <2>1, <2>2
<1>4. ASSUME NEW q \in Processes PROVE ProcessOK(q)'
  <2>1. CASE q = p
    BY <2>1, <1>1 DEF ProcessOK, TypeOK, InMessage, Steps
  <2>2. CASE q # p
    <3>1. pc'[q] = pc[q] /\ current'[q] = current[q] /\ ProcessOK(q)
      BY <2>2, <1>1 DEF TypeOK
    <3>2. pc[q] = "removeMessage" => current[q] \in Names
      BY <3>1 DEF ProcessOK, InMessage, Steps
    <3>3. QED
      BY <3>1, <3>2, <1>1, <1>3 DEF ProcessOK, Outlives
  <2>3. QED
    BY <2>1, <2>2
<1>5. ASSUME NEW m \in Messages PROVE MessageOK(m)'
  <2>1. CASE m # n.msg
    BY <2>1, <1>1, BaseFacts DEF MessageOK, Base, IsTmp
  <2>2. CASE m = n.msg /\ content[m] = "valid"
    BY <2>2, <1>1, <1>2 DEF MessageOK
  <2>3. CASE m = n.msg /\ content[m] = "invalid"
    <3>1. PICK x \in dir : Outlives(x, n)
      BY <2>3, <1>2
    <3>2. \E z \in dir' : Outlives(z, n)'
      BY <3>1, <2>3, <1>1, <1>3
    <3>3. QED
      BY <3>2, <2>3, <1>1 DEF MessageOK, Outlives, IsTmp
  <2>4. QED
    BY <2>1, <2>2, <2>3, <1>2
<1>6. QED
  BY <1>4, <1>5

LEMMA NextIInv == IInv /\ [Next]_vars => IInv'
<1> SUFFICES ASSUME IInv, [Next]_vars PROVE IInv'
  OBVIOUS
<1>1. TypeOK'
  BY TypeStep DEF IInv
<1>2. CASE \E m \in Messages : Place(m) \/ Complete(m) \/ Age(m)
  BY <1>1, <1>2, QueueStep
<1>3. CASE \E p \in Processes : Start(p) \/ Send(p) \/ Crash(p)
  BY <1>1, <1>3, ProcessStep, RemoveStep
<1>4. CASE UNCHANGED vars
  BY <1>4 DEF vars, files, procs, history, IInv, TypeOK, ProcessOK, MessageOK,
              Outlives, IsTmp, Base
<1>5. QED
  BY <1>2, <1>3, <1>4 DEF Next

LEMMA Inductive == Spec => []IInv
<1>1. QED
  BY InitIInv, NextIInv, PTL DEF Spec

-----------------------------------------------------------------------------
(* A message is sent once *)

Holding == {"parse", "send", "removeMessage", "removeTmp"}

\* Process p has made the .sending- link of m, and is not done.
Holds(p, m) == pc[p] \in Holding /\ current[p].msg = m

\* Nothing of m went wrong but failed sends, crashes and reads of a partial copy.
IsClean(m) == m \notin trouble /\ content[m] # "invalid"

\* A clean message has the names <name> and .sending-<name> at most, and is known by
\* the first.  Whoever holds it has made the second, and no other process does until
\* it is removed; it is removed when the first is gone already.
OnceOK(m) ==
    /\ content[m] # "valid" => accepted[m] = 0
    /\ IsClean(m) =>
          /\ ~old[m]
          /\ \A n \in dir : n.msg = m => n \in {Base(m), Tmp(Base(m))}
          /\ \A p \in Processes : \A n \in todo[p] : n.msg = m => n = Base(m)
          /\ \A p \in Processes :
                pc[p] \in InMessage /\ current[p].msg = m
                => current[p] = Base(m) /\ pc[p] # "removeOld"
          /\ \A p, q \in Processes : Holds(p, m) /\ Holds(q, m) => p = q
          /\ \A p \in Processes : Holds(p, m) =>
                /\ Tmp(Base(m)) \in dir
                /\ pc[p] \in {"parse", "send"} => accepted[m] = 0
                /\ pc[p] = "removeTmp" => Base(m) \notin dir
          /\ accepted[m] <= 1
          /\ accepted[m] > 0 => Tmp(Base(m)) \in dir \/ Base(m) \notin dir

\* Files of m that are no others' business.
SameNames(m) == \A n : n.msg = m => (n \in dir' <=> n \in dir)

\* What process p does to a message m whose files stay: it learns of the message by
\* its first name, and holds it only if it did before.
StaysHeld(p, m) ==
    IsClean(m)' /\ pc'[p] \in InMessage /\ current'[p].msg = m =>
        /\ current'[p] = Base(m) /\ pc'[p] # "removeOld"
        /\ pc'[p] \in Holding =>
              /\ Holds(p, m)
              /\ pc'[p] \in {"parse", "send"} => pc[p] \in {"parse", "send"}
              /\ pc'[p] = "removeTmp" => pc[p] = "removeTmp"

LEMMA HoldingInMessage == Holding \subseteq InMessage
BY DEF Holding, InMessage, Steps

LEMMA OnceFrame ==
    ASSUME NEW m \in Messages, OnceOK(m), SameNames(m), accepted'[m] = accepted[m],
           content'[m] = content[m] \/ accepted[m] = 0,
           IsClean(m)' => IsClean(m) /\ ~old'[m],
           IsClean(m)' => \A p \in Processes : \A n \in todo'[p] : n.msg = m => n = Base(m),
           \A p \in Processes : StaysHeld(p, m)
    PROVE  OnceOK(m)'
<1>1. content'[m] # "valid" => accepted'[m] = 0
  BY DEF OnceOK
<1>2. ASSUME IsClean(m)'
      PROVE  /\ ~old'[m]
             /\ \A n \in dir' : n.msg = m => n \in {Base(m), Tmp(Base(m))}
             /\ \A p \in Processes : \A n \in todo'[p] : n.msg = m => n = Base(m)
             /\ \A p \in Processes :
                   pc'[p] \in InMessage /\ current'[p].msg = m
                   => current'[p] = Base(m) /\ pc'[p] # "removeOld"
             /\ \A p, q \in Processes : Holds(p, m)' /\ Holds(q, m)' => p = q
             /\ \A p \in Processes : Holds(p, m)' =>
                   /\ Tmp(Base(m)) \in dir'
                   /\ pc'[p] \in {"parse", "send"} => accepted'[m] = 0
                   /\ pc'[p] = "removeTmp" => Base(m) \notin dir'
             /\ accepted'[m] <= 1
             /\ accepted'[m] > 0 => Tmp(Base(m)) \in dir' \/ Base(m) \notin dir'
  <2>1. IsClean(m)
    BY <1>2
  <2>2. Tmp(Base(m)).msg = m /\ Base(m).msg = m
    BY BaseFacts, NameFacts
  <2>3. ASSUME NEW p \in Processes, Holds(p, m)'
        PROVE  /\ Holds(p, m)
               /\ pc'[p] \in {"parse", "send"} => pc[p] \in {"parse", "send"}
               /\ pc'[p] = "removeTmp" => pc[p] = "removeTmp"
    <3>1. pc'[p] \in Holding /\ current'[p].msg = m
      BY <2>3 DEF Holds
    <3> QED BY <1>2, <3>1, HoldingInMessage DEF StaysHeld
  <2>4. /\ ~old'[m]
        /\ \A n \in dir' : n.msg = m => n \in {Base(m), Tmp(Base(m))}
        /\ \A p \in Processes : \A n \in todo'[p] : n.msg = m => n = Base(m)
    BY <1>2, <2>1 DEF OnceOK, SameNames
  <2>5. \A p \in Processes :
           pc'[p] \in InMessage /\ current'[p].msg = m
           => current'[p] = Base(m) /\ pc'[p] # "removeOld"
    BY <1>2 DEF StaysHeld
  <2>6. \A p, q \in Processes : Holds(p, m)' /\ Holds(q, m)' => p = q
    BY <2>1, <2>3 DEF OnceOK
  <2>7. ASSUME NEW p \in Processes, Holds(p, m)'
        PROVE  /\ Tmp(Base(m)) \in dir'
               /\ pc'[p] \in {"parse", "send"} => accepted'[m] = 0
               /\ pc'[p] = "removeTmp" => Base(m) \notin dir'
    BY <2>1, <2>2, <2>3, <2>7 DEF OnceOK, SameNames
  <2>8. /\ accepted'[m] <= 1
        /\ accepted'[m] > 0 => Tmp(Base(m)) \in dir' \/ Base(m) \notin dir'
    BY <2>1, <2>2 DEF OnceOK, SameNames
  <2> QED BY <2>4, <2>5, <2>6, <2>7, <2>8
<1>3. Base(m)' = Base(m) /\ Tmp(Base(m))' = Tmp(Base(m))
  BY DEF Base, Tmp, Prefixed
<1> QED
  BY <1>1, <1>2, <1>3 DEF OnceOK

LEMMA OnceQueue ==
    ASSUME IInv, NEW m \in Messages, OnceOK(m),
           NEW k \in Messages, Place(k) \/ Complete(k) \/ Age(k)
    PROVE  OnceOK(m)'
<1>1. pc' = pc /\ current' = current /\ accepted' = accepted
  BY DEF Place, Complete, Age, procs, history
<1>2. TypeOK /\ MessageOK(m)
  BY DEF IInv
<1>3. IsClean(m) => \A p \in Processes : StaysHeld(p, m)
  BY <1>1 DEF StaysHeld, OnceOK, Holds
<1>4. CASE Place(k)
  <2>1. /\ content[k] = "none" /\ dir' = dir \cup {Base(k)} /\ old' = old /\ trouble' = trouble
        /\ \A j \in Messages \ {k} : content'[j] = content[j]
        /\ \A p \in Processes : \A n \in todo'[p] : n \in todo[p] \/ n = Base(k)
    BY <1>2, <1>4 DEF Place, TypeOK, history
  <2>2. Base(k).msg = k
    BY BaseFacts
  <2>3. IsClean(m)' => IsClean(m) /\ ~old'[m]
    BY <2>1 DEF IsClean, OnceOK
  <2>4. CASE m # k
    <3>1. SameNames(m) /\ content'[m] = content[m]
      BY <2>1, <2>2, <2>4 DEF SameNames
    <3>2. IsClean(m)' => \A p \in Processes : \A n \in todo'[p] : n.msg = m => n = Base(m)
      BY <2>1, <2>2, <2>3, <2>4 DEF OnceOK
    <3>3. IsClean(m)' => \A p \in Processes : StaysHeld(p, m)
      BY <1>3, <2>3
    <3> QED BY <1>1, <2>3, <3>1, <3>2, <3>3, OnceFrame DEF StaysHeld
  <2>5. CASE m = k
    <3>1. (\A n \in dir : n.msg # m) /\ accepted[m] = 0
      BY <1>2, <2>1, <2>5 DEF MessageOK, OnceOK
    <3>2. Tmp(Base(m)).msg = m
      BY BaseFacts, NameFacts
    <3>3. IsClean(m)' => \A p \in Processes : ~Holds(p, m)
      BY <2>3, <3>1, <3>2 DEF OnceOK
    <3>4. IsClean(m)' =>
            /\ \A p \in Processes : \A n \in todo'[p] : n.msg = m => n = Base(m)
            /\ \A p \in Processes :
                  pc[p] \in InMessage /\ current[p].msg = m
                  => current[p] = Base(m) /\ pc[p] # "removeOld"
      BY <2>1, <2>3, <2>5 DEF OnceOK
    <3>5. \A n \in dir' : n.msg = m => n = Base(m)
      BY <2>1, <2>5, <3>1
    <3>6. \A p : Holds(p, m)' <=> Holds(p, m)
      BY <1>1 DEF Holds
    <3>7. Base(m)' = Base(m) /\ Tmp(Base(m))' = Tmp(Base(m))
      BY DEF Base, Tmp, Prefixed
    <3>8. accepted'[m] = 0 /\ (IsClean(m)' => ~old'[m])
      BY <1>1, <2>3, <3>1
    <3> QED BY <1>1, <3>3, <3>4, <3>5, <3>6, <3>7, <3>8 DEF OnceOK
  <2> QED BY <2>4, <2>5
<1>5. CASE Complete(k)
  <2>1. /\ content[k] = "partial" /\ dir' = dir /\ old' = old /\ trouble' = trouble /\ todo' = todo
        /\ \A j \in Messages \ {k} : content'[j] = content[j]
    BY <1>2, <1>5 DEF Complete, TypeOK, procs, history
  <2>2. IsClean(m)' => IsClean(m) /\ ~old'[m]
    BY <2>1 DEF IsClean, OnceOK
  <2>3. SameNames(m) /\ (content'[m] = content[m] \/ accepted[m] = 0)
    BY <2>1 DEF SameNames, OnceOK
  <2>4. IsClean(m)' => \A p \in Processes : \A n \in todo'[p] : n.msg = m => n = Base(m)
    BY <2>1, <2>2 DEF OnceOK
  <2> QED BY <1>1, <1>3, <2>2, <2>3, <2>4, OnceFrame DEF StaysHeld
<1>6. CASE Age(k)
  <2>1. /\ dir' = dir /\ content' = content /\ todo' = todo /\ trouble' = trouble \cup {k}
        /\ \A j \in Messages \ {k} : old'[j] = old[j]
    BY <1>2, <1>6 DEF Age, TypeOK, procs
  <2>2. IsClean(m)' => IsClean(m) /\ ~old'[m]
    BY <2>1 DEF IsClean, OnceOK
  <2>3. SameNames(m) /\ content'[m] = content[m]
    BY <2>1 DEF SameNames
  <2>4. IsClean(m)' => \A p \in Processes : \A n \in todo'[p] : n.msg = m => n = Base(m)
    BY <2>1, <2>2 DEF OnceOK
  <2> QED BY <1>1, <1>3, <2>2, <2>3, <2>4, OnceFrame DEF StaysHeld
<1> QED
  BY <1>4, <1>5, <1>6

\* Steps between messages: a batch is listed, or ends, or a message is taken from it.
LEMMA OnceBetween ==
    ASSUME IInv, NEW m \in Messages, OnceOK(m), NEW p \in Processes,
           \/ Start(p) \/ GetMtimes(p) \/ GetMtimesFails(p) \/ EndOfBatch(p) \/ Take(p)
           \/ Crash(p)
    PROVE  OnceOK(m)'
<1>1. TypeOK
  BY DEF IInv
<1>2. /\ dir' = dir /\ content' = content /\ old' = old /\ accepted' = accepted
      /\ trouble \subseteq trouble'
      /\ \A q \in Processes \ {p} : pc'[q] = pc[q] /\ current'[q] = current[q] /\ todo'[q] = todo[q]
  BY <1>1 DEF Start, GetMtimes, GetMtimesFails, EndOfBatch, Take, Crash, Goto, TypeOK, files,
              history
<1>3. IsClean(m)' => IsClean(m) /\ ~old'[m]
  BY <1>2 DEF IsClean, OnceOK
<1>4. IsClean(m)' => /\ \A n \in todo'[p] : n.msg = m => n = Base(m)
                     /\ pc'[p] \in InMessage /\ current'[p].msg = m
                        => current'[p] = Base(m) /\ pc'[p] = "stat"
  <2>1. CASE Start(p)
    <3>1. pc'[p] = "listing" /\ todo'[p] = dir
      BY <1>1, <2>1 DEF Start, Listed, TypeOK
    <3>2. ASSUME IsClean(m)', NEW n \in dir, n.msg = m
          PROVE  n = Base(m)
      <4>1. ~IsTmp(n)
        BY <2>1, <3>2 DEF Start, Listed, IsClean
      <4>2. IsTmp(Tmp(Base(m)))
        BY BaseFacts, NameFacts
      <4> QED BY <1>3, <3>2, <4>1, <4>2 DEF OnceOK
    <3> QED BY <3>1, <3>2 DEF InMessage
  <2>2. CASE Take(p)
    <3>1. pc'[p] = "stat" /\ todo'[p] \subseteq todo[p] /\ current'[p] \in todo[p]
      BY <1>1, <2>2 DEF Take, TypeOK
    <3> QED BY <1>3, <3>1 DEF OnceOK
  <2>3. CASE GetMtimes(p) \/ GetMtimesFails(p) \/ EndOfBatch(p) \/ Crash(p)
    <3>1. pc'[p] \in {"listing", "ready", "down"} /\ todo'[p] \subseteq todo[p]
      BY <1>1, <2>3 DEF GetMtimes, GetMtimesFails, EndOfBatch, Crash, Goto, TypeOK
    <3> QED BY <1>3, <3>1 DEF OnceOK, InMessage
  <2> QED BY <2>1, <2>2, <2>3
<1>5. IsClean(m)' => \A q \in Processes : StaysHeld(q, m)
  <2>1. ASSUME IsClean(m)', NEW q \in Processes \ {p}
        PROVE  StaysHeld(q, m)
    BY <1>2, <1>3, <2>1 DEF StaysHeld, OnceOK, Holds
  <2>2. ASSUME IsClean(m)'
        PROVE  StaysHeld(p, m)
    BY <1>4, <2>2 DEF StaysHeld, Holding
  <2> QED BY <2>1, <2>2
<1>6. IsClean(m)' => \A q \in Processes : \A n \in todo'[q] : n.msg = m => n = Base(m)
  BY <1>2, <1>3, <1>4 DEF OnceOK
<1>7. SameNames(m)
  BY <1>2 DEF SameNames
<1> QED
  BY <1>2, <1>3, <1>5, <1>6, <1>7, OnceFrame DEF StaysHeld

InMessageStep(p) ==
    \/ Stat(p) \/ RemoveOld(p) \/ Touch(p) \/ Link(p) \/ Parse(p) \/ SendOk(p)
    \/ SendFails(p) \/ Reject(p) \/ RemoveMessage(p) \/ RemoveTmp(p)

\* A step of _send_message is about the message that it was called with.
LEMMA OwnMessage ==
    ASSUME IInv, NEW p \in Processes, InMessageStep(p)
    PROVE  /\ pc[p] \in InMessage /\ current[p] \in Names /\ current[p].msg \in Messages
           /\ content' = content /\ todo' = todo /\ trouble' = trouble
           /\ \A q \in Processes \ {p} : pc'[q] = pc[q] /\ current'[q] = current[q]
           /\ pc'[p] \in InMessage => current'[p] = current[p]
           /\ \A x : x.msg # current[p].msg => (x \in dir' <=> x \in dir)
           /\ \A m \in Messages \ {current[p].msg} :
                 old'[m] = old[m] /\ accepted'[m] = accepted[m]
<1>1. TypeOK /\ ProcessOK(p)
  BY DEF IInv
<1>2. pc[p] \in InMessage
  BY DEF InMessageStep, InMessage, Steps, Stat, RemoveOld, Touch, Link, Parse, SendOk,
         SendFails, Reject, RemoveMessage, RemoveTmp
<1>3. current[p] \in Names /\ current[p].msg \in Messages
  BY <1>1, <1>2, NameFacts DEF ProcessOK
<1>4. /\ Tmp(current[p]).msg = current[p].msg /\ Rejected(current[p]).msg = current[p].msg
  BY <1>3, NameFacts
<1>5. PICK s : Goto(p, s)
  BY DEF InMessageStep, Stat, RemoveOld, Touch, Link, Parse, SendOk,
         SendFails, Reject, RemoveMessage, RemoveTmp
<1>6. /\ \A q \in Processes \ {p} : pc'[q] = pc[q] /\ current'[q] = current[q]
      /\ pc'[p] \in InMessage => current'[p] = current[p]
  BY <1>1, <1>5 DEF Goto, TypeOK, InMessage
<1>7. content' = content /\ todo' = todo /\ trouble' = trouble
  BY DEF InMessageStep, Stat, RemoveOld, Touch, Link, Parse, SendOk,
         SendFails, Reject, RemoveMessage, RemoveTmp, files, history
<1>8. /\ dir' \subseteq dir \cup {Tmp(current[p]), Rejected(current[p])}
      /\ dir \subseteq dir' \cup {current[p], Tmp(current[p])}
  BY DEF InMessageStep, Stat, RemoveOld, Touch, Link, Parse, SendOk, SendFails, Reject,
         RemoveMessage, RemoveTmp, files, WithRejected, WithoutMessage
<1>9. \A x : x.msg # current[p].msg => (x \in dir' <=> x \in dir)
  BY <1>4, <1>8
<1>10. \A m \in Messages \ {current[p].msg} : old'[m] = old[m] /\ accepted'[m] = accepted[m]
  <2>1. accepted' = accepted \/ Accept(current[p].msg)
    BY DEF InMessageStep, Stat, RemoveOld, Touch, Link, Parse, SendOk, SendFails, Reject,
           RemoveMessage, RemoveTmp, history
  <2>2. old' = old \/ old' = [old EXCEPT ![current[p].msg] = FALSE]
    BY DEF InMessageStep, Stat, RemoveOld, Touch, Link, Parse, SendOk, SendFails, Reject,
           RemoveMessage, RemoveTmp, files
  <2> QED BY <1>1, <2>1, <2>2 DEF Accept, TypeOK
<1> QED
  BY <1>2, <1>3, <1>6, <1>7, <1>9, <1>10

LEMMA OnceOther ==
    ASSUME IInv, NEW m \in Messages, OnceOK(m), NEW p \in Processes, InMessageStep(p),
           current[p].msg # m
    PROVE  OnceOK(m)'
<1>1. /\ content' = content /\ todo' = todo /\ trouble' = trouble
      /\ \A q \in Processes \ {p} : pc'[q] = pc[q] /\ current'[q] = current[q]
      /\ pc'[p] \in InMessage => current'[p].msg # m
      /\ SameNames(m) /\ old'[m] = old[m] /\ accepted'[m] = accepted[m]
  BY OwnMessage DEF SameNames
<1>2. IsClean(m)' => IsClean(m) /\ ~old'[m]
  BY <1>1 DEF IsClean, OnceOK
<1>3. IsClean(m)' => \A q \in Processes : \A n \in todo'[q] : n.msg = m => n = Base(m)
  BY <1>1, <1>2 DEF OnceOK
<1>4. ASSUME NEW q \in Processes
      PROVE  StaysHeld(q, m)
  BY <1>1, <1>2 DEF StaysHeld, OnceOK, Holds
<1> QED
  BY <1>1, <1>2, <1>3, <1>4, OnceFrame

\* The one process that may hold m does something to its files.
LEMMA OnceAlone ==
    ASSUME NEW m \in Messages, OnceOK(m), IsClean(m), NEW p \in Processes,
           content' = content, trouble' = trouble, todo' = todo, ~old'[m],
           \A q \in Processes \ {p} : /\ pc'[q] = pc[q] /\ current'[q] = current[q]
                                      /\ ~Holds(q, m),
           \A n \in dir' : n.msg = m => n \in {Base(m), Tmp(Base(m))},
           pc'[p] \in InMessage => current'[p] = Base(m) /\ pc'[p] # "removeOld",
           pc'[p] \in Holding =>
              /\ Tmp(Base(m)) \in dir'
              /\ pc'[p] \in {"parse", "send"} => accepted'[m] = 0
              /\ pc'[p] = "removeTmp" => Base(m) \notin dir',
           content[m] # "valid" => accepted'[m] = 0,
           accepted'[m] \in {0, 1},
           accepted'[m] > 0 => Tmp(Base(m)) \in dir' \/ Base(m) \notin dir'
    PROVE  OnceOK(m)'
<1>1. \A q \in Processes : Holds(q, m)' => q = p /\ pc'[p] \in Holding
  BY DEF Holds
<1>2. \A q \in Processes : pc'[q] \in InMessage /\ current'[q].msg = m
                           => current'[q] = Base(m) /\ pc'[q] # "removeOld"
  BY DEF OnceOK
<1>3. \A q \in Processes : \A n \in todo'[q] : n.msg = m => n = Base(m)
  BY DEF OnceOK
<1>4. accepted'[m] <= 1
  OBVIOUS
<1>5. Base(m)' = Base(m) /\ Tmp(Base(m))' = Tmp(Base(m))
  BY DEF Base, Tmp, Prefixed
<1> QED
  BY <1>1, <1>2, <1>3, <1>4, <1>5 DEF OnceOK

LEMMA OnceMine ==
    ASSUME IInv, TypeOK', NEW m \in Messages, OnceOK(m), IsClean(m), NEW p \in Processes,
           InMessageStep(p), current[p].msg = m
    PROVE  OnceOK(m)'
<1> DEFINE base == Base(m)
           tmp == Tmp(Base(m))
<1>1. /\ pc[p] \in InMessage /\ content' = content /\ todo' = todo /\ trouble' = trouble
      /\ \A q \in Processes \ {p} : pc'[q] = pc[q] /\ current'[q] = current[q]
      /\ pc'[p] \in InMessage => current'[p] = current[p]
  BY OwnMessage
<1>2. TypeOK /\ ProcessOK(p) /\ MessageOK(m)
  BY DEF IInv
<1>3. /\ current[p] = base /\ pc[p] # "removeOld"
      /\ ~old[m] /\ \A n \in dir : n.msg = m => n \in {base, tmp}
      /\ accepted[m] <= 1 /\ (accepted[m] > 0 => tmp \in dir \/ base \notin dir)
      /\ content[m] # "valid" => accepted[m] = 0
  BY <1>1 DEF OnceOK
<1>4. /\ base.msg = m /\ tmp.msg = m /\ IsTmp(tmp) /\ ~IsTmp(base) /\ base # tmp
  BY BaseFacts, NameFacts
<1>5. /\ IsClean(m)' /\ content[m] # "invalid"
      /\ IsClean(m)' => IsClean(m) /\ ~old'[m]
  <2>1. old'[m] = old[m] \/ old'[m] = FALSE
    BY <1>2, <1>3, <1>4 DEF InMessageStep, Stat, RemoveOld, Touch, Link, Parse, SendOk, SendFails,
       Reject, RemoveMessage, RemoveTmp, files, TypeOK
  <2> QED BY <1>1, <1>3, <2>1 DEF IsClean
<1>6. pc[p] \in Holding => /\ \A q \in Processes \ {p} : ~Holds(q, m)
                           /\ tmp \in dir
                           /\ pc[p] \in {"parse", "send"} => accepted[m] = 0
                           /\ pc[p] = "removeTmp" => base \notin dir
  <2>1. pc[p] \in Holding => Holds(p, m)
    BY DEF Holds
  <2> QED BY <2>1 DEF OnceOK
<1>7. accepted[m] \in {0, 1}
  BY <1>2, <1>3 DEF TypeOK
<1>8. ASSUME NEW s \in Steps, Goto(p, s)
      PROVE  pc'[p] = s
  BY <1>2, <1>8 DEF Goto, TypeOK
\* Steps that leave the files and what was accepted.
<1>9. ASSUME dir' = dir, accepted' = accepted,
             \/ pc'[p] \in {"ready", "touch", "link"}
             \/ pc[p] = "parse" /\ pc'[p] = "send"
      PROVE  OnceOK(m)'
  <2>1. SameNames(m)
    BY <1>9 DEF SameNames
  <2>2. \A q \in Processes : \A n \in todo'[q] : n.msg = m => n = Base(m)
    BY <1>1 DEF OnceOK
  <2>3. StaysHeld(p, m)
    BY <1>1, <1>3, <1>9 DEF StaysHeld, Holds, Holding, InMessage
  <2>4. \A q \in Processes \ {p} : StaysHeld(q, m)
    BY <1>1 DEF StaysHeld, Holds, OnceOK
  <2> QED BY <1>1, <1>5, <1>9, <2>1, <2>2, <2>3, <2>4, OnceFrame
<1>10. CASE Stat(p)
  <2>1. dir' = dir /\ accepted' = accepted /\ Goto(p, AfterStat(base))
    BY <1>3, <1>10 DEF Stat, files, history
  <2>2. AfterStat(base) \in {"touch", "ready"}
    BY <1>3, <1>4 DEF AfterStat
  <2>3. pc'[p] \in {"touch", "ready"}
    BY <1>8, <2>1, <2>2 DEF Steps
  <2> QED BY <1>9, <2>1, <2>3
<1>11. CASE Touch(p)
  <2>1. dir' = dir /\ accepted' = accepted /\ (Goto(p, "link") \/ Goto(p, "ready"))
    BY <1>11 DEF Touch, history
  <2>2. pc'[p] \in {"link", "ready"}
    BY <1>8, <2>1 DEF Steps
  <2> QED BY <1>9, <2>1, <2>2
<1>12. CASE Link(p) /\ ~CanLink(base, tmp)
  <2>1. dir' = dir /\ accepted' = accepted /\ Goto(p, "ready")
    BY <1>3, <1>12 DEF Link, history
  <2>2. pc'[p] = "ready"
    BY <1>8, <2>1 DEF Steps
  <2> QED BY <1>9, <2>1, <2>2
<1>13. CASE Link(p) /\ CanLink(base, tmp)
  <2>1. /\ dir' = dir \cup {tmp} /\ accepted' = accepted /\ Goto(p, "parse")
        /\ base \in dir /\ tmp \notin dir
    BY <1>3, <1>13 DEF Link, CanLink, history
  <2>2. accepted[m] = 0
    BY <1>3, <1>7, <2>1
  <2>3. \A q \in Processes : ~Holds(q, m)
    BY <2>1 DEF OnceOK
  <2>4. pc'[p] = "parse"
    BY <1>8, <2>1 DEF Steps
  <2>5. \A n \in dir' : n.msg = m => n \in {base, tmp}
    BY <1>3, <2>1
  <2> QED BY <1>1, <1>3, <1>5, <2>1, <2>2, <2>3, <2>4, <2>5, OnceAlone
<1>14. CASE Parse(p)
  <2>1. dir' = dir /\ accepted' = accepted /\ pc[p] = "parse" /\ Goto(p, AfterParse(base))
    BY <1>3, <1>14 DEF Parse, files
  <2>2. base \in dir => content[m] # "none"
    BY <1>2, <1>4 DEF MessageOK
  <2>3. content[m] \in Contents
    BY <1>2 DEF TypeOK
  <2>4. AfterParse(base) \in {"ready", "send"}
    BY <1>4, <1>5, <2>2, <2>3 DEF AfterParse, TooEarly, Contents
  <2>5. pc'[p] \in {"ready", "send"}
    BY <1>8, <2>1, <2>4 DEF Steps
  <2> QED BY <1>9, <2>1, <2>5
<1>15. CASE SendOk(p) \/ SendFails(p)
  <2>1. /\ dir' = dir /\ pc[p] = "send" /\ (accepted' = accepted \/ Accept(m))
        /\ Goto(p, "removeMessage") \/ Goto(p, "ready")
    BY <1>15 DEF SendOk, SendFails, AfterFailure, files
  <2>2. content[m] = "valid"
    BY <1>2, <2>1 DEF ProcessOK
  <2>3. accepted'[m] \in {0, 1}
    BY <1>2, <1>6, <2>1 DEF Holding, Accept, TypeOK
  <2>4. tmp \in dir' /\ \A n \in dir' : n.msg = m => n \in {base, tmp}
    BY <1>3, <1>6, <2>1 DEF Holding
  <2>5. pc'[p] \in {"removeMessage", "ready"}
    BY <1>8, <2>1 DEF Steps
  <2>6. \A q \in Processes \ {p} : ~Holds(q, m)
    BY <1>6, <2>1 DEF Holding
  <2> QED BY <1>1, <1>3, <1>5, <2>2, <2>3, <2>4, <2>5, <2>6, OnceAlone
<1>16. CASE RemoveMessage(p)
  <2>1. /\ dir' = dir \ {base} /\ accepted' = accepted /\ pc[p] = "removeMessage"
        /\ Goto(p, "removeTmp")
    BY <1>3, <1>16 DEF RemoveMessage, WithoutMessage, history
  <2>2. /\ tmp \in dir' /\ base \notin dir'
        /\ \A n \in dir' : n.msg = m => n \in {base, tmp}
    BY <1>3, <1>4, <1>6, <2>1 DEF Holding
  <2>3. pc'[p] = "removeTmp"
    BY <1>8, <2>1 DEF Steps
  <2>4. \A q \in Processes \ {p} : ~Holds(q, m)
    BY <1>6, <2>1 DEF Holding
  <2> QED BY <1>1, <1>3, <1>5, <1>7, <2>1, <2>2, <2>3, <2>4, OnceAlone
<1>17. CASE RemoveTmp(p)
  <2>1. /\ dir' = dir \ {tmp} /\ accepted' = accepted /\ pc[p] = "removeTmp"
        /\ Goto(p, "ready")
    BY <1>3, <1>17 DEF RemoveTmp, history
  <2>2. base \notin dir' /\ \A n \in dir' : n.msg = m => n \in {base, tmp}
    BY <1>3, <1>6, <2>1 DEF Holding
  <2>3. pc'[p] = "ready"
    BY <1>8, <2>1 DEF Steps
  <2>4. \A q \in Processes \ {p} : ~Holds(q, m)
    BY <1>6, <2>1 DEF Holding
  <2> QED BY <1>1, <1>3, <1>5, <1>7, <2>1, <2>2, <2>3, <2>4, OnceAlone DEF Holding, InMessage
\* The other two are not steps with a clean message.
<1>18. ~RemoveOld(p) /\ ~Reject(p)
  BY <1>2, <1>3, <1>5 DEF RemoveOld, Reject, ProcessOK
<1> QED
  BY <1>10, <1>11, <1>12, <1>13, <1>14, <1>15, <1>16, <1>17, <1>18 DEF InMessageStep

\* Of a message with trouble, or that is invalid, the gateway still accepts nothing
\* before it is valid.
LEMMA OnceUnclean ==
    ASSUME IInv, NEW m \in Messages, OnceOK(m), ~IsClean(m), NEW p \in Processes,
           InMessageStep(p)
    PROVE  OnceOK(m)'
<1>1. content' = content /\ trouble' = trouble
  BY OwnMessage
<1>2. ~IsClean(m)'
  BY <1>1 DEF IsClean
<1>3. content[m] # "valid" => accepted'[m] = 0
  <2>1. CASE accepted' = accepted
    BY <2>1 DEF OnceOK
  <2>2. CASE accepted' # accepted
    <3>1. pc[p] = "send" /\ Accept(current[p].msg)
      BY <2>2 DEF InMessageStep, Stat, RemoveOld, Touch, Link, Parse, SendOk, SendFails, Reject,
         RemoveMessage, RemoveTmp, history
    <3>2. content[current[p].msg] = "valid"
      BY <3>1 DEF IInv, ProcessOK
    <3> QED BY <3>1, <3>2 DEF Accept, OnceOK, IInv, TypeOK
  <2> QED BY <2>1, <2>2
<1> QED
  BY <1>1, <1>2, <1>3 DEF OnceOK

OnceInv == IInv /\ \A m \in Messages : OnceOK(m)

LEMMA InitOnce == Init => OnceInv
<1> SUFFICES ASSUME Init, NEW m \in Messages
             PROVE  OnceOK(m)
  BY InitIInv DEF OnceInv
<1>1. /\ accepted[m] = 0 /\ ~old[m] /\ dir = {}
      /\ \A p \in Processes : pc[p] = "down" /\ todo[p] = {}
  BY DEF Init
<1>2. ~(0 > 0) /\ 0 <= 1
  OBVIOUS
<1> QED
  BY <1>1, <1>2 DEF OnceOK, Holds, Holding, InMessage

LEMMA NextOnce == OnceInv /\ [Next]_vars => OnceInv'
<1> SUFFICES ASSUME OnceInv, [Next]_vars, NEW m \in Messages
             PROVE  OnceOK(m)'
  BY NextIInv DEF OnceInv
<1>1. IInv /\ IInv' /\ OnceOK(m) /\ TypeOK'
  BY NextIInv DEF OnceInv, IInv
<1>2. CASE \E k \in Messages : Place(k) \/ Complete(k) \/ Age(k)
  BY <1>1, <1>2, OnceQueue
<1>3. ASSUME NEW p \in Processes, Start(p) \/ Send(p) \/ Crash(p)
      PROVE  OnceOK(m)'
  <2>1. CASE InMessageStep(p)
    BY <1>1, <2>1, OnceOther, OnceMine, OnceUnclean
  <2>2. CASE ~InMessageStep(p)
    BY <1>1, <1>3, <2>2, OnceBetween DEF Send, InMessageStep
  <2> QED BY <2>1, <2>2
<1>4. CASE UNCHANGED vars
  BY <1>1, <1>4 DEF vars, files, procs, history, OnceOK, IsClean, Holds, Base, Tmp, Prefixed
<1> QED
  BY <1>1, <1>2, <1>3, <1>4 DEF Next

-----------------------------------------------------------------------------
(* Theorems *)

\* The directory, the processes and what was accepted keep their types.
THEOREM TypeCorrect == Spec => []TypeOK
<1>1. IInv => TypeOK
  BY DEF IInv
<1>2. QED
  BY <1>1, Inductive, PTL

\* A message stays in the directory until the gateway has accepted it: os.remove
\* of a message follows requests.post in the same process, and .sending- links
\* are never the only name of a message that was not accepted.
THEOREM NothingIsLost == Spec => []NoLoss
<1>1. IInv => NoLoss
  BY DEF IInv, NoLoss, MessageOK
<1>2. QED
  BY <1>1, Inductive, PTL

\* A message that is moved aside for its content keeps a name that is not a
\* .sending- link, even if processes that took different links for messages
\* move them aside at the same time.
THEOREM NothingDiscardedIsLost == Spec => []DiscardedIsKept
<1>1. IInv => DiscardedIsKept
  BY DEF IInv, DiscardedIsKept, MessageOK
<1>2. QED
  BY <1>1, Inductive, PTL

\* A message is accepted once, and at most one process is about to send it, as long as
\* its .sending- link was neither listed nor older than MAX_SEND_TIME: the link, which
\* only one process can make, stays through failed sends and deaths of its maker.
THEOREM SentOnce == Spec => []OnceUnlessTrouble
<1>1. OnceInv => OnceUnlessTrouble
  <2> SUFFICES ASSUME OnceInv, NEW m \in Messages \ trouble
               PROVE  Cardinality(Sending(m)) <= 1 /\ accepted[m] <= 1
    BY DEF OnceUnlessTrouble
  <2>1. IInv /\ OnceOK(m) /\ accepted[m] \in 0 .. 2
    BY DEF OnceInv, IInv, TypeOK
  <2>2. Sending(m) = {} => Cardinality(Sending(m)) <= 1
    BY FS_EmptySet
  <2>3. CASE content[m] = "invalid"
    <3>1. Sending(m) = {}
      BY <2>1, <2>3 DEF Sending, IInv, ProcessOK
    <3>2. accepted[m] = 0
      BY <2>1, <2>3 DEF OnceOK
    <3> QED BY <2>2, <3>1, <3>2
  <2>4. CASE content[m] # "invalid"
    <3>1. IsClean(m)
      BY <2>4 DEF IsClean
    <3>2. \A p, q \in Sending(m) : p = q
      BY <2>1, <3>1 DEF OnceOK, Holds, Holding, Sending
    <3>3. Sending(m) # {} => \E p : Sending(m) = {p}
      BY <3>2
    <3>4. \A p : Cardinality({p}) = 1
      BY FS_Singleton
    <3>5. Cardinality(Sending(m)) <= 1
      BY <2>2, <3>3, <3>4
    <3> QED BY <2>1, <3>1, <3>5 DEF OnceOK
  <2> QED BY <2>3, <2>4
<1>2. Spec => []OnceInv
  BY InitOnce, NextOnce, PTL DEF Spec
<1> QED
  BY <1>1, <1>2, PTL
=============================================================================
