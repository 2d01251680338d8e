--------------------------------- MODULE SmsDelivery ---------------------------------
(* The directory of queued SMS and the processes that deliver them:             *)
(*   sms/delivery.py     QueuedSMSDelivery.send_messages and _send_message,     *)
(*                       run by the console script deliver_sms                  *)
(*   sms/tricks.py       SMSDeliveryTrick, the same at the start of a watchmedo *)
(*                       process and then for each file created                 *)
(*   sms/datamanager.py  SMSDataManager.tpc_finish, which moves a file in       *)
(*                                                                              *)
(* A step is one call to the file system, so that processes interleave between  *)
(* any two of them, and a process may die between any two of them.  All names   *)
(* of a message are hard links to one inode and share content and mtime; the    *)
(* file name is a digest of the content, which holds a random code, so a name   *)
(* is used for one message only.  Messages are processed in any order.          *)
EXTENDS Naturals, Sequences, FiniteSets

CONSTANTS
    Messages,      \* queued SMS
    Processes,     \* delivering processes
    Watchers,      \* those that watch the directory, the others run once
    MaxPrefixes,   \* bound: how many prefixes fit into a file name
    MaxFaults,     \* bound: deaths of a process, sends that are not confirmed
                   \* and reads of a partial copy
    NoName         \* the argument of no call

ASSUME WatchersAssumption == Watchers \subseteq Processes
ASSUME BoundsAssumption == MaxPrefixes \in Nat /\ MaxFaults \in Nat

VARIABLES
    content,    \* [Messages -> Contents]: what the inode holds
    old,        \* [Messages -> BOOLEAN]: its mtime is more than MAX_SEND_TIME ago
    dir,        \* SUBSET Names: the directory
    pc,         \* [Processes -> Steps]: the next call of the process
    todo,       \* [Processes -> SUBSET Names]: messages found, not yet processed
    current,    \* [Processes -> Names \cup {NoName}]: the argument of _send_message
    observing,  \* SUBSET Watchers: the observer thread runs
    accepted,   \* [Messages -> 0 .. 2]: sends the gateway accepted, 2: more than one
    faults,     \* how many of them there were
    trouble     \* history: messages whose .sending- link got listed or too old

files == <<content, old, dir>>
procs == <<pc, todo, current, observing>>
history == <<accepted, faults, trouble>>
vars == <<files, procs, history>>

-----------------------------------------------------------------------------
(* Names and types *)

Prefixes == UNION {[1 .. k -> {"sending", "rejected"}] : k \in 0 .. MaxPrefixes}

Names == [msg : Messages, prefix : Prefixes]

ASSUME NoNameAssumption == NoName \notin Names

Base(m) == [msg |-> m, prefix |-> << >>]

Prefixed(x, n) == [msg |-> n.msg, prefix |-> <<x>> \o n.prefix]

\* tmp_filename and rejected_filename.
Tmp(n) == Prefixed("sending", n)
Rejected(n) == Prefixed("rejected", n)

IsTmp(n) == n.prefix # << >> /\ n.prefix[1] = "sending"

\* "partial" does not parse, "invalid" has no sound recipients, text and sender.
Contents == {"none", "partial", "valid", "invalid"}

Steps == {"down", "listing", "ready", "stat", "removeOld", "touch", "link",
          "parse", "send", "reject", "removeMessage", "removeTmp"}

\* The directory holds names, and each process is at a step.
TypeOK ==
    /\ content \in [Messages -> Contents]
    /\ old \in [Messages -> BOOLEAN]
    /\ dir \subseteq Names
    /\ pc \in [Processes -> Steps]
    /\ todo \in [Processes -> SUBSET Names]
    /\ current \in [Processes -> Names \cup {NoName}]
    /\ observing \subseteq Watchers
    /\ accepted \in [Messages -> 0 .. 2]
    /\ faults \in 0 .. MaxFaults
    /\ trouble \subseteq Messages

Init ==
    /\ content = [m \in Messages |-> "none"]
    /\ old = [m \in Messages |-> FALSE]
    /\ dir = {}
    /\ pc = [p \in Processes |-> "down"]
    /\ todo = [p \in Processes |-> {}]
    /\ current = [p \in Processes |-> NoName]
    /\ observing = {}
    /\ accepted = [m \in Messages |-> 0]
    /\ faults = 0
    /\ trouble = {}

-----------------------------------------------------------------------------
(* The queue *)

\* shutil.move: a rename puts the whole file there, a copy from another file
\* system creates it first.  Only the message itself matches the patterns of
\* the trick, so the event of its creation is the only one a watcher handles.
Place(m) ==
    /\ content[m] = "none"
    /\ \E c \in Contents \ {"none"} : content' = [content EXCEPT ![m] = c]
    /\ dir' = dir \cup {Base(m)}
    /\ todo' = [p \in Processes |-> IF p \in observing THEN todo[p] \cup {Base(m)}
                                   ELSE todo[p]]
    /\ UNCHANGED <<old, pc, current, observing, history>>

\* The end of that copy.
Complete(m) ==
    /\ content[m] = "partial"
    /\ \E c \in {"valid", "invalid"} : content' = [content EXCEPT ![m] = c]
    /\ UNCHANGED <<old, dir, procs, history>>

\* MAX_SEND_TIME passes without a touch; it matters to .sending- links only.
Age(m) ==
    /\ ~old[m]
    /\ \E n \in dir : n.msg = m /\ IsTmp(n)
    /\ old' = [old EXCEPT ![m] = TRUE]
    /\ trouble' = trouble \cup {m}
    /\ UNCHANGED <<content, dir, procs, accepted, faults>>

-----------------------------------------------------------------------------
(* send_messages *)

\* os.listdir, every name that ends in .json: the links .sending-*.json and
\* .rejected-*.json end in it as well.
Listed == dir

Start(p) ==
    /\ pc[p] = "down"
    /\ pc' = [pc EXCEPT ![p] = "listing"]
    /\ todo' = [todo EXCEPT ![p] = Listed]
    /\ trouble' = trouble \cup {n.msg : n \in {n \in Listed : IsTmp(n)}}
    /\ UNCHANGED <<files, current, observing, accepted, faults>>

GetMtimes(p) ==
    /\ pc[p] = "listing"
    /\ todo[p] \subseteq dir
    /\ pc' = [pc EXCEPT ![p] = "ready"]
    /\ UNCHANGED <<files, todo, current, observing, history>>

\* os.path.getmtime of a file that was removed since: nothing catches the error.
GetMtimesFails(p) ==
    /\ pc[p] = "listing"
    /\ ~ todo[p] \subseteq dir
    /\ pc' = [pc EXCEPT ![p] = "down"]
    /\ todo' = [todo EXCEPT ![p] = {}]
    /\ UNCHANGED <<files, current, observing, history>>

\* A defect for comparison: every process goes on observing.
StartsObserverAlways(p) == TRUE

StartsObserver(p) == p \in Watchers

\* The script ends; the trick is initialised and its observer starts.
EndOfBatch(p) ==
    /\ pc[p] = "ready"
    /\ todo[p] = {}
    /\ p \notin observing
    /\ IF StartsObserver(p)
          THEN observing' = observing \cup {p} /\ pc' = pc
          ELSE observing' = observing /\ pc' = [pc EXCEPT ![p] = "down"]
    /\ UNCHANGED <<files, todo, current, history>>

Take(p) ==
    /\ pc[p] = "ready"
    /\ \E n \in todo[p] :
          /\ current' = [current EXCEPT ![p] = n]
          /\ todo' = [todo EXCEPT ![p] = @ \ {n}]
    /\ pc' = [pc EXCEPT ![p] = "stat"]
    /\ UNCHANGED <<files, observing, history>>

-----------------------------------------------------------------------------
(* _send_message; an early return and a logged exception both go to "ready" *)

Goto(p, step) ==
    /\ pc' = [pc EXCEPT ![p] = step]
    /\ current' = [current EXCEPT ![p] = IF step \in {"ready", "down"} THEN NoName ELSE @]

AfterStat(n) ==
    IF Tmp(n) \notin dir THEN "touch" ELSE IF old[n.msg] THEN "removeOld" ELSE "ready"

Stat(p) ==
    /\ pc[p] = "stat"
    /\ Goto(p, AfterStat(current[p]))
    /\ UNCHANGED <<files, todo, observing, history>>

RemoveOld(p) ==
    /\ pc[p] = "removeOld"
    /\ Goto(p, IF Tmp(current[p]) \in dir THEN "touch" ELSE "ready")
    /\ dir' = dir \ {Tmp(current[p])}
    /\ UNCHANGED <<content, old, todo, observing, history>>

Touch(p) ==
    /\ pc[p] = "touch"
    /\ IF current[p] \in dir
          THEN Goto(p, "link") /\ old' = [old EXCEPT ![current[p].msg] = FALSE]
          ELSE Goto(p, "ready") /\ old' = old
    /\ UNCHANGED <<content, dir, todo, observing, history>>

\* A defect for comparison: an existing target is overwritten.
CanLinkOver(n, target) == n \in dir /\ target \in Names

\* os.link needs the source, no such target, and a name that is not too long.
CanLink(n, target) == n \in dir /\ target \notin dir /\ target \in Names

Link(p) ==
    /\ pc[p] = "link"
    /\ IF CanLink(current[p], Tmp(current[p]))
          THEN Goto(p, "parse") /\ dir' = dir \cup {Tmp(current[p])}
          ELSE Goto(p, "ready") /\ dir' = dir
    /\ UNCHANGED <<content, old, todo, observing, history>>

Fault == faults < MaxFaults /\ faults' = faults + 1

TooEarly(n) == n \in dir /\ content[n.msg] = "partial"

AfterParse(n) ==
    IF n \notin dir \/ TooEarly(n) THEN "ready"
    ELSE IF content[n.msg] = "valid" THEN "send" ELSE "reject"

Parse(p) ==
    /\ pc[p] = "parse"
    /\ Goto(p, AfterParse(current[p]))
    /\ IF TooEarly(current[p]) THEN Fault ELSE faults' = faults
    /\ UNCHANGED <<files, todo, observing, accepted, trouble>>

Accept(m) == accepted' = [accepted EXCEPT ![m] = IF @ = 2 THEN 2 ELSE @ + 1]

SendOk(p) ==
    /\ pc[p] = "send"
    /\ Accept(current[p].msg)
    /\ Goto(p, "removeMessage")
    /\ UNCHANGED <<files, todo, observing, faults, trouble>>

\* A defect for comparison: a failed send is not raised.
AfterFailureIgnored == "removeMessage"

AfterFailure == "ready"

\* An error of the gateway or of the connection, before or after it accepted.
SendFails(p) ==
    /\ pc[p] = "send"
    /\ Fault
    /\ Accept(current[p].msg) \/ accepted' = accepted
    /\ Goto(p, AfterFailure)
    /\ UNCHANGED <<files, todo, observing, trouble>>

\* A defect for comparison: the discarded message gets no other name.
WithRejectedDropped(n) == dir

WithRejected(n) == dir \cup {Rejected(n)}

Reject(p) ==
    /\ pc[p] = "reject"
    /\ IF CanLink(current[p], Rejected(current[p]))
          THEN Goto(p, "removeMessage") /\ dir' = WithRejected(current[p])
          ELSE Goto(p, "ready") /\ dir' = dir
    /\ UNCHANGED <<content, old, todo, observing, history>>

\* A defect for comparison: the message is not removed after it was sent.
WithoutMessageKept(n) == dir

WithoutMessage(n) == dir \ {n}

RemoveMessage(p) ==
    /\ pc[p] = "removeMessage"
    /\ dir' = WithoutMessage(current[p])
    /\ Goto(p, "removeTmp")
    /\ UNCHANGED <<content, old, todo, observing, history>>

RemoveTmp(p) ==
    /\ pc[p] = "removeTmp"
    /\ dir' = dir \ {Tmp(current[p])}
    /\ Goto(p, "ready")
    /\ UNCHANGED <<content, old, todo, observing, history>>

Crash(p) ==
    /\ pc[p] # "down"
    /\ Fault
    /\ Goto(p, "down")
    /\ todo' = [todo EXCEPT ![p] = {}]
    /\ observing' = observing \ {p}
    /\ UNCHANGED <<files, accepted, trouble>>

-----------------------------------------------------------------------------

Send(p) ==
    \/ GetMtimes(p) \/ GetMtimesFails(p) \/ EndOfBatch(p) \/ Take(p)
    \/ Stat(p) \/ RemoveOld(p) \/ Touch(p) \/ Link(p) \/ Parse(p)
    \/ SendOk(p) \/ SendFails(p) \/ Reject(p) \/ RemoveMessage(p) \/ RemoveTmp(p)

Next ==
    \/ \E m \in Messages : Place(m) \/ Complete(m) \/ Age(m)
    \/ \E p \in Processes : Start(p) \/ Send(p) \/ Crash(p)

\* A process goes on, the script is run again and again, a copy comes to its
\* end.  Nothing is assumed of the time that passes, of crashes, and of failures.
Fairness ==
    /\ \A p \in Processes : WF_vars(Send(p))
    /\ \A p \in Processes \ Watchers : WF_vars(Start(p))
    /\ \A m \in Messages : WF_vars(Complete(m))

Spec == Init /\ [][Next]_vars /\ Fairness

-----------------------------------------------------------------------------
(* Properties *)

\* A message leaves the queue only after the gateway has accepted it, whatever
\* process dies when, and whatever link another process takes for a message.
NoLoss ==
    \A m \in Messages :
        content[m] \in {"partial", "valid"} => Base(m) \in dir \/ accepted[m] > 0

\* A message that is discarded for its content keeps a name in the directory.
DiscardedIsKept ==
    \A m \in Messages :
        content[m] = "invalid" => \E n \in dir : n.msg = m /\ ~IsTmp(n)

Sending(m) == {p \in Processes : pc[p] = "send" /\ current[p].msg = m}

\* "no two threads/processes send this message simultaneously" (the comment in
\* _send_message).
SoleSender == \A m \in Messages : Cardinality(Sending(m)) <= 1

\* A message is sent by two processes at once, or accepted twice, only after its
\* .sending- link was older than MAX_SEND_TIME or was listed as a message: a
\* failure or a crash alone does not do it.
OnceUnlessTrouble ==
    \A m \in Messages \ trouble : Cardinality(Sending(m)) <= 1 /\ accepted[m] <= 1

\* Every valid message is delivered: it is accepted and leaves the queue, with
\* fewer faults than prefixes fit into a file name.
Delivered ==
    \A m \in Messages :
        content[m] = "valid" ~> (accepted[m] > 0 /\ Base(m) \notin dir)
=============================================================================
