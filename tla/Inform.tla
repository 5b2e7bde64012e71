-------------------------------- MODULE Inform --------------------------------
(***************************************************************************)
(* The inform service (internal/pkg/inform/service.go): processes that     *)
(* take inform messages from the queue Inform and mail the user.  A row    *)
(* of the table emailLock keeps a mail from being sent twice: 0 is free,   *)
(* 1 is taken, 2 is sent.  The table's Lock and UnLock and the mail server *)
(* are outside the repository; the synthesize service may send the same    *)
(* inform message more than once.                                          *)
(***************************************************************************)
EXTENDS Integers

CONSTANTS
    Mails,           \* the mails: an ID and the type of an inform message
    Workers,         \* processes of the service
    MaxRequests,     \* bound: messages asking for the same mail
    Faults,          \* the failures that may happen
    MaxFaults,       \* bound: failing calls
    Disruptions,     \* what may happen to a process: "stop", "lose", "crash"
    MaxDisruptions,  \* bound: shutdowns, lost connections and crashes
    None             \* no message

\* "unsure" is a Send that fails after the mail server has taken the mail.
FaultKinds == {"prepare", "lock", "send", "unsure", "unlock"}
DisruptionKinds == {"stop", "lose", "crash"}

ASSUME FaultsAssumption == Faults \subseteq FaultKinds
ASSUME DisruptionsAssumption == Disruptions \subseteq DisruptionKinds
ASSUME BoundsAssumption ==
    MaxRequests \in Nat /\ MaxFaults \in Nat /\ MaxDisruptions \in Nat

Msgs == [mail : Mails, redelivered : BOOLEAN]
ASSUME NoneAssumption == None \notin Msgs

VARIABLES
    queue,        \* queue[m]: copies of message m ready for delivery
    requests,     \* requests[e]: messages sent so far for mail e
    linked,       \* linked[w]: the channel of process w is open
    stopping,     \* stopping[w]: the context of process w is done
    pc,           \* pc[w]: where work or processMsg is
    cur,          \* cur[w]: the message process w handles or has not acknowledged
    lock,         \* lock[e]: the row of e in the table emailLock
    sent,         \* sent[e]: mails the mail server took, up to 2
    dropped,      \* history: the mails a message of which was given up
    seen,         \* history: the failures that occurred, and "killed"
    faults,       \* failing calls so far
    disruptions   \* shutdowns, lost connections and crashes so far

process == <<linked, stopping>>
trouble == <<seen, faults>>
vars == <<queue, requests, process, pc, cur, lock, sent, dropped, trouble, disruptions>>

Steps == {"idle", "prepare", "lock", "send", "markSent", "reopen", "ack", "error"}

TypeOK ==
    /\ queue \in [Msgs -> Nat]
    /\ requests \in [Mails -> 0 .. MaxRequests]
    /\ linked \in [Workers -> BOOLEAN]
    /\ stopping \in [Workers -> BOOLEAN]
    /\ pc \in [Workers -> Steps]
    /\ cur \in [Workers -> Msgs \cup {None}]
    /\ \A w \in Workers : pc[w] # "idle" => cur[w] # None
    /\ lock \in [Mails -> 0 .. 2]
    /\ sent \in [Mails -> 0 .. 2]
    /\ dropped \subseteq Mails
    /\ seen \subseteq FaultKinds \cup {"killed"}
    /\ faults \in 0 .. MaxFaults
    /\ disruptions \in 0 .. MaxDisruptions

Init ==
    /\ queue = [m \in Msgs |-> 0]
    /\ requests = [e \in Mails |-> 0]
    /\ linked = [w \in Workers |-> TRUE]
    /\ stopping = [w \in Workers |-> FALSE]
    /\ pc = [w \in Workers |-> "idle"]
    /\ cur = [w \in Workers |-> None]
    /\ lock = [e \in Mails |-> 0]
    /\ sent = [e \in Mails |-> 0]
    /\ dropped = {}
    /\ seen = {}
    /\ faults = 0
    /\ disruptions = 0

-----------------------------------------------------------------------------
(* The queue. *)

Put(m) == [queue EXCEPT ![m] = @ + 1]
Redelivered(m) == [m EXCEPT !.redelivered = TRUE]

\* The synthesize service asks for mail e.
Request(e) ==
    /\ requests[e] < MaxRequests
    /\ requests' = [requests EXCEPT ![e] = @ + 1]
    /\ queue' = Put([mail |-> e, redelivered |-> FALSE])
    /\ UNCHANGED <<process, pc, cur, lock, sent, dropped, trouble, disruptions>>

\* The broker has a prefetch of one.
Deliver(w) ==
    /\ linked[w] /\ pc[w] = "idle" /\ cur[w] = None
    /\ \E m \in Msgs :
        /\ queue[m] > 0
        /\ queue' = [queue EXCEPT ![m] = @ - 1]
        /\ cur' = [cur EXCEPT ![w] = m]
    /\ pc' = [pc EXCEPT ![w] = "prepare"]
    /\ UNCHANGED <<requests, process, lock, sent, dropped, trouble, disruptions>>

-----------------------------------------------------------------------------
(* work: the mail is made, the lock taken, the mail sent, the lock given   *)
(* back with what became of the mail.                                      *)

Occurs(kind) ==
    /\ kind \in Faults
    /\ faults < MaxFaults
    /\ faults' = faults + 1
    /\ seen' = seen \cup {kind}

Goto(w, step) == pc' = [pc EXCEPT ![w] = step]

inWork == <<queue, requests, process, cur, dropped, disruptions>>

\* EmailRetriever.GetEmail and EmailMaker.Make.
Prepare(w) ==
    /\ pc[w] = "prepare"
    /\ \/ Goto(w, "lock") /\ UNCHANGED trouble
       \/ Occurs("prepare") /\ Goto(w, "error")
    /\ UNCHANGED <<inWork, lock, sent>>

BugTakeLock(w) ==
    LET e == cur[w].mail IN
    /\ pc[w] = "lock"
    /\ \/ /\ lock[e] # 2
          /\ lock' = [lock EXCEPT ![e] = 1]
          /\ Goto(w, "send")
          /\ UNCHANGED trouble
       \/ lock[e] = 2 /\ Goto(w, "error") /\ UNCHANGED <<lock, trouble>>
    /\ UNCHANGED <<inWork, sent>>

\* Locker.Lock takes a free row only; a call that fails may have taken it.
TakeLock(w) ==
    LET e == cur[w].mail
        taken == [lock EXCEPT ![e] = 1] IN
    /\ pc[w] = "lock"
    /\ \/ lock[e] = 0 /\ lock' = taken /\ Goto(w, "send") /\ UNCHANGED trouble
       \/ lock[e] # 0 /\ Goto(w, "error") /\ UNCHANGED <<lock, trouble>>
       \/ /\ Occurs("lock")
          /\ Goto(w, "error")
          /\ lock' \in {lock} \cup IF lock[e] = 0 THEN {taken} ELSE {}
    /\ UNCHANGED <<inWork, sent>>

\* EmailSender.Send; unlockValue becomes 2 only when it succeeds.
SendMail(w) ==
    LET sentOnce == [sent EXCEPT ![cur[w].mail] = IF @ < 2 THEN @ + 1 ELSE @] IN
    /\ pc[w] = "send"
    /\ \/ sent' = sentOnce /\ Goto(w, "markSent") /\ UNCHANGED trouble
       \/ Occurs("send") /\ Goto(w, "reopen") /\ UNCHANGED sent
       \/ Occurs("unsure") /\ Goto(w, "reopen") /\ sent' = sentOnce
    /\ UNCHANGED <<inWork, lock>>

BugUnLock(w) ==
    /\ pc[w] \in {"markSent", "reopen"}
    /\ Goto(w, IF pc[w] = "markSent" THEN "ack" ELSE "error")
    /\ lock' = IF pc[w] = "markSent" THEN [lock EXCEPT ![cur[w].mail] = 2] ELSE lock
    /\ UNCHANGED <<inWork, sent, trouble>>

\* The deferred Locker.UnLock, whose error is only logged.
UnLock(w) ==
    LET value == IF pc[w] = "markSent" THEN 2 ELSE 0
        released == [lock EXCEPT ![cur[w].mail] = value] IN
    /\ pc[w] \in {"markSent", "reopen"}
    /\ Goto(w, IF pc[w] = "markSent" THEN "ack" ELSE "error")
    /\ \/ lock' = released /\ UNCHANGED trouble
       \/ Occurs("unlock") /\ lock' \in {lock, released}
    /\ UNCHANGED <<inWork, sent>>

-----------------------------------------------------------------------------
(* The end of processMsg.  On a lost channel Ack and Nack have no effect:  *)
(* the broker has taken the message back already.                          *)

outside == <<requests, process, lock, sent, trouble, disruptions>>

EndsDelivery(w) ==
    /\ Goto(w, "idle")
    /\ cur' = [cur EXCEPT ![w] = None]

Ack(w) ==
    /\ pc[w] = "ack"
    /\ EndsDelivery(w)
    /\ UNCHANGED <<outside, queue, dropped>>

BugAbandonOnStop(w) ==
    /\ pc[w] = "error"
    /\ Goto(w, "idle")
    /\ UNCHANGED <<outside, queue, cur, dropped>>

\* While the process stops a failed message is left unacknowledged.
AbandonOnStop(w) ==
    /\ pc[w] = "error" /\ stopping[w]
    /\ Goto(w, "idle")
    /\ UNCHANGED <<outside, queue, cur, dropped>>

BugNack(w) ==
    /\ pc[w] = "error" /\ ~stopping[w]
    /\ EndsDelivery(w)
    /\ dropped' = IF linked[w] THEN dropped \cup {cur[w].mail} ELSE dropped
    /\ UNCHANGED <<outside, queue>>

\* d.Nack(false, !d.Redelivered): requeued the first time, then dropped.
Nack(w) ==
    /\ pc[w] = "error" /\ ~stopping[w]
    /\ EndsDelivery(w)
    /\ IF linked[w]
       THEN IF cur[w].redelivered
            THEN dropped' = dropped \cup {cur[w].mail} /\ UNCHANGED queue
            ELSE queue' = Put(Redelivered(cur[w])) /\ UNCHANGED dropped
       ELSE UNCHANGED <<queue, dropped>>
    /\ UNCHANGED outside

HandlerStep(w) ==
    \/ Prepare(w) \/ TakeLock(w) \/ SendMail(w) \/ UnLock(w)
    \/ Ack(w) \/ AbandonOnStop(w) \/ Nack(w)

-----------------------------------------------------------------------------
(* Shutdown, lost connections, crashes. *)

Disrupts(kind) ==
    /\ kind \in Disruptions
    /\ disruptions < MaxDisruptions
    /\ disruptions' = disruptions + 1

tables == <<requests, lock, sent, dropped, faults>>

BugReturned(w) == queue
\* The broker requeues what the channel of w had not acknowledged.
Returned(w) ==
    IF linked[w] /\ cur[w] # None THEN Put(Redelivered(cur[w])) ELSE queue

\* The process has ended, and the broker has what it had not acknowledged.
ProcessEnds(w) ==
    /\ queue' = Returned(w)
    /\ Goto(w, "idle")
    /\ cur' = [cur EXCEPT ![w] = None]
    /\ seen' = IF pc[w] = "idle" THEN seen ELSE seen \cup {"killed"}
    /\ UNCHANGED tables

Runs(w) ==
    /\ linked' = [linked EXCEPT ![w] = TRUE]
    /\ stopping' = [stopping EXCEPT ![w] = FALSE]

\* The process does not run, or has nothing left to do but to end.
Down(w) == stopping[w] /\ ~linked[w] /\ cur[w] = None

Stop(w) ==
    /\ ~stopping[w]
    /\ Disrupts("stop")
    /\ stopping' = [stopping EXCEPT ![w] = TRUE]
    /\ UNCHANGED <<queue, linked, pc, cur, seen, tables>>

LoseConnection(w) ==
    /\ linked[w]
    /\ Disrupts("lose")
    /\ queue' = Returned(w)
    /\ linked' = [linked EXCEPT ![w] = FALSE]
    /\ UNCHANGED <<stopping, pc, cur, seen, tables>>

\* The process is killed, and its container started again: "on-failure".
Crash(w) ==
    /\ ~Down(w)
    /\ Disrupts("crash")
    /\ ProcessEnds(w)
    /\ Runs(w)

\* main returns: told to stop, when the consumer has returned or after 15
\* seconds; without a channel, when the consumer has returned.
Exit(w) ==
    /\ stopping[w] \/ (~linked[w] /\ pc[w] = "idle")
    /\ ProcessEnds(w)
    /\ linked' = [linked EXCEPT ![w] = FALSE]
    /\ stopping' = [stopping EXCEPT ![w] = TRUE]
    /\ UNCHANGED disruptions

\* Somebody starts the process again.
Start(w) ==
    /\ Down(w)
    /\ Runs(w)
    /\ UNCHANGED <<queue, pc, cur, seen, tables, disruptions>>

\* Nothing is left to do for mail e.
Done(e) ==
    /\ \A m \in Msgs : m.mail = e => queue[m] = 0
    /\ \A w \in Workers : cur[w] # None => cur[w].mail # e

\* The system may rest when all work is done and all processes run.
Rest ==
    /\ \A e \in Mails : Done(e)
    /\ \A w \in Workers : linked[w] /\ ~stopping[w]
    /\ UNCHANGED vars

Next ==
    \/ \E e \in Mails : Request(e)
    \/ \E w \in Workers :
        \/ Deliver(w) \/ HandlerStep(w)
        \/ Stop(w) \/ LoseConnection(w) \/ Crash(w) \/ Exit(w) \/ Start(w)
    \/ Rest

Spec == Init /\ [][Next]_vars

\* The broker delivers, calls return, and main returns when it is to.  That a
\* process is started again is no fairness of the code.
Fairness ==
    \A w \in Workers : WF_vars(Deliver(w)) /\ WF_vars(HandlerStep(w)) /\ WF_vars(Exit(w))

FairSpec == Spec /\ Fairness

-----------------------------------------------------------------------------
(* Safety. *)

\* w has the lock of e: it is between Lock and UnLock.
Holds(w, e) ==
    pc[w] \in {"send", "markSent", "reopen"} /\ cur[w].mail = e

\* Two processes never send the same mail at the same time, however often
\* its message is repeated and whichever processes are stopped or killed.
OneSender ==
    \A v, w \in Workers : \A e \in Mails : Holds(v, e) /\ Holds(w, e) => v = w

\* "It is used to quarantee not to send the emails twice": the lock gives
\* that guarantee through repeated messages, failures of the mail server
\* and of the database, and crashes at any point, as long as no Send fails
\* after the mail server has taken the mail.
SentAtMostOnce ==
    "unsure" \notin seen => \A e \in Mails : sent[e] <= 1

\* A row is not left locked behind: locked without a holder only after a
\* failing call of the table or a killed process.
LockNotLeaked ==
    seen \cap {"lock", "unlock", "killed"} = {} =>
        \A e \in Mails : lock[e] = 1 => \E w \in Workers : Holds(w, e)

\* A mail asked for is not forgotten: it was sent or given up, or the broker
\* or a process still has its message.
MailNotForgotten ==
    \A e \in Mails : requests[e] > 0 => sent[e] > 0 \/ e \in dropped \/ ~Done(e)

\* One failure does not cost the user a mail, not even when repeated
\* messages fail on the lock that the process at work holds: "redeliver for
\* first time".  Two failures are excepted, for they may leave the row locked,
\* and then every later attempt fails: a failing Lock that has taken the row,
\* and a process killed at work.
OneFailureLosesNoMail ==
    faults + disruptions <= 1 /\ seen \cap {"lock", "killed"} = {} =>
        \A e \in Mails : requests[e] > 0 /\ Done(e) => sent[e] > 0

\* The guarantee as the comment on Locker states it.
NeverSentTwice == \A e \in Mails : sent[e] <= 1

-----------------------------------------------------------------------------
(* Liveness. *)

\* Some process is started again whenever it has ended.
KeepsRunning == \E w \in Workers : []<>(linked[w] /\ ~stopping[w])

\* Every mail asked for is sent or given up in the end, as long as a process of
\* the service keeps running.
MailSettles ==
    KeepsRunning =>
        \A e \in Mails : requests[e] > 0 ~> sent[e] > 0 \/ e \in dropped

==============================================================================
