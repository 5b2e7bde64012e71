----------------------------- MODULE InformProofs -----------------------------
(***************************************************************************)
(* Proofs about the inform service for every number of mails, processes,   *)
(* repeated messages, failures and disruptions.                            *)
(***************************************************************************)
EXTENDS Inform, TLAPS

-----------------------------------------------------------------------------
(* Messages and the queue. *)

\* A requeued message is a message for the same mail.
LEMMA RedeliveredMsg ==
    ASSUME NEW m \in Msgs
    PROVE  Redelivered(m) \in Msgs /\ Redelivered(m).mail = m.mail
BY DEF Redelivered, Msgs

\* A message put into the queue is there, and no copy of another is lost.
LEMMA PutMsg ==
    ASSUME queue \in [Msgs -> Nat], NEW m \in Msgs
    PROVE  /\ Put(m) \in [Msgs -> Nat]
           /\ Put(m)[m] > 0
           /\ \A k \in Msgs : queue[k] > 0 => Put(m)[k] > 0
BY DEF Put

\* What the broker takes back is a queue that has lost nothing.
LEMMA ReturnedQueue ==
    ASSUME TypeOK, NEW w \in Workers
    PROVE  /\ Returned(w) \in [Msgs -> Nat]
           /\ \A k \in Msgs : queue[k] > 0 => Returned(w)[k] > 0
           /\ linked[w] /\ cur[w] # None => Returned(w)[Redelivered(cur[w])] > 0
<1>1. CASE linked[w] /\ cur[w] # None
  <2>1. cur[w] \in Msgs
    BY <1>1 DEF TypeOK
  <2> QED  BY <1>1, <2>1, RedeliveredMsg, PutMsg DEF TypeOK, Returned
<1>2. CASE ~(linked[w] /\ cur[w] # None)
  BY <1>2 DEF TypeOK, Returned
<1> QED  BY <1>1, <1>2

-----------------------------------------------------------------------------
(* Type correctness. *)

LEMMA TypeInit == Init => TypeOK
BY BoundsAssumption DEF Init, TypeOK, Msgs, Steps

LEMMA TypeDeliver ==
    ASSUME TypeOK, NEW w \in Workers, Deliver(w)
    PROVE  TypeOK'
<1>1. PICK m \in Msgs :
        /\ queue[m] > 0
        /\ queue' = [queue EXCEPT ![m] = @ - 1]
        /\ cur' = [cur EXCEPT ![w] = m]
  BY DEF Deliver
<1>2. queue' \in [Msgs -> Nat]
  BY <1>1 DEF TypeOK
<1>3. cur' \in [Workers -> Msgs \cup {None}] /\ cur'[w] # None
  BY <1>1, NoneAssumption DEF TypeOK
<1> QED
  BY <1>1, <1>2, <1>3 DEF TypeOK, Deliver, process, trouble, Steps

LEMMA TypeTrouble ==
    ASSUME TypeOK, UNCHANGED trouble \/ \E kind \in FaultKinds : Occurs(kind)
    PROVE  seen' \subseteq FaultKinds \cup {"killed"} /\ faults' \in 0 .. MaxFaults
<1>1. CASE UNCHANGED trouble
  BY <1>1 DEF trouble, TypeOK
<1>2. ASSUME NEW kind \in FaultKinds, Occurs(kind)
      PROVE  seen' \subseteq FaultKinds \cup {"killed"} /\ faults' \in 0 .. MaxFaults
  BY <1>2, BoundsAssumption DEF Occurs, TypeOK
<1> QED  BY <1>1, <1>2

LEMMA TypeGoto ==
    ASSUME TypeOK, NEW w \in Workers, NEW step \in Steps, Goto(w, step),
           cur[w] # None, UNCHANGED cur
    PROVE  /\ pc' \in [Workers -> Steps]
           /\ \A v \in Workers : pc'[v] # "idle" => cur'[v] # None
BY DEF TypeOK, Goto

LEMMA TypeWork ==
    ASSUME TypeOK, NEW w \in Workers,
           Prepare(w) \/ TakeLock(w) \/ SendMail(w) \/ UnLock(w)
    PROVE  TypeOK'
<1>1. cur[w] # None /\ cur[w] \in Msgs /\ cur[w].mail \in Mails
  BY DEF TypeOK, Prepare, TakeLock, SendMail, UnLock, Msgs
<1>2. UNCHANGED inWork
  BY DEF Prepare, TakeLock, SendMail, UnLock, inWork
<1>3. UNCHANGED trouble \/ \E kind \in FaultKinds : Occurs(kind)
  BY DEF Prepare, TakeLock, SendMail, UnLock, FaultKinds
<1>4. \E step \in Steps : Goto(w, step)
  BY DEF Prepare, TakeLock, SendMail, UnLock, Steps
<1>5. lock' \in [Mails -> 0 .. 2] /\ sent' \in [Mails -> 0 .. 2]
  <2>1. CASE Prepare(w)
    BY <2>1 DEF Prepare, TypeOK
  <2>2. CASE TakeLock(w)
    BY <1>1, <2>2 DEF TakeLock, TypeOK
  <2>3. CASE SendMail(w)
    BY <1>1, <2>3 DEF SendMail, TypeOK
  <2>4. CASE UnLock(w)
    BY <1>1, <2>4 DEF UnLock, TypeOK
  <2> QED  BY <2>1, <2>2, <2>3, <2>4
<1> QED
  BY <1>1, <1>2, <1>3, <1>4, <1>5, TypeTrouble, TypeGoto DEF TypeOK, inWork, process

LEMMA TypeHandler ==
    ASSUME TypeOK, NEW w \in Workers, HandlerStep(w)
    PROVE  TypeOK'
<1> USE DEF TypeOK, Goto, process, trouble, outside, Steps
<1>1. CASE Ack(w)
  BY <1>1 DEF Ack, EndsDelivery
<1>2. CASE AbandonOnStop(w)
  BY <1>2 DEF AbandonOnStop
<1>3. CASE Nack(w)
  <2>1. cur[w] \in Msgs /\ cur[w].mail \in Mails
    BY <1>3 DEF Nack, Msgs
  <2>2. Put(Redelivered(cur[w])) \in [Msgs -> Nat]
    BY <2>1, RedeliveredMsg, PutMsg
  <2>3. queue' \in [Msgs -> Nat] /\ dropped' \subseteq Mails
    BY <1>3, <2>1, <2>2 DEF Nack
  <2> QED  BY <1>3, <2>3 DEF Nack, EndsDelivery
<1> QED
  BY <1>1, <1>2, <1>3, TypeWork DEF HandlerStep

LEMMA TypeEnvironment ==
    ASSUME TypeOK, NEW w \in Workers,
           Stop(w) \/ LoseConnection(w) \/ Crash(w) \/ Exit(w) \/ Start(w)
    PROVE  TypeOK'
<1> USE DEF TypeOK, tables, Steps
<1>1. ASSUME NEW kind, Disrupts(kind) PROVE disruptions' \in 0 .. MaxDisruptions
  BY <1>1, BoundsAssumption DEF Disrupts
<1>2. CASE Stop(w)
  BY <1>1, <1>2 DEF Stop
<1>3. CASE LoseConnection(w)
  BY <1>1, <1>3, ReturnedQueue DEF LoseConnection
<1>4. ASSUME ProcessEnds(w), disruptions' \in 0 .. MaxDisruptions,
             NEW running \in BOOLEAN,
             linked' = [linked EXCEPT ![w] = running],
             stopping' = [stopping EXCEPT ![w] = ~running]
      PROVE  TypeOK'
  BY <1>4, ReturnedQueue DEF ProcessEnds, Goto
<1>5. CASE Crash(w)
  BY <1>1, <1>4, <1>5 DEF Crash, Runs
<1>6. CASE Exit(w)
  BY <1>4, <1>6 DEF Exit
<1>7. CASE Start(w)
  BY <1>7 DEF Start, Runs
<1> QED  BY <1>2, <1>3, <1>5, <1>6, <1>7

LEMMA TypeStep == TypeOK /\ [Next]_vars => TypeOK'
<1> SUFFICES ASSUME TypeOK, [Next]_vars PROVE TypeOK'
  OBVIOUS
<1>1. ASSUME NEW e \in Mails, Request(e) PROVE TypeOK'
  <2>1. queue' \in [Msgs -> Nat]
    BY <1>1, PutMsg DEF Request, Msgs, TypeOK
  <2>2. requests' \in [Mails -> 0 .. MaxRequests]
    BY <1>1, BoundsAssumption DEF Request, TypeOK
  <2> QED  BY <1>1, <2>1, <2>2 DEF Request, TypeOK, process, trouble
<1>2. ASSUME UNCHANGED vars PROVE TypeOK'
  BY <1>2 DEF vars, process, trouble, TypeOK
<1> QED
  BY <1>1, <1>2, TypeDeliver, TypeHandler, TypeEnvironment DEF Next, Rest

\* Every reachable state has its declared shape.
THEOREM TypeCorrect == Spec => []TypeOK
BY TypeInit, TypeStep, PTL DEF Spec

-----------------------------------------------------------------------------
(* The lock. *)

\* Who sends a mail has locked its row; a mail whose row is free, or whose
\* holder has not sent it, has not been sent.
LockInv ==
    /\ \A w \in Workers : \A e \in Mails : Holds(w, e) => lock[e] = 1
    /\ OneSender

SentInv ==
    "unsure" \notin seen =>
        \A e \in Mails :
            /\ sent[e] <= 1
            /\ lock[e] = 0 => sent[e] = 0
            /\ \A w \in Workers : Holds(w, e) /\ pc[w] # "markSent" => sent[e] = 0

\* The steps that touch neither a lock nor its holder.
LEMMA HoldersKept ==
    ASSUME LockInv, SentInv, UNCHANGED <<lock, sent>>, seen \subseteq seen',
           \A w \in Workers : \A e \in Mails :
               Holds(w, e)' => Holds(w, e) /\ pc'[w] = pc[w]
    PROVE  LockInv' /\ SentInv'
BY DEF LockInv, OneSender, SentInv

LEMMA LockStepEnvironment ==
    ASSUME TypeOK, LockInv, SentInv, NEW w \in Workers,
           \/ Deliver(w) \/ Prepare(w) \/ Ack(w) \/ AbandonOnStop(w) \/ Nack(w)
           \/ Stop(w) \/ LoseConnection(w) \/ Crash(w) \/ Exit(w) \/ Start(w)
    PROVE  LockInv' /\ SentInv'
<1>1. UNCHANGED <<lock, sent>> /\ seen \subseteq seen'
  BY DEF Deliver, Prepare, Ack, AbandonOnStop, Nack, Stop, LoseConnection, Crash,
         Exit, ProcessEnds, Runs, Start, Occurs, tables, outside, trouble
<1>2. \/ pc' = pc /\ cur' = cur
      \/ /\ \E step \in Steps \ {"send", "markSent", "reopen"} : Goto(w, step)
         /\ \A v \in Workers \ {w} : cur'[v] = cur[v]
  BY DEF Deliver, Prepare, Ack, AbandonOnStop, Nack, Stop, LoseConnection, Crash,
         Exit, ProcessEnds, Runs, Start, EndsDelivery, inWork, Goto, Steps, TypeOK
<1>3. ASSUME NEW v \in Workers, NEW e \in Mails, Holds(v, e)'
      PROVE  Holds(v, e) /\ pc'[v] = pc[v]
  BY <1>2, <1>3 DEF Holds, Goto, TypeOK
<1> QED  BY <1>1, <1>3, HoldersKept

LEMMA LockStepTake ==
    ASSUME TypeOK, LockInv, SentInv, NEW w \in Workers, TakeLock(w)
    PROVE  LockInv' /\ SentInv'
<1>1. cur[w].mail \in Mails /\ UNCHANGED <<cur, sent>> /\ seen \subseteq seen'
  BY DEF TypeOK, TakeLock, Msgs, inWork, trouble, Occurs
<1>2. ASSUME ~Goto(w, "send") PROVE LockInv' /\ SentInv'
  <2>1. Goto(w, "error")
    BY <1>2 DEF TakeLock
  <2>2. \A e \in Mails : lock'[e] = lock[e] \/ lock'[e] = 1
    BY <1>1, <1>2 DEF TakeLock, TypeOK
  <2>3. ASSUME NEW v \in Workers, NEW e \in Mails, Holds(v, e)'
        PROVE  Holds(v, e) /\ pc'[v] = pc[v]
    BY <1>1, <2>1, <2>3 DEF Holds, Goto, TypeOK
  <2>4. LockInv'
    BY <2>2, <2>3 DEF LockInv, OneSender
  <2> QED  BY <1>1, <2>2, <2>3, <2>4 DEF SentInv
<1>3. ASSUME Goto(w, "send") PROVE LockInv' /\ SentInv'
  <2> DEFINE e == cur[w].mail
  <2>1. lock[e] = 0 /\ lock' = [lock EXCEPT ![e] = 1] /\ UNCHANGED trouble
    BY <1>3 DEF TakeLock, Goto, TypeOK
  <2>2. \A v \in Workers : ~Holds(v, e)
    BY <1>1, <2>1 DEF LockInv
  <2>3. \A v \in Workers, f \in Mails :
            Holds(v, f)' <=> Holds(v, f) \/ (v = w /\ f = e)
    BY <1>1, <1>3 DEF Holds, Goto, TypeOK, TakeLock
  <2>4. \A v \in Workers \ {w} : pc'[v] = pc[v]
    BY <1>3 DEF Goto, TypeOK
  <2>5. \A f \in Mails : lock'[f] = IF f = e THEN 1 ELSE lock[f]
    BY <2>1 DEF TypeOK
  <2>6. LockInv'
    BY <1>1, <2>2, <2>3, <2>5 DEF LockInv, OneSender
  <2>7. ~(\E f \in Mails : f # e /\ Holds(w, f))
    BY DEF Holds
  <2> QED
    BY <1>1, <2>1, <2>2, <2>3, <2>4, <2>5, <2>6, <2>7 DEF SentInv, trouble
<1> QED  BY <1>2, <1>3

LEMMA LockStepSend ==
    ASSUME TypeOK, LockInv, SentInv, NEW w \in Workers, SendMail(w)
    PROVE  LockInv' /\ SentInv'
<1> DEFINE e == cur[w].mail
<1>1. e \in Mails /\ Holds(w, e) /\ UNCHANGED <<cur, lock>>
  BY DEF TypeOK, SendMail, Msgs, inWork, Holds
<1>2. \A v \in Workers, f \in Mails : Holds(v, f)' <=> Holds(v, f)
  BY <1>1 DEF Holds, SendMail, Goto, TypeOK
<1>3. LockInv'
  BY <1>1, <1>2 DEF LockInv, OneSender
<1>4. lock'[e] = 1
  BY <1>1 DEF LockInv
<1>5. \A v \in Workers : Holds(v, e) => v = w
  BY <1>1 DEF LockInv, OneSender
<1>6. \A f \in Mails \ {e} : sent'[f] = sent[f] /\ ~Holds(w, f)
  BY DEF SendMail, TypeOK, Holds
<1>7. \A v \in Workers \ {w} : pc'[v] = pc[v]
  BY DEF SendMail, Goto, TypeOK
<1>8. ASSUME "unsure" \notin seen'
      PROVE  /\ "unsure" \notin seen
             /\ sent'[e] \in {sent[e], sent[e] + 1}
             /\ pc'[w] # "markSent" => sent'[e] = sent[e]
  BY <1>1, <1>8 DEF SendMail, Occurs, trouble, Goto, TypeOK
<1>9. SentInv'
  <2> SUFFICES ASSUME "unsure" \notin seen', NEW f \in Mails
               PROVE  /\ sent'[f] <= 1
                      /\ lock'[f] = 0 => sent'[f] = 0
                      /\ \A v \in Workers : Holds(v, f)' /\ pc'[v] # "markSent" => sent'[f] = 0
    BY DEF SentInv
  <2>1. CASE f = e
    <3>1. sent[e] = 0
      BY <1>1, <1>8 DEF SentInv, SendMail
    <3> QED  BY <1>1, <1>2, <1>4, <1>5, <1>8, <2>1, <3>1
  <2>2. CASE f # e
    BY <1>1, <1>2, <1>6, <1>7, <1>8, <2>2 DEF SentInv
  <2> QED  BY <2>1, <2>2
<1> QED  BY <1>3, <1>9

LEMMA LockStepUnLock ==
    ASSUME TypeOK, LockInv, SentInv, NEW w \in Workers, UnLock(w)
    PROVE  LockInv' /\ SentInv'
<1> DEFINE e == cur[w].mail
<1>1. e \in Mails /\ Holds(w, e) /\ UNCHANGED <<cur, sent>> /\ seen \subseteq seen'
  BY DEF TypeOK, UnLock, Msgs, inWork, Holds, trouble, Occurs
<1>2. \A v \in Workers : Holds(v, e) => v = w
  BY <1>1 DEF LockInv, OneSender
<1>3. ASSUME NEW v \in Workers, NEW f \in Mails, Holds(v, f)'
      PROVE  Holds(v, f) /\ f # e /\ pc'[v] = pc[v]
  BY <1>1, <1>2, <1>3 DEF Holds, UnLock, Goto, TypeOK
<1>4. \A f \in Mails \ {e} : lock'[f] = lock[f]
  BY DEF UnLock, TypeOK
<1>5. lock'[e] = 0 => pc[w] = "reopen"
  BY <1>1 DEF UnLock, TypeOK, LockInv
<1>6. LockInv'
  BY <1>3, <1>4 DEF LockInv, OneSender
<1>7. SentInv'
  BY <1>1, <1>3, <1>4, <1>5 DEF SentInv
<1> QED  BY <1>6, <1>7

LEMMA LockStep == TypeOK /\ LockInv /\ SentInv /\ [Next]_vars => LockInv' /\ SentInv'
<1> SUFFICES ASSUME TypeOK, LockInv, SentInv, [Next]_vars PROVE LockInv' /\ SentInv'
  OBVIOUS
<1>1. ASSUME (\E e \in Mails : Request(e)) \/ UNCHANGED vars PROVE LockInv' /\ SentInv'
  BY <1>1, HoldersKept DEF Request, vars, process, trouble, Holds
<1> QED
  BY <1>1, LockStepEnvironment, LockStepTake, LockStepSend, LockStepUnLock
  DEF Next, HandlerStep, Rest

LEMMA LockInvariant == Spec => [](LockInv /\ SentInv)
<1>1. Init => LockInv /\ SentInv
  BY DEF Init, LockInv, OneSender, SentInv, Holds
<1> QED  BY <1>1, TypeCorrect, LockStep, PTL DEF Spec

\* However many processes take messages, two never send the same mail at the
\* same time.
THEOREM OneSenderHolds == Spec => []OneSender
BY LockInvariant, PTL DEF LockInv

\* A mail is sent at most once, unless a Send fails after the mail server has
\* taken the mail: through repeated messages, failing calls of the table,
\* crashes and lost connections.
THEOREM SentAtMostOnceHolds == Spec => []SentAtMostOnce
<1>1. SentInv => SentAtMostOnce
  BY DEF SentInv, SentAtMostOnce
<1> QED  BY <1>1, LockInvariant, PTL

-----------------------------------------------------------------------------
(* Locked rows. *)

\* Who is between Lock and UnLock stays there, except by UnLock or killed.
LEMMA HolderStays ==
    ASSUME TypeOK, [Next]_vars, NEW v \in Workers, NEW e \in Mails, Holds(v, e),
           ~UnLock(v), "killed" \notin seen'
    PROVE  Holds(v, e)'
<1> USE DEF Holds
<1>1. ASSUME NEW f \in Mails, Request(f) PROVE Holds(v, e)'
  BY <1>1 DEF Request
<1>2. ASSUME NEW w \in Workers, Deliver(w) \/ HandlerStep(w) PROVE Holds(v, e)'
  <2>1. CASE w = v
    BY <1>2, <2>1
    DEF Deliver, HandlerStep, Prepare, TakeLock, SendMail, Ack, AbandonOnStop, Nack,
        Goto, inWork, TypeOK
  <2>2. CASE w # v
    BY <1>2, <2>2
    DEF Deliver, HandlerStep, Prepare, TakeLock, SendMail, UnLock, Ack, AbandonOnStop,
        Nack, EndsDelivery, Goto, inWork, TypeOK
  <2> QED  BY <2>1, <2>2
<1>3. ASSUME NEW w \in Workers, Stop(w) \/ LoseConnection(w) \/ Start(w) PROVE Holds(v, e)'
  BY <1>3 DEF Stop, LoseConnection, Start, Runs
<1>4. ASSUME NEW w \in Workers, Crash(w) \/ Exit(w) PROVE Holds(v, e)'
  <2>1. ProcessEnds(w) /\ w # v
    BY <1>4 DEF Crash, Exit, ProcessEnds, Runs, Start
  <2> QED  BY <2>1 DEF ProcessEnds, Runs, Start, Goto, TypeOK
<1>5. CASE UNCHANGED vars
  BY <1>5 DEF vars
<1> QED  BY <1>1, <1>2, <1>3, <1>4, <1>5 DEF Next, Rest

\* Without failing calls of the table a row becomes locked under a holder,
\* and UnLock opens it or marks it sent.
LEMMA LockedByHolder ==
    ASSUME TypeOK, [Next]_vars, NEW e \in Mails, lock'[e] = 1,
           "lock" \notin seen', "unlock" \notin seen'
    PROVE  /\ lock[e] = 1 \/ \E w \in Workers : Holds(w, e)'
           /\ \A w \in Workers : UnLock(w) => cur[w].mail # e
<1>1. ASSUME NEW w \in Workers, UnLock(w)
      PROVE  cur[w].mail # e /\ lock[e] = 1
  <2>1. "unlock" \notin seen' => lock' = [lock EXCEPT ![cur[w].mail] = IF pc[w] = "markSent" THEN 2 ELSE 0]
    BY <1>1 DEF UnLock, Occurs
  <2> QED  BY <2>1 DEF TypeOK
<1>2. ASSUME NEW w \in Workers, TakeLock(w)
      PROVE  lock[e] = 1 \/ Holds(w, e)'
  <2>1. CASE lock' = lock
    BY <2>1
  <2>2. CASE lock' = [lock EXCEPT ![cur[w].mail] = 1] /\ Goto(w, "send")
    BY <1>2, <2>2 DEF TypeOK, Holds, Goto, TakeLock, inWork
  <2> QED  BY <1>2, <2>1, <2>2 DEF TakeLock, Occurs
<1>3. ASSUME ~(\E w \in Workers : UnLock(w) \/ TakeLock(w)) PROVE lock' = lock
  BY <1>3
  DEF Next, vars, Request, Deliver, HandlerStep, Prepare, SendMail, Ack, AbandonOnStop,
      Nack, outside, Stop, LoseConnection, Crash, Exit,
      ProcessEnds, Runs, Start, tables, Rest
<1> QED  BY <1>1, <1>2, <1>3

LEMMA SeenGrows == [Next]_vars => seen \subseteq seen'
BY DEF Next, vars, trouble, Request, Deliver, HandlerStep, Prepare, TakeLock, SendMail,
       UnLock, Ack, AbandonOnStop, Nack, outside, Stop, LoseConnection, Crash, Exit,
       ProcessEnds, Runs, Start, Rest, Occurs

\* A row is locked without a holder only after a failing call of the table
\* or a killed process.
THEOREM LockNotLeakedHolds == Spec => []LockNotLeaked
<1>1. Init => LockNotLeaked
  BY DEF Init, LockNotLeaked
<1>2. TypeOK /\ LockNotLeaked /\ [Next]_vars => LockNotLeaked'
  <2> SUFFICES ASSUME TypeOK, LockNotLeaked, [Next]_vars,
                      seen' \cap {"lock", "unlock", "killed"} = {},
                      NEW e \in Mails, lock'[e] = 1
               PROVE  \E w \in Workers : Holds(w, e)'
    BY DEF LockNotLeaked
  <2>1. lock[e] = 1 \/ \E w \in Workers : Holds(w, e)'
    BY LockedByHolder
  <2>2. ASSUME lock[e] = 1 PROVE \E w \in Workers : Holds(w, e)'
    <3>1. PICK v \in Workers : Holds(v, e)
      BY <2>2, SeenGrows DEF LockNotLeaked
    <3>2. ~UnLock(v)
      BY <3>1, LockedByHolder DEF Holds
    <3> QED  BY <3>1, <3>2, HolderStays
  <2> QED  BY <2>1, <2>2
<1> QED  BY <1>1, <1>2, TypeCorrect, PTL DEF Spec

-----------------------------------------------------------------------------
(* Messages. *)

\* The broker has a message for mail e or counts one as delivered.
Kept(e) ==
    \/ \E m \in Msgs : m.mail = e /\ queue[m] > 0
    \/ \E w \in Workers : linked[w] /\ cur[w] # None /\ cur[w].mail = e

\* A message is acknowledged when its mail is sent and dropped as given up.
KeptInv ==
    /\ \A e \in Mails : requests[e] > 0 => sent[e] > 0 \/ e \in dropped \/ Kept(e)
    /\ \A w \in Workers : pc[w] \in {"markSent", "ack"} => sent[cur[w].mail] > 0

\* Nothing un-sends or un-drops a mail.
LEMMA OutcomeStays ==
    ASSUME TypeOK, [Next]_vars, NEW e \in Mails
    PROVE  /\ sent[e] > 0 => sent'[e] > 0
           /\ e \in dropped => e \in dropped'
<1>1. ASSUME NEW w \in Workers, SendMail(w)
      PROVE  (sent[e] > 0 => sent'[e] > 0) /\ dropped' = dropped
  <2>1. sent' = sent \/ sent' = [sent EXCEPT ![cur[w].mail] = IF @ < 2 THEN @ + 1 ELSE @]
    BY <1>1 DEF SendMail
  <2> QED  BY <1>1, <2>1 DEF SendMail, inWork, TypeOK
<1>2. ASSUME ~(\E w \in Workers : SendMail(w))
      PROVE  sent' = sent /\ dropped \subseteq dropped'
  BY <1>2
  DEF Next, vars, Request, Deliver, HandlerStep, Prepare, TakeLock, UnLock, Ack, inWork,
      AbandonOnStop, Nack, outside, Stop, LoseConnection, Crash, Exit,
      ProcessEnds, Runs, Start, tables, Rest
<1> QED  BY <1>1, <1>2

\* Only Request asks for a mail.
LEMMA RequestOnly ==
    ASSUME TypeOK, [Next]_vars, NEW e \in Mails, requests'[e] # requests[e]
    PROVE  Request(e)
<1>1. requests' # requests
  OBVIOUS
<1>2. PICK f \in Mails : Request(f)
  BY <1>1
  DEF Next, vars, Deliver, HandlerStep, Prepare, TakeLock, SendMail, UnLock, Ack, inWork,
      AbandonOnStop, Nack, outside, Stop, LoseConnection, Crash, Exit,
      ProcessEnds, Runs, Start, tables, Rest
<1> QED  BY <1>2 DEF Request, TypeOK

\* A message stays with the broker until its process is done with it.
LEMMA KeptStays ==
    ASSUME TypeOK, [Next]_vars, NEW e \in Mails, Kept(e)
    PROVE  \/ Kept(e)'
           \/ \E w \in Workers : Ack(w) /\ cur[w].mail = e
           \/ e \in dropped'
<1> USE DEF Kept
<1>1. ASSUME NEW f \in Mails, Request(f) PROVE Kept(e)'
  <2>1. [mail |-> f, redelivered |-> FALSE] \in Msgs
    BY DEF Msgs
  <2> QED  BY <1>1, <2>1, PutMsg DEF Request, process, TypeOK
<1>2. ASSUME NEW w \in Workers, Deliver(w) PROVE Kept(e)'
  <2>1. PICK m \in Msgs : /\ queue[m] > 0
                          /\ queue' = [queue EXCEPT ![m] = @ - 1]
                          /\ cur' = [cur EXCEPT ![w] = m]
    BY <1>2 DEF Deliver
  <2>2. linked[w] /\ cur[w] = None /\ UNCHANGED linked
    BY <1>2 DEF Deliver, process
  <2>3. CASE m.mail = e
    BY <2>1, <2>2, <2>3, NoneAssumption DEF TypeOK
  <2>4. CASE m.mail # e
    BY <2>1, <2>2, <2>4, NoneAssumption DEF TypeOK
  <2> QED  BY <2>3, <2>4
<1>3. ASSUME NEW w \in Workers,
             \/ Prepare(w) \/ TakeLock(w) \/ SendMail(w) \/ UnLock(w)
             \/ AbandonOnStop(w) \/ Stop(w)
      PROVE  Kept(e)'
  <2>1. UNCHANGED <<queue, cur, linked>>
    BY <1>3 DEF Prepare, TakeLock, SendMail, UnLock, AbandonOnStop, Stop, inWork,
                process, outside
  <2> QED  BY <2>1
<1>4. ASSUME NEW w \in Workers, Ack(w), cur[w].mail # e PROVE Kept(e)'
  <2>1. /\ \A v \in Workers \ {w} : cur'[v] = cur[v]
        /\ UNCHANGED <<queue, linked>>
    BY <1>4 DEF Ack, EndsDelivery, outside, process, TypeOK
  <2> QED  BY <1>4, <2>1
<1>5. ASSUME NEW w \in Workers, Nack(w) PROVE Kept(e)' \/ e \in dropped'
  <2>1. /\ \A v \in Workers \ {w} : cur'[v] = cur[v]
        /\ UNCHANGED linked /\ cur[w] \in Msgs
    BY <1>5 DEF Nack, EndsDelivery, outside, process, TypeOK
  <2>2. \A m \in Msgs : queue[m] > 0 => queue'[m] > 0
    BY <1>5, <2>1, RedeliveredMsg, PutMsg DEF Nack, TypeOK
  <2>3. ASSUME linked[w], cur[w].mail = e PROVE Kept(e)' \/ e \in dropped'
    <3>1. CASE cur[w].redelivered
      BY <1>5, <2>3, <3>1 DEF Nack
    <3>2. CASE ~cur[w].redelivered
      <4>1. queue' = Put(Redelivered(cur[w]))
        BY <1>5, <2>3, <3>2 DEF Nack
      <4> QED  BY <2>1, <2>3, <4>1, RedeliveredMsg, PutMsg DEF TypeOK
    <3> QED  BY <3>1, <3>2
  <2> QED  BY <2>1, <2>2, <2>3
<1>6. ASSUME NEW w \in Workers, LoseConnection(w) \/ Crash(w) \/ Exit(w) PROVE Kept(e)'
  <2>1. /\ queue' = Returned(w)
        /\ \A v \in Workers \ {w} : cur'[v] = cur[v] /\ linked'[v] = linked[v]
    BY <1>6 DEF LoseConnection, Crash, Exit, ProcessEnds, Runs, Start, TypeOK
  <2>2. ASSUME linked[w], cur[w] # None, cur[w].mail = e PROVE Kept(e)'
    <3>1. cur[w] \in Msgs
      BY <2>2 DEF TypeOK
    <3> QED  BY <2>1, <2>2, <3>1, RedeliveredMsg, ReturnedQueue
  <2> QED  BY <2>1, <2>2, ReturnedQueue
<1>7. ASSUME NEW w \in Workers, Start(w) PROVE Kept(e)'
  BY <1>7 DEF Start, Runs, Down, TypeOK
<1>8. CASE UNCHANGED vars
  BY <1>8 DEF vars, process
<1> QED
  BY <1>1, <1>2, <1>3, <1>4, <1>5, <1>6, <1>7, <1>8 DEF Next, HandlerStep, Rest

LEMMA KeptStep == TypeOK /\ KeptInv /\ [Next]_vars => KeptInv'
<1> SUFFICES ASSUME TypeOK, KeptInv, [Next]_vars PROVE KeptInv'
  OBVIOUS
<1>1. ASSUME NEW e \in Mails, requests'[e] > 0
      PROVE  sent'[e] > 0 \/ e \in dropped' \/ Kept(e)'
  <2>1. CASE requests'[e] # requests[e]
    <3>1. [mail |-> e, redelivered |-> FALSE] \in Msgs
      BY DEF Msgs
    <3> QED  BY <2>1, <3>1, RequestOnly, PutMsg DEF Request, Kept, TypeOK
  <2>2. CASE requests'[e] = requests[e]
    <3>1. sent[e] > 0 \/ e \in dropped \/ Kept(e)
      BY <1>1, <2>2 DEF KeptInv
    <3>2. ASSUME NEW w \in Workers, Ack(w), cur[w].mail = e PROVE sent[e] > 0
      BY <3>2 DEF KeptInv, Ack
    <3> QED  BY <3>1, <3>2, OutcomeStays, KeptStays
  <2> QED  BY <2>1, <2>2
<1>2. ASSUME NEW w \in Workers, pc'[w] \in {"markSent", "ack"}
      PROVE  sent'[cur'[w].mail] > 0
  <2>1. CASE pc'[w] = pc[w] /\ cur'[w] = cur[w]
    <3>1. sent[cur[w].mail] > 0 /\ cur[w].mail \in Mails
      BY <1>2, <2>1 DEF KeptInv, TypeOK, Msgs
    <3> QED  BY <2>1, <3>1, OutcomeStays
  <2>2. CASE SendMail(w)
    <3>1. cur'[w] = cur[w] /\ cur[w].mail \in Mails /\ pc'[w] = "markSent"
      BY <1>2, <2>2 DEF SendMail, Goto, inWork, TypeOK, Msgs
    <3>2. sent' = [sent EXCEPT ![cur[w].mail] = IF @ < 2 THEN @ + 1 ELSE @]
      BY <2>2, <3>1 DEF SendMail, Goto, TypeOK
    <3> QED  BY <3>1, <3>2 DEF TypeOK
  <2>3. CASE UnLock(w)
    <3>1. cur'[w] = cur[w] /\ cur[w].mail \in Mails /\ pc[w] = "markSent" /\ UNCHANGED sent
      BY <1>2, <2>3 DEF UnLock, Goto, inWork, TypeOK, Msgs
    <3> QED  BY <3>1 DEF KeptInv
  <2>4. (pc'[w] = pc[w] /\ cur'[w] = cur[w]) \/ SendMail(w) \/ UnLock(w)
    <3>1. ASSUME NEW v \in Workers, Deliver(v) \/ HandlerStep(v) PROVE <2>4!1 \/ v = w
      BY <3>1
      DEF Deliver, HandlerStep, Prepare, TakeLock, SendMail, UnLock, Ack, AbandonOnStop,
          Nack, EndsDelivery, Goto, inWork, TypeOK
    <3>2. ASSUME Deliver(w) \/ Prepare(w) \/ TakeLock(w) \/ Ack(w) \/ AbandonOnStop(w) \/ Nack(w)
          PROVE  FALSE
      <4>1. \E step \in Steps \ {"markSent", "ack"} : Goto(w, step)
        BY <3>2 DEF Deliver, Prepare, TakeLock, Ack, AbandonOnStop, Nack, EndsDelivery,
                    Goto, Steps
      <4> QED  BY <1>2, <4>1 DEF Goto, TypeOK
    <3>3. ASSUME NEW v \in Workers, Crash(v) \/ Exit(v) PROVE <2>4!1
      <4>1. ProcessEnds(v)
        BY <3>3 DEF Crash, Exit
      <4> QED  BY <1>2, <4>1 DEF ProcessEnds, Runs, Start, Goto, TypeOK
    <3>4. ASSUME \/ \E e \in Mails : Request(e)
                 \/ \E v \in Workers : Stop(v) \/ LoseConnection(v) \/ Start(v)
                 \/ UNCHANGED vars
          PROVE  <2>4!1
      BY <3>4 DEF Request, Stop, LoseConnection, Start, vars
    <3> QED  BY <3>1, <3>2, <3>3, <3>4 DEF Next, HandlerStep, Rest
  <2> QED  BY <2>1, <2>2, <2>3, <2>4
<1> QED  BY <1>1, <1>2 DEF KeptInv

\* A mail asked for is sent, given up, or still has a message, whatever fails.
THEOREM MailNotForgottenHolds == Spec => []MailNotForgotten
<1>1. Init => KeptInv
  BY DEF Init, KeptInv
<1>2. TypeOK /\ KeptInv => MailNotForgotten
  BY DEF TypeOK, KeptInv, Kept, MailNotForgotten, Done
<1> QED  BY <1>1, <1>2, TypeCorrect, KeptStep, PTL DEF Spec

-----------------------------------------------------------------------------
(* One failure costs no mail. *)

\* A process is moved by its own steps and by its end.
LEMMA WorkerMoves ==
    ASSUME TypeOK, [Next]_vars, NEW w \in Workers
    PROVE  \/ pc'[w] = pc[w] /\ cur'[w] = cur[w]
           \/ Deliver(w) \/ HandlerStep(w)
           \/ ProcessEnds(w) /\ (Exit(w) \/ disruptions' = disruptions + 1)
<1>1. ASSUME NEW v \in Workers, v # w, Deliver(v) \/ HandlerStep(v)
      PROVE  pc'[w] = pc[w] /\ cur'[w] = cur[w]
  BY <1>1 DEF Deliver, HandlerStep, Prepare, TakeLock, SendMail, UnLock, Ack, AbandonOnStop,
              Nack, EndsDelivery, Goto, inWork, TypeOK
<1>2. ASSUME NEW v \in Workers, v # w, ProcessEnds(v)
      PROVE  pc'[w] = pc[w] /\ cur'[w] = cur[w]
  BY <1>2 DEF ProcessEnds, Runs, Start, Goto, TypeOK
<1>3. ASSUME NEW v \in Workers, Crash(v) \/ Exit(v)
      PROVE  ProcessEnds(v) /\ (Exit(v) \/ disruptions' = disruptions + 1)
  BY <1>3 DEF Crash, Exit, Disrupts
<1>4. ASSUME \/ \E e \in Mails : Request(e)
             \/ \E v \in Workers : Stop(v) \/ LoseConnection(v) \/ Start(v)
             \/ UNCHANGED vars
      PROVE  UNCHANGED <<pc, cur>>
  BY <1>4 DEF Request, Stop, LoseConnection, Start, vars
<1> QED  BY <1>1, <1>2, <1>3, <1>4 DEF Next, Rest

\* Failures and disruptions are counted, and a process killed at work is seen.
LEMMA TroubleMoves ==
    ASSUME TypeOK, [Next]_vars
    PROVE  /\ faults \in Nat /\ faults' \in {faults, faults + 1}
           /\ disruptions \in Nat /\ disruptions' \in {disruptions, disruptions + 1}
           /\ faults' = faults \/ disruptions' = disruptions
           /\ \A w \in Workers : ProcessEnds(w) /\ pc[w] # "idle" => "killed" \in seen'
<1>1. faults \in Nat /\ disruptions \in Nat
  BY BoundsAssumption DEF TypeOK
<1>2. ASSUME NEW w \in Workers, HandlerStep(w)
      PROVE  faults' \in {faults, faults + 1} /\ disruptions' = disruptions
  BY <1>2 DEF HandlerStep, Prepare, TakeLock, SendMail, UnLock, Ack, AbandonOnStop, Nack,
              Occurs, inWork, outside, trouble
<1>3. ASSUME NEW w \in Workers, Stop(w) \/ LoseConnection(w) \/ Crash(w) \/ Exit(w) \/ Start(w)
      PROVE  faults' = faults /\ disruptions' \in {disruptions, disruptions + 1}
  BY <1>3 DEF Stop, LoseConnection, Crash, Exit, ProcessEnds, Runs, Start, Disrupts, tables
<1>4. ASSUME \/ \E e \in Mails : Request(e)
             \/ \E w \in Workers : Deliver(w)
             \/ UNCHANGED vars
      PROVE  faults' = faults /\ disruptions' = disruptions
  BY <1>4 DEF Request, Deliver, vars, trouble
<1>5. \A w \in Workers : ProcessEnds(w) /\ pc[w] # "idle" => "killed" \in seen'
  BY DEF ProcessEnds, Runs, Start
<1> QED  BY <1>1, <1>2, <1>3, <1>4, <1>5 DEF Next, Rest

\* Without a disruption every process runs and has its channel.
CalmInv == disruptions = 0 => \A w \in Workers : linked[w] /\ ~stopping[w]

\* No process ends without a disruption.
LEMMA NoEnd ==
    ASSUME TypeOK, CalmInv, [Next]_vars, disruptions' = 0
    PROVE  /\ disruptions = 0
           /\ \A w \in Workers :
                 ~Stop(w) /\ ~LoseConnection(w) /\ ~Crash(w) /\ ~Exit(w) /\ ~Start(w)
<1>1. disruptions = 0
  BY TroubleMoves
<1>2. ASSUME NEW kind PROVE ~Disrupts(kind)
  BY <1>1 DEF Disrupts
<1>3. \A w \in Workers : ~Exit(w) /\ ~Start(w)
  BY <1>1 DEF Exit, Start, Down, CalmInv
<1> QED  BY <1>1, <1>2, <1>3 DEF Stop, LoseConnection, Crash

LEMMA CalmStep == TypeOK /\ CalmInv /\ [Next]_vars => CalmInv'
<1> SUFFICES ASSUME TypeOK, CalmInv, [Next]_vars, disruptions' = 0
             PROVE  UNCHANGED <<linked, stopping, disruptions>>
  BY DEF CalmInv
<1>1. /\ disruptions = 0
      /\ \A w \in Workers :
            ~Stop(w) /\ ~LoseConnection(w) /\ ~Crash(w) /\ ~Exit(w) /\ ~Start(w)
  BY NoEnd
<1>2. UNCHANGED process
  BY <1>1 DEF Next, vars, Request, Deliver, HandlerStep, Prepare, TakeLock, SendMail, UnLock,
         Ack, AbandonOnStop, Nack, inWork, outside, Rest
<1> QED  BY <1>1, <1>2 DEF process

\* A message that is waiting was, or comes from a request, a Nack or the
\* broker that takes it back.
LEMMA QueueSource ==
    ASSUME TypeOK, [Next]_vars, NEW m \in Msgs, queue'[m] > 0
    PROVE  \/ queue[m] > 0
           \/ Request(m.mail) /\ ~m.redelivered
           \/ \E w \in Workers :
                 /\ cur[w] # None /\ m.mail = cur[w].mail
                 /\ Nack(w) \/ LoseConnection(w) \/ Crash(w) \/ Exit(w)
<1>1. ASSUME NEW k \in Msgs, queue' = Put(k) PROVE queue[m] > 0 \/ m = k
  BY <1>1 DEF Put, TypeOK
<1>2. ASSUME NEW e \in Mails, Request(e)
      PROVE  queue[m] > 0 \/ (Request(m.mail) /\ ~m.redelivered)
  <2> DEFINE k == [mail |-> e, redelivered |-> FALSE]
  <2>1. k \in Msgs /\ k.mail = e /\ ~k.redelivered
    BY DEF Msgs
  <2>2. queue' = Put(k)
    BY <1>2 DEF Request
  <2> HIDE DEF k
  <2> QED  BY <1>1, <1>2, <2>1, <2>2
<1>3. ASSUME NEW w \in Workers, Nack(w) \/ LoseConnection(w) \/ Crash(w) \/ Exit(w), queue[m] = 0
      PROVE  cur[w] # None /\ m.mail = cur[w].mail
  <2>1. queue' = queue \/ (cur[w] # None /\ queue' = Put(Redelivered(cur[w])))
    BY <1>3 DEF Nack, LoseConnection, Crash, Exit, ProcessEnds, Runs, Start, Returned, TypeOK
  <2>2. queue' # queue
    BY <1>3
  <2>3. cur[w] \in Msgs /\ Redelivered(cur[w]) \in Msgs /\ Redelivered(cur[w]).mail = cur[w].mail
    BY <2>1, <2>2, RedeliveredMsg DEF TypeOK
  <2> QED  BY <1>1, <1>3, <2>1, <2>2, <2>3
<1>4. ASSUME NEW w \in Workers, Deliver(w) PROVE queue[m] > 0
  <2>1. PICK k \in Msgs : queue[k] > 0 /\ queue' = [queue EXCEPT ![k] = @ - 1]
    BY <1>4 DEF Deliver
  <2> QED  BY <2>1 DEF TypeOK
<1>5. ASSUME \/ \E w \in Workers :
                  \/ Prepare(w) \/ TakeLock(w) \/ SendMail(w) \/ UnLock(w)
                  \/ Ack(w) \/ AbandonOnStop(w) \/ Stop(w) \/ Start(w)
             \/ UNCHANGED vars
      PROVE  queue' = queue
  BY <1>5 DEF Prepare, TakeLock, SendMail, UnLock, Ack, AbandonOnStop, Stop, Start,
              inWork, vars
<1>6. queue[m] \in Nat
  BY DEF TypeOK
<1> QED  BY <1>2, <1>3, <1>4, <1>5, <1>6 DEF Next, HandlerStep, Rest

\* Who has a message had it, or has it from the queue.
LEMMA CurSource ==
    ASSUME TypeOK, [Next]_vars, NEW w \in Workers, cur'[w] # None
    PROVE  \/ cur'[w] = cur[w]
           \/ Deliver(w) /\ cur'[w] \in Msgs /\ queue[cur'[w]] > 0
<1>1. HandlerStep(w) => cur'[w] = cur[w]
  BY DEF HandlerStep, Prepare, TakeLock, SendMail, UnLock, Ack, AbandonOnStop, Nack,
         EndsDelivery, inWork, TypeOK
<1>2. Deliver(w) => cur'[w] \in Msgs /\ queue[cur'[w]] > 0
  BY DEF Deliver, TypeOK
<1>3. ~ProcessEnds(w)
  BY DEF ProcessEnds, Runs, Start, TypeOK
<1> QED  BY <1>1, <1>2, <1>3, WorkerMoves

\* Messages are about mails that were asked for.
AskedInv ==
    /\ \A m \in Msgs : queue[m] > 0 => requests[m.mail] > 0
    /\ \A w \in Workers : cur[w] # None => requests[cur[w].mail] > 0

LEMMA AskedStep == TypeOK /\ AskedInv /\ [Next]_vars => AskedInv'
<1> SUFFICES ASSUME TypeOK, AskedInv, [Next]_vars PROVE AskedInv'
  OBVIOUS
<1>1. ASSUME NEW e \in Mails PROVE requests'[e] >= requests[e] /\ (Request(e) => requests'[e] > 0)
  <2>1. requests[e] \in Nat
    BY BoundsAssumption DEF TypeOK
  <2>2. Request(e) => requests'[e] = requests[e] + 1
    BY DEF Request, TypeOK
  <2> QED  BY <2>1, <2>2, RequestOnly
<1>2. \A e \in Mails : requests[e] > 0 => requests'[e] > 0
  BY <1>1, TypeStep, BoundsAssumption DEF TypeOK
<1>3. \A m \in Msgs : m.mail \in Mails
  BY DEF Msgs
<1>4. ASSUME NEW m \in Msgs, queue'[m] > 0 PROVE requests'[m.mail] > 0
  BY <1>1, <1>2, <1>3, <1>4, QueueSource DEF AskedInv
<1>5. ASSUME NEW w \in Workers, cur'[w] # None PROVE requests'[cur'[w].mail] > 0
  <2>1. cur'[w] \in Msgs
    BY <1>5, TypeStep DEF TypeOK
  <2> QED  BY <1>2, <1>3, <1>5, <2>1, CurSource DEF AskedInv
<1> QED  BY <1>4, <1>5 DEF AskedInv

\* Process w has a message for mail e, and is at a step.
Has(w, e) == cur[w] # None /\ cur[w].mail = e
At(w, e, step) == Has(w, e) /\ pc[w] = step

Queued(e) == \E m \in Msgs : m.mail = e /\ queue[m] > 0

\* Before the first failure: a locked row has its sender, which has a first
\* delivery unless a channel was lost; a free row is of a mail nobody has
\* failed on, so that only first deliveries of it exist.
Untroubled(e) ==
    /\ lock[e] # 0 =>
          \E w \in Workers : At(w, e, "send") /\ (disruptions = 0 => ~cur[w].redelivered)
    /\ lock[e] = 0 =>
          /\ e \notin dropped
          /\ \A w \in Workers : Has(w, e) => pc[w] \in {"prepare", "lock"}
          /\ disruptions = 0 =>
                /\ \A m \in Msgs : m.mail = e /\ queue[m] > 0 => ~m.redelivered
                /\ \A w \in Workers : Has(w, e) => ~cur[w].redelivered

\* A message that will get the mail sent: at the sender, on its way to a
\* free row, or failed on its first delivery.
Live(e) ==
    \/ \E w \in Workers : At(w, e, "send")
    \/ lock[e] = 0 /\ (Queued(e) \/ \E w \in Workers : At(w, e, "prepare") \/ At(w, e, "lock"))
    \/ \E w \in Workers : (At(w, e, "reopen") \/ At(w, e, "error")) /\ ~cur[w].redelivered

\* After the one failure.
Retried(e) ==
    /\ requests[e] > 0 => Live(e)
    /\ \A w \in Workers : At(w, e, "reopen") => ~cur[w].redelivered
    /\ lock[e] # 0 => \E w \in Workers : At(w, e, "send") \/ At(w, e, "reopen")

MailInv ==
    faults + disruptions <= 1 /\ seen \cap {"lock", "killed"} = {} =>
        \A e \in Mails : sent[e] = 0 => IF faults = 0 THEN Untroubled(e) ELSE Retried(e)

\* A call that fails is counted.
LEMMA FailureCounted ==
    ASSUME TypeOK, faults' = faults, NEW kind
    PROVE  ~Occurs(kind)
<1>1. faults \in Nat
  BY BoundsAssumption DEF TypeOK
<1> QED  BY <1>1 DEF Occurs

\* A process at work that is not killed waits or takes its next step.
LEMMA WorkerStays ==
    ASSUME TypeOK, [Next]_vars, "killed" \notin seen',
           NEW w \in Workers, pc[w] # "idle"
    PROVE  (pc'[w] = pc[w] /\ cur'[w] = cur[w]) \/ HandlerStep(w)
BY WorkerMoves, TroubleMoves DEF Deliver

\* Who sends a mail goes on until it is sent or the call fails.
LEMMA SenderStays ==
    ASSUME TypeOK, [Next]_vars, "killed" \notin seen', faults' = faults,
           NEW w \in Workers, NEW e \in Mails, At(w, e, "send"), sent'[e] = 0
    PROVE  At(w, e, "send")' /\ cur'[w] = cur[w]
<1>1. cur[w] # None /\ cur[w].mail = e /\ pc[w] = "send"
  BY DEF At, Has
<1>2. ~SendMail(w)
  <2>1. ASSUME SendMail(w) PROVE sent' = [sent EXCEPT ![e] = IF @ < 2 THEN @ + 1 ELSE @]
    BY <1>1, <2>1, FailureCounted DEF SendMail
  <2>2. sent[e] \in 0 .. 2
    BY DEF TypeOK
  <2> QED  BY <2>1, <2>2 DEF TypeOK
<1>3. ~HandlerStep(w)
  BY <1>1, <1>2 DEF HandlerStep, Prepare, TakeLock, UnLock, Ack, AbandonOnStop, Nack
<1>4. pc'[w] = pc[w] /\ cur'[w] = cur[w]
  BY <1>1, <1>3, WorkerStays
<1> QED  BY <1>1, <1>4 DEF At, Has

\* A free row is taken by the process that is going to send, an opened one
\* was its process's own.
LEMMA LockSource ==
    ASSUME TypeOK, LockInv, [Next]_vars, "lock" \notin seen', NEW e \in Mails
    PROVE  /\ lock[e] = 0 /\ lock'[e] # 0 =>
                  \E w \in Workers : Has(w, e) /\ At(w, e, "send")' /\ cur'[w] = cur[w]
           /\ lock[e] # 0 /\ lock'[e] = 0 => \E w \in Workers : UnLock(w) /\ Has(w, e)
<1>1. ASSUME NEW w \in Workers, TakeLock(w), lock'[e] # lock[e]
      PROVE  lock[e] = 0 /\ Has(w, e) /\ At(w, e, "send")' /\ cur'[w] = cur[w]
  <2>1. ~Occurs("lock")
    BY DEF Occurs
  <2>2. /\ lock[cur[w].mail] = 0 /\ lock' = [lock EXCEPT ![cur[w].mail] = 1]
        /\ Goto(w, "send") /\ cur' = cur /\ pc[w] = "lock"
    BY <1>1, <2>1 DEF TakeLock, inWork
  <2>3. e = cur[w].mail /\ cur[w] # None
    BY <1>1, <2>2 DEF TypeOK
  <2> QED  BY <2>2, <2>3 DEF Has, At, Goto, TypeOK
<1>2. ASSUME NEW w \in Workers, UnLock(w), lock'[e] # lock[e]
      PROVE  Has(w, e) /\ lock[e] = 1
  <2>1. lock' = [lock EXCEPT ![cur[w].mail] = IF pc[w] = "markSent" THEN 2 ELSE 0]
    BY <1>2 DEF UnLock
  <2>2. Has(w, e)
    BY <1>2, <2>1 DEF Has, UnLock, TypeOK
  <2> QED  BY <1>2, <2>2 DEF Has, Holds, UnLock, LockInv
<1>3. ASSUME ~(\E w \in Workers : UnLock(w) \/ TakeLock(w)) PROVE lock' = lock
  BY <1>3
  DEF Next, vars, Request, Deliver, HandlerStep, Prepare, SendMail, Ack, AbandonOnStop,
      Nack, outside, Stop, LoseConnection, Crash, Exit,
      ProcessEnds, Runs, Start, tables, Rest
<1> QED  BY <1>1, <1>2, <1>3

\* A mail is given up by the Nack of a repeated delivery.
LEMMA DropSource ==
    ASSUME TypeOK, [Next]_vars, NEW e \in Mails, e \notin dropped, e \in dropped'
    PROVE  \E w \in Workers : Nack(w) /\ Has(w, e)
<1>1. dropped' # dropped
  OBVIOUS
<1>2. PICK w \in Workers : Nack(w)
  BY <1>1
  DEF Next, vars, Request, Deliver, HandlerStep, Prepare, TakeLock, SendMail, UnLock, Ack,
      inWork, AbandonOnStop, outside, Stop, LoseConnection, Crash, Exit,
      ProcessEnds, Runs, Start, tables, Rest
<1> QED  BY <1>2 DEF Nack, Has, TypeOK

\* As long as nothing failed, mails not sent stay untroubled.
LEMMA UntroubledStays ==
    ASSUME TypeOK, CalmInv, LockInv, [Next]_vars, faults' = faults,
           seen' \cap {"lock", "killed"} = {},
           NEW e \in Mails, sent'[e] = 0, Untroubled(e)
    PROVE  Untroubled(e)'
<1>1. ASSUME disruptions' = 0 PROVE disruptions = 0
  BY <1>1, TroubleMoves
<1>2. ASSUME lock[e] # 0
      PROVE  \E w \in Workers : At(w, e, "send")' /\ (disruptions' = 0 => ~cur'[w].redelivered)
  <2>1. PICK s \in Workers : At(s, e, "send") /\ (disruptions = 0 => ~cur[s].redelivered)
    BY <1>2 DEF Untroubled
  <2> QED  BY <1>1, <2>1, SenderStays
<1>3. ASSUME lock[e] = 0, lock'[e] # 0
      PROVE  \E w \in Workers : At(w, e, "send")' /\ (disruptions' = 0 => ~cur'[w].redelivered)
  <2>1. PICK w \in Workers : Has(w, e) /\ At(w, e, "send")' /\ cur'[w] = cur[w]
    BY <1>3, LockSource
  <2> QED  BY <1>1, <1>3, <2>1 DEF Untroubled
<1>4. ASSUME lock[e] # 0 PROVE lock'[e] # 0
  <2>1. PICK s \in Workers : At(s, e, "send")
    BY <1>4 DEF Untroubled
  <2>2. ASSUME NEW w \in Workers, UnLock(w), Has(w, e) PROVE FALSE
    BY <2>1, <2>2 DEF At, Has, Holds, UnLock, LockInv, OneSender
  <2> QED  BY <1>4, <2>2, LockSource
<1>5. ASSUME lock[e] = 0, lock'[e] = 0 PROVE Untroubled(e)'
  <2>1. /\ e \notin dropped
        /\ \A w \in Workers : Has(w, e) => pc[w] \in {"prepare", "lock"}
    BY <1>5 DEF Untroubled
  <2>2. \A w \in Workers : ~(Nack(w) /\ Has(w, e))
    BY <2>1 DEF Nack
  <2>3. e \notin dropped'
    BY <2>1, <2>2, DropSource
  <2>4. ASSUME NEW w \in Workers, Has(w, e)' PROVE pc'[w] \in {"prepare", "lock"}
    <3>1. CASE Deliver(w)
      BY <3>1 DEF Deliver, TypeOK
    <3>2. CASE pc'[w] = pc[w] /\ cur'[w] = cur[w]
      BY <2>1, <2>4, <3>2 DEF Has
    <3>3. CASE HandlerStep(w)
      <4>1. Has(w, e)
        BY <2>4, <3>3
        DEF Has, HandlerStep, Prepare, TakeLock, SendMail, UnLock, Ack, AbandonOnStop, Nack,
            EndsDelivery, inWork, TypeOK
      <4>2. Prepare(w) \/ TakeLock(w)
        BY <2>1, <3>3, <4>1
        DEF HandlerStep, SendMail, UnLock, Ack, AbandonOnStop, Nack
      <4>3. ~TakeLock(w)
        <5>1. ASSUME TakeLock(w) PROVE lock' = [lock EXCEPT ![e] = 1]
          BY <1>5, <4>1, <5>1, FailureCounted DEF TakeLock, Has
        <5> QED  BY <1>5, <5>1 DEF TypeOK
      <4> QED  BY <4>2, <4>3, FailureCounted DEF Prepare, Goto, TypeOK
    <3>4. ~ProcessEnds(w)
      BY <2>4 DEF ProcessEnds, Runs, Start, Has, TypeOK
    <3> QED  BY <3>1, <3>2, <3>3, <3>4, WorkerMoves
  <2>5. ASSUME disruptions' = 0, NEW m \in Msgs, m.mail = e, queue'[m] > 0
        PROVE  ~m.redelivered
    <3>1. \A w \in Workers : ~LoseConnection(w) /\ ~Crash(w) /\ ~Exit(w) /\ ~Start(w)
      BY <2>5, NoEnd
    <3>2. queue[m] > 0 => ~m.redelivered
      BY <1>1, <1>5, <2>5 DEF Untroubled
    <3> QED  BY <2>2, <2>5, <3>1, <3>2, QueueSource DEF Has
  <2>6. ASSUME disruptions' = 0, NEW w \in Workers, Has(w, e)' PROVE ~cur'[w].redelivered
    <3>1. /\ \A m \in Msgs : m.mail = e /\ queue[m] > 0 => ~m.redelivered
          /\ \A v \in Workers : Has(v, e) => ~cur[v].redelivered
      BY <1>1, <1>5, <2>6 DEF Untroubled
    <3>2. cur'[w] # None /\ cur'[w].mail = e
      BY <2>6 DEF Has
    <3> QED  BY <3>1, <3>2, CurSource DEF Has
  <2> QED  BY <1>5, <2>3, <2>4, <2>5, <2>6 DEF Untroubled
<1>6. CASE lock[e] # 0
  BY <1>2, <1>4, <1>6 DEF Untroubled
<1>7. CASE lock[e] = 0 /\ lock'[e] # 0
  BY <1>3, <1>7 DEF Untroubled
<1> QED  BY <1>5, <1>6, <1>7

\* A mail asked for in an untroubled system has a message that gets it sent.
LEMMA UntroubledLive ==
    ASSUME TypeOK, KeptInv, NEW e \in Mails, sent[e] = 0, Untroubled(e), requests[e] > 0
    PROVE  Live(e)
<1>1. CASE lock[e] # 0
  BY <1>1 DEF Untroubled, Live
<1>2. CASE lock[e] = 0
  <2>1. Kept(e)
    BY <1>2 DEF Untroubled, KeptInv
  <2> QED  BY <1>2, <2>1 DEF Untroubled, Live, Kept, Queued, Has, At
<1> QED  BY <1>1, <1>2

\* The step that fails, without a disruption before it, leaves the mail a
\* message that gets it sent.
LEMMA FirstFailure ==
    ASSUME TypeOK, LockInv, KeptInv, [Next]_vars, faults' # faults, disruptions = 0,
           seen' \cap {"lock", "killed"} = {},
           NEW e \in Mails, sent[e] = 0, sent'[e] = 0, Untroubled(e)
    PROVE  Retried(e)'
<1>1. PICK w \in Workers : Prepare(w) \/ SendMail(w) \/ UnLock(w)
  <2>1. \A v \in Workers : ~TakeLock(v)
    BY DEF TakeLock, Occurs, trouble
  <2> QED
    BY <2>1
    DEF Next, vars, trouble, Request, Deliver, HandlerStep, Ack, AbandonOnStop, Nack, outside,
        Stop, LoseConnection, Crash, Exit,
      ProcessEnds, Runs, Start, tables, Rest
<1>2. /\ UNCHANGED <<queue, requests, cur>>
      /\ pc[w] \in {"prepare", "send", "markSent", "reopen"}
      /\ cur[w] # None /\ Has(w, cur[w].mail)
  BY <1>1 DEF Prepare, SendMail, UnLock, inWork, Has, TypeOK
<1>3. \A v \in Workers \ {w} : pc'[v] = pc[v]
  BY <1>1 DEF Prepare, SendMail, UnLock, Goto, TypeOK
<1>4. \A v \in Workers : Has(v, e)' <=> Has(v, e)
  BY <1>2 DEF Has
<1>5. ASSUME NEW v \in Workers, Has(v, e), pc[v] \in {"markSent", "reopen"} PROVE FALSE
  <2>1. lock[e] # 0 /\ Holds(v, e)
    BY <1>5 DEF Untroubled, Has, Holds
  <2>2. PICK s \in Workers : At(s, e, "send")
    BY <2>1 DEF Untroubled
  <2> QED  BY <1>5, <2>1, <2>2 DEF At, Has, Holds, LockInv, OneSender
<1>6. requests[e] > 0 => Live(e)
  BY UntroubledLive
<1>7. CASE ~Has(w, e)
  <2>1. lock'[e] = lock[e]
    BY <1>1, <1>2, <1>7 DEF Prepare, SendMail, UnLock, TypeOK, Has
  <2>2. \A v \in Workers : pc[v] # pc'[v] => ~Has(v, e) /\ ~Has(v, e)'
    BY <1>3, <1>4, <1>7
  <2>3. Live(e) => Live(e)'
    BY <1>2, <1>4, <2>1, <2>2 DEF Live, At, Queued
  <2>4. lock[e] # 0 => \E v \in Workers : At(v, e, "send")
    BY DEF Untroubled
  <2> QED  BY <1>2, <1>4, <1>5, <1>6, <2>1, <2>2, <2>3, <2>4 DEF Retried, At
<1>8. CASE Has(w, e) /\ Prepare(w)
  <2>1. UNCHANGED lock /\ pc[w] = "prepare" /\ pc'[w] = "error"
    BY <1>8 DEF Prepare, Goto, trouble, TypeOK
  <2>2. \A v \in Workers : At(v, e, "send") => At(v, e, "send")'
    BY <1>3, <1>4, <2>1 DEF At
  <2>3. lock[e] # 0 => \E v \in Workers : At(v, e, "send")
    BY DEF Untroubled
  <2>4. lock[e] = 0 => At(w, e, "error")' /\ ~cur'[w].redelivered
    BY <1>2, <1>4, <1>8, <2>1 DEF At, Untroubled
  <2>5. Live(e)'
    BY <2>2, <2>3, <2>4 DEF Live
  <2>6. \A v \in Workers : ~At(v, e, "reopen")'
    BY <1>3, <1>4, <1>5, <2>1 DEF At
  <2> QED  BY <2>1, <2>2, <2>3, <2>5, <2>6 DEF Retried
<1>9. CASE Has(w, e) /\ SendMail(w)
  <2>1. cur[w].mail = e /\ Holds(w, e) /\ pc[w] = "send"
    BY <1>9 DEF Has, Holds, SendMail
  <2>2. pc'[w] = "reopen"
    BY <1>9 DEF SendMail, Goto, trouble, TypeOK
  <2>3. lock[e] # 0
    BY <2>1 DEF LockInv
  <2>4. PICK s \in Workers : At(s, e, "send") /\ ~cur[s].redelivered
    BY <2>3 DEF Untroubled
  <2>5. s = w
    BY <2>1, <2>4 DEF At, Has, Holds, LockInv, OneSender
  <2>6. At(w, e, "reopen")' /\ ~cur'[w].redelivered
    BY <1>2, <1>4, <1>9, <2>2, <2>4, <2>5 DEF At
  <2>7. \A v \in Workers \ {w} : ~At(v, e, "reopen")'
    BY <1>3, <1>4, <1>5 DEF At
  <2> QED  BY <2>6, <2>7 DEF Retried, Live
<1>10. CASE Has(w, e) /\ UnLock(w)
  BY <1>5, <1>10 DEF UnLock
<1> QED  BY <1>1, <1>7, <1>8, <1>9, <1>10

\* A first delivery that failed stays with its process until it is requeued.
LEMMA FailedStays ==
    ASSUME TypeOK, CalmInv, [Next]_vars, faults' = faults, disruptions' = 0,
           "killed" \notin seen', NEW e \in Mails, sent[e] = 0, KeptInv, NEW w \in Workers,
           At(w, e, "reopen") \/ At(w, e, "error"), ~cur[w].redelivered
    PROVE  \/ (At(w, e, "reopen") \/ At(w, e, "error"))' /\ cur'[w] = cur[w]
           \/ pc[w] = "error" /\ lock'[e] = lock[e] /\ Queued(e)'
<1>1. /\ cur[w] # None /\ cur[w].mail = e /\ pc[w] \in {"reopen", "error"}
      /\ cur[w] \in Msgs
  BY DEF At, Has, TypeOK
<1>2. linked[w] /\ ~stopping[w]
  BY NoEnd DEF CalmInv
<1>3. CASE pc'[w] = pc[w] /\ cur'[w] = cur[w]
  BY <1>1, <1>3 DEF At, Has
<1>4. CASE UnLock(w)
  BY <1>1, <1>4 DEF UnLock, Goto, inWork, TypeOK, At, Has
<1>5. CASE Nack(w)
  <2>1. queue' = Put(Redelivered(cur[w])) /\ UNCHANGED lock /\ pc[w] = "error"
    BY <1>2, <1>5 DEF Nack, outside
  <2>2. /\ Redelivered(cur[w]) \in Msgs /\ Redelivered(cur[w]).mail = e
        /\ Put(Redelivered(cur[w]))[Redelivered(cur[w])] > 0
    BY <1>1, RedeliveredMsg, PutMsg DEF TypeOK
  <2> QED  BY <2>1, <2>2 DEF Queued
<1>6. HandlerStep(w) => UnLock(w) \/ Nack(w)
  BY <1>1, <1>2 DEF HandlerStep, Prepare, TakeLock, SendMail, Ack, AbandonOnStop
<1> QED  BY <1>1, <1>3, <1>4, <1>5, <1>6, WorkerStays

\* A message on its way to a free row gets there.
LEMMA WaitingStays ==
    ASSUME TypeOK, LockInv, CalmInv, [Next]_vars, faults' = faults, disruptions' = 0,
           seen' \cap {"lock", "killed"} = {}, NEW e \in Mails, lock[e] = 0,
           Queued(e) \/ \E w \in Workers : At(w, e, "prepare") \/ At(w, e, "lock")
    PROVE  Live(e)'
<1>1. CASE lock'[e] # 0
  BY <1>1, LockSource DEF Live
<1>2. ASSUME lock'[e] = 0, NEW w \in Workers, At(w, e, "prepare") \/ At(w, e, "lock")
      PROVE  At(w, e, "prepare")' \/ At(w, e, "lock")'
  <2>1. cur[w] # None /\ cur[w].mail = e /\ pc[w] \in {"prepare", "lock"}
    BY <1>2 DEF At, Has
  <2>2. CASE Prepare(w)
    BY <2>1, <2>2, FailureCounted DEF Prepare, Goto, inWork, TypeOK, At, Has
  <2>3. ~TakeLock(w)
    <3>1. ASSUME TakeLock(w) PROVE lock' = [lock EXCEPT ![e] = 1]
      BY <2>1, <3>1, FailureCounted DEF TakeLock
    <3> QED  BY <1>2, <3>1 DEF TypeOK
  <2>4. HandlerStep(w) => Prepare(w)
    BY <2>1, <2>3 DEF HandlerStep, SendMail, UnLock, Ack, AbandonOnStop, Nack
  <2> QED  BY <2>1, <2>2, <2>4, WorkerStays DEF At, Has
<1>3. ASSUME NEW m \in Msgs, m.mail = e, queue[m] > 0
      PROVE  queue'[m] > 0 \/ \E w \in Workers : At(w, e, "prepare")'
  <2>1. ASSUME NEW w \in Workers, Deliver(w)
        PROVE  queue'[m] > 0 \/ \E v \in Workers : At(v, e, "prepare")'
    <3>1. PICK k \in Msgs : /\ queue[k] > 0
                            /\ queue' = [queue EXCEPT ![k] = @ - 1]
                            /\ cur' = [cur EXCEPT ![w] = k]
      BY <2>1 DEF Deliver
    <3>2. CASE k = m
      BY <1>3, <2>1, <3>1, <3>2, NoneAssumption DEF Deliver, At, Has, TypeOK
    <3>3. CASE k # m
      BY <1>3, <3>1, <3>3 DEF TypeOK
    <3> QED  BY <3>2, <3>3
  <2>2. ASSUME ~(\E w \in Workers : Deliver(w)) PROVE queue'[m] > 0
    <3>1. \A w \in Workers : ~LoseConnection(w) /\ ~Crash(w) /\ ~Exit(w) /\ ~Start(w)
      BY NoEnd
    <3>2. ASSUME NEW f \in Mails, Request(f) PROVE queue'[m] > 0
      <4>1. [mail |-> f, redelivered |-> FALSE] \in Msgs
        BY DEF Msgs
      <4> QED  BY <1>3, <3>2, <4>1, PutMsg DEF Request, TypeOK
    <3>3. ASSUME NEW w \in Workers, Nack(w) PROVE queue'[m] > 0
      <4>1. cur[w] \in Msgs
        BY <3>3 DEF Nack, TypeOK
      <4> QED  BY <1>3, <3>3, <4>1, RedeliveredMsg, PutMsg DEF Nack, TypeOK
    <3>4. ASSUME ~(\E f \in Mails : Request(f)), ~(\E w \in Workers : Nack(w))
          PROVE  queue' = queue
      BY <2>2, <3>1, <3>4
      DEF Next, vars, HandlerStep, Prepare, TakeLock, SendMail, UnLock, Ack, inWork,
          AbandonOnStop, Stop, Rest
    <3>5. CASE queue' = queue
      BY <1>3, <3>5
    <3>6. CASE \E f \in Mails : Request(f)
      BY <3>2, <3>6
    <3>7. CASE \E w \in Workers : Nack(w)
      BY <3>3, <3>7
    <3> QED  BY <3>4, <3>5, <3>6, <3>7
  <2> QED  BY <2>1, <2>2
<1>4. CASE lock'[e] = 0
  BY <1>2, <1>3, <1>4 DEF Live, Queued
<1> QED  BY <1>1, <1>4

\* After the one failure every step leaves the mail a message.
LEMMA RetriedStays ==
    ASSUME TypeOK, CalmInv, LockInv, KeptInv, AskedInv, [Next]_vars,
           faults' = faults, disruptions' = 0, seen' \cap {"lock", "killed"} = {},
           NEW e \in Mails, sent[e] = 0, sent'[e] = 0, Retried(e)
    PROVE  Retried(e)'
<1>1. ASSUME NEW w \in Workers, At(w, e, "reopen")'
      PROVE  At(w, e, "reopen") /\ cur'[w] = cur[w]
  <2>1. pc'[w] = "reopen"
    BY <1>1 DEF At
  <2>2. ~Deliver(w) /\ ~ProcessEnds(w)
    BY <2>1 DEF Deliver, ProcessEnds, Runs, Start, Goto, TypeOK
  <2>3. ~HandlerStep(w)
    BY <2>1, FailureCounted
    DEF HandlerStep, Prepare, TakeLock, SendMail, UnLock, Ack, AbandonOnStop, Nack,
        EndsDelivery, Goto, TypeOK
  <2>4. pc'[w] = pc[w] /\ cur'[w] = cur[w]
    BY <2>2, <2>3, WorkerMoves
  <2> QED  BY <1>1, <2>4 DEF At, Has
<1>2. \A w \in Workers : At(w, e, "reopen")' => ~cur'[w].redelivered
  BY <1>1 DEF Retried
<1>3. ASSUME NEW w \in Workers, At(w, e, "reopen"), lock'[e] # 0
      PROVE  At(w, e, "reopen")' /\ cur'[w] = cur[w]
  <2>1. ASSUME UnLock(w) PROVE lock' = [lock EXCEPT ![e] = 0]
    BY <1>3, <2>1, FailureCounted DEF UnLock, At, Has
  <2>2. ~UnLock(w)
    BY <1>3, <2>1 DEF TypeOK
  <2>3. ~HandlerStep(w)
    BY <1>3, <2>2
    DEF At, HandlerStep, Prepare, TakeLock, SendMail, Ack, AbandonOnStop, Nack
  <2> QED  BY <1>3, <2>3, WorkerStays DEF At, Has
<1>4. ASSUME lock'[e] # 0
      PROVE  \E w \in Workers : At(w, e, "send")' \/ At(w, e, "reopen")'
  <2>1. CASE lock[e] = 0
    BY <1>4, <2>1, LockSource
  <2>2. CASE lock[e] # 0
    <3>1. PICK s \in Workers : At(s, e, "send") \/ At(s, e, "reopen")
      BY <2>2 DEF Retried
    <3> QED  BY <1>3, <1>4, <3>1, SenderStays
  <2> QED  BY <2>1, <2>2
<1>5. ASSUME lock'[e] # 0 PROVE Live(e)'
  BY <1>2, <1>4, <1>5 DEF Live
<1>6. ASSUME requests[e] = 0, requests'[e] > 0 PROVE Live(e)'
  <2>1. Request(e)
    BY <1>6, RequestOnly
  <2>2. [mail |-> e, redelivered |-> FALSE] \in Msgs
    BY DEF Msgs
  <2>3. Queued(e)'
    BY <2>1, <2>2, PutMsg DEF Request, Queued, TypeOK
  <2> QED  BY <1>5, <2>3 DEF Live
<1>7. ASSUME Live(e) PROVE Live(e)'
  <2>1. CASE \E w \in Workers : At(w, e, "send")
    BY <2>1, SenderStays DEF Live
  <2>2. CASE lock[e] = 0 /\ (Queued(e) \/ \E w \in Workers : At(w, e, "prepare") \/ At(w, e, "lock"))
    BY <2>2, WaitingStays
  <2>3. ASSUME NEW w \in Workers,
               At(w, e, "reopen") \/ At(w, e, "error"), ~cur[w].redelivered
        PROVE  Live(e)'
    <3>1. CASE Queued(e)'
      BY <1>5, <3>1 DEF Live
    <3>2. CASE (At(w, e, "reopen") \/ At(w, e, "error"))' /\ cur'[w] = cur[w]
      BY <2>3, <3>2 DEF Live
    <3> QED  BY <2>3, <3>1, <3>2, FailedStays
  <2> QED  BY <1>7, <2>1, <2>2, <2>3 DEF Live
<1>8. requests'[e] > 0 => requests[e] > 0 \/ requests[e] = 0
  BY BoundsAssumption DEF TypeOK
<1>9. requests'[e] > 0 => Live(e)'
  BY <1>6, <1>7, <1>8 DEF Retried
<1> QED  BY <1>2, <1>4, <1>9 DEF Retried

LEMMA MailStep ==
    TypeOK /\ CalmInv /\ LockInv /\ KeptInv /\ AskedInv /\ MailInv /\ [Next]_vars => MailInv'
<1> SUFFICES ASSUME TypeOK, CalmInv, LockInv, KeptInv, AskedInv, MailInv, [Next]_vars,
                    faults' + disruptions' <= 1, seen' \cap {"lock", "killed"} = {},
                    NEW e \in Mails, sent'[e] = 0
             PROVE  IF faults' = 0 THEN Untroubled(e)' ELSE Retried(e)'
  BY DEF MailInv
<1>1. /\ faults \in Nat /\ (faults' = faults \/ faults' = faults + 1)
      /\ disruptions \in Nat /\ (disruptions' = disruptions \/ disruptions' = disruptions + 1)
  BY TroubleMoves
<1>2. faults + disruptions <= 1 /\ seen \cap {"lock", "killed"} = {}
  <2>1. faults + disruptions <= 1
    BY <1>1
  <2>2. seen \cap {"lock", "killed"} = {}
    BY SeenGrows
  <2> QED  BY <2>1, <2>2
<1>3. sent[e] = 0
  <2>1. sent[e] \in 0 .. 2 /\ (sent[e] > 0 => sent'[e] > 0)
    BY OutcomeStays DEF TypeOK
  <2> QED  BY <2>1
<1>4. IF faults = 0 THEN Untroubled(e) ELSE Retried(e)
  BY <1>2, <1>3 DEF MailInv
<1>5. CASE faults' = 0
  BY <1>1, <1>4, <1>5, UntroubledStays
<1>6. CASE faults' # faults
  <2>1. faults = 0 /\ disruptions = 0 /\ faults' # 0
    BY <1>1, <1>6
  <2>2. Untroubled(e)
    BY <1>4, <2>1
  <2>3. Retried(e)'
    BY <1>3, <1>6, <2>1, <2>2, FirstFailure
  <2> QED  BY <2>1, <2>3
<1>7. CASE faults' = faults /\ faults' # 0
  <2>1. disruptions' = 0
    BY <1>1, <1>7
  <2>2. Retried(e)
    BY <1>4, <1>7
  <2>3. Retried(e)'
    BY <1>3, <1>7, <2>1, <2>2, RetriedStays
  <2> QED  BY <1>7, <2>3
<1> QED  BY <1>5, <1>6, <1>7

\* A mail that was asked for, and of which nothing is left to do, was sent,
\* although a call failed or a process lost its channel or was told to stop.
THEOREM OneFailureLosesNoMailHolds == Spec => []OneFailureLosesNoMail
<1>1. Init => CalmInv /\ KeptInv /\ AskedInv /\ MailInv
  <2>1. ~(0 > 0)
    OBVIOUS
  <2>2. Init => CalmInv /\ KeptInv /\ AskedInv
    BY <2>1 DEF Init, CalmInv, KeptInv, AskedInv, Msgs
  <2>3. Init => MailInv
    BY <2>1 DEF Init, MailInv, Untroubled, Has
  <2> QED  BY <2>2, <2>3
<1>2. TypeOK /\ KeptInv /\ MailInv => OneFailureLosesNoMail
  <2> SUFFICES ASSUME TypeOK, KeptInv, MailInv,
                      faults + disruptions <= 1, seen \cap {"lock", "killed"} = {},
                      NEW e \in Mails, requests[e] > 0, Done(e), sent[e] = 0
               PROVE  FALSE
    BY DEF OneFailureLosesNoMail, TypeOK
  <2>1. IF faults = 0 THEN Untroubled(e) ELSE Retried(e)
    BY DEF MailInv
  <2>2. Live(e)
    BY <2>1, UntroubledLive DEF Retried
  <2>3. ~Queued(e) /\ \A w \in Workers : ~Has(w, e)
    BY DEF Done, Queued, Has
  <2> QED  BY <2>2, <2>3 DEF Live, At
<1> QED
  BY <1>1, <1>2, TypeCorrect, LockInvariant, CalmStep, KeptStep, AskedStep, MailStep, PTL
  DEF Spec

==============================================================================
