------------------------------- MODULE Pipeline -------------------------------
(***************************************************************************)
(* The life of a task: the upload service accepts it, and the synthesize   *)
(* service (internal/pkg/synthesize/service.go) takes it through the       *)
(* RabbitMQ queues Upload, Split, Synthesize and Join, one consumer per    *)
(* queue.  A handler that fails has its message requeued once; the second  *)
(* failure is reported and, when the usage is to be given back, a message  *)
(* goes to the Fail queue.  The broker requeues what is unacknowledged     *)
(* when the connection or the process is lost.                             *)
(***************************************************************************)
EXTENDS Integers, FiniteSets

CONSTANTS
    Tasks,           \* the tasks that may be uploaded
    Metered,         \* those whose request carries an id of the usage service
    Faults,          \* the calls that may fail: "save", "send", "work", "restore"
    MaxFaults,       \* bound: failing calls
    MaxLateFaults,   \* bound: the same in a behaviour with a disruption
    Disruptions,     \* what may happen to the service: "stop", "lose", "crash"
    MaxDisruptions,  \* bound: shutdowns, lost connections and crashes
    MaxBusy,         \* bound: consumers that have a message at once
    None             \* no message

FaultKinds == {"save", "send", "work", "restore"}
DisruptionKinds == {"stop", "lose", "crash"}

ASSUME MeteredAssumption == Metered \subseteq Tasks
ASSUME FaultsAssumption == Faults \subseteq FaultKinds
ASSUME DisruptionsAssumption == Disruptions \subseteq DisruptionKinds
ASSUME BoundsAssumption ==
    /\ MaxFaults \in Nat /\ MaxLateFaults \in Nat /\ MaxDisruptions \in Nat
    /\ MaxBusy \in Nat \ {0}

Stages == {"Upload", "Split", "Synthesize", "Join"}
Queues == Stages \cup {"Fail"}

\* A message as the broker keeps it; redelivered says whether its flag
\* Redelivered is set, and what set it: a Nack or a loss.
Msgs == [id : Tasks, error : BOOLEAN, redelivered : {"no", "nacked", "lost"}]
ASSUME NoneAssumption == None \notin Msgs

VARIABLES
    queue,        \* queue[q][m]: copies of m ready for delivery
    linked,       \* the channel of the consumers is open
    stopping,     \* StopCtx is done
    pc,           \* pc[q]: where the handler of consumer q is
    cur,          \* cur[q]: the unacknowledged message of consumer q
    cause,        \* cause[q]: the error the handler of q returned
    status,       \* status[t]: the record of the status table
    made,         \* made[t]: the stages whose output files are whole
    result,       \* result[t]: the result file
    informed,     \* informed[t]: the types of inform messages sent
    restored,     \* restored[t]: times the usage was given back, up to 2
    upload,       \* upload[t]: the request of the upload service
    history,      \* history[t]: what happened to t, for the properties
    seen,         \* history: the kinds of faults that occurred
    faults,       \* failing calls so far
    disruptions   \* shutdowns, lost connections and crashes so far

handlers == <<pc, cur, cause>>
files == <<made, result>>
outputs == <<informed, restored>>
trouble == <<seen, faults>>
vars == <<queue, linked, stopping, handlers, status, files, outputs, upload,
          history, trouble, disruptions>>

StatusNames == {"", "UPLOADED", "Split", "Synthesize", "Join", "COMPLETED"}
Causes == {"none", "restorable", "nonRestorable", "canceled"}
Marks == {"completed", "gaveUp", "blamed", "refundDue", "refundUnsent", "refundDropped"}
Steps == {"idle", "save", "work", "writing", "joining", "complete", "inform", "send",
          "ack", "error", "saveErr", "informFailed", "sendFail", "drop"}

TypeOK ==
    /\ queue \in [Queues -> [Msgs -> Nat]]
    /\ linked \in BOOLEAN /\ stopping \in BOOLEAN
    /\ pc \in [Queues -> Steps]
    /\ cur \in [Queues -> Msgs \cup {None}]
    /\ cause \in [Queues -> Causes]
    /\ status \in [Tasks -> [st : StatusNames, err : BOOLEAN]]
    /\ made \in [Tasks -> SUBSET {"Split", "Synthesize"}]
    /\ result \in [Tasks -> {"none", "torn", "whole"}]
    /\ informed \in [Tasks -> SUBSET {"Started", "Finished", "Failed"}]
    /\ restored \in [Tasks -> 0 .. 2]
    /\ upload \in [Tasks -> {"none", "saved", "accepted", "refused"}]
    /\ history \in [Tasks -> SUBSET Marks]
    /\ seen \subseteq FaultKinds
    /\ faults \in 0 .. MaxFaults
    /\ disruptions \in 0 .. MaxDisruptions

-----------------------------------------------------------------------------
(* Helpers. *)

\* The handlers step by step: listenUpload, split and synthesize, join and
\* restoreUsage.  At "writing" the splitter has begun to write its files, at
\* "joining" ffmpeg its result.
AfterUpload == [idle |-> "save", save |-> "inform", inform |-> "send", send |-> "ack"]

BugAfterSplit == [idle |-> "save", save |-> "send", send |-> "work",
                  work |-> "writing", writing |-> "ack"]
AfterSplit == [idle |-> "save", save |-> "work", work |-> "writing",
               writing |-> "send", send |-> "ack"]

AfterSynthesize == [idle |-> "save", save |-> "work", work |-> "send", send |-> "ack"]

BugAfterJoin == [idle |-> "save", save |-> "work", work |-> "joining",
                 joining |-> "inform", inform |-> "complete", complete |-> "ack"]
AfterJoin == [idle |-> "save", save |-> "work", work |-> "joining",
              joining |-> "complete", complete |-> "inform", inform |-> "ack"]

AfterFail == [idle |-> "work", work |-> "ack"]

After == [Upload |-> AfterUpload, Split |-> AfterSplit,
          Synthesize |-> AfterSynthesize, Join |-> AfterJoin, Fail |-> AfterFail]

StageStatus == [Upload |-> "UPLOADED", Split |-> "Split",
                Synthesize |-> "Synthesize", Join |-> "Join"]

NextQueue == [Upload |-> "Split", Split |-> "Synthesize", Synthesize |-> "Join"]

NewMsg(t, e) == [id |-> t, error |-> e, redelivered |-> "no"]
Put(bag, m) == [bag EXCEPT ![m] = @ + 1]
Take(bag, m) == [bag EXCEPT ![m] = @ - 1]
Enqueued(q, m) == [queue EXCEPT ![q] = Put(@, m)]

Nacked(m) == [m EXCEPT !.redelivered = "nacked"]
Lost(m) == [m EXCEPT !.redelivered = IF @ = "nacked" THEN @ ELSE "lost"]

\* Status.Save(ID, st, ""): sets the status, unsets the error.
Saved(t, st) == [status EXCEPT ![t] = [st |-> st, err |-> FALSE]]
BugSavedError(t) == [status EXCEPT ![t] = [st |-> "error", err |-> FALSE]]
\* Status.Save(ID, "", err): sets the error only.
SavedError(t) == [status EXCEPT ![t].err = TRUE]

Mark(t, marks) == history' = [history EXCEPT ![t] = @ \cup marks]

\* Mutant: no message is redelivered.
BugRequeue(m) == FALSE

\* requeue := redeliver && !d.Redelivered; every handler returns true.
Requeue(m) == m.redelivered = "no"

\* Mutant: the kind of the error is not looked at.
BugNeedToRestore(q, m, c) == q # "Fail" /\ ~m.error

\* needToRestoreUsage(err) && d.RoutingKey != messages.Fail && message.Error == ""
NeedToRestore(q, m, c) == c # "nonRestorable" /\ q # "Fail" /\ ~m.error

Init ==
    /\ queue = [q \in Queues |-> [m \in Msgs |-> 0]]
    /\ linked = TRUE
    /\ stopping = FALSE
    /\ pc = [q \in Queues |-> "idle"]
    /\ cur = [q \in Queues |-> None]
    /\ cause = [q \in Queues |-> "none"]
    /\ status = [t \in Tasks |-> [st |-> "", err |-> FALSE]]
    /\ made = [t \in Tasks |-> {}]
    /\ result = [t \in Tasks |-> "none"]
    /\ informed = [t \in Tasks |-> {}]
    /\ restored = [t \in Tasks |-> 0]
    /\ upload = [t \in Tasks |-> "none"]
    /\ history = [t \in Tasks |-> {}]
    /\ seen = {}
    /\ faults = 0
    /\ disruptions = 0

-----------------------------------------------------------------------------
(* The upload service: the file, the request and the status are saved, then *)
(* the message is sent; a failure answers with an error.                    *)

Occurs(kind) ==
    /\ kind \in Faults
    /\ faults < MaxFaults
    /\ disruptions > 0 => faults < MaxLateFaults
    /\ faults' = faults + 1
    /\ seen' = seen \cup {kind}

SaveRequest(t) ==
    /\ upload[t] = "none"
    /\ \/ /\ status' = Saved(t, "UPLOADED")
          /\ upload' = [upload EXCEPT ![t] = "saved"]
          /\ UNCHANGED trouble
       \/ /\ Occurs("save")
          /\ upload' = [upload EXCEPT ![t] = "refused"]
          /\ UNCHANGED status
    /\ UNCHANGED <<queue, linked, stopping, handlers, files, outputs, history,
                   disruptions>>

SendUpload(t) ==
    /\ upload[t] = "saved"
    /\ \/ /\ queue' = Enqueued("Upload", NewMsg(t, FALSE))
          /\ upload' = [upload EXCEPT ![t] = "accepted"]
          /\ UNCHANGED trouble
       \/ /\ Occurs("send")
          /\ upload' = [upload EXCEPT ![t] = "refused"]
          /\ UNCHANGED queue
    /\ UNCHANGED <<linked, stopping, handlers, status, files, outputs, history,
                   disruptions>>

-----------------------------------------------------------------------------
(* The consumer of queue q. *)

\* No step of a handler touches these.
environment == <<linked, stopping, upload, disruptions>>

Succeeds(q) ==
    /\ pc' = [pc EXCEPT ![q] = After[q][pc[q]]]
    /\ UNCHANGED <<cause, trouble>>

FailsWith(q, c) ==
    /\ pc' = [pc EXCEPT ![q] = "error"]
    /\ cause' = [cause EXCEPT ![q] = c]

Fails(q, kind) == Occurs(kind) /\ FailsWith(q, "restorable")

\* With a prefetch of one the broker delivers to a consumer that owes no
\* acknowledgement.  A stopping consumer may still take a delivery: select
\* chooses among ready cases at random.
Deliver(q) ==
    /\ linked
    /\ pc[q] = "idle"
    /\ cur[q] = None
    /\ Cardinality({p \in Queues : cur[p] # None}) < MaxBusy
    /\ \E m \in Msgs :
        /\ queue[q][m] > 0
        /\ queue' = [queue EXCEPT ![q] = Take(@, m)]
        /\ cur' = [cur EXCEPT ![q] = m]
    /\ pc' = [pc EXCEPT ![q] = After[q].idle]
    /\ UNCHANGED <<environment, cause, status, files, outputs, history, trouble>>

SaveStatus(q) ==
    /\ pc[q] = "save"
    /\ \/ Succeeds(q) /\ status' = Saved(cur[q].id, StageStatus[q])
       \/ Fails(q, "save") /\ UNCHANGED status
    /\ UNCHANGED <<environment, queue, cur, files, outputs, history>>

\* Splitter.Do reads and splits the text, then writes its files: the first
\* of them truncates what an earlier delivery has written.
StartSplit ==
    /\ pc["Split"] = "work"
    /\ \/ Succeeds("Split") /\ made' = [made EXCEPT ![cur["Split"].id] = @ \ {"Split"}]
       \/ Fails("Split", "work") /\ UNCHANGED made
    /\ UNCHANGED <<environment, queue, cur, status, result, outputs, history>>

FinishSplit ==
    /\ pc["Split"] = "writing"
    /\ \/ Succeeds("Split") /\ made' = [made EXCEPT ![cur["Split"].id] = @ \cup {"Split"}]
       \/ Fails("Split", "work") /\ UNCHANGED made
    /\ UNCHANGED <<environment, queue, cur, status, result, outputs, history>>

\* Synthesizer.Do, which skips the files that are there.  Only it looks at
\* StopCtx, and only it makes errors for which the usage is not given back.
DoSynthesize ==
    /\ pc["Synthesize"] = "work"
    /\ \/ /\ Succeeds("Synthesize")
          /\ made' = [made EXCEPT ![cur["Synthesize"].id] = @ \cup {"Synthesize"}]
       \/ Fails("Synthesize", "work") /\ UNCHANGED made
       \/ Occurs("work") /\ FailsWith("Synthesize", "nonRestorable") /\ UNCHANGED made
       \/ stopping /\ FailsWith("Synthesize", "canceled") /\ UNCHANGED <<made, trouble>>
    /\ UNCHANGED <<environment, queue, cur, status, result, outputs, history>>

BugStartJoin ==
    /\ pc["Join"] = "work"
    /\ \/ Succeeds("Join") /\ result' = [result EXCEPT ![cur["Join"].id] = "torn"]
       \/ Fails("Join", "work") /\ UNCHANGED result
    /\ UNCHANGED <<environment, queue, cur, status, made, outputs, history>>

\* Joiner.Do up to the start of ffmpeg, which creates the result file and
\* refuses to overwrite one: it is run without -y and without a terminal.
StartJoin ==
    LET t == cur["Join"].id IN
    /\ pc["Join"] = "work"
    /\ \/ /\ result[t] = "none"
          /\ Succeeds("Join")
          /\ result' = [result EXCEPT ![t] = "torn"]
       \/ /\ result[t] # "none"
          /\ FailsWith("Join", "restorable")
          /\ UNCHANGED <<result, trouble>>
       \/ Fails("Join", "work") /\ UNCHANGED result
    /\ UNCHANGED <<environment, queue, cur, status, made, outputs, history>>

FinishJoin ==
    /\ pc["Join"] = "joining"
    /\ \/ Succeeds("Join") /\ result' = [result EXCEPT ![cur["Join"].id] = "whole"]
       \/ Fails("Join", "work") /\ UNCHANGED result
    /\ UNCHANGED <<environment, queue, cur, status, made, outputs, history>>

\* Mutant: the error of a call is ignored.
BugRestoreUsage ==
    LET t == cur["Fail"].id IN
    /\ pc["Fail"] = "work"
    /\ IF t \in Metered
       THEN \/ UNCHANGED trouble /\ restored' = [restored EXCEPT ![t] = IF @ < 2 THEN @ + 1 ELSE @]
            \/ Occurs("restore") /\ UNCHANGED restored
       ELSE UNCHANGED <<trouble, restored>>
    /\ pc' = [pc EXCEPT !["Fail"] = "ack"]
    /\ UNCHANGED <<environment, queue, cur, cause, status, files, informed, history>>

\* UsageRestorer.Do: a call that timed out may have been served.
RestoreUsage ==
    LET t == cur["Fail"].id
        restoredOnce == [restored EXCEPT ![t] = IF @ < 2 THEN @ + 1 ELSE @] IN
    /\ pc["Fail"] = "work"
    /\ IF t \in Metered
       THEN \/ Succeeds("Fail") /\ restored' = restoredOnce
            \/ Fails("Fail", "restore") /\ restored' \in {restored, restoredOnce}
       ELSE Succeeds("Fail") /\ UNCHANGED restored
    /\ UNCHANGED <<environment, queue, cur, status, files, informed, history>>

CompleteStatus ==
    LET t == cur["Join"].id IN
    /\ pc["Join"] = "complete"
    /\ \/ Succeeds("Join") /\ status' = Saved(t, "COMPLETED") /\ Mark(t, {"completed"})
       \/ Fails("Join", "save") /\ UNCHANGED <<status, history>>
    /\ UNCHANGED <<environment, queue, cur, files, outputs>>

\* The inform messages Started and Finished.
Inform(q) ==
    LET type == IF q = "Join" THEN "Finished" ELSE "Started" IN
    /\ pc[q] = "inform"
    /\ \/ Succeeds(q) /\ informed' = [informed EXCEPT ![cur[q].id] = @ \cup {type}]
       \/ Fails(q, "send") /\ UNCHANGED informed
    /\ UNCHANGED <<environment, queue, cur, status, files, restored, history>>

\* NewMessageFrom copies the message to the next queue.
Send(q) ==
    /\ pc[q] = "send"
    /\ \/ Succeeds(q) /\ queue' = Enqueued(NextQueue[q], NewMsg(cur[q].id, cur[q].error))
       \/ Fails(q, "send") /\ UNCHANGED queue
    /\ UNCHANGED <<environment, cur, status, files, outputs, history>>

-----------------------------------------------------------------------------
(* The end of processMsg.  On a lost channel Ack and Nack fail, which the  *)
(* consumer ignores: the broker has taken the message back already.        *)

HandlerReturns(q) ==
    /\ pc' = [pc EXCEPT ![q] = "idle"]
    /\ cause' = [cause EXCEPT ![q] = "none"]

EndsDelivery(q) == HandlerReturns(q) /\ cur' = [cur EXCEPT ![q] = None]

Ack(q) ==
    /\ pc[q] = "ack"
    /\ EndsDelivery(q)
    /\ UNCHANGED <<environment, queue, status, files, outputs, history, trouble>>

\* While the service stops a failed delivery is left unacknowledged.
AbandonOnStop(q) ==
    /\ pc[q] = "error"
    /\ stopping
    /\ HandlerReturns(q)
    /\ UNCHANGED <<environment, queue, cur, status, files, outputs,
                   history, trouble>>

BugNackRequeue(q) ==
    /\ pc[q] = "error"
    /\ ~stopping
    /\ Requeue(cur[q])
    /\ EndsDelivery(q)
    /\ UNCHANGED <<environment, queue, status, files, outputs, history, trouble>>

\* return d.Nack(false, true)
NackRequeue(q) ==
    /\ pc[q] = "error"
    /\ ~stopping
    /\ Requeue(cur[q])
    /\ queue' = IF linked THEN Enqueued(q, Nacked(cur[q])) ELSE queue
    /\ EndsDelivery(q)
    /\ UNCHANGED <<environment, status, files, outputs, history, trouble>>

\* Mutant: processMsg does not look whether the service stops.
BugLastFailure(q) ==
    /\ pc[q] = "error"
    /\ ~Requeue(cur[q])
    /\ pc' = [pc EXCEPT ![q] = "saveErr"]
    /\ UNCHANGED <<environment, queue, cur, cause, status, files, outputs, history, trouble>>

\* The message will not be requeued: report, then drop it.
LastFailure(q) ==
    /\ pc[q] = "error"
    /\ ~stopping
    /\ ~Requeue(cur[q])
    /\ pc' = [pc EXCEPT ![q] = "saveErr"]
    /\ Mark(cur[q].id,
            IF cause[q] = "restorable" THEN {"blamed"} ELSE {})
    /\ UNCHANGED <<environment, queue, cur, cause, status, files, outputs, trouble>>

\* The three reports ignore their own errors.
SaveError(q) ==
    /\ pc[q] = "saveErr"
    /\ \/ status' = SavedError(cur[q].id) /\ UNCHANGED trouble
       \/ Occurs("save") /\ UNCHANGED status
    /\ pc' = [pc EXCEPT ![q] = "informFailed"]
    /\ UNCHANGED <<environment, queue, cur, cause, files, outputs, history>>

InformFailed(q) ==
    /\ pc[q] = "informFailed"
    /\ \/ informed' = [informed EXCEPT ![cur[q].id] = @ \cup {"Failed"}] /\ UNCHANGED trouble
       \/ Occurs("send") /\ UNCHANGED informed
    /\ pc' = [pc EXCEPT ![q] = "sendFail"]
    /\ UNCHANGED <<environment, queue, cur, cause, status, files, restored, history>>

\* A send that fails is logged; the refund is due all the same.
SendFail(q) ==
    LET t == cur[q].id IN
    /\ pc[q] = "sendFail"
    /\ IF NeedToRestore(q, cur[q], cause[q])
       THEN \/ /\ queue' = Enqueued("Fail", NewMsg(t, TRUE))
               /\ Mark(t, {"refundDue"})
               /\ UNCHANGED trouble
            \/ /\ Occurs("send")
               /\ Mark(t, {"refundDue", "refundUnsent"})
               /\ UNCHANGED queue
       ELSE UNCHANGED <<queue, history, trouble>>
    /\ pc' = [pc EXCEPT ![q] = "drop"]
    /\ UNCHANGED <<environment, cur, cause, status, files, outputs>>

BugNackDrop(q) ==
    /\ pc[q] = "drop"
    /\ queue' = IF linked THEN Enqueued(q, Nacked(cur[q])) ELSE queue
    /\ Mark(cur[q].id, {"gaveUp"})
    /\ EndsDelivery(q)
    /\ UNCHANGED <<environment, status, files, outputs, trouble>>

\* return d.Nack(false, false)
NackDrop(q) ==
    /\ pc[q] = "drop"
    /\ Mark(cur[q].id,
            IF ~linked THEN {} ELSE IF q = "Fail" THEN {"refundDropped"} ELSE {"gaveUp"})
    /\ EndsDelivery(q)
    /\ UNCHANGED <<environment, queue, status, files, outputs, trouble>>

HandlerStep(q) ==
    \/ SaveStatus(q) \/ Inform(q) \/ Send(q) \/ Ack(q)
    \/ AbandonOnStop(q) \/ NackRequeue(q) \/ LastFailure(q)
    \/ SaveError(q) \/ InformFailed(q) \/ SendFail(q) \/ NackDrop(q)
    \/ q = "Split" /\ (StartSplit \/ FinishSplit)
    \/ q = "Synthesize" /\ DoSynthesize
    \/ q = "Join" /\ (StartJoin \/ FinishJoin \/ CompleteStatus)
    \/ q = "Fail" /\ RestoreUsage

-----------------------------------------------------------------------------
(* Shutdown, lost connections, crashes. *)

BugReturned == queue
\* The broker requeues what a lost consumer had not acknowledged.
Returned ==
    [q \in Queues |-> IF linked /\ cur[q] # None THEN Put(queue[q], Lost(cur[q]))
                      ELSE queue[q]]

store == <<status, files, outputs, upload, history, trouble>>

Disrupts(kind) ==
    /\ kind \in Disruptions
    /\ disruptions < MaxDisruptions
    /\ faults <= MaxLateFaults
    /\ disruptions' = disruptions + 1

\* The process has ended; the handlers are gone, and the broker has what they
\* had not acknowledged.
ProcessEnds ==
    /\ queue' = Returned
    /\ pc' = [q \in Queues |-> "idle"]
    /\ cur' = [q \in Queues |-> None]
    /\ cause' = [q \in Queues |-> "none"]
    /\ UNCHANGED store

\* No process runs, or the one that does has nothing left to do but to end.
Down == stopping /\ ~linked /\ \A q \in Queues : pc[q] = "idle" /\ cur[q] = None

\* SIGTERM: main cancels StopCtx.
Stop ==
    /\ ~stopping
    /\ Disrupts("stop")
    /\ stopping' = TRUE
    /\ UNCHANGED <<queue, linked, handlers, store>>

\* The channels of the consumers close under the running handlers.
LoseConnection ==
    /\ linked
    /\ Disrupts("lose")
    /\ queue' = Returned
    /\ linked' = FALSE
    /\ UNCHANGED <<stopping, handlers, store>>

\* The process is killed, and its container started again: "on-failure".
Crash ==
    /\ ~Down
    /\ Disrupts("crash")
    /\ ProcessEnds
    /\ linked' = TRUE
    /\ stopping' = FALSE

\* main returns: on SIGTERM when the consumers have returned or after 15
\* seconds, and by itself when closed channels have ended all the consumers.
Exit ==
    /\ stopping \/ (~linked /\ \A q \in Queues : pc[q] = "idle")
    /\ ProcessEnds
    /\ linked' = FALSE
    /\ stopping' = TRUE
    /\ UNCHANGED disruptions

\* Somebody starts the service again.
Start ==
    /\ Down
    /\ linked' = TRUE
    /\ stopping' = FALSE
    /\ UNCHANGED <<queue, handlers, store, disruptions>>

\* Nothing is left to do: the state in which the system may rest.
Drained ==
    /\ \A q \in Queues : cur[q] = None /\ \A m \in Msgs : queue[q][m] = 0
    /\ \A t \in Tasks : upload[t] \in {"accepted", "refused"}

Rest == Drained /\ linked /\ ~stopping /\ UNCHANGED vars

Next ==
    \/ \E t \in Tasks : SaveRequest(t) \/ SendUpload(t)
    \/ \E q \in Queues : Deliver(q) \/ HandlerStep(q)
    \/ Stop \/ LoseConnection \/ Crash \/ Exit \/ Start \/ Rest

\* Every call of a handler returns, for it has a timeout: but Synthesizer.Do
\* may block for ever (see Synthesizer).
CallReturns(q) == HandlerStep(q) /\ (q = "Synthesize" => pc[q] # "work")

\* The broker delivers, calls return, and main returns when it is to.  That
\* Do returns and that the service is started again are no fairness of the
\* code: they are conditions of the liveness properties.  Nothing obliges a
\* user to upload.
Fairness ==
    /\ \A q \in Queues : WF_vars(Deliver(q)) /\ WF_vars(CallReturns(q))
    /\ WF_vars(Exit)

Spec == Init /\ [][Next]_vars

FairSpec == Spec /\ Fairness

-----------------------------------------------------------------------------
(* Safety. *)

\* The broker will deliver t from q again, or still counts it as delivered.
Held(q, t) ==
    \/ \E m \in Msgs : m.id = t /\ queue[q][m] > 0
    \/ linked /\ cur[q] # None /\ cur[q].id = t

InPipeline(t) == \E q \in Stages : Held(q, t)

\* An accepted task is never lost: the broker holds a message of it until
\* it is completed or given up with a report, whatever fails or crashes.
NoTaskLost ==
    \A t \in Tasks : upload[t] = "accepted"
        => history[t] \cap {"completed", "gaveUp"} # {} \/ InPipeline(t)

\* One failing call gives no task up ("redeliver for first time"), as long as
\* no delivery is repeated and until ffmpeg has begun the result: it will not
\* overwrite what an attempt has left, torn or whole.
OneFailureRetried ==
    disruptions = 0 /\ faults <= 1 =>
        \A t \in Tasks : "gaveUp" \in history[t] => result[t] # "none"

\* A refund that is due is not forgotten: the Fail message stays until the
\* usage service has been called or the call has failed for good.  Only one
\* whose message could not be sent is lost, with no other trace than the log.
NoRefundLost ==
    \A t \in Metered : "refundDue" \in history[t] =>
        \/ restored[t] > 0
        \/ history[t] \cap {"refundDropped", "refundUnsent"} # {}
        \/ Held("Fail", t)

\* Synthesize works on the texts that Split has finished.  After a shutdown, a
\* lost connection or a crash Split may be writing them anew: then the broker
\* holds the message by which Split will finish them, or Split has given the
\* task up.  Join works only on audio that is finished, always.
StageInputReady ==
    \A t \in Tasks :
        /\ Held("Synthesize", t) =>
               \/ "Split" \in made[t]
               \/ disruptions > 0 /\ (Held("Split", t) \/ "gaveUp" \in history[t])
        /\ Held("Join", t) => "Synthesize" \in made[t]

\* Once a task is COMPLETED, or its user was told it is, the result file is
\* whole and stays whole.
CompletedHasResult ==
    \A t \in Tasks : status[t].st = "COMPLETED" \/ "Finished" \in informed[t]
        => result[t] = "whole"

\* A task's user hears one outcome only, as long as no delivery is repeated
\* by a shutdown, a lost connection or a crash.
OneOutcomeTold ==
    disruptions = 0 => \A t \in Tasks : ~({"Finished", "Failed"} \subseteq informed[t])

\* The status of a task that has left the pipeline tells how it ended, as
\* long as no status was lost and no delivery repeated.
StatusTellsOutcome ==
    disruptions = 0 /\ "save" \notin seen =>
        \A t \in Tasks : upload[t] = "accepted" /\ ~InPipeline(t) =>
            IF "gaveUp" \in history[t] THEN status[t].err
            ELSE status[t] = [st |-> "COMPLETED", err |-> FALSE]

\* The usage is given back only after a last failure that calls for it.
RestoredOnlyWhenBlamed ==
    \A t \in Tasks : restored[t] > 0 => "blamed" \in history[t]

\* The usage is given back once, as long as no call of the usage service
\* failed ambiguously and no delivery was repeated.
RestoredAtMostOnce ==
    disruptions = 0 /\ "restore" \notin seen => \A t \in Tasks : restored[t] <= 1

\* A synthesis cut off by a shutdown is neither reported nor dropped: its
\* handler ends with the service stopping, where AbandonOnStop is all that it
\* can do, and the broker has or gets the message back.  As that sets its flag
\* Redelivered, the next failure of the task will be its last.
CancelledNotReported ==
    \A q \in Queues : cause[q] = "canceled" =>
        pc[q] = "error" /\ stopping /\ Held(q, cur[q].id)

-----------------------------------------------------------------------------
(* Refinement. *)

Promise == INSTANCE TaskPromise WITH
    inFlight <- {t \in Tasks : InPipeline(t)},
    outcome <- [t \in Tasks |-> history[t] \cap {"completed", "gaveUp"}]

\* The pipeline implements TaskPromise: through all repetitions and restarts a
\* task is in flight until it has an outcome, meets outcomes only while in
\* flight, and never comes back to a queue once it has left.
KeepsPromise == Promise!Spec

-----------------------------------------------------------------------------
(* Liveness. *)

\* The service is started again whenever it has ended, and Synthesizer.Do
\* returns whenever it is called.
KeepsRunning == []<>(linked /\ ~stopping) /\ []<>(pc["Synthesize"] # "work")

\* Every accepted task is completed or given up, as long as the service keeps
\* running: no message is retried for ever, and none stays with a consumer
\* that will not acknowledge it.
TaskSettles ==
    KeepsRunning =>
        \A t \in Tasks : upload[t] = "accepted"
            ~> history[t] \cap {"completed", "gaveUp"} # {}

\* A refund that is due is given back, unless its message could not be sent or
\* the usage service has failed, as long as the service keeps running.
RefundSettles ==
    KeepsRunning =>
        \A t \in Metered : "refundDue" \in history[t]
            ~> restored[t] > 0 \/ history[t] \cap {"refundDropped", "refundUnsent"} # {}

==============================================================================
