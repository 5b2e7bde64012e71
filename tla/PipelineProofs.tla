---------------------------- MODULE PipelineProofs ----------------------------
(***************************************************************************)
(* Proofs about the pipeline for every number of tasks, failures and       *)
(* disruptions.                                                            *)
(***************************************************************************)
EXTENDS Pipeline, TLAPS

-----------------------------------------------------------------------------
(* The steps of the handlers. *)

Failing == {"error", "saveErr", "informFailed", "sendFail", "drop"}

\* Where the handler of q can be.
StepsOf(q) == DOMAIN After[q] \cup {"ack"} \cup Failing

\* A handler that succeeds goes on inside its own workflow.
LEMMA AfterSteps ==
    ASSUME NEW q \in Queues
    PROVE  /\ StepsOf(q) \subseteq Steps
           /\ "idle" \in DOMAIN After[q]
           /\ \A s \in DOMAIN After[q] : After[q][s] \in StepsOf(q) \ (Failing \cup {"idle"})
<1> USE DEF StepsOf, After, Steps, Failing
<1>1. CASE q = "Upload"
  BY <1>1 DEF AfterUpload
<1>2. CASE q = "Split" \/ q = "Synthesize"
  BY <1>2 DEF AfterSplit, AfterSynthesize
<1>3. CASE q = "Join"
  BY <1>3 DEF AfterJoin
<1>4. CASE q = "Fail"
  BY <1>4 DEF AfterFail
<1> QED  BY <1>1, <1>2, <1>3, <1>4 DEF Queues, Stages

\* Which steps the queues have.
LEMMA StepQueues ==
    ASSUME NEW q \in Queues
    PROVE  /\ "save" \in StepsOf(q) => q \in Stages
           /\ "send" \in StepsOf(q) => q \in {"Upload", "Split", "Synthesize"}
           /\ "inform" \in StepsOf(q) => q \in {"Upload", "Join"}
           /\ "joining" \in StepsOf(q) \/ "complete" \in StepsOf(q) => q = "Join"
           /\ "writing" \in StepsOf(q) => q = "Split"
<1> USE DEF StepsOf, After, Failing, Stages
<1>1. CASE q = "Upload"
  BY <1>1 DEF AfterUpload
<1>2. CASE q = "Split" \/ q = "Synthesize"
  BY <1>2 DEF AfterSplit, AfterSynthesize
<1>3. CASE q = "Join"
  BY <1>3 DEF AfterJoin
<1>4. CASE q = "Fail"
  BY <1>4 DEF AfterFail
<1> QED  BY <1>1, <1>2, <1>3, <1>4 DEF Queues

\* What follows a step.
LEMMA AfterStep ==
    /\ \A q \in {"Upload", "Split", "Synthesize"} : After[q]["send"] = "ack"
    /\ After["Split"]["work"] = "writing" /\ After["Split"]["writing"] = "send"
    /\ After["Synthesize"]["work"] = "send"
    /\ \A q \in Stages : After[q]["idle"] = "save"
    /\ After["Upload"]["save"] = "inform" /\ After["Upload"]["inform"] = "send"
    /\ \A q \in {"Split", "Synthesize", "Join"} : After[q]["save"] = "work"
    /\ After["Join"]["work"] = "joining" /\ After["Join"]["joining"] = "complete"
    /\ After["Join"]["complete"] = "inform" /\ After["Join"]["inform"] = "ack"
    /\ After["Fail"]["idle"] = "work" /\ After["Fail"]["work"] = "ack"
BY DEF After, AfterUpload, AfterSplit, AfterSynthesize, AfterJoin, AfterFail, Stages

-----------------------------------------------------------------------------
(* Messages. *)

LEMMA MsgFacts ==
    /\ \A t \in Tasks : \A e \in BOOLEAN :
           NewMsg(t, e) \in Msgs /\ NewMsg(t, e).id = t /\ NewMsg(t, e).error = e
    /\ \A m \in Msgs :
           /\ m.id \in Tasks /\ m.error \in BOOLEAN
           /\ Nacked(m) \in Msgs /\ Nacked(m).id = m.id
           /\ Lost(m) \in Msgs /\ Lost(m).id = m.id
BY DEF NewMsg, Msgs, Nacked, Lost

\* A message put into a queue is there; no queue loses one.
LEMMA EnqueuedQueue ==
    ASSUME queue \in [Queues -> [Msgs -> Nat]], NEW q \in Queues, NEW m \in Msgs
    PROVE  /\ Enqueued(q, m) \in [Queues -> [Msgs -> Nat]]
           /\ Enqueued(q, m)[q][m] > 0
           /\ \A r \in Queues : \A k \in Msgs :
                  /\ queue[r][k] > 0 => Enqueued(q, m)[r][k] > 0
                  /\ Enqueued(q, m)[r][k] > 0 => queue[r][k] > 0 \/ (r = q /\ k = m)
BY DEF Enqueued, Put

\* What the broker takes back.
LEMMA ReturnedQueue ==
    ASSUME TypeOK
    PROVE  /\ Returned \in [Queues -> [Msgs -> Nat]]
           /\ \A q \in Queues : linked /\ cur[q] # None => Returned[q][Lost(cur[q])] > 0
           /\ \A r \in Queues : \A k \in Msgs :
                  /\ queue[r][k] > 0 => Returned[r][k] > 0
                  /\ Returned[r][k] > 0 =>
                         queue[r][k] > 0 \/ (linked /\ cur[r] # None /\ k = Lost(cur[r]))
<1> SUFFICES ASSUME NEW q \in Queues
             PROVE  /\ Returned[q] \in [Msgs -> Nat]
                    /\ linked /\ cur[q] # None => Returned[q][Lost(cur[q])] > 0
                    /\ \A k \in Msgs :
                           /\ queue[q][k] > 0 => Returned[q][k] > 0
                           /\ Returned[q][k] > 0 =>
                                  queue[q][k] > 0 \/ (linked /\ cur[q] # None /\ k = Lost(cur[q]))
  BY DEF Returned
<1>1. queue[q] \in [Msgs -> Nat]
  BY DEF TypeOK
<1>2. CASE linked /\ cur[q] # None
  <2>1. Lost(cur[q]) \in Msgs
    BY <1>2, MsgFacts DEF TypeOK
  <2>2. Returned[q] = [queue[q] EXCEPT ![Lost(cur[q])] = @ + 1]
    BY <1>2 DEF Returned, Put
  <2> QED  BY <1>1, <1>2, <2>1, <2>2
<1>3. CASE ~(linked /\ cur[q] # None)
  BY <1>1, <1>3 DEF Returned
<1> QED  BY <1>2, <1>3

-----------------------------------------------------------------------------
(* Type correctness. *)

\* A handler is inside its workflow, and has a message while it runs.
StepsInv ==
    \A q \in Queues : pc[q] \in StepsOf(q) /\ (pc[q] # "idle" => cur[q] # None)

TypeInv == TypeOK /\ StepsInv

LEMMA TypeInit == Init => TypeInv
<1> SUFFICES ASSUME Init PROVE TypeInv
  OBVIOUS
<1>1. StepsInv
  BY AfterSteps DEF Init, StepsInv, StepsOf
<1>2. faults \in 0 .. MaxFaults /\ disruptions \in 0 .. MaxDisruptions
  <2>1. 0 \in 0 .. MaxFaults /\ 0 \in 0 .. MaxDisruptions
    BY BoundsAssumption
  <2> QED  BY <2>1 DEF Init
<1>3. status \in [Tasks -> [st : StatusNames, err : BOOLEAN]]
  BY DEF Init, StatusNames
<1>4. pc \in [Queues -> Steps] /\ cause \in [Queues -> Causes]
  BY DEF Init, Steps, Causes
<1>5. /\ made \in [Tasks -> SUBSET {"Split", "Synthesize"}]
      /\ informed \in [Tasks -> SUBSET {"Started", "Finished", "Failed"}]
      /\ history \in [Tasks -> SUBSET Marks]
  BY DEF Init
<1>8. /\ result \in [Tasks -> {"none", "torn", "whole"}]
      /\ restored \in [Tasks -> 0 .. 2]
      /\ upload \in [Tasks -> {"none", "saved", "accepted", "refused"}]
  <2>1. 0 \in 0 .. 2
    OBVIOUS
  <2> QED  BY <2>1 DEF Init
<1>6. queue \in [Queues -> [Msgs -> Nat]] /\ cur \in [Queues -> Msgs \cup {None}]
  BY DEF Init
<1>7. linked \in BOOLEAN /\ stopping \in BOOLEAN /\ seen \subseteq FaultKinds
  BY DEF Init
<1> QED
  BY <1>1, <1>2, <1>3, <1>4, <1>5, <1>6, <1>7, <1>8 DEF TypeInv, TypeOK

LEMMA TypeTrouble ==
    ASSUME TypeInv, UNCHANGED trouble \/ \E kind \in FaultKinds : Occurs(kind)
    PROVE  seen' \subseteq FaultKinds /\ faults' \in 0 .. MaxFaults
<1>1. CASE UNCHANGED trouble
  BY <1>1 DEF trouble, TypeInv, TypeOK
<1>2. ASSUME NEW kind \in FaultKinds, Occurs(kind)
      PROVE  seen' \subseteq FaultKinds /\ faults' \in 0 .. MaxFaults
  BY <1>2, BoundsAssumption DEF Occurs, TypeInv, TypeOK
<1> QED  BY <1>1, <1>2

LEMMA TypeGoto ==
    ASSUME TypeInv, NEW q \in Queues, NEW s \in StepsOf(q),
           pc' = [pc EXCEPT ![q] = s], pc[q] # "idle", UNCHANGED cur
    PROVE  pc' \in [Queues -> Steps] /\ StepsInv'
BY AfterSteps DEF TypeInv, TypeOK, StepsInv, StepsOf

\* The steps of a handler up to its result, and its reports.
Working(q) ==
    \/ SaveStatus(q) \/ Inform(q) \/ Send(q)
    \/ q = "Split" /\ (StartSplit \/ FinishSplit)
    \/ q = "Synthesize" /\ DoSynthesize
    \/ q = "Join" /\ (StartJoin \/ FinishJoin \/ CompleteStatus)
    \/ q = "Fail" /\ RestoreUsage

Reporting(q) == LastFailure(q) \/ SaveError(q) \/ InformFailed(q) \/ SendFail(q)

Ending(q) == Ack(q) \/ AbandonOnStop(q) \/ NackRequeue(q) \/ NackDrop(q)

LEMMA HandlerSteps ==
    ASSUME NEW q \in Queues, HandlerStep(q)
    PROVE  Working(q) \/ Reporting(q) \/ Ending(q)
BY DEF HandlerStep, Working, Reporting, Ending

\* A working handler has a message of a task, and goes on or fails.
LEMMA WorkingMoves ==
    ASSUME TypeInv, NEW q \in Queues, Working(q)
    PROVE  /\ pc[q] \in DOMAIN After[q] \ {"idle"}
           /\ cur[q] \in Msgs /\ cur[q].id \in Tasks
           /\ UNCHANGED <<cur, environment>>
           /\ \/ Succeeds(q)
              \/ \E c \in Causes \ {"none"} : FailsWith(q, c)
           /\ UNCHANGED trouble \/ \E kind \in FaultKinds : Occurs(kind)
<1>1. pc[q] \in {"save", "work", "writing", "joining", "complete", "inform", "send"}
  BY DEF Working, SaveStatus, StartSplit, FinishSplit, DoSynthesize, Inform, Send, StartJoin,
         FinishJoin, CompleteStatus, RestoreUsage
<1>2. pc[q] \in DOMAIN After[q] \ {"idle"}
  BY <1>1 DEF TypeInv, StepsInv, StepsOf, Failing
<1>3. cur[q] \in Msgs /\ cur[q].id \in Tasks
  BY <1>1, MsgFacts DEF TypeInv, TypeOK, StepsInv
<1>4. UNCHANGED <<cur, environment>>
  BY DEF Working, SaveStatus, StartSplit, FinishSplit, DoSynthesize, Inform, Send, StartJoin,
         FinishJoin, CompleteStatus, RestoreUsage
<1>5. /\ \/ Succeeds(q)
         \/ \E c \in Causes \ {"none"} : FailsWith(q, c)
      /\ UNCHANGED trouble \/ \E kind \in FaultKinds : Occurs(kind)
  BY DEF Working, SaveStatus, StartSplit, FinishSplit, DoSynthesize, Inform, Send, StartJoin,
         FinishJoin, CompleteStatus, RestoreUsage, Fails, Succeeds, Causes, FaultKinds
<1> QED  BY <1>2, <1>3, <1>4, <1>5

\* A handler that reports or ends has a message of a task.
LEMMA EndingMoves ==
    ASSUME TypeInv, NEW q \in Queues, Reporting(q) \/ Ending(q)
    PROVE  cur[q] \in Msgs /\ cur[q].id \in Tasks /\ UNCHANGED environment
<1>1. pc[q] # "idle" /\ UNCHANGED environment
  BY DEF Reporting, Ending, LastFailure, SaveError, InformFailed, SendFail,
         Ack, AbandonOnStop, NackRequeue, NackDrop
<1> QED  BY <1>1, MsgFacts DEF TypeInv, TypeOK, StepsInv

\* An update of one record of a table.
LEMMA Updated ==
    ASSUME NEW S, NEW T, NEW f \in [S -> T], NEW x \in S, NEW y \in T
    PROVE  [f EXCEPT ![x] = y] \in [S -> T]
OBVIOUS

LEMMA SavedType ==
    ASSUME TypeInv, NEW t \in Tasks, NEW st \in StatusNames
    PROVE  Saved(t, st) \in [Tasks -> [st : StatusNames, err : BOOLEAN]]
<1>1. status \in [Tasks -> [st : StatusNames, err : BOOLEAN]]
  BY DEF TypeInv, TypeOK
<1>2. [st |-> st, err |-> FALSE] \in [st : StatusNames, err : BOOLEAN]
  OBVIOUS
<1> QED  BY <1>1, <1>2, Updated DEF Saved

LEMMA SavedErrorType ==
    ASSUME TypeInv, NEW t \in Tasks
    PROVE  SavedError(t) \in [Tasks -> [st : StatusNames, err : BOOLEAN]]
<1>1. status \in [Tasks -> [st : StatusNames, err : BOOLEAN]]
  BY DEF TypeInv, TypeOK
<1>3. [status[t] EXCEPT !.err = TRUE] \in [st : StatusNames, err : BOOLEAN]
  BY <1>1
<1>4. SavedError(t) = [status EXCEPT ![t] = [status[t] EXCEPT !.err = TRUE]]
  BY DEF SavedError
<1> QED  BY <1>1, <1>3, <1>4, Updated

LEMMA InformedType ==
    ASSUME TypeInv, NEW t \in Tasks, NEW type \in {"Started", "Finished", "Failed"}
    PROVE  [informed EXCEPT ![t] = @ \cup {type}]
               \in [Tasks -> SUBSET {"Started", "Finished", "Failed"}]
<1>1. informed \in [Tasks -> SUBSET {"Started", "Finished", "Failed"}]
  BY DEF TypeInv, TypeOK
<1>2. informed[t] \cup {type} \in SUBSET {"Started", "Finished", "Failed"}
  BY <1>1
<1> QED  BY <1>1, <1>2, Updated

LEMMA MarkType ==
    ASSUME TypeInv, NEW t \in Tasks, NEW marks \in SUBSET Marks, Mark(t, marks)
    PROVE  history' \in [Tasks -> SUBSET Marks]
<1>1. history \in [Tasks -> SUBSET Marks]
  BY DEF TypeInv, TypeOK
<1>2. history[t] \cup marks \in SUBSET Marks
  BY <1>1
<1> QED  BY <1>1, <1>2, Updated DEF Mark

\* What a working handler does to the records of its task.
LEMMA WorkingEffects ==
    ASSUME TypeInv, NEW q \in Queues, Working(q)
    PROVE  LET t == cur[q].id IN
           /\ \/ UNCHANGED queue
              \/ Send(q) /\ queue' = Enqueued(NextQueue[q], NewMsg(t, cur[q].error))
           /\ UNCHANGED status \/ \E st \in StatusNames : status' = Saved(t, st)
           /\ \/ UNCHANGED made
              \/ q \in {"Split", "Synthesize"} /\ made' = [made EXCEPT ![t] = @ \cup {q}]
              \/ q = "Split" /\ StartSplit /\ made' = [made EXCEPT ![t] = @ \ {q}]
           /\ UNCHANGED result \/ \E r \in {"torn", "whole"} : result' = [result EXCEPT ![t] = r]
           /\ \/ UNCHANGED informed
              \/ \E type \in {"Started", "Finished"} :
                     informed' = [informed EXCEPT ![t] = @ \cup {type}]
           /\ \/ UNCHANGED restored
              \/ restored' = [restored EXCEPT ![t] = IF @ < 2 THEN @ + 1 ELSE @]
           /\ UNCHANGED history \/ Mark(t, {"completed"})
<1> USE DEF files, outputs
<1>1. CASE SaveStatus(q)
  <2>1. StageStatus[q] \in StatusNames
    <3>1. q \in Stages
      BY <1>1, StepQueues DEF SaveStatus, TypeInv, StepsInv
    <3>2. q = "Upload" \/ q = "Split" \/ q = "Synthesize" \/ q = "Join"
      BY <3>1 DEF Stages
    <3>3. /\ StageStatus["Upload"] = "UPLOADED" /\ StageStatus["Split"] = "Split"
          /\ StageStatus["Synthesize"] = "Synthesize" /\ StageStatus["Join"] = "Join"
      BY DEF StageStatus
    <3> QED  BY <3>2, <3>3 DEF StatusNames
  <2> QED  BY <1>1, <2>1 DEF SaveStatus
<1>2. CASE q = "Split" /\ StartSplit
  BY <1>2 DEF StartSplit
<1>9. CASE q = "Split" /\ FinishSplit
  BY <1>9 DEF FinishSplit
<1>10. CASE q = "Synthesize" /\ DoSynthesize
  BY <1>10 DEF DoSynthesize
<1>3. CASE Inform(q)
  BY <1>3 DEF Inform
<1>4. CASE Send(q)
  BY <1>4 DEF Send
<1>5. CASE q = "Join" /\ StartJoin
  BY <1>5 DEF StartJoin
<1>6. CASE q = "Join" /\ FinishJoin
  BY <1>6 DEF FinishJoin
<1>7. CASE q = "Join" /\ CompleteStatus
  BY <1>7 DEF CompleteStatus, StatusNames
<1>8. CASE q = "Fail" /\ RestoreUsage
  BY <1>8 DEF RestoreUsage
<1> QED
  BY <1>1, <1>2, <1>3, <1>4, <1>5, <1>6, <1>7, <1>8, <1>9, <1>10 DEF Working

LEMMA TypeWorking ==
    ASSUME TypeInv, NEW q \in Queues, Working(q)
    PROVE  TypeInv'
<1> DEFINE t == cur[q].id
<1>1. /\ cur[q] \in Msgs /\ t \in Tasks /\ UNCHANGED <<cur, environment>>
      /\ seen' \subseteq FaultKinds /\ faults' \in 0 .. MaxFaults
  BY WorkingMoves, TypeTrouble
<1>2. pc' \in [Queues -> Steps] /\ StepsInv' /\ cause' \in [Queues -> Causes]
  <2>1. CASE Succeeds(q)
    <3>1. After[q][pc[q]] \in StepsOf(q)
      BY WorkingMoves, AfterSteps
    <3> QED  BY <2>1, <3>1, WorkingMoves, TypeGoto DEF Succeeds, TypeInv, TypeOK
  <2>2. ASSUME NEW c \in Causes, FailsWith(q, c)
        PROVE  pc' \in [Queues -> Steps] /\ StepsInv' /\ cause' \in [Queues -> Causes]
    <3>1. "error" \in StepsOf(q)
      BY DEF StepsOf, Failing
    <3> QED  BY <2>2, <3>1, WorkingMoves, TypeGoto DEF FailsWith, TypeInv, TypeOK
  <2> QED  BY <2>1, <2>2, WorkingMoves
<1>3. queue' \in [Queues -> [Msgs -> Nat]]
  <2>1. ASSUME Send(q) PROVE NextQueue[q] \in Queues
    <3>1. q \in {"Upload", "Split", "Synthesize"}
      BY <2>1, StepQueues DEF Send, TypeInv, StepsInv
    <3> QED  BY <3>1 DEF NextQueue, Queues, Stages
  <2>2. NewMsg(t, cur[q].error) \in Msgs
    BY <1>1, MsgFacts
  <2> QED  BY <2>1, <2>2, WorkingEffects, EnqueuedQueue DEF TypeInv, TypeOK
<1>4. status' \in [Tasks -> [st : StatusNames, err : BOOLEAN]]
  <2>1. UNCHANGED status \/ \E st \in StatusNames : status' = Saved(t, st)
    BY WorkingEffects
  <2> QED  BY <1>1, <2>1, SavedType DEF TypeInv, TypeOK
<1>5. made' \in [Tasks -> SUBSET {"Split", "Synthesize"}]
  <2>2. made \in [Tasks -> SUBSET {"Split", "Synthesize"}]
    BY DEF TypeInv, TypeOK
  <2>3. \/ UNCHANGED made
        \/ q \in {"Split", "Synthesize"} /\ made' = [made EXCEPT ![t] = @ \cup {q}]
        \/ made' = [made EXCEPT ![t] = @ \ {q}]
    BY WorkingEffects
  <2>4. /\ q \in {"Split", "Synthesize"}
               => made[t] \cup {q} \in SUBSET {"Split", "Synthesize"}
        /\ made[t] \ {q} \in SUBSET {"Split", "Synthesize"}
    BY <1>1, <2>2
  <2> QED  BY <1>1, <2>2, <2>3, <2>4, Updated
<1>6. result' \in [Tasks -> {"none", "torn", "whole"}]
  BY <1>1, WorkingEffects DEF TypeInv, TypeOK
<1>7. informed' \in [Tasks -> SUBSET {"Started", "Finished", "Failed"}]
  <2>1. \/ UNCHANGED informed
        \/ \E type \in {"Started", "Finished"} :
               informed' = [informed EXCEPT ![t] = @ \cup {type}]
    BY WorkingEffects
  <2>2. ASSUME NEW type \in {"Started", "Finished"}
        PROVE  [informed EXCEPT ![t] = @ \cup {type}]
                   \in [Tasks -> SUBSET {"Started", "Finished", "Failed"}]
    BY <1>1, InformedType
  <2> QED  BY <2>1, <2>2 DEF TypeInv, TypeOK
<1>8. restored' \in [Tasks -> 0 .. 2]
  <2>1. \/ UNCHANGED restored
        \/ restored' = [restored EXCEPT ![t] = IF @ < 2 THEN @ + 1 ELSE @]
    BY WorkingEffects
  <2>2. restored \in [Tasks -> 0 .. 2]
    BY DEF TypeInv, TypeOK
  <2> QED  BY <1>1, <2>1, <2>2
<1>9. history' \in [Tasks -> SUBSET Marks]
  <2>1. UNCHANGED history \/ Mark(t, {"completed"})
    BY WorkingEffects
  <2>2. {"completed"} \in SUBSET Marks
    BY DEF Marks
  <2> QED  BY <1>1, <2>1, <2>2, MarkType DEF TypeInv, TypeOK
<1> QED
  BY <1>1, <1>2, <1>3, <1>4, <1>5, <1>6, <1>7, <1>8, <1>9
  DEF TypeInv, TypeOK, environment

\* What is known of a task after a report.
ReportMarks == {{"blamed"}, {"refundDue"}, {"refundDue", "refundUnsent"}}

\* What the reports of a last failure do.
LEMMA ReportingEffects ==
    ASSUME TypeInv, NEW q \in Queues, Reporting(q)
    PROVE  LET t == cur[q].id IN
           /\ UNCHANGED <<cur, cause, made, result, restored>>
           /\ pc[q] \in Failing \ {"drop"}
           /\ \E s \in Failing \ {"error"} : pc' = [pc EXCEPT ![q] = s]
           /\ UNCHANGED trouble \/ \E kind \in FaultKinds : Occurs(kind)
           /\ \/ UNCHANGED queue
              \/ SendFail(q) /\ queue' = Enqueued("Fail", NewMsg(t, TRUE))
           /\ UNCHANGED status \/ status' = SavedError(t)
           /\ UNCHANGED informed \/ informed' = [informed EXCEPT ![t] = @ \cup {"Failed"}]
           /\ UNCHANGED history \/ \E marks \in ReportMarks : Mark(t, marks)
<1> USE DEF files, outputs, FaultKinds, Failing, ReportMarks
<1>1. CASE LastFailure(q)
  <2>1. UNCHANGED history \/ Mark(cur[q].id, {"blamed"})
    <3>1. cur[q] \in Msgs /\ cur[q].id \in Tasks
      BY EndingMoves
    <3>2. Mark(cur[q].id, {}) => UNCHANGED history
      BY <3>1 DEF Mark, TypeInv, TypeOK
    <3> QED  BY <1>1, <3>2 DEF LastFailure
  <2> QED  BY <1>1, <2>1 DEF LastFailure
<1>2. CASE SaveError(q)
  BY <1>2 DEF SaveError
<1>3. CASE InformFailed(q)
  BY <1>3 DEF InformFailed
<1>4. CASE SendFail(q)
  BY <1>4 DEF SendFail
<1> QED  BY <1>1, <1>2, <1>3, <1>4 DEF Reporting

LEMMA TypeReporting ==
    ASSUME TypeInv, NEW q \in Queues, Reporting(q)
    PROVE  TypeInv'
<1> DEFINE t == cur[q].id
<1>1. cur[q] \in Msgs /\ t \in Tasks /\ UNCHANGED environment
  BY EndingMoves
<1>2. seen' \subseteq FaultKinds /\ faults' \in 0 .. MaxFaults
  BY ReportingEffects, TypeTrouble
<1>3. pc' \in [Queues -> Steps] /\ StepsInv'
  <2>1. Failing \subseteq StepsOf(q) /\ pc[q] # "idle"
    BY ReportingEffects DEF StepsOf, Failing
  <2> QED  BY <2>1, ReportingEffects, TypeGoto
<1>4. queue' \in [Queues -> [Msgs -> Nat]]
  <2>1. NewMsg(t, TRUE) \in Msgs /\ "Fail" \in Queues
    BY <1>1, MsgFacts DEF Queues
  <2>2. UNCHANGED queue \/ \E r \in Queues : \E m \in Msgs : queue' = Enqueued(r, m)
    BY <2>1, ReportingEffects
  <2> QED  BY <2>1, <2>2, EnqueuedQueue DEF TypeInv, TypeOK
<1>5. status' \in [Tasks -> [st : StatusNames, err : BOOLEAN]]
  <2>1. UNCHANGED status \/ status' = SavedError(t)
    BY ReportingEffects
  <2> QED  BY <1>1, <2>1, SavedErrorType DEF TypeInv, TypeOK
<1>6. informed' \in [Tasks -> SUBSET {"Started", "Finished", "Failed"}]
  <2>1. UNCHANGED informed \/ informed' = [informed EXCEPT ![t] = @ \cup {"Failed"}]
    BY ReportingEffects
  <2> QED  BY <1>1, <2>1, InformedType DEF TypeInv, TypeOK
<1>7. history' \in [Tasks -> SUBSET Marks]
  <2>1. UNCHANGED history \/ \E marks \in ReportMarks : Mark(t, marks)
    BY ReportingEffects
  <2>2. ReportMarks \subseteq SUBSET Marks
    BY DEF ReportMarks, Marks
  <2> QED  BY <1>1, <2>1, <2>2, MarkType DEF TypeInv, TypeOK
<1> QED
  BY <1>1, <1>2, <1>3, <1>4, <1>5, <1>6, <1>7, ReportingEffects
  DEF TypeInv, TypeOK, environment

LEMMA TypeEnding ==
    ASSUME TypeInv, NEW q \in Queues, Ending(q)
    PROVE  TypeInv'
<1>1. cur[q] \in Msgs /\ cur[q].id \in Tasks /\ UNCHANGED environment
  BY EndingMoves
<1>2. UNCHANGED <<status, files, outputs, trouble>> /\ HandlerReturns(q)
  BY DEF Ending, Ack, AbandonOnStop, NackRequeue, NackDrop, EndsDelivery
<1>3. cur' = cur \/ cur' = [cur EXCEPT ![q] = None]
  BY DEF Ending, Ack, AbandonOnStop, NackRequeue, NackDrop, EndsDelivery
<1>4. /\ pc' \in [Queues -> Steps] /\ StepsInv' /\ cause' \in [Queues -> Causes]
      /\ cur' \in [Queues -> Msgs \cup {None}]
  <2>1. /\ pc \in [Queues -> Steps] /\ StepsInv /\ cause \in [Queues -> Causes]
        /\ cur \in [Queues -> Msgs \cup {None}]
    BY DEF TypeInv, TypeOK
  <2>2. /\ pc' = [pc EXCEPT ![q] = "idle"]
        /\ cause' = [cause EXCEPT ![q] = "none"]
    BY <1>2 DEF HandlerReturns
  <2>3. "idle" \in StepsOf(q) /\ "idle" \in Steps /\ "none" \in Causes
    BY AfterSteps DEF StepsOf, Steps, Causes
  <2>4. pc' \in [Queues -> Steps] /\ cause' \in [Queues -> Causes]
    BY <2>1, <2>2, <2>3, Updated
  <2>5. cur' \in [Queues -> Msgs \cup {None}]
    BY <1>3, <2>1
  <2>6. StepsInv'
    <3> SUFFICES ASSUME NEW r \in Queues
                 PROVE  pc'[r] \in StepsOf(r) /\ (pc'[r] # "idle" => cur'[r] # None)
      BY DEF StepsInv, StepsOf
    <3>1. CASE r = q
      BY <2>1, <2>2, <2>3, <3>1
    <3>2. CASE r # q
      BY <1>3, <2>1, <2>2, <3>2 DEF StepsInv
    <3> QED  BY <3>1, <3>2
  <2> QED  BY <2>4, <2>5, <2>6
<1>5. queue' \in [Queues -> [Msgs -> Nat]]
  <2>1. queue' = queue \/ queue' = Enqueued(q, Nacked(cur[q]))
    BY DEF Ending, Ack, AbandonOnStop, NackRequeue, NackDrop
  <2>2. Nacked(cur[q]) \in Msgs
    BY <1>1, MsgFacts
  <2> QED  BY <2>1, <2>2, EnqueuedQueue DEF TypeInv, TypeOK
<1>6. history' \in [Tasks -> SUBSET Marks]
  BY <1>1
  DEF Ending, Ack, AbandonOnStop, NackRequeue, NackDrop, Mark, Marks, TypeInv, TypeOK
<1> QED
  BY <1>1, <1>2, <1>4, <1>5, <1>6 DEF TypeInv, TypeOK, environment, files, outputs, trouble

\* A delivery takes one message out of its queue.
LEMMA DeliverMoves ==
    ASSUME TypeInv, NEW q \in Queues, Deliver(q)
    PROVE  \E m \in Msgs :
               /\ queue[q][m] > 0 /\ cur[q] = None /\ linked
               /\ cur' = [cur EXCEPT ![q] = m]
               /\ queue' \in [Queues -> [Msgs -> Nat]]
               /\ \A r \in Queues : \A k \in Msgs :
                      /\ queue'[r][k] > 0 => queue[r][k] > 0
                      /\ queue[r][k] > 0 => queue'[r][k] > 0 \/ (r = q /\ k = m)
<1>1. PICK m \in Msgs :
        /\ queue[q][m] > 0
        /\ queue' = [queue EXCEPT ![q] = Take(@, m)]
        /\ cur' = [cur EXCEPT ![q] = m]
  BY DEF Deliver
<1>2. queue[q] \in [Msgs -> Nat]
  BY DEF TypeInv, TypeOK
<1> DEFINE bag == [queue[q] EXCEPT ![m] = @ - 1]
<1>3. /\ bag \in [Msgs -> Nat]
      /\ \A k \in Msgs : (bag[k] > 0 => queue[q][k] > 0)
                        /\ (queue[q][k] > 0 => bag[k] > 0 \/ k = m)
  BY <1>1, <1>2
<1>4. queue' = [queue EXCEPT ![q] = bag]
  BY <1>1 DEF Take
<1> HIDE DEF bag
<1>5. queue' \in [Queues -> [Msgs -> Nat]]
  BY <1>3, <1>4 DEF TypeInv, TypeOK
<1>6. \A r \in Queues : queue'[r] = IF r = q THEN bag ELSE queue[r]
  BY <1>4 DEF TypeInv, TypeOK
<1> QED  BY <1>1, <1>3, <1>5, <1>6 DEF Deliver

LEMMA TypeDeliver ==
    ASSUME TypeInv, NEW q \in Queues, Deliver(q)
    PROVE  TypeInv'
<1>1. PICK m \in Msgs : cur' = [cur EXCEPT ![q] = m] /\ queue' \in [Queues -> [Msgs -> Nat]]
  BY DeliverMoves
<1>2. After[q]["idle"] \in StepsOf(q)
  BY AfterSteps
<1>3. pc' = [pc EXCEPT ![q] = After[q]["idle"]]
  BY DEF Deliver
<1>4. pc' \in [Queues -> Steps] /\ StepsInv'
  BY <1>1, <1>2, <1>3, AfterSteps, NoneAssumption DEF TypeInv, TypeOK, StepsInv
<1> QED
  BY <1>1, <1>4
  DEF Deliver, TypeInv, TypeOK, environment, files, outputs, trouble

LEMMA TypeUpload ==
    ASSUME TypeInv, NEW t \in Tasks, SaveRequest(t) \/ SendUpload(t)
    PROVE  TypeInv'
<1>1. seen' \subseteq FaultKinds /\ faults' \in 0 .. MaxFaults
  BY TypeTrouble DEF SaveRequest, SendUpload, FaultKinds
<1>2. status' \in [Tasks -> [st : StatusNames, err : BOOLEAN]]
  <2>1. status' = status \/ \E st \in StatusNames : status' = Saved(t, st)
    BY DEF SaveRequest, SendUpload, StatusNames
  <2> QED  BY <2>1, SavedType DEF TypeInv, TypeOK
<1>3. queue' \in [Queues -> [Msgs -> Nat]]
  <2>1. queue' = queue \/ queue' = Enqueued("Upload", NewMsg(t, FALSE))
    BY DEF SaveRequest, SendUpload
  <2>2. NewMsg(t, FALSE) \in Msgs /\ "Upload" \in Queues
    BY MsgFacts DEF Queues, Stages
  <2>3. queue' = queue \/ \E r \in Queues : \E m \in Msgs : queue' = Enqueued(r, m)
    BY <2>1, <2>2
  <2> QED  BY <2>3, EnqueuedQueue DEF TypeInv, TypeOK
<1>4. upload' \in [Tasks -> {"none", "saved", "accepted", "refused"}]
  BY DEF SaveRequest, SendUpload, TypeInv, TypeOK
<1> QED
  BY <1>1, <1>2, <1>3, <1>4
  DEF SaveRequest, SendUpload, TypeInv, TypeOK, StepsInv, handlers, files, outputs

LEMMA TypeDisruption ==
    ASSUME TypeInv, Stop \/ LoseConnection \/ Crash \/ Exit \/ Start
    PROVE  TypeInv'
<1> USE DEF TypeInv, TypeOK
<1>1. disruptions' \in 0 .. MaxDisruptions
  BY BoundsAssumption DEF Stop, LoseConnection, Crash, Exit, Start, Disrupts
<1>2. CASE Stop
  BY <1>1, <1>2 DEF Stop, StepsInv, handlers, store, files, outputs, trouble
<1>3. CASE LoseConnection
  BY <1>1, <1>3, ReturnedQueue
  DEF LoseConnection, StepsInv, handlers, store, files, outputs, trouble
<1>4. CASE Crash \/ Exit
  <2>1. /\ pc' \in [Queues -> Steps] /\ StepsInv' /\ cause' \in [Queues -> Causes]
        /\ cur' \in [Queues -> Msgs \cup {None}]
    BY <1>4, AfterSteps DEF Crash, Exit, ProcessEnds, StepsInv, StepsOf, Steps, Causes
  <2> QED
    BY <1>1, <1>4, <2>1, ReturnedQueue
    DEF Crash, Exit, ProcessEnds, store, files, outputs, trouble
<1>5. CASE Start
  BY <1>1, <1>5 DEF Start, StepsInv, handlers, store, files, outputs, trouble
<1> QED  BY <1>2, <1>3, <1>4, <1>5

LEMMA TypeStep == TypeInv /\ [Next]_vars => TypeInv'
<1> SUFFICES ASSUME TypeInv, [Next]_vars PROVE TypeInv'
  OBVIOUS
<1>1. CASE UNCHANGED vars
  BY <1>1 DEF vars, handlers, files, outputs, trouble, TypeInv, TypeOK, StepsInv
<1> QED
  BY <1>1, HandlerSteps, TypeWorking, TypeReporting, TypeEnding, TypeDeliver,
     TypeUpload, TypeDisruption
  DEF Next, Rest

LEMMA TypeInvariant == Spec => []TypeInv
BY TypeInit, TypeStep, PTL DEF Spec

\* Every reachable state has its declared shape.
THEOREM TypeCorrect == Spec => []TypeOK
BY TypeInvariant, PTL DEF TypeInv

-----------------------------------------------------------------------------
(* The steps, and what they leave alone. *)

\* What the end of a handler does.
LEMMA EndingEffects ==
    ASSUME TypeInv, NEW q \in Queues, Ending(q)
    PROVE  LET t == cur[q].id IN
           /\ pc' = [pc EXCEPT ![q] = "idle"] /\ cause' = [cause EXCEPT ![q] = "none"]
           /\ \/ UNCHANGED cur /\ AbandonOnStop(q)
              \/ cur' = [cur EXCEPT ![q] = None] /\ ~AbandonOnStop(q)
           /\ UNCHANGED <<status, made, result, informed, restored, trouble>>
           /\ \/ UNCHANGED queue
              \/ linked /\ NackRequeue(q) /\ queue' = Enqueued(q, Nacked(cur[q]))
           /\ \/ UNCHANGED history
              \/ linked /\ NackDrop(q) /\ \E mark \in {"gaveUp", "refundDropped"} : Mark(t, {mark})
<1> USE DEF files, outputs, HandlerReturns, EndsDelivery
<1>1. CASE Ack(q)
  BY <1>1 DEF Ack, AbandonOnStop
<1>2. CASE AbandonOnStop(q)
  BY <1>2 DEF AbandonOnStop
<1>3. CASE NackRequeue(q)
  BY <1>3 DEF NackRequeue, AbandonOnStop
<1>4. CASE NackDrop(q)
  <2>1. cur[q] \in Msgs /\ cur[q].id \in Tasks
    BY EndingMoves
  <2>2. Mark(cur[q].id, {}) => UNCHANGED history
    BY <2>1 DEF Mark, TypeInv, TypeOK
  <2>3. UNCHANGED history \/ (linked /\ \E mark \in {"gaveUp", "refundDropped"} : Mark(cur[q].id, {mark}))
    BY <1>4, <2>2 DEF NackDrop
  <2> QED  BY <1>4, <2>3 DEF NackDrop, AbandonOnStop
<1> QED  BY <1>1, <1>2, <1>3, <1>4 DEF Ending

\* The records of the tasks other than queue, status and upload.
records == <<made, result, informed, restored, history>>

LEMMA NextSteps ==
    ASSUME TypeInv, [Next]_vars
    PROVE  \/ \E q \in Queues : Working(q) \/ Reporting(q) \/ Ending(q) \/ Deliver(q)
           \/ \E t \in Tasks : SaveRequest(t) \/ SendUpload(t)
           \/ Stop \/ Start \/ LoseConnection \/ ProcessEnds \/ UNCHANGED vars
BY HandlerSteps DEF Next, Rest, Crash, Exit

\* The steps that leave the handlers' consumers alone.
LEMMA UploadEffects ==
    ASSUME TypeInv, NEW t \in Tasks, SaveRequest(t) \/ SendUpload(t)
    PROVE  /\ UNCHANGED <<pc, cur, cause, linked, stopping, records>>
           /\ UNCHANGED queue \/ (SendUpload(t) /\ queue' = Enqueued("Upload", NewMsg(t, FALSE)))
           /\ UNCHANGED status \/ (SaveRequest(t) /\ status' = Saved(t, "UPLOADED"))
BY DEF SaveRequest, SendUpload, handlers, files, outputs, records

LEMMA DisruptionEffects ==
    ASSUME Stop \/ Start \/ LoseConnection \/ ProcessEnds
    PROVE  UNCHANGED <<status, upload, records>>
BY DEF Stop, Start, LoseConnection, ProcessEnds, store, files, outputs, records

LEMMA DeliverEffects ==
    ASSUME NEW q \in Queues, Deliver(q)
    PROVE  UNCHANGED <<status, environment, cause, records>>
BY DEF Deliver, files, outputs, records

LEMMA Stutter ==
    ASSUME UNCHANGED vars
    PROVE  UNCHANGED <<queue, pc, cur, cause, status, environment, records>>
BY DEF vars, handlers, files, outputs, records, environment

\* A consumer does not move another one.
LEMMA OthersStay ==
    ASSUME TypeInv, NEW q \in Queues, NEW r \in Queues, r # q,
           Working(r) \/ Reporting(r) \/ Ending(r) \/ Deliver(r)
    PROVE  pc'[q] = pc[q] /\ cur'[q] = cur[q] /\ cause'[q] = cause[q]
<1>1. CASE Working(r)
  BY <1>1, WorkingMoves DEF Succeeds, FailsWith, TypeInv, TypeOK
<1>2. CASE Reporting(r)
  <2>1. UNCHANGED <<cur, cause>> /\ \E s \in Failing : pc' = [pc EXCEPT ![r] = s]
    BY <1>2, ReportingEffects
  <2> QED  BY <2>1 DEF TypeInv, TypeOK
<1>3. CASE Ending(r)
  BY <1>3, EndingEffects DEF TypeInv, TypeOK
<1>4. CASE Deliver(r)
  BY <1>4 DEF Deliver, TypeInv, TypeOK
<1> QED  BY <1>1, <1>2, <1>3, <1>4

\* A consumer is moved by its own steps and by the end of the process.
LEMMA HandlerMoves ==
    ASSUME TypeInv, [Next]_vars, NEW q \in Queues
    PROVE  \/ pc'[q] = pc[q] /\ cur'[q] = cur[q] /\ cause'[q] = cause[q]
           \/ Working(q) \/ Reporting(q) \/ Ending(q) \/ Deliver(q) \/ ProcessEnds
<1>1. ASSUME Stop \/ Start \/ LoseConnection PROVE UNCHANGED <<pc, cur, cause>>
  BY <1>1 DEF Stop, Start, LoseConnection, handlers
<1> QED
  BY <1>1, OthersStay, NextSteps, UploadEffects, Stutter

-----------------------------------------------------------------------------
(* Where the messages of a task are. *)

InQueue(q, t) == \E m \in Msgs : m.id = t /\ queue[q][m] > 0
AtConsumer(q, t) == cur[q] # None /\ cur[q].id = t

LEMMA EnqueuedTask ==
    ASSUME TypeInv, NEW q \in Queues, NEW m \in Msgs, queue' = Enqueued(q, m)
    PROVE  \A r \in Queues, t \in Tasks :
               InQueue(r, t)' <=> InQueue(r, t) \/ (r = q /\ t = m.id)
BY EnqueuedQueue DEF InQueue, TypeInv, TypeOK

LEMMA ReturnedTask ==
    ASSUME TypeInv, queue' = Returned
    PROVE  \A r \in Queues, t \in Tasks :
               InQueue(r, t)' <=> InQueue(r, t) \/ (linked /\ AtConsumer(r, t))
<1> SUFFICES ASSUME NEW r \in Queues, NEW t \in Tasks
             PROVE  InQueue(r, t)' <=> InQueue(r, t) \/ (linked /\ AtConsumer(r, t))
  OBVIOUS
<1>1. cur[r] # None => cur[r] \in Msgs
  BY DEF TypeInv, TypeOK
<1>2. cur[r] # None => Lost(cur[r]) \in Msgs /\ Lost(cur[r]).id = cur[r].id
  BY <1>1, MsgFacts
<1>3. /\ linked /\ cur[r] # None => Returned[r][Lost(cur[r])] > 0
      /\ \A k \in Msgs :
             /\ queue[r][k] > 0 => Returned[r][k] > 0
             /\ Returned[r][k] > 0 =>
                    queue[r][k] > 0 \/ (linked /\ cur[r] # None /\ k = Lost(cur[r]))
  BY ReturnedQueue DEF TypeInv
<1> QED  BY <1>2, <1>3 DEF InQueue, AtConsumer

LEMMA DeliveredTask ==
    ASSUME TypeInv, NEW q \in Queues, Deliver(q)
    PROVE  /\ linked /\ linked' /\ cur[q] = None /\ cur'[q] # None /\ pc'[q] = After[q].idle
           /\ cur'[q] \in Msgs /\ InQueue(q, cur'[q].id)
           /\ \A r \in Queues, t \in Tasks :
                  /\ InQueue(r, t)' => InQueue(r, t)
                  /\ InQueue(r, t) => InQueue(r, t)' \/ (r = q /\ t = cur'[q].id)
           /\ \A r \in Queues \ {q} : cur'[r] = cur[r]
<1>1. PICK m \in Msgs :
        /\ queue[q][m] > 0 /\ cur[q] = None /\ linked
        /\ cur' = [cur EXCEPT ![q] = m]
        /\ \A r \in Queues : \A k \in Msgs :
               /\ queue'[r][k] > 0 => queue[r][k] > 0
               /\ queue[r][k] > 0 => queue'[r][k] > 0 \/ (r = q /\ k = m)
  BY DeliverMoves
<1>2. cur'[q] = m /\ m # None /\ \A r \in Queues \ {q} : cur'[r] = cur[r]
  BY <1>1, NoneAssumption DEF TypeInv, TypeOK
<1>3. pc'[q] = After[q].idle /\ UNCHANGED linked
  BY DEF Deliver, TypeInv, TypeOK, environment
<1> QED  BY <1>1, <1>2, <1>3 DEF InQueue

\* A message of t at queue q, delivered or not, whatever the broker knows.
Near(q, t) == InQueue(q, t) \/ AtConsumer(q, t)

\* The steps that send a message of t to queue q.
SentTo(q, t) ==
    \/ q = "Upload" /\ SendUpload(t) /\ upload'[t] = "accepted"
    \/ \E r \in {"Upload", "Split", "Synthesize"} :
          /\ NextQueue[r] = q /\ Send(r) /\ cur[r].id = t /\ pc[r] = "send"
          /\ queue' = Enqueued(q, NewMsg(t, cur[r].error))
    \/ /\ q = "Fail"
       /\ \E r \in Queues : SendFail(r) /\ cur[r].id = t /\ NeedToRestore(r, cur[r], cause[r])

\* Only these bring a message of a task to a queue where it has none.
LEMMA NearSource ==
    ASSUME TypeInv, [Next]_vars, NEW q \in Queues, NEW t \in Tasks, Near(q, t)', ~Near(q, t)
    PROVE  SentTo(q, t)
<1> USE DEF Near
<1>1. ASSUME NEW r \in Queues, Working(r) PROVE SentTo(q, t)
  <2>1. UNCHANGED cur /\ cur[r] \in Msgs /\ cur[r].id \in Tasks /\ cur[r].error \in BOOLEAN
    BY <1>1, WorkingMoves, MsgFacts
  <2>2. ~AtConsumer(q, t)'
    BY <2>1 DEF AtConsumer
  <2>3. Send(r) /\ queue' = Enqueued(NextQueue[r], NewMsg(cur[r].id, cur[r].error))
    BY <1>1, <2>2, WorkingEffects DEF InQueue
  <2>4. r \in {"Upload", "Split", "Synthesize"} /\ pc[r] = "send"
    BY <2>3, StepQueues DEF Send, TypeInv, StepsInv
  <2>5. NextQueue[r] \in Queues
    BY <2>4 DEF NextQueue, Queues, Stages
  <2>6. NewMsg(cur[r].id, cur[r].error) \in Msgs /\ NewMsg(cur[r].id, cur[r].error).id = cur[r].id
    BY <2>1, MsgFacts
  <2>7. q = NextQueue[r] /\ t = cur[r].id
    BY <2>2, <2>3, <2>5, <2>6, EnqueuedTask
  <2> QED  BY <2>3, <2>4, <2>7 DEF SentTo
<1>2. ASSUME NEW r \in Queues, Reporting(r) PROVE SentTo(q, t)
  <2>1. UNCHANGED cur /\ cur[r].id \in Tasks
    BY <1>2, ReportingEffects, EndingMoves
  <2>2. ~AtConsumer(q, t)'
    BY <2>1 DEF AtConsumer
  <2>3. SendFail(r) /\ queue' = Enqueued("Fail", NewMsg(cur[r].id, TRUE))
    BY <1>2, <2>2, ReportingEffects DEF InQueue
  <2>4. NewMsg(cur[r].id, TRUE) \in Msgs /\ NewMsg(cur[r].id, TRUE).id = cur[r].id
    BY <2>1, MsgFacts
  <2>5. "Fail" \in Queues
    BY DEF Queues
  <2>6. q = "Fail" /\ t = cur[r].id
    BY <2>2, <2>3, <2>4, <2>5, EnqueuedTask
  <2>7. queue' # queue
    BY <2>2 DEF InQueue
  <2> QED  BY <2>3, <2>6, <2>7 DEF SentTo, SendFail
<1>3. ASSUME NEW r \in Queues, Ending(r) PROVE FALSE
  <2>1. cur[r] \in Msgs /\ cur[r].id \in Tasks /\ (cur' = cur \/ cur' = [cur EXCEPT ![r] = None])
    BY <1>3, EndingEffects, EndingMoves
  <2>2. ~AtConsumer(q, t)'
    BY <2>1 DEF AtConsumer, TypeInv, TypeOK
  <2>3. queue' = Enqueued(r, Nacked(cur[r]))
    BY <1>3, <2>2, EndingEffects DEF InQueue
  <2>4. Nacked(cur[r]) \in Msgs /\ Nacked(cur[r]).id = cur[r].id
    BY <2>1, MsgFacts
  <2>5. q = r /\ t = cur[r].id
    BY <2>2, <2>3, <2>4, EnqueuedTask
  <2> QED  BY <2>1, <2>5, NoneAssumption DEF AtConsumer
<1>4. ASSUME NEW r \in Queues, Deliver(r) PROVE FALSE
  <2>1. ~InQueue(q, t)' /\ AtConsumer(q, t)'
    BY <1>4, DeliveredTask
  <2>2. q = r
    BY <1>4, <2>1, DeliveredTask DEF AtConsumer
  <2> QED  BY <1>4, <2>1, <2>2, DeliveredTask DEF AtConsumer
<1>5. ASSUME NEW u \in Tasks, SaveRequest(u) \/ SendUpload(u) PROVE SentTo(q, t)
  <2>1. ~AtConsumer(q, t)'
    BY <1>5, UploadEffects DEF AtConsumer
  <2>2. SendUpload(u) /\ queue' = Enqueued("Upload", NewMsg(u, FALSE))
    BY <1>5, <2>1, UploadEffects DEF InQueue
  <2>3. q = "Upload" /\ t = u
    <3>1. NewMsg(u, FALSE) \in Msgs /\ NewMsg(u, FALSE).id = u /\ "Upload" \in Queues
      BY MsgFacts DEF Queues, Stages
    <3> QED  BY <2>1, <2>2, <3>1, EnqueuedTask
  <2>4. queue' # queue
    BY <2>1 DEF InQueue
  <2>5. upload'[u] = "accepted"
    BY <2>2, <2>4 DEF SendUpload, TypeInv, TypeOK
  <2> QED  BY <2>2, <2>3, <2>5 DEF SentTo
<1>6. ASSUME LoseConnection \/ ProcessEnds PROVE FALSE
  <2>1. queue' = Returned /\ (AtConsumer(q, t)' => AtConsumer(q, t))
    BY <1>6 DEF LoseConnection, ProcessEnds, handlers, AtConsumer
  <2> QED  BY <2>1, ReturnedTask
<1>7. ASSUME Stop \/ Start \/ UNCHANGED vars PROVE FALSE
  BY <1>7, Stutter DEF Stop, Start, handlers, InQueue, AtConsumer
<1> QED
  BY <1>1, <1>2, <1>3, <1>4, <1>5, <1>6, <1>7, NextSteps

-----------------------------------------------------------------------------
(* No accepted task and no refund is lost. *)

\* A queue gives up a message only to its consumer.
LEMMA QueueKept ==
    ASSUME TypeInv, [Next]_vars, NEW q \in Queues, NEW t \in Tasks, InQueue(q, t)
    PROVE  InQueue(q, t)' \/ (Deliver(q) /\ AtConsumer(q, t)')
<1>1. ASSUME NEW r \in Queues, Working(r) PROVE InQueue(q, t)'
  <2>1. cur[r] \in Msgs /\ NewMsg(cur[r].id, cur[r].error) \in Msgs
    BY <1>1, WorkingMoves, MsgFacts
  <2>2. Send(r) => NextQueue[r] \in Queues
    <3>1. Send(r) => r \in {"Upload", "Split", "Synthesize"}
      BY StepQueues DEF Send, TypeInv, StepsInv
    <3> QED  BY <3>1 DEF NextQueue, Queues, Stages
  <2>3. UNCHANGED queue \/ \E s \in Queues : \E m \in Msgs : queue' = Enqueued(s, m)
    BY <1>1, <2>1, <2>2, WorkingEffects
  <2> QED  BY <2>3, EnqueuedTask DEF InQueue
<1>2. ASSUME NEW r \in Queues, Reporting(r) PROVE InQueue(q, t)'
  <2>1. NewMsg(cur[r].id, TRUE) \in Msgs /\ "Fail" \in Queues
    BY <1>2, EndingMoves, MsgFacts DEF Queues
  <2>2. UNCHANGED queue \/ \E s \in Queues : \E m \in Msgs : queue' = Enqueued(s, m)
    BY <1>2, <2>1, ReportingEffects
  <2> QED  BY <2>2, EnqueuedTask DEF InQueue
<1>3. ASSUME NEW r \in Queues, Ending(r) PROVE InQueue(q, t)'
  <2>1. Nacked(cur[r]) \in Msgs
    BY <1>3, EndingMoves, MsgFacts
  <2>2. UNCHANGED queue \/ \E s \in Queues : \E m \in Msgs : queue' = Enqueued(s, m)
    BY <1>3, <2>1, EndingEffects
  <2> QED  BY <2>2, EnqueuedTask DEF InQueue
<1>4. ASSUME NEW r \in Queues, Deliver(r)
      PROVE  InQueue(q, t)' \/ (Deliver(q) /\ AtConsumer(q, t)')
  BY <1>4, DeliveredTask DEF AtConsumer
<1>5. ASSUME NEW u \in Tasks, SaveRequest(u) \/ SendUpload(u) PROVE InQueue(q, t)'
  <2>1. NewMsg(u, FALSE) \in Msgs /\ "Upload" \in Queues
    BY MsgFacts DEF Queues, Stages
  <2>2. UNCHANGED queue \/ \E s \in Queues : \E m \in Msgs : queue' = Enqueued(s, m)
    BY <1>5, <2>1, UploadEffects
  <2> QED  BY <2>2, EnqueuedTask DEF InQueue
<1>6. LoseConnection \/ ProcessEnds => InQueue(q, t)'
  BY ReturnedTask DEF LoseConnection, ProcessEnds
<1>7. Stop \/ Start \/ UNCHANGED vars => InQueue(q, t)'
  BY Stutter DEF Stop, Start, InQueue
<1> QED  BY <1>1, <1>2, <1>3, <1>4, <1>5, <1>6, <1>7, NextSteps

\* A message of t at queue q that the broker will keep or deliver again.
Copy(q, t) == InQueue(q, t) \/ (linked /\ AtConsumer(q, t) /\ pc[q] # "ack")

\* It goes only when a handler of it succeeds or drops it.
LEMMA CopyMoves ==
    ASSUME TypeInv, [Next]_vars, NEW q \in Queues, NEW t \in Tasks,
           Copy(q, t), ~Copy(q, t)'
    PROVE  /\ AtConsumer(q, t) /\ linked
           /\ \/ Working(q) /\ pc'[q] = "ack"
              \/ NackDrop(q)
<1>1. ~Deliver(q)
  <2>1. ASSUME Deliver(q) PROVE FALSE
    <3>1. After[q]["idle"] # "ack"
      BY AfterStep DEF Queues
    <3>2. linked' /\ pc'[q] # "ack" /\ cur[q] = None
      BY <2>1, <3>1, DeliveredTask
    <3> QED  BY <3>2, QueueKept DEF Copy, AtConsumer
  <2> QED  BY <2>1
<1>2. linked /\ AtConsumer(q, t) /\ pc[q] # "ack" /\ ~InQueue(q, t)'
  BY <1>1, QueueKept DEF Copy
<1>3. ~ProcessEnds /\ ~LoseConnection
  BY <1>2, ReturnedTask DEF ProcessEnds, LoseConnection
<1>4. linked'
  <2>1. \A r \in Queues : Working(r) \/ Reporting(r) \/ Ending(r) \/ Deliver(r) => linked'
    BY <1>2, WorkingMoves, EndingMoves, DeliveredTask DEF environment
  <2> QED
    BY <1>2, <1>3, <2>1, NextSteps, UploadEffects, Stutter DEF Stop, Start, environment
<1>5. Working(q) \/ Reporting(q) \/ Ending(q)
  BY <1>1, <1>2, <1>3, <1>4, HandlerMoves DEF Copy, AtConsumer
<1>6. CASE Working(q)
  BY <1>2, <1>4, <1>6, WorkingMoves DEF Copy, AtConsumer
<1>7. CASE Reporting(q)
  <2>1. UNCHANGED cur /\ pc'[q] # "ack"
    BY <1>7, ReportingEffects DEF Failing, TypeInv, TypeOK
  <2> QED  BY <1>2, <1>4, <2>1 DEF Copy, AtConsumer
<1>8. CASE Ending(q)
  <2>1. ~AbandonOnStop(q)
    <3>1. AbandonOnStop(q) => UNCHANGED cur /\ pc'[q] = "idle"
      BY DEF AbandonOnStop, HandlerReturns, TypeInv, TypeOK
    <3> QED  BY <1>2, <1>4, <3>1 DEF Copy, AtConsumer
  <2>2. ~NackRequeue(q)
    <3>1. Nacked(cur[q]) \in Msgs /\ Nacked(cur[q]).id = t
      BY <1>2, <1>8, EndingMoves, MsgFacts DEF AtConsumer
    <3>2. NackRequeue(q) => queue' = Enqueued(q, Nacked(cur[q]))
      BY <1>2 DEF NackRequeue
    <3> QED  BY <1>2, <3>1, <3>2, EnqueuedTask
  <2>3. ~Ack(q)
    BY <1>2 DEF Ack
  <2> QED  BY <1>2, <1>8, <2>1, <2>2, <2>3 DEF Ending
<1> QED  BY <1>2, <1>5, <1>6, <1>7, <1>8

\* What happened to a task is not forgotten.
LEMMA HistoryKept ==
    ASSUME TypeInv, [Next]_vars, NEW t \in Tasks
    PROVE  history[t] \subseteq history'[t]
<1>1. ASSUME NEW u \in Tasks, NEW marks, Mark(u, marks)
      PROVE  history[t] \subseteq history'[t]
  BY <1>1 DEF Mark, TypeInv, TypeOK
<1>2. ASSUME NEW r \in Queues, Working(r) \/ Reporting(r) \/ Ending(r)
      PROVE  history[t] \subseteq history'[t]
  <2>1. cur[r].id \in Tasks
    BY <1>2, WorkingMoves, EndingMoves
  <2>2. UNCHANGED history \/ \E marks : Mark(cur[r].id, marks)
    BY <1>2, WorkingEffects, ReportingEffects, EndingEffects
  <2> QED  BY <1>1, <2>1, <2>2
<1> QED
  BY <1>2, NextSteps, UploadEffects, DisruptionEffects, DeliverEffects, Stutter DEF records

\* The usage given back is not taken again.
LEMMA RestoredKept ==
    ASSUME TypeInv, [Next]_vars, NEW t \in Tasks
    PROVE  restored'[t] >= restored[t]
<1>1. restored[t] \in 0 .. 2
  BY DEF TypeInv, TypeOK
<1>2. ASSUME NEW r \in Queues, Working(r) PROVE restored'[t] >= restored[t]
  <2>1. cur[r].id \in Tasks
    BY <1>2, WorkingMoves
  <2>2. \/ UNCHANGED restored
        \/ restored' = [restored EXCEPT ![cur[r].id] = IF @ < 2 THEN @ + 1 ELSE @]
    BY <1>2, WorkingEffects
  <2>3. restored \in [Tasks -> 0 .. 2]
    BY DEF TypeInv, TypeOK
  <2> QED  BY <2>1, <2>2, <2>3
<1>3. ASSUME NEW r \in Queues, Reporting(r) \/ Ending(r) PROVE UNCHANGED restored
  BY <1>3, ReportingEffects, EndingEffects
<1>4. UNCHANGED restored => restored'[t] >= restored[t]
  BY <1>1
<1>5. UNCHANGED restored \/ \E r \in Queues : Working(r)
  BY <1>3, NextSteps, UploadEffects, DisruptionEffects, DeliverEffects, Stutter DEF records
<1> QED  BY <1>2, <1>4, <1>5

\* The joiner tells its user only of what it has marked completed.
JoinInv == pc["Join"] \in {"inform", "ack"} => "completed" \in history[cur["Join"].id]

LEMMA JoinStep == TypeInv /\ JoinInv /\ [Next]_vars => JoinInv'
<1> SUFFICES ASSUME TypeInv, JoinInv, [Next]_vars, pc'["Join"] \in {"inform", "ack"}
             PROVE  "completed" \in history'[cur'["Join"].id]
  BY DEF JoinInv
<1>1. "Join" \in Queues
  BY DEF Queues, Stages
<1>2. pc["Join"] # "idle" => cur["Join"].id \in Tasks
  BY <1>1, MsgFacts DEF TypeInv, TypeOK, StepsInv
<1>3. CASE pc'["Join"] = pc["Join"] /\ cur'["Join"] = cur["Join"]
  BY <1>2, <1>3, HistoryKept DEF JoinInv
<1>4. CASE Working("Join")
  <2>1. pc["Join"] \in DOMAIN After["Join"] \ {"idle"} /\ UNCHANGED cur
    BY <1>1, <1>4, WorkingMoves
  <2>2. pc["Join"] \in {"save", "work", "joining", "complete", "inform"}
    BY <2>1 DEF After, AfterJoin
  <2>3. Succeeds("Join")
    <3>1. \A c : FailsWith("Join", c) => pc'["Join"] = "error"
      BY <1>1 DEF FailsWith, TypeInv, TypeOK
    <3> QED  BY <1>1, <1>4, <3>1, WorkingMoves
  <2>4. pc'["Join"] = After["Join"][pc["Join"]]
    BY <1>1, <2>3 DEF Succeeds, TypeInv, TypeOK
  <2>5. pc["Join"] \in {"complete", "inform"}
    BY <2>2, <2>4, AfterStep DEF Stages
  <2>6. CASE pc["Join"] = "inform"
    BY <1>2, <2>1, <2>6, HistoryKept DEF JoinInv
  <2>7. CASE pc["Join"] = "complete"
    <3>1. CompleteStatus
      BY <1>4, <2>7
         DEF Working, SaveStatus, StartSplit, FinishSplit, DoSynthesize, Inform, Send,
             StartJoin, FinishJoin
    <3>2. Mark(cur["Join"].id, {"completed"})
      <4>1. ~Fails("Join", "save")
        BY <1>1 DEF Fails, FailsWith, TypeInv, TypeOK
      <4> QED  BY <3>1, <4>1 DEF CompleteStatus
    <3> QED  BY <1>2, <2>1, <2>7, <3>2 DEF Mark, TypeInv, TypeOK
  <2> QED  BY <2>5, <2>6, <2>7
<1>5. CASE Reporting("Join")
  BY <1>1, <1>5, ReportingEffects DEF Failing, TypeInv, TypeOK
<1>6. CASE Ending("Join")
  BY <1>1, <1>6, EndingEffects DEF TypeInv, TypeOK
<1>7. CASE Deliver("Join")
  <2>1. pc'["Join"] = "save"
    BY <1>1, <1>7, DeliveredTask, AfterStep DEF Stages
  <2> QED  BY <2>1
<1>8. CASE ProcessEnds
  BY <1>1, <1>8 DEF ProcessEnds
<1> QED
  BY <1>1, <1>3, <1>4, <1>5, <1>6, <1>7, <1>8, HandlerMoves

\* A task that is neither completed nor given up has a copy in the stages.
TokenInv ==
    \A t \in Tasks : upload[t] = "accepted"
        => history[t] \cap {"completed", "gaveUp"} # {} \/ \E q \in Stages : Copy(q, t)

LEMMA TokenStep == TypeInv /\ JoinInv /\ TokenInv /\ [Next]_vars => TokenInv'
<1> SUFFICES ASSUME TypeInv, JoinInv, TokenInv, [Next]_vars,
                    NEW t \in Tasks, upload'[t] = "accepted",
                    history'[t] \cap {"completed", "gaveUp"} = {}
             PROVE  \E q \in Stages : Copy(q, t)'
  BY DEF TokenInv
<1>1. history[t] \cap {"completed", "gaveUp"} = {}
  BY HistoryKept
<1>2. CASE upload[t] # "accepted"
  <2>1. SendUpload(t) /\ queue' = Enqueued("Upload", NewMsg(t, FALSE))
    <3>1. ASSUME NEW q \in Queues, Working(q) \/ Reporting(q) \/ Ending(q) \/ Deliver(q)
          PROVE  UNCHANGED upload
      BY <3>1, WorkingMoves, EndingMoves, DeliverEffects DEF environment
    <3>2. UNCHANGED upload \/ \E u \in Tasks : SaveRequest(u) \/ SendUpload(u)
      BY <3>1, NextSteps, DisruptionEffects, Stutter DEF environment
    <3>3. PICK u \in Tasks : SaveRequest(u) \/ SendUpload(u)
      BY <1>2, <3>2
    <3>4. u = t /\ SendUpload(t)
      BY <1>2, <3>3 DEF SaveRequest, SendUpload, TypeInv, TypeOK
    <3> QED  BY <3>4 DEF SendUpload, TypeInv, TypeOK
  <2>2. NewMsg(t, FALSE) \in Msgs /\ NewMsg(t, FALSE).id = t /\ "Upload" \in Queues
    BY MsgFacts DEF Queues, Stages
  <2>3. InQueue("Upload", t)'
    BY <2>1, <2>2, EnqueuedTask
  <2> QED  BY <2>3 DEF Copy, Stages
<1>3. CASE upload[t] = "accepted"
  <2>1. PICK q \in Stages : Copy(q, t)
    BY <1>1, <1>3 DEF TokenInv
  <2>2. CASE Copy(q, t)'
    BY <2>2
  <2>3. CASE ~Copy(q, t)'
    <3>1. q \in Queues /\ q # "Fail"
      BY DEF Queues, Stages
    <3>2. AtConsumer(q, t) /\ linked /\ ((Working(q) /\ pc'[q] = "ack") \/ NackDrop(q))
      BY <2>1, <2>3, <3>1, CopyMoves
    <3>3. ASSUME NackDrop(q) PROVE FALSE
      <4>1. Mark(t, {"gaveUp"})
        BY <3>1, <3>2, <3>3 DEF NackDrop, AtConsumer
      <4> QED  BY <4>1 DEF Mark, TypeInv, TypeOK
    <3>4. Working(q) /\ pc'[q] = "ack"
      BY <3>2, <3>3
    <3>5. Succeeds(q) /\ pc[q] \in DOMAIN After[q] \ {"idle"} /\ After[q][pc[q]] = "ack"
      <4>1. \A c : FailsWith(q, c) => pc'[q] = "error"
        BY <3>1 DEF FailsWith, TypeInv, TypeOK
      <4>2. Succeeds(q) /\ pc[q] \in DOMAIN After[q] \ {"idle"}
        BY <3>1, <3>4, <4>1, WorkingMoves
      <4> QED  BY <3>1, <3>4, <4>2 DEF Succeeds, TypeInv, TypeOK
    <3>6. CASE q = "Join"
      <4>1. pc["Join"] \in {"save", "work", "joining", "complete", "inform"}
        BY <3>5, <3>6 DEF After, AfterJoin
      <4>2. pc["Join"] = "inform"
        BY <3>5, <3>6, <4>1, AfterStep DEF Stages
      <4> QED  BY <1>1, <3>2, <3>6, <4>2 DEF JoinInv, AtConsumer
    <3>7. CASE q # "Join"
      <4>1. q \in {"Upload", "Split", "Synthesize"}
        BY <3>7 DEF Stages
      <4>2. pc[q] \in {"save", "work", "writing", "inform", "send"}
        BY <3>5, <4>1 DEF After, AfterUpload, AfterSplit, AfterSynthesize
      <4>3. pc[q] = "send"
        <5>1. q = "Upload" => pc[q] # "save" /\ pc[q] # "inform" /\ pc[q] # "work"
          BY <3>5, AfterStep DEF After, AfterUpload
        <5>2. q # "Upload" => pc[q] # "save" /\ pc[q] # "inform" /\ pc[q] # "work"
          BY <3>5, <4>1, AfterStep DEF After, AfterSplit, AfterSynthesize
        <5>3. pc[q] # "writing"
          BY <3>5, <4>1, AfterStep DEF After, AfterUpload, AfterSynthesize
        <5> QED  BY <4>2, <5>1, <5>2, <5>3
      <4>4. Send(q)
        BY <3>4, <3>7, <4>1, <4>3
           DEF Working, SaveStatus, StartSplit, FinishSplit, DoSynthesize, Inform
      <4>5. queue' = Enqueued(NextQueue[q], NewMsg(t, cur[q].error))
        <5>1. ~Fails(q, "send")
          BY <3>1, <3>4 DEF Fails, FailsWith, TypeInv, TypeOK
        <5> QED  BY <3>2, <4>4, <5>1 DEF Send, AtConsumer
      <4>6. NewMsg(t, cur[q].error) \in Msgs /\ NewMsg(t, cur[q].error).id = t
        BY <3>1, <3>4, WorkingMoves, MsgFacts
      <4>7. NextQueue[q] \in Stages
        BY <4>1 DEF NextQueue, Stages
      <4> QED  BY <4>5, <4>6, <4>7, EnqueuedTask DEF Copy, Queues
    <3> QED  BY <3>6, <3>7
  <2> QED  BY <2>2, <2>3
<1> QED  BY <1>2, <1>3

\* An accepted task is never lost, whatever fails, is lost or crashes.
THEOREM NoTaskLostHolds == Spec => []NoTaskLost
<1>1. Init => JoinInv /\ TokenInv
  BY DEF Init, JoinInv, TokenInv, Queues, Stages
<1>2. TypeInv /\ JoinInv /\ TokenInv => NoTaskLost
  <2> SUFFICES ASSUME NEW t \in Tasks, NEW q \in Stages, Copy(q, t) PROVE InPipeline(t)
    BY DEF NoTaskLost, TokenInv
  <2> QED  BY DEF Copy, InQueue, AtConsumer, InPipeline, Held
<1>3. JoinInv /\ TokenInv /\ TypeInv /\ [Next]_vars => (JoinInv /\ TokenInv)'
  BY JoinStep, TokenStep
<1> QED  BY <1>1, <1>2, <1>3, TypeInvariant, PTL DEF Spec

\* A refund that is due has its message in the Fail queue.
RefundInv ==
    \A t \in Metered : "refundDue" \in history[t] =>
        \/ restored[t] > 0
        \/ history[t] \cap {"refundDropped", "refundUnsent"} # {}
        \/ Copy("Fail", t)

LEMMA RefundStep == TypeInv /\ RefundInv /\ [Next]_vars => RefundInv'
<1> SUFFICES ASSUME TypeInv, RefundInv, [Next]_vars,
                    NEW t \in Metered, "refundDue" \in history'[t], ~(restored'[t] > 0),
                    history'[t] \cap {"refundDropped", "refundUnsent"} = {}
             PROVE  Copy("Fail", t)'
  BY DEF RefundInv
<1>0. t \in Tasks
  BY MeteredAssumption
<1>1. "Fail" \in Queues /\ history[t] \cap {"refundDropped", "refundUnsent"} = {}
  BY <1>0, HistoryKept DEF Queues
<1>2. restored[t] = 0 /\ ~(restored[t] > 0)
  <2>1. restored[t] \in 0 .. 2 /\ restored'[t] >= restored[t] /\ restored'[t] \in 0 .. 2
    BY <1>0, RestoredKept, TypeStep DEF TypeInv, TypeOK
  <2> QED  BY <2>1
<1>3. CASE "refundDue" \notin history[t]
  <2>1. PICK r \in Queues : Reporting(r)
    <3>1. ASSUME NEW u \in Tasks, NEW marks, Mark(u, marks) PROVE "refundDue" \in marks
      BY <1>0, <1>3, <3>1 DEF Mark, TypeInv, TypeOK
    <3>2. history' # history
      BY <1>3
    <3>3. ASSUME NEW r \in Queues, Working(r) PROVE FALSE
      BY <3>1, <3>2, <3>3, WorkingMoves, WorkingEffects
    <3>4. ASSUME NEW r \in Queues, Ending(r) PROVE FALSE
      BY <3>1, <3>2, <3>4, EndingMoves, EndingEffects
    <3> QED
      BY <3>2, <3>3, <3>4, NextSteps, UploadEffects, DisruptionEffects, DeliverEffects, Stutter
      DEF records
  <2>2. SendFail(r) /\ queue' = Enqueued("Fail", NewMsg(t, TRUE))
    <3>1. cur[r].id \in Tasks
      BY <2>1, EndingMoves
    <3>2. ASSUME NEW marks, Mark(cur[r].id, marks)
          PROVE  cur[r].id = t /\ "refundDue" \in marks /\ "refundUnsent" \notin marks
      BY <1>0, <1>3, <3>1, <3>2 DEF Mark, TypeInv, TypeOK
    <3>3. ~LastFailure(r)
      BY <3>2 DEF LastFailure
    <3>4. SendFail(r)
      BY <1>3, <2>1, <3>3 DEF Reporting, SaveError, InformFailed
    <3> QED  BY <1>3, <3>2, <3>4 DEF SendFail
  <2>3. NewMsg(t, TRUE) \in Msgs /\ NewMsg(t, TRUE).id = t
    BY <1>0, MsgFacts
  <2> QED  BY <1>0, <1>1, <2>2, <2>3, EnqueuedTask DEF Copy
<1>4. CASE "refundDue" \in history[t]
  <2>1. Copy("Fail", t)
    BY <1>1, <1>2, <1>4 DEF RefundInv
  <2>2. ASSUME ~Copy("Fail", t)' PROVE FALSE
    <3>1. AtConsumer("Fail", t) /\ linked /\ ((Working("Fail") /\ pc'["Fail"] = "ack") \/ NackDrop("Fail"))
      BY <1>0, <1>1, <2>1, <2>2, CopyMoves
    <3>2. ASSUME NackDrop("Fail") PROVE FALSE
      <4>1. Mark(t, {"refundDropped"})
        BY <3>1, <3>2 DEF NackDrop, AtConsumer
      <4> QED  BY <1>0, <4>1 DEF Mark, TypeInv, TypeOK
    <3>3. Working("Fail") /\ pc'["Fail"] = "ack"
      BY <3>1, <3>2
    <3>4. pc["Fail"] = "work"
      BY <1>1, <3>3, WorkingMoves DEF After, AfterFail
    <3>5. RestoreUsage
      BY <3>3, <3>4 DEF Working, SaveStatus, StartSplit, FinishSplit, DoSynthesize, Inform, Send
    <3>6. ~Fails("Fail", "restore")
      BY <1>1, <3>3 DEF Fails, FailsWith, TypeInv, TypeOK
    <3>7. restored' = [restored EXCEPT ![t] = IF @ < 2 THEN @ + 1 ELSE @]
      BY <3>1, <3>5, <3>6 DEF RestoreUsage, AtConsumer
    <3>8. restored'[t] = 1
      BY <1>0, <1>2, <3>7 DEF TypeInv, TypeOK
    <3> QED  BY <3>8
  <2> QED  BY <2>2
<1> QED  BY <1>3, <1>4

\* A refund that is due is given back, or its call has failed for good, or its
\* message could not be sent or is still in the Fail queue, whatever else
\* fails, is lost or crashes.
THEOREM NoRefundLostHolds == Spec => []NoRefundLost
<1>1. Init => RefundInv
  BY MeteredAssumption DEF Init, RefundInv
<1>2. TypeInv /\ RefundInv => NoRefundLost
  BY DEF NoRefundLost, RefundInv, Copy, InQueue, AtConsumer, Held
<1>3. TypeInv /\ RefundInv /\ [Next]_vars => RefundInv'
  BY RefundStep
<1> QED  BY <1>1, <1>2, <1>3, TypeInvariant, PTL DEF Spec

-----------------------------------------------------------------------------
(* Failures: whom they are told to, and what they give back. *)

\* A handler has an error exactly while it deals with it, and one cut off by
\* a shutdown waits for the end of the process.
CauseInv ==
    \A q \in Queues :
        /\ cause[q] # "none" <=> pc[q] \in Failing
        /\ cause[q] = "canceled" => pc[q] = "error" /\ stopping

\* A working handler fails with an error, and is canceled by a shutdown only.
LEMMA WorkingFails ==
    ASSUME TypeInv, NEW q \in Queues, Working(q)
    PROVE  \/ Succeeds(q) /\ pc'[q] \notin Failing
           \/ \E c \in Causes \ {"none"} :
                  FailsWith(q, c) /\ (c = "canceled" => stopping) /\ pc'[q] = "error"
<1>1. \/ Succeeds(q)
      \/ \E c \in Causes \ {"none"} : FailsWith(q, c) /\ (c = "canceled" => stopping)
  BY DEF Working, SaveStatus, StartSplit, FinishSplit, DoSynthesize, Inform, Send, StartJoin,
         FinishJoin, CompleteStatus, RestoreUsage, Fails, Succeeds, Causes
<1>2. Succeeds(q) => pc'[q] \notin Failing
  BY WorkingMoves, AfterSteps DEF Succeeds, TypeInv, TypeOK
<1>3. \A c : FailsWith(q, c) => pc'[q] = "error"
  BY DEF FailsWith, TypeInv, TypeOK
<1> QED  BY <1>1, <1>2, <1>3

LEMMA CauseStep == TypeInv /\ CauseInv /\ [Next]_vars => CauseInv'
<1> SUFFICES ASSUME TypeInv, CauseInv, [Next]_vars, NEW q \in Queues
             PROVE  /\ cause'[q] # "none" <=> pc'[q] \in Failing
                    /\ cause'[q] = "canceled" => pc'[q] = "error" /\ stopping'
  BY DEF CauseInv
<1>1. CASE ProcessEnds
  BY <1>1 DEF ProcessEnds, Failing
<1>3. CASE Start
  BY <1>3 DEF Start, Down, handlers, CauseInv, Failing
<1>2. CASE ~ProcessEnds /\ ~Start
  <2>1. stopping => stopping'
    <3>1. \A r \in Queues : Working(r) \/ Reporting(r) \/ Ending(r) \/ Deliver(r) => UNCHANGED stopping
      BY WorkingMoves, EndingMoves, DeliverEffects DEF environment
    <3> QED
      BY <1>2, <3>1, NextSteps, UploadEffects, Stutter DEF Stop, LoseConnection, environment
  <2>2. CASE pc'[q] = pc[q] /\ cause'[q] = cause[q]
    BY <2>1, <2>2 DEF CauseInv
  <2>3. CASE Working(q)
    <3>1. pc[q] \notin Failing
      BY <2>3
         DEF Working, SaveStatus, StartSplit, FinishSplit, DoSynthesize, Inform, Send,
             StartJoin, FinishJoin, CompleteStatus, RestoreUsage, Failing
    <3>2. CASE Succeeds(q) /\ pc'[q] \notin Failing
      BY <3>1, <3>2 DEF Succeeds, CauseInv
    <3>3. ASSUME NEW c \in Causes \ {"none"}, FailsWith(q, c), c = "canceled" => stopping,
                 pc'[q] = "error"
          PROVE  /\ cause'[q] # "none" <=> pc'[q] \in Failing
                 /\ cause'[q] = "canceled" => pc'[q] = "error" /\ stopping'
      BY <2>1, <3>3 DEF FailsWith, Failing, TypeInv, TypeOK
    <3> QED  BY <2>3, <3>2, <3>3, WorkingFails
  <2>4. CASE Reporting(q)
    <3>1. UNCHANGED cause /\ pc[q] \in Failing /\ pc'[q] \in Failing
      BY <2>4, ReportingEffects DEF TypeInv, TypeOK
    <3>2. cause[q] # "canceled"
      BY <2>4 DEF CauseInv, Reporting, LastFailure, SaveError, InformFailed, SendFail
    <3> QED  BY <3>1, <3>2 DEF CauseInv
  <2>5. CASE Ending(q)
    <3>1. cause'[q] = "none" /\ pc'[q] = "idle"
      BY <2>5, EndingEffects DEF TypeInv, TypeOK
    <3> QED  BY <3>1 DEF Failing
  <2>6. CASE Deliver(q)
    <3>1. pc'[q] = After[q]["idle"] /\ UNCHANGED cause /\ pc[q] = "idle"
      BY <2>6, DeliveredTask, DeliverEffects DEF Deliver
    <3>2. pc'[q] \notin Failing
      BY <3>1, AfterSteps
    <3> QED  BY <3>1, <3>2 DEF CauseInv, Failing
  <2> QED  BY <1>2, <2>2, <2>3, <2>4, <2>5, <2>6, HandlerMoves
<1> QED  BY <1>1, <1>2, <1>3

LEMMA CauseInvariant == Spec => []CauseInv
<1>1. Init => CauseInv
  BY DEF Init, CauseInv, Failing
<1> QED  BY <1>1, CauseStep, TypeInvariant, PTL DEF Spec

\* A handler that reports an error for which the usage is given back has
\* blamed its task; so has whoever sent a task to the Fail queue.
BlameInv ==
    /\ \A q \in Queues :
           pc[q] \in {"saveErr", "informFailed", "sendFail"} /\ cause[q] = "restorable"
               => "blamed" \in history[cur[q].id]
    /\ \A t \in Tasks : Near("Fail", t) \/ restored[t] > 0 => "blamed" \in history[t]

LEMMA BlameStep == TypeInv /\ CauseInv /\ BlameInv /\ [Next]_vars => BlameInv'
<1> SUFFICES ASSUME TypeInv, CauseInv, BlameInv, [Next]_vars PROVE BlameInv'
  OBVIOUS
<1>1. ASSUME NEW q \in Queues, pc'[q] \in {"saveErr", "informFailed", "sendFail"},
             cause'[q] = "restorable"
      PROVE  "blamed" \in history'[cur'[q].id]
  <2>1. pc[q] # "idle" => cur[q].id \in Tasks
    BY MsgFacts DEF TypeInv, TypeOK, StepsInv
  <2>2. CASE pc'[q] = pc[q] /\ cur'[q] = cur[q] /\ cause'[q] = cause[q]
    BY <1>1, <2>1, <2>2, HistoryKept DEF BlameInv
  <2>3. CASE Working(q)
    BY <1>1, <2>3, WorkingFails DEF Failing
  <2>4. CASE Reporting(q)
    <3>1. UNCHANGED <<cur, cause>> /\ pc[q] \in Failing
      BY <2>4, ReportingEffects
    <3>2. CASE LastFailure(q)
      <4>1. Mark(cur[q].id, {"blamed"})
        BY <1>1, <3>1, <3>2 DEF LastFailure
      <4> QED  BY <2>1, <3>1, <4>1 DEF Failing, Mark, TypeInv, TypeOK
    <3>3. CASE ~LastFailure(q)
      <4>1. pc[q] \in {"saveErr", "informFailed", "sendFail"}
        BY <2>4, <3>3 DEF Reporting, SaveError, InformFailed, SendFail
      <4> QED  BY <1>1, <2>1, <3>1, <4>1, HistoryKept DEF BlameInv
    <3> QED  BY <3>2, <3>3
  <2>5. CASE Ending(q)
    BY <1>1, <2>5, EndingEffects DEF TypeInv, TypeOK
  <2>6. CASE Deliver(q)
    <3>1. pc'[q] = After[q]["idle"]
      BY <2>6, DeliveredTask
    <3> QED  BY <1>1, <3>1, AfterSteps DEF Failing
  <2>7. CASE ProcessEnds
    BY <1>1, <2>7 DEF ProcessEnds
  <2> QED  BY <2>2, <2>3, <2>4, <2>5, <2>6, <2>7, HandlerMoves
<1>2. ASSUME NEW t \in Tasks, Near("Fail", t)' PROVE "blamed" \in history'[t]
  <2>1. CASE Near("Fail", t)
    BY <2>1, HistoryKept DEF BlameInv
  <2>2. CASE ~Near("Fail", t)
    <3>1. SentTo("Fail", t)
      BY <1>2, <2>2, NearSource DEF Queues
    <3>2. PICK r \in Queues : SendFail(r) /\ cur[r].id = t /\ NeedToRestore(r, cur[r], cause[r])
      BY <3>1 DEF SentTo, NextQueue
    <3>3. cause[r] = "restorable" /\ pc[r] = "sendFail"
      BY <3>2 DEF SendFail, NeedToRestore, CauseInv, Failing, TypeInv, TypeOK, Causes
    <3> QED  BY <3>2, <3>3, HistoryKept DEF BlameInv
  <2> QED  BY <2>1, <2>2
<1>3. ASSUME NEW t \in Tasks, restored'[t] > 0 PROVE "blamed" \in history'[t]
  <2>1. CASE restored'[t] = restored[t]
    BY <1>3, <2>1, HistoryKept DEF BlameInv
  <2>2. CASE restored'[t] # restored[t]
    <3>1. ASSUME NEW r \in Queues, Reporting(r) \/ Ending(r) PROVE FALSE
      BY <2>2, <3>1, ReportingEffects, EndingEffects
    <3>2. PICK r \in Queues : Working(r)
      BY <2>2, <3>1, NextSteps, UploadEffects, DisruptionEffects, DeliverEffects, Stutter
      DEF records
    <3>3. restored' = [restored EXCEPT ![cur[r].id] = IF @ < 2 THEN @ + 1 ELSE @]
      BY <2>2, <3>2, WorkingEffects
    <3>4. cur[r].id = t /\ cur[r] \in Msgs
      BY <2>2, <3>2, <3>3, WorkingMoves DEF TypeInv, TypeOK
    <3>5. r = "Fail"
      BY <2>2, <3>2
         DEF Working, SaveStatus, StartSplit, FinishSplit, DoSynthesize, Inform, Send,
             StartJoin, FinishJoin, CompleteStatus, outputs
    <3>6. AtConsumer("Fail", t)
      BY <3>4, <3>5, NoneAssumption DEF AtConsumer
    <3> QED  BY <3>6, HistoryKept DEF BlameInv, Near
  <2> QED  BY <2>1, <2>2
<1> QED  BY <1>1, <1>2, <1>3 DEF BlameInv

\* The usage is given back only after a last failure that calls for it.
THEOREM RestoredOnlyWhenBlamedHolds == Spec => []RestoredOnlyWhenBlamed
<1>1. Init => BlameInv
  <2> SUFFICES ASSUME Init PROVE BlameInv
    OBVIOUS
  <2>1. \A t \in Tasks : ~Near("Fail", t) /\ ~(restored[t] > 0)
    <3>1. ~(0 > 0)
      OBVIOUS
    <3> QED  BY <3>1 DEF Init, Near, InQueue, AtConsumer, Queues
  <2>2. \A q \in Queues : pc[q] = "idle"
    BY DEF Init
  <2> QED  BY <2>1, <2>2 DEF BlameInv
<1>2. BlameInv => RestoredOnlyWhenBlamed
  BY DEF BlameInv, RestoredOnlyWhenBlamed
<1> QED  BY <1>1, <1>2, BlameStep, CauseInvariant, TypeInvariant, PTL DEF Spec

-----------------------------------------------------------------------------
(* What the broker knows of. *)

\* While the connection is lost the message of a consumer is in its queue.
LinkInv == ~linked => \A q \in Queues : cur[q] # None => InQueue(q, cur[q].id)

LEMMA LinkStep == TypeInv /\ LinkInv /\ [Next]_vars => LinkInv'
<1> SUFFICES ASSUME TypeInv, LinkInv, [Next]_vars, ~linked', NEW q \in Queues, cur'[q] # None,
                    NEW t, t = cur'[q].id
             PROVE  InQueue(q, t)'
  BY DEF LinkInv, InQueue
<1>1. CASE LoseConnection
  <2>1. linked /\ UNCHANGED cur /\ queue' = Returned
    BY <1>1 DEF LoseConnection, handlers
  <2>2. t \in Tasks
    BY <2>1, MsgFacts DEF TypeInv, TypeOK
  <2>3. AtConsumer(q, t)
    BY <2>1 DEF AtConsumer
  <2> QED  BY <2>1, <2>2, <2>3, ReturnedTask
<1>2. CASE ~LoseConnection
  <2>1. ~ProcessEnds
    BY DEF ProcessEnds
  <2>2. ~Deliver(q)
    BY DeliveredTask
  <2>3. UNCHANGED linked
    <3>1. \A r \in Queues : Working(r) \/ Reporting(r) \/ Ending(r) \/ Deliver(r) => UNCHANGED linked
      BY WorkingMoves, EndingMoves, DeliverEffects DEF environment
    <3> QED
      BY <1>2, <2>1, <3>1, NextSteps, UploadEffects, Stutter DEF Stop, Start, environment
  <2>4. cur'[q] = cur[q]
    <3>1. Working(q) \/ Reporting(q) => UNCHANGED cur
      BY WorkingMoves, ReportingEffects
    <3>2. Ending(q) => UNCHANGED cur
      <4>1. Ending(q) => UNCHANGED cur \/ cur' = [cur EXCEPT ![q] = None]
        BY EndingEffects
      <4> QED  BY <4>1 DEF TypeInv, TypeOK
    <3> QED  BY <2>1, <2>2, <3>1, <3>2, HandlerMoves
  <2>5. t \in Tasks
    BY <2>4, MsgFacts DEF TypeInv, TypeOK
  <2>6. InQueue(q, t)
    BY <2>3, <2>4 DEF LinkInv
  <2> QED  BY <2>2, <2>5, <2>6, QueueKept
<1> QED  BY <1>1, <1>2

LEMMA LinkInvariant == Spec => []LinkInv
<1>1. Init => LinkInv
  BY DEF Init, LinkInv
<1> QED  BY <1>1, LinkStep, TypeInvariant, PTL DEF Spec

\* With LinkInv, a message near a queue is one the broker holds.
LEMMA NearIsHeld ==
    ASSUME TypeInv, LinkInv, NEW q \in Queues, NEW t \in Tasks
    PROVE  Near(q, t) <=> Held(q, t)
BY DEF LinkInv, Near, Held, InQueue, AtConsumer

\* A task leaves a queue only when its handler ends.
LEMMA NearLeaves ==
    ASSUME TypeInv, LinkInv, [Next]_vars, NEW q \in Queues, NEW t \in Tasks,
           Near(q, t), ~Near(q, t)'
    PROVE  AtConsumer(q, t) /\ Ending(q)
<1>1. ~InQueue(q, t) /\ AtConsumer(q, t) /\ ~AtConsumer(q, t)'
  BY QueueKept DEF Near
<1>2. ~ProcessEnds
  <2>1. linked
    BY <1>1 DEF LinkInv, AtConsumer
  <2>2. ProcessEnds => InQueue(q, t)'
    BY <1>1, <2>1, ReturnedTask DEF ProcessEnds
  <2> QED  BY <2>2 DEF Near
<1>3. ~Deliver(q)
  BY <1>1 DEF Deliver, AtConsumer
<1>4. Working(q) \/ Reporting(q) => UNCHANGED cur
  BY WorkingMoves, ReportingEffects
<1> QED  BY <1>1, <1>2, <1>3, <1>4, HandlerMoves DEF AtConsumer

\* A synthesis cut off by a shutdown is neither reported nor dropped: its
\* handler is at its error with the service stopping, and the broker has or
\* gets its message back.
THEOREM CancelledNotReportedHolds == Spec => []CancelledNotReported
<1>1. TypeInv /\ CauseInv /\ LinkInv => CancelledNotReported
  BY DEF TypeInv, StepsInv, CauseInv, LinkInv, InQueue, Held, CancelledNotReported
<1> QED  BY <1>1, CauseInvariant, LinkInvariant, TypeInvariant, PTL

-----------------------------------------------------------------------------
(* The files. *)

\* Only a Split that begins anew takes an output back.
LEMMA MadeKept ==
    ASSUME TypeInv, [Next]_vars, NEW t \in Tasks, NEW s \in made[t], s \notin made'[t]
    PROVE  s = "Split" /\ StartSplit /\ AtConsumer("Split", t) /\ UNCHANGED cur
<1>1. ASSUME NEW r \in Queues, Reporting(r) \/ Ending(r) PROVE UNCHANGED made
  BY <1>1, ReportingEffects, EndingEffects
<1>2. PICK r \in Queues : Working(r)
  BY <1>1, NextSteps, UploadEffects, DisruptionEffects, DeliverEffects, Stutter DEF records
<1>3. cur[r] # None /\ UNCHANGED cur
  BY <1>2, WorkingMoves, NoneAssumption
<1>4. made \in [Tasks -> SUBSET {"Split", "Synthesize"}]
  BY DEF TypeInv, TypeOK
<1>5. r = "Split" /\ StartSplit /\ made' = [made EXCEPT ![cur[r].id] = @ \ {r}]
  <2>1. ~(made' = [made EXCEPT ![cur[r].id] = @ \cup {r}])
    BY <1>4
  <2> QED  BY <1>2, <2>1, WorkingEffects
<1>6. cur[r].id = t /\ s = r
  BY <1>4, <1>5
<1> QED  BY <1>3, <1>5, <1>6 DEF AtConsumer

\* A handler that is about to send has its output, and so has the stage whose
\* message is on its way or at work, unless Split has begun it anew.
StageInv ==
    /\ \A q \in {"Split", "Synthesize"} : pc[q] \in {"send", "ack"} => q \in made[cur[q].id]
    /\ \A t \in Tasks :
           /\ Near("Synthesize", t)
                  => "Split" \in made[t] \/ Near("Split", t) \/ "gaveUp" \in history[t]
           /\ Near("Join", t) => "Synthesize" \in made[t]

LEMMA SentOutput == TypeInv /\ StageInv /\ [Next]_vars =>
    \A q \in {"Split", "Synthesize"} : pc'[q] \in {"send", "ack"} => q \in made'[cur'[q].id]
<1> SUFFICES ASSUME TypeInv, StageInv, [Next]_vars, NEW q \in {"Split", "Synthesize"},
                    pc'[q] \in {"send", "ack"}
             PROVE  q \in made'[cur'[q].id]
  OBVIOUS
<1>1. q \in Queues
  BY DEF Queues, Stages
<1>2. pc[q] # "idle" => cur[q].id \in Tasks
  BY <1>1, MsgFacts DEF TypeInv, TypeOK, StepsInv
<1>3. ~(q = "Split" /\ StartSplit)
  BY <1>1, AfterStep DEF StartSplit, Succeeds, Fails, FailsWith, TypeInv, TypeOK
<1>4. CASE pc'[q] = pc[q] /\ cur'[q] = cur[q]
  BY <1>2, <1>3, <1>4, MadeKept DEF StageInv
<1>5. CASE Working(q)
  <2>1. UNCHANGED cur /\ cur[q].id \in Tasks /\ pc[q] \in DOMAIN After[q] \ {"idle"}
    BY <1>1, <1>5, WorkingMoves
  <2>2. Succeeds(q) /\ \A c : ~FailsWith(q, c)
    <3>1. \A c : FailsWith(q, c) => pc'[q] = "error"
      BY <1>1 DEF FailsWith, TypeInv, TypeOK
    <3> QED  BY <1>1, <1>5, <3>1, WorkingFails
  <2>3. After[q][pc[q]] \in {"send", "ack"}
    BY <1>1, <2>2 DEF Succeeds, TypeInv, TypeOK
  <2>4. CASE pc[q] = "send"
    BY <1>3, <2>1, <2>4, MadeKept DEF StageInv
  <2>5. CASE pc[q] # "send"
    <3>1. CASE q = "Split"
      <4>1. pc[q] = "writing"
        BY <2>1, <2>3, <2>5, <3>1, AfterStep DEF After, AfterSplit
      <4>2. FinishSplit
        BY <1>5, <3>1, <4>1 DEF Working, SaveStatus, StartSplit, Inform, Send
      <4>3. made' = [made EXCEPT ![cur[q].id] = @ \cup {q}]
        BY <2>2, <3>1, <4>2 DEF FinishSplit, Fails
      <4> QED  BY <2>1, <4>3 DEF TypeInv, TypeOK
    <3>2. CASE q = "Synthesize"
      <4>1. pc[q] = "work"
        BY <2>1, <2>3, <2>5, <3>2, AfterStep DEF After, AfterSynthesize
      <4>2. DoSynthesize
        BY <1>5, <3>2, <4>1 DEF Working, SaveStatus, Inform, Send
      <4>3. made' = [made EXCEPT ![cur[q].id] = @ \cup {q}]
        BY <2>2, <3>2, <4>2 DEF DoSynthesize, Fails
      <4> QED  BY <2>1, <4>3 DEF TypeInv, TypeOK
    <3> QED  BY <3>1, <3>2
  <2> QED  BY <2>4, <2>5
<1>6. CASE Reporting(q) \/ Ending(q) \/ ProcessEnds
  <2>1. Reporting(q) => pc'[q] \in Failing
    <3>1. Reporting(q) => \E s \in Failing : pc' = [pc EXCEPT ![q] = s]
      BY <1>1, ReportingEffects
    <3> QED  BY <1>1, <3>1 DEF TypeInv, TypeOK
  <2>2. Ending(q) => pc'[q] = "idle"
    BY <1>1, EndingEffects DEF TypeInv, TypeOK
  <2>3. ProcessEnds => pc'[q] = "idle"
    BY <1>1 DEF ProcessEnds
  <2> QED  BY <1>6, <2>1, <2>2, <2>3 DEF Failing
<1>7. CASE Deliver(q)
  <2>1. pc'[q] = "save"
    BY <1>1, <1>7, DeliveredTask, AfterStep DEF Stages
  <2> QED  BY <2>1
<1> QED  BY <1>1, <1>4, <1>5, <1>6, <1>7, HandlerMoves

\* A message that Split has done with is one whose texts are finished, or of
\* a task that is given up.
LEMMA SplitLeaves ==
    ASSUME TypeInv, LinkInv, StageInv, [Next]_vars, NEW t \in Tasks,
           Near("Split", t), ~Near("Split", t)'
    PROVE  "Split" \in made'[t] \/ "gaveUp" \in history'[t]
<1> DEFINE q == "Split"
<1>1. q \in Queues
  BY DEF Queues, Stages
<1>2. AtConsumer(q, t) /\ Ending(q) /\ UNCHANGED made
  BY <1>1, NearLeaves, EndingEffects
<1>3. ~InQueue(q, t) /\ linked
  <2>1. ~InQueue(q, t)
    BY <1>1, <1>2, QueueKept DEF Near, Deliver, AtConsumer
  <2> QED  BY <1>1, <1>2, <2>1 DEF LinkInv, AtConsumer
<1>4. CASE Ack(q)
  BY <1>2, <1>4 DEF Ack, StageInv, AtConsumer
<1>5. ~AbandonOnStop(q)
  <2>1. AbandonOnStop(q) => UNCHANGED cur
    BY DEF AbandonOnStop
  <2> QED  BY <1>2, <2>1 DEF Near, AtConsumer
<1>6. ~NackRequeue(q)
  <2>1. Nacked(cur[q]) \in Msgs /\ Nacked(cur[q]).id = t
    BY <1>1, <1>2, EndingMoves, MsgFacts DEF AtConsumer
  <2>2. NackRequeue(q) => queue' = Enqueued(q, Nacked(cur[q]))
    BY <1>3 DEF NackRequeue
  <2> QED  BY <1>1, <2>1, <2>2, EnqueuedTask DEF Near
<1>7. CASE NackDrop(q)
  <2>1. Mark(t, {"gaveUp"})
    BY <1>2, <1>3, <1>7 DEF NackDrop, AtConsumer
  <2> QED  BY <2>1 DEF Mark, TypeInv, TypeOK
<1> QED  BY <1>2, <1>4, <1>5, <1>6, <1>7 DEF Ending

LEMMA StageStep == TypeInv /\ LinkInv /\ StageInv /\ [Next]_vars => StageInv'
<1> SUFFICES ASSUME TypeInv, LinkInv, StageInv, [Next]_vars PROVE StageInv'
  OBVIOUS
<1>1. /\ NextQueue["Split"] = "Synthesize" /\ NextQueue["Synthesize"] = "Join"
      /\ NextQueue["Upload"] = "Split" /\ {"Split", "Synthesize", "Join"} \subseteq Queues
  BY DEF NextQueue, Queues, Stages
<1>2. ASSUME NEW q \in {"Split", "Synthesize"}, NEW t \in Tasks, Near(NextQueue[q], t)',
             ~Near(NextQueue[q], t)
      PROVE  q \in made'[t]
  <2>1. SentTo(NextQueue[q], t)
    BY <1>1, <1>2, NearSource
  <2>2. pc[q] = "send" /\ cur[q].id = t
    BY <1>1, <2>1 DEF SentTo
  <2>3. q \in made[t] /\ (q = "Split" => ~StartSplit)
    BY <2>2 DEF StageInv, StartSplit
  <2> QED  BY <2>2, <2>3, MadeKept DEF StageInv
<1>3. ASSUME NEW t \in Tasks, Near("Join", t)' PROVE "Synthesize" \in made'[t]
  BY <1>1, <1>2, <1>3, MadeKept DEF StageInv
<1>4. ASSUME NEW t \in Tasks, Near("Synthesize", t)'
      PROVE  "Split" \in made'[t] \/ Near("Split", t)' \/ "gaveUp" \in history'[t]
  <2>1. CASE ~Near("Synthesize", t)
    BY <1>1, <1>2, <1>4, <2>1
  <2>2. CASE "Split" \in made[t]
    <3>1. ASSUME "Split" \notin made'[t] PROVE Near("Split", t)'
      BY <2>2, <3>1, MadeKept DEF Near, AtConsumer
    <3> QED  BY <3>1
  <2>3. CASE Near("Split", t)
    BY <2>3, SplitLeaves
  <2>4. CASE "gaveUp" \in history[t]
    BY <2>4, HistoryKept
  <2> QED  BY <2>1, <2>2, <2>3, <2>4 DEF StageInv
<1> QED  BY <1>3, <1>4, SentOutput DEF StageInv

LEMMA StageInvariant == Spec => []StageInv
<1>1. Init => StageInv
  <2> SUFFICES ASSUME Init PROVE StageInv
    OBVIOUS
  <2>1. \A q \in Queues : pc[q] = "idle" /\ \A t \in Tasks : ~Near(q, t)
    <3>1. ~(0 > 0)
      OBVIOUS
    <3> QED  BY <3>1 DEF Init, Near, InQueue, AtConsumer
  <2>2. {"Split", "Synthesize", "Join"} \subseteq Queues
    BY DEF Queues, Stages
  <2>3. \A q \in {"Split", "Synthesize"} : pc[q] = "idle"
    BY <2>1, <2>2
  <2>4. \A t \in Tasks : ~Near("Synthesize", t) /\ ~Near("Join", t)
    BY <2>1, <2>2
  <2> QED  BY <2>3, <2>4 DEF StageInv
<1> QED  BY <1>1, StageStep, LinkInvariant, TypeInvariant, PTL DEF Spec

\* A whole result stays whole: the joiner does not write over a result file.
LEMMA WholeKept ==
    ASSUME TypeInv, [Next]_vars, NEW t \in Tasks, result[t] = "whole"
    PROVE  result'[t] = "whole"
<1>1. ASSUME StartJoin PROVE result'[t] = "whole"
  <2>1. UNCHANGED result \/ (result[cur["Join"].id] = "none"
                              /\ result' = [result EXCEPT ![cur["Join"].id] = "torn"])
    BY <1>1 DEF StartJoin
  <2> QED  BY <2>1 DEF TypeInv, TypeOK
<1>2. ASSUME FinishJoin PROVE result'[t] = "whole"
  BY <1>2 DEF FinishJoin, TypeInv, TypeOK
<1>3. ASSUME NEW r \in Queues, Working(r) PROVE result'[t] = "whole"
  BY <1>1, <1>2, <1>3
     DEF Working, SaveStatus, StartSplit, FinishSplit, DoSynthesize, Inform, Send,
         CompleteStatus, RestoreUsage, files
<1>4. ASSUME NEW r \in Queues, Reporting(r) \/ Ending(r) PROVE UNCHANGED result
  BY <1>4, ReportingEffects, EndingEffects
<1> QED
  BY <1>3, <1>4, NextSteps, UploadEffects, DisruptionEffects, DeliverEffects, Stutter
  DEF records

\* What is behind a joiner that has run ffmpeg, a status COMPLETED and a
\* Finished mail.
ResultInv ==
    /\ pc["Join"] \in {"complete", "inform", "ack"} => result[cur["Join"].id] = "whole"
    /\ CompletedHasResult

LEMMA ResultStep == TypeInv /\ ResultInv /\ [Next]_vars => ResultInv'
<1> SUFFICES ASSUME TypeInv, ResultInv, [Next]_vars PROVE ResultInv'
  OBVIOUS
<1> DEFINE q == "Join"
<1>0. q \in Queues /\ (pc[q] # "idle" => cur[q].id \in Tasks)
  <2>1. q \in Queues
    BY DEF Queues, Stages
  <2> QED  BY <2>1, MsgFacts DEF TypeInv, TypeOK, StepsInv
<1>1. ASSUME pc'[q] \in {"complete", "inform", "ack"} PROVE result'[cur'[q].id] = "whole"
  <2>1. CASE pc'[q] = pc[q] /\ cur'[q] = cur[q]
    BY <1>0, <1>1, <2>1, WholeKept DEF ResultInv
  <2>2. CASE Working(q)
    <3>1. UNCHANGED cur /\ cur[q].id \in Tasks /\ pc[q] \in DOMAIN After[q] \ {"idle"}
      BY <1>0, <2>2, WorkingMoves
    <3>2. pc[q] \in {"save", "work", "joining", "complete", "inform"}
      BY <3>1 DEF After, AfterJoin
    <3>3. Succeeds(q)
      BY <1>0, <1>1, <2>2, WorkingFails
    <3>4. pc'[q] = After[q][pc[q]]
      BY <1>0, <3>3 DEF Succeeds, TypeInv, TypeOK
    <3>5. pc[q] \in {"joining", "complete", "inform"}
      BY <1>1, <3>2, <3>4, AfterStep DEF Stages
    <3>6. CASE pc[q] = "joining"
      <4>1. FinishJoin
        BY <2>2, <3>6
           DEF Working, SaveStatus, StartSplit, FinishSplit, DoSynthesize, Inform, Send,
               StartJoin, CompleteStatus
      <4>2. result' = [result EXCEPT ![cur["Join"].id] = "whole"]
        <5>1. ~Fails("Join", "work")
          BY <1>0, <1>1 DEF Fails, FailsWith, TypeInv, TypeOK
        <5> QED  BY <4>1, <5>1 DEF FinishJoin
      <4> QED  BY <3>1, <4>2 DEF TypeInv, TypeOK
    <3>7. CASE pc[q] \in {"complete", "inform"}
      BY <3>1, <3>7, WholeKept DEF ResultInv
    <3> QED  BY <3>5, <3>6, <3>7
  <2>3. CASE Reporting(q) \/ Ending(q) \/ ProcessEnds
    <3>1. Reporting(q) => pc'[q] \in Failing
      BY <1>0, ReportingEffects DEF TypeInv, TypeOK
    <3>2. Ending(q) => pc'[q] = "idle"
      BY <1>0, EndingEffects DEF TypeInv, TypeOK
    <3>3. ProcessEnds => pc'[q] = "idle"
      BY <1>0 DEF ProcessEnds
    <3> QED  BY <1>1, <2>3, <3>1, <3>2, <3>3 DEF Failing
  <2>4. CASE Deliver(q)
    <3>1. pc'[q] = "save"
      BY <1>0, <2>4, DeliveredTask, AfterStep DEF Stages
    <3> QED  BY <1>1, <3>1
  <2> QED  BY <1>0, <2>1, <2>2, <2>3, <2>4, HandlerMoves
<1>2. ASSUME NEW t \in Tasks, status'[t].st = "COMPLETED", status[t].st # "COMPLETED"
      PROVE  result'[t] = "whole"
  <2>1. ASSUME NEW u \in Tasks, NEW st \in StatusNames \ {"COMPLETED"}, status' = Saved(u, st)
        PROVE  FALSE
    BY <1>2, <2>1 DEF Saved, TypeInv, TypeOK
  <2>2. ASSUME NEW r \in Queues, Working(r) PROVE result'[t] = "whole"
    <3>1. ~SaveStatus(r)
      <4>1. ASSUME SaveStatus(r) PROVE FALSE
        <5>1. status' = Saved(cur[r].id, StageStatus[r])
          BY <1>2, <4>1 DEF SaveStatus
        <5>2. r \in Stages
          BY <4>1, StepQueues DEF SaveStatus, TypeInv, StepsInv
        <5>3. StageStatus[r] \in StatusNames \ {"COMPLETED"}
          <6>1. r = "Upload" \/ r = "Split" \/ r = "Synthesize" \/ r = "Join"
            BY <5>2 DEF Stages
          <6>2. /\ StageStatus["Upload"] = "UPLOADED" /\ StageStatus["Split"] = "Split"
                /\ StageStatus["Synthesize"] = "Synthesize" /\ StageStatus["Join"] = "Join"
            BY DEF StageStatus
          <6> QED  BY <6>1, <6>2 DEF StatusNames
        <5> QED  BY <2>1, <2>2, <5>1, <5>3, WorkingMoves
      <4> QED  BY <4>1
    <3>2. r = "Join" /\ CompleteStatus
      BY <1>2, <2>2, <3>1
         DEF Working, StartSplit, FinishSplit, DoSynthesize, Inform, Send, StartJoin,
             FinishJoin, RestoreUsage
    <3>3. status' = Saved(cur["Join"].id, "COMPLETED") /\ pc["Join"] = "complete"
      BY <1>2, <3>2 DEF CompleteStatus
    <3>4. cur["Join"].id = t
      BY <1>2, <3>3 DEF Saved, TypeInv, TypeOK
    <3> QED  BY <1>2, <3>3, <3>4, WholeKept DEF ResultInv
  <2>3. ASSUME NEW r \in Queues, Reporting(r) PROVE FALSE
    <3>1. status' = SavedError(cur[r].id)
      BY <1>2, <2>3, ReportingEffects
    <3> QED  BY <1>2, <2>3, <3>1, EndingMoves DEF SavedError, TypeInv, TypeOK
  <2>4. ASSUME NEW r \in Queues, Ending(r) PROVE FALSE
    BY <1>2, <2>4, EndingEffects
  <2>5. "UPLOADED" \in StatusNames \ {"COMPLETED"}
    BY DEF StatusNames
  <2> QED
    BY <1>2, <2>1, <2>2, <2>3, <2>4, <2>5, NextSteps, UploadEffects, DisruptionEffects,
       DeliverEffects, Stutter
<1>3. ASSUME NEW t \in Tasks, "Finished" \in informed'[t], "Finished" \notin informed[t]
      PROVE  result'[t] = "whole"
  <2>1. ASSUME NEW r \in Queues, Working(r) PROVE result'[t] = "whole"
    <3>1. Inform(r)
      BY <1>3, <2>1
         DEF Working, SaveStatus, StartSplit, FinishSplit, DoSynthesize, Send, StartJoin,
             FinishJoin, CompleteStatus, RestoreUsage, outputs
    <3>2. pc[r] = "inform" /\ r = "Join"
          /\ informed' = [informed EXCEPT ![cur[r].id] = @ \cup {"Finished"}]
      <4>1. ASSUME informed' = [informed EXCEPT ![cur[r].id] = @ \cup {"Started"}] PROVE FALSE
        BY <1>3, <4>1 DEF TypeInv, TypeOK
      <4> QED  BY <1>3, <3>1, <4>1 DEF Inform
    <3>3. cur["Join"].id = t
      BY <1>3, <3>2 DEF TypeInv, TypeOK
    <3> QED  BY <3>2, <3>3, WholeKept DEF ResultInv
  <2>2. ASSUME NEW r \in Queues, Reporting(r) PROVE FALSE
    <3>1. informed' = [informed EXCEPT ![cur[r].id] = @ \cup {"Failed"}]
      BY <1>3, <2>2, ReportingEffects
    <3> QED  BY <1>3, <2>2, <3>1, EndingMoves DEF TypeInv, TypeOK
  <2>3. ASSUME NEW r \in Queues, Ending(r) PROVE FALSE
    BY <1>3, <2>3, EndingEffects
  <2> QED
    BY <1>3, <2>1, <2>2, <2>3, NextSteps, UploadEffects, DisruptionEffects, DeliverEffects,
       Stutter
    DEF records
<1> QED  BY <1>1, <1>2, <1>3, WholeKept DEF ResultInv, CompletedHasResult

\* A completed task, or one whose user was told it is, has a whole result.
THEOREM CompletedHasResultHolds == Spec => []CompletedHasResult
<1>1. Init => ResultInv
  <2> SUFFICES ASSUME Init PROVE ResultInv
    OBVIOUS
  <2>1. pc["Join"] = "idle"
    BY DEF Init, Queues, Stages
  <2>2. \A t \in Tasks : status[t].st = "" /\ informed[t] = {}
    BY DEF Init
  <2> QED  BY <2>1, <2>2 DEF ResultInv, CompletedHasResult
<1>2. ResultInv => CompletedHasResult
  BY DEF ResultInv
<1> QED  BY <1>1, <1>2, ResultStep, TypeInvariant, PTL DEF Spec

-----------------------------------------------------------------------------
(* The refinement of TaskPromise. *)

\* Nothing is known of a task before it is accepted.
FreshInv ==
    \A t \in Tasks : upload[t] # "accepted" => history[t] = {} /\ \A q \in Queues : ~Near(q, t)

LEMMA FreshStep == TypeInv /\ FreshInv /\ [Next]_vars => FreshInv'
<1> SUFFICES ASSUME TypeInv, FreshInv, [Next]_vars, NEW t \in Tasks, upload'[t] # "accepted"
             PROVE  history'[t] = {} /\ \A q \in Queues : ~Near(q, t)'
  BY DEF FreshInv
<1>1. upload[t] # "accepted"
  <2>1. ASSUME NEW u \in Tasks, SaveRequest(u) \/ SendUpload(u) PROVE upload[t] # "accepted"
    BY <2>1 DEF SaveRequest, SendUpload, TypeInv, TypeOK
  <2>2. ASSUME NEW r \in Queues, Working(r) \/ Reporting(r) \/ Ending(r) \/ Deliver(r)
        PROVE  UNCHANGED upload
    BY <2>2, WorkingMoves, EndingMoves, DeliverEffects DEF environment
  <2> QED
    BY <2>1, <2>2, NextSteps, DisruptionEffects, Stutter DEF environment
<1>2. history[t] = {} /\ \A q \in Queues : ~Near(q, t)
  BY <1>1 DEF FreshInv
<1>3. \A q \in Queues : ~AtConsumer(q, t)
  BY <1>2 DEF Near
<1>4. ASSUME NEW q \in Queues, Near(q, t)' PROVE FALSE
  <2>1. SentTo(q, t)
    BY <1>2, <1>4, NearSource
  <2>2. PICK r \in Queues : cur[r].id = t /\ (Send(r) \/ SendFail(r))
    BY <2>1 DEF SentTo, Queues, Stages
  <2>3. cur[r] # None
    BY <2>2 DEF Send, SendFail, TypeInv, StepsInv
  <2> QED  BY <1>3, <2>2, <2>3 DEF AtConsumer
<1>5. ASSUME NEW r \in Queues, Working(r) \/ Reporting(r) \/ Ending(r)
      PROVE  history'[t] = history[t]
  <2>1. cur[r] # None /\ cur[r].id \in Tasks
    BY <1>5, WorkingMoves, EndingMoves, NoneAssumption
  <2>2. cur[r].id # t
    BY <1>3, <2>1 DEF AtConsumer
  <2>3. UNCHANGED history \/ \E marks : Mark(cur[r].id, marks)
    BY <1>5, WorkingEffects, ReportingEffects, EndingEffects
  <2> QED  BY <2>1, <2>2, <2>3 DEF Mark, TypeInv, TypeOK
<1>6. history'[t] = history[t]
  BY <1>5, NextSteps, UploadEffects, DisruptionEffects, DeliverEffects, Stutter DEF records
<1> QED  BY <1>2, <1>4, <1>6

FlightInv == TypeInv /\ LinkInv /\ FreshInv /\ NoTaskLost

flying == {t \in Tasks : InPipeline(t)}
outcomes == [t \in Tasks |-> history[t] \cap {"completed", "gaveUp"}]

\* A task comes into flight when the upload service sends it.
LEMMA FlightStarts ==
    ASSUME FlightInv, FlightInv', [Next]_vars, NEW t \in Tasks, t \notin flying, t \in flying'
    PROVE  SendUpload(t) /\ outcomes[t] = {}
<1> USE DEF FlightInv
<1>1. Stages \subseteq Queues
  BY DEF Queues
<1>2. \A q \in Stages : ~Near(q, t)
  BY <1>1, NearIsHeld DEF flying, InPipeline
<1>3. PICK q \in Stages : Near(q, t)'
  <2>1. PICK q \in Stages : Held(q, t)'
    BY DEF flying, InPipeline
  <2>2. Held(q, t)' => Near(q, t)'
    BY DEF Held, Near, InQueue, AtConsumer
  <2> QED  BY <2>1, <2>2
<1>4. SentTo(q, t)
  BY <1>1, <1>2, <1>3, NearSource
<1>5. ASSUME NEW r \in {"Upload", "Split", "Synthesize"}, Send(r), cur[r].id = t, pc[r] = "send"
      PROVE  FALSE
  <2>1. r \in Stages /\ cur[r] # None
    BY <1>1, <1>5 DEF TypeInv, StepsInv, Stages
  <2> QED  BY <1>2, <1>5, <2>1 DEF Near, AtConsumer
<1>6. q # "Fail"
  BY DEF Stages
<1>7. SendUpload(t)
  BY <1>4, <1>5, <1>6 DEF SentTo
<1>8. upload[t] # "accepted"
  BY <1>7 DEF SendUpload
<1> QED  BY <1>7, <1>8 DEF FreshInv, outcomes

\* A task goes out of flight when a handler of it ends, and with an outcome.
LEMMA FlightEnds ==
    ASSUME FlightInv, FlightInv', [Next]_vars, NEW t \in Tasks, t \in flying, t \notin flying'
    PROVE  /\ \E q \in Stages : AtConsumer(q, t) /\ Ending(q)
           /\ outcomes'[t] # {}
<1> USE DEF FlightInv
<1>1. Stages \subseteq Queues
  BY DEF Queues
<1>2. PICK q \in Stages : Near(q, t)
  BY <1>1, NearIsHeld DEF flying, InPipeline
<1>3. ~Near(q, t)'
  <2>1. ~Held(q, t)'
    BY DEF flying, InPipeline
  <2>2. ~linked' => (cur'[q] # None => InQueue(q, cur[q].id)')
    BY <1>1 DEF LinkInv, InQueue
  <2> QED  BY <1>1, <2>1, <2>2 DEF LinkInv, Near, Held, InQueue, AtConsumer
<1>4. AtConsumer(q, t) /\ Ending(q)
  BY <1>1, <1>2, <1>3, NearLeaves
<1>5. upload'[t] = "accepted"
  <2>1. upload[t] = "accepted"
    BY <1>1, <1>2 DEF FreshInv
  <2> QED  BY <1>1, <1>4, <2>1, EndingMoves DEF environment
<1>6. ~InPipeline(t)'
  BY DEF flying
<1> QED  BY <1>4, <1>5, <1>6 DEF NoTaskLost, outcomes

\* The steps of two handlers do not coincide.
LEMMA OneEnds ==
    ASSUME TypeInv, NEW q \in Queues, NEW r \in Queues, Ending(q), Working(r) \/ Ending(r)
    PROVE  r = q
<1>1. pc[q] # "idle" /\ pc' = [pc EXCEPT ![q] = "idle"]
  BY EndingEffects DEF Ending, Ack, AbandonOnStop, NackRequeue, NackDrop
<1>2. \E s : pc' = [pc EXCEPT ![r] = s]
  BY WorkingMoves, EndingEffects DEF Succeeds, FailsWith
<1> QED  BY <1>1, <1>2 DEF TypeInv, TypeOK

\* An outcome is met by the task of a handler of the stages.
LEMMA OutcomeMoves ==
    ASSUME FlightInv, [Next]_vars, outcomes' # outcomes
    PROVE  \E q \in Stages : \E o \in {"completed", "gaveUp"} :
               /\ cur[q].id \in flying
               /\ Working(q) \/ Ending(q)
               /\ outcomes' = [outcomes EXCEPT ![cur[q].id] = @ \cup {o}]
<1> USE DEF FlightInv
<1>1. history' # history
  BY DEF outcomes
<1>2. history \in [Tasks -> SUBSET Marks]
  BY DEF TypeInv, TypeOK
<1>3. ASSUME NEW t \in Tasks, NEW mark, Mark(t, {mark})
      PROVE  /\ mark \in {"completed", "gaveUp"}
             /\ outcomes' = [outcomes EXCEPT ![t] = @ \cup {mark}]
  <2>1. \A u \in Tasks : history'[u] = IF u = t THEN history[u] \cup {mark} ELSE history[u]
    BY <1>2, <1>3 DEF Mark
  <2>2. mark \in {"completed", "gaveUp"}
    <3>1. ASSUME mark \notin {"completed", "gaveUp"} PROVE FALSE
      <4>1. \A u \in Tasks : history'[u] \cap {"completed", "gaveUp"}
                                = history[u] \cap {"completed", "gaveUp"}
        BY <2>1, <3>1
      <4> QED  BY <4>1 DEF outcomes
    <3> QED  BY <3>1
  <2>3. \A u \in Tasks : history'[u] \cap {"completed", "gaveUp"}
            = IF u = t THEN (history[u] \cap {"completed", "gaveUp"}) \cup {mark}
                       ELSE history[u] \cap {"completed", "gaveUp"}
    BY <2>1, <2>2
  <2>4. outcomes' = [u \in Tasks |->
            IF u = t THEN (history[u] \cap {"completed", "gaveUp"}) \cup {mark}
                     ELSE history[u] \cap {"completed", "gaveUp"}]
    BY <2>3 DEF outcomes
  <2> QED  BY <2>2, <2>4 DEF outcomes
<1>4. PICK q \in Queues : Working(q) \/ Reporting(q) \/ Ending(q)
  BY <1>1, NextSteps, UploadEffects, DisruptionEffects, DeliverEffects, Stutter DEF records
<1>5. cur[q] # None /\ cur[q].id \in Tasks
  BY <1>4, WorkingMoves, EndingMoves, NoneAssumption
<1>6. Working(q) \/ Ending(q)
  <2>1. ASSUME NEW marks \in ReportMarks, Mark(cur[q].id, marks) PROVE FALSE
    <3>1. \A u \in Tasks : history'[u] \cap {"completed", "gaveUp"}
                              = history[u] \cap {"completed", "gaveUp"}
      BY <1>2, <1>5, <2>1 DEF Mark, ReportMarks
    <3> QED  BY <3>1 DEF outcomes
  <2>2. ~Reporting(q)
    BY <1>1, <2>1, ReportingEffects
  <2> QED  BY <1>4, <2>2
<1>9. PICK mark \in {"completed", "gaveUp", "refundDropped"} : Mark(cur[q].id, {mark})
  BY <1>1, <1>6, WorkingEffects, EndingEffects
<1>7. mark \in {"completed", "gaveUp"}
      /\ outcomes' = [outcomes EXCEPT ![cur[q].id] = @ \cup {mark}]
  BY <1>3, <1>5, <1>9
<1>8. ASSUME NEW m, m # mark PROVE ~Mark(cur[q].id, {m})
  <2>1. mark \in history'[cur[q].id] /\ mark \notin history[cur[q].id]
    BY <1>1, <1>2, <1>5, <1>9 DEF Mark
  <2> QED  BY <1>2, <1>5, <1>8, <2>1 DEF Mark
<1>10. q # "Fail"
  <2>1. ASSUME q = "Fail", Working(q) PROVE FALSE
    BY <1>1, <2>1
       DEF Working, SaveStatus, StartSplit, FinishSplit, DoSynthesize, Inform, Send,
           RestoreUsage
  <2>2. ASSUME q = "Fail", NackDrop(q) PROVE FALSE
    <3>1. Mark(cur[q].id, {"refundDropped"}) \/ Mark(cur[q].id, {})
      BY <2>2 DEF NackDrop
    <3>2. Mark(cur[q].id, {}) => history' = history
      BY <1>2, <1>5 DEF Mark
    <3> QED  BY <1>1, <1>7, <1>8, <3>1, <3>2
  <2>3. Ending(q) => NackDrop(q)
    BY <1>1, EndingEffects
  <2> QED  BY <1>6, <2>1, <2>2, <2>3
<1>11. q \in Stages
  BY <1>10 DEF Queues
<1>12. cur[q].id \in flying
  <2>1. Near(q, cur[q].id)
    BY <1>5 DEF Near, AtConsumer
  <2> QED  BY <1>5, <1>11, <2>1, NearIsHeld DEF flying, InPipeline
<1> QED  BY <1>6, <1>7, <1>11, <1>12

LEMMA PromiseStep ==
    ASSUME FlightInv, FlightInv', [Next]_vars
    PROVE  [Promise!Next]_Promise!vars
<1> USE DEF FlightInv
<1>1. /\ Promise!vars = <<flying, outcomes>>
      /\ Promise!vars' = <<flying', outcomes'>>
  BY DEF Promise!vars, flying, outcomes
<1>2. ASSUME NEW t \in Tasks, t \notin flying, t \in flying' PROVE Promise!Next
  <2>1. SendUpload(t) /\ outcomes[t] = {}
    BY <1>2, FlightStarts
  <2>2. \A u \in Tasks : SendUpload(u) => u = t
    <3>1. upload \in [Tasks -> {"none", "saved", "accepted", "refused"}]
      BY DEF TypeInv, TypeOK
    <3>2. ASSUME NEW v \in Tasks, SendUpload(v)
          PROVE  upload'[v] # upload[v] /\ \A w \in Tasks \ {v} : upload'[w] = upload[w]
      BY <3>1, <3>2 DEF SendUpload
    <3> QED  BY <2>1, <3>2
  <2>3. \A q \in Queues : ~Ending(q)
    <3>1. UNCHANGED pc
      BY <2>1 DEF SendUpload, handlers
    <3>2. ASSUME NEW q \in Queues, Ending(q) PROVE FALSE
      <4>1. pc[q] # "idle" /\ pc'[q] = "idle"
        BY <3>2, EndingEffects
        DEF Ending, Ack, AbandonOnStop, NackRequeue, NackDrop, TypeInv, TypeOK
      <4> QED  BY <3>1, <4>1
    <3> QED  BY <3>2
  <2>4. flying' = flying \cup {t}
    <3>1. \A u \in Tasks : u \in flying' => u \in flying \cup {t}
      BY <2>2, FlightStarts
    <3>2. \A u \in Tasks : u \in flying => u \in flying'
      BY <2>3, FlightEnds DEF Queues
    <3> QED  BY <1>2, <3>1, <3>2 DEF flying
  <2>5. outcomes' = outcomes
    BY <2>1 DEF SendUpload, outcomes
  <2>6. Promise!Accept(t)
    BY <1>2, <2>1, <2>4, <2>5 DEF Promise!Accept, flying, outcomes
  <2> QED  BY <2>6 DEF Promise!Next
<1>3. ASSUME NEW t \in Tasks, t \in flying, t \notin flying', flying' \subseteq flying
      PROVE  Promise!Next
  <2>1. PICK q \in Stages : AtConsumer(q, t) /\ Ending(q)
    BY <1>3, FlightEnds
  <2>2. outcomes'[t] # {} /\ q \in Queues /\ cur[q].id = t
    BY <1>3, <2>1, FlightEnds DEF Queues, AtConsumer
  <2>3. flying' = flying \ {t}
    <3>1. ASSUME NEW u \in Tasks, u \in flying, u \notin flying' PROVE u = t
      <4>1. PICK r \in Stages : AtConsumer(r, u) /\ Ending(r)
        BY <3>1, FlightEnds
      <4>2. r = q
        BY <2>1, <2>2, <4>1, OneEnds DEF Queues
      <4> QED  BY <2>2, <4>1, <4>2 DEF AtConsumer
    <3> QED  BY <1>3, <3>1 DEF flying
  <2>4. CASE outcomes' = outcomes
    <3>1. Promise!Leave(t)
      BY <1>3, <2>2, <2>3, <2>4 DEF Promise!Leave, flying, outcomes
    <3> QED  BY <3>1 DEF Promise!Next
  <2>5. CASE outcomes' # outcomes
    <3>1. PICK r \in Stages : \E o \in {"completed", "gaveUp"} :
            (Working(r) \/ Ending(r)) /\ outcomes' = [outcomes EXCEPT ![cur[r].id] = @ \cup {o}]
      BY <2>5, OutcomeMoves
    <3>2. r = q
      BY <2>1, <2>2, <3>1, OneEnds DEF Queues
    <3>3. PICK o \in {"completed", "gaveUp"} : outcomes' = [outcomes EXCEPT ![t] = @ \cup {o}]
      BY <2>2, <3>1, <3>2
    <3>4. Promise!Settle(t)
      BY <1>3, <2>3, <3>3 DEF Promise!Settle, Promise!Outcomes, flying, outcomes
    <3> QED  BY <3>4 DEF Promise!Next
  <2> QED  BY <2>4, <2>5
<1>4. ASSUME flying' = flying, outcomes' # outcomes PROVE Promise!Next
  <2>1. PICK q \in Stages : \E o \in {"completed", "gaveUp"} :
          cur[q].id \in flying /\ outcomes' = [outcomes EXCEPT ![cur[q].id] = @ \cup {o}]
    BY <1>4, OutcomeMoves
  <2>2. PICK t \in Tasks : t = cur[q].id
    BY <2>1 DEF flying
  <2>3. PICK o \in {"completed", "gaveUp"} :
          t \in flying /\ outcomes' = [outcomes EXCEPT ![t] = @ \cup {o}]
    BY <2>1, <2>2
  <2>4. Promise!Settle(t)
    BY <1>4, <2>3 DEF Promise!Settle, Promise!Outcomes, flying, outcomes
  <2> QED  BY <2>4 DEF Promise!Next
<1>5. CASE \E t \in Tasks : t \notin flying /\ t \in flying'
  BY <1>2, <1>5
<1>6. CASE ~\E t \in Tasks : t \notin flying /\ t \in flying'
  <2>1. flying' \subseteq flying
    BY <1>6 DEF flying
  <2>2. CASE flying' = flying
    BY <1>1, <1>4, <2>2
  <2>3. CASE flying' # flying
    <3>1. \E t \in Tasks : t \in flying /\ t \notin flying'
      BY <2>1, <2>3 DEF flying
    <3> QED  BY <1>3, <2>1, <3>1
  <2> QED  BY <2>2, <2>3
<1> QED  BY <1>5, <1>6

\* The pipeline keeps TaskPromise: a task stays in flight until it has an
\* outcome, and never comes back.
THEOREM KeepsPromiseHolds == Spec => KeepsPromise
<1>1. Init => LinkInv /\ FreshInv /\ Promise!Init
  <2> SUFFICES ASSUME Init PROVE LinkInv /\ FreshInv /\ Promise!Init
    OBVIOUS
  <2>1. \A q \in Queues : cur[q] = None /\ \A t \in Tasks : ~InQueue(q, t)
    <3>1. ~(0 > 0)
      OBVIOUS
    <3> QED  BY <3>1 DEF Init, InQueue
  <2>2. LinkInv /\ FreshInv
    BY <2>1 DEF Init, LinkInv, FreshInv, Near, AtConsumer
  <2>3. {t \in Tasks : InPipeline(t)} = {}
    <3>1. \A t \in Tasks : ~InPipeline(t)
      BY <2>1 DEF InPipeline, Held, InQueue, Queues
    <3> QED  BY <3>1
  <2>4. [t \in Tasks |-> history[t] \cap {"completed", "gaveUp"}] = [t \in Tasks |-> {}]
    BY DEF Init
  <2> QED  BY <2>2, <2>3, <2>4 DEF Promise!Init
<1>2. TypeInv /\ LinkInv /\ [Next]_vars => LinkInv'
  BY LinkStep
<1>3. TypeInv /\ FreshInv /\ [Next]_vars => FreshInv'
  BY FreshStep
<1>4. FlightInv /\ FlightInv' /\ [Next]_vars => [Promise!Next]_Promise!vars
  BY PromiseStep
<1> QED
  BY <1>1, <1>2, <1>3, <1>4, TypeInvariant, NoTaskLostHolds, PTL
  DEF Spec, FlightInv, KeepsPromise, Promise!Spec

==============================================================================
