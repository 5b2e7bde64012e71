------------------------ MODULE PipelineOutcomeProofs -------------------------
(***************************************************************************)
(* Proofs about how a task ends when no delivery is repeated by a shutdown,*)
(* a lost connection or a crash: its calls may fail, any number of times.  *)
(***************************************************************************)
EXTENDS PipelineProofs

-----------------------------------------------------------------------------
(* The steps of a run without disruptions. *)

Calm == disruptions = 0

CalmInv == Calm => linked /\ ~stopping

\* No process ends, and every step is one of a consumer or of the upload
\* service.
LEMMA CalmSteps ==
    ASSUME TypeInv, CalmInv, [Next]_vars, Calm'
    PROVE  /\ Calm /\ linked /\ ~stopping /\ linked' /\ ~stopping'
           /\ \/ \E q \in Queues : Working(q) \/ Reporting(q) \/ Ending(q) \/ Deliver(q)
              \/ \E t \in Tasks : SaveRequest(t) \/ SendUpload(t)
              \/ UNCHANGED vars
<1>1. ASSUME NEW kind, Disrupts(kind) PROVE FALSE
  BY <1>1 DEF Disrupts, Calm, TypeInv, TypeOK
<1>2. ~Stop /\ ~LoseConnection /\ ~Crash
  BY <1>1 DEF Stop, LoseConnection, Crash
<1>3. ~Exit /\ ~Start
  BY DEF Exit, Start, Down, Calm, CalmInv
<1>4. \/ \E q \in Queues : Working(q) \/ Reporting(q) \/ Ending(q) \/ Deliver(q)
      \/ \E t \in Tasks : SaveRequest(t) \/ SendUpload(t)
      \/ UNCHANGED vars
  BY <1>2, <1>3, HandlerSteps DEF Next, Rest
<1>5. UNCHANGED <<linked, stopping, disruptions>>
  <2>1. ASSUME NEW q \in Queues, Working(q) \/ Reporting(q) \/ Ending(q) \/ Deliver(q)
        PROVE  UNCHANGED <<linked, stopping, disruptions>>
    BY <2>1, WorkingMoves, EndingMoves, DeliverEffects DEF environment
  <2>2. ASSUME NEW t \in Tasks, SaveRequest(t) \/ SendUpload(t)
        PROVE  UNCHANGED <<linked, stopping, disruptions>>
    BY <2>2 DEF SaveRequest, SendUpload
  <2> QED  BY <1>4, <2>1, <2>2, Stutter DEF environment
<1> QED  BY <1>4, <1>5 DEF Calm, CalmInv

LEMMA CalmStep == TypeInv /\ CalmInv /\ [Next]_vars => CalmInv'
BY CalmSteps DEF CalmInv

\* A consumer's own steps move it.
LEMMA ConsumerMoves ==
    ASSUME TypeInv, CalmInv, [Next]_vars, Calm', NEW q \in Queues
    PROVE  \/ pc'[q] = pc[q] /\ cur'[q] = cur[q]
           \/ Working(q) \/ Reporting(q) \/ Ending(q) \/ Deliver(q)
BY OthersStay, CalmSteps, UploadEffects, Stutter

-----------------------------------------------------------------------------
(* Who does what to a task. *)

\* Only failing calls are counted, and none is forgotten.
LEMMA TroubleMoves ==
    ASSUME TypeInv, [Next]_vars
    PROVE  UNCHANGED trouble \/ \E kind \in FaultKinds : Occurs(kind)
<1>1. ASSUME NEW q \in Queues, Working(q) \/ Reporting(q) \/ Ending(q) \/ Deliver(q)
      PROVE  UNCHANGED trouble \/ \E kind \in FaultKinds : Occurs(kind)
  BY <1>1, WorkingMoves, ReportingEffects, EndingEffects DEF Deliver
<1>2. ASSUME NEW t \in Tasks, SaveRequest(t) \/ SendUpload(t)
      PROVE  UNCHANGED trouble \/ \E kind \in FaultKinds : Occurs(kind)
  BY <1>2 DEF SaveRequest, SendUpload, FaultKinds
<1>3. Stop \/ Start \/ LoseConnection \/ ProcessEnds \/ UNCHANGED vars => UNCHANGED trouble
  BY DEF Stop, Start, LoseConnection, ProcessEnds, store, vars
<1> QED  BY <1>1, <1>2, <1>3, NextSteps

\* A result file is never removed.
LEMMA ResultKept ==
    ASSUME TypeInv, [Next]_vars, NEW t \in Tasks, result[t] # "none"
    PROVE  result'[t] # "none"
<1>1. ASSUME NEW q \in Queues, Working(q) PROVE result'[t] # "none"
  <2>1. \/ UNCHANGED result
        \/ \E r \in {"torn", "whole"} : result' = [result EXCEPT ![cur[q].id] = r]
    BY <1>1, WorkingEffects
  <2> QED  BY <2>1 DEF TypeInv, TypeOK
<1>2. (\E q \in Queues : Working(q)) \/ UNCHANGED result
  BY NextSteps, ReportingEffects, EndingEffects, UploadEffects, DisruptionEffects,
     DeliverEffects, Stutter DEF records
<1> QED  BY <1>1, <1>2

\* A task is given up by the stage that drops its message, and a refund is
\* owed by the stage that sends for it.
LEMMA MarkSource ==
    ASSUME TypeInv, [Next]_vars, NEW t \in Tasks,
           NEW mark \in {"gaveUp", "refundDue"}, mark \in history'[t], mark \notin history[t]
    PROVE  \E q \in Stages :
               /\ AtConsumer(q, t)
               /\ \/ mark = "gaveUp" /\ NackDrop(q)
                  \/ mark = "refundDue" /\ SendFail(q)
<1>1. ASSUME NEW u \in Tasks, NEW marks, Mark(u, marks) PROVE u = t /\ mark \in marks
  BY <1>1 DEF Mark, TypeInv, TypeOK
<1>2. ASSUME NEW q \in Queues, Working(q) PROVE FALSE
  <2>1. cur[q].id \in Tasks
    BY <1>2, WorkingMoves
  <2>2. UNCHANGED history \/ Mark(cur[q].id, {"completed"})
    BY <1>2, WorkingEffects
  <2>3. mark # "completed" /\ ~UNCHANGED history
    OBVIOUS
  <2> QED  BY <1>1, <2>1, <2>2, <2>3
<1>3. ASSUME NEW q \in Queues, Reporting(q)
      PROVE  mark = "refundDue" /\ AtConsumer(q, t) /\ SendFail(q) /\ q \in Stages
  <2>1. cur[q] \in Msgs /\ cur[q].id \in Tasks
    BY <1>3, EndingMoves
  <2>2. \E marks \in ReportMarks : Mark(cur[q].id, marks)
    BY <1>3, ReportingEffects
  <2>3. cur[q].id = t /\ mark = "refundDue"
    BY <1>1, <2>1, <2>2 DEF ReportMarks
  <2>4. ~LastFailure(q)
    <3>1. ASSUME LastFailure(q) PROVE Mark(t, {"blamed"}) \/ Mark(t, {})
      BY <2>3, <3>1 DEF LastFailure
    <3> QED  BY <1>1, <2>3, <3>1
  <2>5. ~SaveError(q) /\ ~InformFailed(q)
    BY DEF SaveError, InformFailed
  <2>6. SendFail(q) /\ NeedToRestore(q, cur[q], cause[q])
    BY <1>3, <2>4, <2>5 DEF Reporting, SendFail
  <2>7. AtConsumer(q, t)
    BY <2>1, <2>3, NoneAssumption DEF AtConsumer
  <2> QED  BY <2>3, <2>6, <2>7 DEF NeedToRestore, Queues
<1>4. ASSUME NEW q \in Queues, Ending(q)
      PROVE  mark = "gaveUp" /\ AtConsumer(q, t) /\ NackDrop(q) /\ q \in Stages
  <2>1. cur[q] \in Msgs /\ cur[q].id \in Tasks
    BY <1>4, EndingMoves
  <2>2. linked /\ NackDrop(q) /\ \E other \in {"gaveUp", "refundDropped"} : Mark(cur[q].id, {other})
    BY <1>4, EndingEffects
  <2>3. Mark(cur[q].id, {"gaveUp"}) /\ cur[q].id = t /\ mark = "gaveUp"
    BY <1>1, <2>1, <2>2
  <2>4. q # "Fail"
    <3>1. q = "Fail" => Mark(t, {"refundDropped"})
      BY <2>2, <2>3 DEF NackDrop
    <3> QED  BY <1>1, <2>3, <3>1
  <2> QED  BY <2>1, <2>2, <2>3, <2>4, NoneAssumption DEF AtConsumer, Queues
<1>5. \E q \in Queues : Working(q) \/ Reporting(q) \/ Ending(q)
  BY NextSteps, UploadEffects, DisruptionEffects, DeliverEffects, Stutter DEF records
<1> QED  BY <1>2, <1>3, <1>4, <1>5

\* Nobody is told anything of a task but by a consumer that has it.
LEMMA InformedSource ==
    ASSUME TypeInv, [Next]_vars, NEW t \in Tasks
    PROVE  /\ informed[t] \subseteq informed'[t]
           /\ \A type \in informed'[t] \ informed[t] : \E q \in Queues :
                  /\ AtConsumer(q, t)
                  /\ \/ type = "Failed" /\ InformFailed(q)
                     \/ type = "Started" /\ Inform(q)
                     \/ type = "Finished" /\ q = "Join" /\ Inform(q) /\ pc'[q] = "ack"
<1> DEFINE Goal ==
      /\ informed[t] \subseteq informed'[t]
      /\ \A type \in informed'[t] \ informed[t] : \E q \in Queues :
             /\ AtConsumer(q, t)
             /\ \/ type = "Failed" /\ InformFailed(q)
                \/ type = "Started" /\ Inform(q)
                \/ type = "Finished" /\ q = "Join" /\ Inform(q) /\ pc'[q] = "ack"
<1>1. UNCHANGED informed => Goal
  OBVIOUS
<1>2. ASSUME NEW q \in Queues, Working(q), ~UNCHANGED informed PROVE Goal
  <2>1. cur[q] \in Msgs /\ cur[q].id \in Tasks /\ cur[q] # None
    BY <1>2, WorkingMoves, NoneAssumption
  <2>2. Inform(q)
    BY <1>2
       DEF Working, SaveStatus, StartSplit, FinishSplit, DoSynthesize, Send, StartJoin,
           FinishJoin, CompleteStatus, RestoreUsage, outputs
  <2>3. /\ informed' = [informed EXCEPT ![cur[q].id] =
                            @ \cup {IF q = "Join" THEN "Finished" ELSE "Started"}]
        /\ Succeeds(q)
    BY <1>2, <2>2 DEF Inform
  <2>4. q = "Join" => pc'[q] = "ack"
    BY <2>2, <2>3, AfterStep DEF Inform, Succeeds, TypeInv, TypeOK
  <2> QED  BY <2>1, <2>2, <2>3, <2>4 DEF AtConsumer, TypeInv, TypeOK
<1>3. ASSUME NEW q \in Queues, Reporting(q), ~UNCHANGED informed PROVE Goal
  <2>1. cur[q] \in Msgs /\ cur[q].id \in Tasks /\ cur[q] # None
    BY <1>3, EndingMoves, NoneAssumption
  <2>2. InformFailed(q)
    BY <1>3 DEF Reporting, LastFailure, SaveError, SendFail, outputs
  <2>3. informed' = [informed EXCEPT ![cur[q].id] = @ \cup {"Failed"}]
    BY <1>3, <2>2 DEF InformFailed
  <2> QED  BY <2>1, <2>2, <2>3 DEF AtConsumer, TypeInv, TypeOK
<1>4. UNCHANGED informed \/ \E q \in Queues : Working(q) \/ Reporting(q)
  BY NextSteps, EndingEffects, UploadEffects, DisruptionEffects, DeliverEffects, Stutter
  DEF records
<1> QED  BY <1>1, <1>2, <1>3, <1>4

\* Who writes the record of the status table of a task.
LEMMA StatusSource ==
    ASSUME TypeInv, [Next]_vars, NEW t \in Tasks, status'[t] # status[t]
    PROVE  \/ SaveRequest(t)
           \/ \E q \in Queues :
                 /\ AtConsumer(q, t)
                 /\ \/ q \in Stages /\ SaveStatus(q) /\ pc[q] = "save"
                    \/ /\ q = "Join" /\ CompleteStatus /\ pc[q] = "complete"
                       /\ status' = Saved(t, "COMPLETED")
                    \/ SaveError(q) /\ status'[t].err
<1>1. ASSUME NEW u \in Tasks, NEW r, status' = [status EXCEPT ![u] = r] PROVE u = t
  BY <1>1 DEF TypeInv, TypeOK
<1>2. ASSUME NEW q \in Queues, Working(q)
      PROVE  /\ AtConsumer(q, t)
             /\ \/ q \in Stages /\ SaveStatus(q) /\ pc[q] = "save"
                \/ /\ q = "Join" /\ CompleteStatus /\ pc[q] = "complete"
                   /\ status' = Saved(t, "COMPLETED")
  <2>1. cur[q] \in Msgs /\ cur[q].id \in Tasks /\ cur[q] # None
    BY <1>2, WorkingMoves, NoneAssumption
  <2>2. \E st \in StatusNames : status' = Saved(cur[q].id, st)
    BY <1>2, WorkingEffects
  <2>3. AtConsumer(q, t)
    BY <1>1, <2>1, <2>2 DEF Saved, AtConsumer
  <2>4. SaveStatus(q) \/ (q = "Join" /\ CompleteStatus)
    BY <1>2
       DEF Working, StartSplit, FinishSplit, DoSynthesize, Inform, Send, StartJoin, FinishJoin,
           RestoreUsage
  <2>5. SaveStatus(q) => q \in Stages /\ pc[q] = "save"
    BY StepQueues DEF SaveStatus, TypeInv, StepsInv
  <2>6. CompleteStatus => pc["Join"] = "complete" /\ status' = Saved(cur["Join"].id, "COMPLETED")
    BY DEF CompleteStatus
  <2> QED  BY <2>3, <2>4, <2>5, <2>6 DEF AtConsumer
<1>3. ASSUME NEW q \in Queues, Reporting(q)
      PROVE  AtConsumer(q, t) /\ SaveError(q) /\ status'[t].err
  <2>1. cur[q] \in Msgs /\ cur[q].id \in Tasks /\ cur[q] # None
    BY <1>3, EndingMoves, NoneAssumption
  <2>2. SaveError(q)
    BY <1>3 DEF Reporting, LastFailure, InformFailed, SendFail
  <2>3. status' = SavedError(cur[q].id)
    BY <1>3, ReportingEffects
  <2>4. \A u \in Tasks : status'[u] = IF u = cur[q].id THEN [status[u] EXCEPT !.err = TRUE]
                                      ELSE status[u]
    BY <2>1, <2>3 DEF SavedError, TypeInv, TypeOK
  <2>5. t = cur[q].id /\ status'[t] = [status[t] EXCEPT !.err = TRUE]
    BY <2>4
  <2> QED  BY <2>1, <2>2, <2>5 DEF AtConsumer, TypeInv, TypeOK
<1>4. ASSUME NEW u \in Tasks, SaveRequest(u) \/ SendUpload(u) PROVE SaveRequest(t)
  <2>1. SaveRequest(u) /\ status' = Saved(u, "UPLOADED")
    BY <1>4, UploadEffects
  <2> QED  BY <1>1, <2>1 DEF Saved
<1> QED
  BY <1>2, <1>3, <1>4, NextSteps, EndingEffects, DisruptionEffects, DeliverEffects, Stutter

\* Only the consumer of the Fail queue gives back, once in a step.
LEMMA RestoredSource ==
    ASSUME TypeInv, [Next]_vars, NEW t \in Tasks, restored'[t] # restored[t]
    PROVE  AtConsumer("Fail", t) /\ RestoreUsage /\ restored'[t] = restored[t] + 1
<1>1. \E q \in Queues : Working(q)
  BY NextSteps, ReportingEffects, EndingEffects, UploadEffects, DisruptionEffects,
     DeliverEffects, Stutter DEF records
<1>2. PICK q \in Queues : Working(q)
  BY <1>1
<1>3. cur[q] \in Msgs /\ cur[q].id \in Tasks /\ cur[q] # None
  BY <1>2, WorkingMoves, NoneAssumption
<1>4. q = "Fail" /\ RestoreUsage
  BY <1>2
     DEF Working, SaveStatus, StartSplit, FinishSplit, DoSynthesize, Inform, Send, StartJoin,
         FinishJoin, CompleteStatus, outputs
<1>5. restored' = [restored EXCEPT ![cur[q].id] = IF @ < 2 THEN @ + 1 ELSE @]
  BY <1>2, WorkingEffects
<1>6. restored \in [Tasks -> 0 .. 2]
  BY DEF TypeInv, TypeOK
<1>7. cur[q].id = t /\ restored'[t] = restored[t] + 1
  BY <1>3, <1>5, <1>6
<1> QED  BY <1>3, <1>4, <1>7 DEF AtConsumer

\* A message that is waiting was, or has been sent or put back.
LEMMA MessageSource ==
    ASSUME TypeInv, CalmInv, [Next]_vars, Calm', NEW q \in Queues, NEW m \in Msgs,
           queue'[q][m] > 0
    PROVE  \/ queue[q][m] > 0
           \/ m.redelivered = "no"
           \/ NackRequeue(q) /\ cur[q] # None /\ m.id = cur[q].id
<1>1. ASSUME NEW r \in Queues, NEW k \in Msgs, queue' = Enqueued(r, k), queue[q][m] = 0
      PROVE  r = q /\ k = m
  BY <1>1, EnqueuedQueue DEF TypeInv, TypeOK
<1>2. queue[q][m] \in Nat
  BY DEF TypeInv, TypeOK
<1>3. \A t \in Tasks : \A e \in BOOLEAN :
          NewMsg(t, e) \in Msgs /\ NewMsg(t, e).redelivered = "no"
  BY MsgFacts DEF NewMsg
<1> SUFFICES ASSUME queue[q][m] = 0
             PROVE  m.redelivered = "no" \/ (NackRequeue(q) /\ cur[q] # None /\ m.id = cur[q].id)
  BY <1>2
<1>9. queue' # queue
  OBVIOUS
<1>4. ASSUME NEW r \in Queues, Working(r) PROVE m.redelivered = "no"
  <2>1. cur[r] \in Msgs /\ cur[r].id \in Tasks /\ cur[r].error \in BOOLEAN
    BY <1>4, WorkingMoves, MsgFacts
  <2>2. Send(r) /\ queue' = Enqueued(NextQueue[r], NewMsg(cur[r].id, cur[r].error))
    BY <1>4, WorkingEffects
  <2>3. r \in {"Upload", "Split", "Synthesize"}
    BY <2>2, StepQueues DEF Send, TypeInv, StepsInv
  <2>4. NextQueue[r] \in Queues
    BY <2>3 DEF NextQueue, Queues, Stages
  <2> QED  BY <1>1, <1>3, <2>1, <2>2, <2>4
<1>5. ASSUME NEW r \in Queues, Reporting(r) PROVE m.redelivered = "no"
  <2>1. cur[r].id \in Tasks /\ "Fail" \in Queues
    BY <1>5, EndingMoves DEF Queues
  <2>2. queue' = Enqueued("Fail", NewMsg(cur[r].id, TRUE))
    BY <1>5, <1>9, ReportingEffects
  <2>3. NewMsg(cur[r].id, TRUE) \in Msgs /\ NewMsg(cur[r].id, TRUE).redelivered = "no"
    BY <1>3, <2>1
  <2> QED  BY <1>1, <2>1, <2>2, <2>3
<1>6. ASSUME NEW r \in Queues, Ending(r)
      PROVE  NackRequeue(q) /\ cur[q] # None /\ m.id = cur[q].id
  <2>1. cur[r] \in Msgs /\ cur[r] # None /\ Nacked(cur[r]) \in Msgs /\ Nacked(cur[r]).id = cur[r].id
    <3>1. cur[r] \in Msgs
      BY <1>6, EndingMoves
    <3> QED  BY <3>1, MsgFacts, NoneAssumption
  <2>2. NackRequeue(r) /\ queue' = Enqueued(r, Nacked(cur[r]))
    BY <1>6, EndingEffects
  <2> QED  BY <1>1, <2>1, <2>2
<1>7. \A r \in Queues : ~Deliver(r)
  BY DeliverMoves
<1>8. ASSUME NEW t \in Tasks, SaveRequest(t) \/ SendUpload(t) PROVE m.redelivered = "no"
  <2>1. "Upload" \in Queues
    BY DEF Queues, Stages
  <2>2. queue' = Enqueued("Upload", NewMsg(t, FALSE))
    BY <1>8, <1>9, UploadEffects
  <2>3. NewMsg(t, FALSE) \in Msgs /\ NewMsg(t, FALSE).redelivered = "no"
    BY <1>3
  <2> QED  BY <1>1, <2>1, <2>2, <2>3
<1> QED
  BY <1>4, <1>5, <1>6, <1>7, <1>8, CalmSteps, Stutter

-----------------------------------------------------------------------------
(* One failing call gives no task up. *)

\* At least n calls have failed, or ffmpeg has begun the result of t.
Troubled(t, n) == faults >= n \/ result[t] # "none"

\* A message comes back only when its handler has failed, and a handler fails
\* only by a failing call or by a result that is there already.  So whoever
\* reports a message that had come back saw two failing calls.
RetryAt(q) ==
    /\ \A m \in Msgs : queue[q][m] > 0 /\ m.redelivered # "no" => Troubled(m.id, 1)
    /\ cur[q] # None /\ cur[q].redelivered # "no" => Troubled(cur[q].id, 1)
    /\ pc[q] \in Failing =>
           /\ Troubled(cur[q].id, 1)
           /\ cur[q].redelivered # "no" => Troubled(cur[q].id, 2)
    /\ pc[q] \in Failing \ {"error"} => cur[q].redelivered # "no"

RetryInv ==
    Calm => /\ \A q \in Stages : RetryAt(q)
            /\ \A t \in Tasks : "gaveUp" \in history[t] => Troubled(t, 2)

LEMMA TroubleKept ==
    ASSUME TypeInv, [Next]_vars, NEW t \in Tasks, NEW n \in Nat, Troubled(t, n)
    PROVE  Troubled(t, n)'
<1>1. faults' >= faults
  BY TroubleMoves DEF trouble, Occurs, TypeInv, TypeOK
<1>2. faults \in Nat /\ faults' \in Nat
  BY TypeStep, BoundsAssumption DEF TypeInv, TypeOK
<1> QED  BY <1>1, <1>2, ResultKept DEF Troubled

\* A stage that fails while nothing shuts down has met one more trouble.
LEMMA WorkingTrouble ==
    ASSUME TypeInv, CalmInv, [Next]_vars, Calm', NEW q \in Stages, Working(q), pc'[q] \in Failing,
           NEW n \in {0, 1}, n = 0 \/ Troubled(cur[q].id, n)
    PROVE  Troubled(cur[q].id, n + 1)'
<1>1. q \in Queues /\ q # "Fail"
  BY DEF Queues, Stages
<1>2. ~Succeeds(q)
  BY <1>1, WorkingMoves, AfterSteps DEF Succeeds, TypeInv, TypeOK
<1>3. cur[q].id \in Tasks /\ UNCHANGED cur
  BY <1>1, WorkingMoves
<1>4. ~stopping
  BY CalmSteps
<1>5. faults' = faults + 1 \/ result[cur[q].id] # "none"
  BY <1>1, <1>2, <1>4
     DEF Working, SaveStatus, StartSplit, FinishSplit, DoSynthesize, Inform, Send, StartJoin,
         FinishJoin, CompleteStatus, Fails, Occurs
<1>6. faults \in Nat
  BY BoundsAssumption DEF TypeInv, TypeOK
<1>7. result[cur[q].id] # "none" => result'[cur[q].id] # "none"
  BY <1>3, ResultKept
<1> QED  BY <1>3, <1>5, <1>6, <1>7 DEF Troubled

LEMMA RetryAtStep ==
    ASSUME TypeInv, CalmInv, [Next]_vars, Calm', NEW q \in Stages, RetryAt(q)
    PROVE  RetryAt(q)'
<1>1. q \in Queues
  BY DEF Queues
<1>2. \A t \in Tasks : (Troubled(t, 1) => Troubled(t, 1)') /\ (Troubled(t, 2) => Troubled(t, 2)')
  BY TroubleKept
<1>3. TypeInv'
  BY TypeStep
<1>4. cur[q] # None => cur[q] \in Msgs /\ cur[q].id \in Tasks
  BY <1>1, MsgFacts DEF TypeInv, TypeOK
<1>5. pc[q] \in Failing => cur[q] # None
  BY <1>1 DEF TypeInv, StepsInv, Failing
<1>6. ASSUME NEW m \in Msgs, queue'[q][m] > 0, m.redelivered # "no" PROVE Troubled(m.id, 1)'
  <2>1. m.id \in Tasks
    BY MsgFacts
  <2>2. CASE queue[q][m] > 0
    BY <1>2, <1>6, <2>1, <2>2 DEF RetryAt
  <2>3. CASE NackRequeue(q) /\ m.id = cur[q].id
    <3>1. pc[q] \in Failing
      BY <2>3 DEF NackRequeue, Failing
    <3> QED  BY <1>2, <2>1, <2>3, <3>1 DEF RetryAt
  <2> QED  BY <1>1, <1>6, <2>2, <2>3, MessageSource
<1>7. CASE pc'[q] = pc[q] /\ cur'[q] = cur[q]
  BY <1>2, <1>4, <1>5, <1>6, <1>7 DEF RetryAt
<1>8. CASE Working(q)
  <2>1. cur'[q] = cur[q] /\ cur[q] # None
    BY <1>1, <1>8, WorkingMoves, NoneAssumption
  <2>2. pc'[q] \in Failing => pc'[q] = "error" /\ Troubled(cur[q].id, 1)'
    BY <1>1, <1>8, WorkingFails, WorkingTrouble DEF Succeeds
  <2>3. pc'[q] \in Failing /\ cur[q].redelivered # "no" => Troubled(cur[q].id, 2)'
    BY <1>8, <2>1, WorkingTrouble DEF RetryAt
  <2> QED  BY <1>2, <1>4, <1>6, <2>1, <2>2, <2>3 DEF RetryAt
<1>9. CASE Reporting(q)
  <2>1. cur'[q] = cur[q] /\ pc[q] \in Failing /\ cur[q] # None
    BY <1>1, <1>5, <1>9, ReportingEffects
  <2>2. cur[q].redelivered # "no"
    BY <1>9
       DEF Reporting, LastFailure, SaveError, InformFailed, SendFail, Requeue, RetryAt, Failing
  <2> QED  BY <1>2, <1>4, <1>6, <2>1, <2>2 DEF RetryAt
<1>10. CASE Ending(q)
  <2>1. pc'[q] = "idle" /\ (cur'[q] = None \/ cur'[q] = cur[q])
    BY <1>1, <1>10, EndingEffects DEF TypeInv, TypeOK
  <2> QED  BY <1>2, <1>4, <1>6, <2>1 DEF RetryAt, Failing
<1>11. CASE Deliver(q)
  <2>1. PICK m \in Msgs : queue[q][m] > 0 /\ cur' = [cur EXCEPT ![q] = m]
    BY <1>1, <1>11 DEF Deliver
  <2>2. cur'[q] = m /\ m.id \in Tasks
    BY <1>1, <2>1, MsgFacts DEF TypeInv, TypeOK
  <2>3. pc'[q] \notin Failing
    BY <1>1, <1>11, DeliveredTask, AfterSteps
  <2> QED  BY <1>2, <1>6, <2>1, <2>2, <2>3 DEF RetryAt
<1> QED  BY <1>1, <1>7, <1>8, <1>9, <1>10, <1>11, ConsumerMoves

LEMMA RetryStep == TypeInv /\ CalmInv /\ RetryInv /\ [Next]_vars => RetryInv'
<1> SUFFICES ASSUME TypeInv, CalmInv, RetryInv, [Next]_vars, Calm' PROVE RetryInv'
  BY DEF RetryInv
<1>1. Calm
  BY CalmSteps
<1>2. \A q \in Stages : RetryAt(q)'
  BY <1>1, RetryAtStep DEF RetryInv
<1>3. ASSUME NEW t \in Tasks, "gaveUp" \in history'[t] PROVE Troubled(t, 2)'
  <2>1. CASE "gaveUp" \in history[t]
    BY <1>1, <2>1, TroubleKept DEF RetryInv
  <2>2. CASE "gaveUp" \notin history[t]
    <3>1. PICK q \in Stages : AtConsumer(q, t) /\ NackDrop(q)
      BY <1>3, <2>2, MarkSource
    <3>2. pc[q] \in Failing \ {"error"} /\ cur[q].id = t
      BY <3>1 DEF NackDrop, AtConsumer, Failing
    <3>3. Troubled(t, 2)
      BY <1>1, <3>2 DEF RetryInv, RetryAt
    <3> QED  BY <3>3, TroubleKept
  <2> QED  BY <2>1, <2>2
<1> QED  BY <1>2, <1>3 DEF RetryInv

\* One failing call gives no task up, as long as no delivery is repeated and
\* until ffmpeg has begun its result.
THEOREM OneFailureRetriedHolds == Spec => []OneFailureRetried
<1>1. Init => CalmInv /\ RetryInv
  <2> SUFFICES ASSUME Init PROVE CalmInv /\ RetryInv
    OBVIOUS
  <2>1. ASSUME NEW q \in Stages PROVE RetryAt(q)
    <3>1. /\ pc[q] = "idle" /\ cur[q] = None
          /\ \A m \in Msgs : queue[q][m] = 0
      BY DEF Init, Queues
    <3> QED  BY <3>1 DEF RetryAt, Failing
  <2> QED  BY <2>1 DEF Init, CalmInv, RetryInv
<1>2. TypeInv /\ RetryInv => OneFailureRetried
  <2> SUFFICES ASSUME TypeInv, RetryInv, disruptions = 0, faults <= 1,
                      NEW t \in Tasks, "gaveUp" \in history[t]
               PROVE  result[t] # "none"
    BY DEF OneFailureRetried
  <2>1. Troubled(t, 2) /\ faults \in Nat
    BY BoundsAssumption DEF RetryInv, Calm, TypeInv, TypeOK
  <2> QED  BY <2>1 DEF Troubled
<1>3. TypeInv /\ CalmInv /\ RetryInv /\ [Next]_vars => (CalmInv /\ RetryInv)'
  BY CalmStep, RetryStep
<1> QED  BY <1>1, <1>2, <1>3, TypeInvariant, PTL DEF Spec

-----------------------------------------------------------------------------
(* The messages of a task move one at a time. *)

Works(q, t) == AtConsumer(q, t) /\ pc[q] # "ack"

NoneArrives(t) ==
    /\ \A q \in Queues : \A m \in Msgs : m.id = t => queue'[q][m] <= queue[q][m]
    /\ \A q \in Queues : Works(q, t)' => Works(q, t)

Taken(q, m, t) ==
    /\ queue[q][m] > 0
    /\ \A r \in Queues : \A k \in Msgs :
           queue'[r][k] = IF r = q /\ k = m THEN queue[r][k] - 1 ELSE queue[r][k]
    /\ \A r \in Queues \ {q} : Works(r, t)' => Works(r, t)

Arrives(q, m, t) ==
    /\ \A r \in Queues : \A k \in Msgs :
           queue'[r][k] = IF r = q /\ k = m THEN queue[r][k] + 1 ELSE queue[r][k]
    /\ \A r \in Queues : Works(r, t)' => Works(r, t)

\* Why a message of t comes to queue q: a handler puts it back, a stage passes
\* it on, the upload service accepts the task, or a stage asks for a refund.
Reason(q, t) ==
    \/ NackRequeue(q) /\ Works(q, t) /\ ~Works(q, t)'
    \/ /\ q \in Stages
       /\ \E s \in {"Upload", "Split", "Synthesize"} \ {q} :
              NextQueue[s] = q /\ Send(s) /\ Works(s, t) /\ ~Works(s, t)'
    \/ q = "Upload" /\ SendUpload(t) /\ upload[t] # "accepted"
    \/ q = "Fail" /\ \E s \in Stages : SendFail(s) /\ Works(s, t)

LEMMA EnqueuedCount ==
    ASSUME TypeInv, NEW q \in Queues, NEW m \in Msgs, queue' = Enqueued(q, m)
    PROVE  \A r \in Queues : \A k \in Msgs :
               queue'[r][k] = IF r = q /\ k = m THEN queue[r][k] + 1 ELSE queue[r][k]
<1>1. queue[q] \in [Msgs -> Nat]
  BY DEF TypeInv, TypeOK
<1> DEFINE bag == [queue[q] EXCEPT ![m] = @ + 1]
<1>2. \A k \in Msgs : bag[k] = IF k = m THEN queue[q][k] + 1 ELSE queue[q][k]
  BY <1>1
<1>3. queue' = [queue EXCEPT ![q] = bag]
  BY DEF Enqueued, Put
<1> HIDE DEF bag
<1>4. \A r \in Queues : queue'[r] = IF r = q THEN bag ELSE queue[r]
  BY <1>3 DEF TypeInv, TypeOK
<1> QED  BY <1>2, <1>4

LEMMA DeliveredCount ==
    ASSUME TypeInv, NEW q \in Queues, Deliver(q)
    PROVE  \E m \in Msgs :
               /\ queue[q][m] > 0 /\ cur' = [cur EXCEPT ![q] = m]
               /\ \A r \in Queues : \A k \in Msgs :
                      queue'[r][k] = IF r = q /\ k = m THEN queue[r][k] - 1 ELSE queue[r][k]
<1>1. PICK m \in Msgs :
        /\ queue[q][m] > 0
        /\ queue' = [queue EXCEPT ![q] = Take(@, m)]
        /\ cur' = [cur EXCEPT ![q] = m]
  BY DEF Deliver
<1>2. queue[q] \in [Msgs -> Nat]
  BY DEF TypeInv, TypeOK
<1> DEFINE bag == [queue[q] EXCEPT ![m] = @ - 1]
<1>3. \A k \in Msgs : bag[k] = IF k = m THEN queue[q][k] - 1 ELSE queue[q][k]
  BY <1>2
<1>4. queue' = [queue EXCEPT ![q] = bag]
  BY <1>1 DEF Take
<1> HIDE DEF bag
<1>5. \A r \in Queues : queue'[r] = IF r = q THEN bag ELSE queue[r]
  BY <1>4 DEF TypeInv, TypeOK
<1>6. \A r \in Queues : \A k \in Msgs :
          queue'[r][k] = IF r = q /\ k = m THEN queue[r][k] - 1 ELSE queue[r][k]
  BY <1>3, <1>5
<1> QED  BY <1>1, <1>6

\* A message for another task leaves t alone.
LEMMA OtherTask ==
    ASSUME TypeInv, NEW t \in Tasks, NEW q \in Queues, NEW m \in Msgs, m.id # t,
           queue' = Enqueued(q, m), \A r \in Queues : Works(r, t)' => Works(r, t)
    PROVE  NoneArrives(t)
<1>1. \A r \in Queues : \A k \in Msgs : queue[r][k] \in Nat
  BY DEF TypeInv, TypeOK
<1> QED  BY <1>1, EnqueuedCount DEF NoneArrives

LEMMA QueueStays ==
    ASSUME TypeInv, NEW t \in Tasks, UNCHANGED queue, \A r \in Queues : Works(r, t)' => Works(r, t)
    PROVE  NoneArrives(t)
BY DEF NoneArrives, TypeInv, TypeOK

LEMMA TaskMoves ==
    ASSUME TypeInv, CalmInv, [Next]_vars, Calm', NEW t \in Tasks
    PROVE  \/ NoneArrives(t)
           \/ \E q \in Queues : \E m \in Msgs : Deliver(q) /\ m.id = t /\ Taken(q, m, t)
           \/ \E q \in Queues : \E m \in Msgs : m.id = t /\ Arrives(q, m, t) /\ Reason(q, t)
<1> DEFINE Goal ==
      \/ NoneArrives(t)
      \/ \E q \in Queues : \E m \in Msgs : Deliver(q) /\ m.id = t /\ Taken(q, m, t)
      \/ \E q \in Queues : \E m \in Msgs : m.id = t /\ Arrives(q, m, t) /\ Reason(q, t)
<1>1. ASSUME NEW r \in Queues, Working(r) PROVE Goal
  <2>1. cur[r] \in Msgs /\ cur[r].id \in Tasks /\ UNCHANGED cur /\ cur[r] # None
    BY <1>1, WorkingMoves, NoneAssumption
  <2>2. pc[r] # "ack" /\ \A s \in Queues \ {r} : pc'[s] = pc[s]
    <3>1. "ack" \notin DOMAIN After[r]
      BY DEF After, AfterUpload, AfterSplit, AfterSynthesize, AfterJoin, AfterFail, Queues,
             Stages
    <3> QED  BY <1>1, <3>1, WorkingMoves, OthersStay
  <2>3. \A s \in Queues : Works(s, t)' => Works(s, t)
    BY <2>1, <2>2 DEF Works, AtConsumer
  <2>4. CASE Send(r) /\ queue' = Enqueued(NextQueue[r], NewMsg(cur[r].id, cur[r].error))
    <3>1. r \in {"Upload", "Split", "Synthesize"}
      BY <2>4, StepQueues DEF Send, TypeInv, StepsInv
    <3>2. NextQueue[r] \in Queues /\ NextQueue[r] \in Stages /\ r \in Stages \ {NextQueue[r]}
      BY <3>1 DEF NextQueue, Queues, Stages
    <3>3. /\ NewMsg(cur[r].id, cur[r].error) \in Msgs
          /\ NewMsg(cur[r].id, cur[r].error).id = cur[r].id
      BY <2>1, MsgFacts
    <3>4. CASE cur[r].id = t
      <4>1. queue' # queue
        BY <2>4, <3>2, <3>3, EnqueuedCount DEF TypeInv, TypeOK
      <4>2. pc'[r] = "ack"
        BY <2>4, <3>1, <4>1, AfterStep DEF Send, Succeeds, TypeInv, TypeOK
      <4>3. Reason(NextQueue[r], t)
        BY <2>1, <2>2, <2>4, <3>1, <3>2, <3>4, <4>2 DEF Reason, Works, AtConsumer
      <4>4. Arrives(NextQueue[r], NewMsg(cur[r].id, cur[r].error), t)
        BY <2>3, <2>4, <3>2, <3>3, EnqueuedCount DEF Arrives
      <4> QED  BY <3>2, <3>3, <3>4, <4>3, <4>4
    <3>5. CASE cur[r].id # t
      BY <2>3, <2>4, <3>2, <3>3, <3>5, OtherTask
    <3> QED  BY <3>4, <3>5
  <2> QED  BY <1>1, <2>3, <2>4, QueueStays, WorkingEffects
<1>2. ASSUME NEW r \in Queues, Reporting(r) PROVE Goal
  <2>1. cur[r] \in Msgs /\ cur[r].id \in Tasks /\ UNCHANGED cur /\ cur[r] # None
    BY <1>2, EndingMoves, ReportingEffects, NoneAssumption
  <2>2. pc[r] # "ack" /\ \A s \in Queues \ {r} : pc'[s] = pc[s]
    BY <1>2, ReportingEffects, OthersStay DEF Failing
  <2>3. \A s \in Queues : Works(s, t)' => Works(s, t)
    BY <2>1, <2>2 DEF Works, AtConsumer
  <2>4. CASE SendFail(r) /\ queue' = Enqueued("Fail", NewMsg(cur[r].id, TRUE))
    <3>1. /\ NewMsg(cur[r].id, TRUE) \in Msgs /\ NewMsg(cur[r].id, TRUE).id = cur[r].id
          /\ "Fail" \in Queues
      BY <2>1, MsgFacts DEF Queues
    <3>2. CASE cur[r].id = t
      <4>1. queue' # queue
        <5> DEFINE m == NewMsg(cur[r].id, TRUE)
        <5>1. m \in Msgs /\ "Fail" \in Queues /\ queue' = Enqueued("Fail", m)
          BY <2>4, <3>1
        <5> HIDE DEF m
        <5>2. queue'["Fail"][m] = queue["Fail"][m] + 1
          BY <5>1, EnqueuedCount
        <5>3. queue["Fail"][m] \in Nat
          BY <5>1 DEF TypeInv, TypeOK
        <5> QED  BY <5>2, <5>3
      <4>2. r \in Stages
        BY <2>4, <4>1 DEF SendFail, NeedToRestore, Queues
      <4>3. Reason("Fail", t)
        BY <2>1, <2>2, <2>4, <3>2, <4>2 DEF Reason, Works, AtConsumer
      <4>4. Arrives("Fail", NewMsg(cur[r].id, TRUE), t)
        BY <2>3, <2>4, <3>1, EnqueuedCount DEF Arrives
      <4> QED  BY <3>1, <3>2, <4>3, <4>4
    <3>3. CASE cur[r].id # t
      BY <2>3, <2>4, <3>1, <3>3, OtherTask
    <3> QED  BY <3>2, <3>3
  <2> QED  BY <1>2, <2>3, <2>4, QueueStays, ReportingEffects
<1>3. ASSUME NEW r \in Queues, Ending(r) PROVE Goal
  <2>1. cur[r] \in Msgs /\ cur[r].id \in Tasks /\ cur[r] # None
    BY <1>3, EndingMoves, NoneAssumption
  <2>2. ~AbandonOnStop(r)
    BY CalmSteps DEF AbandonOnStop
  <2>3. cur' = [cur EXCEPT ![r] = None]
    BY <1>3, <2>2, EndingEffects
  <2>4. \A s \in Queues \ {r} : pc'[s] = pc[s] /\ cur'[s] = cur[s]
    BY <1>3, OthersStay
  <2>5. (\A s \in Queues : Works(s, t)' => Works(s, t)) /\ ~Works(r, t)'
    BY <2>3, <2>4 DEF Works, AtConsumer, TypeInv, TypeOK
  <2>6. CASE NackRequeue(r) /\ queue' = Enqueued(r, Nacked(cur[r]))
    <3>1. Nacked(cur[r]) \in Msgs /\ Nacked(cur[r]).id = cur[r].id
      BY <2>1, MsgFacts
    <3>2. CASE cur[r].id = t
      <4>1. Reason(r, t)
        BY <2>1, <2>5, <2>6, <3>2 DEF Reason, Works, AtConsumer, NackRequeue
      <4>2. Arrives(r, Nacked(cur[r]), t)
        BY <2>5, <2>6, <3>1, EnqueuedCount DEF Arrives
      <4> QED  BY <3>1, <3>2, <4>1, <4>2
    <3>3. CASE cur[r].id # t
      BY <2>5, <2>6, <3>1, <3>3, OtherTask
    <3> QED  BY <3>2, <3>3
  <2> QED  BY <1>3, <2>5, <2>6, QueueStays, EndingEffects
<1>4. ASSUME NEW r \in Queues, Deliver(r) PROVE Goal
  <2>1. PICK m \in Msgs :
          /\ queue[r][m] > 0 /\ cur' = [cur EXCEPT ![r] = m]
          /\ \A s \in Queues : \A k \in Msgs :
                 queue'[s][k] = IF s = r /\ k = m THEN queue[s][k] - 1 ELSE queue[s][k]
    BY <1>4, DeliveredCount
  <2>2. \A s \in Queues \ {r} : Works(s, t)' => Works(s, t)
    BY <1>4, OthersStay DEF Works, AtConsumer
  <2>3. CASE m.id = t
    BY <1>4, <2>1, <2>2, <2>3 DEF Taken
  <2>4. CASE m.id # t
    <3>1. ~Works(r, t)'
      BY <2>1, <2>4 DEF Works, AtConsumer, TypeInv, TypeOK
    <3>2. \A s \in Queues : \A k \in Msgs : k.id = t => queue'[s][k] = queue[s][k]
      BY <2>1, <2>4
    <3>3. \A s \in Queues : \A k \in Msgs : queue[s][k] \in Nat
      BY DEF TypeInv, TypeOK
    <3> QED  BY <2>2, <3>1, <3>2, <3>3 DEF NoneArrives
  <2> QED  BY <2>3, <2>4
<1>5. ASSUME NEW u \in Tasks, SaveRequest(u) \/ SendUpload(u) PROVE Goal
  <2>1. \A s \in Queues : Works(s, t)' => Works(s, t)
    BY <1>5, UploadEffects DEF Works, AtConsumer
  <2>2. CASE SendUpload(u) /\ queue' = Enqueued("Upload", NewMsg(u, FALSE))
    <3>1. NewMsg(u, FALSE) \in Msgs /\ NewMsg(u, FALSE).id = u /\ "Upload" \in Queues
      BY MsgFacts DEF Queues, Stages
    <3>2. CASE u = t
      <4>1. Reason("Upload", t)
        BY <2>2, <3>2 DEF Reason, SendUpload
      <4>2. Arrives("Upload", NewMsg(u, FALSE), t)
        BY <2>1, <2>2, <3>1, EnqueuedCount DEF Arrives
      <4> QED  BY <3>1, <3>2, <4>1, <4>2
    <3>3. CASE u # t
      BY <2>1, <2>2, <3>1, <3>3, OtherTask
    <3> QED  BY <3>2, <3>3
  <2> QED  BY <1>5, <2>1, <2>2, QueueStays, UploadEffects
<1>6. UNCHANGED vars => Goal
  BY Stutter, QueueStays DEF Works, AtConsumer
<1> QED  BY <1>1, <1>2, <1>3, <1>4, <1>5, <1>6, CalmSteps

-----------------------------------------------------------------------------
(* A task is in one place at a time, and meets one outcome. *)

Has(q, t) == InQueue(q, t) \/ Works(q, t)

At(q, t, s) == AtConsumer(q, t) /\ pc[q] = s

\* A queue and its consumer have one message of t at most.
OneMessage(q, t) ==
    /\ \A m, k \in Msgs : m.id = t /\ k.id = t /\ queue[q][m] > 0 /\ queue[q][k] > 0
           => m = k /\ queue[q][m] = 1
    /\ ~(InQueue(q, t) /\ Works(q, t))

LoneTask(t) ==
    /\ \A q \in Queues : OneMessage(q, t)
    /\ \A q, r \in Stages : Has(q, t) /\ Has(r, t) => q = r

\* A task in the stages has no outcome; who was told of success is told of no
\* failure; a refund and the report of a failure belong to a task given up, or
\* about to be.
OutcomeTask(t) ==
    /\ (\E q \in Stages : Has(q, t)) => "gaveUp" \notin history[t] /\ "Finished" \notin informed[t]
    /\ "Finished" \in informed[t]
           => "Failed" \notin informed[t] /\ "gaveUp" \notin history[t] /\ "refundDue" \notin history[t]
    /\ "refundDue" \in history[t]
           => "gaveUp" \in history[t] \/ \E q \in Stages : At(q, t, "drop")
    /\ "Failed" \in informed[t]
           => \/ "gaveUp" \in history[t] \/ "refundDue" \in history[t]
              \/ \E q \in Stages : At(q, t, "sendFail") \/ At(q, t, "drop")
    /\ Near("Fail", t) \/ restored[t] > 0 => "refundDue" \in history[t]
    /\ upload[t] # "accepted" => informed[t] = {}

OutcomeInv == Calm => \A t \in Tasks : LoneTask(t) /\ OutcomeTask(t)

\* What holds in the state before a step of a run without disruptions.
BeforeStep == TypeInv /\ CalmInv /\ FreshInv /\ OutcomeInv /\ Calm /\ linked /\ ~stopping

LEMMA CopyIsHad == linked => \A q \in Queues : \A t \in Tasks : Copy(q, t) <=> Has(q, t)
BY DEF Copy, Has, Works

\* A stage that is neither idle nor at its Ack has its task, and no other
\* stage has it.
LEMMA HadByWorker ==
    ASSUME BeforeStep, NEW q \in Stages, NEW t \in Tasks, Works(q, t)
    PROVE  /\ Has(q, t) /\ ~InQueue(q, t)
           /\ \A r \in Stages \ {q} : ~Has(r, t)
           /\ "gaveUp" \notin history[t] /\ "Finished" \notin informed[t]
           /\ pc[q] # "drop" => "refundDue" \notin history[t]
           /\ pc[q] # "drop" /\ pc[q] # "sendFail" => "Failed" \notin informed[t]
<1>1. LoneTask(t) /\ OutcomeTask(t) /\ q \in Queues
  BY DEF BeforeStep, OutcomeInv, Queues
<1>2. Has(q, t) /\ ~InQueue(q, t) /\ \A r \in Stages \ {q} : ~Has(r, t)
  BY <1>1 DEF LoneTask, OneMessage, Has
<1>3. "gaveUp" \notin history[t] /\ "Finished" \notin informed[t]
  BY <1>1, <1>2 DEF OutcomeTask
<1>4. ASSUME NEW r \in Stages, NEW s \in {"sendFail", "drop"}, At(r, t, s) PROVE r = q
  BY <1>2, <1>4 DEF At, Has, Works
<1>5. pc[q] # "drop" => "refundDue" \notin history[t]
  BY <1>1, <1>3, <1>4 DEF OutcomeTask, At
<1>6. pc[q] # "drop" /\ pc[q] # "sendFail" => "Failed" \notin informed[t]
  BY <1>1, <1>3, <1>4, <1>5 DEF OutcomeTask, At
<1> QED  BY <1>2, <1>3, <1>5, <1>6

\* A message arrives where there is none, and in the stages when the task is
\* nowhere else in them.
LEMMA ArrivalAlone ==
    ASSUME BeforeStep, NEW t \in Tasks, NEW q \in Queues, NEW m \in Msgs,
           Arrives(q, m, t), Reason(q, t)
    PROVE  /\ ~InQueue(q, t) /\ ~Works(q, t)'
           /\ q \in Stages => \A r \in Stages : ~InQueue(r, t) /\ ~Works(r, t)'
<1>1. \A r \in Queues : Works(r, t)' => Works(r, t)
  BY DEF Arrives
<1>2. LoneTask(t) /\ OutcomeTask(t)
  BY DEF BeforeStep, OutcomeInv
<1>3. ASSUME NackRequeue(q), Works(q, t), ~Works(q, t)'
      PROVE  /\ ~InQueue(q, t) /\ ~Works(q, t)'
             /\ q \in Stages => \A r \in Stages : ~InQueue(r, t) /\ ~Works(r, t)'
  <2>1. ~InQueue(q, t)
    BY <1>2, <1>3 DEF LoneTask, OneMessage
  <2>2. q \in Stages => \A r \in Stages \ {q} : ~Has(r, t)
    BY <1>3, HadByWorker
  <2> QED  BY <1>1, <1>3, <2>1, <2>2 DEF Has, Queues
<1>4. ASSUME q \in Stages, NEW s \in Stages \ {q}, Works(s, t), ~Works(s, t)'
      PROVE  \A r \in Stages : ~InQueue(r, t) /\ ~Works(r, t)'
  <2>1. ~InQueue(s, t) /\ \A r \in Stages \ {s} : ~Has(r, t)
    BY <1>4, HadByWorker
  <2> QED  BY <1>1, <1>4, <2>1 DEF Has, Queues
<1>5. ASSUME upload[t] # "accepted"
      PROVE  \A r \in Queues : ~InQueue(r, t) /\ ~Works(r, t)'
  <2>1. \A r \in Queues : ~Near(r, t)
    BY <1>5 DEF BeforeStep, FreshInv
  <2> QED  BY <1>1, <2>1 DEF Near, Works
<1>6. ASSUME q = "Fail", NEW s \in Stages, SendFail(s), Works(s, t)
      PROVE  ~InQueue(q, t) /\ ~Works(q, t)' /\ q \notin Stages
  <2>1. pc[s] # "drop"
    BY <1>6 DEF SendFail
  <2>2. ~Near("Fail", t)
    BY <1>2, <1>6, <2>1, HadByWorker DEF OutcomeTask
  <2> QED  BY <1>1, <1>6, <2>2 DEF Near, Works, Stages
<1>7. {"Upload", "Split", "Synthesize"} \subseteq Stages
  BY DEF Stages
<1> QED  BY <1>3, <1>4, <1>5, <1>6, <1>7 DEF Reason, Queues

\* A task that nothing arrives for is where it was, or nowhere.
LEMMA HasMoves ==
    ASSUME BeforeStep, [Next]_vars, Calm', NEW t \in Tasks, NEW q \in Queues, Has(q, t)', ~Has(q, t)
    PROVE  Reason(q, t) /\ queue' # queue
<1>1. \A r \in Queues : \A k \in Msgs : queue[r][k] \in Nat /\ queue'[r][k] \in Nat
  BY TypeStep DEF BeforeStep, TypeInv, TypeOK
<1>2. CASE NoneArrives(t)
  BY <1>1, <1>2 DEF NoneArrives, Has, InQueue
<1>3. ASSUME NEW r \in Queues, NEW m \in Msgs, m.id = t, Taken(r, m, t) PROVE FALSE
  <2>1. q # r
    BY <1>3 DEF Taken, Has, InQueue
  <2> QED  BY <1>3, <2>1 DEF Taken, Has, InQueue
<1>4. ASSUME NEW r \in Queues, NEW m \in Msgs, m.id = t, Arrives(r, m, t) PROVE q = r
  BY <1>4 DEF Arrives, Has, InQueue
<1>5. ASSUME NEW m \in Msgs, Arrives(q, m, t) PROVE queue' # queue
  <2>1. queue'[q][m] = queue[q][m] + 1
    BY <1>5 DEF Arrives
  <2> QED  BY <1>1, <2>1
<1> QED  BY <1>2, <1>3, <1>4, <1>5, TaskMoves DEF BeforeStep

LEMMA LoneStep ==
    ASSUME BeforeStep, [Next]_vars, Calm', NEW t \in Tasks
    PROVE  LoneTask(t)'
<1>1. \A r \in Queues : \A k \in Msgs : queue[r][k] \in Nat /\ queue'[r][k] \in Nat
  BY TypeStep DEF BeforeStep, TypeInv, TypeOK
<1>2. LoneTask(t)
  BY DEF BeforeStep, OutcomeInv
<1>3. ASSUME NEW q \in Queues, \A m \in Msgs : m.id = t => queue'[q][m] <= queue[q][m],
             Works(q, t)' => Works(q, t)
      PROVE  OneMessage(q, t)' /\ (Has(q, t)' => Has(q, t))
  <2>1. OneMessage(q, t)
    BY <1>2 DEF LoneTask
  <2>2. \A m \in Msgs : m.id = t /\ queue'[q][m] > 0 => queue[q][m] > 0
    BY <1>1, <1>3
  <2>3. InQueue(q, t)' => InQueue(q, t)
    BY <2>2 DEF InQueue
  <2>4. ASSUME NEW m \in Msgs, NEW k \in Msgs, m.id = t, k.id = t, queue'[q][m] > 0, queue'[q][k] > 0
        PROVE  m = k /\ queue'[q][m] = 1
    <3>1. m = k /\ queue[q][m] = 1
      BY <2>1, <2>2, <2>4 DEF OneMessage
    <3> QED  BY <1>1, <1>3, <2>4, <3>1
  <2> QED  BY <1>3, <2>1, <2>3, <2>4 DEF OneMessage, Has
<1>4. CASE NoneArrives(t)
  <2>1. \A q \in Queues : OneMessage(q, t)' /\ (Has(q, t)' => Has(q, t))
    BY <1>3, <1>4 DEF NoneArrives
  <2> QED  BY <1>2, <2>1 DEF LoneTask, Queues
<1>5. ASSUME NEW r \in Queues, NEW m \in Msgs, m.id = t, Taken(r, m, t)
      PROVE  LoneTask(t)'
  <2>1. \A q \in Queues \ {r} : OneMessage(q, t)' /\ (Has(q, t)' => Has(q, t))
    <3>1. \A q \in Queues \ {r} : /\ \A k \in Msgs : k.id = t => queue'[q][k] <= queue[q][k]
                                  /\ Works(q, t)' => Works(q, t)
      BY <1>1, <1>5 DEF Taken
    <3> QED  BY <1>3, <3>1
  <2>2. InQueue(r, t) /\ Has(r, t)
    BY <1>5 DEF Taken, InQueue, Has
  <2>3. ~InQueue(r, t)'
    <3>1. OneMessage(r, t)
      BY <1>2 DEF LoneTask
    <3>2. ASSUME NEW k \in Msgs, k.id = t, queue'[r][k] > 0 PROVE FALSE
      <4>1. queue[r][k] > 0
        BY <1>1, <1>5, <3>2 DEF Taken
      <4>2. k = m /\ queue[r][m] = 1
        BY <1>5, <3>1, <3>2, <4>1 DEF OneMessage, Taken
      <4> QED  BY <1>5, <3>2, <4>2 DEF Taken
    <3> QED  BY <3>2 DEF InQueue
  <2>4. OneMessage(r, t)'
    BY <2>3 DEF OneMessage, InQueue
  <2> QED  BY <1>2, <2>1, <2>2, <2>4 DEF LoneTask, Queues
<1>6. ASSUME NEW r \in Queues, NEW m \in Msgs, m.id = t, Arrives(r, m, t), Reason(r, t)
      PROVE  LoneTask(t)'
  <2>1. \A q \in Queues \ {r} : OneMessage(q, t)' /\ (Has(q, t)' => Has(q, t))
    <3>1. \A q \in Queues \ {r} : /\ \A k \in Msgs : k.id = t => queue'[q][k] <= queue[q][k]
                                  /\ Works(q, t)' => Works(q, t)
      BY <1>1, <1>6 DEF Arrives
    <3> QED  BY <1>3, <3>1
  <2>2. /\ ~InQueue(r, t) /\ ~Works(r, t)'
        /\ r \in Stages => \A q \in Stages : ~InQueue(q, t) /\ ~Works(q, t)'
    BY <1>6, ArrivalAlone
  <2>3. OneMessage(r, t)'
    <3>1. \A k \in Msgs : k.id = t => queue[r][k] = 0
      BY <1>1, <2>2 DEF InQueue
    <3>2. \A k \in Msgs : k.id = t => queue'[r][k] = IF k = m THEN 1 ELSE 0
      BY <1>6, <3>1 DEF Arrives
    <3> QED  BY <2>2, <3>2 DEF OneMessage
  <2>4. r \in Stages => \A q \in Stages \ {r} : ~Has(q, t)'
    <3>1. \A q \in Stages \ {r} : \A k \in Msgs : queue'[q][k] = queue[q][k]
      BY <1>6 DEF Arrives, Queues
    <3> QED  BY <2>2, <3>1 DEF Has, InQueue
  <2> QED  BY <1>2, <2>1, <2>3, <2>4 DEF LoneTask, Queues
<1> QED  BY <1>4, <1>5, <1>6, TaskMoves DEF BeforeStep

\* A stage that ends its work without sending anything leaves the task outside
\* the stages.
LEMMA LeavesStages ==
    ASSUME BeforeStep, [Next]_vars, Calm', NEW t \in Tasks, NEW s \in Stages,
           Works(s, t), ~Works(s, t)', UNCHANGED queue
    PROVE  \A q \in Stages : ~Has(q, t)'
<1> SUFFICES ASSUME NEW q \in Stages, Has(q, t)' PROVE FALSE
  OBVIOUS
<1>1. Has(q, t)
  BY HasMoves DEF Queues
<1>2. q = s /\ ~InQueue(s, t)
  BY <1>1, HadByWorker
<1> QED  BY <1>2 DEF Has, InQueue

\* A stage that drops its message gives the task up.
LEMMA DropGivesUp ==
    ASSUME BeforeStep, NEW q \in Stages, NEW t \in Tasks, AtConsumer(q, t), NackDrop(q)
    PROVE  /\ "gaveUp" \in history'[t]
           /\ Works(q, t) /\ ~Works(q, t)' /\ UNCHANGED <<queue, informed>>
<1>1. q \in Queues /\ q # "Fail"
  BY DEF Stages, Queues
<1>2. Mark(t, {"gaveUp"})
  BY <1>1 DEF NackDrop, BeforeStep, AtConsumer
<1>3. cur' = [cur EXCEPT ![q] = None]
  BY DEF NackDrop, EndsDelivery
<1> QED
  BY <1>1, <1>2, <1>3
     DEF Mark, NackDrop, Works, AtConsumer, outputs, BeforeStep, TypeInv, TypeOK

\* The reports of a last failure run to their end.
LEMMA ReportsRun ==
    ASSUME BeforeStep, [Next]_vars, Calm', NEW q \in Stages, NEW t \in Tasks
    PROVE  /\ At(q, t, "drop") => At(q, t, "drop")' \/ "gaveUp" \in history'[t]
           /\ At(q, t, "sendFail") => At(q, t, "sendFail")' \/ At(q, t, "drop")'
<1> SUFFICES ASSUME NEW s \in {"sendFail", "drop"}, At(q, t, s)
             PROVE  /\ s = "drop" => At(q, t, "drop")' \/ "gaveUp" \in history'[t]
                    /\ s = "sendFail" => At(q, t, "sendFail")' \/ At(q, t, "drop")'
  OBVIOUS
<1>1. q \in Queues /\ AtConsumer(q, t) /\ pc[q] = s
  BY DEF Queues, At
<1>2. ~Working(q) /\ ~Deliver(q)
  BY <1>1
     DEF Working, SaveStatus, StartSplit, FinishSplit, DoSynthesize, Inform, Send, StartJoin,
         FinishJoin, CompleteStatus, RestoreUsage, Deliver
<1>3. CASE pc'[q] = pc[q] /\ cur'[q] = cur[q]
  BY <1>1, <1>3 DEF At, AtConsumer
<1>4. CASE Reporting(q)
  <2>1. SendFail(q) /\ s = "sendFail"
    BY <1>1, <1>4 DEF Reporting, LastFailure, SaveError, InformFailed, SendFail
  <2>2. pc'[q] = "drop" /\ cur'[q] = cur[q]
    BY <1>1, <2>1 DEF SendFail, BeforeStep, TypeInv, TypeOK
  <2> QED  BY <1>1, <2>1, <2>2 DEF At, AtConsumer
<1>5. CASE Ending(q)
  <2>1. NackDrop(q) /\ s = "drop"
    BY <1>1, <1>5 DEF Ending, Ack, AbandonOnStop, NackRequeue, NackDrop
  <2> QED  BY <1>1, <2>1, DropGivesUp
<1> QED  BY <1>1, <1>2, <1>3, <1>4, <1>5, ConsumerMoves DEF BeforeStep

\* The user is told of success by Join as it ends its work.
LEMMA FinishedBy ==
    ASSUME BeforeStep, [Next]_vars, Calm', NEW t \in Tasks,
           "Finished" \in informed'[t], "Finished" \notin informed[t]
    PROVE  /\ At("Join", t, "inform") /\ Works("Join", t) /\ ~Works("Join", t)'
           /\ UNCHANGED <<queue, history, status>> /\ Inform("Join")
           /\ informed'[t] = informed[t] \cup {"Finished"}
<1>1. AtConsumer("Join", t) /\ Inform("Join") /\ pc'["Join"] = "ack"
  BY InformedSource DEF BeforeStep
<1>2. "Join" \in Queues /\ cur["Join"].id = t
  BY <1>1 DEF Queues, Stages, AtConsumer
<1>3. informed' = [informed EXCEPT ![t] = @ \cup {"Finished"}]
  BY <1>1, <1>2 DEF Inform
<1> QED
  BY <1>1, <1>3 DEF Inform, At, Works, BeforeStep, TypeInv, TypeOK

LEMMA OutcomeStep ==
    ASSUME BeforeStep, [Next]_vars, Calm', NEW t \in Tasks
    PROVE  OutcomeTask(t)'
<1>1. OutcomeTask(t) /\ TypeInv /\ CalmInv
  BY DEF BeforeStep, OutcomeInv
<1>2. history[t] \subseteq history'[t] /\ informed[t] \subseteq informed'[t]
  BY <1>1, HistoryKept, InformedSource
<1>3. ASSUME "gaveUp" \in history'[t], "gaveUp" \notin history[t]
      PROVE  \E s \in Stages : Works(s, t) /\ ~Works(s, t)' /\ UNCHANGED <<queue, informed>>
  BY <1>1, <1>3, MarkSource, DropGivesUp
<1>4. ASSUME "refundDue" \in history'[t], "refundDue" \notin history[t]
      PROVE  \E s \in Stages : Works(s, t) /\ At(s, t, "drop")'
  <2>1. PICK s \in Stages : AtConsumer(s, t) /\ SendFail(s)
    BY <1>1, <1>4, MarkSource
  <2>2. pc[s] = "sendFail" /\ pc'[s] = "drop" /\ cur'[s] = cur[s]
    BY <1>1, <2>1 DEF SendFail, TypeInv, TypeOK, Queues
  <2> QED  BY <2>1, <2>2 DEF Works, At, AtConsumer
<1>5. ASSUME "Failed" \in informed'[t], "Failed" \notin informed[t]
      PROVE  \/ "refundDue" \in history[t]
             \/ \E s \in Stages : Works(s, t) /\ At(s, t, "sendFail")'
  <2>1. PICK s \in Queues : AtConsumer(s, t) /\ InformFailed(s)
    BY <1>1, <1>5, InformedSource
  <2>2. CASE s = "Fail"
    BY <1>1, <2>1, <2>2 DEF OutcomeTask, Near
  <2>3. CASE s \in Stages
    <3>1. pc[s] = "informFailed" /\ pc'[s] = "sendFail" /\ cur'[s] = cur[s]
      BY <1>1, <2>1 DEF InformFailed, TypeInv, TypeOK
    <3> QED  BY <2>1, <2>3, <3>1 DEF Works, At, AtConsumer
  <2> QED  BY <2>2, <2>3 DEF Queues
<1>6. ASSUME NEW q \in Stages, Has(q, t)'
      PROVE  "gaveUp" \notin history'[t] /\ "Finished" \notin informed'[t]
  <2>1. CASE \E s \in Stages : Has(s, t)
    <3>1. "gaveUp" \notin history[t] /\ "Finished" \notin informed[t]
      BY <1>1, <2>1 DEF OutcomeTask
    <3>2. "gaveUp" \notin history'[t]
      BY <1>3, <1>6, <3>1, LeavesStages
    <3>3. "Finished" \notin informed'[t]
      <4>1. "Join" \in Stages
        BY DEF Stages
      <4> QED  BY <1>6, <3>1, <4>1, FinishedBy, LeavesStages
    <3> QED  BY <3>2, <3>3
  <2>2. CASE \A s \in Stages : ~Has(s, t)
    <3>1. Reason(q, t)
      BY <1>6, <2>2, HasMoves DEF Queues
    <3>2. SendUpload(t) /\ upload[t] # "accepted"
      BY <2>2, <3>1 DEF Reason, Has, Stages
    <3>3. history'[t] = {} /\ informed'[t] = {}
      BY <1>1, <3>2, UploadEffects DEF BeforeStep, FreshInv, OutcomeTask, records
    <3> QED  BY <3>3
  <2> QED  BY <2>1, <2>2
<1>7. ASSUME "Finished" \in informed'[t]
      PROVE  "Failed" \notin informed'[t] /\ "gaveUp" \notin history'[t] /\ "refundDue" \notin history'[t]
  <2>1. CASE "Finished" \in informed[t]
    <3>1. /\ "Failed" \notin informed[t] /\ "gaveUp" \notin history[t] /\ "refundDue" \notin history[t]
          /\ \A s \in Stages : ~Works(s, t)
      BY <1>1, <2>1 DEF OutcomeTask, Has
    <3> QED  BY <1>3, <1>4, <1>5, <3>1
  <2>2. CASE "Finished" \notin informed[t]
    <3>1. "Join" \in Stages
      BY DEF Stages
    <3>2. /\ At("Join", t, "inform") /\ Works("Join", t) /\ UNCHANGED history
          /\ informed'[t] = informed[t] \cup {"Finished"}
      BY <1>7, <2>2, FinishedBy
    <3>3. "gaveUp" \notin history[t] /\ "refundDue" \notin history[t] /\ "Failed" \notin informed[t]
      BY <3>1, <3>2, HadByWorker DEF At
    <3> QED  BY <3>2, <3>3
  <2> QED  BY <2>1, <2>2
<1>8. ASSUME "refundDue" \in history'[t]
      PROVE  "gaveUp" \in history'[t] \/ \E q \in Stages : At(q, t, "drop")'
  BY <1>1, <1>2, <1>4, <1>8, ReportsRun DEF OutcomeTask
<1>9. ASSUME "Failed" \in informed'[t]
      PROVE  \/ "gaveUp" \in history'[t] \/ "refundDue" \in history'[t]
             \/ \E q \in Stages : At(q, t, "sendFail")' \/ At(q, t, "drop")'
  BY <1>1, <1>2, <1>5, <1>9, ReportsRun DEF OutcomeTask
<1>10. ASSUME Near("Fail", t)' \/ restored'[t] > 0 PROVE "refundDue" \in history'[t]
  <2>1. Near("Fail", t) \/ restored[t] > 0 => "refundDue" \in history[t]
    BY <1>1 DEF OutcomeTask
  <2>2. CASE Near("Fail", t) \/ restored[t] > 0
    BY <1>2, <2>1, <2>2
  <2>3. CASE ~Near("Fail", t) /\ ~(restored[t] > 0)
    <3>1. restored'[t] = restored[t]
      BY <1>1, <2>3, RestoredSource DEF Near
    <3>2. Near("Fail", t)' /\ "Fail" \in Queues
      BY <1>10, <2>3, <3>1 DEF Queues
    <3>3. PICK r \in Queues : SendFail(r) /\ cur[r].id = t /\ NeedToRestore(r, cur[r], cause[r])
      <4>1. SentTo("Fail", t)
        BY <1>1, <2>3, <3>2, NearSource
      <4>2. \A r \in {"Upload", "Split", "Synthesize"} : NextQueue[r] # "Fail"
        BY DEF NextQueue
      <4> QED  BY <4>1, <4>2 DEF SentTo
    <3>4. queue' # queue
      <4>1. UNCHANGED cur
        BY <3>3 DEF SendFail
      <4> QED  BY <2>3, <3>2, <4>1 DEF Near, AtConsumer, InQueue
    <3>5. Mark(t, {"refundDue"})
      BY <3>3, <3>4 DEF SendFail
    <3> QED  BY <1>1, <3>5 DEF Mark, TypeInv, TypeOK
  <2> QED  BY <2>2, <2>3
<1>11. ASSUME upload'[t] # "accepted" PROVE informed'[t] = {}
  <2>1. upload[t] # "accepted"
    <3>1. \A r \in Queues : Working(r) \/ Reporting(r) \/ Ending(r) \/ Deliver(r) => UNCHANGED upload
      BY <1>1, WorkingMoves, EndingMoves, DeliverEffects DEF environment
    <3>2. \A u \in Tasks : SaveRequest(u) \/ SendUpload(u) => upload[u] # "accepted"
      BY DEF SaveRequest, SendUpload
    <3>3. ASSUME NEW u \in Tasks, SaveRequest(u) \/ SendUpload(u), upload[t] = "accepted"
          PROVE  upload'[t] = upload[t]
      <4>1. u # t
        BY <3>2, <3>3
      <4> QED  BY <1>1, <3>3, <4>1 DEF SaveRequest, SendUpload, TypeInv, TypeOK
    <3> QED  BY <1>1, <1>11, <3>1, <3>3, CalmSteps, Stutter DEF environment
  <2>2. informed[t] = {} /\ \A r \in Queues : ~AtConsumer(r, t)
    BY <1>1, <2>1 DEF OutcomeTask, BeforeStep, FreshInv, Near
  <2> QED  BY <1>1, <2>2, InformedSource
<1> QED  BY <1>6, <1>7, <1>8, <1>9, <1>10, <1>11 DEF OutcomeTask

LEMMA OutcomeInvStep ==
    TypeInv /\ CalmInv /\ FreshInv /\ OutcomeInv /\ [Next]_vars => OutcomeInv'
<1> SUFFICES ASSUME TypeInv, CalmInv, FreshInv, OutcomeInv, [Next]_vars, Calm' PROVE OutcomeInv'
  BY DEF OutcomeInv
<1>1. BeforeStep
  BY CalmSteps DEF BeforeStep
<1>2. \A t \in Tasks : LoneTask(t)' /\ OutcomeTask(t)'
  BY <1>1, LoneStep, OutcomeStep
<1> QED  BY <1>2 DEF OutcomeInv

Reachable == TypeInv /\ CalmInv /\ FreshInv /\ OutcomeInv

LEMMA ReachableInvariant == Spec => []Reachable
<1>1. Init => CalmInv /\ FreshInv /\ OutcomeInv
  <2> SUFFICES ASSUME Init PROVE CalmInv /\ FreshInv /\ OutcomeInv
    OBVIOUS
  <2>1. \A q \in Queues, t \in Tasks : ~InQueue(q, t) /\ ~AtConsumer(q, t)
    <3>1. ~(0 > 0)
      OBVIOUS
    <3> QED  BY <3>1 DEF Init, InQueue, AtConsumer
  <2>2. \A q \in Stages, t \in Tasks : ~Has(q, t) /\ ~Works(q, t)
    BY <2>1 DEF Has, Works, Queues
  <2>3. ASSUME NEW t \in Tasks PROVE LoneTask(t)
    <3>1. \A q \in Queues : \A m \in Msgs : queue[q][m] = 0
      BY DEF Init
    <3>2. \A q \in Queues : OneMessage(q, t)
      BY <2>1, <3>1 DEF OneMessage
    <3> QED  BY <2>2, <3>2 DEF LoneTask
  <2>4. ASSUME NEW t \in Tasks PROVE OutcomeTask(t)
    <3>1. history[t] = {} /\ informed[t] = {} /\ restored[t] = 0
      BY DEF Init
    <3>2. ~Near("Fail", t)
      BY <2>1 DEF Near, Queues
    <3> QED  BY <2>2, <3>1, <3>2 DEF OutcomeTask
  <2>5. CalmInv /\ FreshInv
    BY <2>1 DEF Init, CalmInv, FreshInv, Near
  <2> QED  BY <2>3, <2>4, <2>5 DEF OutcomeInv
<1>2. Reachable /\ [Next]_vars => Reachable'
  BY TypeStep, CalmStep, FreshStep, OutcomeInvStep DEF Reachable
<1> QED  BY <1>1, <1>2, TypeInit, PTL DEF Spec, Reachable

\* The user of a task hears one outcome only, whatever calls fail, as long as
\* no delivery is repeated.
THEOREM OneOutcomeToldHolds == Spec => []OneOutcomeTold
<1>1. Reachable => OneOutcomeTold
  BY DEF Reachable, OutcomeInv, OutcomeTask, Calm, OneOutcomeTold
<1> QED  BY <1>1, ReachableInvariant, PTL

-----------------------------------------------------------------------------
(* The texts that Synthesize reads. *)

\* A task that has not passed Split is not near Synthesize, and what is near
\* Synthesize has its texts finished.
InputInv ==
    Calm => \A t \in Tasks :
        /\ Has("Upload", t) \/ Has("Split", t) => ~Near("Synthesize", t)
        /\ Near("Synthesize", t) => "Split" \in made[t]

LEMMA InputStep == Reachable /\ StageInv /\ InputInv /\ [Next]_vars => InputInv'
<1> SUFFICES ASSUME Reachable, StageInv, InputInv, [Next]_vars, Calm',
                    NEW t \in Tasks, Near("Synthesize", t)'
             PROVE  ~Has("Upload", t)' /\ ~Has("Split", t)' /\ "Split" \in made'[t]
  BY DEF InputInv
<1>1. BeforeStep /\ TypeInv
  BY CalmSteps DEF BeforeStep, Reachable
<1>2. /\ {"Upload", "Split", "Synthesize"} \subseteq Stages
      /\ {"Upload", "Split", "Synthesize"} \subseteq Queues
      /\ NextQueue = [Upload |-> "Split", Split |-> "Synthesize", Synthesize |-> "Join"]
  BY DEF Stages, Queues, NextQueue
<1>3. CASE Near("Synthesize", t)
  <2>1. /\ ~Has("Upload", t) /\ ~Has("Split", t) /\ "Split" \in made[t]
        /\ upload[t] = "accepted"
    BY <1>1, <1>2, <1>3 DEF InputInv, BeforeStep, FreshInv
  <2>2. ASSUME NEW q \in {"Upload", "Split"}, Has(q, t)' PROVE FALSE
    <3>1. Reason(q, t)
      BY <1>1, <1>2, <2>1, <2>2, HasMoves
    <3> QED  BY <1>2, <2>1, <3>1 DEF Reason, Has
  <2>3. ~(StartSplit /\ AtConsumer("Split", t))
    BY <2>1 DEF StartSplit, Has, Works
  <2> QED  BY <1>1, <2>1, <2>2, <2>3, MadeKept
<1>4. CASE ~Near("Synthesize", t)
  <2>1. SentTo("Synthesize", t)
    BY <1>1, <1>2, <1>4, NearSource
  <2>2. Send("Split") /\ cur["Split"].id = t /\ pc["Split"] = "send"
    BY <1>2, <2>1 DEF SentTo
  <2>3. "Split" \in made'[t]
    BY <1>1, <2>2, MadeKept DEF StageInv, StartSplit
  <2>4. Has("Synthesize", t)'
    <3>1. UNCHANGED cur
      BY <2>2 DEF Send
    <3> QED  BY <1>4, <3>1 DEF Near, Has, AtConsumer
  <2>5. LoneTask(t)'
    BY <1>1, LoneStep
  <2> QED  BY <1>2, <2>3, <2>4, <2>5 DEF LoneTask
<1> QED  BY <1>3, <1>4

\* Synthesize works on finished texts, or on texts that Split will finish or
\* has given up, and that only where a delivery was repeated by a shutdown, a
\* lost connection or a crash; Join works on finished audio.
THEOREM StageInputReadyHolds == Spec => []StageInputReady
<1>1. Init => InputInv
  <2> SUFFICES ASSUME Init, NEW t \in Tasks PROVE ~Near("Synthesize", t)
    BY DEF InputInv
  <2>1. "Synthesize" \in Queues /\ ~(0 > 0)
    BY DEF Queues, Stages
  <2> QED  BY <2>1 DEF Init, Near, InQueue, AtConsumer
<1>2. TypeInv /\ LinkInv /\ StageInv /\ InputInv => StageInputReady
  <2> SUFFICES ASSUME TypeInv, LinkInv, StageInv, InputInv, NEW t \in Tasks
               PROVE  /\ Held("Synthesize", t) =>
                             \/ "Split" \in made[t]
                             \/ disruptions > 0 /\ (Held("Split", t) \/ "gaveUp" \in history[t])
                      /\ Held("Join", t) => "Synthesize" \in made[t]
    BY DEF StageInputReady
  <2>1. \A q \in {"Split", "Synthesize", "Join"} : Near(q, t) <=> Held(q, t)
    BY NearIsHeld DEF Queues, Stages
  <2>2. disruptions = 0 \/ disruptions > 0
    BY BoundsAssumption DEF TypeInv, TypeOK
  <2> QED  BY <2>1, <2>2 DEF StageInv, InputInv, Calm
<1> QED
  BY <1>1, <1>2, InputStep, ReachableInvariant, StageInvariant, LinkInvariant, TypeInvariant,
     PTL
     DEF Spec

-----------------------------------------------------------------------------
(* The usage is given back once. *)

\* While no call of the usage service has failed there is one Fail message of
\* a task, and it is gone when the usage is given back.
RestoreInv ==
    Calm /\ "restore" \notin seen =>
        /\ pc["Fail"] \notin Failing
        /\ \A t \in Tasks : restored[t] <= 1 /\ (restored[t] > 0 => ~Has("Fail", t))

LEMMA RestoreStep == Reachable /\ RestoreInv /\ [Next]_vars => RestoreInv'
<1> SUFFICES ASSUME Reachable, RestoreInv, [Next]_vars, Calm', "restore" \notin seen'
             PROVE  /\ pc'["Fail"] \notin Failing
                    /\ \A t \in Tasks : restored'[t] <= 1 /\ (restored'[t] > 0 => ~Has("Fail", t)')
  BY DEF RestoreInv
<1>1. BeforeStep /\ TypeInv /\ CalmInv
  BY CalmSteps DEF BeforeStep, Reachable
<1>2. "restore" \notin seen
  BY <1>1, TroubleMoves DEF trouble, Occurs, TypeInv, TypeOK
<1>3. pc["Fail"] \notin Failing
  BY <1>1, <1>2 DEF RestoreInv, BeforeStep
<1>4. "Fail" \in Queues
  BY DEF Queues
<1>5. ~Reporting("Fail") /\ ~NackRequeue("Fail")
  BY <1>3 DEF Reporting, LastFailure, SaveError, InformFailed, SendFail, NackRequeue, Failing
<1>6. pc'["Fail"] \notin Failing
  <2>1. CASE Working("Fail")
    <3>1. pc["Fail"] \in {"work"}
      <4>1. pc["Fail"] \in DOMAIN After["Fail"] \ {"idle"}
        BY <1>1, <1>4, <2>1, WorkingMoves
      <4> QED  BY <4>1 DEF After, AfterFail
    <3>2. RestoreUsage
      BY <2>1, <3>1 DEF Working, SaveStatus, StartSplit, FinishSplit, DoSynthesize, Inform, Send
    <3>3. ~Fails("Fail", "restore")
      BY DEF Fails, Occurs
    <3>4. Succeeds("Fail")
      BY <3>2, <3>3 DEF RestoreUsage
    <3>5. pc'["Fail"] = "ack"
      BY <1>1, <1>4, <3>1, <3>4, AfterStep DEF Succeeds, TypeInv, TypeOK
    <3> QED  BY <3>5 DEF Failing
  <2>2. CASE Ending("Fail")
    <3>1. pc'["Fail"] = "idle"
      BY <1>1, <1>4, <2>2, EndingEffects DEF TypeInv, TypeOK
    <3> QED  BY <3>1 DEF Failing
  <2>3. CASE Deliver("Fail")
    <3>1. pc'["Fail"] = After["Fail"]["idle"]
      BY <1>1, <1>4, <2>3, DeliveredTask
    <3> QED  BY <1>4, <3>1, AfterSteps
  <2> QED  BY <1>1, <1>3, <1>4, <1>5, <2>1, <2>2, <2>3, ConsumerMoves
<1>7. ASSUME NEW t \in Tasks
      PROVE  restored'[t] <= 1 /\ (restored'[t] > 0 => ~Has("Fail", t)')
  <2>1. /\ restored[t] <= 1 /\ restored[t] \in 0 .. 2
        /\ restored[t] > 0 => ~Has("Fail", t)
        /\ OutcomeTask(t) /\ LoneTask(t)
    BY <1>1, <1>2 DEF RestoreInv, BeforeStep, OutcomeInv, TypeInv, TypeOK
  <2>2. CASE restored'[t] = restored[t]
    <3>1. ASSUME restored[t] > 0, Has("Fail", t)' PROVE FALSE
      <4>1. Reason("Fail", t)
        BY <1>1, <1>4, <2>1, <3>1, HasMoves
      <4>2. PICK s \in Stages : SendFail(s) /\ Works(s, t)
        BY <1>5, <4>1 DEF Reason, Stages
      <4>3. "refundDue" \in history[t]
        BY <2>1, <3>1 DEF OutcomeTask
      <4> QED  BY <1>1, <4>2, <4>3, HadByWorker DEF SendFail
    <3> QED  BY <2>1, <2>2, <3>1
  <2>3. CASE restored'[t] # restored[t]
    <3>1. AtConsumer("Fail", t) /\ RestoreUsage /\ restored'[t] = restored[t] + 1
      BY <1>1, <2>3, RestoredSource
    <3>2. Has("Fail", t) /\ Works("Fail", t) /\ ~InQueue("Fail", t)
      BY <1>4, <2>1, <3>1 DEF RestoreUsage, Works, Has, LoneTask, OneMessage
    <3>3. pc'["Fail"] = "ack" /\ UNCHANGED queue
      <4>1. Succeeds("Fail")
        BY <3>1 DEF RestoreUsage, Fails, Occurs
      <4>2. pc'["Fail"] = "ack"
        BY <1>1, <1>4, <3>1, <4>1, AfterStep DEF RestoreUsage, Succeeds, TypeInv, TypeOK
      <4> QED  BY <3>1, <4>2 DEF RestoreUsage
    <3>4. ~Has("Fail", t)'
      BY <3>2, <3>3 DEF Has, Works, InQueue
    <3> QED  BY <2>1, <3>1, <3>2, <3>4
  <2> QED  BY <2>2, <2>3
<1> QED  BY <1>6, <1>7

\* The usage is given back once, as long as no call of the usage service fails
\* and no delivery is repeated.
THEOREM RestoredAtMostOnceHolds == Spec => []RestoredAtMostOnce
<1>1. Init => RestoreInv
  <2> SUFFICES ASSUME Init PROVE RestoreInv
    OBVIOUS
  <2>1. pc["Fail"] = "idle" /\ \A t \in Tasks : restored[t] = 0
    BY DEF Init, Queues
  <2> QED  BY <2>1 DEF RestoreInv, Failing
<1>2. RestoreInv => RestoredAtMostOnce
  BY DEF RestoreInv, RestoredAtMostOnce, Calm
<1> QED  BY <1>1, <1>2, RestoreStep, ReachableInvariant, PTL DEF Spec

-----------------------------------------------------------------------------
(* The status of a task that has left the pipeline. *)

Completed == [st |-> "COMPLETED", err |-> FALSE]

\* While no save has failed a task given up has its error saved before it
\* leaves, and one that is done has its last status before the user is told.
StatusTask(t) ==
    /\ "gaveUp" \in history[t] => status[t].err
    /\ \A q \in Stages : At(q, t, "informFailed") \/ At(q, t, "sendFail") \/ At(q, t, "drop")
           => status[t].err
    /\ "Finished" \in informed[t] \/ At("Join", t, "inform") => status[t] = Completed

StatusInv == Calm /\ "save" \notin seen => \A t \in Tasks : StatusTask(t)

\* An accepted task is in the stages until it has an outcome that is told.
ToldInv ==
    Calm => \A t \in Tasks : upload[t] = "accepted" =>
        "gaveUp" \in history[t] \/ "Finished" \in informed[t] \/ \E q \in Stages : Has(q, t)

LEMMA ToldStep == Reachable /\ ToldInv /\ [Next]_vars => ToldInv'
<1> SUFFICES ASSUME Reachable, ToldInv, [Next]_vars, Calm',
                    NEW t \in Tasks, upload'[t] = "accepted"
             PROVE  \/ "gaveUp" \in history'[t] \/ "Finished" \in informed'[t]
                    \/ \E q \in Stages : Has(q, t)'
  BY DEF ToldInv
<1>1. BeforeStep /\ TypeInv /\ CalmInv /\ linked'
  BY CalmSteps DEF BeforeStep, Reachable
<1>2. history[t] \subseteq history'[t] /\ informed[t] \subseteq informed'[t]
  BY <1>1, HistoryKept, InformedSource
<1>3. ASSUME NEW q \in Stages, Has(q, t), \A r \in Stages : ~Has(r, t)'
      PROVE  "gaveUp" \in history'[t] \/ "Finished" \in informed'[t]
  <2>1. q \in Queues /\ Copy(q, t) /\ ~Copy(q, t)'
    BY <1>1, <1>3 DEF Queues, BeforeStep, Copy, Has, Works
  <2>2. AtConsumer(q, t) /\ ((Working(q) /\ pc'[q] = "ack") \/ NackDrop(q))
    BY <1>1, <2>1, CopyMoves
  <2>3. CASE NackDrop(q)
    BY <1>1, <2>2, <2>3, DropGivesUp
  <2>4. CASE Working(q) /\ pc'[q] = "ack"
    <3>1. cur[q] \in Msgs /\ cur[q].id = t /\ q # "Fail"
      BY <1>1, <2>1, <2>2, <2>4, WorkingMoves DEF AtConsumer, Stages
    <3>2. Succeeds(q) /\ After[q][pc[q]] = "ack"
      BY <1>1, <2>1, <2>4, WorkingFails DEF Succeeds, TypeInv, TypeOK, Failing
    <3>3. Send(q) \/ (q = "Join" /\ Inform(q))
      <4>1. pc[q] \in DOMAIN After[q] \ {"idle"}
        BY <1>1, <2>1, <2>4, WorkingMoves
      <4>2. q = "Upload" \/ q = "Split" \/ q = "Synthesize" \/ q = "Join"
        BY DEF Stages
      <4>3. pc[q] = "send" \/ (q = "Join" /\ pc[q] = "inform")
        BY <3>2, <4>1, <4>2 DEF After, AfterUpload, AfterSplit, AfterSynthesize, AfterJoin
      <4> QED
        BY <2>4, <4>3
           DEF Working, SaveStatus, StartSplit, FinishSplit, DoSynthesize, Inform, Send,
               StartJoin, FinishJoin, CompleteStatus, RestoreUsage
    <3>4. pc'[q] # "error"
      BY <2>4
    <3>5. CASE q = "Join" /\ Inform(q)
      <4>1. informed' = [informed EXCEPT ![t] = @ \cup {"Finished"}]
        BY <1>1, <2>1, <3>1, <3>4, <3>5 DEF Inform, Fails, FailsWith, TypeInv, TypeOK
      <4> QED  BY <1>1, <4>1 DEF TypeInv, TypeOK
    <3>6. CASE Send(q)
      <4>1. q \in {"Upload", "Split", "Synthesize"}
        BY <1>1, <2>1, <3>6, StepQueues DEF Send, TypeInv, StepsInv
      <4>2. NextQueue[q] \in Stages /\ NextQueue[q] \in Queues
        BY <4>1 DEF NextQueue, Stages, Queues
      <4>3. queue' = Enqueued(NextQueue[q], NewMsg(t, cur[q].error))
        <5>1. ~Fails(q, "send")
          <6>1. q \in DOMAIN pc
            BY <1>1, <2>1 DEF TypeInv, TypeOK
          <6>2. pc' = [pc EXCEPT ![q] = "error"] => pc'[q] = "error"
            BY <6>1
          <6> QED  BY <3>4, <6>2 DEF Fails, FailsWith
        <5> QED  BY <3>1, <3>6, <5>1 DEF Send
      <4>4. NewMsg(t, cur[q].error) \in Msgs /\ NewMsg(t, cur[q].error).id = t
        <5>1. cur[q].error \in BOOLEAN
          BY <3>1, MsgFacts
        <5> QED  BY <5>1, MsgFacts
      <4>5. InQueue(NextQueue[q], t)'
        BY <1>1, <4>2, <4>3, <4>4, EnqueuedTask
      <4> QED  BY <1>3, <4>2, <4>5 DEF Has
    <3> QED  BY <3>3, <3>5, <3>6
  <2> QED  BY <2>2, <2>3, <2>4
<1>4. CASE upload[t] = "accepted"
  BY <1>1, <1>2, <1>3, <1>4 DEF ToldInv, BeforeStep
<1>5. CASE upload[t] # "accepted"
  <2>1. \A r \in Queues : Working(r) \/ Reporting(r) \/ Ending(r) \/ Deliver(r) => UNCHANGED upload
    BY <1>1, WorkingMoves, EndingMoves, DeliverEffects DEF environment
  <2>2. PICK u \in Tasks : SaveRequest(u) \/ SendUpload(u)
    BY <1>1, <1>5, <2>1, CalmSteps, Stutter DEF environment
  <2>3. SendUpload(t) /\ queue' = Enqueued("Upload", NewMsg(t, FALSE))
    BY <1>1, <1>5, <2>2 DEF SaveRequest, SendUpload, TypeInv, TypeOK
  <2>4. InQueue("Upload", t)'
    <3>1. "Upload" \in Queues
      BY DEF Queues, Stages
    <3> QED  BY <1>1, <2>3, <3>1, MsgFacts, EnqueuedTask
  <2> QED  BY <2>4 DEF Has, Stages
<1> QED  BY <1>4, <1>5

\* The upload service does not write the status of a task that has begun.
LEMMA FreshSave ==
    ASSUME BeforeStep, NEW t \in Tasks, SaveRequest(t)
    PROVE  history[t] = {} /\ informed[t] = {} /\ \A q \in Queues : ~AtConsumer(q, t)
<1>1. upload[t] # "accepted"
  BY DEF SaveRequest
<1> QED  BY <1>1 DEF BeforeStep, FreshInv, Near, OutcomeInv, OutcomeTask

\* A stage that is at one step does not let another step write the status,
\* unless to save an error.
LEMMA StatusKept ==
    ASSUME BeforeStep, [Next]_vars, Calm', NEW t \in Tasks, NEW q \in Stages, Works(q, t),
           pc[q] \notin {"save", "complete"}
    PROVE  /\ status'[t] = status[t] \/ status'[t].err
           /\ pc[q] \notin {"saveErr", "drop"} => status'[t] = status[t]
<1> SUFFICES ASSUME status'[t] # status[t]
             PROVE  status'[t].err /\ pc[q] \in {"saveErr", "drop"}
  OBVIOUS
<1>1. q \in Queues /\ AtConsumer(q, t) /\ TypeInv
  BY DEF Queues, Works, BeforeStep
<1>2. ~SaveRequest(t)
  BY <1>1, FreshSave
<1>3. PICK s \in Queues :
        /\ AtConsumer(s, t)
        /\ \/ s \in Stages /\ SaveStatus(s) /\ pc[s] = "save"
           \/ s = "Join" /\ CompleteStatus /\ pc[s] = "complete"
           \/ SaveError(s) /\ status'[t].err
  BY <1>1, <1>2, StatusSource DEF BeforeStep
<1>4. pc[s] \in {"save", "complete", "saveErr"}
  BY <1>3 DEF SaveError
<1>5. s \in Stages => s = q
  BY <1>3, <1>4, HadByWorker DEF Has, Works
<1>6. SaveError(s) /\ status'[t].err
  BY <1>3, <1>5 DEF Stages
<1>7. CASE s = q
  BY <1>6, <1>7 DEF SaveError
<1>8. CASE s = "Fail"
  <2>1. "refundDue" \in history[t]
    BY <1>3, <1>8 DEF BeforeStep, OutcomeInv, OutcomeTask, Near
  <2> QED  BY <1>6, <2>1, HadByWorker
<1> QED  BY <1>5, <1>7, <1>8 DEF Queues

LEMMA StatusStep ==
    ASSUME BeforeStep, [Next]_vars, Calm', "save" \notin seen', NEW t \in Tasks, StatusTask(t)
    PROVE  StatusTask(t)'
<1>1. TypeInv /\ CalmInv /\ OutcomeTask(t)
  BY DEF BeforeStep, OutcomeInv
<1>2. ASSUME "gaveUp" \in history'[t] PROVE status'[t].err
  <2>1. CASE "gaveUp" \in history[t]
    <3>1. status[t].err /\ ~SaveRequest(t)
      BY <2>1, FreshSave DEF StatusTask
    <3>2. \A s \in Stages : ~Works(s, t)
      BY <2>1, HadByWorker
    <3>3. status'[t] = status[t] \/ status'[t].err
      <4> SUFFICES ASSUME status'[t] # status[t] PROVE status'[t].err
        OBVIOUS
      <4>1. PICK s \in Queues :
              /\ AtConsumer(s, t)
              /\ \/ s \in Stages /\ SaveStatus(s) /\ pc[s] = "save"
                 \/ s = "Join" /\ CompleteStatus /\ pc[s] = "complete"
                 \/ SaveError(s) /\ status'[t].err
        BY <1>1, <3>1, StatusSource
      <4> QED  BY <3>2, <4>1 DEF Works, Stages
    <3> QED  BY <3>1, <3>3
  <2>2. CASE "gaveUp" \notin history[t]
    <3>1. PICK s \in Stages : AtConsumer(s, t) /\ NackDrop(s)
      BY <1>1, <1>2, <2>2, MarkSource
    <3>2. At(s, t, "drop") /\ UNCHANGED status
      BY <3>1 DEF NackDrop, At
    <3> QED  BY <3>2 DEF StatusTask
  <2> QED  BY <2>1, <2>2
<1>3. ASSUME NEW q \in Stages, NEW s \in {"informFailed", "sendFail", "drop"}, At(q, t, s)'
      PROVE  status'[t].err
  <2>1. q \in Queues /\ cur'[q] # None /\ cur'[q].id = t /\ pc'[q] = s
    BY <1>3 DEF At, AtConsumer, Queues
  <2>2. CASE pc'[q] = pc[q] /\ cur'[q] = cur[q]
    <3>1. At(q, t, s) /\ Works(q, t) /\ pc[q] = s
      BY <2>1, <2>2 DEF At, AtConsumer, Works
    <3>2. status[t].err
      BY <3>1 DEF StatusTask
    <3>3. status'[t] = status[t] \/ status'[t].err
      BY <3>1, StatusKept
    <3> QED  BY <3>2, <3>3
  <2>3. CASE Working(q)
    BY <1>1, <2>1, <2>3, WorkingFails DEF Failing
  <2>4. CASE Reporting(q)
    <3>1. cur[q] = cur'[q] /\ AtConsumer(q, t)
      BY <1>1, <2>1, <2>4, ReportingEffects DEF AtConsumer
    <3>2. CASE SaveError(q)
      <4>1. status' = SavedError(t)
        BY <2>1, <3>1, <3>2 DEF SaveError, Occurs
      <4> QED  BY <1>1, <4>1 DEF SavedError, TypeInv, TypeOK
    <3>3. CASE InformFailed(q) \/ SendFail(q)
      <4>1. At(q, t, "informFailed") \/ At(q, t, "sendFail")
        BY <3>1, <3>3 DEF InformFailed, SendFail, At
      <4>2. UNCHANGED status
        BY <3>3 DEF InformFailed, SendFail
      <4> QED  BY <4>1, <4>2 DEF StatusTask
    <3>4. ~LastFailure(q)
      BY <1>1, <2>1 DEF LastFailure, TypeInv, TypeOK
    <3> QED  BY <2>4, <3>2, <3>3, <3>4 DEF Reporting
  <2>5. CASE Ending(q)
    BY <1>1, <2>1, <2>5, EndingEffects DEF TypeInv, TypeOK
  <2>6. CASE Deliver(q)
    BY <1>1, <2>1, <2>6, DeliveredTask, AfterSteps DEF Failing
  <2> QED  BY <1>1, <2>1, <2>2, <2>3, <2>4, <2>5, <2>6, ConsumerMoves
<1>4. ASSUME "Finished" \in informed'[t] PROVE status'[t] = Completed
  <2>1. CASE "Finished" \in informed[t]
    <3>1. /\ status[t] = Completed /\ ~SaveRequest(t) /\ "refundDue" \notin history[t]
          /\ \A s \in Stages : ~Works(s, t)
      BY <1>1, <2>1, FreshSave, HadByWorker DEF StatusTask, OutcomeTask
    <3>2. ASSUME status'[t] # status[t] PROVE FALSE
      <4>1. PICK s \in Queues :
              /\ AtConsumer(s, t)
              /\ \/ s \in Stages /\ SaveStatus(s) /\ pc[s] = "save"
                 \/ s = "Join" /\ CompleteStatus /\ pc[s] = "complete"
                 \/ SaveError(s)
        BY <1>1, <3>1, <3>2, StatusSource
      <4>2. s = "Fail"
        BY <3>1, <4>1 DEF Works, Stages, Queues, SaveError
      <4> QED  BY <1>1, <3>1, <4>1, <4>2 DEF OutcomeTask, Near
    <3> QED  BY <3>1, <3>2
  <2>2. CASE "Finished" \notin informed[t]
    BY <1>4, <2>2, FinishedBy DEF StatusTask
  <2> QED  BY <2>1, <2>2
<1>5. ASSUME At("Join", t, "inform")' PROVE status'[t] = Completed
  <2>1. /\ "Join" \in Queues /\ "Join" \in Stages
        /\ cur'["Join"] # None /\ cur'["Join"].id = t /\ pc'["Join"] = "inform"
    BY <1>5 DEF At, AtConsumer, Queues, Stages
  <2>2. CASE pc'["Join"] = pc["Join"] /\ cur'["Join"] = cur["Join"]
    <3>1. At("Join", t, "inform") /\ Works("Join", t) /\ pc["Join"] = "inform"
      BY <2>1, <2>2 DEF At, AtConsumer, Works
    <3>2. status'[t] = status[t]
      BY <2>1, <3>1, StatusKept
    <3> QED  BY <3>1, <3>2 DEF StatusTask
  <2>3. CASE Working("Join")
    <3>1. cur["Join"] = cur'["Join"] /\ pc["Join"] \in DOMAIN After["Join"] \ {"idle"}
      BY <1>1, <2>1, <2>3, WorkingMoves
    <3>2. Succeeds("Join") /\ After["Join"][pc["Join"]] = "inform"
      BY <1>1, <2>1, <2>3, WorkingFails DEF Succeeds, TypeInv, TypeOK
    <3>3. pc["Join"] = "complete"
      BY <3>1, <3>2 DEF After, AfterJoin
    <3>4. CompleteStatus
      BY <2>3, <3>3
         DEF Working, SaveStatus, StartSplit, FinishSplit, DoSynthesize, Inform, Send,
             StartJoin, FinishJoin
    <3>5. status' = Saved(t, "COMPLETED")
      BY <1>1, <2>1, <3>1, <3>4 DEF CompleteStatus, Fails, FailsWith, TypeInv, TypeOK
    <3> QED  BY <1>1, <3>5 DEF Saved, Completed, TypeInv, TypeOK
  <2>4. CASE Reporting("Join")
    BY <1>1, <2>1, <2>4, ReportingEffects DEF Failing, TypeInv, TypeOK
  <2>5. CASE Ending("Join")
    BY <1>1, <2>1, <2>5, EndingEffects DEF TypeInv, TypeOK
  <2>6. CASE Deliver("Join")
    BY <1>1, <2>1, <2>6, DeliveredTask, AfterStep
  <2> QED  BY <1>1, <2>1, <2>2, <2>3, <2>4, <2>5, <2>6, ConsumerMoves
<1> QED  BY <1>2, <1>3, <1>4, <1>5 DEF StatusTask

\* The status of a task that has left the pipeline tells how it ended, as long
\* as no save failed and no delivery was repeated.
THEOREM StatusTellsOutcomeHolds == Spec => []StatusTellsOutcome
<1>1. Init => StatusInv /\ ToldInv
  <2> SUFFICES ASSUME Init PROVE StatusInv /\ ToldInv
    OBVIOUS
  <2>1. ASSUME NEW t \in Tasks PROVE StatusTask(t)
    <3>1. history[t] = {} /\ informed[t] = {} /\ \A q \in Stages : ~AtConsumer(q, t)
      BY DEF Init, AtConsumer, Queues
    <3>2. "Join" \in Stages
      BY DEF Stages
    <3> QED  BY <3>1, <3>2 DEF StatusTask, At
  <2> QED  BY <2>1 DEF Init, StatusInv, ToldInv
<1>2. Reachable /\ StatusInv /\ [Next]_vars => StatusInv'
  <2> SUFFICES ASSUME Reachable, StatusInv, [Next]_vars, Calm', "save" \notin seen',
                      NEW t \in Tasks
               PROVE  StatusTask(t)'
    BY DEF StatusInv
  <2>1. BeforeStep
    BY CalmSteps DEF BeforeStep, Reachable
  <2>2. "save" \notin seen
    BY <2>1, TroubleMoves DEF trouble, Occurs, BeforeStep, TypeInv, TypeOK
  <2>3. StatusTask(t)
    BY <2>1, <2>2 DEF StatusInv, BeforeStep
  <2> QED  BY <2>1, <2>3, StatusStep
<1>3. Reachable /\ StatusInv /\ ToldInv => StatusTellsOutcome
  <2> SUFFICES ASSUME Reachable, StatusInv, ToldInv, Calm, "save" \notin seen,
                      NEW t \in Tasks, upload[t] = "accepted", ~InPipeline(t)
               PROVE  IF "gaveUp" \in history[t] THEN status[t].err ELSE status[t] = Completed
    BY DEF StatusTellsOutcome, Calm, Completed
  <2>1. \A q \in Stages : ~Has(q, t)
    BY DEF Reachable, CalmInv, InPipeline, Held, Has, Works, InQueue, AtConsumer
  <2>2. "gaveUp" \in history[t] \/ "Finished" \in informed[t]
    BY <2>1 DEF ToldInv
  <2> QED  BY <2>2 DEF StatusInv, StatusTask
<1> QED  BY <1>1, <1>2, <1>3, ToldStep, ReachableInvariant, PTL DEF Spec

=============================================================================
