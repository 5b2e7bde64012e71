-------------------------- MODULE SynthesizerProofs --------------------------
(***************************************************************************)
(* Proofs about the worker pool for every number of parts, workers and     *)
(* failures.  The inductive invariant is built in layers: each layer below *)
(* is proved from the ones above it.                                       *)
(***************************************************************************)
EXTENDS Synthesizer, FiniteSetTheorems, SequenceTheorems, TLAPS

-----------------------------------------------------------------------------
(* Type correctness, with the facts about program counters that make the   *)
(* indices of the loop well defined.                                       *)

\* A part is started once, in order; the loop works on an existing part.
LoopInv ==
    /\ \A p \in Parts : p >= next => worker[p] = "idle"
    /\ mainPc \in {"poll", "acquire"} => next < PartCount
    /\ mainPc = "start" => next = 0

\* The tokens in syncCh are those of the goroutines that have not given
\* theirs back.
Holders == {p \in Parts : Busy(p) \/ worker[p] = "release"}
SemaphoreInv == syncCh = Cardinality(Holders)

TypeInv == TypeOK /\ LoopInv /\ SemaphoreInv

LEMMA PartsFinite ==
    ASSUME NEW S \in SUBSET Parts
    PROVE  IsFiniteSet(S) /\ Cardinality(S) \in Nat
<1>1. IsFiniteSet(Parts)
  BY PartCountAssumption, FS_Interval DEF Parts
<1> QED  BY <1>1, FS_Subset, FS_CardinalityType

\* One more part in a set of parts.
LEMMA AddPart ==
    ASSUME NEW S \in SUBSET Parts, NEW p \in Parts, p \notin S
    PROVE  Cardinality(S \cup {p}) = Cardinality(S) + 1
BY PartsFinite, FS_AddElement

\* One part less in a set of parts.
LEMMA RemovePart ==
    ASSUME NEW S \in SUBSET Parts, NEW p \in S
    PROVE  Cardinality(S \ {p}) = Cardinality(S) - 1
BY PartsFinite, FS_RemoveElement

\* A smaller set of parts.
LEMMA FewerParts ==
    ASSUME NEW S \in SUBSET Parts, NEW T \in SUBSET S
    PROVE  Cardinality(T) <= Cardinality(S)
BY PartsFinite, FS_Subset

LEMMA TypeInit == Init => TypeInv
<1> SUFFICES ASSUME Init PROVE TypeInv
  OBVIOUS
<1>1. TypeOK
  <2>1. errCh \in Seq(ErrValues)
    BY EmptySeq DEF Init
  <2>2. next \in 0 .. PartCount
    BY PartCountAssumption DEF Init
  <2>3. syncCh \in 0 .. WorkerCount
    BY WorkerCountAssumption DEF Init
  <2>4. worker \in [Parts -> WorkerPcs] /\ audio \in [Parts -> {"none", "torn", "whole"}]
    BY DEF Init, WorkerPcs
  <2> QED
    BY <2>1, <2>2, <2>3, <2>4 DEF Init, TypeOK, MainPcs
<1>2. LoopInv
  BY DEF Init, LoopInv, Parts
<1>3. Holders = {}
  BY DEF Init, Holders, Busy
<1>4. SemaphoreInv
  BY <1>3, FS_EmptySet DEF Init, SemaphoreInv
<1> QED  BY <1>1, <1>2, <1>4 DEF TypeInv

\* What a send on errCh does to the buffer.
LEMMA PushErrFacts ==
    ASSUME TypeOK, NEW e \in ErrValues, PushErr(e)
    PROVE  /\ errCh' \in Seq(ErrValues)
           /\ Len(errCh) \in Nat /\ Len(errCh') = Len(errCh) + 1
           /\ errCh' # <<>>
           /\ Head(errCh') = IF errCh = <<>> THEN e ELSE Head(errCh)
BY AppendProperties, HeadTailAppend, LenProperties DEF TypeOK, PushErr

\* What a receive from errCh does to the buffer.
LEMMA TakeErrFacts ==
    ASSUME TypeOK, NEW e, TakeErr(e)
    PROVE  /\ e \in ErrValues
           /\ errCh' \in Seq(ErrValues)
           /\ Len(errCh) \in Nat /\ Len(errCh') = Len(errCh) - 1
BY HeadTailProperties, LenProperties DEF TypeOK, TakeErr

\* Steps that leave the goroutines of the parts alone keep the semaphore.
LEMMA HoldersKept ==
    ASSUME SemaphoreInv, UNCHANGED <<syncCh, worker>>
    PROVE  SemaphoreInv'
BY DEF SemaphoreInv, Holders, Busy

\* A goroutine that moves between two states that hold a token keeps it too.
LEMMA HoldersMoved ==
    ASSUME TypeOK, SemaphoreInv, UNCHANGED syncCh,
           NEW p \in Parts, NEW to \in {"save", "fail", "defer", "release"},
           worker[p] \in {"call", "save", "fail", "defer"},
           worker' = [worker EXCEPT ![p] = to]
    PROVE  SemaphoreInv'
<1>1. \A q \in Parts : (Busy(q) \/ worker[q] = "release")' <=> (Busy(q) \/ worker[q] = "release")
  BY DEF TypeOK, Busy
<1> QED  BY <1>1 DEF SemaphoreInv, Holders

LEMMA TypeStepMain == ASSUME TypeInv, MainStep PROVE TypeInv'
<1> USE DEF TypeInv, TypeOK, LoopInv, MainPcs, Goto, others, history
<1>1. ASSUME CreateDir PROVE TypeInv'
  BY <1>1, HoldersKept, PartCountAssumption DEF CreateDir, Parts
<1>2. ASSUME CreateDirFails PROVE TypeInv'
  BY <1>2, HoldersKept DEF CreateDirFails, ErrValues
<1>3. ASSUME GetFiles PROVE TypeInv'
  BY <1>3, HoldersKept, PartCountAssumption DEF GetFiles, Parts
<1>4. ASSUME FirstSelectDefault PROVE TypeInv'
  BY <1>4, HoldersKept DEF FirstSelectDefault, NothingPending
<1>5. ASSUME OnCancel PROVE TypeInv'
  BY <1>5, HoldersKept DEF OnCancel
<1>6. ASSUME OnError PROVE TypeInv'
  BY <1>6, HoldersKept, TakeErrFacts DEF OnError
<1>8. ASSUME PushCanceled PROVE TypeInv'
  BY <1>8, HoldersKept, PushErrFacts DEF PushCanceled, ErrValues
<1>9. ASSUME WaitBeforeReturn PROVE TypeInv'
  BY <1>9, HoldersKept DEF WaitBeforeReturn
<1>10. ASSUME WaitAll PROVE TypeInv'
  BY <1>10, HoldersKept DEF WaitAll
<1>11. ASSUME PushNil PROVE TypeInv'
  BY <1>11, HoldersKept, PushErrFacts DEF PushNil, ErrValues
<1>12. ASSUME TakeResult PROVE TypeInv'
  BY <1>12, HoldersKept, TakeErrFacts DEF TakeResult
<1>7. ASSUME StartPart PROVE TypeInv'
  <2>1. next \in Parts /\ worker[next] = "idle"
    BY <1>7, PartCountAssumption DEF StartPart, Parts
  <2>2. TypeOK'
    BY <1>7, <2>1, PartCountAssumption, WorkerCountAssumption
    DEF StartPart, SyncChCap, WorkerPcs, Parts
  <2>3. LoopInv'
    BY <1>7, <2>1, PartCountAssumption DEF StartPart, Parts
  <2>4. Holders' = Holders \cup {next} /\ next \notin Holders
    BY <1>7, <2>1 DEF StartPart, Holders, Busy
  <2>5. Cardinality(Holders') = Cardinality(Holders) + 1
    BY <2>1, <2>4, AddPart DEF Holders
  <2> QED  BY <1>7, <2>2, <2>3, <2>5 DEF StartPart, SemaphoreInv
<1> QED
  BY <1>1, <1>2, <1>3, <1>4, <1>5, <1>6, <1>7, <1>8, <1>9, <1>10, <1>11, <1>12
  DEF MainStep

LEMMA TypeStepWorker ==
    ASSUME TypeInv, NEW p \in Parts, WorkerStep(p)
    PROVE  TypeInv'
<1> USE DEF TypeInv, WorkerPcs
<1>0. p < next
  BY PartCountAssumption
  DEF WorkerStep, CallService, CallFails, WriteAudio, WriteFails, ReportError,
      WgDone, Release, WorkerGoto, LoopInv, TypeOK, Parts
<1>1. ASSUME CallService(p) PROVE TypeInv'
  BY <1>0, <1>1, HoldersMoved DEF CallService, WorkerGoto, others, history, TypeOK, LoopInv
<1>2. ASSUME CallFails(p) PROVE TypeInv'
  <2>1. TypeOK' /\ LoopInv'
    BY <1>0, <1>2 DEF CallFails, WorkerGoto, TypeOK, LoopInv
  <2>2. SemaphoreInv'
    BY <1>2, HoldersMoved DEF CallFails, WorkerGoto
  <2> QED  BY <2>1, <2>2
<1>3. ASSUME WriteAudio(p) PROVE TypeInv'
  BY <1>0, <1>3, HoldersMoved DEF WriteAudio, WorkerGoto, others, history, TypeOK, LoopInv
<1>4. ASSUME WriteFails(p) PROVE TypeInv'
  <2>1. TypeOK' /\ LoopInv'
    BY <1>0, <1>4 DEF WriteFails, WorkerGoto, TypeOK, LoopInv
  <2>2. SemaphoreInv'
    BY <1>4, HoldersMoved DEF WriteFails, WorkerGoto
  <2> QED  BY <2>1, <2>2
<1>5. ASSUME ReportError(p) PROVE TypeInv'
  BY <1>0, <1>5, HoldersMoved, PushErrFacts
  DEF ReportError, WorkerGoto, others, history, TypeOK, LoopInv, ErrValues
<1>6. ASSUME WgDone(p) PROVE TypeInv'
  BY <1>0, <1>6, HoldersMoved DEF WgDone, WorkerGoto, others, history, TypeOK, LoopInv
<1>7. ASSUME Release(p) PROVE TypeInv'
  <2>1. TypeOK' /\ LoopInv'
    BY <1>0, <1>7, WorkerCountAssumption
    DEF Release, WorkerGoto, others, history, TypeOK, LoopInv
  <2>2. Holders' = Holders \ {p} /\ p \in Holders
    BY <1>7 DEF Release, WorkerGoto, TypeOK, Holders, Busy
  <2>3. Cardinality(Holders') = Cardinality(Holders) - 1
    BY <2>2, RemovePart DEF Holders
  <2> QED  BY <1>7, <2>1, <2>3 DEF Release, SemaphoreInv
<1> QED
  BY <1>1, <1>2, <1>3, <1>4, <1>5, <1>6, <1>7 DEF WorkerStep

LEMMA TypeStepEnvironment ==
    ASSUME TypeInv, Cancel \/ Redeliver \/ Crash \/ UNCHANGED vars
    PROVE  TypeInv'
<1> USE DEF TypeInv
<1>1. ASSUME Cancel PROVE TypeInv'
  BY <1>1, HoldersKept DEF Cancel, volatile, others, history, TypeOK, LoopInv
<1>2. ASSUME NewCall, canceled' \in BOOLEAN, writeFault' \in BOOLEAN
      PROVE  TypeInv'
  <2>1. errCh' \in Seq(ErrValues)
    BY <1>2, EmptySeq DEF NewCall
  <2>2. TypeOK' /\ LoopInv'
    BY <1>2, <2>1, PartCountAssumption, WorkerCountAssumption
    DEF NewCall, TypeOK, LoopInv, MainPcs, WorkerPcs, Parts
  <2>3. Holders' = {} /\ syncCh' = 0
    BY <1>2 DEF NewCall, Holders, Busy
  <2> QED  BY <2>2, <2>3, FS_EmptySet DEF SemaphoreInv
<1>3. ASSUME UNCHANGED vars PROVE TypeInv'
  BY <1>3, HoldersKept DEF vars, volatile, others, history, TypeOK, LoopInv
<1> QED
  BY <1>1, <1>2, <1>3 DEF Redeliver, Crash, TypeOK

LEMMA TypeStep == TypeInv /\ [Next]_vars => TypeInv'
BY TypeStepMain, TypeStepWorker, TypeStepEnvironment DEF Next, Finished

LEMMA TypeInvariant == Spec => []TypeInv
BY TypeInit, TypeStep, PTL DEF Spec

\* Every reachable state has its declared shape.
THEOREM TypeCorrect == Spec => []TypeOK
BY TypeInvariant, PTL DEF TypeInv

\* The semaphore bounds the goroutines that call the service or write, for
\* any number of parts and workers.
THEOREM BoundedConcurrencyHolds == Spec => []BoundedConcurrency
<1>1. TypeInv => BoundedConcurrency
  <2> SUFFICES ASSUME TypeInv PROVE BoundedConcurrency
    OBVIOUS
  <2> DEFINE Working == {p \in Parts : Busy(p)}
  <2>1. Cardinality(Working) <= Cardinality(Holders)
    BY FewerParts DEF Holders
  <2>2. Cardinality(Working) \in Nat /\ Cardinality(Holders) \in Nat
    BY PartsFinite DEF Holders
  <2>3. Cardinality(Holders) <= WorkerCount
    BY WorkerCountAssumption DEF TypeInv, TypeOK, SemaphoreInv
  <2> QED  BY <2>1, <2>2, <2>3, WorkerCountAssumption DEF BoundedConcurrency
<1> QED  BY <1>1, TypeInvariant, PTL

-----------------------------------------------------------------------------
(* Nothing of Do is left when it returns. *)

\* Past wg.Wait() no goroutine is busy.
WaitInv == mainPc \in {"pushNil", "recv", "returned"} => AllDone

LEMMA WaitStep == TypeInv /\ WaitInv /\ [Next]_vars => WaitInv'
<1> SUFFICES ASSUME TypeInv, WaitInv, [Next]_vars PROVE WaitInv'
  OBVIOUS
<1> USE DEF WaitInv, AllDone, Busy
<1>1. ASSUME CreateDirFails PROVE WaitInv'
  BY <1>1, PartCountAssumption DEF CreateDirFails, TypeInv, TypeOK, LoopInv, Parts
<1>2. ASSUME MainStep, ~CreateDirFails PROVE WaitInv'
  BY <1>2
  DEF MainStep, CreateDir, GetFiles, FirstSelectDefault, OnCancel, OnError, Goto,
      StartPart, PushCanceled, WaitBeforeReturn, WaitAll, PushNil, TakeResult
<1>3. ASSUME NEW p \in Parts, WorkerStep(p) PROVE WaitInv'
  BY <1>3
  DEF WorkerStep, CallService, CallFails, WriteAudio, WriteFails, ReportError,
      WgDone, Release, WorkerGoto, TypeInv, TypeOK
<1>4. ASSUME Cancel \/ Redeliver \/ Crash \/ UNCHANGED vars PROVE WaitInv'
  BY <1>4 DEF Cancel, Redeliver, Crash, NewCall, vars, others, volatile
<1> QED  BY <1>1, <1>2, <1>3, <1>4 DEF Next, Finished

LEMMA WaitInvariant == Spec => []WaitInv
<1>1. Init => WaitInv
  BY DEF Init, WaitInv
<1> QED  BY <1>1, TypeInvariant, WaitStep, PTL DEF Spec

\* Do leaves no goroutine behind that could still write a file.
THEOREM NoWorkerOutlivesDoHolds == Spec => []NoWorkerOutlivesDo
<1>1. WaitInv => NoWorkerOutlivesDo
  BY DEF WaitInv, NoWorkerOutlivesDo
<1> QED  BY <1>1, WaitInvariant, PTL

-----------------------------------------------------------------------------
(* An error is never turned into success. *)

Errors == {"canceled", "failed"}

\* nil enters errCh only at the end, behind every error; a failure is at
\* any time on its way to errCh, in errCh, or already Do's result; and the
\* loop ends early only with something in errCh.
ErrorInv ==
    /\ mainPc \notin {"recv", "returned"} => errCh \in Seq(Errors)
    /\ mainPc = "waitErr" => ret \in Errors
    /\ mainPc \notin {"waitErr", "recv", "returned"} /\ fails > 0
           => errCh # <<>> \/ \E p \in Parts : worker[p] = "fail"
    /\ mainPc \in {"wait", "pushNil"} => next = PartCount \/ errCh # <<>>
    /\ mainPc = "recv" /\ Head(errCh) = "nil" => fails = 0 /\ next = PartCount
    /\ mainPc = "returned" /\ ret = "nil" => fails = 0 /\ next = PartCount

\* A send of an error, and a receive, among errors only.
LEMMA ErrorsPushed ==
    ASSUME errCh \in Seq(Errors), NEW e \in Errors, PushErr(e)
    PROVE  errCh' \in Seq(Errors) /\ errCh' # <<>>
BY AppendProperties DEF PushErr

LEMMA ErrorsTaken ==
    ASSUME errCh \in Seq(Errors), NEW e, TakeErr(e)
    PROVE  e \in Errors /\ errCh' \in Seq(Errors)
BY HeadTailProperties DEF TakeErr

LEMMA ErrorStepMain ==
    ASSUME TypeInv, WaitInv, ErrorInv, MainStep
    PROVE  ErrorInv'
<1> USE DEF ErrorInv, Goto, others, history
<1>1. ASSUME CreateDir \/ CreateDirFails PROVE ErrorInv'
  BY <1>1 DEF CreateDir, CreateDirFails
<1>2. ASSUME GetFiles PROVE ErrorInv'
  BY <1>2 DEF GetFiles
<1>9. ASSUME FirstSelectDefault \/ OnCancel PROVE ErrorInv'
  <2>1. CASE FirstSelectDefault
    BY <2>1 DEF FirstSelectDefault, NothingPending
  <2>2. CASE OnCancel
    BY <2>2 DEF OnCancel
  <2> QED  BY <1>9, <2>1, <2>2
<1>3. ASSUME OnError PROVE ErrorInv'
  <2>1. ret' \in Errors /\ errCh' \in Seq(Errors)
    BY <1>3, ErrorsTaken DEF OnError
  <2> QED  BY <1>3, <2>1 DEF OnError
<1>4. ASSUME StartPart PROVE ErrorInv'
  <2>1. \A p \in Parts : worker[p] = "fail" => worker'[p] = "fail"
    BY <1>4 DEF StartPart, TypeInv, TypeOK, LoopInv
  <2> QED  BY <1>4, <2>1 DEF StartPart
<1>5. ASSUME PushCanceled PROVE ErrorInv'
  BY <1>5, ErrorsPushed DEF PushCanceled, Errors
<1>6. ASSUME WaitBeforeReturn \/ WaitAll PROVE ErrorInv'
  BY <1>6 DEF WaitBeforeReturn, WaitAll, Errors
<1>7. ASSUME PushNil PROVE ErrorInv'
  <2>1. Head(errCh') = IF errCh = <<>> THEN "nil" ELSE Head(errCh)
    BY <1>7, PushErrFacts DEF PushNil, TypeInv, ErrValues
  <2>2. errCh # <<>> => Head(errCh) # "nil"
    BY <1>7, HeadTailProperties DEF PushNil, Errors
  <2>3. errCh = <<>> => ~(fails > 0) /\ next = PartCount
    BY <1>7 DEF PushNil, WaitInv, AllDone, Busy
  <2> QED  BY <1>7, <2>1, <2>2, <2>3 DEF PushNil, TypeInv, TypeOK
<1>8. ASSUME TakeResult PROVE ErrorInv'
  BY <1>8 DEF TakeResult, TakeErr
<1> QED
  BY <1>1, <1>2, <1>3, <1>4, <1>5, <1>6, <1>7, <1>8, <1>9 DEF MainStep

LEMMA ErrorStepWorker ==
    ASSUME TypeInv, WaitInv, ErrorInv, NEW p \in Parts, WorkerStep(p)
    PROVE  ErrorInv'
<1> USE DEF ErrorInv, WorkerGoto, others, history
<1>1. ASSUME CallService(p) \/ WriteAudio(p) \/ WgDone(p) \/ Release(p)
      PROVE  ErrorInv'
  <2>1. \A q \in Parts : worker[q] = "fail" => worker'[q] = "fail"
    BY <1>1 DEF CallService, WriteAudio, WgDone, Release, TypeInv, TypeOK
  <2> QED  BY <1>1, <2>1 DEF CallService, WriteAudio, WgDone, Release
<1>2. ASSUME CallFails(p) \/ WriteFails(p) PROVE ErrorInv'
  <2>1. mainPc \notin {"pushNil", "recv", "returned"}
    BY <1>2 DEF CallFails, WriteFails, WaitInv, AllDone, Busy
  <2>2. worker'[p] = "fail"
    BY <1>2 DEF CallFails, WriteFails, TypeInv, TypeOK
  <2> QED  BY <1>2, <2>1, <2>2 DEF CallFails, WriteFails
<1>3. ASSUME ReportError(p) PROVE ErrorInv'
  <2>1. mainPc \notin {"pushNil", "recv", "returned"}
    BY <1>3 DEF ReportError, WaitInv, AllDone, Busy
  <2>2. errCh' \in Seq(Errors) /\ errCh' # <<>>
    BY <1>3, <2>1, ErrorsPushed DEF ReportError, Errors
  <2> QED  BY <1>3, <2>1, <2>2 DEF ReportError
<1> QED  BY <1>1, <1>2, <1>3 DEF WorkerStep

LEMMA ErrorStep ==
    TypeInv /\ WaitInv /\ ErrorInv /\ [Next]_vars => ErrorInv'
<1> SUFFICES ASSUME TypeInv, WaitInv, ErrorInv, [Next]_vars PROVE ErrorInv'
  OBVIOUS
<1>1. ASSUME Cancel \/ UNCHANGED vars PROVE ErrorInv'
  BY <1>1 DEF Cancel, vars, volatile, others, history, ErrorInv
<1>2. ASSUME Redeliver \/ Crash PROVE ErrorInv'
  <2>1. errCh' \in Seq(Errors)
    BY <1>2, EmptySeq DEF Redeliver, Crash, NewCall
  <2> QED  BY <1>2, <2>1 DEF Redeliver, Crash, NewCall, ErrorInv
<1> QED
  BY <1>1, <1>2, ErrorStepMain, ErrorStepWorker DEF Next, Finished

LEMMA ErrorInvariant == Spec => []ErrorInv
<1>1. Init => ErrorInv
  BY EmptySeq DEF Init, ErrorInv
<1> QED  BY <1>1, TypeInvariant, WaitInvariant, ErrorStep, PTL DEF Spec

\* If Do returns nil then no part failed in this call.
THEOREM ErrorNotSwallowedHolds == Spec => []ErrorNotSwallowed
<1>1. ErrorInv => ErrorNotSwallowed
  BY DEF ErrorInv, ErrorNotSwallowed
<1> QED  BY <1>1, ErrorInvariant, PTL

-----------------------------------------------------------------------------
(* The audio files. *)

\* What a part's file can be, by where its goroutine is: a part the loop has
\* passed is left without a file only by a goroutine still calling the
\* service or by a failure; a torn file is being written or was cut short.
AudioInv ==
    /\ \A p \in Parts :
        /\ worker[p] = "call" => audio[p] = "none"
        /\ audio[p] = "torn" => worker[p] = "save" \/ writeFault
        /\ worker[p] = "save" => audio[p] = "torn"
        /\ p < next /\ audio[p] = "none" => worker[p] = "call" \/ fails > 0
    /\ mainPc \in {"poll", "acquire"} => audio[next] = "none"

LEMMA AudioStepMain ==
    ASSUME TypeInv, AudioInv, MainStep
    PROVE  AudioInv'
<1> USE DEF TypeInv, TypeOK, LoopInv, AudioInv, Goto, others, history, Parts
<1>1. ASSUME CreateDir \/ CreateDirFails PROVE AudioInv'
  <2>1. UNCHANGED <<next, worker, audio, writeFault>> /\ next = 0
    BY <1>1 DEF CreateDir, CreateDirFails
  <2>2. mainPc' \notin {"poll", "acquire"}
    BY <1>1 DEF CreateDir, CreateDirFails
  <2> QED  BY <2>1, <2>2
<1>2. ASSUME GetFiles PROVE AudioInv'
  BY <1>2, PartCountAssumption DEF GetFiles, SkipPart
<1>3. ASSUME FirstSelectDefault \/ OnCancel PROVE AudioInv'
  BY <1>3 DEF FirstSelectDefault, NothingPending, OnCancel
<1>4. ASSUME OnError \/ PushCanceled PROVE AudioInv'
  BY <1>4 DEF OnError, PushCanceled
<1>5. ASSUME StartPart PROVE AudioInv'
  <2>1. next \in Parts /\ next' = next + 1 /\ UNCHANGED <<audio, fails, writeFault>>
    BY <1>5, PartCountAssumption DEF StartPart
  <2>2. \A p \in Parts : worker'[p] = IF p = next THEN "call" ELSE worker[p]
    BY <1>5, <2>1 DEF StartPart
  <2>3. audio[next] = "none" /\ worker[next] = "idle" /\ mainPc' = "loop"
    BY <1>5, <2>1 DEF StartPart
  <2> QED  BY <2>1, <2>2, <2>3
<1>6. ASSUME WaitBeforeReturn \/ WaitAll PROVE AudioInv'
  BY <1>6 DEF WaitBeforeReturn, WaitAll
<1>7. ASSUME PushNil \/ TakeResult PROVE AudioInv'
  BY <1>7 DEF PushNil, TakeResult
<1> QED
  BY <1>1, <1>2, <1>3, <1>4, <1>5, <1>6, <1>7 DEF MainStep

LEMMA AudioStepWorker ==
    ASSUME TypeInv, AudioInv, NEW p \in Parts, WorkerStep(p)
    PROVE  AudioInv'
<1> USE DEF TypeInv, TypeOK, LoopInv, AudioInv, WorkerGoto, others, history, Parts
<1>1. ASSUME CallService(p) PROVE AudioInv'
  BY <1>1, PartCountAssumption DEF CallService
<1>2. ASSUME CallFails(p) PROVE AudioInv'
  BY <1>2 DEF CallFails
<1>3. ASSUME WriteAudio(p) PROVE AudioInv'
  BY <1>3, PartCountAssumption DEF WriteAudio
<1>4. ASSUME WriteFails(p) PROVE AudioInv'
  BY <1>4 DEF WriteFails
<1>5. ASSUME ReportError(p) PROVE AudioInv'
  BY <1>5 DEF ReportError
<1>6. ASSUME WgDone(p) PROVE AudioInv'
  BY <1>6 DEF WgDone
<1>7. ASSUME Release(p) PROVE AudioInv'
  BY <1>7 DEF Release
<1> QED
  BY <1>1, <1>2, <1>3, <1>4, <1>5, <1>6, <1>7 DEF WorkerStep

LEMMA AudioStep ==
    TypeInv /\ WaitInv /\ AudioInv /\ [Next]_vars => AudioInv'
<1> SUFFICES ASSUME TypeInv, WaitInv, AudioInv, [Next]_vars PROVE AudioInv'
  OBVIOUS
<1>1. ASSUME Cancel \/ UNCHANGED vars PROVE AudioInv'
  BY <1>1 DEF Cancel, vars, volatile, others, history, AudioInv
<1>2. ASSUME Redeliver PROVE AudioInv'
  <2>1. \A p \in Parts : worker[p] # "save"
    BY <1>2 DEF Redeliver, WaitInv, AllDone, Busy
  <2> QED  BY <1>2, <2>1 DEF Redeliver, NewCall, AudioInv, Parts
<1>3. ASSUME Crash PROVE AudioInv'
  <2>1. \A p \in Parts : audio[p] = "torn" => writeFault'
    BY <1>3 DEF Crash, AudioInv
  <2> QED  BY <1>3, <2>1 DEF Crash, NewCall, AudioInv, Parts
<1> QED
  BY <1>1, <1>2, <1>3, AudioStepMain, AudioStepWorker DEF Next, Finished

LEMMA AudioInvariant == Spec => []AudioInv
<1>1. Init => AudioInv
  <2> SUFFICES ASSUME Init PROVE AudioInv
    OBVIOUS
  <2> QED  BY DEF Init, AudioInv, Parts
<1> QED  BY <1>1, TypeInvariant, WaitInvariant, AudioStep, PTL DEF Spec

\* Success means every part has its whole audio, as long as no write was
\* ever cut short.
THEOREM NilMeansWholeHolds == Spec => []NilMeansWhole
<1>1. TypeInv /\ WaitInv /\ ErrorInv /\ AudioInv => NilMeansWhole
  BY DEF TypeInv, TypeOK, WaitInv, AllDone, Busy, ErrorInv, AudioInv,
         NilMeansWhole, Parts
<1> QED
  BY <1>1, TypeInvariant, WaitInvariant, ErrorInvariant, AudioInvariant, PTL

\* No step of any delivery truncates or replaces a finished audio file.
THEOREM WholeAudioKeptHolds == Spec => WholeAudioKept
<1> DEFINE Kept == \A p \in Parts : audio[p] = "whole" => audio'[p] = "whole"
<1>1. AudioInv /\ TypeInv /\ [Next]_vars => [Kept]_vars
  <2> SUFFICES ASSUME AudioInv, TypeInv, Next PROVE Kept
    BY DEF vars, others
  <2>1. CASE MainStep \/ Cancel \/ Redeliver \/ Crash \/ Finished
    <3>1. UNCHANGED audio
      BY <2>1 DEF MainStep, CreateDir, CreateDirFails, GetFiles,
         FirstSelectDefault, OnCancel, OnError, StartPart, PushCanceled,
         WaitBeforeReturn, WaitAll, PushNil, TakeResult, Cancel, Redeliver,
         Crash, NewCall, Finished, vars, others
    <3> QED  BY <3>1
  <2>2. ASSUME NEW p \in Parts, WorkerStep(p) PROVE Kept
    BY <2>2
    DEF AudioInv, TypeInv, TypeOK, WorkerStep, CallService, CallFails, WriteAudio,
        WriteFails, ReportError, WgDone, Release, WorkerGoto, others
  <2> QED  BY <2>1, <2>2 DEF Next
<1>2. Spec => [][Kept]_vars
  BY <1>1, AudioInvariant, TypeInvariant, PTL DEF Spec
<1> QED  BY <1>2 DEF WholeAudioKept

-----------------------------------------------------------------------------
(* The loop ends promptly. *)

\* After a late start the reason to stop stays visible, so the first select
\* cannot fall through to the second one again.
LateInv ==
    /\ lateStarts \in {0, 1}
    /\ mainPc \in {"start", "acquire"} => lateStarts = 0
    /\ mainPc \in {"loop", "poll"} /\ lateStarts = 1 => MustStop

LEMMA LateStep == TypeInv /\ LateInv /\ [Next]_vars => LateInv'
<1> SUFFICES ASSUME TypeInv, LateInv, [Next]_vars PROVE LateInv'
  OBVIOUS
<1> USE DEF LateInv, MustStop, Goto, others, history
<1>1. ASSUME CreateDir \/ CreateDirFails \/ GetFiles PROVE LateInv'
  BY <1>1 DEF CreateDir, CreateDirFails, GetFiles
<1>2. ASSUME FirstSelectDefault \/ OnCancel \/ OnError PROVE LateInv'
  BY <1>2 DEF FirstSelectDefault, NothingPending, OnCancel, OnError
<1>3. ASSUME StartPart PROVE LateInv'
  BY <1>3 DEF StartPart
<1>4. ASSUME PushCanceled \/ WaitBeforeReturn \/ WaitAll PROVE LateInv'
  BY <1>4 DEF PushCanceled, WaitBeforeReturn, WaitAll
<1>5. ASSUME PushNil \/ TakeResult PROVE LateInv'
  BY <1>5 DEF PushNil, TakeResult
<1>6. ASSUME NEW p \in Parts, WorkerStep(p) PROVE LateInv'
  <2>1. errCh' = errCh \/ errCh' # <<>>
    BY <1>6, PushErrFacts
    DEF WorkerStep, CallService, CallFails, WriteAudio, WriteFails, ReportError,
        WgDone, Release, TypeInv, ErrValues
  <2>2. UNCHANGED <<mainPc, lateStarts, canceled>>
    BY <1>6
    DEF WorkerStep, CallService, CallFails, WriteAudio, WriteFails, ReportError,
        WgDone, Release
  <2> QED  BY <2>1, <2>2
<1>7. ASSUME Cancel \/ UNCHANGED vars PROVE LateInv'
  BY <1>7 DEF Cancel, vars, others, volatile
<1>8. ASSUME Redeliver \/ Crash PROVE LateInv'
  BY <1>8 DEF Redeliver, Crash, NewCall
<1> QED
  BY <1>1, <1>2, <1>3, <1>4, <1>5, <1>6, <1>7, <1>8 DEF Next, MainStep, Finished

\* At most one part starts after an error or the cancellation is visible.
THEOREM StopsPromptlyHolds == Spec => []StopsPromptly
<1>1. Init => LateInv
  BY DEF Init, LateInv
<1>2. LateInv => StopsPromptly
  BY DEF LateInv, StopsPromptly
<1> QED  BY <1>1, <1>2, TypeInvariant, LateStep, PTL DEF Spec

-----------------------------------------------------------------------------
(* The room in errCh. *)

\* The goroutines that may still send on errCh, and those about to.
InFlight == {p \in Parts : worker[p] \in {"call", "save", "fail"}}
Failing == {p \in Parts : worker[p] = "fail"}

\* Without a cancellation, every goroutine in flight has a place in errCh.
InFlightInv ==
    ~canceled =>
        /\ mainPc # "cancel"
        /\ mainPc = "acquire" => Len(errCh) + Cardinality(InFlight) <= WorkerCount
        /\ mainPc \notin {"recv", "returned"}
               => Len(errCh) + Cardinality(InFlight) <= ErrChCap

LEMMA InFlightBound ==
    ASSUME TypeInv
    PROVE  /\ Len(errCh) \in Nat
           /\ Cardinality(InFlight) \in Nat
           /\ Cardinality(InFlight) <= WorkerCount
<1>1. Cardinality(InFlight) <= Cardinality(Holders)
  BY FewerParts DEF InFlight, Holders, Busy
<1>2. Cardinality(InFlight) \in Nat /\ Cardinality(Holders) \in Nat
  BY PartsFinite DEF InFlight, Holders
<1>3. Cardinality(Holders) \in 0 .. WorkerCount
  BY DEF TypeInv, TypeOK, SemaphoreInv
<1> QED
  BY <1>1, <1>2, <1>3, LenProperties, WorkerCountAssumption DEF TypeInv, TypeOK

LEMMA InFlightStepMain ==
    ASSUME TypeInv, InFlightInv, MainStep
    PROVE  InFlightInv'
<1> USE InFlightBound, WorkerCountAssumption DEF ErrChCap, Goto, others
<1>1. ASSUME UNCHANGED <<worker, errCh, canceled>>,
             mainPc' = "cancel" => canceled,
             mainPc' = "acquire" => errCh = <<>> \/ canceled,
             mainPc \in {"recv", "returned"} => mainPc' \in {"recv", "returned"}
      PROVE  InFlightInv'
  <2>1. InFlight' = InFlight
    BY <1>1 DEF InFlight
  <2>2. errCh = <<>> => Len(errCh) = 0
    BY EmptySeq
  <2> QED  BY <1>1, <2>1, <2>2 DEF InFlightInv
<1>2. CASE CreateDir \/ CreateDirFails \/ GetFiles
  BY <1>1, <1>2 DEF CreateDir, CreateDirFails, GetFiles
<1>3. CASE FirstSelectDefault \/ OnCancel
  BY <1>1, <1>3 DEF FirstSelectDefault, NothingPending, MustStop, OnCancel
<1>4. CASE WaitBeforeReturn \/ WaitAll
  BY <1>1, <1>4 DEF WaitBeforeReturn, WaitAll
<1>5. CASE OnError
  <2>1. Len(errCh') = Len(errCh) - 1
    BY <1>5, TakeErrFacts DEF OnError, TypeInv
  <2>2. InFlight' = InFlight /\ mainPc' = "waitErr" /\ canceled' = canceled
    BY <1>5 DEF OnError, InFlight
  <2>3. mainPc \in {"poll", "acquire"}
    BY <1>5 DEF OnError
  <2> QED  BY <2>1, <2>2, <2>3 DEF InFlightInv
<1>6. CASE StartPart
  <2>1. next \in Parts /\ worker[next] = "idle"
    BY <1>6, PartCountAssumption DEF StartPart, TypeInv, TypeOK, LoopInv, Parts
  <2>2. InFlight' = InFlight \cup {next} /\ next \notin InFlight
    BY <1>6, <2>1 DEF StartPart, TypeInv, TypeOK, InFlight
  <2>3. Cardinality(InFlight') = Cardinality(InFlight) + 1
    BY <2>1, <2>2, AddPart DEF InFlight
  <2>4. mainPc = "acquire" /\ mainPc' = "loop" /\ UNCHANGED <<errCh, canceled>>
    BY <1>6 DEF StartPart, others, history
  <2> QED  BY <2>3, <2>4 DEF InFlightInv
<1>7. CASE PushCanceled
  BY <1>7 DEF PushCanceled, InFlightInv
<1>8. CASE PushNil \/ TakeResult
  BY <1>8 DEF PushNil, TakeResult, InFlightInv
<1> QED
  BY <1>2, <1>3, <1>4, <1>5, <1>6, <1>7, <1>8 DEF MainStep

LEMMA InFlightStepWorker ==
    ASSUME TypeInv, WaitInv, InFlightInv, NEW p \in Parts, WorkerStep(p)
    PROVE  InFlightInv'
<1> USE InFlightBound DEF WorkerGoto, others
<1>1. CASE ReportError(p)
  <2>1. Len(errCh') = Len(errCh) + 1
    BY <1>1, PushErrFacts DEF ReportError, TypeInv, ErrValues
  <2>2. InFlight' = InFlight \ {p} /\ p \in InFlight
    BY <1>1 DEF ReportError, TypeInv, TypeOK, InFlight
  <2>3. Cardinality(InFlight') = Cardinality(InFlight) - 1
    BY <2>2, RemovePart DEF InFlight
  <2>4. UNCHANGED <<mainPc, canceled>>
    BY <1>1 DEF ReportError
  <2> QED
    BY <2>1, <2>3, <2>4, WorkerCountAssumption DEF InFlightInv, ErrChCap
<1>2. CASE ~ReportError(p)
  <2>1. InFlight' \in SUBSET InFlight
    BY <1>2
    DEF WorkerStep, CallService, CallFails, WriteAudio, WriteFails, WgDone,
        Release, TypeInv, TypeOK, InFlight
  <2>2. Cardinality(InFlight') \in Nat /\ Cardinality(InFlight') <= Cardinality(InFlight)
    BY <2>1, FewerParts, PartsFinite DEF InFlight
  <2>3. UNCHANGED <<mainPc, canceled, errCh>>
    BY <1>2
    DEF WorkerStep, CallService, CallFails, WriteAudio, WriteFails, WgDone, Release
  <2> QED
    BY <2>2, <2>3, WorkerCountAssumption DEF InFlightInv, ErrChCap
<1> QED  BY <1>1, <1>2

LEMMA InFlightStep ==
    TypeInv /\ WaitInv /\ InFlightInv /\ [Next]_vars => InFlightInv'
<1> SUFFICES ASSUME TypeInv, WaitInv, InFlightInv, [Next]_vars PROVE InFlightInv'
  OBVIOUS
<1>1. ASSUME Cancel \/ UNCHANGED vars PROVE InFlightInv'
  BY <1>1 DEF Cancel, vars, others, volatile, InFlightInv, InFlight, TypeInv, TypeOK
<1>2. ASSUME Redeliver \/ Crash PROVE InFlightInv'
  <2>1. InFlight' = {} /\ errCh' = <<>> /\ mainPc' = "start"
    BY <1>2 DEF Redeliver, Crash, NewCall, InFlight
  <2>2. Cardinality(InFlight') = 0 /\ Len(errCh') = 0
    BY <2>1, FS_EmptySet, EmptySeq
  <2> QED  BY <2>1, <2>2, WorkerCountAssumption DEF InFlightInv, ErrChCap
<1> QED
  BY <1>1, <1>2, InFlightStepMain, InFlightStepWorker DEF Next, Finished

LEMMA InFlightInvariant == Spec => []InFlightInv
<1>1. Init => InFlightInv
  <2> SUFFICES ASSUME Init PROVE InFlightInv
    OBVIOUS
  <2>1. InFlight = {}
    BY DEF Init, InFlight
  <2>2. Cardinality(InFlight) = 0 /\ Len(errCh) = 0
    BY <2>1, FS_EmptySet, EmptySeq DEF Init
  <2> QED  BY <2>2, WorkerCountAssumption DEF Init, InFlightInv, ErrChCap
<1> QED  BY <1>1, TypeInvariant, WaitInvariant, InFlightStep, PTL DEF Spec

\* Unless the service is being stopped a failing goroutine finds room in
\* errCh, however many parts fail.
THEOREM WorkerNeverBlocksHolds == Spec => []WorkerNeverBlocks
<1>1. TypeInv /\ WaitInv /\ InFlightInv => WorkerNeverBlocks
  <2> SUFFICES ASSUME TypeInv, WaitInv, InFlightInv, ~canceled,
                      NEW p \in Parts, worker[p] = "fail"
               PROVE  Len(errCh) < ErrChCap
    BY DEF WorkerNeverBlocks
  <2>1. mainPc \notin {"recv", "returned"}
    BY DEF WaitInv, AllDone, Busy
  <2>2. Cardinality(InFlight) # 0
    BY PartsFinite, FS_EmptySet DEF InFlight
  <2> QED
    BY <2>1, <2>2, InFlightBound, WorkerCountAssumption DEF InFlightInv, ErrChCap
<1> QED  BY <1>1, TypeInvariant, WaitInvariant, InFlightInvariant, PTL

\* What is in errCh, or about to be, is no more than the failures and the
\* cancellation.
Cancellation ==
    IF canceled /\ mainPc \notin {"start", "loop", "poll", "acquire", "cancel"}
    THEN 1 ELSE 0

ErrorCountInv ==
    /\ mainPc = "cancel" => canceled
    /\ mainPc \notin {"recv", "returned"}
           => Len(errCh) + Cardinality(Failing) <= fails + Cancellation

LEMMA FailingBound ==
    ASSUME TypeInv
    PROVE  Len(errCh) \in Nat /\ Cardinality(Failing) \in Nat /\ fails \in Nat
BY PartsFinite, LenProperties DEF TypeInv, TypeOK, Failing

LEMMA ErrorCountStepMain ==
    ASSUME TypeInv, ErrorCountInv, MainStep
    PROVE  ErrorCountInv'
<1> USE FailingBound DEF Goto, others, history
<1>1. Failing' = Failing
  <2>1. CASE StartPart
    BY <2>1, PartCountAssumption DEF StartPart, Failing, TypeInv, TypeOK, LoopInv, Parts
  <2>2. CASE ~StartPart
    BY <2>2
    DEF MainStep, CreateDir, CreateDirFails, GetFiles, FirstSelectDefault,
        OnCancel, OnError, PushCanceled, WaitBeforeReturn, WaitAll, PushNil,
        TakeResult, Failing
  <2> QED  BY <2>1, <2>2
<1>2. CASE CreateDirFails
  BY <1>2 DEF CreateDirFails, ErrorCountInv
<1>3. CASE OnError
  <2>1. Len(errCh') = Len(errCh) - 1
    BY <1>3, TakeErrFacts DEF OnError, TypeInv
  <2>2. mainPc \in {"poll", "acquire"} /\ mainPc' = "waitErr" /\ UNCHANGED <<fails, canceled>>
    BY <1>3 DEF OnError
  <2> QED  BY <1>1, <2>1, <2>2 DEF ErrorCountInv, Cancellation
<1>4. CASE PushCanceled
  <2>1. Len(errCh') = Len(errCh) + 1
    BY <1>4, PushErrFacts DEF PushCanceled, TypeInv, ErrValues
  <2>2. mainPc = "cancel" /\ mainPc' = "wait" /\ UNCHANGED <<fails, canceled>>
    BY <1>4 DEF PushCanceled
  <2> QED  BY <1>1, <2>1, <2>2 DEF ErrorCountInv, Cancellation
<1>5. CASE PushNil \/ TakeResult
  BY <1>5 DEF PushNil, TakeResult, ErrorCountInv
<1>6. CASE ~(CreateDirFails \/ OnError \/ PushCanceled \/ PushNil \/ TakeResult)
  <2>1. /\ UNCHANGED <<errCh, fails, canceled>>
        /\ mainPc' = "cancel" => canceled
        /\ mainPc \notin {"start", "loop", "poll", "acquire", "cancel"}
              => mainPc' \notin {"start", "loop", "poll", "acquire", "cancel"}
        /\ mainPc \in {"recv", "returned"} => mainPc' \in {"recv", "returned"}
    BY <1>6
    DEF MainStep, CreateDir, GetFiles, FirstSelectDefault, NothingPending,
        OnCancel, StartPart, WaitBeforeReturn, WaitAll
  <2> QED  BY <1>1, <2>1 DEF ErrorCountInv, Cancellation
<1> QED  BY <1>2, <1>3, <1>4, <1>5, <1>6

LEMMA ErrorCountStepWorker ==
    ASSUME TypeInv, ErrorCountInv, NEW p \in Parts, WorkerStep(p)
    PROVE  ErrorCountInv'
<1> USE FailingBound DEF WorkerGoto, others, history
<1>1. UNCHANGED <<mainPc, canceled>>
  BY DEF WorkerStep, CallService, CallFails, WriteAudio, WriteFails, ReportError,
         WgDone, Release
<1>2. CASE CallFails(p) \/ WriteFails(p)
  <2>1. Failing' = Failing \cup {p} /\ p \notin Failing
    BY <1>2 DEF CallFails, WriteFails, TypeInv, TypeOK, Failing
  <2>2. Cardinality(Failing') = Cardinality(Failing) + 1
    BY <2>1, AddPart DEF Failing
  <2>3. fails' = fails + 1 /\ errCh' = errCh
    BY <1>2 DEF CallFails, WriteFails
  <2> QED  BY <1>1, <2>2, <2>3 DEF ErrorCountInv, Cancellation
<1>3. CASE ReportError(p)
  <2>1. Failing' = Failing \ {p} /\ p \in Failing
    BY <1>3 DEF ReportError, TypeInv, TypeOK, Failing
  <2>2. Cardinality(Failing') = Cardinality(Failing) - 1
    BY <2>1, RemovePart DEF Failing
  <2>3. Len(errCh') = Len(errCh) + 1 /\ fails' = fails
    BY <1>3, PushErrFacts DEF ReportError, TypeInv, ErrValues
  <2> QED  BY <1>1, <2>2, <2>3 DEF ErrorCountInv, Cancellation
<1>4. CASE CallService(p) \/ WriteAudio(p) \/ WgDone(p) \/ Release(p)
  <2>1. Failing' = Failing
    BY <1>4 DEF CallService, WriteAudio, WgDone, Release, TypeInv, TypeOK, Failing
  <2>2. UNCHANGED <<errCh, fails>>
    BY <1>4 DEF CallService, WriteAudio, WgDone, Release
  <2> QED  BY <1>1, <2>1, <2>2 DEF ErrorCountInv, Cancellation
<1> QED  BY <1>2, <1>3, <1>4 DEF WorkerStep

LEMMA ErrorCountStep ==
    TypeInv /\ ErrorCountInv /\ [Next]_vars => ErrorCountInv'
<1> SUFFICES ASSUME TypeInv, ErrorCountInv, [Next]_vars PROVE ErrorCountInv'
  OBVIOUS
<1>1. ASSUME Cancel \/ UNCHANGED vars PROVE ErrorCountInv'
  <2>1. UNCHANGED <<mainPc, errCh, worker, fails>> /\ (canceled => canceled')
    BY <1>1 DEF Cancel, vars, volatile, others, history
  <2>2. Failing' = Failing
    BY <2>1 DEF Failing
  <2> QED  BY <2>1, <2>2, FailingBound DEF ErrorCountInv, Cancellation
<1>2. ASSUME Redeliver \/ Crash PROVE ErrorCountInv'
  <2>1. Failing' = {} /\ errCh' = <<>> /\ mainPc' = "start" /\ fails' = 0
    BY <1>2 DEF Redeliver, Crash, NewCall, Failing
  <2>2. Cardinality(Failing') = 0 /\ Len(errCh') = 0
    BY <2>1, FS_EmptySet, EmptySeq
  <2> QED  BY <2>1, <2>2 DEF ErrorCountInv, Cancellation
<1> QED
  BY <1>1, <1>2, ErrorCountStepMain, ErrorCountStepWorker DEF Next, Finished

\* Do never blocks on its final nil while the failures and the cancellation
\* together are at most WorkerCount.
THEOREM RoomForNilHolds == Spec => []RoomForNil
<1>1. Init => ErrorCountInv
  <2> SUFFICES ASSUME Init PROVE ErrorCountInv
    OBVIOUS
  <2>1. Failing = {}
    BY DEF Init, Failing
  <2>2. Cardinality(Failing) = 0 /\ Len(errCh) = 0
    BY <2>1, FS_EmptySet, EmptySeq DEF Init
  <2> QED  BY <2>2 DEF Init, ErrorCountInv, Cancellation
<1>2. TypeInv /\ ErrorCountInv => RoomForNil
  <2> SUFFICES ASSUME TypeInv, ErrorCountInv, mainPc = "pushNil",
                      fails + (IF canceled THEN 1 ELSE 0) <= WorkerCount
               PROVE  Len(errCh) < ErrChCap
    BY DEF RoomForNil, TypeInv, TypeOK
  <2>1. Len(errCh) <= fails + (IF canceled THEN 1 ELSE 0)
    BY FailingBound DEF ErrorCountInv, Cancellation
  <2> QED  BY <2>1, FailingBound, WorkerCountAssumption DEF ErrChCap
<1> QED  BY <1>1, <1>2, TypeInvariant, ErrorCountStep, PTL DEF Spec

==============================================================================
