----------------------------- MODULE Synthesizer -----------------------------
(***************************************************************************)
(* The worker pool of internal/pkg/synthesizer/worker.go: one call of      *)
(* Worker.Do turns the text parts of a task into audio parts, at most      *)
(* WorkerCount at a time.  Two buffered Go channels steer it: syncCh is a  *)
(* counting semaphore, errCh carries the first failure back to the main    *)
(* loop.  A delivery may be repeated (the broker redelivers the message),  *)
(* be cancelled (the service stops) or be cut off by a crash; the audio    *)
(* files stay on disk between deliveries, and a part whose file exists is  *)
(* skipped.                                                                *)
(***************************************************************************)
EXTENDS Integers, Sequences, FiniteSets

CONSTANTS
    PartCount,      \* number of text parts the splitter left for the task
    WorkerCount,    \* synthesizer.workers of the configuration
    MaxDeliveries,  \* bound: calls of Do for the task
    MaxFails,       \* bound: failing parts in one call of Do
    CanCancel       \* whether the service may be stopped while Do runs

ASSUME PartCountAssumption == PartCount \in Nat
ASSUME WorkerCountAssumption == WorkerCount \in Nat \ {0}
ASSUME BoundsAssumption ==
    MaxDeliveries \in Nat /\ MaxFails \in Nat /\ CanCancel \in BOOLEAN

Parts == 0 .. PartCount - 1

ErrValues == {"canceled", "failed", "nil"}

VARIABLES
    mainPc,      \* where the goroutine that runs Do is
    next,        \* i: the part the loop looks at
    errCh,       \* the buffered values of errCh
    syncCh,      \* the number of tokens in syncCh
    worker,      \* worker[p]: where the goroutine of part p is
    ret,         \* what Do returned; "none" before it returns
    canceled,    \* ctx is done
    audio,       \* audio[p]: the output file of part p
    fails,       \* history: parts that failed in this call of Do
    lateStarts,  \* history: parts started although Do should be ending
    writeFault,  \* history: a write was cut short by an error or a crash
    deliveries   \* calls of Do so far

volatile == <<mainPc, next, errCh, syncCh, worker, ret>>
history == <<fails, lateStarts, writeFault>>
others == <<canceled, audio, history, deliveries>>
vars == <<volatile, others>>

MainPcs == {"start", "loop", "poll", "acquire", "cancel", "wait",
            "waitErr", "pushNil", "recv", "returned"}
WorkerPcs == {"idle", "call", "save", "fail", "defer", "release", "end"}

TypeOK ==
    /\ mainPc \in MainPcs
    /\ next \in 0 .. PartCount
    /\ errCh \in Seq(ErrValues)
    /\ syncCh \in 0 .. WorkerCount
    /\ worker \in [Parts -> WorkerPcs]
    /\ ret \in ErrValues \cup {"none"}
    /\ canceled \in BOOLEAN
    /\ audio \in [Parts -> {"none", "torn", "whole"}]
    /\ fails \in Nat
    /\ lateStarts \in Nat
    /\ writeFault \in BOOLEAN
    /\ deliveries \in Nat

-----------------------------------------------------------------------------
(* The mutated forms the mutation runs put in the place of definitions below. *)

BugErrChCap == WorkerCount
BugSyncChCap == WorkerCount + 1
BugSkipPart(p) == FALSE
BugBusy(p) == worker[p] \in {"save", "fail", "defer"}
-----------------------------------------------------------------------------
(* Channels and files. *)

\* make(chan error, w.workerCount+1)
ErrChCap == WorkerCount + 1

\* make(chan struct{}, w.workerCount)
SyncChCap == WorkerCount

\* A send on errCh blocks while its buffer is full.
PushErr(e) ==
    /\ Len(errCh) < ErrChCap
    /\ errCh' = Append(errCh, e)

TakeErr(e) ==
    /\ errCh # <<>>
    /\ e = Head(errCh)
    /\ errCh' = Tail(errCh)

\* getFiles: a part whose output file exists is not synthesized again,
\* whatever the file holds.
SkipPart(p) == audio[p] # "none"

\* The goroutines wg counts: those that have not reached wg.Done().
Busy(p) == worker[p] \in {"call", "save", "fail", "defer"}
AllDone == \A p \in Parts : ~Busy(p)

\* Something tells the loop to end: see the comment "make sure we exit in
\* case of error or cancelling".
MustStop == canceled \/ errCh # <<>>

Init ==
    /\ mainPc = "start"
    /\ next = 0
    /\ errCh = <<>>
    /\ syncCh = 0
    /\ worker = [p \in Parts |-> "idle"]
    /\ ret = "none"
    /\ canceled = FALSE
    /\ audio = [p \in Parts |-> "none"]
    /\ fails = 0
    /\ lateStarts = 0
    /\ writeFault = FALSE
    /\ deliveries = 1

-----------------------------------------------------------------------------
(* The main goroutine. *)

Goto(pc) == mainPc' = pc

CreateDir ==
    /\ mainPc = "start"
    /\ Goto("loop")
    /\ UNCHANGED <<next, errCh, syncCh, worker, ret, others>>

CreateDirFails ==
    /\ mainPc = "start"
    /\ fails < MaxFails
    /\ fails' = fails + 1
    /\ ret' = "failed"
    /\ Goto("returned")
    /\ UNCHANGED <<next, errCh, syncCh, worker, canceled, audio, lateStarts,
                   writeFault, deliveries>>

\* The loop head: no more input, an output file that is already there, or a
\* part to synthesize.
GetFiles ==
    /\ mainPc = "loop"
    /\ \/ next = PartCount /\ Goto("wait") /\ UNCHANGED next
       \/ /\ next < PartCount
          /\ IF SkipPart(next)
             THEN next' = next + 1 /\ UNCHANGED mainPc
             ELSE Goto("poll") /\ UNCHANGED next
    /\ UNCHANGED <<errCh, syncCh, worker, ret, others>>

\* Mutant: without the first select, whose comment says what it is for.
BugNothingPending == mainPc = "poll"

\* default: of the first select, taken when no other case is ready.
NothingPending ==
    /\ mainPc = "poll"
    /\ ~MustStop

FirstSelectDefault ==
    /\ NothingPending
    /\ Goto("acquire")
    /\ UNCHANGED <<next, errCh, syncCh, worker, ret, others>>

\* case <-ctx.Done() of either select.
OnCancel ==
    /\ mainPc \in {"poll", "acquire"}
    /\ canceled
    /\ Goto("cancel")
    /\ UNCHANGED <<next, errCh, syncCh, worker, ret, others>>

\* case err := <-errCh of either select; Do returns err after wg.Wait().
OnError ==
    /\ mainPc \in {"poll", "acquire"}
    /\ TakeErr(ret')
    /\ Goto("waitErr")
    /\ UNCHANGED <<next, syncCh, worker, others>>

\* case syncCh <- struct{}{} of the second select; the choice between ready
\* cases is random, so a part may start when errCh or ctx is ready too.
StartPart ==
    /\ mainPc = "acquire"
    /\ syncCh < SyncChCap
    /\ syncCh' = syncCh + 1
    /\ worker' = [worker EXCEPT ![next] = "call"]
    /\ next' = next + 1
    /\ lateStarts' = IF MustStop THEN lateStarts + 1 ELSE lateStarts
    /\ Goto("loop")
    /\ UNCHANGED <<errCh, ret, canceled, audio, fails, writeFault, deliveries>>

\* errCh <- context.Canceled; break out
PushCanceled ==
    /\ mainPc = "cancel"
    /\ PushErr("canceled")
    /\ Goto("wait")
    /\ UNCHANGED <<next, syncCh, worker, ret, others>>

BugWaitBeforeReturn ==
    /\ mainPc = "waitErr"
    /\ Goto("returned")
    /\ UNCHANGED <<next, errCh, syncCh, worker, ret, others>>

\* wg.Wait(); return err
WaitBeforeReturn ==
    /\ mainPc = "waitErr"
    /\ AllDone
    /\ Goto("returned")
    /\ UNCHANGED <<next, errCh, syncCh, worker, ret, others>>

\* wg.Wait() after the loop
WaitAll ==
    /\ mainPc = "wait"
    /\ AllDone
    /\ Goto("pushNil")
    /\ UNCHANGED <<next, errCh, syncCh, worker, ret, others>>

\* errCh <- nil
PushNil ==
    /\ mainPc = "pushNil"
    /\ PushErr("nil")
    /\ Goto("recv")
    /\ UNCHANGED <<next, syncCh, worker, ret, others>>

\* return <-errCh
TakeResult ==
    /\ mainPc = "recv"
    /\ TakeErr(ret')
    /\ Goto("returned")
    /\ UNCHANGED <<next, syncCh, worker, others>>

MainStep ==
    \/ CreateDir \/ CreateDirFails \/ GetFiles \/ FirstSelectDefault
    \/ OnCancel \/ OnError \/ StartPart \/ PushCanceled
    \/ WaitBeforeReturn \/ WaitAll \/ PushNil \/ TakeResult

-----------------------------------------------------------------------------
(* The goroutine of part p. *)

WorkerGoto(p, from, to) ==
    /\ worker[p] = from
    /\ worker' = [worker EXCEPT ![p] = to]

\* The text is read, the service answers, and WriteFile opens the output
\* with O_CREATE|O_TRUNC: the file exists and is empty.
CallService(p) ==
    /\ WorkerGoto(p, "call", "save")
    /\ audio' = [audio EXCEPT ![p] = "torn"]
    /\ UNCHANGED <<mainPc, next, errCh, syncCh, ret, canceled, history,
                   deliveries>>

\* Reading, calling, decoding or opening fails.
CallFails(p) ==
    /\ fails < MaxFails
    /\ WorkerGoto(p, "call", "fail")
    /\ fails' = fails + 1
    /\ UNCHANGED <<mainPc, next, errCh, syncCh, ret, canceled, audio,
                   lateStarts, writeFault, deliveries>>

WriteAudio(p) ==
    /\ WorkerGoto(p, "save", "defer")
    /\ audio' = [audio EXCEPT ![p] = "whole"]
    /\ UNCHANGED <<mainPc, next, errCh, syncCh, ret, canceled, history,
                   deliveries>>

\* f.Write fails (a full disk): the opened file stays.
WriteFails(p) ==
    /\ fails < MaxFails
    /\ WorkerGoto(p, "save", "fail")
    /\ fails' = fails + 1
    /\ writeFault' = TRUE
    /\ UNCHANGED <<mainPc, next, errCh, syncCh, ret, canceled, audio,
                   lateStarts, deliveries>>

\* errCh <- err
ReportError(p) ==
    /\ WorkerGoto(p, "fail", "defer")
    /\ PushErr("failed")
    /\ UNCHANGED <<mainPc, next, syncCh, ret, others>>

\* wg.Done()
WgDone(p) ==
    /\ WorkerGoto(p, "defer", "release")
    /\ UNCHANGED <<mainPc, next, errCh, syncCh, ret, others>>

\* <-syncCh
Release(p) ==
    /\ WorkerGoto(p, "release", "end")
    /\ syncCh > 0
    /\ syncCh' = syncCh - 1
    /\ UNCHANGED <<mainPc, next, errCh, ret, others>>

WorkerStep(p) ==
    \/ CallService(p) \/ CallFails(p) \/ WriteAudio(p) \/ WriteFails(p)
    \/ ReportError(p) \/ WgDone(p) \/ Release(p)

-----------------------------------------------------------------------------
(* The environment: shutdown, the next delivery, a crash. *)

\* cancelFunc() of cmd/synthesize/main.go
Cancel ==
    /\ CanCancel
    /\ ~canceled
    /\ canceled' = TRUE
    /\ UNCHANGED <<volatile, audio, history, deliveries>>

\* Do is called again: new channels, a new wait group, the same files.
NewCall ==
    /\ deliveries < MaxDeliveries
    /\ deliveries' = deliveries + 1
    /\ mainPc' = "start"
    /\ next' = 0
    /\ errCh' = <<>>
    /\ syncCh' = 0
    /\ worker' = [p \in Parts |-> "idle"]
    /\ ret' = "none"
    /\ fails' = 0
    /\ lateStarts' = 0
    /\ UNCHANGED audio

\* The same process gets the message again.
Redeliver ==
    /\ mainPc = "returned"
    /\ NewCall
    /\ UNCHANGED <<canceled, writeFault>>

\* The process dies; the one that replaces it has a context of its own.
Crash ==
    /\ NewCall
    /\ canceled' = FALSE
    /\ writeFault' = (writeFault \/ \E p \in Parts : worker[p] = "save")

\* Do may be the last call: the state in which the system may stop.
Finished ==
    /\ mainPc = "returned"
    /\ \A p \in Parts : worker[p] \in {"idle", "end"}
    /\ UNCHANGED vars

Next ==
    \/ MainStep
    \/ \E p \in Parts : WorkerStep(p)
    \/ Cancel \/ Redeliver \/ Crash \/ Finished

\* Go runs every goroutine that can go on; a call of the service ends
\* within its ten minutes' timeout.
Fairness ==
    /\ WF_vars(MainStep)
    /\ \A p \in Parts : WF_vars(WorkerStep(p))

Spec == Init /\ [][Next]_vars

FairSpec == Spec /\ Fairness

-----------------------------------------------------------------------------
(* Safety. *)

\* At most WorkerCount parts are being synthesized: the semaphore bounds the
\* goroutines between their start and the end of their deferred function.
BoundedConcurrency ==
    Cardinality({p \in Parts : Busy(p)}) <= WorkerCount

\* When Do returns no goroutine of it still calls the service or writes a
\* file: on the early returns of the two selects too.
NoWorkerOutlivesDo == mainPc = "returned" => AllDone

\* When Do reports success, every part has its whole audio, unless a write
\* was ever cut short: a retry takes an existing file for a finished one.
NilMeansWhole ==
    mainPc = "returned" /\ ret = "nil" /\ ~writeFault
        => \A p \in Parts : audio[p] = "whole"

\* Do reports success only if no part failed: an error that arrives while
\* the loop is already waiting is still ahead of nil in errCh.
ErrorNotSwallowed == mainPc = "returned" /\ ret = "nil" => fails = 0

\* Once an error or the cancellation is visible the loop starts at most one
\* more part, the one the random choice of the second select lets through.
StopsPromptly == lateStarts <= 1

\* While the service is not being stopped a failing part always finds room
\* in errCh: its goroutine never blocks with the wait group held.
WorkerNeverBlocks ==
    ~canceled => \A p \in Parts : worker[p] = "fail" => Len(errCh) < ErrChCap

\* errCh has room for the final nil as long as at most WorkerCount values
\* come before it: the failures, and the cancellation if there was one.  One
\* more and Do blocks (CancelOrErrorEndsDo below).
RoomForNil ==
    mainPc = "pushNil" /\ fails + (IF canceled THEN 1 ELSE 0) <= WorkerCount
        => Len(errCh) < ErrChCap

\* No delivery touches an audio file an earlier step has finished, though
\* WriteFile truncates: retries resume where the last delivery stopped.
WholeAudioKept ==
    [][\A p \in Parts : audio[p] = "whole" => audio'[p] = "whole"]_vars

-----------------------------------------------------------------------------
(* Liveness. *)

\* Do returns, so that the queue of the stage is not stuck for ever, or it
\* has met more failures and cancellations than errCh has room for.
DoReturns ==
    []<>(mainPc = "returned" \/ fails + (IF canceled THEN 1 ELSE 0) > WorkerCount)

\* "make sure we exit in case of error or cancelling": Do ends after an
\* error that a part has reported and after a cancellation.
CancelOrErrorEndsDo == MustStop ~> mainPc = "returned"

==============================================================================
