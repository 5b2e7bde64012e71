# Big TTS: a TLA+ verification project

`big-tts` turns long texts and SSML documents into one audio file: a text is uploaded,
split into requests small enough for a TTS service, synthesized piece by piece, and joined
with `ffmpeg`; the user hears of the result by mail. Seven Go services share RabbitMQ
queues, MongoDB tables and a directory tree. This directory holds TLA+ models of the parts
that decide whether a task arrives whole, once and in the end; the TLC configurations that
check them; and TLAPS proofs of their safety properties for all values of the constants.

Paths below are relative to the repository; `service.go:192` alone means
`src/internal/pkg/synthesize/service.go:192`.

Run, in this directory: `tlc -config Pipeline_tasks.cfg Pipeline.tla` (any line of
the table of runs), `tlapm PipelineProofs.tla`.

## 1. Inventory

| Component | State it keeps | Operations | Talks to |
|---|---|---|---|
| upload service (`upload/`) | none; writes a file, a request row, a status row | accept an upload | doorman headers, Mongo, queue `Upload` |
| synthesize service (`synthesize/service.go`) | one unacknowledged message per consumer | `listenUpload`, `split`, `synthesize`, `join`, `restoreUsage`, `processMsg` | all queues, status table |
| splitter (`splitter/`) | text files of the parts | `Do`: `splitText`, `doSSML` | files |
| synthesizer (`synthesizer/`) | audio files of the parts; goroutines and two channels while it runs | `Do` | TTS service over HTTP, files |
| joiner (`joiner/`) | the list and the result file | `Do` | `ffmpeg`, files |
| usage restorer (`usage/`) | none | `Do` | doorman service over HTTP |
| inform service (`inform/`) | one message, the row of `emailLock` | `processMsg`, `work` | queue `Inform`, Mongo, SMTP |
| mongo tables (`mongo/`) | `status`, `requests`, `emailLock` | save, load, delete | |
| status, result, clean services | none | read a row; serve the result; delete a task, or old tasks | Mongo, files |

**Interaction.** Messages go `Upload -> Split -> Synthesize -> Join`; each stage sends to
the next one and then acknowledges. `Fail` carries refunds, `Inform` what the user is to
be mailed. Every queue has one consumer in its process, with a prefetch of one. The broker
requeues, flagged `Redelivered`, what a closed channel had not acknowledged. A handler that
fails is Nacked: requeued when the flag is not set, otherwise reported (status, inform,
refund: three calls that ignore their own errors) and dropped. All stages of a task share one
status row and one directory.

**What is hard here.** Delivery at least once, with work done before the acknowledgement;
one flag that stands both for "has failed before" and for "was cut off before"; several
calls that may each fail on their own; a pool of goroutines that must neither block nor
outlive its call; a lock table around a mail server whose answers may be lost; offsets of
text counted in runes, bytes and joining spaces. `PROJECT.json` lists these as hazards at
their lines, each with the properties that watch it or the reason why none does.

**What makes each part correct.**

- *synthesize service*: an accepted task is never lost, is settled in the end, is completed
  only with its whole result, tells one outcome, and has its usage given back when it
  should be.
- *synthesizer*: never more than `workerCount` calls, no goroutine left when `Do` returns,
  success only with all parts, an end in every case.
- *splitter*: chunks that fit, cut at sentences where possible and never in a word; the
  requests together are the document, in order, in the right voices.
- *inform service*: one sender at a time, a mail not sent twice, not forgotten.
- *upload service*: a text is kept only with consent; what is sent is stored, and what a
  failed upload leaves can be found.
- *joiner, status, result, clean services*: the joined list is complete; a client that is
  told of a result gets all of it; what is deleted does not come back, and what expires is
  deleted in the end.

## 2. Modules

| Module | Models | Extends / composes |
|---|---|---|
| `Pipeline` | the life of tasks through upload, five consumers, broker, faults and disruptions | refines `TaskPromise` |
| `TaskPromise` | abstract: in flight until settled, never back | |
| `Synthesizer` | one `Worker.Do` and its goroutines, redeliveries and crashes | |
| `Inform` | several inform processes and the lock table | |
| `SplitText` | `splitText` and `getNextSplit`, one iteration per step | |
| `SplitSSML` | `doSSML`, `splitTextParts`, `getPartsTo` | instance of `SplitText` |
| `MCSplitText`, `MCSplitSSML` | the enumerated inputs | |
| `Storage` | rows and files of one task between the consumers of the synthesize service and the inform, clean, status and result services | |
| `Upload` | the parameters of a request, and the steps that store and send it | |
| `MCUpload` | the speeds about the bounds of `getSpeed` | `Upload` |
| `PipelineProofs`, `SynthesizerProofs`, `InformProofs`, `SplitTextProofs`, `UploadProofs`, `StorageProofs` | theorems | their models, TLAPS |
| `PipelineOutcomeProofs` | theorems about a task of which no delivery is repeated, and about the input of a stage | `PipelineProofs` |
| `SplitSSMLProofs` | theorems | `SplitSSML`, instance of `SplitTextProofs` |

Names beginning with `Bug` are deliberately wrong variants of a definition. No
specification uses them; substituted for the definition, each shows that a property notices
the mistake (`mutants` in `PROJECT.json`).

### Pipeline

A consumer `q` is a program counter `pc[q]`, the unacknowledged message `cur[q]` and the
`cause` its handler returned. `After` is the order of the calls in each handler; each call
is an action with its success and its failures: `SaveStatus`, `StartSplit`/`FinishSplit`
(`Splitter.Do` up to the first file it truncates, and to the last one it writes),
`DoSynthesize` (`Synthesizer.Do`), `StartJoin`/`FinishJoin` (the two sides of `ffmpeg`, which
creates the result file and will not overwrite one), `CompleteStatus`, `Inform`, `Send`,
`RestoreUsage`. `made[t]` are the stages whose files are whole: a Split that is done again
takes itself out of it until it has finished. The end of `processMsg` is `Ack` (line 192),
`AbandonOnStop` (lines 163-168), `NackRequeue` (lines 169 and 190), or `LastFailure; SaveError;
InformFailed; SendFail; NackDrop` (lines 169-190). `SaveRequest`/`SendUpload` are the upload
service. The broker is the bag `queue[q]`: order within a queue is left open, so that
everything holds for every order. A message keeps what set its flag (`"nacked"` or `"lost"`),
so that a trace can be read; the code and every property see only `# "no"`.

The life of the process: `Stop` (SIGTERM cancels the context), `LoseConnection` (the channels
close under running handlers, whose Ack and Nack then do nothing), `Crash` (killed, and its
container started again), `Exit` (main returns: after a shutdown at any time, since it waits
15 seconds at most; after a lost connection when the consumers have returned) and `Start`
(somebody starts it again). Between `Exit` and `Start` it is `Down`.

`history`, `seen`, `faults`, `disruptions` are history variables or bounds. Each guards an
action only as a bound. Among the marks, `refundDue` is set when the refund is called for
(line 179), whether or not its message can be sent; `refundUnsent` when it could not.

### Synthesizer

`mainPc` walks `Do` (`src/internal/pkg/synthesizer/worker.go:75-134`): the loop, the select
with `default` (`poll`), the second select (`acquire`), the waits and the two sends.
`worker[p]` walks a goroutine. `errCh` is its buffer, `syncCh` a count. The choice of a
`select` among ready cases is a disjunction. A part's file is `none`, `torn` or `whole`;
`WriteFile` truncates, then writes. `Redeliver` and `Crash` start `Do` anew over the files
that are there. The HTTP call is one step that succeeds or fails; its retries and timeouts
are inside.

### Inform

Several processes `w` walk `prepare, lock, send, markSent | reopen, ack | error`. The lock
row is 0, 1 or 2. `Lock`, `UnLock` and `Send` are outside the repository and are modelled
from their use: `Lock` is one atomic step that takes a free row only, and a call that fails
may have taken effect (`lock`, `unlock`, `unsure`). `GetEmail` failing for good (a task
without an address) is the fault `prepare`, repeated. The life of a process is that of
`Pipeline`: `Stop`, `LoseConnection`, `Crash`, `Exit`, `Start`.

### SplitText and SplitSSML

A text is a sequence of six kinds of characters, which are all the code distinguishes
(letter, upper case, stop, space, tab, new line). `SplitText` has one step per rune the
window loop of `getNextSplit` looks at and one per chunk. `Start` is `wantedChars` and
`Interval` is `wantedChars/4`; the model leaves the two independent of each other, so that a
small text can have a small start and a window of some width. `getNextSplit` never looks at
the first rune of a text, so the inputs fix it.

`SplitSSML` takes the steps of `SplitText` as those of its own text, adds one step per part
for `getPartsTo`, whose pieces are byte intervals of the parts, and one per item and chunk
for the loop of `doSSML`, which gathers the pieces of a chunk into requests. A pause is an
item without parts, and in a request the piece `PauseAt(n)` of no part. `Wide` is the set of
characters that take two bytes. The SSML parser is a library and gives pauses, voices and
texts of parts that are trimmed and not empty: so are the `Documents`. What the proofs need
of that is `DocumentsAssumption`: a part has characters, and no blank at its end. `ContentKept`
says of the requests that their pieces follow each other from the first item of the document
to its end (`Covers`): each begins at the byte, the part or the item that comes next after
the one before it (`Begins`, `Following`), so that nothing is left out, repeated or moved.

### Storage

`Storage` composes the services where they meet: in the rows of the three tables, the files of
the directories, and the messages that make one of them act. The consumers are the three stages
that touch files, `Fail`, and `Inform` of the inform service. The stages are those of `Pipeline`,
cut down to the steps that touch a row or a file (`SplitSteps`, `SynthesizeSteps`, `JoinSteps`)
but finer in the files: `OpenText`/`WriteText` and `OpenAudio`/`WriteAudio` are the two sides of
`WriteFile`, `MakeList` is the joiner's `makeList`, which ends at the first missing number,
`LookForPart` the synthesizer's loop, which ends at the first missing text. `splits` says whether
the splitter accepts the text; it is what fails without a trouble, and twice.

The end of a handler is that of `processMsg`, call by call: `NackRequeue`, or `LastFailure`,
`SaveError`, `InformFailed`, `SendFail` and `Leave`. The message of `SendFail` goes to the
consumer of `Fail`, whose `RestoreUsage` may be refused as often as it is called; its second
failure goes through `SaveError` and `InformFailed` once more, on whatever row there is. `Save`
makes a row that is not there. The inform service reads the address (`FindAddress`), makes the
lock row later (`LockMail`) and writes it again after the mail (`UnLockMail`, which may or may
not make a row that was deleted: the table's code is elsewhere); its failures are requeued once
like others.

The clean service (`StartClean`, then the `Jobs` in the order of `src/cmd/clean/main.go`: rows,
`in`, `work`) asks nobody whether a consumer is at work. `AtRest` says that none is and that no
message of the task is left, one to `Fail` or `Inform` included; only a deletion at rest is free
of trouble. A client asks for the status until it is COMPLETED, then for the name of the result
and for the file. `Others` says who acts besides the services: a client, the time that lets a
task expire. `marks` is a history of what the properties except.

### Upload

`Forms` are the fields, headers and files a client sends, `Refused` and `ReqData` what
`Configure` makes of them; a speed is a number in millionths, NaN, a text or nothing. The
handler saves the text, the row of the request, the status, and sends the message (`Then`).
Every call may fail and the service may die before every one; both end the upload, for
nothing tries it again.

## 3. Runs

All are in `PROJECT.json`; each property of a *pass* run has a mutant there. Properties
that stand with proofs only (section 6) are in no run of their own.

| Run | Question | Bounds |
|---|---|---|
| `pipeline_tasks` | which outcome the user, the status and the usage service see when calls fail; the same task stopped, cut off or killed: nothing lost, no stage before its input, refinement of `TaskPromise`; every task and every refund settles | 1 task; 4 failing calls of every kind (`MaxFaults`), or 1 of them (`MaxLateFaults`) and 1 disruption; 2 consumers at work at once (`MaxBusy`) |
| `synthesizer_pool` | what the result of `Do` promises, what a retry finds, that `Do` stops promptly and returns | 4 parts, 2 workers, 2 deliveries, 3 failures, shutdown, crash |
| `inform_mails` | the lock and the mail | 2 processes, 2 messages for a mail, 2 failures, 2 disruptions |
| `split_text` | `splitText` on all texts up to 7 characters | `Start` 1, `Interval` 4 |
| `split_documents` | pieces and requests of `doSSML` | `Start` 3, `Interval` 2; 1 text of 3 parts of 7 characters; 3 items of 2 parts of 3 |
| `storage_clean` | what a client is given, what a deletion leaves, that what expires is deleted | 1 task of 2 parts, 1 trouble: a failing call or job, a crash of either service, or a deletion of a busy task; 2 consumers at work at once |
| `upload_requests` | consent, storage before the message, leftovers, speeds | every form, 9 speeds about the bounds, a failure or crash at every step |
| `synthesizer_hangs`, `inform_sent_twice`, `split_wide_words_torn`, `split_words_glued`, `storage_deleted_returns` | a statement of a comment or test that the code does not keep (section 5) | the smallest that shows it |

**What they show.** Without a disruption the user of a task of `pipeline_tasks` is told
Finished or Failed, never both; the status agrees once the status table works; the usage comes
back once and only after a failure that calls for it, and a refund that is due is lost only
when its message could not be sent, which the code logs; one failing call before `ffmpeg` has
begun does not end a task (`OneFailureRetried`). With one the outcome may be told twice, which
is why those properties are conditional on no disruption, but no task is lost and a completed
one has its file. Synthesize may there find texts that a repeated Split is writing anew;
`StageInputReady` says that it takes a disruption, and that Split finishes them or gives the
task up. A synthesis cut off by a shutdown is not reported (`CancelledNotReported`), though it
costs the task its one retry (section 5). `synthesizer_pool` shows that nil means all parts are
there, that one part at most is started after the stop shows, and that `Do` returns as long as
failures and the cancellation together are no more than the workers: the condition in
`DoReturns` is where the code stops keeping it. `storage_clean` shows that a client that waits
for COMPLETED gets the whole result or, after a deletion, none, and names the three ways to a
piece of it: the task was deleted while it was worked on, a write was cut, or a text was read
while a Split that was done again wrote it, which takes a crash. What is deleted at rest is
gone; what is deleted while a stage, a refund, a mail or another job is at work, or a message
of one is left, may leave rows and files that the timer, which looks for the row of the
request, never finds again. `upload_requests` shows the same row to be found after every failed
upload, for all that is left of it but the text itself, which is saved before the row.

**Why the bounds are enough.** A message is handled at most twice without a disruption, so four
failing calls cover a stage failing twice *and* two of the three reports after it, or two
failures of a stage and two of a restore. A disruption adds a copy of a message; with one a
single call fails, which is as many as a task needs then to be given up. `MaxBusy` bounds how
many consumers have a message at once: with no bound `Pipeline` takes more than nine million
states, and `Storage` with three eight times those of the run. Two are the interplay that a
repeated delivery makes: one consumer that is behind, and one that has overtaken it; cleaner
and client are besides. The bound is a guard of `Deliver`, a schedule the broker may choose; it
cuts no behaviour short, so the liveness properties are checked on complete behaviours.
`NoTaskLost`, `StageInputReady`, `CompletedHasResult` and the refinement do not rest on the
bound, on one task or on one disruption: they are proved for all. One task is enough for the
other properties because no state but the consumers is shared between tasks. Two workers and
four parts have slots of the pool used again while an error waits. Two inform processes and two
messages for a mail have each overtake the other at every step. Texts of seven characters and a
window that ends at five have two cuts and every relation of a rest to the limit; three parts
reach the joining spaces on either side of a part. In `Storage` a deletion of a task at rest is
free, so that one trouble meets any number of deletions; two troubles are left to `Pipeline`,
as are the calls that fail with effect. Two parts have one whole while the other is missing,
short or torn. The directories of the parts are removed each in one step, in any order: files
of one directory that go one by one would only be seen by a stage at work, and such a deletion
is excepted already.

Deadlock is checked in all passing runs except `synthesizer_pool`, where a state with a
full `errCh` is a real end (section 5).

## 4. Fairness

- *Consumers*: weak fairness of `Deliver(q)` and of the handler's step (`CallReturns`). The broker
  delivers to an open consumer; every call has a timeout (10 minutes for a synthesis, 10
  seconds for a restore) or fails. The exception is `Synthesizer.Do`, which may block for ever
  (section 5): no fairness is assumed of the step that is at work in it.
- *Exit*: weak fairness; `main` returns 15 seconds after a signal, and by itself when closed
  channels have ended its consumers.
- *Start*: no fairness. `main` returns with exit code 0, and the compose file of the integration
  tests has `restart: on-failure` for every service, which starts again what was killed or has
  ended with an error, but not that; the sample compose file has `unless-stopped`, for MongoDB and
  RabbitMQ only, and does not have the services. Whether a service that has ended comes back is up
  to whoever runs it, so it is a condition of the properties: `KeepsRunning` in `Pipeline` says
  that the service runs again and again, and that `Synthesizer.Do` returns whenever it is called;
  in `Inform`, that some process runs again and again. `TaskSettles`, `RefundSettles` and
  `MailSettles` begin with `KeepsRunning =>`.
- *Storage*: weak fairness of the cleaner with its timer, which fires every hour and looks for
  all expired rows. No fairness of consumers and clients: `ExpiredIsCleaned` begins with a task at
  rest.
- *Goroutines*: weak fairness of the main goroutine and of each part; Go's scheduler gives it. No
  fairness is assumed of the random choice in `select`.
- Nothing obliges a user to upload, a call to fail or succeed, or a disruption to happen.

## 5. Where the code and its comments differ

Each is a run whose expected result is a violation.

- `synthesizer_hangs`: `errCh` has `workerCount+1`
  slots. A cancellation plus `workerCount` failures, or `workerCount+1` failures after the
  loop's last look at the channel, fill it, and `Do` blocks for ever on its own `errCh <- nil`,
  with its message unacknowledged.
  `RoomForNil` states, and the proofs show, that up to `workerCount` values there is room.
- `inform_sent_twice`: a `Send` that fails after the server took the mail has it sent again.
- `split_wide_words_torn`: `getPartsTo` slices bytes with offsets counted in runes; with
  letters beyond ASCII pieces are cut in words and letters. `RequestFits` fails there too:
  fewer runes than bytes are taken from a part, and its rest is longer than the chunk.
- `split_words_glued`: a text of exactly the limit is cut in two and gathered in one
  request again without the space it was cut at.
- `storage_deleted_returns`: the integration test `TestClean_OK` waits until the status tells a
  result or an error, deletes the task and expects the status to be gone. After an error the
  message to `Fail` is still to come or to be handled; when the refund fails twice, `processMsg`
  saves the status of the deleted task (`service.go:171`), `Status.Save` upserts, and the row comes
  back, which no timer finds, for the row of the request is gone.

Met while modelling, and not run: COMPLETED is not final, since a repeated delivery takes the
status back to Join and on to an error, as `ffmpeg` will not overwrite the result. A Nack is to
"redeliver for first time" (`service.go:190`), but the flag `Redelivered` that stands for the
first time is set by a shutdown too: after one the first failing call gives a task up, and
`OneFailureRetried`, which excepts disruptions, fails without that exception. A refund
whose message to `Fail` cannot be sent is logged and lost (`service.go:182-185`); no text of the
repository says otherwise, and `NoRefundLost` and `RefundSettles` except it by name.

## 6. What is proved

TLAPS checks the theorems below for all values of the constants that satisfy the named
`ASSUME`s: any number of tasks, parts, workers, processes and mails, any bounds on faults and
disruptions, any text, any document. The assumptions say that bounds are natural numbers, that
the sets of faults are sets of known kinds, that `None` is no message, that `WorkerCount` and
`Start` are positive, and what the SSML parser gives (section 2). `PieceWordsKept` and
`RequestFits` have `Wide = {}` as a hypothesis: without it they are false (section 5).

**Pipeline** (`PipelineProofs`): `TypeOK`, `NoTaskLost`, `NoRefundLost`, `CompletedHasResult`,
 `CancelledNotReported`, `RestoredOnlyWhenBlamed`, and that `Pipeline`
implements `TaskPromise` (`KeepsPromiseHolds`). The properties are not inductive alone. The
invariant adds, among others: a pc belongs to its consumer's handler and has a message
(`TypeInv`); Join's result is torn while `ffmpeg` runs and a task once completed is whole
(`JoinInv`, `ResultInv`); a task that is accepted and not settled has a message, and one that
is not accepted has none (`TokenInv`, `FreshInv`); a message on a later queue has its files, or
Split has begun them anew (`StageInv`); causes agree with the pc, and a handler that was cut off
waits at its error for the end of the process (`CauseInv`); who refunds has somebody to blame
(`BlameInv`); a refund that is due has its message (`RefundInv`); what an unlinked consumer
still holds was returned to the broker (`LinkInv`), from which `CancelledNotReported` has that
the message of a synthesis that was cut off is still there. The crux of `NoTaskLost` is
that a stage sends before it acknowledges, so that a message leaves its queue only when the
next queue holds one or the task is settled. `LinkInv` carries it over lost connections.

**Pipeline without repeated deliveries** (`PipelineOutcomeProofs`): `OneOutcomeTold`,
`StatusTellsOutcome`, `OneFailureRetried`, `RestoredAtMostOnce`, with the conditions they
state (`Calm`: no disruption so far); and `StageInputReady`, for all behaviours, whose calm part
is here: without a disruption a task at Synthesize has left Split, and its texts are finished
(`InputInv`). All but `OneFailureRetried` rest on `OutcomeInv`: a task
is in one place at a time, one message on one queue or one consumer (`LoneTask`), and what has
happened to it fits the place where it is (`OutcomeTask`): in the stages it has no outcome, who
was told of success is told of no failure, a refund belongs to a task given up or about to be.
That a task is alone is not so obvious, for each stage sends before it acknowledges: the step
from `send` to `ack` takes the task from the consumer to the next queue, and that the Ack
still to come takes nothing more needs the channel to stay open. `RestoreInv` adds
that the one Fail message is gone when the usage is given back, `StatusInv` what is saved
before each report, `ToldInv` that a task leaves the stages only with an outcome.
`OneFailureRetried` counts instead (`RetryInv`): a message that came back has met one failing
call, or a result left by `ffmpeg`, and whoever reports it has met two.

**Synthesizer** (`SynthesizerProofs`): `TypeOK`, `BoundedConcurrency`, `NoWorkerOutlivesDo`,
`NilMeansWhole`, `ErrorNotSwallowed`, `StopsPromptly`, `WorkerNeverBlocks`, `RoomForNil`,
`WholeAudioKept`. The invariant counts: tokens in `syncCh` are the goroutines that have not
released theirs; the values in `errCh` and the one taken are the failures reported and the
cancellation; nil comes last.

**Inform** (`InformProofs`): `TypeOK`, `OneSender`, `SentAtMostOnce`, `LockNotLeaked`,
`MailNotForgotten`, `OneFailureLosesNoMail`. The invariant ties the lock row to the process
between `Lock` and `UnLock`, and a mail that was sent to a row that is not free. For the last
it follows where the one trouble went. Before a failure a mail that is not sent is
`Untroubled`: its row is free and nothing was dropped, or somebody is about to send it. After
the failure it is `Retried`: while it is owed, a message is on its way that will get it sent
(`Live`), and a handler that gives the row back after a failed sending has a message that is
delivered once more. A row that is not free always has its sender, so that a message dropped
for failing twice at `Lock` is never the last hope of its mail.

**Upload** (`UploadProofs`): `TypeOK`, `ConsentHonoured`, `SentIsStored`, `LeftoverIsFound`,
`SentSpeedIsUsable`, and `ResultIsNamed`, for all voices and speeds. The invariant says what
is stored before each step (`Inv`); of the parameters it needs only that a stored row is what
`Configure` makes of the form, which does not change. The rest is the table of consent, and
the arithmetic of the bounds, for every integer.

**SplitText** (`SplitTextProofs`): `TypeOK`, `ChunkFits`, `WordsKept`,
`RefusedOnlyWithoutSpace`, `SentenceFirst`, `WholeTextSplit`. The invariant relates the
pattern of the last three kinds to the characters behind the loop, and the best cut so far to
the window that was read.

**SplitSSML** (`SplitSSMLProofs`): `PartsSuffice`, `ContentKept`, `VoiceKept`, and for
characters of one byte `PieceWordsKept` and `RequestFits`. The module takes the invariant of
`SplitTextProofs` over the text that is being split (`Cutter`), as the steps are the same. The
crux is `AheadInv`. `getPartsTo` counts the space that joins two parts to the first of them,
even when the chunk ends with the part and the space opens the next chunk; from then on it is
one rune ahead. It stays at one: only a part that ends with the chunk gains a rune. Were it
ahead already, the last character of that part would be the one behind the chunk; a chunk that
was cut is followed by a blank, and no part ends with a blank (the parser's promise). From this
follow that the parts suffice, and that a part is left only where the chunk was cut, or one
rune behind that, and so at a blank. `ContentInv` says how far the requests, the chunks that
are not merged yet and the piece at hand have come in the document; `FitsInv` counts their
runes. Both rest on lemmas about `FlattenSeq` and the text that `Join` makes of the parts, up
to which rune each part reaches (`JoinNext`, `StartNext`, `RuneOfPart`). As the induction
theorems of the library are out of reach (section 7), these argue by the least number for which
a definition fails (`LeastNumber`).

**Storage** (`StorageProofs`): `TypeOK`, `NoOrphan`, `TornReadNeedsCrash`, `ToldGetsWhole`.
Every handler is at a step of its own with its loop index in range (`StepsInv`); what is at
rest when it is deleted stays at rest (`DeletedInv`): every step of the six consumers needs a
handler at work or a message, those of `Fail` and `Inform` included. `OrphanInv`: what the
cleaner has passed is gone, and until then the row of the request is there. `TornInv`: until a
crash Split is done once, and has written all when Synthesize begins. `ToldGetsWhole` goes
along the pipeline: the texts are there for the stages after Split until the task is deleted
(`TextsInv`, `KeptInv`), the audio of every part for Join, whole unless a write or a read was
cut (`AudioInv`, `ResultInv`), and the result for the client (`WordsInv`).

Of these, `ErrorNotSwallowed`, `WorkerNeverBlocks`, `RoomForNil`, `OneSender`,
`RefusedOnlyWithoutSpace`, `WholeTextSplit`, `ResultIsNamed` and every `TypeOK` stand with their
proofs; no run repeats them.

## 7. What is only model-checked, and assumptions of the models

- Liveness (`TaskSettles`, `RefundSettles`, `DoReturns`, `MailSettles`,
  `ExpiredIsCleaned`): it rests on fairness and `ENABLED`, which the prover cannot treat.

Every safety property that a passing run checks is proved too, `KeepsPromise` among them. The
induction theorems of the library take an operator as a parameter, which the installed
provers cannot instantiate. Where an induction was needed it is written out for the one
definition it is about.

Assumptions: a `Send` that returns nil means that the broker has the message and keeps it; one
that fails means it does not. A `Save` that fails has no effect. `FileExists` takes any error
of `stat` for an absent file, which is modelled as an absent file. The channels of one process
close together. A message that is not JSON is dropped by the code (`service.go:155`); nothing
in the repository sends one, and it is left out. Retries within a call are part of the call.

## 8. What is not modelled, and the plan

Order of work, most important first; the first eight are done.

1. `Synthesizer` with its proofs (the pool is where the code can hang).
2. `Pipeline`, `TaskPromise` and proofs (no task lost, refinement).
3. `Inform` with proofs.
4. `SplitText` with proofs: the algorithm that all texts go through.
5. `SplitSSML` with proofs.
6. `Storage` with proofs.
7. `Upload` with proofs.
8. Proofs of every safety property the runs check.
9. An abstract specification of `Do` that `Synthesizer` implements, for `Pipeline`'s
   `DoSynthesize` to rest on, with the refinement proved.
10. The files that `SplitText` yields composed with `Synthesizer`'s `Parts`.

Not modelled, and why:

- The speech rates (`toRateStr`, `src/internal/pkg/splitter/worker.go:188`): one floating-point
  formula, with no statement of what a speed of 0 should give.
- `usage.parse`: an identifier that is not `service:request` is a failing restore like others.
- The timer of type `dir`, which no configuration here chooses: with it the text of a failed
  upload would be found too.
- Tags, metadata of the audio and the identifier of a request: carried along, never decided on.

Left out for good: HTTP routing, configuration, metrics and logging; mail templates and time
zones; the XML that is written; the unit tests' mocks. They keep no state that a step of
another component depends on.
