------------------------------- MODULE Storage --------------------------------
(***************************************************************************)
(* What is kept of one task, its rows and its files, and who touches them: *)
(* the stages of the synthesize service, file by file, and what it does    *)
(* when one has failed for good; the inform service, which leaves a lock   *)
(* row; the clean service, which deletes on request or by age and asks     *)
(* nobody whether the task is still worked on; the status and the result   *)
(* service, through which a client waits for the result and fetches it.    *)
(* Pipeline and Inform have the shutdowns and what the calls mean; here a  *)
(* call may fail anywhere.  The listener of Upload touches no file and is  *)
(* left out.                                                               *)
(***************************************************************************)
EXTENDS Integers, Sequences, FiniteSets

CONSTANTS
    PartCount,   \* the parts the splitter makes of the text
    Others,      \* who acts besides the services: "client", "time"
    MaxTroubles, \* bound: failing calls and jobs, crashes, deletions of a busy task
    MaxBusy      \* bound: consumers that have a message at once

ASSUME PartCountAssumption == PartCount \in Nat \ {0}
ASSUME OthersAssumption == Others \subseteq {"client", "time"}
ASSUME MaxTroublesAssumption == MaxTroubles \in Nat
ASSUME MaxBusyAssumption == MaxBusy \in Nat \ {0}

Parts == 0 .. PartCount - 1
Stages == {"Split", "Synthesize", "Join"}

\* The consumers of the queues: the synthesize service has the stages and
\* Fail, the inform service has Inform.
Synthesis == Stages \cup {"Fail"}
Consumers == Synthesis \cup {"Inform"}

\* mongo.Tables()
Tables == <<"requests", "status", "emailLock">>

\* Mutant: the directory work is not among the patterns.
BugJobs == Tables \o <<"in">>

\* The tables and the patterns of the configuration, in the order of main.
Jobs == Tables \o <<"in", "work">>

Input == <<"in", 0>>
Text(p) == <<"split", p>>
Audio(p) == <<"audio", p>>
List == <<"list", 0>>
Result == <<"result", 0>>
WorkFiles == ({"split", "audio"} \X Parts) \cup {List, Result}

VARIABLES
    rows,     \* rows[table]: the row of the task, "none" when there is none
    files,    \* files[f]: "torn" until written, "short" when words are missing
    queue,    \* queue[s][redelivered]: the messages for consumer s
    cur,      \* cur[s]: the message of s that is not acknowledged
    pc,       \* pc[s]: where the handler of s is
    at,       \* at[s]: the part its loop is at; the length of Join's list
    call,     \* call[p]: what of the text of p is being synthesized
    splits,   \* the splitter accepts the text
    job,      \* the job of Jobs the cleaner is at; 0 when there is none
    expired,  \* the row of the request is older than timer.expire
    client,   \* "told" of COMPLETED, "asked" for the result, "answered"
    got,      \* what the result service answered
    marks,    \* history: what has happened to the task
    troubles

stages == <<queue, cur, pc, at, call>>
cleaning == <<job, expired>>
reading == <<client, got>>
elsewhere == <<splits, cleaning, reading, marks, troubles>>
vars == <<rows, files, stages, elsewhere>>

Answers == {"none", "refused", "error", "torn", "short", "whole"}
Marks == {"deleted", "deletedBusy", "deletedDone", "jobFailed", "cutWrite",
          "tornRead", "crashed"}
Steps == {"idle", "save", "read", "open", "write", "look", "wait", "failing", "list",
          "start", "ffmpeg", "complete", "inform", "send", "restore", "find", "lock",
          "unlock", "ack", "error", "saveErr", "informFailed", "sendFail", "drop"}

TypeOK ==
    /\ rows \in [{Tables[n] : n \in DOMAIN Tables} ->
                    {"none", "row", "working", "failed", "COMPLETED"}]
    /\ files \in [WorkFiles \cup {Input} -> {"none", "torn", "short", "whole"}]
    /\ queue \in [Consumers -> [BOOLEAN -> Nat]]
    /\ cur \in [Consumers -> {"none", "first", "again"}]
    /\ pc \in [Consumers -> Steps]
    /\ at \in [Consumers -> 0 .. PartCount]
    /\ call \in [Parts -> {"none", "short", "whole"}]
    /\ splits \in BOOLEAN
    /\ job \in 0 .. Len(Jobs)
    /\ expired \in BOOLEAN
    /\ client \in {"waiting", "told", "asked", "answered"}
    /\ got \in Answers
    /\ marks \subseteq Marks
    /\ troubles \in 0 .. MaxTroubles

-----------------------------------------------------------------------------
(* Helpers. *)

\* Mutant: Split sends its message before it writes the texts.
BugSplitSteps == [save |-> "read", read |-> "send", send |-> "open", open |-> "ack"]

\* Mutant: the task is completed before its audio is joined.
BugJoinSteps ==
    [save |-> "list", list |-> "complete", complete |-> "start", start |-> "ffmpeg",
     ffmpeg |-> "inform", inform |-> "ack"]

\* What split, synthesize and join do after each step that succeeds.
SplitSteps == [save |-> "read", read |-> "open", open |-> "send", send |-> "ack"]
SynthesizeSteps == [save |-> "look", look |-> "wait", wait |-> "send", send |-> "ack"]
JoinSteps ==
    [save |-> "list", list |-> "start", start |-> "ffmpeg", ffmpeg |-> "complete",
     complete |-> "inform", inform |-> "ack"]

After == [Split |-> SplitSteps, Synthesize |-> SynthesizeSteps, Join |-> JoinSteps]

FirstStep == [Split |-> "save", Synthesize |-> "save", Join |-> "save",
              Fail |-> "restore", Inform |-> "find"]

NextStage == [Split |-> "Synthesize", Synthesize |-> "Join"]

Put(s, redelivered) == [queue EXCEPT ![s][redelivered] = @ + 1]

\* Status.Save with a status, and with an error only: both make the row when
\* it is not there.
Saved(st) == [rows EXCEPT !.status = st]
SavedError == [rows EXCEPT !.status = IF @ = "COMPLETED" THEN @ ELSE "failed"]

\* Joiner.makeList: the files up to the first number that has none.
FirstMissing ==
    CHOOSE n \in 0 .. PartCount :
        /\ \A p \in 0 .. n - 1 : files[Audio(p)] # "none"
        /\ n < PartCount => files[Audio(n)] = "none"

Trouble == troubles < MaxTroubles /\ troubles' = troubles + 1

\* No consumer has the task, and no message of it is left.
AtRest == \A s \in Consumers : pc[s] = "idle" /\ \A f \in BOOLEAN : queue[s][f] = 0

Left == (\E t \in DOMAIN rows : rows[t] # "none") \/ \E f \in DOMAIN files : files[f] # "none"

\* The upload service has saved the file and the rows, and has sent the
\* message or failed to (see Upload).
Init ==
    /\ rows = [requests |-> "row", status |-> "working", emailLock |-> "none"]
    /\ files = [f \in WorkFiles \cup {Input} |-> IF f = Input THEN "whole" ELSE "none"]
    /\ \E n \in {0, 1} : queue = [s \in Consumers |-> [f \in BOOLEAN |->
                                    IF s = "Split" /\ ~f THEN n ELSE 0]]
    /\ cur = [s \in Consumers |-> "none"]
    /\ pc = [s \in Consumers |-> "idle"]
    /\ at = [s \in Consumers |-> 0]
    /\ call = [p \in Parts |-> "none"]
    /\ splits \in BOOLEAN
    /\ job = 0
    /\ expired = FALSE
    /\ client = "waiting"
    /\ got = "none"
    /\ marks = {}
    /\ troubles = 0

-----------------------------------------------------------------------------
(* The handlers. *)

Goto(s, step) == pc' = [pc EXCEPT ![s] = step]
Succeeds(s) == Goto(s, After[s][pc[s]])

Deliver(s) ==
    /\ pc[s] = "idle"
    /\ Cardinality({c \in Consumers : pc[c] # "idle"}) < MaxBusy
    /\ \E f \in BOOLEAN :
        /\ queue[s][f] > 0
        /\ queue' = [queue EXCEPT ![s][f] = @ - 1]
        /\ cur' = [cur EXCEPT ![s] = IF f THEN "again" ELSE "first"]
    /\ Goto(s, FirstStep[s])
    /\ UNCHANGED <<rows, files, at, call, elsewhere>>

SaveStatus(s) ==
    /\ pc[s] \in {"save", "complete"}
    /\ rows' = Saved(IF pc[s] = "save" THEN "working" ELSE "COMPLETED")
    /\ Succeeds(s)
    /\ UNCHANGED <<files, queue, cur, at, call, elsewhere>>

Inform(s) ==
    /\ pc[s] = "inform"
    /\ queue' = Put("Inform", FALSE)
    /\ Succeeds(s)
    /\ UNCHANGED <<rows, files, cur, at, call, elsewhere>>

Send(s) ==
    /\ pc[s] = "send"
    /\ queue' = Put(NextStage[s], FALSE)
    /\ Succeeds(s)
    /\ UNCHANGED <<rows, files, cur, at, call, elsewhere>>

\* Splitter.load and split; and save, which opens every file with O_TRUNC.
ReadInput ==
    /\ pc["Split"] = "read"
    /\ IF files[Input] = "none" \/ ~splits THEN Goto("Split", "error") ELSE Succeeds("Split")
    /\ UNCHANGED <<rows, files, queue, cur, at, call, elsewhere>>

OpenText ==
    /\ pc["Split"] = "open"
    /\ IF at["Split"] < PartCount
       THEN /\ files' = [files EXCEPT ![Text(at["Split"])] = "torn"]
            /\ Goto("Split", "write")
       ELSE Succeeds("Split") /\ UNCHANGED files
    /\ UNCHANGED <<rows, queue, cur, at, call, elsewhere>>

\* A file that was deleted since it was opened stays away.
Written(f, value) == [files EXCEPT ![f] = IF @ = "none" THEN @ ELSE value]

WriteText ==
    /\ pc["Split"] = "write"
    /\ files' = Written(Text(at["Split"]), "whole")
    /\ at' = [at EXCEPT !["Split"] = @ + 1]
    /\ Goto("Split", "open")
    /\ UNCHANGED <<rows, queue, cur, call, elsewhere>>

\* Synthesizer.Do, whose pool is in Synthesizer: the loop ends at the first
\* missing text, skips what has audio, and reads the others.
LookForPart ==
    LET p == at["Synthesize"] IN
    /\ pc["Synthesize"] = "look"
    /\ IF p = PartCount \/ files[Text(p)] = "none"
       THEN Succeeds("Synthesize") /\ UNCHANGED <<at, call, marks>>
       ELSE /\ at' = [at EXCEPT !["Synthesize"] = @ + 1]
            /\ UNCHANGED pc
            /\ IF files[Audio(p)] # "none" THEN UNCHANGED <<call, marks>>
               ELSE IF files[Text(p)] = "whole"
               THEN call' = [call EXCEPT ![p] = "whole"] /\ UNCHANGED marks
               ELSE call' = [call EXCEPT ![p] = "short"] /\ marks' = marks \cup {"tornRead"}
    /\ UNCHANGED <<rows, files, queue, cur, splits, cleaning, reading, troubles>>

OpenAudio(p) ==
    /\ call[p] # "none"
    /\ files[Audio(p)] = "none"
    /\ files' = [files EXCEPT ![Audio(p)] = "torn"]
    /\ UNCHANGED <<rows, stages, elsewhere>>

WriteAudio(p) ==
    /\ call[p] # "none"
    /\ files[Audio(p)] = "torn"
    /\ files' = [files EXCEPT ![Audio(p)] = call[p]]
    /\ call' = [call EXCEPT ![p] = "none"]
    /\ UNCHANGED <<rows, queue, cur, pc, at, elsewhere>>

CutWrites(ps) == IF \E p \in ps : call[p] # "none" /\ files[Audio(p)] = "torn"
                 THEN {"cutWrite"} ELSE {}

\* The call or the write fails, and the loop ends; a part that it starts
\* before it sees the error is as good as started before the error.
FailPart(p) ==
    /\ call[p] # "none"
    /\ Trouble
    /\ call' = [call EXCEPT ![p] = "none"]
    /\ Goto("Synthesize", "failing")
    /\ marks' = marks \cup CutWrites({p})
    /\ UNCHANGED <<rows, files, queue, cur, at, splits, cleaning, reading>>

\* wg.Wait()
WaitForParts ==
    /\ pc["Synthesize"] \in {"wait", "failing"}
    /\ \A p \in Parts : call[p] = "none"
    /\ IF pc["Synthesize"] = "wait" THEN Succeeds("Synthesize") ELSE Goto("Synthesize", "error")
    /\ UNCHANGED <<rows, files, queue, cur, at, call, elsewhere>>

\* Joiner.makeList and the list file.
MakeList ==
    /\ pc["Join"] = "list"
    /\ at' = [at EXCEPT !["Join"] = FirstMissing]
    /\ files' = [files EXCEPT ![List] = "whole"]
    /\ Succeeds("Join")
    /\ UNCHANGED <<rows, queue, cur, call, elsewhere>>

Listed == {files[Audio(p)] : p \in 0 .. at["Join"] - 1}

\* ffmpeg ends without a list, with an empty one, and when the result exists.
StartJoin ==
    /\ pc["Join"] = "start"
    /\ IF files[List] = "none" \/ Listed \subseteq {"none"} \/ files[Result] # "none"
       THEN Goto("Join", "error") /\ UNCHANGED files
       ELSE Succeeds("Join") /\ files' = [files EXCEPT ![Result] = "torn"]
    /\ UNCHANGED <<rows, queue, cur, at, call, elsewhere>>

\* A file of the list that has gone, or is torn, may end ffmpeg or be left out.
FinishJoin ==
    /\ pc["Join"] = "ffmpeg"
    /\ \/ /\ files' = Written(Result, IF Listed = {"whole"} /\ at["Join"] = PartCount
                                      THEN "whole" ELSE "short")
          /\ Succeeds("Join")
       \/ Listed # {"whole"} /\ Goto("Join", "error") /\ UNCHANGED files
    /\ UNCHANGED <<rows, queue, cur, at, call, elsewhere>>

\* UsageRestorer.Do, which touches nothing here and may well be refused.
RestoreUsage ==
    /\ pc["Fail"] = "restore"
    /\ Goto("Fail", "ack") \/ Goto("Fail", "error")
    /\ UNCHANGED <<rows, files, queue, cur, at, call, elsewhere>>

\* Any other call of a handler fails.
Fail(s) ==
    /\ pc[s] \in {"save", "read", "open", "write", "list", "start", "ffmpeg", "complete",
                  "inform", "send", "find", "lock", "unlock"}
    /\ Trouble
    /\ Goto(s, "error")
    /\ UNCHANGED <<rows, files, queue, cur, at, call, splits, cleaning, reading, marks>>

-----------------------------------------------------------------------------
(* The end of processMsg: Ack; Nack with requeue the first time; after the *)
(* second failure the synthesize service saves the error, asks for a mail, *)
(* sends a message to Fail unless it comes from there, and drops its own.  *)

EndsDelivery(s) ==
    /\ Goto(s, "idle")
    /\ cur' = [cur EXCEPT ![s] = "none"]
    /\ at' = [at EXCEPT ![s] = 0]

\* Ack, and Nack without requeue.
Leave(s) ==
    /\ pc[s] \in {"ack", "drop"}
    /\ EndsDelivery(s)
    /\ UNCHANGED <<rows, files, queue, call, elsewhere>>

NackRequeue(s) ==
    /\ pc[s] = "error" /\ cur[s] = "first"
    /\ queue' = Put(s, TRUE)
    /\ EndsDelivery(s)
    /\ UNCHANGED <<rows, files, call, elsewhere>>

LastFailure(s) ==
    /\ pc[s] = "error" /\ cur[s] = "again"
    /\ Goto(s, IF s = "Inform" THEN "drop" ELSE "saveErr")
    /\ UNCHANGED <<rows, files, queue, cur, at, call, elsewhere>>

\* The errors of these three are only logged.
SaveError(s) ==
    /\ pc[s] = "saveErr"
    /\ \/ rows' = SavedError /\ UNCHANGED troubles
       \/ Trouble /\ UNCHANGED rows
    /\ Goto(s, "informFailed")
    /\ UNCHANGED <<files, queue, cur, at, call, splits, cleaning, reading, marks>>

InformFailed(s) ==
    /\ pc[s] = "informFailed"
    /\ \/ queue' = Put("Inform", FALSE) /\ UNCHANGED troubles
       \/ Trouble /\ UNCHANGED queue
    /\ Goto(s, IF s = "Fail" THEN "drop" ELSE "sendFail")
    /\ UNCHANGED <<rows, files, cur, at, call, splits, cleaning, reading, marks>>

\* Only Synthesizer.Do makes errors for which the usage is not given back.
SendFail(s) ==
    /\ pc[s] = "sendFail"
    /\ \/ queue' = Put("Fail", FALSE) /\ UNCHANGED troubles
       \/ s = "Synthesize" /\ UNCHANGED <<queue, troubles>>
       \/ Trouble /\ UNCHANGED queue
    /\ Goto(s, "drop")
    /\ UNCHANGED <<rows, files, cur, at, call, splits, cleaning, reading, marks>>

-----------------------------------------------------------------------------
(* The inform service: the address is in the row of the request; the lock  *)
(* row is made before the mail is sent, and written again after it.  What  *)
(* the table's UnLock does to a row that was deleted is not known here.    *)

MadeLock == [rows EXCEPT !.emailLock = "row"]

FindAddress ==
    /\ pc["Inform"] = "find"
    /\ Goto("Inform", IF rows.requests = "none" THEN "error" ELSE "lock")
    /\ UNCHANGED <<rows, files, queue, cur, at, call, elsewhere>>

LockMail ==
    /\ pc["Inform"] = "lock"
    /\ rows' = MadeLock
    /\ Goto("Inform", "unlock")
    /\ UNCHANGED <<files, queue, cur, at, call, elsewhere>>

\* Send, and the deferred UnLock.
UnLockMail ==
    /\ pc["Inform"] = "unlock"
    /\ rows' \in {rows, MadeLock}
    /\ Goto("Inform", "ack")
    /\ UNCHANGED <<files, queue, cur, at, call, elsewhere>>

-----------------------------------------------------------------------------

ConsumerStep(s) ==
    \/ Deliver(s) \/ SaveStatus(s) \/ Inform(s) \/ Send(s)
    \/ Leave(s) \/ NackRequeue(s) \/ LastFailure(s)
    \/ SaveError(s) \/ InformFailed(s) \/ SendFail(s)
    \/ s = "Split" /\ (ReadInput \/ OpenText \/ WriteText)
    \/ s = "Synthesize" /\ (LookForPart \/ WaitForParts)
    \/ s = "Join" /\ (MakeList \/ StartJoin \/ FinishJoin)
    \/ s = "Fail" /\ RestoreUsage
    \/ s = "Inform" /\ (FindAddress \/ LockMail \/ UnLockMail)

PartStep(p) == OpenAudio(p) \/ WriteAudio(p)

\* The service with the consumers S dies; the broker has its messages back.
Dies(S) ==
    /\ Trouble
    /\ queue' = [s \in Consumers |-> [queue[s] EXCEPT
                    ![TRUE] = IF s \notin S \/ cur[s] = "none" THEN @ ELSE @ + 1]]
    /\ cur' = [s \in Consumers |-> IF s \in S THEN "none" ELSE cur[s]]
    /\ pc' = [s \in Consumers |-> IF s \in S THEN "idle" ELSE pc[s]]
    /\ at' = [s \in Consumers |-> IF s \in S THEN 0 ELSE at[s]]
    /\ UNCHANGED <<rows, files, splits, cleaning, reading>>

Crash ==
    /\ Dies(Synthesis)
    /\ call' = [p \in Parts |-> "none"]
    /\ marks' = marks \cup CutWrites(Parts) \cup {"crashed"}

InformCrash == Dies({"Inform"}) /\ UNCHANGED <<call, marks>>

-----------------------------------------------------------------------------
(* The clean service. *)

\* Cleaner.Clean(ID) begins; while the task is worked on it is a trouble.
StartClean ==
    /\ job = 0
    /\ job' = 1
    /\ marks' = marks \cup {"deleted"}
                     \cup (IF AtRest THEN {} ELSE {"deletedBusy"})
                     \cup (IF rows.status \in {"failed", "COMPLETED"} THEN {"deletedDone"} ELSE {})
    /\ IF AtRest THEN UNCHANGED troubles ELSE Trouble
    /\ UNCHANGED <<rows, files, stages, splits, expired, reading>>

\* DELETE /delete/:id
Delete == StartClean

\* Mutant: the timer looks into another table.
BugCleanExpired == expired /\ rows.emailLock # "none" /\ StartClean

\* The timer asks the table requests for expired rows.
CleanExpired == expired /\ rows.requests # "none" /\ StartClean

Directories(pattern) ==
    IF pattern = "in" THEN {{Input}}
    ELSE {{Text(p) : p \in Parts}, {Audio(p) : p \in Parts}, {List}, {Result}}

JobEnds == job' = IF job = Len(Jobs) THEN 0 ELSE job + 1

DropRow ==
    /\ job \in DOMAIN Tables
    /\ rows' = [rows EXCEPT ![Tables[job]] = "none"]
    /\ JobEnds
    /\ UNCHANGED <<files, stages, splits, expired, reading, marks, troubles>>

\* os.RemoveAll; the files of one directory go together.
DropDirectory ==
    /\ job > Len(Tables)
    /\ \E d \in Directories(Jobs[job]) :
        /\ \E f \in d : files[f] # "none"
        /\ files' = [f \in DOMAIN files |-> IF f \in d THEN "none" ELSE files[f]]
    /\ UNCHANGED <<rows, stages, elsewhere>>

FilesDropped ==
    /\ job > Len(Tables)
    /\ \A f \in UNION Directories(Jobs[job]) : files[f] = "none"
    /\ JobEnds
    /\ UNCHANGED <<rows, files, stages, splits, expired, reading, marks, troubles>>

\* A job fails, or the service dies; the other jobs are done or are not.
JobFails ==
    /\ job # 0
    /\ Trouble
    /\ JobEnds \/ job' = 0
    /\ marks' = marks \cup {"jobFailed"}
    /\ UNCHANGED <<rows, files, stages, splits, expired, reading>>

CleanStep == CleanExpired \/ DropRow \/ DropDirectory \/ FilesDropped

Expire ==
    /\ "time" \in Others
    /\ ~expired
    /\ expired' = TRUE
    /\ UNCHANGED <<rows, files, stages, splits, job, reading, marks, troubles>>

-----------------------------------------------------------------------------
(* A client that asks for the status until it is COMPLETED, and at any     *)
(* time after that for the result.                                          *)

AskStatus ==
    /\ "client" \in Others
    /\ client = "waiting"
    /\ rows.status = "COMPLETED"
    /\ client' = "told"
    /\ UNCHANGED <<rows, files, stages, splits, cleaning, got, marks, troubles>>

\* GetResultFile takes the name from the row of the request ...
AskResult ==
    /\ client = "told"
    /\ IF rows.requests = "none"
       THEN got' = "refused" /\ client' = "answered"
       ELSE client' = "asked" /\ UNCHANGED got
    /\ UNCHANGED <<rows, files, stages, splits, cleaning, marks, troubles>>

\* ... and Reader.Load opens the file, whatever it holds.
LoadResult ==
    /\ client = "asked"
    /\ client' = "answered"
    /\ got' = IF files[Result] = "none" THEN "error" ELSE files[Result]
    /\ UNCHANGED <<rows, files, stages, splits, cleaning, marks, troubles>>

-----------------------------------------------------------------------------

Rest == AtRest /\ job = 0 /\ UNCHANGED vars

Next ==
    \/ \E s \in Consumers : ConsumerStep(s) \/ Fail(s)
    \/ \E p \in Parts : PartStep(p) \/ FailPart(p)
    \/ Crash \/ InformCrash
    \/ Delete \/ CleanStep \/ JobFails \/ Expire
    \/ AskStatus \/ AskResult \/ LoadResult
    \/ Rest

\* The clean service goes on, and its timer fires every hour.
Fairness == WF_vars(CleanStep)

Spec == Init /\ [][Next]_vars

FairSpec == Spec /\ Fairness

-----------------------------------------------------------------------------
(* Properties. *)

\* A client that waits for COMPLETED gets the whole audio, and nothing else,
\* until the task is deleted; and a piece of it only if the task was deleted
\* while a stage worked on it, or the write or the read of a part was cut.
ToldGetsWhole ==
    /\ got \in {"torn", "short"} =>
           marks \cap {"cutWrite", "tornRead", "deletedBusy"} # {}
    /\ got \in {"refused", "error"} => "deleted" \in marks

\* No text is read while it is being written, unless a crash had Split done
\* again.
TornReadNeedsCrash == "tornRead" \in marks => "crashed" \in marks

\* The timer finds whatever is left of a task, by the row of its request,
\* unless a job failed or the task was deleted while a consumer had it or a
\* message of it was left: what was deleted at rest has gone and does not come
\* back.
NoOrphan ==
    Left /\ rows.requests = "none" =>
        job # 0 \/ marks \cap {"deletedBusy", "jobFailed"} # {}

\* A task that is deleted when its status says that it is over, with a result
\* or an error, is not heard of again.
DeletedStaysDeleted ==
    "deletedDone" \in marks /\ "jobFailed" \notin marks /\ job = 0 =>
        rows.status = "none"

\* What has expired, and is at rest, is deleted in the end, all of it, unless a
\* job failed or the task was deleted before while it was worked on.
ExpiredIsCleaned ==
    expired /\ AtRest ~> ~Left \/ marks \cap {"deletedBusy", "jobFailed"} # {}

==============================================================================
