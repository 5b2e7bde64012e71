---------------------------- MODULE StorageProofs -----------------------------
(***************************************************************************)
(* Proofs about the rows and files of a task, for every number of parts    *)
(* and every bound on what may go wrong.                                   *)
(***************************************************************************)
EXTENDS Storage, TLAPS, WellFoundedInduction

-----------------------------------------------------------------------------
(* Numbers, files, jobs. *)

\* A set of numbers has a least one.
LEMMA LeastNumber ==
    ASSUME NEW T, T \subseteq Nat, T # {}
    PROVE  \E n \in T : \A m \in T : n <= m
<1> DEFINE R == {p \in Nat \X Nat : p[1] < p[2]}
<1>1. IsWellFoundedOn(R, Nat)
  <2>1. R = OpToRel(<, Nat)
    BY DEF OpToRel
  <2> QED
    BY <2>1, NatLessThanWellFounded
<1>2. PICK n \in T : \A m \in T : <<m, n>> \notin R
  <2> HIDE DEF R
  <2> QED
    BY <1>1, WFMin
<1>3. ASSUME NEW m \in T, m < n PROVE FALSE
  <2>1. <<m, n>> \in R
    BY <1>3
  <2> QED
    BY <2>1, <1>2
<1> QED
  BY <1>2, <1>3

LEMMA FileFacts ==
    /\ \A p \in Parts : Text(p) \in WorkFiles /\ Audio(p) \in WorkFiles
    /\ List \in WorkFiles /\ Result \in WorkFiles
    /\ Input \notin WorkFiles
    /\ List # Result
    /\ \A p, q \in Parts : /\ Text(p) # Audio(q)
                           /\ Text(p) = Text(q) => p = q
                           /\ Audio(p) = Audio(q) => p = q
    /\ \A p \in Parts : {Text(p), Audio(p)} \cap {List, Result, Input} = {}
    /\ \A f \in WorkFiles : \/ f \in {List, Result}
                            \/ \E p \in Parts : f \in {Text(p), Audio(p)}
BY DEF WorkFiles, Text, Audio, List, Result, Input

LEMMA FileNames ==
    ASSUME TypeOK
    PROVE  /\ Result \in DOMAIN files /\ List \in DOMAIN files
           /\ \A p \in Parts : Text(p) \in DOMAIN files /\ Audio(p) \in DOMAIN files
           /\ \A p \in Parts : /\ Text(p) # Result /\ Text(p) # List
                               /\ Audio(p) # Result /\ Audio(p) # List
           /\ \A p, q \in Parts : Text(p) # Audio(q) /\ Audio(p) # Text(q)
BY FileFacts DEF TypeOK

LEMMA JobFacts ==
    /\ DOMAIN Tables = 1 .. 3 /\ Len(Tables) = 3
    /\ Tables[1] = "requests" /\ Tables[2] = "status" /\ Tables[3] = "emailLock"
    /\ {Tables[n] : n \in DOMAIN Tables} = {"requests", "status", "emailLock"}
    /\ Len(Jobs) = 5 /\ Jobs[4] = "in" /\ Jobs[5] = "work"
<1>1. /\ DOMAIN Tables = 1 .. 3 /\ Len(Tables) = 3
      /\ Tables[1] = "requests" /\ Tables[2] = "status" /\ Tables[3] = "emailLock"
  BY DEF Tables
<1>2. {Tables[n] : n \in DOMAIN Tables} = {"requests", "status", "emailLock"}
  BY <1>1
<1>3. Len(Jobs) = 5 /\ Jobs[4] = "in" /\ Jobs[5] = "work"
  BY DEF Jobs, Tables
<1> QED
  BY <1>1, <1>2, <1>3

\* makeList finds the first missing part, or none missing.
LEMMA FirstMissingFacts ==
    /\ FirstMissing \in 0 .. PartCount
    /\ \A p \in 0 .. FirstMissing - 1 : files[Audio(p)] # "none"
    /\ FirstMissing < PartCount => files[Audio(FirstMissing)] = "none"
<1> DEFINE T == {n \in 0 .. PartCount : n < PartCount => files[Audio(n)] = "none"}
           P(n) == /\ \A p \in 0 .. n - 1 : files[Audio(p)] # "none"
                   /\ n < PartCount => files[Audio(n)] = "none"
<1>1. PICK n \in T : \A m \in T : n <= m
  <2>1. T \subseteq Nat /\ PartCount \in T
    BY PartCountAssumption
  <2> QED
    BY <2>1, LeastNumber
<1>2. n \in 0 .. PartCount /\ P(n)
  <2>1. ASSUME NEW p \in 0 .. n - 1 PROVE files[Audio(p)] # "none"
    <3>1. p \in 0 .. PartCount /\ p < n
      BY PartCountAssumption
    <3> QED
      BY <3>1, <1>1, PartCountAssumption
  <2> QED
    BY <2>1
<1>3. \E m \in 0 .. PartCount : P(m)
  BY <1>2
<1>4. FirstMissing = CHOOSE m \in 0 .. PartCount : P(m)
  BY DEF FirstMissing
<1> HIDE DEF P
<1>5. FirstMissing \in 0 .. PartCount /\ P(FirstMissing)
  BY <1>3, <1>4
<1> QED
  BY <1>5 DEF P

LEMMA AfterFacts ==
    /\ /\ After["Split"]["save"] = "read" /\ After["Split"]["read"] = "open"
       /\ After["Split"]["open"] = "send" /\ After["Split"]["send"] = "ack"
    /\ /\ After["Synthesize"]["save"] = "look" /\ After["Synthesize"]["look"] = "wait"
       /\ After["Synthesize"]["wait"] = "send" /\ After["Synthesize"]["send"] = "ack"
    /\ /\ After["Join"]["save"] = "list" /\ After["Join"]["list"] = "start"
       /\ After["Join"]["start"] = "ffmpeg" /\ After["Join"]["ffmpeg"] = "complete"
       /\ After["Join"]["complete"] = "inform" /\ After["Join"]["inform"] = "ack"
    /\ NextStage["Split"] = "Synthesize" /\ NextStage["Synthesize"] = "Join"
BY DEF After, SplitSteps, SynthesizeSteps, JoinSteps, NextStage

LEMMA ConsumerNames ==
    /\ "Split" \in Consumers /\ "Synthesize" \in Consumers /\ "Join" \in Consumers
    /\ "Fail" \in Consumers /\ "Inform" \in Consumers
    /\ \A s \in Consumers : s \in {"Split", "Synthesize", "Join", "Fail", "Inform"}
BY DEF Consumers, Synthesis, Stages

LEMMA FirstStepFacts ==
    /\ FirstStep["Split"] = "save" /\ FirstStep["Synthesize"] = "save"
    /\ FirstStep["Join"] = "save"
    /\ FirstStep["Fail"] = "restore" /\ FirstStep["Inform"] = "find"
BY DEF FirstStep

-----------------------------------------------------------------------------
(* Where the handlers are.                                                  *)

Ends == {"ack", "error", "saveErr", "informFailed", "sendFail", "drop"}
SplitAt == {"idle", "save", "read", "open", "write", "send"} \cup Ends
SynthesizeAt == {"idle", "save", "look", "wait", "failing", "send"} \cup Ends
JoinAt == {"idle", "save", "list", "start", "ffmpeg", "complete", "inform"} \cup Ends
FailAt == {"idle", "restore"} \cup Ends
InformAt == {"idle", "find", "lock", "unlock"} \cup Ends

StepsOfStages ==
    /\ pc["Split"] \in SplitAt
    /\ pc["Synthesize"] \in SynthesizeAt
    /\ pc["Join"] \in JoinAt
    /\ pc["Fail"] \in FailAt
    /\ pc["Inform"] \in InformAt
    /\ \A s \in Consumers : cur[s] = "none" <=> pc[s] = "idle"

\* The loop of save over the parts.
LoopOfSplit ==
    /\ pc["Split"] \in {"idle", "save", "read"} => at["Split"] = 0
    /\ pc["Split"] = "write" => at["Split"] < PartCount
    /\ pc["Split"] \in {"send", "ack"} => at["Split"] = PartCount

\* The loop of Do, which has started the calls and waits for them.
LoopOfSynthesize ==
    /\ pc["Synthesize"] \in {"idle", "save"} => at["Synthesize"] = 0
    /\ \A p \in Parts : call[p] # "none" =>
           pc["Synthesize"] \in {"look", "wait", "failing"} /\ p < at["Synthesize"]

\* An open text is torn; no text is short.
TextsWhole == \A p \in Parts : files[Text(p)] # "short"

StepsInv == StepsOfStages /\ LoopOfSplit /\ LoopOfSynthesize /\ TextsWhole

LEMMA InitTypeOK == Init => TypeOK
<1> SUFFICES ASSUME Init PROVE TypeOK
  OBVIOUS
<1>1. rows \in [{Tables[n] : n \in DOMAIN Tables} ->
                    {"none", "row", "working", "failed", "COMPLETED"}]
  BY JobFacts DEF Init
<1>2. files \in [WorkFiles \cup {Input} -> {"none", "torn", "short", "whole"}]
  BY DEF Init
<1>3. queue \in [Consumers -> [BOOLEAN -> Nat]]
  BY DEF Init
<1>4. /\ cur \in [Consumers -> {"none", "first", "again"}]
      /\ pc \in [Consumers -> Steps]
      /\ at \in [Consumers -> 0 .. PartCount]
      /\ call \in [Parts -> {"none", "short", "whole"}]
  BY PartCountAssumption DEF Init, Steps
<1>5. /\ job \in 0 .. Len(Jobs)
      /\ troubles \in 0 .. MaxTroubles
  BY MaxTroublesAssumption, JobFacts DEF Init
<1>6. /\ splits \in BOOLEAN /\ expired \in BOOLEAN
      /\ client \in {"waiting", "told", "asked", "answered"}
      /\ got \in Answers
      /\ marks \subseteq Marks
  BY DEF Init, Answers
<1> QED
  BY <1>1, <1>2, <1>3, <1>4, <1>5, <1>6 DEF TypeOK

LEMMA InitSteps == Init => StepsInv
<1> SUFFICES ASSUME Init PROVE StepsInv
  OBVIOUS
<1>1. \A s \in Consumers : cur[s] = "none" /\ pc[s] = "idle" /\ at[s] = 0
  BY DEF Init
<1>2. \A p \in Parts : call[p] = "none" /\ files[Text(p)] = "none"
  BY FileFacts DEF Init
<1> QED
  BY <1>1, <1>2
     DEF StepsInv, StepsOfStages, LoopOfSplit, LoopOfSynthesize, TextsWhole, Consumers,
         Synthesis, Stages, SplitAt, SynthesizeAt, JoinAt, FailAt, InformAt, Ends


LEMMA PutType ==
    ASSUME TypeOK, NEW s \in Consumers, NEW f \in BOOLEAN
    PROVE  Put(s, f) \in [Consumers -> [BOOLEAN -> Nat]]
<1>1. queue[s] \in [BOOLEAN -> Nat]
  BY DEF TypeOK
<1>2. [queue[s] EXCEPT ![f] = @ + 1] \in [BOOLEAN -> Nat]
  BY <1>1
<1> QED
  BY <1>2 DEF TypeOK, Put

LEMMA MoreOf ==
    ASSUME NEW q \in [BOOLEAN -> Nat], NEW f \in BOOLEAN
    PROVE  [q EXCEPT ![f] = @ + 1] \in [BOOLEAN -> Nat]
OBVIOUS

LEMMA PutFile ==
    ASSUME TypeOK, NEW f \in WorkFiles, NEW v \in {"none", "torn", "short", "whole"}
    PROVE  [files EXCEPT ![f] = v] \in
               [WorkFiles \cup {Input} -> {"none", "torn", "short", "whole"}]
BY DEF TypeOK

LEMMA MarksType ==
    ASSUME TypeOK
    PROVE  /\ \A m \in Marks : marks \cup {m} \subseteq Marks
           /\ \A ps : CutWrites(ps) \subseteq Marks
<1>1. "cutWrite" \in Marks
  BY DEF Marks
<1> QED
  BY <1>1 DEF CutWrites, TypeOK

LEMMA TroubleType ==
    ASSUME TypeOK, Trouble PROVE troubles' \in 0 .. MaxTroubles
BY MaxTroublesAssumption DEF TypeOK, Trouble

LEMMA EndsDeliveryType ==
    ASSUME TypeOK, NEW s \in Consumers, EndsDelivery(s)
    PROVE  /\ pc' \in [Consumers -> Steps]
           /\ cur' \in [Consumers -> {"none", "first", "again"}]
           /\ at' \in [Consumers -> 0 .. PartCount]
BY PartCountAssumption DEF TypeOK, EndsDelivery, Goto, Steps

LEMMA NextTypeOK == ASSUME TypeOK, StepsInv, Next PROVE TypeOK'
<1> USE DEF stages, cleaning, reading, elsewhere, vars
<1> USE DEF Steps
<1>1. ASSUME NEW s \in Consumers, Deliver(s) PROVE TypeOK'
  <2>1. FirstStep[s] \in Steps
    BY FirstStepFacts DEF Consumers, Synthesis, Stages
  <2> QED
    BY <1>1, <2>1 DEF TypeOK, Deliver, Goto
<1>2. ASSUME NEW s \in Consumers, SaveStatus(s) PROVE TypeOK'
  BY <1>2, AfterFacts, JobFacts
     DEF TypeOK, SaveStatus, Saved, Succeeds, Goto, StepsInv, StepsOfStages, Consumers,
         Synthesis, Stages, SplitAt, SynthesizeAt, JoinAt, FailAt, InformAt, Ends
<1>3. ASSUME NEW s \in Consumers, Inform(s) PROVE TypeOK'
  <2>1. s = "Join"
    BY <1>3
       DEF Inform, StepsInv, StepsOfStages, Consumers, Synthesis, Stages, SplitAt, SynthesizeAt,
           FailAt, InformAt, Ends
  <2>2. queue' \in [Consumers -> [BOOLEAN -> Nat]]
    BY <1>3, PutType DEF Inform, Consumers
  <2>3. pc' = [pc EXCEPT ![s] = "ack"]
    BY <1>3, <2>1, AfterFacts DEF Inform, Succeeds, Goto
  <2> QED
    BY <1>3, <2>2, <2>3 DEF TypeOK, Inform
<1>4. ASSUME NEW s \in Consumers, Send(s) PROVE TypeOK'
  <2>1. s \in {"Split", "Synthesize"} /\ NextStage[s] \in Consumers
    BY <1>4, AfterFacts
       DEF Send, StepsInv, StepsOfStages, Consumers, Synthesis, Stages, JoinAt, FailAt,
           InformAt, Ends
  <2>2. queue' \in [Consumers -> [BOOLEAN -> Nat]]
    BY <1>4, <2>1, PutType DEF Send
  <2>3. pc' = [pc EXCEPT ![s] = "ack"]
    BY <1>4, <2>1, AfterFacts DEF Send, Succeeds, Goto
  <2> QED
    BY <1>4, <2>2, <2>3 DEF TypeOK, Send
<1>5. ASSUME NEW s \in Consumers, Leave(s) PROVE TypeOK'
  BY <1>5, EndsDeliveryType DEF TypeOK, Leave
<1>6. ASSUME NEW s \in Consumers, NackRequeue(s) PROVE TypeOK'
  <2>1. queue' \in [Consumers -> [BOOLEAN -> Nat]]
    BY <1>6, PutType DEF NackRequeue
  <2> QED
    BY <1>6, <2>1, EndsDeliveryType DEF TypeOK, NackRequeue
<1>7. ASSUME NEW s \in Consumers, LastFailure(s) \/ SaveError(s) PROVE TypeOK'
  <2>1. SavedError \in [{Tables[n] : n \in DOMAIN Tables} ->
                           {"none", "row", "working", "failed", "COMPLETED"}]
    BY JobFacts DEF TypeOK, SavedError
  <2> QED
    BY <1>7, <2>1, TroubleType DEF TypeOK, LastFailure, SaveError, Goto
<1>31. ASSUME NEW s \in Consumers, InformFailed(s) \/ SendFail(s) PROVE TypeOK'
  <2>1. queue' \in [Consumers -> [BOOLEAN -> Nat]]
    <3>1. /\ Put("Inform", FALSE) \in [Consumers -> [BOOLEAN -> Nat]]
          /\ Put("Fail", FALSE) \in [Consumers -> [BOOLEAN -> Nat]]
      BY PutType DEF Consumers, Synthesis
    <3> QED
      BY <1>31, <3>1 DEF TypeOK, InformFailed, SendFail
  <2> QED
    BY <1>31, <2>1, TroubleType DEF TypeOK, InformFailed, SendFail, Goto
<1>32. CASE RestoreUsage \/ FindAddress
  BY <1>32 DEF TypeOK, RestoreUsage, FindAddress, Goto
<1>33. CASE LockMail \/ UnLockMail
  <2>1. MadeLock \in [{Tables[n] : n \in DOMAIN Tables} ->
                         {"none", "row", "working", "failed", "COMPLETED"}]
    BY JobFacts DEF TypeOK, MadeLock
  <2> QED
    BY <1>33, <2>1 DEF TypeOK, LockMail, UnLockMail, Goto
<1>8. ASSUME NEW s \in Consumers, Fail(s) PROVE TypeOK'
  BY <1>8, MaxTroublesAssumption DEF TypeOK, Fail, Trouble, Goto
<1>9. CASE ReadInput
  BY <1>9, AfterFacts DEF TypeOK, ReadInput, Succeeds, Goto, Consumers, Synthesis, Stages
<1>10. CASE OpenText
  <2>1. files' \in [WorkFiles \cup {Input} -> {"none", "torn", "short", "whole"}]
    <3>1. at["Split"] < PartCount => at["Split"] \in Parts
      BY PartCountAssumption DEF TypeOK, Consumers, Synthesis, Stages, Parts
    <3>2. CASE at["Split"] < PartCount
      <4>1. Text(at["Split"]) \in WorkFiles
        BY <3>1, <3>2, FileFacts
      <4> QED
        BY <1>10, <3>2, <4>1, PutFile DEF OpenText
    <3>3. CASE ~(at["Split"] < PartCount)
      BY <1>10, <3>3 DEF OpenText, TypeOK
    <3> QED
      BY <3>2, <3>3
  <2> QED
    BY <1>10, <2>1, AfterFacts
       DEF TypeOK, OpenText, Succeeds, Goto, Consumers, Synthesis, Stages
<1>11. CASE WriteText
  <2>1. at["Split"] \in Parts /\ at["Split"] + 1 \in 0 .. PartCount
    BY <1>11, PartCountAssumption
       DEF WriteText, TypeOK, Consumers, Synthesis, Stages, Parts, StepsInv, LoopOfSplit
  <2>2. files' \in [WorkFiles \cup {Input} -> {"none", "torn", "short", "whole"}]
    BY <1>11, <2>1, FileFacts DEF WriteText, Written, TypeOK
  <2> QED
    BY <1>11, <2>1, <2>2 DEF TypeOK, WriteText, Goto, Consumers, Synthesis, Stages
<1>12. CASE LookForPart
  <2> DEFINE p == at["Synthesize"]
  <2>1. p \in 0 .. PartCount
    BY DEF TypeOK, Consumers, Synthesis, Stages
  <2>2. marks' \subseteq Marks
    <3>1. "tornRead" \in Marks
      BY DEF Marks
    <3> QED
      BY <1>12, <3>1, MarksType DEF LookForPart, TypeOK
  <2>3. at' \in [Consumers -> 0 .. PartCount]
    <3>1. CASE p = PartCount \/ files[Text(p)] = "none"
      BY <1>12, <3>1 DEF LookForPart, TypeOK
    <3>2. CASE ~(p = PartCount \/ files[Text(p)] = "none")
      <4>1. p + 1 \in 0 .. PartCount
        BY <2>1, <3>2, PartCountAssumption
      <4>2. at' = [at EXCEPT !["Synthesize"] = p + 1]
        BY <1>12, <3>2 DEF LookForPart
      <4> QED
        BY <4>1, <4>2 DEF TypeOK
    <3> QED
      BY <3>1, <3>2
  <2>4. call' \in [Parts -> {"none", "short", "whole"}]
    BY <1>12 DEF LookForPart, TypeOK
  <2>5. pc' \in [Consumers -> Steps]
    <3>1. pc' = pc \/ pc' = [pc EXCEPT !["Synthesize"] = "wait"]
      BY <1>12, AfterFacts DEF LookForPart, Succeeds, Goto
    <3> QED
      BY <3>1 DEF TypeOK
  <2> QED
    BY <1>12, <2>2, <2>3, <2>4, <2>5 DEF TypeOK, LookForPart
<1>13. CASE WaitForParts
  <2>1. \E to \in {"send", "error"} : pc' = [pc EXCEPT !["Synthesize"] = to]
    BY <1>13, AfterFacts DEF WaitForParts, Succeeds, Goto
  <2>2. pc' \in [Consumers -> Steps]
    BY <2>1 DEF TypeOK
  <2> QED
    BY <1>13, <2>2 DEF TypeOK, WaitForParts
<1>14. CASE MakeList
  <2>1. pc' = [pc EXCEPT !["Join"] = "start"]
    BY <1>14, AfterFacts DEF MakeList, Succeeds, Goto
  <2>2. pc' \in [Consumers -> Steps]
    BY <2>1 DEF TypeOK
  <2>3. files' \in [WorkFiles \cup {Input} -> {"none", "torn", "short", "whole"}]
    BY <1>14, FileFacts, PutFile DEF MakeList
  <2>4. at' \in [Consumers -> 0 .. PartCount]
    BY <1>14, FirstMissingFacts DEF MakeList, TypeOK
  <2>5. UNCHANGED <<rows, queue, cur, call, splits, expired, job, client, got, marks, troubles>>
    BY <1>14 DEF MakeList
  <2> QED
    BY <2>2, <2>3, <2>4, <2>5 DEF TypeOK
<1>15. CASE StartJoin
  <2>1. files' \in [WorkFiles \cup {Input} -> {"none", "torn", "short", "whole"}]
    <3>1. files' = files \/ files' = [files EXCEPT ![Result] = "torn"]
      BY <1>15 DEF StartJoin
    <3>2. files \in [WorkFiles \cup {Input} -> {"none", "torn", "short", "whole"}]
      BY DEF TypeOK
    <3> QED
      BY <3>1, <3>2, FileFacts, PutFile
  <2>2. \E to \in {"ffmpeg", "error"} : pc' = [pc EXCEPT !["Join"] = to]
    BY <1>15, AfterFacts DEF StartJoin, Succeeds, Goto
  <2>3. pc' \in [Consumers -> Steps]
    BY <2>2 DEF TypeOK
  <2> QED
    BY <1>15, <2>1, <2>3 DEF TypeOK, StartJoin
<1>16. CASE FinishJoin
  <2>1. ASSUME NEW v \in {"short", "whole"}
        PROVE  Written(Result, v) \in [WorkFiles \cup {Input} -> {"none", "torn", "short", "whole"}]
    <3>1. Written(Result, v)
              = [files EXCEPT ![Result] = IF files[Result] = "none" THEN files[Result] ELSE v]
      BY DEF Written
    <3> QED
      BY <3>1, FileFacts, PutFile DEF TypeOK
  <2>2. files' = files \/ \E v \in {"short", "whole"} : files' = Written(Result, v)
    BY <1>16 DEF FinishJoin
  <2>3. files' \in [WorkFiles \cup {Input} -> {"none", "torn", "short", "whole"}]
    BY <2>1, <2>2 DEF TypeOK
  <2> QED
    BY <1>16, <2>3, AfterFacts
       DEF TypeOK, FinishJoin, Succeeds, Goto, Consumers, Synthesis, Stages
<1>17. ASSUME NEW p \in Parts, OpenAudio(p) PROVE TypeOK'
  BY <1>17, FileFacts DEF TypeOK, OpenAudio
<1>18. ASSUME NEW p \in Parts, WriteAudio(p) PROVE TypeOK'
  BY <1>18, FileFacts DEF TypeOK, WriteAudio
<1>19. ASSUME NEW p \in Parts, FailPart(p) PROVE TypeOK'
  <2>1. marks' \subseteq Marks /\ troubles' \in 0 .. MaxTroubles
    BY <1>19, MarksType, TroubleType DEF FailPart, TypeOK
  <2> QED
    BY <1>19, <2>1 DEF TypeOK, FailPart, Goto
<1>20. ASSUME NEW S, Dies(S), call' \in [Parts -> {"none", "short", "whole"}],
              marks' \subseteq Marks
       PROVE  TypeOK'
  <2>1. queue' \in [Consumers -> [BOOLEAN -> Nat]]
    <3>1. ASSUME NEW s \in Consumers
          PROVE  [queue[s] EXCEPT ![TRUE] = IF s \notin S \/ cur[s] = "none" THEN @ ELSE @ + 1]
                     \in [BOOLEAN -> Nat]
      <4>1. queue[s] \in [BOOLEAN -> Nat]
        BY DEF TypeOK
      <4>2. [queue[s] EXCEPT ![TRUE] = @ + 1] \in [BOOLEAN -> Nat]
        BY <4>1, MoreOf
      <4>3. [queue[s] EXCEPT ![TRUE] = @] \in [BOOLEAN -> Nat]
        BY <4>1
      <4>4. CASE s \notin S \/ cur[s] = "none"
        BY <4>3, <4>4
      <4>5. CASE ~(s \notin S \/ cur[s] = "none")
        BY <4>2, <4>5
      <4> QED
        BY <4>4, <4>5
    <3> QED
      BY <1>20, <3>1 DEF Dies
  <2>2. /\ cur' \in [Consumers -> {"none", "first", "again"}]
        /\ pc' \in [Consumers -> Steps]
        /\ at' \in [Consumers -> 0 .. PartCount]
    BY <1>20, PartCountAssumption DEF TypeOK, Dies
  <2>3. troubles' \in 0 .. MaxTroubles
    BY <1>20, TroubleType DEF Dies
  <2> QED
    BY <1>20, <2>1, <2>2, <2>3 DEF TypeOK, Dies
<1>21. CASE Crash
  <2>1. marks' \subseteq Marks
    <3>1. "crashed" \in Marks
      BY DEF Marks
    <3> QED
      BY <1>21, <3>1, MarksType DEF Crash, TypeOK
  <2> QED
    BY <1>20, <1>21, <2>1 DEF Crash
<1>22. CASE InformCrash
  BY <1>20, <1>22 DEF InformCrash, TypeOK
<1>23. CASE StartClean
  <2>1. marks' \subseteq Marks
    BY <1>23 DEF StartClean, TypeOK, Marks
  <2>2. troubles' \in 0 .. MaxTroubles
    BY <1>23, TroubleType DEF StartClean, TypeOK
  <2>3. job' \in 0 .. Len(Jobs)
    BY <1>23, JobFacts DEF StartClean
  <2> QED
    BY <1>23, <2>1, <2>2, <2>3 DEF TypeOK, StartClean
<1>24. CASE DropRow
  BY <1>24, JobFacts DEF TypeOK, DropRow, JobEnds
<1>25. CASE DropDirectory
  BY <1>25 DEF TypeOK, DropDirectory
<1>26. CASE FilesDropped
  BY <1>26, JobFacts DEF TypeOK, FilesDropped, JobEnds
<1>27. CASE JobFails
  BY <1>27, JobFacts, MaxTroublesAssumption DEF TypeOK, JobFails, JobEnds, Trouble, Marks
<1>28. CASE Expire
  BY <1>28 DEF TypeOK, Expire
<1>29. CASE AskStatus \/ AskResult \/ LoadResult
  BY <1>29, FileFacts DEF TypeOK, AskStatus, AskResult, LoadResult, Answers
<1>30. CASE UNCHANGED vars
  BY <1>30 DEF TypeOK
<1> QED
  BY <1>1, <1>2, <1>3, <1>4, <1>5, <1>6, <1>7, <1>8, <1>9, <1>10, <1>11, <1>12, <1>13, <1>14,
     <1>15, <1>16, <1>17, <1>18, <1>19, <1>20, <1>21, <1>22, <1>23, <1>24, <1>25, <1>26, <1>27,
     <1>28, <1>29, <1>30, <1>31, <1>32, <1>33
     DEF Next, ConsumerStep, PartStep, Delete, CleanStep, CleanExpired, Rest

\* The steps that touch no file, no part and no message of a stage.
Aside(s) ==
    \/ LastFailure(s) \/ SaveError(s) \/ InformFailed(s) \/ SendFail(s)
    \/ s = "Fail" /\ RestoreUsage
    \/ s = "Inform" /\ (FindAddress \/ LockMail \/ UnLockMail)

LEMMA AsideEffect ==
    ASSUME TypeOK, NEW s \in Consumers, Aside(s)
    PROVE  /\ UNCHANGED <<files, cur, at, call, splits, expired, job, client, got, marks>>
           /\ \A t \in Stages : queue'[t] = queue[t]
           /\ rows' \in {rows, SavedError, MadeLock}
           /\ pc[s] \in {"error", "saveErr", "informFailed", "sendFail", "restore", "find",
                          "lock", "unlock"}
           /\ \E to \in {"ack", "error", "saveErr", "informFailed", "sendFail", "drop", "lock",
                         "unlock"} :
                 /\ pc' = [pc EXCEPT ![s] = to]
                 /\ to \in {"lock", "unlock"} => s = "Inform"
                 /\ to \in {"ack", "error"} => s \notin Stages
<1> USE DEF cleaning, reading, elsewhere, Goto
<1>1. CASE LastFailure(s)
  BY <1>1 DEF LastFailure
<1>2. CASE SaveError(s)
  BY <1>2 DEF SaveError
<1>3. CASE InformFailed(s) \/ SendFail(s)
  <2>1. \A t \in Stages : queue'[t] = queue[t]
    <3>1. queue' \in {queue, Put("Inform", FALSE), Put("Fail", FALSE)}
      BY <1>3 DEF InformFailed, SendFail
    <3>2. \A t \in Stages : t \in Consumers /\ t # "Inform" /\ t # "Fail"
      BY DEF Consumers, Synthesis, Stages
    <3> QED
      BY <3>1, <3>2 DEF Put, TypeOK
  <2> QED
    BY <1>3, <2>1 DEF InformFailed, SendFail
<1>4. CASE s = "Fail" /\ RestoreUsage
  BY <1>4 DEF RestoreUsage, Stages
<1>5. CASE s = "Inform" /\ (FindAddress \/ LockMail \/ UnLockMail)
  BY <1>5 DEF FindAddress, LockMail, UnLockMail, Stages
<1> QED
  BY <1>1, <1>2, <1>3, <1>4, <1>5 DEF Aside

StageSteps(s) == ConsumerStep(s) \/ Fail(s)

LEMMA StageCases ==
    ASSUME NEW s \in Consumers, StageSteps(s)
    PROVE  \/ Deliver(s) \/ SaveStatus(s) \/ Inform(s) \/ Send(s)
           \/ Leave(s) \/ NackRequeue(s) \/ Fail(s) \/ Aside(s)
           \/ s = "Split" /\ (ReadInput \/ OpenText \/ WriteText)
           \/ s = "Synthesize" /\ (LookForPart \/ WaitForParts)
           \/ s = "Join" /\ (MakeList \/ StartJoin \/ FinishJoin)
BY DEF StageSteps, ConsumerStep, Aside

LEMMA NextSteps == ASSUME TypeOK, StepsInv, Next PROVE StepsInv'
<1> USE DEF stages, cleaning, reading, elsewhere, vars
<1>1. ASSUME NEW s \in Consumers, Deliver(s) PROVE StepsInv'
  <2>1. /\ pc[s] = "idle" /\ pc' = [pc EXCEPT ![s] = FirstStep[s]]
        /\ \E d \in {"first", "again"} : cur' = [cur EXCEPT ![s] = d]
        /\ UNCHANGED <<files, at, call>>
    BY <1>1 DEF Deliver, Goto
  <2>2. \A t \in Consumers :
            /\ pc'[t] = IF t = s THEN FirstStep[s] ELSE pc[t]
            /\ t # s => cur'[t] = cur[t]
    BY <2>1 DEF TypeOK
  <2>3. cur'[s] # "none"
    BY <2>1 DEF TypeOK
  <2>4. StepsOfStages'
    <3>1. \A t \in Consumers : FirstStep[t] # "idle"
      BY FirstStepFacts DEF Consumers, Synthesis, Stages
    <3>2. \A t \in Consumers : cur'[t] = "none" <=> pc'[t] = "idle"
      <4>1. \A t \in Consumers : cur[t] = "none" <=> pc[t] = "idle"
        BY DEF StepsInv, StepsOfStages
      <4> QED
        BY <2>2, <2>3, <3>1, <4>1
    <3>3. /\ pc'["Split"] \in {pc["Split"], "save"}
          /\ pc'["Synthesize"] \in {pc["Synthesize"], "save"}
          /\ pc'["Join"] \in {pc["Join"], "save"}
          /\ pc'["Fail"] \in {pc["Fail"], "restore"}
          /\ pc'["Inform"] \in {pc["Inform"], "find"}
      <4> HIDE DEF stages
      <4>1. \A t \in Consumers : pc'[t] \in {pc[t], FirstStep[t]}
        BY <2>2
      <4> QED
        BY <4>1, ConsumerNames, FirstStepFacts
    <3> QED
      BY <3>2, <3>3
         DEF StepsInv, StepsOfStages, SplitAt, SynthesizeAt, JoinAt, FailAt, InformAt
  <2>5. LoopOfSplit' /\ LoopOfSynthesize'
    BY <2>1, <2>2, FirstStepFacts
       DEF StepsInv, LoopOfSplit, LoopOfSynthesize, Consumers, Synthesis, Stages
  <2> QED
    BY <2>1, <2>4, <2>5 DEF StepsInv, TextsWhole
<1>2. ASSUME NEW s \in Consumers, SaveStatus(s) PROVE StepsInv'
  BY <1>2, AfterFacts
     DEF SaveStatus, Succeeds, Goto, TypeOK, StepsInv, StepsOfStages, LoopOfSplit,
         LoopOfSynthesize, TextsWhole, Consumers, Synthesis, Stages, SplitAt, SynthesizeAt,
         JoinAt, FailAt, InformAt, Ends
<1>3. ASSUME NEW s \in Consumers, Inform(s) PROVE StepsInv'
  BY <1>3, AfterFacts
     DEF Inform, Succeeds, Goto, TypeOK, StepsInv, StepsOfStages, LoopOfSplit, LoopOfSynthesize,
         TextsWhole, Consumers, Synthesis, Stages, SplitAt, SynthesizeAt, JoinAt, FailAt,
         InformAt, Ends
<1>4. ASSUME NEW s \in Consumers, Send(s) PROVE StepsInv'
  <2>1. s \in {"Split", "Synthesize"}
    BY <1>4, ConsumerNames
       DEF Send, StepsInv, StepsOfStages, SplitAt, SynthesizeAt, JoinAt, FailAt, InformAt, Ends
  <2>2. /\ pc[s] = "send" /\ pc' = [pc EXCEPT ![s] = "ack"]
        /\ UNCHANGED <<files, cur, at, call>>
    BY <1>4, <2>1, AfterFacts DEF Send, Succeeds, Goto
  <2>3. StepsOfStages'
    BY <2>1, <2>2, ConsumerNames
       DEF TypeOK, StepsInv, StepsOfStages, SplitAt, SynthesizeAt, JoinAt, FailAt, InformAt, Ends
  <2>4. LoopOfSplit' /\ LoopOfSynthesize' /\ TextsWhole'
    BY <2>1, <2>2, ConsumerNames
       DEF TypeOK, StepsInv, LoopOfSplit, LoopOfSynthesize, TextsWhole
  <2> QED  BY <2>3, <2>4 DEF StepsInv
<1>5. ASSUME NEW s \in Consumers, Leave(s) \/ NackRequeue(s) PROVE StepsInv'
  <2>1. EndsDelivery(s) /\ UNCHANGED <<files, call>> /\ pc[s] \in {"ack", "error", "drop"}
    BY <1>5 DEF Leave, NackRequeue
  <2>2. /\ pc' = [pc EXCEPT ![s] = "idle"]
        /\ cur' = [cur EXCEPT ![s] = "none"]
        /\ at' = [at EXCEPT ![s] = 0]
    BY <2>1 DEF EndsDelivery, Goto
  <2>3. StepsOfStages'
    BY <2>2
       DEF TypeOK, StepsInv, StepsOfStages, Consumers, Synthesis, Stages, SplitAt, SynthesizeAt,
           JoinAt, FailAt, InformAt, Ends
  <2>4. LoopOfSplit'
    BY <2>2 DEF TypeOK, StepsInv, LoopOfSplit, Consumers, Synthesis, Stages
  <2>5. LoopOfSynthesize'
    BY <2>1, <2>2 DEF TypeOK, StepsInv, LoopOfSynthesize, Consumers, Synthesis, Stages
  <2> QED
    BY <2>1, <2>3, <2>4, <2>5 DEF StepsInv, TextsWhole
<1>6. ASSUME NEW s \in Consumers, Aside(s) PROVE StepsInv'
  <2>1. UNCHANGED <<files, cur, at, call>>
    BY <1>6, AsideEffect
  <2>2. PICK to \in {"ack", "error", "saveErr", "informFailed", "sendFail", "drop", "lock", "unlock"} :
            /\ pc' = [pc EXCEPT ![s] = to]
            /\ to \in {"lock", "unlock"} => s = "Inform"
            /\ to \in {"ack", "error"} => s \notin Stages
    BY <1>6, AsideEffect
  <2>3. pc[s] \in {"error", "saveErr", "informFailed", "sendFail", "restore", "find", "lock", "unlock"}
    BY <1>6, AsideEffect
  <2>4. StepsOfStages'
    BY <2>1, <2>2, <2>3
       DEF TypeOK, StepsInv, StepsOfStages, Consumers, Synthesis, Stages, SplitAt, SynthesizeAt,
           JoinAt, FailAt, InformAt, Ends
  <2>5. LoopOfSplit'
    BY <2>1, <2>2 DEF TypeOK, StepsInv, LoopOfSplit, Consumers, Synthesis, Stages
  <2>6. LoopOfSynthesize'
    BY <2>1, <2>2, <2>3 DEF TypeOK, StepsInv, LoopOfSynthesize, Consumers, Synthesis, Stages
  <2> QED
    BY <2>1, <2>4, <2>5, <2>6 DEF StepsInv, TextsWhole
<1>8. ASSUME NEW s \in Consumers, Fail(s) PROVE StepsInv'
  BY <1>8
     DEF Fail, Goto, TypeOK, StepsInv, StepsOfStages, LoopOfSplit, LoopOfSynthesize, TextsWhole,
         Consumers, Synthesis, Stages, SplitAt, SynthesizeAt, JoinAt, FailAt, InformAt, Ends
<1>9. CASE ReadInput
  BY <1>9, AfterFacts
     DEF ReadInput, Succeeds, Goto, TypeOK, StepsInv, StepsOfStages, LoopOfSplit,
         LoopOfSynthesize, TextsWhole, Consumers, Synthesis, Stages, SplitAt, SynthesizeAt,
         JoinAt, FailAt, InformAt, Ends
<1>10. CASE OpenText
  BY <1>10, AfterFacts, FileFacts, PartCountAssumption
     DEF OpenText, Succeeds, Goto, TypeOK, StepsInv, StepsOfStages, LoopOfSplit,
         LoopOfSynthesize, TextsWhole, Consumers, Synthesis, Stages, SplitAt, SynthesizeAt,
         JoinAt, FailAt, InformAt, Ends
<1>11. CASE WriteText
  BY <1>11, AfterFacts, FileFacts, PartCountAssumption
     DEF WriteText, Written, Goto, TypeOK, StepsInv, StepsOfStages, LoopOfSplit,
         LoopOfSynthesize, TextsWhole, Consumers, Synthesis, Stages, SplitAt, SynthesizeAt,
         JoinAt, FailAt, InformAt, Ends
<1>12. CASE LookForPart
  <2> DEFINE p == at["Synthesize"]
  <2>0. p \in 0 .. PartCount /\ pc["Synthesize"] = "look"
    BY <1>12 DEF LookForPart, TypeOK, Consumers, Synthesis, Stages
  <2>1. UNCHANGED files
    BY <1>12 DEF LookForPart
  <2>2. CASE p = PartCount \/ files[Text(p)] = "none"
    <3>1. pc' = [pc EXCEPT !["Synthesize"] = "wait"] /\ UNCHANGED <<cur, at, call>>
      BY <1>12, <2>2, AfterFacts DEF LookForPart, Succeeds, Goto
    <3> QED
      BY <2>0, <2>1, <3>1
         DEF TypeOK, StepsInv, StepsOfStages, LoopOfSplit, LoopOfSynthesize, TextsWhole,
             Consumers, Synthesis, Stages, SplitAt, SynthesizeAt, JoinAt, FailAt, InformAt, Ends
  <2>3. CASE ~(p = PartCount \/ files[Text(p)] = "none")
    <3>1. /\ UNCHANGED <<pc, cur>>
          /\ at' = [at EXCEPT !["Synthesize"] = p + 1]
          /\ \A q \in Parts : call'[q] # "none" => call[q] # "none" \/ q = p
      BY <1>12, <2>3 DEF LookForPart, TypeOK
    <3>2. StepsOfStages' /\ LoopOfSplit' /\ TextsWhole'
      BY <2>1, <3>1
         DEF TypeOK, StepsInv, StepsOfStages, LoopOfSplit, TextsWhole, Consumers, Synthesis,
             Stages
    <3>3. LoopOfSynthesize'
      <4>1. at'["Synthesize"] = p + 1 /\ pc'["Synthesize"] = "look"
        BY <2>0, <3>1 DEF TypeOK, Consumers, Synthesis, Stages
      <4>2. ASSUME NEW q \in Parts, call'[q] # "none" PROVE q < p + 1
        BY <2>0, <3>1, <4>2 DEF StepsInv, LoopOfSynthesize, Parts
      <4> QED
        BY <4>1, <4>2 DEF LoopOfSynthesize
    <3> QED
      BY <3>2, <3>3 DEF StepsInv
  <2> QED
    BY <2>2, <2>3
<1>13. CASE WaitForParts
  <2>1. /\ pc["Synthesize"] \in {"wait", "failing"} /\ \A p \in Parts : call[p] = "none"
        /\ \E to \in {"send", "error"} : pc' = [pc EXCEPT !["Synthesize"] = to]
        /\ UNCHANGED <<files, cur, at, call>>
    BY <1>13, AfterFacts DEF WaitForParts, Succeeds, Goto
  <2>2. StepsOfStages'
    BY <2>1
       DEF TypeOK, StepsInv, StepsOfStages, Consumers, Synthesis, Stages, SynthesizeAt, Ends
  <2> QED
    BY <2>1, <2>2
       DEF TypeOK, StepsInv, LoopOfSplit, LoopOfSynthesize, TextsWhole, Consumers, Synthesis,
           Stages
<1>14. CASE MakeList
  BY <1>14, AfterFacts, FileFacts
     DEF MakeList, Succeeds, Goto, TypeOK, StepsInv, StepsOfStages, LoopOfSplit,
         LoopOfSynthesize, TextsWhole, Consumers, Synthesis, Stages, SplitAt, SynthesizeAt,
         JoinAt, FailAt, InformAt, Ends
<1>15. CASE StartJoin
  BY <1>15, AfterFacts, FileFacts
     DEF StartJoin, Succeeds, Goto, TypeOK, StepsInv, StepsOfStages, LoopOfSplit,
         LoopOfSynthesize, TextsWhole, Consumers, Synthesis, Stages, SplitAt, SynthesizeAt,
         JoinAt, FailAt, InformAt, Ends
<1>16. CASE FinishJoin
  <2>1. TextsWhole'
    BY <1>16, FileFacts DEF FinishJoin, Written, TypeOK, StepsInv, TextsWhole
  <2>2. /\ \E to \in {"complete", "error"} : pc' = [pc EXCEPT !["Join"] = to]
        /\ pc["Join"] # "idle"
        /\ UNCHANGED <<cur, at, call>>
    BY <1>16, AfterFacts DEF FinishJoin, Succeeds, Goto
  <2> QED
    BY <2>1, <2>2
       DEF TypeOK, StepsInv, StepsOfStages, LoopOfSplit, LoopOfSynthesize, Consumers, Synthesis,
           Stages, SplitAt, SynthesizeAt, JoinAt, FailAt, InformAt, Ends
<1>17. ASSUME NEW p \in Parts, OpenAudio(p) PROVE StepsInv'
  BY <1>17, FileFacts
     DEF OpenAudio, TypeOK, StepsInv, StepsOfStages, LoopOfSplit, LoopOfSynthesize, TextsWhole
<1>18. ASSUME NEW p \in Parts, WriteAudio(p) PROVE StepsInv'
  BY <1>18, FileFacts
     DEF WriteAudio, TypeOK, StepsInv, StepsOfStages, LoopOfSplit, LoopOfSynthesize, TextsWhole
<1>19. ASSUME NEW p \in Parts, FailPart(p) PROVE StepsInv'
  BY <1>19
     DEF FailPart, Goto, TypeOK, StepsInv, StepsOfStages, LoopOfSplit, LoopOfSynthesize,
         TextsWhole, Consumers, Synthesis, Stages, SplitAt, SynthesizeAt, JoinAt, FailAt,
         InformAt, Ends
<1>20. CASE Crash
  <2>1. /\ UNCHANGED files
        /\ \A s \in Consumers : s \in Synthesis => pc'[s] = "idle" /\ cur'[s] = "none" /\ at'[s] = 0
        /\ \A s \in Consumers : s \notin Synthesis => pc'[s] = pc[s] /\ cur'[s] = cur[s]
        /\ \A p \in Parts : call'[p] = "none"
    BY <1>20 DEF Crash, Dies
  <2> QED
    BY <2>1
       DEF StepsInv, StepsOfStages, LoopOfSplit, LoopOfSynthesize, TextsWhole, Consumers,
           Synthesis, Stages, SplitAt, SynthesizeAt, JoinAt, FailAt, InformAt, Ends
<1>21. CASE InformCrash
  <2>1. /\ UNCHANGED <<files, call>>
        /\ pc'["Inform"] = "idle" /\ cur'["Inform"] = "none"
        /\ \A s \in Synthesis : pc'[s] = pc[s] /\ cur'[s] = cur[s] /\ at'[s] = at[s]
    BY <1>21 DEF InformCrash, Dies, Consumers, Synthesis, Stages
  <2> QED
    BY <2>1
       DEF StepsInv, StepsOfStages, LoopOfSplit, LoopOfSynthesize, TextsWhole, Consumers,
           Synthesis, Stages, SplitAt, SynthesizeAt, JoinAt, FailAt, InformAt, Ends
<1>25. CASE DropDirectory
  <2>1. UNCHANGED stages /\ \A f \in DOMAIN files : files'[f] \in {"none", files[f]}
    BY <1>25 DEF DropDirectory
  <2>2. \A p \in Parts : Text(p) \in DOMAIN files
    BY FileFacts DEF TypeOK
  <2> QED
    BY <2>1, <2>2 DEF StepsInv, StepsOfStages, LoopOfSplit, LoopOfSynthesize, TextsWhole
<1>26. CASE \/ StartClean \/ DropRow \/ FilesDropped \/ JobFails
            \/ Expire \/ AskStatus \/ AskResult \/ LoadResult \/ UNCHANGED vars
  <2>1. UNCHANGED <<stages, files>>
    BY <1>26 DEF StartClean, DropRow, FilesDropped, JobFails,
                 Expire, AskStatus, AskResult, LoadResult
  <2> QED
    BY <2>1 DEF StepsInv, StepsOfStages, LoopOfSplit, LoopOfSynthesize, TextsWhole
<1> QED
  BY <1>1, <1>2, <1>3, <1>4, <1>5, <1>6, <1>8, <1>9, <1>10, <1>11, <1>12, <1>13, <1>14,
     <1>15, <1>16, <1>17, <1>18, <1>19, <1>20, <1>21, <1>25, <1>26, StageCases
     DEF Next, StageSteps, PartStep, Delete, CleanStep, CleanExpired, Rest

LEMMA StutterTypeOK == ASSUME TypeOK, UNCHANGED vars PROVE TypeOK'
BY DEF TypeOK, vars, stages, cleaning, reading, elsewhere

LEMMA StutterSteps == ASSUME StepsInv, UNCHANGED vars PROVE StepsInv'
BY DEF StepsInv, StepsOfStages, LoopOfSplit, LoopOfSynthesize, TextsWhole, vars, stages

\* The rows, files, messages and handlers of a task have the values the code
\* gives them, and every handler is at a step of its own, its loop with it.
THEOREM TypeInv == Spec => [](TypeOK /\ StepsInv)
<1>1. Init => TypeOK /\ StepsInv
  BY InitTypeOK, InitSteps
<1>2. TypeOK /\ StepsInv /\ [Next]_vars => TypeOK' /\ StepsInv'
  BY NextTypeOK, NextSteps, StutterTypeOK, StutterSteps
<1> QED
  BY <1>1, <1>2, PTL DEF Spec

-----------------------------------------------------------------------------
(* What a deletion stops.                                                   *)

\* The cleaner only works on a task that somebody had deleted, and what was
\* deleted at rest stays at rest: only a deletion of a busy task is a race.
DeletedInv ==
    /\ job # 0 => "deleted" \in marks
    /\ "deletedBusy" \in marks => "deleted" \in marks
    /\ "deleted" \in marks => "deletedBusy" \in marks \/ AtRest

WorkStep ==
    \/ \E s \in Consumers : StageSteps(s)
    \/ \E p \in Parts : PartStep(p) \/ FailPart(p)

DeathStep == Crash \/ InformCrash
CleanerStep == DropRow \/ DropDirectory \/ FilesDropped \/ JobFails
ClientStep == AskStatus \/ AskResult \/ LoadResult

LEMMA NextCases ==
    Next => \/ WorkStep \/ DeathStep \/ StartClean \/ CleanerStep \/ ClientStep
            \/ Expire \/ UNCHANGED vars
BY DEF Next, WorkStep, StageSteps, DeathStep, CleanerStep, ClientStep, Delete, CleanStep,
       CleanExpired, Rest

\* Whoever works on a task has a message of it.
LEMMA WorkNeedsTask ==
    ASSUME TypeOK, StepsInv, WorkStep PROVE ~AtRest
<1>1. ASSUME NEW s \in Consumers, StageSteps(s) PROVE ~AtRest
  <2>1. Deliver(s) => \E f \in BOOLEAN : queue[s][f] > 0
    BY DEF Deliver
  <2>2. CASE Deliver(s)
    <3>1. PICK f \in BOOLEAN : queue[s][f] > 0
      BY <2>1, <2>2
    <3>2. queue[s][f] # 0
      BY <3>1
    <3> QED
      BY <3>2 DEF AtRest
  <2>3. CASE ~Deliver(s)
    <3>1. pc[s] # "idle"
      BY <1>1, <2>3, StageCases, AsideEffect
         DEF SaveStatus, Inform, Send, Leave, NackRequeue, Fail, ReadInput, OpenText, WriteText,
             LookForPart, WaitForParts, MakeList, StartJoin, FinishJoin
    <3> QED
      BY <3>1 DEF AtRest
  <2> QED
    BY <2>2, <2>3
<1>2. ASSUME NEW p \in Parts, PartStep(p) \/ FailPart(p) PROVE ~AtRest
  <2>1. call[p] # "none"
    BY <1>2 DEF PartStep, OpenAudio, WriteAudio, FailPart
  <2>2. pc["Synthesize"] # "idle"
    BY <2>1 DEF StepsInv, LoopOfSynthesize
  <2> QED
    BY <2>2 DEF AtRest, Consumers, Synthesis, Stages
<1> QED
  BY <1>1, <1>2 DEF WorkStep

\* The history grows; only a deletion, a crash, a failing job, a cut write
\* and a torn read are remembered.
LEMMA WorkMarks ==
    ASSUME TypeOK, StepsInv, WorkStep
    PROVE  /\ marks \subseteq marks'
           /\ marks' \subseteq marks \cup {"cutWrite", "tornRead"}
           /\ UNCHANGED <<job, client, got>>
<1> USE DEF stages, cleaning, reading, elsewhere, vars
<1>1. ASSUME NEW s \in Consumers, StageSteps(s)
      PROVE  /\ marks \subseteq marks'
             /\ marks' \subseteq marks \cup {"cutWrite", "tornRead"}
             /\ UNCHANGED <<job, client, got>>
  <2>1. CASE LookForPart
    BY <2>1 DEF LookForPart
  <2>2. CASE ~LookForPart
    <3>1. UNCHANGED <<marks, job, client, got>>
      BY <1>1, <2>2, StageCases, AsideEffect
         DEF Deliver, SaveStatus, Inform, Send, Leave, NackRequeue, Fail, ReadInput, OpenText,
             WriteText, WaitForParts, MakeList, StartJoin, FinishJoin
    <3> QED
      BY <3>1
  <2> QED
    BY <2>1, <2>2
<1>2. ASSUME NEW p \in Parts, PartStep(p) \/ FailPart(p)
      PROVE  /\ marks \subseteq marks'
             /\ marks' \subseteq marks \cup {"cutWrite", "tornRead"}
             /\ UNCHANGED <<job, client, got>>
  BY <1>2 DEF PartStep, OpenAudio, WriteAudio, FailPart, CutWrites
<1> QED
  BY <1>1, <1>2 DEF WorkStep

LEMMA CrashKeepsRest ==
    ASSUME TypeOK, StepsInv, DeathStep
    PROVE  /\ UNCHANGED <<rows, files, job, client, got>>
           /\ marks \subseteq marks'
           /\ Crash => "crashed" \in marks'
           /\ marks' \subseteq marks \cup {"cutWrite", "crashed"}
           /\ AtRest => AtRest'
<1>1. /\ UNCHANGED <<rows, files, job, client, got>>
      /\ marks \subseteq marks' /\ (Crash => "crashed" \in marks')
      /\ marks' \subseteq marks \cup {"cutWrite", "crashed"}
  BY DEF DeathStep, Crash, InformCrash, Dies, CutWrites, cleaning, reading
<1>2. PICK S : Dies(S)
  BY DEF DeathStep, Crash, InformCrash
<1>3. ASSUME AtRest PROVE AtRest'
  <2>1. \A s \in Consumers : cur[s] = "none" /\ pc'[s] = "idle"
    BY <1>2, <1>3 DEF Dies, AtRest, StepsInv, StepsOfStages
  <2>2. \A s \in Consumers : \A f \in BOOLEAN : queue'[s][f] = queue[s][f]
    <3> SUFFICES ASSUME NEW s \in Consumers PROVE \A f \in BOOLEAN : queue'[s][f] = queue[s][f]
      OBVIOUS
    <3>1. queue'[s] = [queue[s] EXCEPT ![TRUE] = @]
      BY <1>2, <2>1 DEF Dies
    <3>2. queue[s] \in [BOOLEAN -> Nat]
      BY DEF TypeOK
    <3> QED
      BY <3>1, <3>2
  <2> QED
    BY <1>3, <2>1, <2>2 DEF AtRest
<1> QED
  BY <1>1, <1>3

LEMMA OthersKeepStages ==
    ASSUME StartClean \/ CleanerStep \/ ClientStep \/ Expire \/ UNCHANGED vars
    PROVE  UNCHANGED stages /\ AtRest' = AtRest
<1>1. UNCHANGED stages
  BY DEF StartClean, CleanerStep, DropRow, DropDirectory, FilesDropped, JobFails, ClientStep,
         AskStatus, AskResult, LoadResult, Expire, vars, elsewhere
<1> QED
  BY <1>1 DEF AtRest, stages

\* Once deleted, deleted; a deletion that starts finds the task as it is.
LEMMA StartCleanEffect ==
    ASSUME StartClean
    PROVE  /\ job = 0 /\ job' = 1
           /\ UNCHANGED <<rows, files, client, got>>
           /\ marks \subseteq marks' /\ "deleted" \in marks'
           /\ marks' \subseteq marks \cup {"deleted", "deletedBusy", "deletedDone"}
           /\ AtRest \/ "deletedBusy" \in marks'
           /\ AtRest => marks' \subseteq marks \cup {"deleted", "deletedDone"}
BY DEF StartClean, reading

LEMMA CleanerEffect ==
    ASSUME TypeOK, CleanerStep
    PROVE  /\ job # 0
           /\ marks \subseteq marks'
           /\ marks' \subseteq marks \cup {"jobFailed"}
           /\ UNCHANGED <<client, got>>
           /\ \A f \in DOMAIN files : files'[f] \in {files[f], "none"}
           /\ \A t \in DOMAIN rows : rows'[t] \in {rows[t], "none"}
<1> USE DEF reading, elsewhere
<1>1. CASE DropRow
  <2>1. Tables[job] \in DOMAIN rows
    BY <1>1, JobFacts DEF DropRow, TypeOK
  <2> QED
    BY <1>1, <2>1, JobFacts DEF DropRow, TypeOK
<1>2. CASE DropDirectory
  BY <1>2, JobFacts DEF DropDirectory
<1>3. CASE FilesDropped \/ JobFails
  BY <1>3, JobFacts DEF FilesDropped, JobFails
<1> QED
  BY <1>1, <1>2, <1>3 DEF CleanerStep

LEMMA ClientEffect ==
    ASSUME ClientStep \/ Expire \/ UNCHANGED vars
    PROVE  UNCHANGED <<rows, files, job, marks>>
BY DEF ClientStep, AskStatus, AskResult, LoadResult, Expire, vars, elsewhere, cleaning

LEMMA NextDeleted ==
    ASSUME TypeOK, StepsInv, DeletedInv, [Next]_vars PROVE DeletedInv'
<1>1. CASE WorkStep
  <2>1. ~AtRest /\ marks \subseteq marks' /\ UNCHANGED job
        /\ marks' \subseteq marks \cup {"cutWrite", "tornRead"}
    BY <1>1, WorkNeedsTask, WorkMarks
  <2> QED
    BY <2>1 DEF DeletedInv
<1>2. CASE DeathStep
  BY <1>2, CrashKeepsRest DEF DeletedInv
<1>3. CASE StartClean
  BY <1>3, StartCleanEffect, OthersKeepStages DEF DeletedInv
<1>4. CASE CleanerStep
  BY <1>4, CleanerEffect, OthersKeepStages DEF DeletedInv
<1>5. CASE ClientStep \/ Expire \/ UNCHANGED vars
  BY <1>5, ClientEffect, OthersKeepStages DEF DeletedInv
<1> QED
  BY <1>1, <1>2, <1>3, <1>4, <1>5, NextCases

LEMMA DeletionInv == Spec => [](TypeOK /\ StepsInv /\ DeletedInv)
<1>1. Init => DeletedInv
  BY DEF Init, DeletedInv
<1>2. TypeOK /\ StepsInv /\ DeletedInv /\ [Next]_vars => DeletedInv'
  BY NextDeleted
<1> QED
  BY <1>1, <1>2, TypeInv, PTL DEF Spec

\* Of a task that was deleted at rest things only go.
LEMMA DeletedOnlyGoes ==
    ASSUME TypeOK, StepsInv, DeletedInv, [Next]_vars, "deleted" \in marks,
           "deletedBusy" \notin marks'
    PROVE  /\ AtRest
           /\ StartClean \/ CleanerStep \/ ClientStep \/ DeathStep \/ Expire \/ UNCHANGED vars
           /\ \A f \in DOMAIN files : files'[f] \in {files[f], "none"}
           /\ \A t \in DOMAIN rows : rows'[t] \in {rows[t], "none"}
<1>1. marks \subseteq marks'
  BY NextCases, WorkMarks, CrashKeepsRest, StartCleanEffect, CleanerEffect, ClientEffect
<1>2. AtRest /\ ~WorkStep
  BY <1>1, WorkNeedsTask DEF DeletedInv
<1>3. /\ \A f \in DOMAIN files : files'[f] \in {files[f], "none"}
      /\ \A t \in DOMAIN rows : rows'[t] \in {rows[t], "none"}
  BY <1>2, NextCases, CrashKeepsRest, StartCleanEffect, CleanerEffect, ClientEffect
<1> QED
  BY <1>2, <1>3, NextCases

-----------------------------------------------------------------------------
(* Nothing is left that the timer does not find.                            *)

Passed(n) == job = 0 \/ job > n

\* What the cleaner has passed is gone, and a task that was not deleted has
\* the row of its request.
OrphanInv ==
    marks \cap {"deletedBusy", "jobFailed"} = {} =>
        /\ "deleted" \notin marks => rows["requests"] # "none"
        /\ "deleted" \in marks =>
               /\ \A n \in 1 .. 3 : Passed(n) => rows[Tables[n]] = "none"
               /\ Passed(4) => files[Input] = "none"
               /\ job = 0 => \A f \in WorkFiles : files[f] = "none"

LEMMA RowNames == ASSUME TypeOK PROVE DOMAIN rows = {"requests", "status", "emailLock"}
BY JobFacts DEF TypeOK

LEMMA WorkKeepsRequest ==
    ASSUME TypeOK, WorkStep PROVE rows'["requests"] = rows["requests"]
<1> USE DEF stages, elsewhere
<1>1. ASSUME NEW s \in Consumers, StageSteps(s) PROVE rows'["requests"] = rows["requests"]
  <2>1. CASE SaveStatus(s)
    BY <2>1, RowNames DEF SaveStatus, Saved
  <2>2. CASE Aside(s)
    <3>1. rows' \in {rows, SavedError, MadeLock}
      BY <2>2, AsideEffect
    <3> QED
      BY <3>1, RowNames DEF SavedError, MadeLock
  <2>3. CASE ~(SaveStatus(s) \/ Aside(s))
    BY <1>1, <2>3, StageCases
       DEF Deliver, Inform, Send, Leave, NackRequeue, Fail, ReadInput, OpenText, WriteText,
           LookForPart, WaitForParts, MakeList, StartJoin, FinishJoin
  <2> QED
    BY <2>1, <2>2, <2>3
<1>2. ASSUME NEW p \in Parts, PartStep(p) \/ FailPart(p)
      PROVE  rows'["requests"] = rows["requests"]
  BY <1>2 DEF PartStep, OpenAudio, WriteAudio, FailPart
<1> QED
  BY <1>1, <1>2 DEF WorkStep

LEMMA NextOrphan ==
    ASSUME TypeOK, StepsInv, DeletedInv, OrphanInv, [Next]_vars PROVE OrphanInv'
<1> SUFFICES ASSUME marks' \cap {"deletedBusy", "jobFailed"} = {}
             PROVE  /\ "deleted" \notin marks' => rows'["requests"] # "none"
                    /\ "deleted" \in marks' =>
                           /\ \A n \in 1 .. 3 :
                                  job' = 0 \/ job' > n => rows'[Tables[n]] = "none"
                           /\ job' = 0 \/ job' > 4 => files'[Input] = "none"
                           /\ job' = 0 => \A f \in WorkFiles : files'[f] = "none"
  BY DEF OrphanInv, Passed
<1>1. marks \subseteq marks'
  BY NextCases, WorkMarks, CrashKeepsRest, StartCleanEffect, CleanerEffect, ClientEffect
<1>2. marks \cap {"deletedBusy", "jobFailed"} = {}
  BY <1>1
<1>3. CASE "deleted" \notin marks
  <2>1. job = 0 /\ rows["requests"] # "none"
    BY <1>2, <1>3 DEF OrphanInv, DeletedInv
  <2>2. CASE StartClean
    BY <2>2, StartCleanEffect
  <2>3. CASE ~StartClean
    BY <1>3, <2>1, <2>3, NextCases, WorkMarks, CrashKeepsRest, CleanerEffect, ClientEffect,
       WorkKeepsRequest
  <2> QED
    BY <2>2, <2>3
<1>4. CASE "deleted" \in marks
  <2>0. job \in 0 .. 5
    BY JobFacts DEF TypeOK
  <2>1. /\ \A n \in 1 .. 3 : job = 0 \/ job > n => rows[Tables[n]] = "none"
        /\ job = 0 \/ job > 4 => files[Input] = "none"
        /\ job = 0 => \A f \in WorkFiles : files[f] = "none"
    BY <1>2, <1>4 DEF OrphanInv, Passed
  <2>2. /\ StartClean \/ CleanerStep \/ ClientStep \/ DeathStep \/ Expire \/ UNCHANGED vars
        /\ \A f \in DOMAIN files : files'[f] \in {files[f], "none"}
        /\ \A t \in DOMAIN rows : rows'[t] \in {rows[t], "none"}
    BY <1>4, DeletedOnlyGoes
  <2>3. /\ \A n \in 1 .. 3 : job = 0 \/ job > n => rows'[Tables[n]] = "none"
        /\ job = 0 \/ job > 4 => files'[Input] = "none"
        /\ job = 0 => \A f \in WorkFiles : files'[f] = "none"
    <3>1. Input \in DOMAIN files /\ \A f \in WorkFiles : f \in DOMAIN files
      BY DEF TypeOK
    <3>2. \A n \in 1 .. 3 : Tables[n] \in DOMAIN rows
      BY JobFacts, RowNames
    <3> QED
      BY <2>1, <2>2, <3>1, <3>2
  <2>4. CASE StartClean
    BY <2>3, <2>4, StartCleanEffect
  <2>5. CASE DropRow
    <3>1. job \in 1 .. 3 /\ job' = job + 1
      BY <2>5, JobFacts DEF DropRow, JobEnds
    <3>2. rows'[Tables[job]] = "none"
      BY <2>5, <3>1, JobFacts, RowNames DEF DropRow
    <3> QED
      BY <1>1, <1>4, <2>3, <3>1, <3>2
  <2>6. CASE DropDirectory
    <3>1. UNCHANGED job
      BY <2>6 DEF DropDirectory, elsewhere, cleaning
    <3> QED
      BY <1>1, <1>4, <2>0, <2>3, <3>1
  <2>7. CASE FilesDropped
    <3>1. job \in 4 .. 5 /\ job' = IF job = 5 THEN 0 ELSE job + 1
      BY <2>7, JobFacts DEF FilesDropped, JobEnds, TypeOK
    <3>2. UNCHANGED files
      BY <2>7 DEF FilesDropped
    <3>3. CASE job = 4
      <4>1. files[Input] = "none"
        BY <2>7, <3>3, JobFacts DEF FilesDropped, Directories
      <4> QED
        BY <1>1, <1>4, <2>0, <2>3, <3>1, <3>2, <3>3, <4>1
    <3>4. CASE job = 5
      <4>1. \A f \in WorkFiles : files[f] = "none"
        BY <2>7, <3>4, JobFacts, FileFacts DEF FilesDropped, Directories
      <4> QED
        BY <1>1, <1>4, <2>0, <2>3, <3>1, <3>2, <3>4, <4>1
    <3> QED
      BY <3>1, <3>3, <3>4
  <2>8. CASE JobFails
    BY <2>8 DEF JobFails
  <2>9. CASE DeathStep \/ ClientStep \/ Expire \/ UNCHANGED vars
    BY <1>1, <1>4, <2>0, <2>3, <2>9, CrashKeepsRest, ClientEffect
  <2> QED
    BY <2>2, <2>4, <2>5, <2>6, <2>7, <2>8, <2>9 DEF CleanerStep
<1> QED
  BY <1>3, <1>4

LEMMA OrphanImplied == ASSUME TypeOK, DeletedInv, OrphanInv PROVE NoOrphan
<1> SUFFICES ASSUME Left, rows.requests = "none", job = 0,
                    marks \cap {"deletedBusy", "jobFailed"} = {}
             PROVE  FALSE
  BY DEF NoOrphan
<1>1. "deleted" \in marks
  BY DEF OrphanInv
<1>2. /\ \A n \in 1 .. 3 : rows[Tables[n]] = "none"
      /\ files[Input] = "none" /\ \A f \in WorkFiles : files[f] = "none"
  BY <1>1 DEF OrphanInv, Passed
<1>3. \A t \in DOMAIN rows : rows[t] = "none"
  <2>1. rows[Tables[1]] = "none" /\ rows[Tables[2]] = "none" /\ rows[Tables[3]] = "none"
    BY <1>2
  <2> QED
    BY <2>1, JobFacts, RowNames
<1> QED
  BY <1>2, <1>3 DEF Left, TypeOK

\* The timer finds whatever is left of a task, by the row of its request,
\* unless a job failed or the task was deleted while it was worked on: a
\* deletion at rest leaves nothing, and nothing comes back after it.
THEOREM NothingOrphaned == Spec => []NoOrphan
<1>1. Init => OrphanInv
  BY DEF Init, OrphanInv
<1>2. TypeOK /\ StepsInv /\ DeletedInv /\ OrphanInv /\ [Next]_vars => OrphanInv'
  BY NextOrphan
<1>3. TypeOK /\ DeletedInv /\ OrphanInv => NoOrphan
  BY OrphanImplied
<1> QED
  BY <1>1, <1>2, <1>3, DeletionInv, PTL DEF Spec

-----------------------------------------------------------------------------
(* No text is read while it is written.                                     *)

Active(s) == pc[s] # "idle" \/ queue[s][FALSE] > 0 \/ queue[s][TRUE] > 0
NotTorn(p) == files[Text(p)] # "torn"

\* There is one message for Split, or its handler.
OneForSplit ==
    /\ queue["Split"][FALSE] + queue["Split"][TRUE] <= 1
    /\ pc["Split"] # "idle" => queue["Split"][FALSE] = 0 /\ queue["Split"][TRUE] = 0

WrittenSoFar ==
    pc["Split"] \in {"open", "write", "send", "ack"} =>
        \A p \in Parts : p < at["Split"] => NotTorn(p)

\* Split has written all when Synthesize has something to do.
SplitBeforeSynthesize ==
    Active("Synthesize") =>
        /\ queue["Split"][FALSE] = 0 /\ queue["Split"][TRUE] = 0
        /\ pc["Split"] \in {"idle", "ack"}
        /\ \A p \in Parts : NotTorn(p)

SplitOnce == OneForSplit /\ WrittenSoFar /\ SplitBeforeSynthesize

TornInv == "crashed" \notin marks => "tornRead" \notin marks /\ SplitOnce

LEMMA QueueFacts ==
    ASSUME TypeOK
    PROVE  \A s \in Consumers : queue[s][FALSE] \in Nat /\ queue[s][TRUE] \in Nat
<1>1. \A s \in Consumers : queue[s] \in [BOOLEAN -> Nat]
  BY DEF TypeOK
<1> QED
  BY <1>1

LEMMA DeliverQueue ==
    ASSUME TypeOK, NEW s \in Consumers, Deliver(s)
    PROVE  /\ \/ /\ queue[s][FALSE] > 0 /\ queue'[s][FALSE] = queue[s][FALSE] - 1
                 /\ queue'[s][TRUE] = queue[s][TRUE]
              \/ /\ queue[s][TRUE] > 0 /\ queue'[s][TRUE] = queue[s][TRUE] - 1
                 /\ queue'[s][FALSE] = queue[s][FALSE]
           /\ \A t \in Consumers \ {s} : queue'[t] = queue[t]
           /\ pc[s] = "idle" /\ pc' = [pc EXCEPT ![s] = FirstStep[s]]
           /\ UNCHANGED <<rows, files, at, call, marks, job, client, got>>
<1>1. PICK f \in BOOLEAN : queue[s][f] > 0 /\ queue' = [queue EXCEPT ![s][f] = @ - 1]
  BY DEF Deliver
<1>2. queue[s] \in [BOOLEAN -> Nat]
  BY DEF TypeOK
<1>3. queue'[s] = [queue[s] EXCEPT ![f] = @ - 1] /\ \A t \in Consumers \ {s} : queue'[t] = queue[t]
  BY <1>1 DEF TypeOK
<1>4. queue'[s][f] = queue[s][f] - 1 /\ queue'[s][~f] = queue[s][~f]
  BY <1>2, <1>3
<1>5. \/ /\ queue[s][FALSE] > 0 /\ queue'[s][FALSE] = queue[s][FALSE] - 1
         /\ queue'[s][TRUE] = queue[s][TRUE]
      \/ /\ queue[s][TRUE] > 0 /\ queue'[s][TRUE] = queue[s][TRUE] - 1
         /\ queue'[s][FALSE] = queue[s][FALSE]
  <2>1. CASE f = TRUE
    BY <1>1, <1>4, <2>1
  <2>2. CASE f = FALSE
    BY <1>1, <1>4, <2>2
  <2> QED
    BY <2>1, <2>2
<1> QED
  BY <1>3, <1>5 DEF Deliver, Goto, elsewhere, cleaning, reading

LEMMA PutEffect ==
    ASSUME TypeOK, NEW s \in Consumers, NEW f \in BOOLEAN, queue' = Put(s, f)
    PROVE  /\ queue'[s][f] = queue[s][f] + 1 /\ queue'[s][~f] = queue[s][~f]
           /\ \A t \in Consumers \ {s} : queue'[t] = queue[t]
<1>1. queue[s] \in [BOOLEAN -> Nat]
  BY DEF TypeOK
<1>2. queue'[s] = [queue[s] EXCEPT ![f] = @ + 1] /\ \A t \in Consumers \ {s} : queue'[t] = queue[t]
  BY DEF Put, TypeOK
<1> QED
  BY <1>1, <1>2

LEMMA InformQueue ==
    ASSUME TypeOK, NEW s \in Consumers, Inform(s)
    PROVE  \A t \in Stages : queue'[t] = queue[t]
<1>1. queue' = Put("Inform", FALSE) /\ "Inform" \in Consumers
  BY ConsumerNames DEF Inform
<1>2. \A t \in Stages : t \in Consumers \ {"Inform"}
  BY DEF Consumers, Synthesis, Stages
<1> QED
  BY <1>1, <1>2, PutEffect

\* The end of the inform service leaves the stages as they are.
LEMMA InformCrashEffect ==
    ASSUME TypeOK, InformCrash
    PROVE  /\ UNCHANGED <<rows, files, call, job, client, got, marks>>
           /\ \A t \in Stages : queue'[t] = queue[t] /\ pc'[t] = pc[t] /\ at'[t] = at[t]
<1>1. \A t \in Stages : t \in Consumers /\ t \notin {"Inform"} /\ queue[t] \in [BOOLEAN -> Nat]
  BY DEF TypeOK, Consumers, Synthesis, Stages
<1>2. Dies({"Inform"}) /\ UNCHANGED <<call, marks>>
  BY DEF InformCrash
<1>3. \A t \in Stages : queue'[t] = [queue[t] EXCEPT ![TRUE] = @]
  BY <1>1, <1>2 DEF Dies
<1>4. \A t \in Stages : queue'[t] = queue[t]
  BY <1>1, <1>3
<1> QED
  BY <1>1, <1>2, <1>4 DEF Dies, cleaning, reading

LEMMA NextTorn == ASSUME TypeOK, StepsInv, TornInv, [Next]_vars PROVE TornInv'
<1> SUFFICES ASSUME "crashed" \notin marks' PROVE "tornRead" \notin marks' /\ SplitOnce'
  BY DEF TornInv
<1>0. marks \subseteq marks'
  BY NextCases, WorkMarks, CrashKeepsRest, StartCleanEffect, CleanerEffect, ClientEffect
<1>1. "tornRead" \notin marks /\ OneForSplit /\ WrittenSoFar /\ SplitBeforeSynthesize
  BY <1>0 DEF TornInv, SplitOnce
<1>2. /\ queue["Split"][FALSE] \in Nat /\ queue["Split"][TRUE] \in Nat
      /\ queue["Synthesize"][FALSE] \in Nat /\ queue["Synthesize"][TRUE] \in Nat
  BY QueueFacts DEF Consumers, Synthesis, Stages
<1> USE DEF stages, cleaning, reading, elsewhere, vars
<1> USE DEF NotTorn, Active
<1>3. ASSUME NEW s \in Consumers, Deliver(s) PROVE "tornRead" \notin marks' /\ SplitOnce'
  <2>1. UNCHANGED <<files, at, marks>> /\ pc' = [pc EXCEPT ![s] = FirstStep[s]]
    BY <1>3, DeliverQueue
  <2>2. CASE s = "Split"
    <3>1. pc'["Split"] = "save" /\ pc'["Synthesize"] = pc["Synthesize"]
      BY <2>1, <2>2, FirstStepFacts DEF TypeOK, Consumers, Synthesis, Stages
    <3>2. queue'["Synthesize"] = queue["Synthesize"]
      BY <1>3, <2>2, DeliverQueue DEF Consumers, Synthesis, Stages
    <3>3. /\ queue["Split"][FALSE] # 0 \/ queue["Split"][TRUE] # 0
          /\ queue'["Split"][FALSE] = 0 /\ queue'["Split"][TRUE] = 0
      <4>1. \/ /\ queue["Split"][FALSE] > 0
               /\ queue'["Split"][FALSE] = queue["Split"][FALSE] - 1
               /\ queue'["Split"][TRUE] = queue["Split"][TRUE]
            \/ /\ queue["Split"][TRUE] > 0
               /\ queue'["Split"][TRUE] = queue["Split"][TRUE] - 1
               /\ queue'["Split"][FALSE] = queue["Split"][FALSE]
        BY <1>3, <2>2, DeliverQueue
      <4> QED
        <5>1. queue["Split"][FALSE] + queue["Split"][TRUE] <= 1
          BY <1>1 DEF OneForSplit
        <5> DEFINE a == queue["Split"][FALSE]
                   b == queue["Split"][TRUE]
                   c == queue'["Split"][FALSE]
                   d == queue'["Split"][TRUE]
        <5>2. a \in Nat /\ b \in Nat /\ a + b <= 1
          BY <1>2, <5>1
        <5>3. \/ a > 0 /\ c = a - 1 /\ d = b
              \/ b > 0 /\ d = b - 1 /\ c = a
          BY <4>1
        <5>4. (a # 0 \/ b # 0) /\ c = 0 /\ d = 0
          <6> HIDE DEF a, b, c, d
          <6> QED
            BY <5>2, <5>3
        <5> QED
          BY <5>4
    <3>4. ~Active("Synthesize")
      BY <1>1, <3>3 DEF SplitBeforeSynthesize
    <3>5. ~Active("Synthesize")'
      BY <3>1, <3>2, <3>4
    <3>6. OneForSplit'
      BY <3>3 DEF OneForSplit
    <3> QED
      BY <1>1, <2>1, <3>1, <3>5, <3>6 DEF SplitOnce, WrittenSoFar, SplitBeforeSynthesize
  <2>3. CASE s = "Synthesize"
    <3>1. pc'["Synthesize"] = "save" /\ pc'["Split"] = pc["Split"]
      BY <2>1, <2>3, FirstStepFacts DEF TypeOK, Consumers, Synthesis, Stages
    <3>2. queue'["Split"] = queue["Split"] /\ Active("Synthesize")
      BY <1>3, <2>3, DeliverQueue DEF Consumers, Synthesis, Stages
    <3> QED
      BY <1>1, <2>1, <3>1, <3>2
         DEF SplitOnce, OneForSplit, WrittenSoFar, SplitBeforeSynthesize
  <2>4. CASE s \in {"Join", "Fail", "Inform"}
    <3>1. pc'["Synthesize"] = pc["Synthesize"] /\ pc'["Split"] = pc["Split"]
      BY <2>1, <2>4 DEF TypeOK, Consumers, Synthesis, Stages
    <3>2. queue'["Split"] = queue["Split"] /\ queue'["Synthesize"] = queue["Synthesize"]
      BY <1>3, <2>4, DeliverQueue DEF Consumers, Synthesis, Stages
    <3> QED
      BY <1>1, <2>1, <3>1, <3>2
         DEF SplitOnce, OneForSplit, WrittenSoFar, SplitBeforeSynthesize
  <2> QED
    BY <2>2, <2>3, <2>4, ConsumerNames
<1>4. ASSUME NEW s \in Consumers, SaveStatus(s) \/ Inform(s)
      PROVE  "tornRead" \notin marks' /\ SplitOnce'
  <2>1. /\ UNCHANGED <<files, at, marks>> /\ pc[s] \in {"save", "complete", "inform"}
        /\ pc' = [pc EXCEPT ![s] = After[s][pc[s]]]
        /\ queue'["Split"] = queue["Split"] /\ queue'["Synthesize"] = queue["Synthesize"]
    BY <1>4, InformQueue DEF SaveStatus, Inform, Succeeds, Goto, Stages
  <2>2. CASE s = "Split"
    <3>1. pc["Split"] = "save" /\ pc'["Split"] = "read" /\ pc'["Synthesize"] = pc["Synthesize"]
      BY <2>1, <2>2, AfterFacts
         DEF TypeOK, StepsInv, StepsOfStages, Consumers, Synthesis, Stages, SplitAt, Ends
    <3>2. Active("Synthesize")' => Active("Synthesize")
      BY <2>1, <3>1
    <3> HIDE DEF Active
    <3> QED
      BY <1>1, <2>1, <3>1, <3>2
         DEF SplitOnce, OneForSplit, WrittenSoFar, SplitBeforeSynthesize
  <2>3. CASE s # "Split"
    <3>1. pc'["Split"] = pc["Split"] /\ (pc'["Synthesize"] # "idle" => Active("Synthesize"))
      BY <2>1, <2>3 DEF TypeOK, Consumers, Synthesis, Stages
    <3>2. Active("Synthesize")' => Active("Synthesize")
      BY <2>1, <3>1
    <3> HIDE DEF Active
    <3> QED
      BY <1>1, <2>1, <3>1, <3>2
         DEF SplitOnce, OneForSplit, WrittenSoFar, SplitBeforeSynthesize
  <2> QED
    BY <2>2, <2>3
<1>5. ASSUME NEW s \in Consumers, Send(s) PROVE "tornRead" \notin marks' /\ SplitOnce'
  <2>1. UNCHANGED <<files, at, marks>>
    BY <1>5 DEF Send
  <2>2. CASE s = "Split"
    <3>1. pc["Split"] = "send" /\ pc' = [pc EXCEPT !["Split"] = "ack"] /\ at["Split"] = PartCount
      BY <1>5, <2>2, AfterFacts DEF Send, Succeeds, Goto, StepsInv, LoopOfSplit
    <3>2. queue'["Split"] = queue["Split"]
      <4>1. queue' = Put("Synthesize", FALSE)
        BY <1>5, <2>2, AfterFacts DEF Send
      <4> QED
        BY <4>1, ConsumerNames, PutEffect
    <3>3. \A p \in Parts : NotTorn(p)
      BY <1>1, <3>1, PartCountAssumption DEF WrittenSoFar, Parts
    <3>4. pc'["Split"] = "ack"
      BY <3>1 DEF TypeOK, Consumers, Synthesis, Stages
    <3> QED
      BY <1>1, <2>1, <3>1, <3>2, <3>3, <3>4
         DEF SplitOnce, OneForSplit, WrittenSoFar, SplitBeforeSynthesize
  <2>3. CASE s = "Synthesize"
    <3>1. pc["Synthesize"] = "send" /\ pc' = [pc EXCEPT !["Synthesize"] = "ack"]
      BY <1>5, <2>3, AfterFacts DEF Send, Succeeds, Goto
    <3>2. queue'["Split"] = queue["Split"] /\ queue'["Synthesize"] = queue["Synthesize"]
      <4>1. queue' = Put("Join", FALSE)
        BY <1>5, <2>3, AfterFacts DEF Send
      <4> QED
        BY <4>1, ConsumerNames, PutEffect
    <3>3. pc'["Split"] = pc["Split"]
      BY <3>1 DEF TypeOK, Consumers, Synthesis, Stages
    <3> QED
      BY <1>1, <2>1, <3>1, <3>2, <3>3
         DEF SplitOnce, OneForSplit, WrittenSoFar, SplitBeforeSynthesize
  <2>4. s \notin {"Join", "Fail", "Inform"}
    BY <1>5 DEF Send, StepsInv, StepsOfStages, JoinAt, FailAt, InformAt, Ends
  <2> QED
    BY <2>2, <2>3, <2>4, ConsumerNames
<1>6. ASSUME NEW s \in Consumers, Leave(s) \/ NackRequeue(s)
      PROVE  "tornRead" \notin marks' /\ SplitOnce'
  <2>1. /\ UNCHANGED <<files, marks>> /\ pc[s] \in {"ack", "error", "drop"}
        /\ pc' = [pc EXCEPT ![s] = "idle"] /\ at' = [at EXCEPT ![s] = 0]
        /\ UNCHANGED queue \/ (queue' = Put(s, TRUE) /\ pc[s] = "error")
    BY <1>6 DEF Leave, NackRequeue, EndsDelivery, Goto
  <2>2. CASE s = "Split"
    <3>1. /\ pc'["Split"] = "idle" /\ pc'["Synthesize"] = pc["Synthesize"]
          /\ queue'["Synthesize"] = queue["Synthesize"]
      BY <2>1, <2>2, PutEffect DEF TypeOK, Consumers, Synthesis, Stages
    <3>2. queue'["Split"][FALSE] = 0 /\ queue'["Split"][TRUE] \in {0, 1}
          /\ (pc["Split"] = "ack" => queue'["Split"][TRUE] = 0)
      <4>1. queue["Split"][FALSE] = 0 /\ queue["Split"][TRUE] = 0
        BY <1>1, <2>1, <2>2 DEF OneForSplit
      <4>2. CASE UNCHANGED queue
        BY <4>1, <4>2
      <4>3. CASE queue' = Put("Split", TRUE) /\ pc["Split"] = "error"
        <5>1. queue'["Split"][TRUE] = queue["Split"][TRUE] + 1
              /\ queue'["Split"][~TRUE] = queue["Split"][~TRUE]
          BY <4>3, PutEffect DEF Consumers, Synthesis, Stages
        <5>2. queue'["Split"][FALSE] = queue["Split"][FALSE]
          BY <5>1
        <5>3. queue'["Split"][TRUE] = 1
          <6>1. \A a, b : a = 0 /\ b = a + 1 => b = 1
            OBVIOUS
          <6> QED
            BY <4>1, <5>1, <6>1
        <5> QED
          BY <4>1, <4>3, <5>2, <5>3
      <4> QED
        BY <2>1, <2>2, <4>2, <4>3
    <3>3. OneForSplit' /\ WrittenSoFar'
      <4>1. \A a, b : a = 0 /\ b \in {0, 1} => a + b <= 1
        OBVIOUS
      <4> QED
        BY <3>1, <3>2, <4>1 DEF OneForSplit, WrittenSoFar
    <3>4. CASE Active("Synthesize")
      <4>1. pc["Split"] = "ack"
        BY <1>1, <2>1, <2>2, <3>4 DEF SplitBeforeSynthesize
      <4> QED
        BY <1>1, <2>1, <3>1, <3>2, <3>3, <3>4, <4>1 DEF SplitOnce, SplitBeforeSynthesize
    <3>5. CASE ~Active("Synthesize")
      <4>1. ~Active("Synthesize")'
        BY <3>1, <3>5
      <4> QED
        BY <1>1, <2>1, <3>3, <4>1 DEF SplitOnce, SplitBeforeSynthesize
    <3> QED
      BY <3>4, <3>5
  <2>3. CASE s # "Split"
    <3>1. pc'["Split"] = pc["Split"] /\ at'["Split"] = at["Split"]
      BY <2>1, <2>3 DEF TypeOK, Consumers, Synthesis, Stages
    <3>2. queue'["Split"] = queue["Split"]
      <4>1. queue' = Put(s, TRUE) => queue'["Split"] = queue["Split"]
        BY <2>3, ConsumerNames, PutEffect
      <4> QED
        BY <2>1, <4>1
    <3>3. Active("Synthesize")' => Active("Synthesize")
      <4>1. CASE s = "Synthesize"
        BY <2>1, <4>1
      <4>2. CASE s \in {"Join", "Fail", "Inform"}
        <5>1. pc'["Synthesize"] = pc["Synthesize"] /\ queue'["Synthesize"] = queue["Synthesize"]
          BY <2>1, <4>2, PutEffect DEF TypeOK, Consumers, Synthesis, Stages
        <5> QED
          BY <5>1
      <4> QED
        BY <2>3, <4>1, <4>2, ConsumerNames
    <3> HIDE DEF Active
    <3> QED
      BY <1>1, <2>1, <3>1, <3>2, <3>3
         DEF SplitOnce, OneForSplit, WrittenSoFar, SplitBeforeSynthesize
  <2> QED
    BY <2>2, <2>3
<1>7. ASSUME NEW s \in Consumers, Fail(s) \/ Aside(s)
      PROVE  "tornRead" \notin marks' /\ SplitOnce'
  <2>1. PICK to \in {"ack", "error", "saveErr", "informFailed", "sendFail", "drop", "lock", "unlock"} :
            /\ pc' = [pc EXCEPT ![s] = to]
            /\ s \in Stages => to \in {"error", "saveErr", "informFailed", "sendFail", "drop"}
    BY <1>7, AsideEffect DEF Fail, Goto, Consumers, Synthesis, Stages
  <2>2. /\ UNCHANGED <<files, at, marks>> /\ \A t \in Stages : queue'[t] = queue[t]
        /\ pc[s] \notin {"idle", "ack"}
    BY <1>7, AsideEffect DEF Fail
  <2>3. /\ pc'["Split"] # pc["Split"] =>
              /\ pc["Split"] \notin {"idle", "ack"}
              /\ pc'["Split"] \in {"error", "saveErr", "informFailed", "sendFail", "drop"}
        /\ pc'["Synthesize"] # pc["Synthesize"] => pc["Synthesize"] # "idle"
    BY <2>1, <2>2 DEF TypeOK, Consumers, Synthesis, Stages
  <2>4. /\ queue'["Split"] = queue["Split"] /\ queue'["Synthesize"] = queue["Synthesize"]
        /\ Active("Synthesize")' => Active("Synthesize")
    BY <2>2, <2>3 DEF Stages
  <2> HIDE DEF Active
  <2>5. OneForSplit' /\ WrittenSoFar'
    BY <1>1, <2>2, <2>3, <2>4 DEF OneForSplit, WrittenSoFar
  <2>6. SplitBeforeSynthesize'
    BY <1>1, <2>2, <2>3, <2>4 DEF SplitBeforeSynthesize
  <2> QED
    BY <1>1, <2>2, <2>5, <2>6 DEF SplitOnce
<1>8. CASE ReadInput
  <2>1. /\ UNCHANGED <<files, queue, at, marks>> /\ pc["Split"] = "read"
        /\ pc'["Split"] \in {"open", "error"} /\ pc'["Synthesize"] = pc["Synthesize"]
    BY <1>8, AfterFacts DEF ReadInput, Succeeds, Goto, TypeOK, Consumers, Synthesis, Stages
  <2>2. at["Split"] = 0
    BY <2>1 DEF StepsInv, LoopOfSplit
  <2>3. WrittenSoFar'
    BY <2>1, <2>2 DEF WrittenSoFar, Parts
  <2>4. ~Active("Synthesize")
    BY <1>1, <2>1 DEF SplitBeforeSynthesize
  <2> QED
    BY <1>1, <2>1, <2>3, <2>4 DEF SplitOnce, OneForSplit, SplitBeforeSynthesize
<1>9. CASE OpenText
  <2>1. /\ UNCHANGED <<queue, at, marks>> /\ pc["Split"] = "open"
        /\ pc'["Split"] \in {"write", "send"} /\ pc'["Synthesize"] = pc["Synthesize"]
    BY <1>9, AfterFacts DEF OpenText, Succeeds, Goto, TypeOK, Consumers, Synthesis, Stages
  <2>2. ~Active("Synthesize")
    BY <1>1, <2>1 DEF SplitBeforeSynthesize
  <2>3. ASSUME NEW p \in Parts, p < at["Split"] PROVE NotTorn(p)'
    <3>1. NotTorn(p)
      BY <1>1, <2>1, <2>3 DEF WrittenSoFar
    <3>2. CASE at["Split"] < PartCount
      <4>1. at["Split"] \in Parts /\ p # at["Split"]
        BY <2>3, <3>2, PartCountAssumption DEF TypeOK, Consumers, Synthesis, Stages, Parts
      <4>2. files'[Text(p)] = files[Text(p)]
        BY <1>9, <3>2, <4>1, FileFacts DEF OpenText, TypeOK
      <4> QED
        BY <3>1, <4>2
    <3>3. CASE ~(at["Split"] < PartCount)
      BY <1>9, <3>1, <3>3 DEF OpenText
    <3> QED
      BY <3>2, <3>3
  <2> QED
    BY <1>1, <2>1, <2>2, <2>3 DEF SplitOnce, OneForSplit, WrittenSoFar, SplitBeforeSynthesize
<1>10. CASE WriteText
  <2>1. /\ UNCHANGED <<queue, marks>> /\ pc["Split"] = "write"
        /\ pc'["Split"] = "open" /\ pc'["Synthesize"] = pc["Synthesize"]
        /\ at'["Split"] = at["Split"] + 1
    BY <1>10 DEF WriteText, Goto, TypeOK, Consumers, Synthesis, Stages
  <2>2. ~Active("Synthesize")
    BY <1>1, <2>1 DEF SplitBeforeSynthesize
  <2>3. at["Split"] \in Parts
    BY <2>1, PartCountAssumption
       DEF TypeOK, Consumers, Synthesis, Stages, Parts, StepsInv, LoopOfSplit
  <2>4. ASSUME NEW p \in Parts, p < at["Split"] + 1 PROVE NotTorn(p)'
    <3>1. CASE p = at["Split"]
      BY <1>10, <3>1, FileFacts DEF WriteText, Written, TypeOK
    <3>2. CASE p # at["Split"]
      <4>1. p < at["Split"]
        BY <2>3, <2>4, <3>2 DEF Parts
      <4>2. NotTorn(p)
        BY <1>1, <2>1, <4>1 DEF WrittenSoFar
      <4>3. files'[Text(p)] = files[Text(p)]
        BY <1>10, <2>3, <3>2, FileFacts DEF WriteText, Written, TypeOK
      <4> QED
        BY <4>2, <4>3
    <3> QED
      BY <3>1, <3>2
  <2>5. WrittenSoFar'
    BY <2>1, <2>4 DEF WrittenSoFar
  <2> QED
    BY <1>1, <2>1, <2>2, <2>5 DEF SplitOnce, OneForSplit, SplitBeforeSynthesize
<1>11. CASE LookForPart
  <2>1. /\ pc["Synthesize"] = "look" /\ UNCHANGED <<files, queue>>
        /\ pc'["Split"] = pc["Split"] /\ at'["Split"] = at["Split"]
    BY <1>11 DEF LookForPart, Succeeds, Goto, TypeOK, Consumers, Synthesis, Stages
  <2>2. \A p \in Parts : NotTorn(p) /\ files[Text(p)] # "short"
    BY <1>1, <2>1 DEF SplitBeforeSynthesize, StepsInv, TextsWhole
  <2>3. "tornRead" \notin marks'
    <3> DEFINE p == at["Synthesize"]
    <3>1. p # PartCount => p \in Parts
      BY PartCountAssumption DEF TypeOK, Consumers, Synthesis, Stages, Parts
    <3>2. CASE p = PartCount \/ files[Text(p)] = "none" \/ files[Audio(p)] # "none"
      BY <1>1, <1>11, <3>2 DEF LookForPart
    <3>3. CASE ~(p = PartCount \/ files[Text(p)] = "none" \/ files[Audio(p)] # "none")
      <4>1. p \in Parts
        BY <3>1, <3>3
      <4>2. files[Text(p)] = "whole"
        BY <2>2, <3>3, <4>1, FileFacts DEF TypeOK
      <4> QED
        BY <1>1, <1>11, <3>3, <4>2 DEF LookForPart
    <3> QED
      BY <3>2, <3>3
  <2> QED
    BY <1>1, <2>1, <2>2, <2>3
       DEF SplitOnce, OneForSplit, WrittenSoFar, SplitBeforeSynthesize
<1>12. CASE WaitForParts \/ MakeList \/ StartJoin \/ FinishJoin
  <2>1. /\ UNCHANGED <<queue, marks>>
        /\ pc'["Split"] = pc["Split"] /\ at'["Split"] = at["Split"]
        /\ pc["Synthesize"] = "idle" => pc'["Synthesize"] = "idle"
    BY <1>12
       DEF WaitForParts, MakeList, StartJoin, FinishJoin, Succeeds, Goto, TypeOK, Consumers,
           Synthesis, Stages
  <2>2. \A p \in Parts : files'[Text(p)] = files[Text(p)]
    BY <1>12, FileFacts DEF WaitForParts, MakeList, StartJoin, FinishJoin, Written, TypeOK
  <2> QED
    BY <1>1, <2>1, <2>2
       DEF SplitOnce, OneForSplit, WrittenSoFar, SplitBeforeSynthesize
<1>13. ASSUME NEW p \in Parts, PartStep(p) \/ FailPart(p)
       PROVE  "tornRead" \notin marks' /\ SplitOnce'
  <2>1. /\ UNCHANGED <<queue, at>> /\ "tornRead" \notin marks'
        /\ pc'["Split"] = pc["Split"] /\ pc["Synthesize"] # "idle"
    BY <1>1, <1>13
       DEF PartStep, OpenAudio, WriteAudio, FailPart, CutWrites, Goto, TypeOK, Consumers,
           Synthesis, Stages, StepsInv, LoopOfSynthesize
  <2>2. \A q \in Parts : files'[Text(q)] = files[Text(q)]
    BY <1>13, FileFacts DEF PartStep, OpenAudio, WriteAudio, FailPart, TypeOK
  <2> QED
    BY <1>1, <2>1, <2>2
       DEF SplitOnce, OneForSplit, WrittenSoFar, SplitBeforeSynthesize
<1>14. CASE DeathStep
  <2>1. ~Crash /\ InformCrash
    BY <1>14, CrashKeepsRest DEF DeathStep
  <2>2. /\ UNCHANGED <<files, marks>>
        /\ \A t \in Stages : queue'[t] = queue[t] /\ pc'[t] = pc[t] /\ at'[t] = at[t]
    BY <2>1, InformCrashEffect
  <2> QED
    BY <1>1, <2>2
       DEF SplitOnce, OneForSplit, WrittenSoFar, SplitBeforeSynthesize, Stages
<1>16. CASE StartClean \/ CleanerStep \/ ClientStep \/ Expire \/ UNCHANGED vars
  <2>1. UNCHANGED stages /\ "tornRead" \notin marks'
    BY <1>1, <1>16, OthersKeepStages, StartCleanEffect, CleanerEffect, ClientEffect
  <2>2. \A f \in DOMAIN files : files'[f] \in {files[f], "none"}
    BY <1>16, StartCleanEffect, CleanerEffect, ClientEffect
  <2>3. \A p \in Parts : Text(p) \in DOMAIN files
    BY FileFacts DEF TypeOK
  <2>4. \A p \in Parts : NotTorn(p) => files'[Text(p)] # "torn"
    BY <2>2, <2>3
  <2> QED
    BY <1>1, <2>1, <2>4
       DEF SplitOnce, OneForSplit, WrittenSoFar, SplitBeforeSynthesize
<1> QED
  BY <1>3, <1>4, <1>5, <1>6, <1>7, <1>8, <1>9, <1>10, <1>11, <1>12, <1>13, <1>14, <1>16,
     NextCases, StageCases
     DEF WorkStep

\* No text is read while it is being written, unless a crash had Split done
\* again: Split has one message, and Synthesize starts when all is written.
THEOREM TornNeedsCrash == Spec => []TornReadNeedsCrash
<1>1. Init => TornInv
  <2> SUFFICES ASSUME Init PROVE TornInv
    OBVIOUS
  <2>1. /\ \A s \in Consumers : pc[s] = "idle"
        /\ queue["Split"][FALSE] \in {0, 1} /\ queue["Split"][TRUE] = 0
        /\ queue["Synthesize"][FALSE] = 0 /\ queue["Synthesize"][TRUE] = 0
    BY DEF Init, Consumers, Synthesis, Stages
  <2> QED
    BY <2>1 DEF Init, TornInv, SplitOnce, OneForSplit, WrittenSoFar, SplitBeforeSynthesize,
                Active, Consumers, Synthesis, Stages
<1>2. TypeOK /\ StepsInv /\ TornInv /\ [Next]_vars => TornInv'
  BY NextTorn
<1>3. TornInv => TornReadNeedsCrash
  BY DEF TornInv, TornReadNeedsCrash
<1> QED
  BY <1>1, <1>2, <1>3, TypeInv, PTL DEF Spec

-----------------------------------------------------------------------------
(* What a step at work leaves alone.                                        *)

\* Where such a step leads.
LEMMA AsideMoves ==
    ASSUME TypeOK, NEW s \in Consumers, Aside(s)
    PROVE  /\ UNCHANGED at /\ \A t \in Consumers \ {s} : pc'[t] = pc[t]
           /\ pc'[s] \notin {"open", "write", "look", "wait", "start", "ffmpeg", "complete", "inform",
                            "send"}
           /\ s \in Stages => pc'[s] # "ack"
<1>1. PICK to \in {"ack", "error", "saveErr", "informFailed", "sendFail", "drop", "lock", "unlock"} :
          /\ pc' = [pc EXCEPT ![s] = to]
          /\ to \in {"ack", "error"} => s \notin Stages
  BY AsideEffect
<1>2. pc'[s] = to /\ \A t \in Consumers \ {s} : pc'[t] = pc[t]
  BY <1>1 DEF TypeOK
<1> QED
  BY <1>1, <1>2, AsideEffect

\* A handler moves itself only.
LEMMA OwnStage ==
    ASSUME TypeOK, NEW s \in Consumers, StageSteps(s)
    PROVE  \A t \in Consumers \ {s} : pc'[t] = pc[t] /\ at'[t] = at[t]
<1> USE DEF TypeOK, Goto, Succeeds
<1>1. CASE Deliver(s) \/ SaveStatus(s) \/ Inform(s) \/ Send(s) \/ Fail(s)
  BY <1>1 DEF Deliver, SaveStatus, Inform, Send, Fail
<1>2. CASE Leave(s) \/ NackRequeue(s)
  BY <1>2 DEF Leave, NackRequeue, EndsDelivery
<1>3. CASE Aside(s)
  <2> HIDE DEF TypeOK
  <2> QED
    BY <1>3, AsideMoves
<1>4. CASE s = "Split" /\ (ReadInput \/ OpenText \/ WriteText)
  BY <1>4 DEF ReadInput, OpenText, WriteText
<1>5. CASE s = "Synthesize" /\ (LookForPart \/ WaitForParts)
  BY <1>5 DEF LookForPart, WaitForParts
<1>6. CASE s = "Join" /\ (MakeList \/ StartJoin \/ FinishJoin)
  BY <1>6 DEF MakeList, StartJoin, FinishJoin
<1> QED
  BY <1>1, <1>2, <1>3, <1>4, <1>5, <1>6, StageCases

\* Whoever is not at a step of the files keeps them, and the calls.
LEMMA FilesKept ==
    ASSUME TypeOK, NEW s \in Consumers, StageSteps(s)
    PROVE  /\ ~(OpenText \/ WriteText \/ MakeList \/ StartJoin \/ FinishJoin) => UNCHANGED files
           /\ ~LookForPart => UNCHANGED call
BY StageCases, AsideEffect
   DEF Deliver, SaveStatus, Inform, Send, Leave, NackRequeue, Fail, ReadInput, OpenText,
       WriteText, LookForPart, WaitForParts, MakeList, StartJoin, FinishJoin

\* Only the handler of Split touches the texts, only the calls the audio, and
\* only the handler of Join the result; nobody at work takes a file away.
LEMMA FilesWritten ==
    ASSUME TypeOK, StepsInv, WorkStep
    PROVE  /\ \A f \in DOMAIN files : files[f] # "none" => files'[f] # "none"
           /\ ~(OpenText \/ WriteText) => \A p \in Parts : files'[Text(p)] = files[Text(p)]
           /\ (\A p \in Parts : ~PartStep(p)) => \A p \in Parts : files'[Audio(p)] = files[Audio(p)]
           /\ ~(StartJoin \/ FinishJoin) => files'[Result] = files[Result]
<1> USE DEF TypeOK
<1>1. CASE OpenText
  <2>1. CASE at["Split"] < PartCount
    <3>1. at["Split"] \in Parts
      BY <2>1, PartCountAssumption DEF Parts, Consumers, Synthesis, Stages
    <3>2. files' = [files EXCEPT ![Text(at["Split"])] = "torn"]
      BY <1>1, <2>1 DEF OpenText
    <3>3. Text(at["Split"]) \in DOMAIN files
      BY <3>1, FileFacts
    <3>4. \A f \in DOMAIN files : files'[f] = files[f] \/ (f = Text(at["Split"]) /\ files'[f] = "torn")
      BY <3>2, <3>3
    <3> QED
      BY <1>1, <3>1, <3>4, FileNames
  <2>2. CASE ~(at["Split"] < PartCount)
    BY <1>1, <2>2 DEF OpenText
  <2> QED
    BY <2>1, <2>2
<1>2. CASE WriteText
  <2>1. at["Split"] \in Parts
    BY <1>2, PartCountAssumption
       DEF WriteText, Parts, Consumers, Synthesis, Stages, StepsInv, LoopOfSplit
  <2>2. files' = Written(Text(at["Split"]), "whole")
    BY <1>2 DEF WriteText
  <2> QED
    BY <1>2, <2>1, <2>2, FileFacts DEF Written
<1>3. CASE MakeList
  BY <1>3, FileFacts DEF MakeList
<1>4. CASE StartJoin
  BY <1>4, FileFacts DEF StartJoin
<1>5. CASE FinishJoin
  BY <1>5, FileFacts DEF FinishJoin, Written
<1>6. ASSUME NEW p \in Parts, PartStep(p)
      PROVE  /\ \A f \in DOMAIN files : files[f] # "none" => files'[f] # "none"
             /\ \A q \in Parts : files'[Text(q)] = files[Text(q)]
             /\ files'[Result] = files[Result]
  <2>1. call[p] \in {"short", "whole"}
    BY <1>6 DEF PartStep, OpenAudio, WriteAudio
  <2>2. \A f \in DOMAIN files :
            files'[f] = files[f] \/ (f = Audio(p) /\ files'[f] \in {"torn", "short", "whole"})
    <3>1. files' = [files EXCEPT ![Audio(p)] = "torn"]
              \/ files' = [files EXCEPT ![Audio(p)] = call[p]]
      BY <1>6 DEF PartStep, OpenAudio, WriteAudio
    <3> QED
      BY <2>1, <3>1 DEF TypeOK
  <2>3. \A f \in DOMAIN files : files[f] # "none" => files'[f] # "none"
    BY <2>2
  <2> QED
    BY <2>2, <2>3, FileNames
<1>7. CASE \E p \in Parts : FailPart(p)
  BY <1>7 DEF FailPart
<1>8. CASE \E s \in Consumers : StageSteps(s)
  BY <1>1, <1>2, <1>3, <1>4, <1>5, <1>8, FilesKept
<1> QED
  BY <1>6, <1>7, <1>8 DEF WorkStep

\* A stage has something to do when it had, or when the stage before sent it.
LEMMA ActiveMoves ==
    ASSUME TypeOK, StepsInv, WorkStep
    PROVE  /\ Active("Synthesize")' => Active("Synthesize") \/ Send("Split")
           /\ Active("Join")' => Active("Join") \/ Send("Synthesize")
<1> DEFINE Kept(t) == Active(t)' => Active(t)
<1> USE DEF Active
<1>1. ASSUME NEW s \in Consumers, StageSteps(s)
      PROVE  /\ \A t \in Stages : t # s =>
                    queue'[t] = queue[t] \/ (Send(s) /\ t = NextStage[s])
             /\ s \in Stages => Kept(s)
  <2>0. Stages \subseteq Consumers /\ \A t \in Stages : t # "Inform"
    BY DEF Stages, Synthesis, Consumers
  <2>1. CASE Deliver(s)
    <3>1. \A t \in Consumers \ {s} : queue'[t] = queue[t]
      BY <2>1, DeliverQueue
    <3>2. Active(s)
      BY <2>1, DeliverQueue
    <3> QED
      BY <2>0, <3>1, <3>2
  <2>2. CASE Send(s)
    <3>1. NextStage[s] \in Consumers /\ pc[s] # "idle"
      BY <2>2, ConsumerNames, AfterFacts
         DEF Send, StepsInv, StepsOfStages, JoinAt, FailAt, InformAt, Ends
    <3>2. \A t \in Consumers \ {NextStage[s]} : queue'[t] = queue[t]
      BY <2>2, <3>1, PutEffect DEF Send
    <3> QED
      BY <2>0, <2>2, <3>1, <3>2
  <2>3. CASE NackRequeue(s)
    <3>1. \A t \in Consumers \ {s} : queue'[t] = queue[t]
      BY <2>3, PutEffect DEF NackRequeue
    <3>2. pc[s] # "idle"
      BY <2>3 DEF NackRequeue
    <3> QED
      BY <2>0, <3>1, <3>2
  <2>4. CASE ~(Deliver(s) \/ Send(s) \/ NackRequeue(s))
    <3>1. (\A t \in Stages : queue'[t] = queue[t]) /\ pc[s] # "idle"
      BY <1>1, <2>4, StageCases, AsideEffect, InformQueue
         DEF SaveStatus, Inform, Leave, Fail, ReadInput, OpenText, WriteText, LookForPart,
             WaitForParts, MakeList, StartJoin, FinishJoin
    <3> QED
      BY <3>1
  <2> QED
    BY <2>1, <2>2, <2>3, <2>4
<1>2. CASE \E s \in Consumers : StageSteps(s)
  <2>1. PICK s \in Consumers : StageSteps(s)
    BY <1>2
  <2>2. ASSUME NEW t \in Stages, t # s, ~(Send(s) /\ t = NextStage[s]) PROVE Kept(t)
    <3>1. t \in Consumers \ {s}
      BY <2>2 DEF Stages, Synthesis, Consumers
    <3>2. queue'[t] = queue[t] /\ pc'[t] = pc[t]
      BY <1>1, <2>1, <2>2, <3>1, OwnStage
    <3> QED
      BY <3>2
  <2>3. s \in Stages => Kept(s)
    BY <1>1, <2>1
  <2>4. Send(s) => s \in {"Split", "Synthesize"}
    BY ConsumerNames DEF Send, StepsInv, StepsOfStages, JoinAt, FailAt, InformAt, Ends
  <2>5. "Synthesize" \in Stages /\ "Join" \in Stages
    BY DEF Stages
  <2> HIDE DEF Kept
  <2>6. Kept("Synthesize") \/ Send("Split")
    BY <2>2, <2>3, <2>4, <2>5, AfterFacts
  <2>7. Kept("Join") \/ Send("Synthesize")
    BY <2>2, <2>3, <2>4, <2>5, AfterFacts
  <2> QED
    BY <2>6, <2>7 DEF Kept
<1>3. ASSUME NEW p \in Parts, PartStep(p) \/ FailPart(p)
      PROVE  Kept("Synthesize") /\ Kept("Join")
  <2>1. UNCHANGED queue /\ pc["Synthesize"] # "idle" /\ pc'["Join"] = pc["Join"]
    BY <1>3, ConsumerNames
       DEF PartStep, OpenAudio, WriteAudio, FailPart, Goto, stages, StepsInv, LoopOfSynthesize,
           TypeOK
  <2> QED
    BY <2>1
<1> QED
  BY <1>2, <1>3 DEF WorkStep

\* A service that dies leaves no stage more to do, and either all of its stages
\* idle, or the stages as they are.
LEMMA DeathActive ==
    ASSUME TypeOK, StepsInv, DeathStep
    PROVE  /\ \A s \in Stages : Active(s)' => Active(s)
           /\ \/ /\ Crash
                 /\ \A s \in Stages : pc'[s] = "idle" /\ at'[s] = 0
                 /\ \A p \in Parts : call'[p] = "none"
              \/ /\ UNCHANGED <<rows, files, call, job, client, got, marks>>
                 /\ \A s \in Stages : queue'[s] = queue[s] /\ pc'[s] = pc[s] /\ at'[s] = at[s]
<1>1. CASE Crash
  <2>1. Dies(Synthesis) /\ \A p \in Parts : call'[p] = "none"
    BY <1>1 DEF Crash
  <2>2. \A s \in Stages : s \in Consumers /\ s \in Synthesis
    BY DEF Consumers, Synthesis
  <2>3. \A s \in Stages : pc'[s] = "idle" /\ at'[s] = 0
    BY <2>1, <2>2 DEF Dies
  <2>4. ASSUME NEW s \in Stages, cur[s] = "none" PROVE queue'[s] = queue[s]
    <3>1. queue'[s] = [queue[s] EXCEPT ![TRUE] = @]
      BY <2>1, <2>2, <2>4 DEF Dies
    <3>2. queue[s] \in [BOOLEAN -> Nat]
      BY <2>2 DEF TypeOK
    <3> QED
      BY <3>1, <3>2
  <2>5. \A s \in Stages : Active(s)' => Active(s)
    BY <2>2, <2>3, <2>4 DEF Active, StepsInv, StepsOfStages
  <2> QED
    BY <1>1, <2>1, <2>3, <2>5
<1>2. CASE InformCrash
  BY <1>2, InformCrashEffect DEF Active
<1> QED
  BY <1>1, <1>2 DEF DeathStep

\* How Join comes to its steps, and the status to COMPLETED.
LEMMA JoinMoves ==
    ASSUME TypeOK, StepsInv, WorkStep
    PROVE  /\ rows'["status"] = "COMPLETED" =>
                  rows["status"] = "COMPLETED" \/ pc["Join"] = "complete"
           /\ pc'["Join"] = "start" =>
                  (pc["Join"] = "start" /\ at'["Join"] = at["Join"]) \/ MakeList
           /\ pc'["Join"] = "ffmpeg" =>
                  (pc["Join"] = "ffmpeg" /\ at'["Join"] = at["Join"]) \/ StartJoin
           /\ pc'["Join"] \in {"complete", "inform"} =>
                  pc["Join"] \in {"complete", "inform"} \/ FinishJoin
<1> DEFINE Moves == /\ pc'["Join"] = "start" =>
                           (pc["Join"] = "start" /\ at'["Join"] = at["Join"]) \/ MakeList
                    /\ pc'["Join"] = "ffmpeg" =>
                           (pc["Join"] = "ffmpeg" /\ at'["Join"] = at["Join"]) \/ StartJoin
                    /\ pc'["Join"] \in {"complete", "inform"} =>
                           pc["Join"] \in {"complete", "inform"} \/ FinishJoin
<1>1. ASSUME NEW s \in Consumers, StageSteps(s)
      PROVE  rows'["status"] = "COMPLETED" => rows["status"] = "COMPLETED" \/ pc["Join"] = "complete"
  <2>1. CASE SaveStatus(s)
    <3>1. pc[s] = "complete" => s = "Join"
      BY ConsumerNames
         DEF StepsInv, StepsOfStages, SplitAt, SynthesizeAt, FailAt, InformAt, Ends
    <3> QED
      BY <2>1, <3>1, RowNames DEF SaveStatus, Saved
  <2>2. CASE Aside(s)
    <3>1. rows' \in {rows, SavedError, MadeLock}
      BY <2>2, AsideEffect
    <3> QED
      BY <3>1, RowNames DEF SavedError, MadeLock
  <2>3. CASE ~SaveStatus(s) /\ ~Aside(s)
    BY <1>1, <2>3, StageCases
       DEF Deliver, Inform, Send, Leave, NackRequeue, Fail, ReadInput, OpenText, WriteText,
           LookForPart, WaitForParts, MakeList, StartJoin, FinishJoin
  <2> QED
    BY <2>1, <2>2, <2>3
<1>2. ASSUME StageSteps("Join") PROVE Moves
  <2> USE DEF TypeOK, Consumers, Synthesis, Stages, Goto, Succeeds
  <2>1. CASE Deliver("Join") \/ Fail("Join")
    BY <2>1, FirstStepFacts DEF Deliver, Fail
  <2>2. CASE Leave("Join") \/ NackRequeue("Join")
    BY <2>2 DEF Leave, NackRequeue, EndsDelivery
  <2>5. CASE Aside("Join")
    <3>1. pc'["Join"] \notin {"start", "ffmpeg", "complete", "inform"}
      <4> HIDE DEF TypeOK
      <4> QED
        BY <2>5, AsideMoves
    <3> QED
      BY <3>1
  <2>3. CASE SaveStatus("Join") \/ Inform("Join") \/ Send("Join")
    <3>1. pc["Join"] # "send"
      BY DEF StepsInv, StepsOfStages, JoinAt, Ends
    <3>2. /\ pc["Join"] \in {"save", "complete", "inform"}
          /\ pc' = [pc EXCEPT !["Join"] = After["Join"][pc["Join"]]]
      BY <2>3, <3>1 DEF SaveStatus, Inform, Send
    <3>3. After["Join"]["save"] = "list" /\ After["Join"]["complete"] = "inform"
          /\ After["Join"]["inform"] = "ack"
      BY AfterFacts
    <3>4. pc'["Join"] = After["Join"][pc["Join"]]
      BY <3>2
    <3> QED
      BY <3>2, <3>3, <3>4
  <2>4. CASE MakeList \/ StartJoin \/ FinishJoin
    <3>1. CASE MakeList
      BY <3>1, AfterFacts DEF MakeList
    <3>2. CASE StartJoin
      BY <3>2, AfterFacts DEF StartJoin
    <3>3. CASE FinishJoin
      BY <3>3, AfterFacts DEF FinishJoin
    <3> QED
      BY <2>4, <3>1, <3>2, <3>3
  <2> HIDE DEF Moves
  <2> QED
    BY <1>2, <2>1, <2>2, <2>3, <2>4, <2>5, StageCases
<1>3. ASSUME NEW s \in Consumers, s # "Join", StageSteps(s) PROVE Moves
  <2>1. pc'["Join"] = pc["Join"] /\ at'["Join"] = at["Join"]
    BY <1>3, OwnStage DEF Consumers, Synthesis, Stages
  <2> QED
    BY <2>1
<1>4. ASSUME NEW p \in Parts, PartStep(p) \/ FailPart(p) PROVE UNCHANGED rows /\ Moves
  <2>1. /\ UNCHANGED <<rows, at>>
        /\ pc'["Join"] = pc["Join"]
    BY <1>4
       DEF PartStep, OpenAudio, WriteAudio, FailPart, Goto, stages, TypeOK, Consumers,
           Synthesis, Stages
  <2> QED
    BY <2>1
<1> QED
  BY <1>1, <1>2, <1>3, <1>4 DEF WorkStep

-----------------------------------------------------------------------------
(* What a client that waits may rely on until the task is deleted.          *)

Finishing ==
    \/ rows["status"] = "COMPLETED"
    \/ pc["Join"] \in {"ffmpeg", "complete", "inform"}
    \/ client # "waiting"

KeptInv ==
    "deleted" \notin marks =>
        /\ rows["requests"] # "none"
        /\ Finishing => files[Result] # "none"
        /\ got \notin {"refused", "error"}

LEMMA NextKept ==
    ASSUME TypeOK, StepsInv, DeletedInv, KeptInv, [Next]_vars PROVE KeptInv'
<1> SUFFICES ASSUME "deleted" \notin marks'
             PROVE  /\ rows'["requests"] # "none"
                    /\ Finishing' => files'[Result] # "none"
                    /\ got' \notin {"refused", "error"}
  BY DEF KeptInv
<1>1. marks \subseteq marks'
  BY NextCases, WorkMarks, CrashKeepsRest, StartCleanEffect, CleanerEffect, ClientEffect
<1>2. /\ job = 0 /\ rows["requests"] # "none"
      /\ Finishing => files[Result] # "none"
      /\ got \notin {"refused", "error"}
  BY <1>1 DEF KeptInv, DeletedInv
<1>3. CASE WorkStep
  <2>1. rows'["requests"] # "none" /\ UNCHANGED <<client, got>>
    BY <1>2, <1>3, WorkKeepsRequest, WorkMarks
  <2>2. CASE StartJoin /\ pc'["Join"] = "ffmpeg"
    <3>1. files' = [files EXCEPT ![Result] = "torn"]
      BY <2>2 DEF StartJoin, Goto, TypeOK, Consumers, Synthesis, Stages
    <3> QED
      BY <1>2, <2>1, <3>1, FileNames
  <2>3. CASE ~(StartJoin /\ pc'["Join"] = "ffmpeg")
    <3>1. Finishing' => Finishing \/ FinishJoin
      BY <1>3, <2>1, <2>3, JoinMoves DEF Finishing
    <3>2. FinishJoin => Finishing
      BY DEF FinishJoin, Finishing
    <3> QED
      BY <1>2, <1>3, <2>1, <3>1, <3>2, FilesWritten, FileNames
  <2> QED
    BY <2>2, <2>3
<1>4. CASE DeathStep
  <2>1. UNCHANGED <<rows, files, client, got>> /\ pc'["Join"] \in {pc["Join"], "idle"}
    BY <1>4, CrashKeepsRest, DeathActive DEF Stages
  <2> QED
    BY <1>2, <2>1 DEF Finishing
<1>5. CASE ClientStep \/ Expire \/ UNCHANGED vars
  <2>1. UNCHANGED <<rows, files, pc>>
    BY <1>5, ClientEffect, OthersKeepStages DEF stages
  <2>2. CASE AskStatus
    BY <1>2, <2>1, <2>2 DEF AskStatus, Finishing
  <2>3. CASE AskResult
    BY <1>2, <2>1, <2>3, RowNames DEF AskResult, Finishing
  <2>4. CASE LoadResult
    BY <1>2, <2>1, <2>4, FileNames DEF LoadResult, Finishing, TypeOK
  <2>5. CASE Expire \/ UNCHANGED vars
    BY <1>2, <2>1, <2>5 DEF Expire, Finishing, vars, elsewhere, reading
  <2> QED
    BY <1>5, <2>2, <2>3, <2>4, <2>5 DEF ClientStep
<1> QED
  BY <1>1, <1>2, <1>3, <1>4, <1>5, NextCases, StartCleanEffect, CleanerEffect

LEMMA KeptAlways == Spec => [](TypeOK /\ StepsInv /\ DeletedInv /\ KeptInv)
<1>1. Init => KeptInv
  BY DEF Init, KeptInv, Finishing, Consumers, Synthesis, Stages
<1>2. TypeOK /\ StepsInv /\ DeletedInv /\ KeptInv /\ [Next]_vars => KeptInv'
  BY NextKept
<1> QED
  BY <1>1, <1>2, DeletionInv, PTL DEF Spec

-----------------------------------------------------------------------------
(* The texts that are there for the stages after Split.                     *)

HasText(p) == files[Text(p)] # "none"

TextsInv ==
    "deleted" \notin marks =>
        /\ pc["Split"] \in {"open", "write", "send", "ack"} =>
               \A p \in Parts : p < at["Split"] => HasText(p)
        /\ pc["Split"] = "write" => HasText(at["Split"])
        /\ Active("Synthesize") \/ Active("Join") => \A p \in Parts : HasText(p)

LEMMA NextTexts ==
    ASSUME TypeOK, StepsInv, DeletedInv, TextsInv, [Next]_vars PROVE TextsInv'
<1> USE DEF HasText
<1> SUFFICES ASSUME "deleted" \notin marks'
             PROVE  /\ pc'["Split"] \in {"open", "write", "send", "ack"} =>
                           \A p \in Parts : p < at'["Split"] => HasText(p)'
                    /\ pc'["Split"] = "write" => HasText(at["Split"])'
                    /\ Active("Synthesize")' \/ Active("Join")' => \A p \in Parts : HasText(p)'
  BY DEF TextsInv
<1>1. marks \subseteq marks'
  BY NextCases, WorkMarks, CrashKeepsRest, StartCleanEffect, CleanerEffect, ClientEffect
<1>2. /\ job = 0
      /\ pc["Split"] \in {"open", "write", "send", "ack"} =>
             \A p \in Parts : p < at["Split"] => HasText(p)
      /\ pc["Split"] = "write" => HasText(at["Split"])
      /\ Active("Synthesize") \/ Active("Join") => \A p \in Parts : HasText(p)
  BY <1>1 DEF TextsInv, DeletedInv
<1>3. CASE WorkStep
  <2>1. \A p \in Parts : HasText(p) => HasText(p)'
    BY <1>3, FilesWritten, FileNames
  <2>2. Active("Synthesize")' \/ Active("Join")' => \A p \in Parts : HasText(p)'
    <3>1. CASE Active("Synthesize") \/ Active("Join") \/ Send("Synthesize")
      <4>1. Send("Synthesize") => Active("Synthesize")
        BY DEF Send, Active
      <4> QED
        BY <1>2, <2>1, <3>1, <4>1
    <3>2. CASE Send("Split")
      <4>1. pc["Split"] = "send" /\ at["Split"] = PartCount
        BY <3>2 DEF Send, StepsInv, LoopOfSplit
      <4>2. \A p \in Parts : p < at["Split"]
        BY <4>1, PartCountAssumption DEF Parts
      <4> QED
        BY <1>2, <2>1, <4>1, <4>2
    <3> QED
      BY <1>3, <3>1, <3>2, ActiveMoves
  <2>3. CASE OpenText
    <3>1. at' = at /\ pc["Split"] = "open"
      BY <2>3 DEF OpenText
    <3>2. ASSUME pc'["Split"] = "write" PROVE HasText(at["Split"])'
      <4>1. at["Split"] < PartCount
        BY <2>3, <3>2, AfterFacts
           DEF OpenText, Succeeds, Goto, TypeOK, Consumers, Synthesis, Stages
      <4>2. at["Split"] \in Parts
        BY <4>1, PartCountAssumption DEF TypeOK, Consumers, Synthesis, Stages, Parts
      <4>3. files' = [files EXCEPT ![Text(at["Split"])] = "torn"]
        BY <2>3, <4>1 DEF OpenText
      <4>4. files'[Text(at["Split"])] = "torn"
        BY <4>2, <4>3, FileNames
      <4> QED
        BY <3>1, <4>4
    <3> QED
      BY <1>2, <2>1, <2>2, <3>1, <3>2
  <2>4. CASE WriteText
    <3>1. /\ pc["Split"] = "write" /\ pc'["Split"] = "open" /\ at'["Split"] = at["Split"] + 1
          /\ at["Split"] \in Nat
      BY <2>4 DEF WriteText, Goto, TypeOK, Consumers, Synthesis, Stages
    <3>2. ASSUME NEW p \in Parts, p < at["Split"] + 1 PROVE HasText(p)
      BY <1>2, <3>1, <3>2 DEF Parts
    <3> QED
      BY <2>1, <2>2, <3>1, <3>2
  <2>5. CASE ReadInput
    <3>1. pc'["Split"] # "write" /\ at' = at /\ at["Split"] = 0
      BY <2>5, AfterFacts
         DEF ReadInput, Succeeds, Goto, StepsInv, LoopOfSplit, TypeOK, Consumers, Synthesis,
             Stages
    <3> QED
      BY <2>2, <3>1 DEF Parts
  <2>6. CASE Send("Split")
    <3>1. pc["Split"] = "send" /\ pc'["Split"] = "ack" /\ at' = at
      BY <2>6, AfterFacts DEF Send, Succeeds, Goto, TypeOK, Consumers, Synthesis, Stages
    <3> QED
      BY <1>2, <2>1, <2>2, <3>1
  <2>7. CASE ~(OpenText \/ WriteText \/ ReadInput \/ Send("Split"))
    <3>1. \/ pc'["Split"] = pc["Split"] /\ at'["Split"] = at["Split"]
          \/ pc'["Split"] \notin {"open", "write", "send", "ack"}
      <4>0. Aside("Split") => pc'["Split"] \notin {"open", "write", "send", "ack"}
        <5>1. "Split" \in Consumers /\ "Split" \in Stages
          BY DEF Consumers, Synthesis, Stages
        <5> QED
          BY <5>1, AsideMoves
      <4>1. ASSUME StageSteps("Split") PROVE pc'["Split"] \notin {"open", "write", "send", "ack"}
        <5> USE DEF TypeOK, Consumers, Synthesis, Stages, Goto, Succeeds
        <5>1. CASE Deliver("Split") \/ Fail("Split")
          BY <5>1, FirstStepFacts DEF Deliver, Fail
        <5>2. CASE Leave("Split") \/ NackRequeue("Split")
          BY <5>2 DEF Leave, NackRequeue, EndsDelivery
        <5>3. CASE SaveStatus("Split") \/ Inform("Split")
          <6>1. pc["Split"] \notin {"complete", "inform"}
            BY DEF StepsInv, StepsOfStages, SplitAt, Ends
          <6>2. pc["Split"] = "save" /\ pc' = [pc EXCEPT !["Split"] = After["Split"]["save"]]
            BY <5>3, <6>1 DEF SaveStatus, Inform
          <6> QED
            BY <6>2, AfterFacts
        <5> QED
          BY <2>7, <4>0, <4>1, <5>1, <5>2, <5>3, StageCases
      <4>2. ASSUME NEW s \in Consumers, s # "Split", StageSteps(s)
            PROVE  pc'["Split"] = pc["Split"] /\ at'["Split"] = at["Split"]
        BY <4>2, OwnStage DEF Consumers, Synthesis, Stages
      <4>3. ASSUME \E p \in Parts : PartStep(p) \/ FailPart(p)
            PROVE  pc'["Split"] = pc["Split"] /\ at'["Split"] = at["Split"]
        BY <4>3 DEF PartStep, OpenAudio, WriteAudio, FailPart, Goto, stages, TypeOK, Consumers,
                    Synthesis, Stages
      <4> QED
        BY <1>3, <4>1, <4>2, <4>3 DEF WorkStep
    <3>2. pc["Split"] = "write" => at["Split"] \in Parts
      BY PartCountAssumption
         DEF StepsInv, LoopOfSplit, TypeOK, Consumers, Synthesis, Stages, Parts
    <3> QED
      BY <1>2, <2>1, <2>2, <3>1, <3>2
  <2> QED
    BY <2>3, <2>4, <2>5, <2>6, <2>7
<1>4. CASE DeathStep
  <2>1. /\ UNCHANGED files
        /\ Active("Synthesize")' => Active("Synthesize")
        /\ Active("Join")' => Active("Join")
        /\ pc'["Split"] = "idle" \/ (pc'["Split"] = pc["Split"] /\ at'["Split"] = at["Split"])
    BY <1>4, CrashKeepsRest, DeathActive DEF Stages
  <2> QED
    BY <1>2, <2>1
<1>5. CASE ClientStep \/ Expire \/ UNCHANGED vars
  BY <1>2, <1>5, ClientEffect, OthersKeepStages DEF stages, Active
<1> QED
  BY <1>1, <1>2, <1>3, <1>4, <1>5, NextCases, StartCleanEffect, CleanerEffect

LEMMA TextsAlways == Spec => [](TypeOK /\ StepsInv /\ DeletedInv /\ KeptInv /\ TextsInv)
<1>1. Init => TextsInv
  <2> SUFFICES ASSUME Init PROVE TextsInv
    OBVIOUS
  <2>1. /\ \A s \in Consumers : pc[s] = "idle"
        /\ queue["Synthesize"][FALSE] = 0 /\ queue["Synthesize"][TRUE] = 0
        /\ queue["Join"][FALSE] = 0 /\ queue["Join"][TRUE] = 0
    BY DEF Init, Consumers, Synthesis, Stages
  <2>2. ~Active("Synthesize") /\ ~Active("Join")
    BY <2>1 DEF Active, Consumers, Synthesis, Stages
  <2>3. pc["Split"] = "idle"
    BY <2>1 DEF Consumers, Synthesis, Stages
  <2> QED
    BY <2>2, <2>3 DEF TextsInv
<1>2. TypeOK /\ StepsInv /\ DeletedInv /\ TextsInv /\ [Next]_vars => TextsInv'
  BY NextTexts
<1> QED
  BY <1>1, <1>2, KeptAlways, PTL DEF Spec

-----------------------------------------------------------------------------
(* The audio and the result of a task of which nothing was cut, torn or     *)
(* deleted under a stage.                                                    *)

Cut == marks \cap {"cutWrite", "tornRead", "deletedBusy"} # {}
Told == client \in {"told", "asked"}

\* What Do has passed has its audio or a call for it, and a file that is open
\* has a call that writes it.
AudioInv ==
    /\ pc["Synthesize"] \in {"look", "wait", "send", "ack"} =>
           \A p \in Parts : p < at["Synthesize"] => files[Audio(p)] # "none" \/ call[p] # "none"
    /\ pc["Synthesize"] \in {"wait", "send", "ack"} => at["Synthesize"] = PartCount
    /\ \A p \in Parts : files[Audio(p)] = "torn" => call[p] # "none"

\* All audio is there for Join, which puts all of it into the result.
ResultInv ==
    /\ Active("Join") => \A p \in Parts : files[Audio(p)] = "whole"
    /\ pc["Join"] \in {"start", "ffmpeg"} => at["Join"] = PartCount
    /\ pc["Join"] \in {"complete", "inform"} \/ rows["status"] = "COMPLETED" \/ Told =>
           files[Result] = "whole"

\* No word is missing anywhere.
WordsInv ==
    /\ \A p \in Parts : files[Audio(p)] # "short" /\ call[p] # "short"
    /\ files[Result] # "short"
    /\ rows["status"] = "COMPLETED" \/ Told => files[Result] \in {"whole", "none"}
    /\ got \notin {"torn", "short"}

WholeInv ==
    ~Cut => /\ "deleted" \notin marks => AudioInv /\ ResultInv
            /\ WordsInv

LEMMA SynthesizeMoves ==
    ASSUME TypeOK, StepsInv, StageSteps("Synthesize"), ~LookForPart,
           pc'["Synthesize"] \in {"look", "wait", "send", "ack"}
    PROVE  \/ pc'["Synthesize"] = "look" /\ at'["Synthesize"] = 0
           \/ /\ pc["Synthesize"] \in {"wait", "send"} /\ pc'["Synthesize"] \in {"send", "ack"}
              /\ at'["Synthesize"] = at["Synthesize"]
<1> USE DEF TypeOK, Consumers, Synthesis, Stages, Goto, Succeeds
<1>1. ~(Deliver("Synthesize") \/ Fail("Synthesize"))
  BY FirstStepFacts DEF Deliver, Fail
<1>2. ~(Leave("Synthesize") \/ NackRequeue("Synthesize"))
  BY DEF Leave, NackRequeue, EndsDelivery
<1>6. ~Aside("Synthesize")
  <2> HIDE DEF TypeOK
  <2> QED
    BY AsideMoves
<1>3. CASE SaveStatus("Synthesize") \/ Inform("Synthesize")
  <2>1. pc["Synthesize"] = "save" /\ at' = at /\ pc'["Synthesize"] = After["Synthesize"]["save"]
    BY <1>3 DEF SaveStatus, Inform, StepsInv, StepsOfStages, SynthesizeAt, Ends
  <2> QED
    BY <2>1, AfterFacts DEF StepsInv, LoopOfSynthesize
<1>4. CASE Send("Synthesize")
  BY <1>4, AfterFacts DEF Send
<1>5. CASE WaitForParts
  BY <1>5, AfterFacts DEF WaitForParts
<1> QED
  BY <1>1, <1>2, <1>3, <1>4, <1>5, <1>6, StageCases

LEMMA WorkAudio ==
    ASSUME TypeOK, StepsInv, TextsInv, AudioInv, WordsInv, WorkStep,
           "deleted" \notin marks, marks' \cap {"cutWrite", "tornRead"} = {}
    PROVE  /\ AudioInv'
           /\ \A p \in Parts : files'[Audio(p)] # "short" /\ call'[p] # "short"
<1> DEFINE AudioWords == \A p \in Parts : files[Audio(p)] # "short" /\ call[p] # "short"
<1>0. AudioWords
  BY DEF WordsInv
<1>1. CASE LookForPart
  <2> DEFINE p == at["Synthesize"]
  <2>1. /\ pc["Synthesize"] = "look" /\ UNCHANGED files
        /\ p \in 0 .. PartCount /\ (p # PartCount => p \in Parts)
    BY <1>1, PartCountAssumption DEF LookForPart, TypeOK, Consumers, Synthesis, Stages, Parts
  <2>2. p # PartCount => files[Text(p)] # "none"
    BY <2>1 DEF TextsInv, Active, HasText
  <2>3. CASE p = PartCount
    <3>1. UNCHANGED <<at, call>>
      BY <1>1, <2>3 DEF LookForPart
    <3> QED
      BY <1>0, <2>1, <2>3, <3>1 DEF AudioInv
  <2>4. CASE p # PartCount
    <3>1. /\ at'["Synthesize"] = p + 1 /\ pc'["Synthesize"] = "look"
          /\ files[Audio(p)] # "none" => UNCHANGED call
          /\ files[Audio(p)] = "none" =>
                 call' = [call EXCEPT ![p] = "whole"]
                 \/ "tornRead" \in marks'
      BY <1>1, <2>1, <2>2, <2>4 DEF LookForPart, TypeOK, Consumers, Synthesis, Stages
    <3>2. /\ \A q \in Parts : q # p => call'[q] = call[q]
          /\ files[Audio(p)] # "none" \/ call'[p] # "none"
          /\ call'[p] \in {call[p], "whole"}
      BY <2>1, <2>4, <3>1 DEF TypeOK
    <3>3. \A q \in Parts : q < p + 1 => q < p \/ q = p
      BY <2>1 DEF Parts
    <3>4. \A q \in Parts : files[Audio(q)] = "torn" => call'[q] # "none"
      BY <3>2 DEF AudioInv
    <3> QED
      BY <1>0, <2>1, <3>1, <3>2, <3>3, <3>4 DEF AudioInv
  <2> QED
    BY <2>3, <2>4
<1>2. ASSUME NEW p \in Parts, OpenAudio(p) PROVE AudioInv' /\ AudioWords'
  <2>1. /\ UNCHANGED <<pc, at, call>> /\ call[p] # "none"
        /\ files' = [files EXCEPT ![Audio(p)] = "torn"]
    BY <1>2 DEF OpenAudio, stages
  <2>2. \A q \in Parts : files'[Audio(q)] = IF q = p THEN "torn" ELSE files[Audio(q)]
    BY <2>1, FileFacts, FileNames
  <2> QED
    BY <1>0, <2>1, <2>2 DEF AudioInv
<1>3. ASSUME NEW p \in Parts, WriteAudio(p) PROVE AudioInv' /\ AudioWords'
  <2>1. /\ UNCHANGED <<pc, at>> /\ call[p] # "none"
        /\ files' = [files EXCEPT ![Audio(p)] = call[p]]
        /\ call' = [call EXCEPT ![p] = "none"]
    BY <1>3 DEF WriteAudio
  <2>2. call[p] = "whole"
    BY <1>0, <2>1 DEF TypeOK
  <2>3. \A q \in Parts : files'[Audio(q)] = IF q = p THEN "whole" ELSE files[Audio(q)]
    BY <2>1, <2>2, FileFacts, FileNames
  <2>4. \A q \in Parts : call'[q] = IF q = p THEN "none" ELSE call[q]
    BY <2>1 DEF TypeOK
  <2> QED
    BY <1>0, <2>1, <2>3, <2>4 DEF AudioInv
<1>4. ASSUME NEW p \in Parts, FailPart(p) PROVE AudioInv' /\ AudioWords'
  <2>1. /\ UNCHANGED <<files, at>> /\ pc'["Synthesize"] = "failing"
        /\ call' = [call EXCEPT ![p] = "none"]
        /\ CutWrites({p}) \subseteq marks' /\ call[p] # "none"
    BY <1>4 DEF FailPart, Goto, TypeOK, Consumers, Synthesis, Stages
  <2>2. files[Audio(p)] # "torn"
    BY <2>1 DEF CutWrites
  <2>3. \A q \in Parts : call'[q] = IF q = p THEN "none" ELSE call[q]
    BY <2>1 DEF TypeOK
  <2> QED
    BY <1>0, <2>1, <2>2, <2>3 DEF AudioInv
<1>5. CASE /\ ~LookForPart /\ \A p \in Parts : ~PartStep(p)
           /\ \E s \in Consumers : StageSteps(s)
  <2>1. UNCHANGED call /\ \A p \in Parts : files'[Audio(p)] = files[Audio(p)]
    BY <1>5, FilesKept, FilesWritten DEF WorkStep
  <2>2. AudioWords'
    BY <1>0, <2>1
  <2>3. CASE StageSteps("Synthesize")
    <3>1. CASE pc'["Synthesize"] \in {"look", "wait", "send", "ack"}
      <4>1. CASE pc'["Synthesize"] = "look" /\ at'["Synthesize"] = 0
        <5>1. \A p \in Parts : ~(p < at'["Synthesize"])
          BY <4>1, PartCountAssumption DEF Parts
        <5>2. pc'["Synthesize"] \notin {"wait", "send", "ack"}
          BY <4>1
        <5>3. \A p \in Parts : files'[Audio(p)] = "torn" => call'[p] # "none"
          BY <2>1 DEF AudioInv
        <5> QED
          BY <2>2, <5>1, <5>2, <5>3 DEF AudioInv
      <4>2. CASE /\ pc["Synthesize"] \in {"wait", "send"} /\ pc'["Synthesize"] \in {"send", "ack"}
                 /\ at'["Synthesize"] = at["Synthesize"]
        <5>1. /\ \A p \in Parts : p < at["Synthesize"] =>
                     files[Audio(p)] # "none" \/ call[p] # "none"
              /\ at["Synthesize"] = PartCount
          BY <4>2 DEF AudioInv
        <5>2. \A p \in Parts : p < at'["Synthesize"] =>
                  files'[Audio(p)] # "none" \/ call'[p] # "none"
          BY <2>1, <4>2, <5>1
        <5>3. \A p \in Parts : files'[Audio(p)] = "torn" => call'[p] # "none"
          BY <2>1 DEF AudioInv
        <5> QED
          BY <2>2, <4>2, <5>1, <5>2, <5>3 DEF AudioInv
      <4>3. AudioInv'
        BY <1>5, <2>3, <3>1, <4>1, <4>2, SynthesizeMoves
      <4> QED
        BY <2>2, <4>3
    <3>2. CASE pc'["Synthesize"] \notin {"look", "wait", "send", "ack"}
      BY <2>1, <2>2, <3>2 DEF AudioInv
    <3> QED
      BY <3>1, <3>2
  <2>4. CASE \E s \in Consumers \ {"Synthesize"} : StageSteps(s)
    <3>1. pc'["Synthesize"] = pc["Synthesize"] /\ at'["Synthesize"] = at["Synthesize"]
      BY <2>4, OwnStage DEF Consumers, Synthesis, Stages
    <3> QED
      BY <2>1, <2>2, <3>1 DEF AudioInv
  <2> QED
    BY <1>5, <2>3, <2>4
<1> QED
  BY <1>1, <1>2, <1>3, <1>4, <1>5 DEF WorkStep, PartStep

\* The audio of a part stays whole.
LEMMA WholeStays ==
    ASSUME TypeOK, StepsInv, WorkStep, NEW q \in Parts, files[Audio(q)] = "whole"
    PROVE  files'[Audio(q)] = "whole"
<1>1. ASSUME NEW p \in Parts, PartStep(p) PROVE files'[Audio(q)] = "whole"
  <2>1. \A f \in DOMAIN files : files'[f] = files[f] \/ (f = Audio(p) /\ files[f] \in {"none", "torn"})
    BY <1>1 DEF PartStep, OpenAudio, WriteAudio, TypeOK
  <2> QED
    BY <2>1, FileNames
<1>2. CASE \A p \in Parts : ~PartStep(p)
  BY <1>2, FilesWritten
<1> QED
  BY <1>1, <1>2

LEMMA WorkResult ==
    ASSUME TypeOK, StepsInv, KeptInv, AudioInv, ResultInv, WordsInv, WorkStep,
           "deleted" \notin marks
    PROVE  ResultInv' /\ files'[Result] # "short"
<1>1. Active("Join")' => \A p \in Parts : files'[Audio(p)] = "whole"
  <2>1. CASE Active("Join")
    BY <2>1, WholeStays DEF ResultInv
  <2>2. CASE Send("Synthesize")
    <3>1. pc["Synthesize"] = "send"
      BY <2>2 DEF Send
    <3>2. \A p \in Parts : call[p] = "none"
      BY <3>1 DEF StepsInv, LoopOfSynthesize
    <3>3. \A p \in Parts : p < at["Synthesize"]
      BY <3>1, PartCountAssumption DEF AudioInv, Parts
    <3>4. \A p \in Parts : files[Audio(p)] \notin {"none", "torn", "short"}
      BY <3>1, <3>2, <3>3 DEF AudioInv, WordsInv
    <3>5. \A p \in Parts : files[Audio(p)] = "whole"
      BY <3>4, FileFacts DEF TypeOK
    <3> QED
      BY <3>5, WholeStays
  <2> QED
    BY <2>1, <2>2, ActiveMoves
<1>2. pc'["Join"] \in {"start", "ffmpeg"} => at'["Join"] = PartCount
  <2>1. CASE MakeList
    <3>1. \A p \in Parts : files[Audio(p)] = "whole"
      BY <2>1 DEF MakeList, ResultInv, Active
    <3>2. FirstMissing = PartCount
      <4>1. FirstMissing < PartCount => FirstMissing \in Parts
        BY FirstMissingFacts, PartCountAssumption DEF Parts
      <4> QED
        BY <3>1, <4>1, FirstMissingFacts, PartCountAssumption
    <3> QED
      BY <2>1, <3>2 DEF MakeList, TypeOK, Consumers, Synthesis, Stages
  <2>2. CASE StartJoin
    BY <2>2 DEF StartJoin, ResultInv
  <2>3. CASE ~MakeList /\ ~StartJoin
    BY <2>3, JoinMoves DEF ResultInv
  <2> QED
    BY <2>1, <2>2, <2>3
<1>3. FinishJoin => files'[Result] = "whole"
  <2> SUFFICES ASSUME FinishJoin PROVE files'[Result] = "whole"
    OBVIOUS
  <2>1. pc["Join"] = "ffmpeg" /\ at["Join"] = PartCount
    BY DEF FinishJoin, ResultInv
  <2>2. Listed = {"whole"}
    <3>1. \A p \in Parts : files[Audio(p)] = "whole"
      BY <2>1 DEF ResultInv, Active
    <3>2. 0 \in Parts
      BY PartCountAssumption DEF Parts
    <3> QED
      BY <2>1, <3>1, <3>2 DEF Listed, Parts
  <2>3. files[Result] # "none"
    BY <2>1 DEF KeptInv, Finishing
  <2>4. files' = [files EXCEPT ![Result] = "whole"]
    BY <2>1, <2>2, <2>3, FileNames DEF FinishJoin, Written
  <2> QED
    BY <2>4, FileNames
<1>4. StartJoin => files'[Result] = files[Result] \/ files[Result] = "none"
  BY DEF StartJoin
<1>5. files'[Result] # "short"
  <2>1. StartJoin => files'[Result] \in {"torn", files[Result]}
    BY FileNames DEF StartJoin
  <2> QED
    BY <1>3, <2>1, FilesWritten DEF WordsInv
<1>6. ASSUME pc'["Join"] \in {"complete", "inform"} \/ rows'["status"] = "COMPLETED" \/ Told'
      PROVE  files'[Result] = "whole"
  <2>1. CASE FinishJoin
    BY <1>3, <2>1
  <2>2. CASE ~FinishJoin
    <3>1. pc["Join"] \in {"complete", "inform"} \/ rows["status"] = "COMPLETED" \/ Told
      BY <1>6, <2>2, JoinMoves, WorkMarks DEF Told
    <3>2. files[Result] = "whole"
      BY <3>1 DEF ResultInv
    <3> QED
      BY <1>4, <2>2, <3>2, FilesWritten
  <2> QED
    BY <2>1, <2>2
<1> QED
  BY <1>1, <1>2, <1>5, <1>6 DEF ResultInv

LEMMA NextWhole ==
    ASSUME TypeOK, StepsInv, DeletedInv, KeptInv, TextsInv, WholeInv, [Next]_vars PROVE WholeInv'
<1> SUFFICES ASSUME ~Cut'
             PROVE  ("deleted" \notin marks' => AudioInv' /\ ResultInv') /\ WordsInv'
  BY DEF WholeInv
<1>1. marks \subseteq marks' /\ marks' \cap {"cutWrite", "tornRead", "deletedBusy"} = {}
  BY NextCases, WorkMarks, CrashKeepsRest, StartCleanEffect, CleanerEffect, ClientEffect DEF Cut
<1>2. ("deleted" \notin marks => AudioInv /\ ResultInv) /\ WordsInv
  BY <1>1 DEF WholeInv, Cut
<1>3. \A f \in {"none", "torn", "short", "whole"} : f \notin {"refused", "error"}
  OBVIOUS
<1>4. ASSUME ClientStep \/ Expire \/ UNCHANGED vars
      PROVE  /\ UNCHANGED <<rows, files, marks, stages>>
             /\ Told' => Told \/ rows["status"] = "COMPLETED"
             /\ got' \notin {"torn", "short"}
  <2>1. UNCHANGED <<rows, files, marks, stages>>
    BY <1>4, ClientEffect, OthersKeepStages
  <2>2. CASE AskStatus \/ AskResult \/ LoadResult
    BY <1>2, <2>2 DEF AskStatus, AskResult, LoadResult, Told, WordsInv
  <2>3. CASE Expire \/ UNCHANGED vars
    BY <1>2, <2>3 DEF Expire, vars, elsewhere, reading, Told, WordsInv
  <2> QED
    BY <1>4, <2>1, <2>2, <2>3 DEF ClientStep
<1>5. CASE "deleted" \in marks
  <2>1. /\ StartClean \/ CleanerStep \/ ClientStep \/ DeathStep \/ Expire \/ UNCHANGED vars
        /\ \A f \in DOMAIN files : files'[f] \in {files[f], "none"}
        /\ \A t \in DOMAIN rows : rows'[t] \in {rows[t], "none"}
    BY <1>1, <1>5, DeletedOnlyGoes
  <2>2. \A p \in Parts : files'[Audio(p)] # "short" /\ call'[p] # "short"
    <3>1. \A p \in Parts : call'[p] \in {call[p], "none"}
      BY <2>1, OthersKeepStages, DeathActive DEF stages
    <3> QED
      BY <1>2, <2>1, <3>1, FileNames DEF WordsInv
  <2>3. /\ rows'["status"] = "COMPLETED" \/ Told' => rows["status"] = "COMPLETED" \/ Told
        /\ got' \notin {"torn", "short"}
    <3>1. rows'["status"] = "COMPLETED" => rows["status"] = "COMPLETED"
      BY <2>1, RowNames
    <3>2. CASE StartClean \/ CleanerStep \/ DeathStep
      BY <1>2, <3>1, <3>2, StartCleanEffect, CleanerEffect, CrashKeepsRest DEF Told, WordsInv
    <3>3. CASE ClientStep \/ Expire \/ UNCHANGED vars
      BY <1>4, <3>1, <3>3
    <3> QED
      BY <2>1, <3>2, <3>3
  <2>4. files'[Result] \in {files[Result], "none"}
    BY <2>1, FileNames
  <2> QED
    BY <1>1, <1>2, <1>5, <2>2, <2>3, <2>4 DEF WordsInv
<1>6. CASE "deleted" \notin marks
  <2>1. AudioInv /\ ResultInv /\ WordsInv /\ job = 0
    BY <1>2, <1>6 DEF DeletedInv
  <2>2. CASE WorkStep
    <3>1. AudioInv' /\ \A p \in Parts : files'[Audio(p)] # "short" /\ call'[p] # "short"
      BY <1>1, <1>6, <2>1, <2>2, WorkAudio
    <3>2. ResultInv' /\ files'[Result] # "short"
      BY <1>6, <2>1, <2>2, WorkResult
    <3>3. got' \notin {"torn", "short"}
      BY <2>1, <2>2, WorkMarks DEF WordsInv
    <3>4. rows'["status"] = "COMPLETED" \/ Told' => files'[Result] = "whole"
      BY <3>2 DEF ResultInv
    <3> QED
      BY <3>1, <3>2, <3>3, <3>4 DEF WordsInv
  <2>3. CASE Crash
    <3>1. /\ UNCHANGED <<rows, files, client, got>>
          /\ \A s \in Stages : pc'[s] = "idle"
          /\ \A p \in Parts : call'[p] = "none"
          /\ Active("Join")' => Active("Join")
      <4>1. DeathStep
        BY <2>3 DEF DeathStep
      <4>2. \A s \in Stages : s \in Consumers /\ s \in Synthesis
        BY DEF Consumers, Synthesis
      <4>3. (\A s \in Stages : pc'[s] = "idle") /\ \A p \in Parts : call'[p] = "none"
        BY <2>3, <4>2 DEF Crash, Dies
      <4> QED
        BY <4>1, <4>3, CrashKeepsRest, DeathActive DEF Stages
    <3>2. \A p \in Parts : files[Audio(p)] # "torn"
      <4>1. CutWrites(Parts) \subseteq marks'
        BY <2>3 DEF Crash
      <4>2. "cutWrite" \notin CutWrites(Parts)
        BY <1>1, <4>1
      <4> QED
        BY <2>1, <4>2 DEF CutWrites, AudioInv
    <3>3. WordsInv'
      BY <2>1, <3>1 DEF WordsInv, Told
    <3> QED
      BY <2>1, <3>1, <3>2, <3>3 DEF AudioInv, ResultInv, Told, Stages
  <2>6. CASE InformCrash
    <3>1. /\ UNCHANGED <<rows, files, call, client, got>>
          /\ \A s \in Stages : queue'[s] = queue[s] /\ pc'[s] = pc[s] /\ at'[s] = at[s]
      BY <2>6, InformCrashEffect
    <3>2. /\ pc'["Synthesize"] = pc["Synthesize"] /\ at'["Synthesize"] = at["Synthesize"]
          /\ pc'["Join"] = pc["Join"] /\ at'["Join"] = at["Join"]
          /\ queue'["Join"] = queue["Join"]
      BY <3>1 DEF Stages
    <3>3. AudioInv'
      BY <2>1, <3>1, <3>2 DEF AudioInv
    <3>4. ResultInv'
      BY <2>1, <3>1, <3>2 DEF ResultInv, Active, Told
    <3>5. WordsInv'
      BY <2>1, <3>1 DEF WordsInv, Told
    <3> QED
      BY <3>3, <3>4, <3>5
  <2>4. CASE StartClean
    <3>1. UNCHANGED <<rows, files, client, got, call>> /\ "deleted" \in marks'
      BY <2>4, StartCleanEffect, OthersKeepStages DEF stages
    <3> QED
      BY <2>1, <3>1 DEF WordsInv, Told
  <2>5. CASE ClientStep \/ Expire \/ UNCHANGED vars
    <3>1. AudioInv'
      BY <1>4, <2>1, <2>5 DEF AudioInv, stages
    <3>2. ResultInv'
      BY <1>4, <2>1, <2>5 DEF ResultInv, stages, Active
    <3>3. WordsInv'
      BY <1>4, <2>1, <2>5, <3>2 DEF WordsInv, ResultInv, stages
    <3> QED
      BY <3>1, <3>2, <3>3
  <2> QED
    BY <2>1, <2>2, <2>3, <2>4, <2>5, <2>6, NextCases, CleanerEffect DEF DeathStep
<1> QED
  BY <1>5, <1>6

\* A client that waits for COMPLETED gets the whole audio, and nothing else,
\* until the task is deleted; and a piece of it only if the task was deleted
\* while a stage worked on it, or the write or the read of a part was cut: the
\* audio of every part is there, and whole, before Join has a message.
THEOREM ToldWhole == Spec => []ToldGetsWhole
<1>1. Init => WholeInv
  <2> SUFFICES ASSUME Init PROVE WholeInv
    OBVIOUS
  <2>1. /\ \A s \in Consumers : pc[s] = "idle"
        /\ queue["Join"][FALSE] = 0 /\ queue["Join"][TRUE] = 0
        /\ rows["status"] = "working" /\ client = "waiting" /\ got = "none"
    BY DEF Init, Consumers, Synthesis, Stages
  <2>2. /\ \A p \in Parts : files[Audio(p)] = "none" /\ call[p] = "none"
        /\ files[Result] = "none"
    BY FileFacts DEF Init
  <2>3. pc["Synthesize"] = "idle" /\ pc["Join"] = "idle" /\ ~Active("Join")
    BY <2>1 DEF Active, Consumers, Synthesis, Stages
  <2> QED
    BY <2>1, <2>2, <2>3 DEF WholeInv, AudioInv, ResultInv, WordsInv, Told
<1>2. TypeOK /\ StepsInv /\ DeletedInv /\ KeptInv /\ TextsInv /\ WholeInv /\ [Next]_vars => WholeInv'
  BY NextWhole
<1>3. KeptInv /\ WholeInv => ToldGetsWhole
  BY DEF KeptInv, WholeInv, WordsInv, Cut, ToldGetsWhole
<1> QED
  BY <1>1, <1>2, <1>3, TextsAlways, PTL DEF Spec
==============================================================================
