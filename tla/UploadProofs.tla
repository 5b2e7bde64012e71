----------------------------- MODULE UploadProofs -----------------------------
(***************************************************************************)
(* Proofs about Upload, for all voices and speeds.  Inv says what is stored *)
(* before each step of the handler; the properties follow from it and from *)
(* what the parameters of a request that is not refused can be.            *)
(***************************************************************************)
EXTENDS Upload, TLAPS

Started == {"file", "request", "status", "send", "answer"}

Inv ==
    /\ data # NoRow => data = ReqData(form) /\ ~Refused(form)
    /\ pc = "configure" => data = NoRow
    /\ pc \in Started => data # NoRow
    /\ pc \in {"configure", "file", "request"} => request = NoRow
    /\ pc \in {"configure", "file"} => file = "none"
    /\ pc \in {"configure", "file", "request", "status"} => status = "none"
    /\ pc \in {"request", "status", "send"} => file = "whole"
    /\ pc \in {"status", "send"} => request = data
    /\ pc = "send" => status = "UPLOADED"
    /\ pc \in Started \ {"answer"} => msg = NoRow
    /\ pc = "answer" => msg # NoRow
    /\ request # NoRow => request = data
    /\ status # "none" => request # NoRow
    /\ msg # NoRow => /\ msg = data /\ request = data
                      /\ file = "whole" /\ status = "UPLOADED"
                      /\ data.speed.kind # "NaN"
    /\ pc # "done" => answer = "none"
    /\ answer = "200" => msg # NoRow
    /\ answer = "400" => file = "none" /\ request = NoRow

-----------------------------------------------------------------------------
(* The parameters. *)

\* getBool says yes or no.
LEMMA GetBoolType == ASSUME NEW s PROVE getBool(s) \in BOOLEAN
BY DEF getBool

\* What Configure makes of a request it does not refuse has the types of a row.
LEMMA ReqDataType ==
    ASSUME NEW f \in Forms, default \in {"", "mp3"}, ~Refused(f)
    PROVE  ReqData(f) \in Data
<1>1. FormatTaken(f) \in {"", "mp3", "m4a"}
  BY DEF Refused, KnownFormat, FormatTaken
<1>2. AllowCollect(f.saveRequest, f.collect) \in BOOLEAN
  <2>1. CASE ByRequest(f.collect)
    BY <2>1, GetBoolType DEF AllowCollect
  <2>2. CASE ~ByRequest(f.collect)
    BY <2>2 DEF AllowCollect
  <2> QED
    BY <2>1, <2>2
<1>3. SpeedTaken(f.speed) \in SpeedTexts \cup {Normal}
  BY DEF Forms, SpeedTaken
<1>4. VoiceTaken(f.voice) \in Voices
  BY VoicesAssumption DEF Refused, KnownVoice, VoiceTaken
<1> QED
  BY <1>1, <1>2, <1>3, <1>4 DEF ReqData, Data

\* A row is told from no row by its field has.
LEMMA HasRow ==
    /\ NoRow.has = FALSE
    /\ NoRow \notin Data
    /\ \A d \in Data : d.has = TRUE
BY DEF NoRow, Data

-----------------------------------------------------------------------------
(* Type correctness. *)

\* The variables of the handler keep their types.
THEOREM TypeCorrect == Spec => []TypeOK
<1>1. Init => TypeOK
  BY DEF Init, TypeOK
<1>2. TypeOK /\ [Next]_vars => TypeOK'
  <2> SUFFICES ASSUME TypeOK, [Next]_vars PROVE TypeOK'
    OBVIOUS
  <2> USE DEF TypeOK
  <2>1. CASE Configure
    BY <2>1, ReqDataType DEF Configure, Answer
  <2>2. CASE CannotOpen
    BY <2>2 DEF CannotOpen, Answer
  <2>3. CASE SaveFile
    BY <2>3 DEF SaveFile, Then
  <2>4. CASE SaveRequest
    BY <2>4 DEF SaveRequest, Then
  <2>5. CASE SaveStatus
    BY <2>5 DEF SaveStatus, Then
  <2>6. CASE Send
    BY <2>6 DEF Send, Then, Answer
  <2>7. CASE Reply
    BY <2>7 DEF Reply, Answer
  <2>8. CASE CallFails
    BY <2>8 DEF CallFails, Answer
  <2>9. CASE Crash
    BY <2>9 DEF Crash, Answer
  <2>10. CASE UNCHANGED vars
    BY <2>10 DEF vars
  <2> QED
    BY <2>1, <2>2, <2>3, <2>4, <2>5, <2>6, <2>7, <2>8, <2>9, <2>10 DEF Next, Returned
<1> QED
  BY <1>1, <1>2, PTL DEF Spec

-----------------------------------------------------------------------------
(* The invariant. *)

LEMMA InvInductive == TypeOK /\ Inv /\ [Next]_vars => Inv'
<1> SUFFICES ASSUME TypeOK, Inv, [Next]_vars PROVE Inv'
  OBVIOUS
<1>1. CASE Configure
  <2>1. CASE pc' = "done"
    <3>1. data' = data /\ data = NoRow
      BY <1>1, <2>1 DEF Configure, Answer, Inv
    <3> QED
      BY <1>1, <2>1, <3>1 DEF Configure, Answer, Inv, Started
  <2>2. CASE pc' = "file"
    <3>1. ~Refused(form) /\ data' = ReqData(form) /\ form' = form /\ default' = default
      BY <1>1, <2>2 DEF Configure, Answer
    <3>2. data' # NoRow
      BY <3>1, ReqDataType, HasRow DEF TypeOK
    <3>3. data' = ReqData(form)' /\ ~Refused(form)'
      BY <3>1 DEF ReqData, Refused, FormatTaken, FormatAsked, KnownFormat, VoiceTaken,
                  KnownVoice, SpeedTaken, SpeedRefused, AllowCollect, CollectRefused
    <3>4. UNCHANGED <<file, request, status, msg, answer>> /\ pc = "configure"
      BY <1>1, <2>2 DEF Configure, Answer
    <3> QED
      BY <2>2, <3>2, <3>3, <3>4 DEF Inv, Started
  <2> QED
    BY <1>1, <2>1, <2>2 DEF Configure, Answer
<1>2. CASE UNCHANGED <<form, default, data>>
  <2>1. data' # NoRow => data' = ReqData(form)' /\ ~Refused(form)'
    BY <1>2 DEF Inv, ReqData, Refused, FormatTaken, FormatAsked, KnownFormat, VoiceTaken,
                KnownVoice, SpeedTaken, SpeedRefused, AllowCollect, CollectRefused
  <2>2. CASE CannotOpen
    BY <1>2, <2>1, <2>2 DEF CannotOpen, Answer, Inv, Started
  <2>3. CASE SaveFile
    BY <1>2, <2>1, <2>3 DEF SaveFile, Then, Inv, Started
  <2>4. CASE SaveRequest
    BY <1>2, <2>1, <2>4 DEF SaveRequest, Then, Inv, Started
  <2>5. CASE SaveStatus
    BY <1>2, <2>1, <2>5 DEF SaveStatus, Then, Inv, Started
  <2>6. CASE Send
    BY <1>2, <2>1, <2>6 DEF Send, Then, Answer, Encodable, Inv, Started
  <2>7. CASE Reply
    BY <1>2, <2>1, <2>7 DEF Reply, Answer, Inv, Started
  <2>8. CASE CallFails
    BY <1>2, <2>1, <2>8 DEF CallFails, Answer, Inv, Started
  <2>9. CASE Crash
    BY <1>2, <2>1, <2>9 DEF Crash, Answer, Inv, Started
  <2>10. CASE UNCHANGED vars
    BY <1>2, <2>1, <2>10 DEF vars, Inv, Started
  <2>11. CASE Configure
    BY <1>1, <2>11
  <2> QED
    BY <2>2, <2>3, <2>4, <2>5, <2>6, <2>7, <2>8, <2>9, <2>10, <2>11 DEF Next, Returned
<1> QED
  BY <1>1, <1>2 DEF Next, Returned, vars, CannotOpen, SaveFile, SaveRequest, SaveStatus,
                    Send, Reply, CallFails, Crash

\* What is stored before each step, in every state.
THEOREM Invariant == Spec => [](TypeOK /\ Inv)
<1>1. Init => Inv
  BY DEF Init, Inv, Started
<1> QED
  BY <1>1, TypeCorrect, InvInductive, PTL DEF Spec

-----------------------------------------------------------------------------
(* The properties. *)

\* A text is kept only with consent, and what client and key insist on is done
\* or refused.
THEOREM ConsentHonouredHolds == Spec => []ConsentHonoured
<1>1. TypeOK /\ Inv => ConsentHonoured
  <2> SUFFICES ASSUME TypeOK, Inv, NEW d \in {request, msg}, d.has
               PROVE  IF d.saveRequest
                      THEN /\ form.collect # "never"
                           /\ \/ form.saveRequest \in {"true", "1"}
                              \/ form.saveRequest = "" /\ form.collect = "always"
                      ELSE /\ form.collect # "always"
                           /\ form.saveRequest \notin {"true", "1"}
    BY DEF ConsentHonoured
  <2>1. d = ReqData(form) /\ ~Refused(form)
    BY HasRow DEF Inv
  <2>2. d.saveRequest = AllowCollect(form.saveRequest, form.collect)
    BY <2>1 DEF ReqData
  <2>3. ~CollectRefused(form.saveRequest, form.collect)
    BY <2>1 DEF Refused
  <2>4. form.collect \in {"", "request", "always", "never", "other"}
        /\ form.saveRequest \in {"", "true", "1", "yes"}
    BY DEF TypeOK, Forms
  <2> QED
    BY <2>2, <2>3, <2>4 DEF AllowCollect, CollectRefused, getBool, Said, ByRequest
<1> QED
  BY <1>1, Invariant, PTL

\* A message is sent when text, request and status are stored, and says what
\* the row says.
THEOREM SentIsStoredHolds == Spec => []SentIsStored
<1>1. TypeOK /\ Inv => SentIsStored
  BY HasRow DEF TypeOK, Inv, SentIsStored
<1> QED
  BY <1>1, Invariant, PTL

\* What a failed upload leaves, but for its text, has the row the timer looks
\* for.
THEOREM LeftoverIsFoundHolds == Spec => []LeftoverIsFound
<1>1. TypeOK /\ Inv => LeftoverIsFound
  BY HasRow DEF TypeOK, Inv, LeftoverIsFound
<1> QED
  BY <1>1, Invariant, PTL

\* A speed that is sent is zero, almost, or in range.
THEOREM SentSpeedIsUsableHolds == Spec => []SentSpeedIsUsable
<1>1. TypeOK /\ Inv => SentSpeedIsUsable
  <2> SUFFICES ASSUME TypeOK, Inv, msg.has
               PROVE  /\ msg.speed.kind = "number"
                      /\ \/ -10 < msg.speed.value /\ msg.speed.value < 1
                         \/ Slowest <= msg.speed.value /\ msg.speed.value <= Fastest
    BY DEF SentSpeedIsUsable
  <2>1. msg = ReqData(form) /\ ~Refused(form) /\ msg.speed.kind # "NaN"
    BY HasRow DEF Inv
  <2>2. msg.speed = SpeedTaken(form.speed) /\ ~SpeedRefused(form.speed)
    BY <2>1 DEF ReqData, Refused
  <2>3. form.speed \in SpeedTexts
    BY DEF TypeOK, Forms
  <2>4. CASE form.speed.kind = "empty"
    <3>1. msg.speed = [kind |-> "number", value |-> 1000000]
      BY <2>2, <2>4 DEF SpeedTaken, Normal, Number
    <3>2. Slowest <= 1000000 /\ 1000000 <= Fastest
      BY SMT DEF Slowest, Fastest
    <3> QED
      BY <3>1, <3>2, SMT
  <2>5. CASE form.speed.kind # "empty"
    <3>1. msg.speed = form.speed /\ form.speed.kind \notin {"empty", "text", "NaN"}
      BY <2>1, <2>2, <2>5 DEF SpeedTaken, SpeedRefused
    <3>2. PICK v \in Speeds : form.speed = Number(v)
      BY <2>3, <3>1 DEF SpeedTexts
    <3>3. v \in Int /\ form.speed.kind = "number" /\ form.speed.value = v
      BY <3>2, SpeedsAssumption DEF Number
    <3>4. (v < 1 /\ v > -10) \/ (~(v < Slowest) /\ ~(v > Fastest))
      BY <2>2, <3>3 DEF SpeedRefused, NearZero, Less, Greater
    <3> QED
      <4>1. (-10 < v /\ v < 1) \/ (Slowest <= v /\ v <= Fastest)
        BY <3>3, <3>4, SMT DEF Slowest, Fastest
      <4> QED
        BY <3>1, <3>3, <4>1, Zenon
  <2> QED
    BY <2>4, <2>5
<1> QED
  BY <1>1, Invariant, PTL

\* A task that is sent has a format for the name of its result, unless nobody
\* names one.
THEOREM ResultIsNamedHolds == Spec => []ResultIsNamed
<1>1. TypeOK /\ Inv => ResultIsNamed
  <2> SUFFICES ASSUME TypeOK, Inv, msg.has, msg.outputFormat = ""
               PROVE  default = "" /\ Trim(form.outputFormat) = ""
    BY DEF ResultIsNamed
  <2>1. msg = ReqData(form)
    BY HasRow DEF Inv
  <2>2. FormatTaken(form) = ""
    BY <2>1 DEF ReqData
  <2> QED
    BY <2>2 DEF FormatTaken, FormatAsked, defaultS
<1> QED
  BY <1>1, Invariant, PTL

==============================================================================
