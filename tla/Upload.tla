-------------------------------- MODULE Upload --------------------------------
(***************************************************************************)
(* The upload service: what the configuration makes of the parameters of a *)
(* request, and the steps that store the text, the request and the status  *)
(* and send the first message of a task.  Any call may fail and the service *)
(* may die between two steps; what it leaves is for Storage.                *)
(*                                                                          *)
(* Every task has an id of its own, so one request stands for all.  Tags    *)
(* and the id of the request are carried along and decide nothing.          *)
(***************************************************************************)
EXTENDS Integers

CONSTANTS
    DefaultVoice,  \* synthesis.defaultVoice
    Voices,        \* synthesis.voices and the default
    OtherVoice,    \* a voice that is not configured
    Speeds         \* the numbers asked for as a speed, in millionths

ASSUME VoicesAssumption ==
    /\ DefaultVoice \in Voices
    /\ OtherVoice \notin Voices
    /\ "" \notin Voices \cup {OtherVoice}
ASSUME SpeedsAssumption == Speeds \subseteq Int

VARIABLES
    default,  \* defaultOutputFormat of the configuration
    form,     \* what the client sends: fields, headers and the file
    pc,       \* the next step of the handler, "done" when it has returned
    data,     \* inData; NoRow until the parameters are taken
    file,     \* the text, as far as it is stored
    request,  \* the row in requests: the data saved, or NoRow
    status,   \* the row in status
    msg,      \* the message sent to Upload, or NoRow
    answer    \* the status code

vars == <<default, form, pc, data, file, request, status, msg, answer>>

-----------------------------------------------------------------------------
(* The parameters: params.go. *)

\* strings.TrimSpace, for the texts of Forms.
Trim(s) == IF s = " " THEN "" ELSE IF s = " m4a" THEN "m4a" ELSE s

Formats == {"", " ", "mp3", " m4a", "wav"}
Number(v) == [kind |-> "number", value |-> v]
SpeedTexts == {[kind |-> k, value |-> 0] : k \in {"empty", "text", "NaN"}}
              \cup {Number(v) : v \in Speeds}

Forms == [outputFormat : Formats, headerFormat : {"", "mp3", "wav"},
          saveRequest : {"", "true", "1", "yes"},
          collect : {"", "request", "always", "never", "other"},
          speed : SpeedTexts, voice : {""} \cup Voices \cup {OtherVoice},
          files : {"none", "one", "two", "pdf"}]

defaultS(s, s1) == IF Trim(s) # "" THEN s ELSE s1

\* getOutputAudioFormat has an error for every other text.
KnownFormat(s) == Trim(s) \in {"", "mp3", "m4a"}

FormatAsked(f) == defaultS(f.outputFormat, f.headerFormat)

FormatTaken(f) ==
    IF Trim(FormatAsked(f)) = "" THEN default ELSE Trim(FormatAsked(f))

\* getBool: nil, or whether the text says true.
Said(s) == s # ""
getBool(s) == s \in {"true", "1"}

\* getAllowCollect, of the key in lower case: what the client says against what its key allows.
ByRequest(key) == key \in {"", "request"}

\* Mutant: a key that always collects overrules the client.
BugCollectRefused(s, key) == ~ByRequest(key) /\ key = "never" /\ getBool(s)

CollectRefused(s, key) ==
    /\ ~ByRequest(key)
    /\ Said(s)
    /\ ~(key = "always" /\ getBool(s))
    /\ ~(key = "never" /\ ~getBool(s))

AllowCollect(s, key) ==
    IF ByRequest(key) THEN getBool(s) ELSE key = "always"

\* Every comparison with NaN is false.
Less(v, n) == v.kind = "number" /\ v.value < n
Greater(v, n) == v.kind = "number" /\ v.value > n

\* getSpeed: what rounds to zero is let through, and so is NaN.
Slowest == 500000
Fastest == 2000000
Normal == Number(1000000)

NearZero(v) == Less(v, 1) /\ Greater(v, -10)

\* Mutant: the lower bound is forgotten.
BugSpeedRefused(v) == v.kind = "text" \/ Less(v, 0) \/ Greater(v, Fastest)

SpeedRefused(v) ==
    \/ v.kind = "text"
    \/ ~NearZero(v) /\ (Less(v, Slowest) \/ Greater(v, Fastest))
SpeedTaken(v) == IF v.kind = "empty" THEN Normal ELSE v

KnownVoice(v) == v = "" \/ v \in Voices
VoiceTaken(v) == IF v = "" THEN DefaultVoice ELSE v

Refused(f) ==
    \/ ~KnownFormat(FormatAsked(f))
    \/ CollectRefused(f.saveRequest, f.collect)
    \/ SpeedRefused(f.speed)
    \/ ~KnownVoice(f.voice)

NoRow == [has |-> FALSE]

\* Configure
ReqData(f) ==
    [has |-> TRUE, outputFormat |-> FormatTaken(f),
     saveRequest |-> AllowCollect(f.saveRequest, f.collect),
     speed |-> SpeedTaken(f.speed), voice |-> VoiceTaken(f.voice)]

Data == [has : {TRUE}, outputFormat : {"", "mp3", "m4a"}, saveRequest : BOOLEAN,
         speed : SpeedTexts \cup {Normal}, voice : Voices]

\* The one type invariant.
TypeOK ==
    /\ default \in {"", "mp3"}
    /\ form \in Forms
    /\ pc \in {"configure", "file", "request", "status", "send", "answer", "done"}
    /\ data \in Data \cup {NoRow}
    /\ file \in {"none", "torn", "whole"}
    /\ request \in Data \cup {NoRow}
    /\ status \in {"none", "UPLOADED"}
    /\ msg \in Data \cup {NoRow}
    /\ answer \in {"none", "200", "400", "500"}

-----------------------------------------------------------------------------
(* The handler: upload. *)

\* NewTTSConfigurator takes no default format as one.
Init ==
    /\ default \in {"", "mp3"}
    /\ form \in Forms
    /\ pc = "configure"
    /\ data = NoRow /\ request = NoRow /\ msg = NoRow
    /\ file = "none"
    /\ status = "none"
    /\ answer = "none"

\* Mutants: the status is saved before the request; the message is sent first.
BugThen ==
    [file |-> "status", status |-> "request", request |-> "send", send |-> "answer"]
BugThenSent ==
    [file |-> "send", send |-> "request", request |-> "status", status |-> "answer"]

\* The steps that follow those that succeed.
Then ==
    [file |-> "request", request |-> "status", status |-> "send", send |-> "answer"]

Answer(code) == pc' = "done" /\ answer' = code

\* getInputData, the form and the file: nothing is stored yet.
Configure ==
    /\ pc = "configure"
    /\ IF Refused(form) \/ form.files # "one"
       THEN Answer("400") /\ UNCHANGED data
       ELSE /\ data' = ReqData(form)
            /\ pc' = "file"
            /\ UNCHANGED answer
    /\ UNCHANGED <<default, form, file, request, status, msg>>

\* The file of the form can't be opened.
CannotOpen ==
    /\ pc = "file"
    /\ Answer("400")
    /\ UNCHANGED <<default, form, data, file, request, status, msg>>

SaveFile ==
    /\ pc = "file"
    /\ file' = "whole"
    /\ pc' = Then[pc]
    /\ UNCHANGED <<default, form, data, request, status, msg, answer>>

\* Request.Save: the row of the request, and then the status.
SaveRequest ==
    /\ pc = "request"
    /\ request' = data
    /\ pc' = Then[pc]
    /\ UNCHANGED <<default, form, data, file, status, msg, answer>>

SaveStatus ==
    /\ pc = "status"
    /\ status' = "UPLOADED"
    /\ pc' = Then[pc]
    /\ UNCHANGED <<default, form, data, file, request, msg, answer>>

\* The message is sent as JSON, which has no NaN.
Encodable(d) == d.speed.kind # "NaN"

Send ==
    /\ pc = "send"
    /\ IF Encodable(data)
       THEN msg' = data /\ pc' = Then[pc] /\ UNCHANGED answer
       ELSE UNCHANGED msg /\ Answer("500")
    /\ UNCHANGED <<default, form, data, file, request, status>>

Reply ==
    /\ pc = "answer"
    /\ Answer("200")
    /\ UNCHANGED <<default, form, data, file, request, status, msg>>

\* A call fails; what it had written of the file stays.
CallFails ==
    /\ pc \in {"file", "request", "status", "send"}
    /\ Answer("500")
    /\ file' \in IF pc = "file" THEN {"none", "torn"} ELSE {file}
    /\ UNCHANGED <<default, form, data, request, status, msg>>

\* The service dies and the client is not answered.
Crash ==
    /\ pc # "done"
    /\ Answer("none")
    /\ file' \in IF pc = "file" THEN {"none", "torn"} ELSE {file}
    /\ UNCHANGED <<default, form, data, request, status, msg>>

Returned == pc = "done" /\ UNCHANGED vars

Next ==
    \/ Configure \/ CannotOpen \/ SaveFile \/ SaveRequest \/ SaveStatus \/ Send
    \/ Reply \/ CallFails \/ Crash \/ Returned

Spec == Init /\ [][Next]_vars

-----------------------------------------------------------------------------
(* Properties. *)

\* The text of a client is kept only when the client said so, or said nothing
\* and its key always collects; and what a client or its key insists on is
\* done or the request is refused, never turned round.
ConsentHonoured ==
    \A d \in {request, msg} : d.has =>
        IF d.saveRequest
        THEN /\ form.collect # "never"
             /\ \/ form.saveRequest \in {"true", "1"}
                \/ form.saveRequest = "" /\ form.collect = "always"
        ELSE form.collect # "always" /\ form.saveRequest \notin {"true", "1"}

\* A message is sent when all that its task will read is stored, and says what
\* the row says; the client is told of a task that has been sent.
SentIsStored ==
    /\ msg.has => file = "whole" /\ request = msg /\ status = "UPLOADED"
    /\ answer = "200" => msg.has

\* Whatever is left of an upload that fails, but for its text, can be found by
\* the row of the request, the one the timer of the clean service looks for;
\* nothing is left of one that is refused.
LeftoverIsFound ==
    /\ status # "none" \/ msg.has => request.has
    /\ answer = "400" => file = "none" /\ ~request.has

\* A speed that is sent is zero, almost, or in range: NaN gets past getSpeed,
\* which has it stored, and no further.
SentSpeedIsUsable ==
    msg.has => /\ msg.speed.kind = "number"
               /\ \/ -10 < msg.speed.value /\ msg.speed.value < 1
                  \/ Slowest <= msg.speed.value /\ msg.speed.value <= Fastest

\* GetResultFile has a name for the result of every task that is sent, unless
\* neither the client nor the configuration names a format.
ResultIsNamed ==
    msg.has /\ msg.outputFormat = "" =>
        default = "" /\ Trim(form.outputFormat) = ""

==============================================================================
