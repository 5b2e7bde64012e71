------------------------------ MODULE SplitText -------------------------------
(***************************************************************************)
(* The text splitter of internal/pkg/splitter/worker.go: splitText cuts a  *)
(* text into chunks for the synthesizer.  getNextSplit looks for the place *)
(* of a cut in a window of Interval runes after the first Start ones; the  *)
(* last three kinds of characters it has passed tell it how good a place   *)
(* is.  The loops of the code are taken one iteration at a time.           *)
(***************************************************************************)
EXTENDS Integers, Sequences

CONSTANTS
    Start,      \* wantedChars: runes a chunk should have
    Interval,   \* wantedChars/4: runes more it may have
    Texts       \* the texts to split

\* A text is a sequence of kinds of characters: a lower case letter or any
\* other sign, an upper case letter, a full stop, a space, a tab (or another
\* space of unicode), a new line.
Chars == {"letter", "upper", "stop", "space", "tab", "newline"}

ASSUME StartAssumption == Start \in Nat \ {0}
ASSUME IntervalAssumption == Interval \in Nat
ASSUME TextsAssumption == Texts \subseteq Seq(Chars)

VARIABLES
    text,    \* the text
    at,      \* the runes already cut off: rns is what follows
    pc,      \* where splitText and getNextSplit are
    i,       \* the index of the loop in the window
    s,       \* the pattern: the last kinds of characters, repeated spaces once
    best,    \* the best place so far, -1 without any
    bestV,   \* how good it is: 3, 2 or 1, 0 without any
    cuts     \* the ends of the chunks so far

window == <<i, s, best, bestV>>
vars == <<text, at, pc, window, cuts>>

Rest == Len(text) - at
Rune(k) == text[at + k + 1]  \* rns[k]

Blanks == {"space", "tab", "newline"}
NoPattern == [n \in 1 .. 3 |-> "space"]

TypeOK ==
    /\ text \in Seq(Chars)
    /\ at \in 0 .. Len(text)
    /\ pc \in {"chunk", "scan", "cut", "done", "error"}
    /\ i \in 0 .. Interval
    /\ s \in [1 .. 3 -> {"space", "newline", "stop", "upper", "other"}]
    /\ best \in {-1} \cup Nat
    /\ bestV \in 0 .. 3
    /\ cuts \in Seq(Nat)

-----------------------------------------------------------------------------
(* getNewPattern *)

\* A space of unicode counts as a space, every lower case letter or sign as "other".
Kind(r) == IF r = "letter" THEN "other" ELSE IF r = "tab" THEN "space" ELSE r

Push(str, c) == [n \in 1 .. 3 |-> IF n = 3 THEN c ELSE str[n + 1]]

\* Mutant: a space of unicode is kept as it is.
BugNewPattern(str, r) ==
    IF r \in {"space", "tab"} /\ str[3] \in {"space", "newline"} THEN str
    ELSE IF r = "newline" /\ str[2] = "stop" /\ str[3] = "space" THEN [str EXCEPT ![3] = "newline"]
    ELSE Push(str, IF r = "letter" THEN "other" ELSE r)

\* A repeated blank adds nothing, a new line takes the place of the space
\* after a full stop.
NewPattern(str, r) ==
    IF r \in {"space", "tab"} /\ str[3] \in {"space", "newline"} THEN str
    ELSE IF r = "newline" /\ str[2] = "stop" /\ str[3] = "space" THEN [str EXCEPT ![3] = "newline"]
    ELSE Push(str, Kind(r))

ParagraphEnd(str) == str[1] \in {"stop", "newline"} /\ str[2] = "newline" /\ str[3] = "newline"
LineEnd(str) == str[1] = "stop" /\ str[2] = "newline" /\ str[3] = "upper"
SentenceEnd(str) == str[1] = "stop" /\ str[2] = "space" /\ str[3] = "upper"

-----------------------------------------------------------------------------
(* splitText and getNextSplit. *)

Init ==
    /\ text \in Texts
    /\ at = 0
    /\ pc = "chunk"
    /\ i = 0
    /\ s = NoPattern
    /\ best = -1
    /\ bestV = 0
    /\ cuts = <<>>

\* for len(rns) > 0
Finish ==
    /\ pc = "chunk"
    /\ Rest = 0
    /\ pc' = "done"
    /\ UNCHANGED <<text, at, window, cuts>>

\* Mutant: the limit of the length is off by one.
BugTakeRest ==
    /\ pc = "chunk"
    /\ Rest > 0
    /\ Rest <= Start + Interval
    /\ best' = Rest
    /\ pc' = "cut"
    /\ UNCHANGED <<text, at, i, s, bestV, cuts>>

\* if l < (start + interval) { return l, nil }
TakeRest ==
    /\ pc = "chunk"
    /\ Rest > 0
    /\ Rest < Start + Interval
    /\ best' = Rest
    /\ pc' = "cut"
    /\ UNCHANGED <<text, at, i, s, bestV, cuts>>

OpenWindow ==
    /\ pc = "chunk"
    /\ Rest >= Start + Interval
    /\ pc' = "scan"
    /\ i' = 0
    /\ s' = NoPattern
    /\ best' = -1
    /\ bestV' = 0
    /\ UNCHANGED <<text, at, cuts>>

\* Mutant: the cut at the end of a sentence is off by one.
BugBetter(str, r) ==
    CASE LineEnd(str) -> <<Start + i - 1, 3>>
      [] SentenceEnd(str) /\ bestV < 2 -> <<Start + i, 2>>
      [] r = "space" /\ bestV < 1 -> <<Start + i, 1>>
      [] OTHER -> <<best, bestV>>

\* The end of a sentence before a new line, the end of a sentence, the first
\* space: a better place replaces a worse one.
Better(str, r) ==
    CASE LineEnd(str) -> <<Start + i - 1, 3>>
      [] SentenceEnd(str) /\ bestV < 2 -> <<Start + i - 1, 2>>
      [] r = "space" /\ bestV < 1 -> <<Start + i, 1>>
      [] OTHER -> <<best, bestV>>

\* One iteration of the loop of getNextSplit.
Look ==
    LET r == Rune(Start + i) IN
    /\ pc = "scan"
    /\ i < Interval
    /\ s' = NewPattern(s, r)
    /\ IF ParagraphEnd(s')
       THEN best' = Start + i /\ pc' = "cut" /\ UNCHANGED <<i, bestV>>
       ELSE /\ best' = Better(s', r)[1]
            /\ bestV' = Better(s', r)[2]
            /\ i' = i + 1
            /\ UNCHANGED pc
    /\ UNCHANGED <<text, at, cuts>>

\* if best > 0 { return best, nil }; otherwise no split position was found.
CloseWindow ==
    /\ pc = "scan"
    /\ i = Interval
    /\ pc' = IF best > 0 THEN "cut" ELSE "error"
    /\ UNCHANGED <<text, at, window, cuts>>

\* res = append(res, string(rns[:pos])); rns = rns[pos:]
Cut ==
    /\ pc = "cut"
    /\ at' = at + best
    /\ cuts' = Append(cuts, at')
    /\ pc' = "chunk"
    /\ UNCHANGED <<text, window>>

Ended == pc \in {"done", "error"} /\ UNCHANGED vars

Scan == TakeRest \/ OpenWindow \/ Look \/ CloseWindow

Next == Finish \/ Scan \/ Cut \/ Ended

Spec == Init /\ [][Next]_vars

-----------------------------------------------------------------------------
(* Safety. *)

Begin(k) == IF k = 1 THEN 0 ELSE cuts[k - 1]

\* The synthesizer gets no chunk of wantedChars*5/4 runes or more, and no
\* empty one: splitText makes progress with every cut.
ChunkFits ==
    \A k \in DOMAIN cuts : cuts[k] - Begin(k) \in 1 .. Start + Interval - 1

\* A word is never cut in two: a chunk that follows another begins with a
\* blank, whichever way getNextSplit found its place.
WordsKept ==
    \A k \in DOMAIN cuts : cuts[k] < Len(text) => text[cuts[k] + 1] \in Blanks

\* A text is refused only when the window has no space to cut at.
RefusedOnlyWithoutSpace ==
    pc = "error" => \A k \in 0 .. Interval - 1 : Rune(Start + k) # "space"

\* A sentence is not broken at a space when the window has the end of one.
SentenceFirst ==
    pc = "cut" /\ bestV = 1 /\ i = Interval /\ Rest >= Start + Interval =>
        ~\E k \in 0 .. Interval - 3 :
            /\ Rune(Start + k) = "stop"
            /\ Rune(Start + k + 1) \in Blanks
            /\ Rune(Start + k + 2) = "upper"

\* The chunks of a split that ends well reach the end of the text.
WholeTextSplit ==
    pc = "done" /\ text # <<>> => cuts # <<>> /\ cuts[Len(cuts)] = Len(text)

==============================================================================
