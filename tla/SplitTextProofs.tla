--------------------------- MODULE SplitTextProofs ---------------------------
(***************************************************************************)
(* Proofs about the text splitter, for every text and every length of      *)
(* chunks and window.  What the pattern s says of the runes looked at is   *)
(* the heart of the invariant: a place for a cut is a blank because the    *)
(* pattern ends with a blank only when the last rune was one.              *)
(***************************************************************************)
EXTENDS SplitText, TLAPS

Kinds == {"space", "newline", "stop", "upper", "other"}

\* The chunks so far end where the rest begins.
AtInv ==
    /\ cuts = <<>> => at = 0
    /\ cuts # <<>> => at = cuts[Len(cuts)]

\* What the pattern remembers of the runes of the window.
PatternInv ==
    pc = "scan" =>
        /\ Rest >= Start + Interval
        /\ i = 0 => s = NoPattern
        /\ i > 0 /\ s[3] \in {"space", "newline"} => Rune(Start + i - 1) \in Blanks
        /\ i > 0 /\ Rune(Start + i - 1) = "stop" => s[3] = "stop"
        /\ i > 1 /\ Rune(Start + i - 2) = "stop" /\ Rune(Start + i - 1) \in Blanks
            => s[2] = "stop" /\ s[3] \in {"space", "newline"}

\* The best place so far is a blank of the window, and there is none only
\* while no space was seen.
BestInv ==
    pc = "scan" =>
        /\ best = -1 \/ (best \in Start .. Start + i - 1 /\ Rune(best) \in Blanks)
        /\ best = -1 => bestV = 0 /\ \A n \in 0 .. i - 1 : Rune(Start + n) # "space"

\* The end of a sentence that was passed is the best place or a worse one
\* than the best.
SentenceInv ==
    pc = "scan" =>
        \A n \in 0 .. i - 3 :
            Rune(Start + n) = "stop" /\ Rune(Start + n + 1) \in Blanks /\ Rune(Start + n + 2) = "upper"
                => bestV > 1

CutInv ==
    pc = "cut" =>
        /\ best \in 1 .. Start + Interval - 1
        /\ best <= Rest
        /\ best < Rest => Rune(best) \in Blanks

DoneInv == pc = "done" => Rest = 0

IInv ==
    /\ TypeOK
    /\ AtInv
    /\ PatternInv
    /\ BestInv
    /\ SentenceInv
    /\ CutInv
    /\ DoneInv
    /\ ChunkFits
    /\ WordsKept
    /\ RefusedOnlyWithoutSpace
    /\ SentenceFirst

USE StartAssumption, IntervalAssumption

\* What getNewPattern returns, by the rune it is given.
LEMMA PatternOf ==
    ASSUME NEW str \in [1 .. 3 -> Kinds], NEW r \in Chars
    PROVE  /\ NewPattern(str, r) \in [1 .. 3 -> Kinds]
           /\ NewPattern(str, r)[3] \in {"space", "newline"} => r \in Blanks
           /\ r = "stop" => NewPattern(str, r)[3] = "stop"
           /\ r \in Blanks /\ str[3] = "stop" =>
                NewPattern(str, r)[2] = "stop" /\ NewPattern(str, r)[3] \in {"space", "newline"}
           /\ r = "upper" => /\ NewPattern(str, r)[1] = str[2]
                        /\ NewPattern(str, r)[2] = str[3]
                        /\ NewPattern(str, r)[3] = "upper"
           /\ NewPattern(str, r)[3] = "upper" => r = "upper"
<1>1. CASE r = "newline"
  BY <1>1 DEF NewPattern, Kind, Push, Kinds, Chars, Blanks
<1>2. CASE r = "stop"
  BY <1>2 DEF NewPattern, Kind, Push, Kinds, Chars, Blanks
<1>3. CASE r \in {"space", "tab"}
  BY <1>3 DEF NewPattern, Kind, Push, Kinds, Chars, Blanks
<1>4. CASE r = "upper"
  BY <1>4 DEF NewPattern, Kind, Push, Kinds, Chars, Blanks
<1>5. CASE r = "letter"
  BY <1>5 DEF NewPattern, Kind, Push, Kinds, Chars, Blanks
<1>6. QED
  BY <1>1, <1>2, <1>3, <1>4, <1>5 DEF Chars

\* Whatever the rune, a better place is the one looked at or the one before
\* it, after the end of a sentence.
LEMMA BetterOf ==
    ASSUME NEW str, NEW r, i \in Nat, best \in {-1} \cup Nat, bestV \in 0 .. 3
    PROVE  \/ /\ LineEnd(str) \/ SentenceEnd(str)
              /\ Better(str, r) \in {<<Start + i - 1, 3>>, <<Start + i - 1, 2>>}
           \/ /\ r = "space" /\ bestV = 0
              /\ Better(str, r) = <<Start + i, 1>>
           \/ /\ LineEnd(str) \/ SentenceEnd(str) => bestV > 1
              /\ r = "space" => bestV > 0
              /\ Better(str, r) = <<best, bestV>>
BY DEF Better

\* The invariant holds before the first chunk.
LEMMA Initially == Init => IInv
BY TextsAssumption DEF Init, IInv, TypeOK, AtInv, PatternInv, BestInv, SentenceInv, CutInv, DoneInv,
   ChunkFits, WordsKept, RefusedOnlyWithoutSpace, SentenceFirst, NoPattern, Begin

\* The rune that is looked at next is one of the text.
LEMMA RuneLooked ==
    ASSUME IInv, Look
    PROVE  /\ Rune(Start + i) \in Chars
           /\ Start + i < Rest
           /\ Rest \in Nat
BY DEF IInv, TypeOK, PatternInv, Look, Rest, Rune, Chars

\* One more rune in the window: the pattern still tells what was looked at.
LEMMA LookKeepsPattern == IInv /\ Look => TypeOK' /\ PatternInv'
<1> SUFFICES ASSUME IInv, Look
             PROVE  TypeOK' /\ PatternInv'
  OBVIOUS
<1> DEFINE r == Rune(Start + i)
<1>1. r \in Chars /\ Start + i < Rest /\ Rest \in Nat
  BY RuneLooked
<1>2. s \in [1 .. 3 -> Kinds] /\ s' = NewPattern(s, r)
  BY DEF IInv, TypeOK, Look, Kinds
<1> HIDE DEF r
<1>3. /\ s' \in [1 .. 3 -> Kinds]
      /\ s'[3] \in {"space", "newline"} => r \in Blanks
      /\ r = "stop" => s'[3] = "stop"
      /\ r \in Blanks /\ s[3] = "stop" => s'[2] = "stop" /\ s'[3] \in {"space", "newline"}
  BY <1>1, <1>2, PatternOf
<1>4. Better(s', r)[1] \in {-1} \cup Nat /\ Better(s', r)[2] \in 0 .. 3
  BY BetterOf DEF IInv, TypeOK
<1>5. TypeOK'
  BY <1>1, <1>3, <1>4 DEF IInv, TypeOK, Look, Kinds, r
<1>6. PatternInv'
  <2> SUFFICES ASSUME pc' = "scan"
               PROVE  PatternInv'
    BY DEF PatternInv
  <2>1. i' = i + 1 /\ at' = at /\ text' = text /\ i \in Nat /\ at \in Nat /\ pc = "scan"
    BY DEF Look, IInv, TypeOK
  <2>2. Rest' = Rest /\ Rest >= Start + Interval
    BY <2>1 DEF Rest, IInv, PatternInv
  <2>3. Rune(Start + i - 1)' = r
    BY <2>1 DEF Rune, r
  <2>4. i > 0 => Rune(Start + i - 2)' = Rune(Start + i - 1)
    BY <2>1 DEF Rune
  <2>5. i > 0 /\ Rune(Start + i - 1) = "stop" => s[3] = "stop"
    BY <2>1 DEF IInv, PatternInv
  <2>6. QED
    BY <1>3, <2>1, <2>2, <2>3, <2>4, <2>5 DEF PatternInv
<1>7. QED
  BY <1>5, <1>6

\* The best place after a rune was looked at.
LEMMA LookFindsBest ==
    ASSUME IInv, Look
    PROVE  /\ best' = -1 \/ (best' \in Start .. Start + i /\ Rune(best') \in Blanks)
           /\ ~ParagraphEnd(s') /\ best' = -1 => bestV' = 0 /\ best = -1 /\ Rune(Start + i) # "space"
           /\ ~ParagraphEnd(s') => bestV' >= bestV
           /\ ~ParagraphEnd(s') /\ (LineEnd(s') \/ SentenceEnd(s')) => bestV' > 1
           /\ ParagraphEnd(s') => best' = Start + i
<1> DEFINE r == Rune(Start + i)
<1>1. r \in Chars /\ Start + i < Rest /\ Rest \in Nat
  BY RuneLooked
<1>2. /\ s \in [1 .. 3 -> Kinds]
      /\ s' = NewPattern(s, r)
      /\ i \in Nat
      /\ best \in {-1} \cup Nat
      /\ bestV \in 0 .. 3
      /\ pc = "scan"
  BY DEF IInv, TypeOK, Look, Kinds
<1>3. /\ s'[3] \in {"space", "newline"} => r \in Blanks
      /\ r = "upper" => s'[1] = s[2] /\ s'[2] = s[3]
      /\ s'[3] = "upper" => r = "upper"
  BY <1>1, <1>2, PatternOf
<1>4. /\ best = -1 \/ (best \in Start .. Start + i - 1 /\ Rune(best) \in Blanks)
      /\ best = -1 => bestV = 0
      /\ i = 0 => s[2] = "space"
      /\ i > 0 /\ s[3] \in {"space", "newline"} => Rune(Start + i - 1) \in Blanks
  BY <1>2 DEF IInv, PatternInv, BestInv, NoPattern
<1>5. LineEnd(s') \/ SentenceEnd(s') => i > 0 /\ Rune(Start + i - 1) \in Blanks
  BY <1>2, <1>3, <1>4 DEF LineEnd, SentenceEnd
<1>6. CASE ParagraphEnd(s')
  <2>1. best' = Start + i
    BY <1>6 DEF Look
  <2>2. r \in Blanks
    BY <1>3, <1>6 DEF ParagraphEnd
  <2>3. QED
    BY <1>2, <1>6, <2>1, <2>2
<1>7. CASE ~ParagraphEnd(s')
  <2>1. best' = Better(s', r)[1] /\ bestV' = Better(s', r)[2]
    BY <1>7 DEF Look
  <2>2. r = "space" => r \in Blanks
    BY DEF Blanks
  <2> HIDE DEF r
  <2>3. CASE (LineEnd(s') \/ SentenceEnd(s')) /\ best' = Start + i - 1
                /\ bestV' \in {2, 3} /\ bestV' >= bestV
    BY <1>2, <1>4, <1>5, <1>7, <2>3 DEF Better, LineEnd, SentenceEnd, r
  <2>4. CASE r = "space" /\ bestV = 0 /\ best' = Start + i /\ bestV' = 1
                /\ ~LineEnd(s') /\ ~SentenceEnd(s')
    BY <1>2, <1>7, <2>2, <2>4 DEF r
  <2>5. CASE /\ LineEnd(s') \/ SentenceEnd(s') => bestV > 1
             /\ r = "space" => bestV > 0
             /\ best' = best /\ bestV' = bestV
    BY <1>2, <1>4, <1>7, <2>5 DEF r
  <2>6. CASE LineEnd(s')
    <3>1. best' = Start + i - 1 /\ bestV' = 3
      BY <1>3, <2>1, <2>6 DEF Better, LineEnd, SentenceEnd
    <3>2. QED
      BY <1>2, <2>3, <2>6, <3>1
  <2>7. CASE ~LineEnd(s') /\ SentenceEnd(s') /\ bestV < 2
    <3>1. best' = Start + i - 1 /\ bestV' = 2
      BY <1>3, <2>1, <2>7 DEF Better, LineEnd, SentenceEnd
    <3>2. QED
      BY <1>2, <2>3, <2>7, <3>1
  <2>8. CASE ~LineEnd(s') /\ ~(SentenceEnd(s') /\ bestV < 2) /\ r = "space" /\ bestV < 1
    <3>1. best' = Start + i /\ bestV' = 1
      BY <2>1, <2>8 DEF Better
    <3>2. QED
      BY <1>2, <2>4, <2>8, <3>1
  <2>9. CASE ~LineEnd(s') /\ ~(SentenceEnd(s') /\ bestV < 2) /\ ~(r = "space" /\ bestV < 1)
    <3>1. best' = best /\ bestV' = bestV
      BY <2>1, <2>9 DEF Better
    <3>2. QED
      BY <1>2, <2>5, <2>9, <3>1
  <2>10. QED
    BY <2>6, <2>7, <2>8, <2>9
<1>8. QED
  BY <1>6, <1>7

\* One more rune in the window keeps the whole invariant.
LEMMA LookKeepsInv == IInv /\ Look => IInv'
<1> SUFFICES ASSUME IInv, Look
             PROVE  IInv'
  OBVIOUS
<1>1. TypeOK' /\ PatternInv'
  BY LookKeepsPattern
<1>2. /\ i \in Nat /\ i < Interval /\ at \in Nat /\ pc = "scan"
      /\ text' = text /\ at' = at /\ cuts' = cuts
      /\ bestV \in 0 .. 3 /\ bestV' \in 0 .. 3
      /\ Rest \in Nat /\ Start + i < Rest /\ Rune(Start + i) \in Chars
  BY <1>1, RuneLooked DEF IInv, TypeOK, Look
<1>3. Rest' = Rest /\ \A n : Rune(n)' = text[at + n' + 1]
  BY <1>2 DEF Rest, Rune
<1>4. CASE ParagraphEnd(s')
  <2>1. pc' = "cut" /\ best' = Start + i /\ bestV' = bestV /\ i' = i
    BY <1>4 DEF Look
  <2>2. Rune(Start + i) \in Blanks
    BY <1>2, <1>4, <2>1, LookFindsBest
  <2>3. CutInv'
    BY <1>2, <1>3, <2>1, <2>2 DEF CutInv, Rune
  <2>4. SentenceFirst'
    BY <1>2, <2>1 DEF SentenceFirst
  <2>5. QED
    BY <1>1, <1>2, <2>1, <2>3, <2>4
       DEF IInv, AtInv, BestInv, SentenceInv, DoneInv, ChunkFits, WordsKept, Begin,
           RefusedOnlyWithoutSpace
<1>5. CASE ~ParagraphEnd(s')
  <2>1. pc' = "scan" /\ i' = i + 1
    BY <1>2, <1>5 DEF Look
  <2>2. /\ best' = -1 \/ (best' \in Start .. Start + i /\ Rune(best') \in Blanks)
        /\ best' = -1 => bestV' = 0 /\ best = -1 /\ Rune(Start + i) # "space"
        /\ bestV' >= bestV
        /\ LineEnd(s') \/ SentenceEnd(s') => bestV' > 1
    BY <1>5, LookFindsBest
  <2>3. BestInv'
    <3>1. best' = -1 \/ (best' \in Start .. Start + i' - 1 /\ text[at + best' + 1] \in Blanks)
      BY <1>2, <2>1, <2>2 DEF Rune
    <3>2. best' = -1 => \A n \in 0 .. i : text[at + (Start + n) + 1] # "space"
      BY <1>2, <2>2 DEF IInv, BestInv, Rune
    <3>3. i' - 1 = i
      BY <1>2, <2>1
    <3>4. QED
      BY <1>2, <2>1, <2>2, <3>1, <3>2, <3>3 DEF BestInv, Rune
  <2>4. SentenceInv'
    <3> SUFFICES ASSUME NEW n \in 0 .. i - 2,
                        Rune(Start + n) = "stop",
                        Rune(Start + n + 1) \in Blanks,
                        Rune(Start + n + 2) = "upper"
                 PROVE  bestV' > 1
      BY <1>2, <2>1 DEF SentenceInv, Rune
    <3>1. CASE n < i - 2
      <4>1. bestV > 1
        BY <1>2, <3>1 DEF IInv, SentenceInv
      <4>2. QED
        BY <1>2, <2>2, <4>1
    <3>2. CASE n = i - 2
      <4>1. s[2] = "stop" /\ s[3] \in {"space", "newline"}
        <5>1. i > 1 /\ Start + n = Start + i - 2 /\ Start + n + 1 = Start + i - 1
          BY <1>2, <3>2
        <5>2. QED
          BY <1>2, <5>1 DEF IInv, PatternInv
      <4>2. Start + n + 2 = Start + i
        BY <1>2, <3>2
      <4>3. s' = NewPattern(s, Rune(Start + i)) /\ s \in [1 .. 3 -> Kinds]
        BY DEF Look, IInv, TypeOK, Kinds
      <4>4. s'[1] = s[2] /\ s'[2] = s[3] /\ s'[3] = "upper"
        BY <1>2, <4>2, <4>3, PatternOf
      <4>5. QED
        BY <2>2, <4>1, <4>4 DEF LineEnd, SentenceEnd
    <3>3. QED
      BY <1>2, <3>1, <3>2
  <2>5. QED
    BY <1>1, <1>2, <2>1, <2>3, <2>4
       DEF IInv, AtInv, CutInv, DoneInv, ChunkFits, WordsKept, Begin, RefusedOnlyWithoutSpace,
           SentenceFirst
<1>6. QED
  BY <1>4, <1>5

\* So do the steps between the windows.
LEMMA OthersKeepInv ==
    IInv /\ (Finish \/ TakeRest \/ OpenWindow \/ CloseWindow \/ UNCHANGED vars) => IInv'
<1> SUFFICES ASSUME IInv
             PROVE  Finish \/ TakeRest \/ OpenWindow \/ CloseWindow \/ UNCHANGED vars => IInv'
  OBVIOUS
<1> USE DEF IInv, AtInv, ChunkFits, WordsKept, Begin
<1>0. Rest \in Nat
  BY DEF TypeOK, Rest
<1>1. CASE Finish
  BY <1>0, <1>1 DEF Finish, window, TypeOK, PatternInv, BestInv, SentenceInv, CutInv, DoneInv,
     RefusedOnlyWithoutSpace, SentenceFirst, Rest
<1>2. CASE TakeRest
  <2>1. SentenceFirst'
    BY <1>0, <1>2 DEF TakeRest, SentenceFirst, Rest
  <2>2. CutInv'
    BY <1>0, <1>2 DEF TakeRest, CutInv, Rest
  <2>3. QED
    BY <1>0, <1>2, <2>1, <2>2 DEF TakeRest, TypeOK, PatternInv, BestInv, SentenceInv, DoneInv,
       RefusedOnlyWithoutSpace
<1>3. CASE OpenWindow
  <2>1. TypeOK'
    BY <1>3 DEF OpenWindow, TypeOK, NoPattern
  <2>2. PatternInv' /\ BestInv' /\ SentenceInv'
    BY <1>0, <1>3 DEF OpenWindow, PatternInv, BestInv, SentenceInv, Rest, NoPattern
  <2>3. QED
    BY <1>3, <2>1, <2>2 DEF OpenWindow, CutInv, DoneInv, RefusedOnlyWithoutSpace, SentenceFirst
<1>4. CASE CloseWindow
  <2>1. pc = "scan" /\ i = Interval /\ Rest >= Start + Interval
    BY <1>4 DEF CloseWindow, PatternInv
  <2>2. UNCHANGED <<text, at, i, s, best, bestV, cuts>>
    BY <1>4 DEF CloseWindow, window
  <2>3. CASE best > 0
    <3>1. pc' = "cut"
      BY <1>4, <2>3 DEF CloseWindow
    <3>2. CutInv'
      BY <1>0, <2>1, <2>2, <2>3, <3>1 DEF BestInv, CutInv, Rest, Rune
    <3>3. SentenceFirst'
      <4>1. bestV = 1 => \A n \in 0 .. i - 3 :
                ~(/\ Rune(Start + n) = "stop"
                  /\ Rune(Start + n + 1) \in Blanks
                  /\ Rune(Start + n + 2) = "upper")
        BY <2>1 DEF SentenceInv
      <4>2. \A n : text'[at' + n + 1] = Rune(n)
        BY <2>2 DEF Rune
      <4>3. QED
        BY <2>1, <2>2, <4>1, <4>2 DEF SentenceFirst, Rune
    <3>4. QED
      BY <2>2, <3>1, <3>2, <3>3 DEF TypeOK, PatternInv, BestInv, SentenceInv, DoneInv,
         RefusedOnlyWithoutSpace
  <2>4. CASE ~(best > 0)
    <3>1. pc' = "error" /\ best = -1
      BY <1>4, <2>1, <2>4 DEF CloseWindow, BestInv, TypeOK
    <3>2. RefusedOnlyWithoutSpace'
      BY <2>1, <2>2, <3>1 DEF BestInv, RefusedOnlyWithoutSpace, Rune
    <3>3. QED
      BY <2>2, <3>1, <3>2 DEF TypeOK, PatternInv, BestInv, SentenceInv, CutInv, DoneInv,
         SentenceFirst
  <2>5. QED
    BY <2>3, <2>4
<1>5. CASE UNCHANGED vars
  BY <1>5 DEF vars, window, TypeOK, PatternInv, BestInv, SentenceInv, CutInv, DoneInv,
     RefusedOnlyWithoutSpace, SentenceFirst, Rest, Rune
<1>6. QED
  BY <1>1, <1>2, <1>3, <1>4, <1>5

\* A cut adds a chunk that fits and begins at a blank.
LEMMA CutKeepsInv == IInv /\ Cut => IInv'
<1> SUFFICES ASSUME IInv, Cut
             PROVE  IInv'
  OBVIOUS
<1>1. /\ at' = at + best /\ cuts' = Append(cuts, at + best)
      /\ UNCHANGED <<text, i, s, best, bestV>> /\ pc = "cut" /\ pc' = "chunk"
  BY DEF Cut, window
<1>2. /\ best \in 1 .. Start + Interval - 1 /\ best <= Rest
      /\ best < Rest => Rune(best) \in Blanks
      /\ Rest = Len(text) - at /\ at \in Nat /\ Len(text) \in Nat
      /\ cuts \in Seq(Nat)
  BY <1>1 DEF IInv, CutInv, TypeOK, Rest
<1>3. TypeOK'
  BY <1>1, <1>2 DEF IInv, TypeOK
<1>4. /\ Len(cuts') = Len(cuts) + 1
      /\ DOMAIN cuts' = 1 .. Len(cuts) + 1
      /\ DOMAIN cuts = 1 .. Len(cuts)
      /\ cuts'[Len(cuts) + 1] = at + best
      /\ \A n \in 1 .. Len(cuts) : cuts'[n] = cuts[n]
      /\ Len(cuts) \in Nat
  BY <1>1, <1>2
<1>5. AtInv'
  BY <1>1, <1>4 DEF AtInv
<1>6. ChunkFits'
  <2> SUFFICES ASSUME NEW n \in 1 .. Len(cuts) + 1
               PROVE  cuts'[n] - Begin(n)' \in 1 .. Start + Interval - 1
    BY <1>4 DEF ChunkFits
  <2>1. CASE n <= Len(cuts)
    BY <1>4, <2>1 DEF IInv, ChunkFits, Begin
  <2>2. CASE n = Len(cuts) + 1
    <3>1. Begin(n)' = at
      BY <1>2, <1>4, <2>2 DEF IInv, AtInv, Begin
    <3>2. QED
      BY <1>2, <1>4, <2>2, <3>1
  <2>3. QED
    BY <1>4, <2>1, <2>2
<1>7. WordsKept'
  <2> SUFFICES ASSUME NEW n \in 1 .. Len(cuts) + 1, cuts'[n] < Len(text)
               PROVE  text[cuts'[n] + 1] \in Blanks
    BY <1>1, <1>4 DEF WordsKept
  <2>1. CASE n <= Len(cuts)
    BY <1>4, <2>1 DEF IInv, WordsKept
  <2>2. CASE n = Len(cuts) + 1
    BY <1>2, <1>4, <2>2 DEF Rune
  <2>3. QED
    BY <1>4, <2>1, <2>2
<1>8. QED
  BY <1>1, <1>3, <1>5, <1>6, <1>7 DEF IInv, PatternInv, BestInv, SentenceInv, CutInv, DoneInv,
     RefusedOnlyWithoutSpace, SentenceFirst

\* The invariant holds at all times.
LEMMA Invariance == Spec => []IInv
<1>1. IInv /\ [Next]_vars => IInv'
  BY LookKeepsInv, CutKeepsInv, OthersKeepInv DEF Next, Scan, Ended
<1>2. QED
  BY Initially, <1>1, PTL DEF Spec

-----------------------------------------------------------------------------

\* The variables keep their types, in particular i stays in the window.
THEOREM TypeCorrect == Spec => []TypeOK
<1>1. IInv => TypeOK
  BY DEF IInv
<1>2. QED
  BY Invariance, <1>1, PTL

\* Every cut of splitText leaves a chunk that is not empty and shorter than
\* wantedChars*5/4.
THEOREM ChunkFitsHolds == Spec => []ChunkFits
<1>1. IInv => ChunkFits
  BY DEF IInv
<1>2. QED
  BY Invariance, <1>1, PTL

\* getNextSplit finds no place in a word.
THEOREM WordsKeptHolds == Spec => []WordsKept
<1>1. IInv => WordsKept
  BY DEF IInv
<1>2. QED
  BY Invariance, <1>1, PTL

\* getNextSplit fails only when the window has no space.
THEOREM RefusedOnlyWithoutSpaceHolds == Spec => []RefusedOnlyWithoutSpace
<1>1. IInv => RefusedOnlyWithoutSpace
  BY DEF IInv
<1>2. QED
  BY Invariance, <1>1, PTL

\* getNextSplit takes the end of a sentence before a space.
THEOREM SentenceFirstHolds == Spec => []SentenceFirst
<1>1. IInv => SentenceFirst
  BY DEF IInv
<1>2. QED
  BY Invariance, <1>1, PTL

\* splitText ends well only with the whole text in its chunks.
THEOREM WholeTextSplitHolds == Spec => []WholeTextSplit
<1>1. IInv => WholeTextSplit
  <2> SUFFICES ASSUME IInv, pc = "done", text # <<>>
               PROVE  cuts # <<>> /\ cuts[Len(cuts)] = Len(text)
    BY DEF WholeTextSplit
  <2>1. text \in Seq(Chars) /\ at \in Nat /\ at = Len(text)
    BY DEF IInv, TypeOK, DoneInv, Rest
  <2>2. Len(text) # 0
    BY <2>1
  <2>3. QED
    BY <2>1, <2>2 DEF IInv, AtInv
<1>2. QED
  BY Invariance, <1>1, PTL

==============================================================================
