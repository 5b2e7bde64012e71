------------------------------ MODULE SplitSSML ------------------------------
(***************************************************************************)
(* The SSML side of internal/pkg/splitter/worker.go: doSSML,               *)
(* splitTextParts and getPartsTo.  A document is a list of pauses and of   *)
(* texts of one voice; a text is a list of parts, some of them words with  *)
(* an accent.  splitTextParts joins the parts of a text with spaces and    *)
(* cuts that, as SplitText does; getPartsTo finds the parts that belong to *)
(* a chunk; doSSML gathers the chunks in requests to the synthesizer.      *)
(*                                                                         *)
(* Chunks are counted in runes, the text of a part is sliced in bytes: a   *)
(* piece is the bytes from .. to of a part.                                *)
(***************************************************************************)
EXTENDS Integers, Sequences, FiniteSets

CONSTANTS
    Start,      \* wantedChars
    Interval,   \* wantedChars/4
    Wide,       \* the kinds of characters that take two bytes
    Documents   \* the parsed documents

Seqs == INSTANCE SequencesExt

Pause == <<>>   \* a text has a part at least
PauseAt(n) == [of |-> n, part |-> 0, from |-> 0, to |-> 0]  \* a piece of no part

VARIABLES
    doc,      \* the document
    k,        \* the part of the document that is being done
    pPart,    \* the part of the text getPartsTo is at (counted from 1)
    pText,    \* the offset in it
    from,     \* the runes of the chunk that have been found
    piece,    \* res of getPartsTo
    pieces,   \* txts: the pieces of every chunk of the text
    merged,   \* how many of these are in the requests
    cParts,   \* the request being gathered: the pieces of each text or pause
    cPart,    \* cPart # nil: the last of cParts takes the next pieces
    cLen,     \* the runes in it
    res,      \* the requests
    text, at, pc, i, s, best, bestV, cuts  \* of the splitting of a text

Chunks == INSTANCE SplitText WITH Texts <- {}

finding == <<pPart, pText, from, piece>>
gathering == <<merged, cParts, cPart, cLen, res>>
cutting == <<text, at, pc, i, s, best, bestV, cuts>>
vars == <<doc, k, finding, pieces, gathering, cutting>>

ASSUME StartAssumption == Start \in Nat \ {0}
ASSUME IntervalAssumption == Interval \in Nat

\* A part of a text; acc: it is a word with an accent.
TextPart == [acc : BOOLEAN, text : Seq(Chunks!Chars)]

\* What the parser promises: a part has characters, and no blank at its end.
ASSUME DocumentsAssumption ==
    /\ Documents \subseteq Seq(Seq(TextPart))
    /\ \A d \in Documents : \A n \in DOMAIN d : \A m \in DOMAIN d[n] :
        LET str == d[n][m].text
        IN  str # <<>> /\ str[Len(str)] \notin Chunks!Blanks

Parts == doc[k]
MaxChars == Interval + Start

Offset(str, n) == n + Cardinality({m \in 1 .. n : str[m] \in Wide})
Size(str) == Offset(str, Len(str))

\* if tb.Len() > 0 { tb.WriteString("space") }
Space(parts, n) == IF \E m \in 1 .. n - 1 : parts[m].text # <<>> THEN <<"space">> ELSE <<>>

Join(parts) == Seqs!FlattenSeq([n \in DOMAIN parts |-> Space(parts, n) \o parts[n].text])

\* utf8.RuneCountInString: half a character counts too.
Runes(p) ==
    IF p.part = 0 THEN {}
    ELSE LET str == doc[p.of][p.part].text
         IN  {n \in DOMAIN str : Offset(str, n - 1) < p.to /\ Offset(str, n) > p.from}

RuneCount(ps) == Cardinality(UNION {{x} \X Runes(ps[x]) : x \in DOMAIN ps})

Init ==
    /\ doc \in Documents
    /\ k = 1
    /\ pPart = 1
    /\ pText = 0
    /\ from = 0
    /\ piece = <<>>
    /\ pieces = <<>>
    /\ merged = 0
    /\ cParts = <<>>
    /\ cPart = FALSE
    /\ cLen = 0
    /\ res = <<>>
    /\ text = <<>>
    /\ at = 0
    /\ pc = "part"
    /\ i = 0
    /\ s = Chunks!NoPattern
    /\ best = -1
    /\ bestV = 0
    /\ cuts = <<>>

-----------------------------------------------------------------------------
(* splitTextParts and getPartsTo. *)

\* Mutant: the pieces of a text go on in the voice of the text before it.
BugPartOfNewText == cPart

\* var cPart *ssml.Text, of every text anew.
PartOfNewText == FALSE

StartText ==
    /\ pc = "part"
    /\ k <= Len(doc)
    /\ Parts # Pause
    /\ text' = Join(Parts)
    /\ at' = 0
    /\ cuts' = <<>>
    /\ pPart' = 1
    /\ pText' = 0
    /\ pieces' = <<>>
    /\ merged' = 0
    /\ cPart' = PartOfNewText
    /\ pc' = "chunk"
    /\ UNCHANGED <<doc, k, from, piece, cParts, cLen, res, i, s, best, bestV>>

\* The chunks are found as in a plain text.
FindChunk ==
    /\ Chunks!Scan \/ Chunks!Finish
    /\ UNCHANGED <<doc, k, finding, pieces, gathering>>

RestOfPart == Len(Parts[pPart].text) - pText

\* cLen-pl.pText <= pos-from
EndsInChunk == RestOfPart <= best - from

\* Mutant: the space that joins two parts is forgotten.
BugEndSpace == 0

\* "+1 for end space"
EndSpace == 1

\* The chunk reaches the end of the part.
TakeToEnd ==
    /\ pc = "cut"
    /\ from < best
    /\ pPart \in DOMAIN Parts
    /\ EndsInChunk
    /\ piece' = Append(piece, [of |-> k, part |-> pPart, from |-> pText,
                               to |-> Size(Parts[pPart].text)])
    /\ from' = from + RestOfPart + EndSpace
    /\ pText' = 0
    /\ pPart' = pPart + 1
    /\ UNCHANGED <<doc, k, pieces, gathering, cutting>>

\* Mutant: the offset in the part is taken for the one in the chunk.
BugTextTo == best - from

\* to := pos - from + pl.pText
TextTo == best - from + pText

\* The part goes on after the chunk: p.Text[pl.pText:to].
TakeSome ==
    /\ pc = "cut"
    /\ from < best
    /\ pPart \in DOMAIN Parts
    /\ ~EndsInChunk
    /\ piece' = Append(piece, [of |-> k, part |-> pPart, from |-> pText,
                               to |-> TextTo])
    /\ from' = best
    /\ pText' = TextTo
    /\ UNCHANGED <<doc, k, pPart, pieces, gathering, cutting>>

\* Mutant: the offset in the chunk is kept for the next chunk.
BugFromOfNext == from

\* from := 0, of every call anew.
FromOfNext == 0

\* res = append(res, pl.getPartsTo(pos)); rns = rns[pos:]
CutChunk ==
    /\ Chunks!Cut
    /\ from >= best
    /\ pieces' = Append(pieces, piece)
    /\ piece' = <<>>
    /\ from' = FromOfNext
    /\ UNCHANGED <<doc, k, pPart, pText, gathering>>

-----------------------------------------------------------------------------
(* doSSML. *)

\* cPart.Texts = append(cPart.Texts, ...), after cPart is made when it is nil
Gather(parts, open, ps) ==
    IF open THEN [parts EXCEPT ![Len(parts)] = @ \o ps] ELSE Append(parts, ps)

\* Mutant: the length of a request is the one of its last chunk.
BugLenBefore(fits) == 0

\* cLen, which starts again with a new request.
LenBefore(fits) == IF fits THEN cLen ELSE 0

Merge ==
    /\ pc = "done"
    /\ merged < Len(pieces)
    /\ LET ps == pieces[merged + 1]
           fits == cLen + RuneCount(ps) <= MaxChars
       IN  /\ res' = IF ~fits /\ cParts # <<>> THEN Append(res, cParts) ELSE res
           /\ cParts' = Gather(IF fits THEN cParts ELSE <<>>, fits /\ cPart, ps)
           /\ cLen' = LenBefore(fits) + RuneCount(ps)
    /\ cPart' = TRUE
    /\ merged' = merged + 1
    /\ UNCHANGED <<doc, k, finding, pieces, cutting>>

TextDone ==
    /\ pc = "done"
    /\ merged = Len(pieces)
    /\ pc' = "part"
    /\ k' = k + 1
    /\ UNCHANGED <<doc, finding, pieces, gathering, text, at, i, s, best, bestV, cuts>>

AddPause ==
    /\ pc = "part"
    /\ k <= Len(doc)
    /\ Parts = Pause
    /\ cParts' = Append(cParts, <<PauseAt(k)>>)
    /\ k' = k + 1
    /\ UNCHANGED <<doc, finding, pieces, merged, cPart, cLen, res, cutting>>

\* if len(cParts) > 0 { res = append(res, saveToSSMLString(cParts)) }
LastRequest ==
    /\ pc = "part"
    /\ k > Len(doc)
    /\ res' = IF cParts # <<>> THEN Append(res, cParts) ELSE res
    /\ pc' = "saved"
    /\ UNCHANGED <<doc, k, finding, pieces, merged, cParts, cPart, cLen,
                   text, at, i, s, best, bestV, cuts>>

Ended == pc \in {"saved", "error"} /\ UNCHANGED vars

Next ==
    \/ StartText \/ FindChunk \/ TakeToEnd \/ TakeSome \/ CutChunk
    \/ Merge \/ TextDone \/ AddPause \/ LastRequest
    \/ Ended

Spec == Init /\ [][Next]_vars

-----------------------------------------------------------------------------
(* Safety. *)

\* getPartsTo never looks for a part after the last one: the spaces it counts
\* between the parts never make it fall behind the chunks.
PartsSuffice == pc = "cut" /\ from < best => pPart \in DOMAIN Parts

\* Where a piece begins and what comes next after it: the text or pause of
\* the document, the part, the byte.
Begins(p) == <<p.of, p.part, p.from>>
ItemBegins(n) == <<n, IF n \in DOMAIN doc /\ doc[n] # Pause THEN 1 ELSE 0, 0>>
Following(p) ==
    IF p.part # 0 /\ p.to < Size(doc[p.of][p.part].text) THEN <<p.of, p.part, p.to>>
    ELSE IF p.part # 0 /\ p.part < Len(doc[p.of]) THEN <<p.of, p.part + 1, 0>>
    ELSE ItemBegins(p.of + 1)

\* The pieces follow each other without a gap from one place to another.
Covers(ps, a, b) ==
    IF ps = <<>> THEN a = b
    ELSE /\ Begins(ps[1]) = a
         /\ \A n \in 1 .. Len(ps) - 1 : Begins(ps[n + 1]) = Following(ps[n])
         /\ Following(ps[Len(ps)]) = b

\* The requests hold every piece and pause of the document once and in order.
ContentKept ==
    pc = "saved" =>
        Covers(Seqs!FlattenSeq(Seqs!FlattenSeq(res)), ItemBegins(1), ItemBegins(Len(doc) + 1))

\* A piece stays in the voice of the text it is from.
VoiceKept ==
    \A n \in DOMAIN res : \A m \in DOMAIN res[n] :
        \A p, q \in DOMAIN res[n][m] : res[n][m][p].of = res[n][m][q].of

\* A request has no more than wantedChars*5/4 characters.
RequestFits ==
    \A n \in DOMAIN res : RuneCount(Seqs!FlattenSeq(res[n])) <= MaxChars

\* The part that p is from is cut at a blank where p begins.
BeginsAtBlank(p) ==
    LET str == doc[p.of][p.part].text IN
    p.from > 0 =>
        \E m \in 1 .. Len(str) - 1 :
            Offset(str, m) = p.from /\ {str[m], str[m + 1]} \cap Chunks!Blanks # {}

\* A part is divided at a blank only: a word with an accent, which is a part
\* of its own, is never divided ("do not split at word tag").
PieceWordsKept ==
    /\ \A n \in DOMAIN piece : BeginsAtBlank(piece[n])
    /\ \A m \in DOMAIN pieces : \A n \in DOMAIN pieces[m] : BeginsAtBlank(pieces[m][n])

\* Two pieces of a part that come one after the other in a request have a
\* blank between them in what saveToSSMLString writes: it trims the spaces a
\* piece begins with.
BlankBetweenPieces ==
    \A n \in DOMAIN res : \A m \in DOMAIN res[n] : \A x \in 1 .. Len(res[n][m]) - 1 :
        LET p == res[n][m][x]
            q == res[n][m][x + 1]
            str == doc[q.of][q.part].text
        IN  p.part = q.part =>
                \A j \in 1 .. Len(str) - 1 :
                    Offset(str, j) = q.from => str[j] \in Chunks!Blanks \/ str[j + 1] # "space"

==============================================================================
