----------------------------- MODULE MCSplitSSML -----------------------------
(* The SSML splitter on documents of a few short texts and pauses. *)
EXTENDS SplitSSML, SequencesExt

CONSTANTS
    MaxLen,     \* bound: the length of a part in a document of one text
    MaxParts,   \* bound: the parts of that text
    MaxItems,   \* bound: the texts and pauses of a longer document
    ItemLen,    \* bound: the length of a part in a longer document
    ItemParts   \* bound: the parts of a text in a longer document

\* The parser gives no part that is empty or has a blank around it.
Trimmed(str) ==
    /\ str[1] = "letter"
    /\ str[Len(str)] = "letter"
    /\ \A n \in 1 .. Len(str) - 1 : ~(str[n] = "space" /\ str[n + 1] = "space")

Words(len) ==
    {str \in UNION {[1 .. n -> {"letter", "space"}] : n \in 1 .. len} : Trimmed(str)}

\* A part with an accent is one word.
TextParts(len) ==
    [acc : {FALSE}, text : Words(len)]
        \cup [acc : {TRUE}, text : {str \in Words(len) : \A n \in DOMAIN str : str[n] = "letter"}]

\* One item with long parts, or several with short ones.
AllDocuments ==
    SeqOf(SeqOf(TextParts(MaxLen), MaxParts), 1)
        \cup SeqOf(SeqOf(TextParts(ItemLen), ItemParts), MaxItems)

==============================================================================
