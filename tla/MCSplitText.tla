----------------------------- MODULE MCSplitText -----------------------------
(* The splitter on all texts of a bounded length. *)
EXTENDS SplitText, SequencesExt

CONSTANT MaxLen  \* bound: the length of a text

\* getNextSplit never looks at the first rune, so any letter stands there.
AllTexts == {<<>>} \cup {<<"letter">> \o rest : rest \in SeqOf(Chars, MaxLen - 1)}

==============================================================================
