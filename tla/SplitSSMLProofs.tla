---------------------------- MODULE SplitSSMLProofs ----------------------------
(***************************************************************************)
(* Proofs about the SSML side of the splitter, for every document the      *)
(* parser may give and every length of chunks.  The heart of the invariant *)
(* is how far getPartsTo is ahead of the chunks: it takes a chunk that     *)
(* ends with a part for one that ends with the space after it, and is one  *)
(* rune ahead from then on, never two.                                     *)
(***************************************************************************)
EXTENDS SplitSSML, TLAPS, FiniteSetTheorems, SequenceTheorems

Cutter == INSTANCE SplitTextProofs WITH Texts <- {}

-----------------------------------------------------------------------------
(* Sequences of sequences. *)

\* A set of numbers has a least one.
LEMMA LeastNumber ==
    ASSUME NEW T, T \subseteq Nat, T # {}
    PROVE  \E n \in T : \A m \in T : n <= m
<1> DEFINE R == {p \in Nat \X Nat : p[1] < p[2]}
<1>1. IsWellFoundedOn(R, Nat)
  <2>1. R = OpToRel(<, Nat)
    BY DEF OpToRel
  <2> QED
    BY <2>1, NatLessThanWellFounded
<1>2. PICK n \in T : \A m \in T : <<m, n>> \notin R
  <2> HIDE DEF R
  <2> QED
    BY <1>1, WFMin
<1>3. ASSUME NEW m \in T, m < n PROVE FALSE
  <2>1. <<m, n>> \in R
    BY <1>3
  <2> QED
    BY <2>1, <1>2
<1> QED
  BY <1>2, <1>3

\* The members of a sequence one is appended to.
LEMMA Appended ==
    ASSUME NEW T, NEW ss \in Seq(T), NEW x \in T, NEW tt, tt = Append(ss, x)
    PROVE  /\ tt \in Seq(T) /\ tt # <<>>
           /\ Len(tt) = Len(ss) + 1 /\ Len(ss) \in Nat /\ tt[Len(tt)] = x
           /\ \A n \in DOMAIN tt : (n \in DOMAIN ss /\ tt[n] = ss[n]) \/ (n = Len(tt) /\ tt[n] = x)
           /\ \A n \in DOMAIN ss : n \in DOMAIN tt /\ tt[n] = ss[n]
<1>1. PICK l \in Nat : l = Len(ss)
  BY LenProperties
<1>2. /\ tt \in Seq(T) /\ tt # <<>> /\ Len(tt) = l + 1
      /\ \A n \in 1 .. l : tt[n] = ss[n]
      /\ tt[l + 1] = x
  BY <1>1, AppendProperties
<1>3. DOMAIN tt = 1 .. l + 1 /\ DOMAIN ss = 1 .. l
  BY <1>1, <1>2, LenProperties
<1> QED  BY <1>1, <1>2, <1>3

\* f holds the first n results of the loop of FlattenSeq.
Flattens(f, ss, n) == f = [j \in 1 .. n |-> IF j = 1 THEN ss[j] ELSE f[j - 1] \o ss[j]]

LEMMA FlattensAt ==
    ASSUME NEW f, NEW ss, NEW n \in Nat, Flattens(f, ss, n), NEW j \in 1 .. n
    PROVE  f[j] = IF j = 1 THEN ss[1] ELSE f[j - 1] \o ss[j]
BY DEF Flattens

LEMMA FlattensExists ==
    ASSUME NEW ss, NEW n \in Nat
    PROVE  \E f : Flattens(f, ss, n)
<1> DEFINE T == {m \in 1 .. n : ~\E f : Flattens(f, ss, m)}
<1> SUFFICES ASSUME T # {} PROVE FALSE
  <2>1. CASE n = 0
    <3>1. Flattens([j \in 1 .. 0 |-> 0], ss, 0)
      BY DEF Flattens
    <3> QED  BY <2>1, <3>1
  <2>2. CASE n # 0
    <3>1. n \in 1 .. n
      BY <2>2
    <3> QED  BY <3>1
  <2> QED  BY <2>1, <2>2
<1>1. PICK m \in T : \A l \in T : m <= l
  <2>1. T \subseteq Nat
    OBVIOUS
  <2> HIDE DEF T
  <2> QED  BY <2>1, LeastNumber
<1>2. \E f : Flattens(f, ss, m - 1)
  <2>1. CASE m = 1
    <3>1. Flattens([j \in 1 .. 0 |-> 0], ss, 0)
      BY DEF Flattens
    <3> QED  BY <2>1, <3>1
  <2>2. CASE m # 1
    <3>1. m - 1 \in 1 .. n /\ ~(m <= m - 1)
      BY <2>2
    <3> QED  BY <1>1, <3>1
  <2> QED  BY <2>1, <2>2
<1>3. PICK f : Flattens(f, ss, m - 1)
  BY <1>2
<1> DEFINE g == [j \in 1 .. m |-> IF j = 1 THEN ss[1]
                               ELSE IF j = m THEN f[m - 1] \o ss[m]
                               ELSE f[j]]
<1>4. \A j \in 1 .. m : g[j] = IF j = 1 THEN ss[1] ELSE IF j = m THEN f[m - 1] \o ss[m] ELSE f[j]
  OBVIOUS
<1>5. g = [j \in 1 .. m |-> g[j]]
  OBVIOUS
<1> HIDE DEF g
<1>6. ASSUME NEW j \in 1 .. m PROVE g[j] = IF j = 1 THEN ss[j] ELSE g[j - 1] \o ss[j]
  <2>1. \A l \in 1 .. m - 1 : g[l] = f[l]
    <3>1. m - 1 \in Nat
      OBVIOUS
    <3>2. ASSUME NEW l \in 1 .. m - 1 PROVE f[l] = IF l = 1 THEN ss[1] ELSE f[l - 1] \o ss[l]
      BY <1>3, <3>1, FlattensAt
    <3> QED  BY <1>4, <3>2
  <2>2. CASE j = 1
    BY <1>4, <2>2
  <2>3. CASE j # 1 /\ j = m
    <3>1. m - 1 \in 1 .. m - 1
      BY <2>3
    <3> QED  BY <1>4, <2>1, <2>3, <3>1
  <2>4. CASE j # 1 /\ j # m
    <3>1. j \in 1 .. m - 1 /\ j - 1 \in 1 .. m - 1 /\ m - 1 \in Nat
      BY <2>4
    <3>2. f[j] = f[j - 1] \o ss[j]
      <4>1. f[j] = IF j = 1 THEN ss[1] ELSE f[j - 1] \o ss[j]
        BY <1>3, <3>1, FlattensAt
      <4> QED  BY <2>4, <4>1
    <3> QED  BY <2>1, <2>4, <3>1, <3>2
  <2> QED  BY <2>2, <2>3, <2>4
<1>7. Flattens(g, ss, m)
  BY <1>5, <1>6 DEF Flattens
<1> QED  BY <1>7

\* The first results depend on the first sequences only.
LEMMA FlattensSame ==
    ASSUME NEW f, NEW g, NEW ss, NEW tt, NEW n \in Nat, NEW m \in Nat, NEW l \in 1 .. n,
           l <= m, Flattens(f, ss, n), Flattens(g, tt, m), \A j \in 1 .. l : ss[j] = tt[j]
    PROVE  f[l] = g[l]
<1> DEFINE T == {j \in 1 .. l : f[j] # g[j]}
<1> SUFFICES ASSUME T # {} PROVE FALSE
  OBVIOUS
<1>1. PICK j \in T : \A x \in T : j <= x
  <2>1. T \subseteq Nat
    OBVIOUS
  <2> HIDE DEF T
  <2> QED  BY <2>1, LeastNumber
<1>2. j \in 1 .. n /\ j \in 1 .. m /\ ss[j] = tt[j]
  OBVIOUS
<1>3. f[j] = (IF j = 1 THEN ss[1] ELSE f[j - 1] \o ss[j])
  BY <1>2, FlattensAt
<1>4. g[j] = (IF j = 1 THEN tt[1] ELSE g[j - 1] \o tt[j])
  BY <1>2, FlattensAt
<1>5. j # 1 => f[j - 1] = g[j - 1]
  <2>1. ASSUME j # 1 PROVE j - 1 \in 1 .. l /\ ~(j <= j - 1)
    BY <2>1
  <2> QED  BY <1>1, <2>1
<1> QED  BY <1>2, <1>3, <1>4, <1>5

LEMMA FlattensType ==
    ASSUME NEW T, NEW ss \in Seq(Seq(T)), NEW f, Flattens(f, ss, Len(ss)), NEW l \in 1 .. Len(ss)
    PROVE  f[l] \in Seq(T)
<1> DEFINE B == {j \in 1 .. Len(ss) : f[j] \notin Seq(T)}
<1> SUFFICES ASSUME B # {} PROVE FALSE
  OBVIOUS
<1>1. PICK j \in B : \A x \in B : j <= x
  <2>1. B \subseteq Nat
    OBVIOUS
  <2> HIDE DEF B
  <2> QED  BY <2>1, LeastNumber
<1>2. f[j] = (IF j = 1 THEN ss[1] ELSE f[j - 1] \o ss[j]) /\ ss[j] \in Seq(T)
  BY FlattensAt
<1>3. j # 1 => f[j - 1] \in Seq(T)
  <2>1. ASSUME j # 1 PROVE j - 1 \in 1 .. Len(ss) /\ ~(j <= j - 1)
    BY <2>1
  <2> QED  BY <1>1, <2>1
<1>4. CASE j = 1
  BY <1>2, <1>4
<1>5. CASE j # 1
  BY <1>2, <1>3, <1>5, ConcatProperties
<1> QED  BY <1>4, <1>5

LEMMA FlattenIs ==
    ASSUME NEW T, NEW ss \in Seq(Seq(T)), ss # <<>>
    PROVE  \E f : Flattens(f, ss, Len(ss)) /\ Seqs!FlattenSeq(ss) = f[Len(ss)]
<1>1. Len(ss) \in Nat /\ Len(ss) # 0
  OBVIOUS
<1>2. \E f : Flattens(f, ss, Len(ss))
  BY <1>1, FlattensExists
<1> DEFINE g == CHOOSE f : Flattens(f, ss, Len(ss))
<1>3. Flattens(g, ss, Len(ss))
  BY <1>2
<1>4. Seqs!FlattenSeq(ss) = g[Len(ss)]
  BY <1>1 DEF Seqs!FlattenSeq, Flattens
<1> HIDE DEF g
<1> QED  BY <1>3, <1>4

LEMMA FlattenEmpty == Seqs!FlattenSeq(<<>>) = <<>>
BY DEF Seqs!FlattenSeq

\* Flattening gives a sequence, and a sequence appended comes at its end.
LEMMA FlattenType ==
    ASSUME NEW T, NEW ss \in Seq(Seq(T))
    PROVE  Seqs!FlattenSeq(ss) \in Seq(T)
<1>1. CASE ss = <<>>
  BY <1>1, FlattenEmpty, EmptySeq
<1>2. CASE ss # <<>>
  <2>1. Len(ss) \in 1 .. Len(ss)
    BY <1>2
  <2> QED  BY <1>2, <2>1, FlattenIs, FlattensType
<1> QED  BY <1>1, <1>2

LEMMA FlattenAppend ==
    ASSUME NEW T, NEW ss \in Seq(Seq(T)), NEW x \in Seq(T)
    PROVE  Seqs!FlattenSeq(Append(ss, x)) = Seqs!FlattenSeq(ss) \o x
<1>1. PICK tt \in Seq(Seq(T)) : tt = Append(ss, x)
  BY AppendProperties
<1>2. PICK n \in Nat : n = Len(ss)
  BY LenProperties
<1>3. /\ tt # <<>> /\ Len(tt) = n + 1
      /\ tt[n + 1] = x /\ \A j \in 1 .. n : tt[j] = ss[j]
  BY <1>1, <1>2, AppendProperties
<1>4. PICK g : Flattens(g, tt, n + 1) /\ Seqs!FlattenSeq(tt) = g[n + 1]
  BY <1>3, FlattenIs
<1>5. CASE n = 0
  <2>1. ss = <<>> /\ <<>> \o x = x
    BY <1>2, <1>5, ConcatEmptySeq, EmptySeq
  <2>2. g[1] = tt[1]
    BY <1>4, <1>5 DEF Flattens
  <2>3. Seqs!FlattenSeq(tt) = x
    BY <1>3, <1>4, <1>5, <2>2
  <2> QED  BY <1>1, <2>1, <2>3, FlattenEmpty
<1>6. CASE n # 0
  <2>1. ss # <<>> /\ n \in 1 .. n /\ n + 1 \in Nat /\ n <= n + 1 /\ n + 1 \in 1 .. n + 1 /\ n + 1 # 1
    BY <1>2, <1>6, EmptySeq
  <2>2. PICK f : Flattens(f, ss, n) /\ Seqs!FlattenSeq(ss) = f[n]
    BY <1>2, <2>1, FlattenIs
  <2>3. f[n] = g[n]
    BY <1>3, <1>4, <2>1, <2>2, FlattensSame
  <2>4. g[n + 1] = g[n] \o tt[n + 1]
    <3>1. PICK l \in Nat : l = n + 1
      BY <2>1
    <3>2. Flattens(g, tt, l) /\ l \in 1 .. l
      BY <1>4, <2>1, <3>1
    <3>3. g[l] = IF l = 1 THEN tt[1] ELSE g[l - 1] \o tt[l]
      BY <3>2, FlattensAt
    <3>4. l # 1 /\ l - 1 = n
      BY <2>1, <3>1
    <3> QED  BY <3>1, <3>3, <3>4
  <2> QED  BY <1>1, <1>3, <1>4, <2>2, <2>3, <2>4
<1> QED  BY <1>5, <1>6

\* What is added to the last sequence comes at the end, too.
LEMMA FlattenExtend ==
    ASSUME NEW T, NEW ss \in Seq(Seq(T)), ss # <<>>, NEW x \in Seq(T)
    PROVE  Seqs!FlattenSeq([ss EXCEPT ![Len(ss)] = @ \o x]) = Seqs!FlattenSeq(ss) \o x
<1>1. PICK front \in Seq(Seq(T)), last \in Seq(T) : ss = Append(front, last)
  BY SequenceEmptyOrAppend
<1>2. last \o x \in Seq(T)
  BY ConcatProperties
<1>3. PICK tt : tt = [ss EXCEPT ![Len(ss)] = @ \o x]
  OBVIOUS
<1>4. tt = Append(front, last \o x)
  <2>1. /\ Len(ss) = Len(front) + 1 /\ ss[Len(ss)] = last
        /\ \A j \in 1 .. Len(front) : ss[j] = front[j]
    BY <1>1, AppendProperties
  <2>2. Len(ss) \in 1 .. Len(ss) /\ Len(front) \in Nat
    BY <2>1, LenProperties
  <2>3. /\ tt \in Seq(Seq(T)) /\ Len(tt) = Len(ss)
        /\ \A j \in 1 .. Len(ss) : tt[j] = IF j = Len(ss) THEN last \o x ELSE ss[j]
    BY <1>2, <1>3, <2>1, <2>2, ExceptSeq
  <2>4. PICK aa : aa = Append(front, last \o x)
    OBVIOUS
  <2>5. /\ aa \in Seq(Seq(T)) /\ Len(aa) = Len(front) + 1
        /\ aa[Len(front) + 1] = last \o x
        /\ \A j \in 1 .. Len(front) : aa[j] = front[j]
    BY <1>2, <2>4, AppendProperties
  <2>6. \A j \in 1 .. Len(tt) : tt[j] = aa[j]
    <3> SUFFICES ASSUME NEW j \in 1 .. Len(tt) PROVE tt[j] = aa[j]
      OBVIOUS
    <3>1. j \in 1 .. Len(ss) /\ (j = Len(ss) \/ j \in 1 .. Len(front))
      BY <2>1, <2>2, <2>3
    <3>2. CASE j = Len(ss)
      BY <2>1, <2>2, <2>3, <2>5, <3>2
    <3>3. CASE j \in 1 .. Len(front) /\ j # Len(ss)
      BY <2>1, <2>3, <2>5, <3>1, <3>3
    <3>4. j \in 1 .. Len(front) => j # Len(ss)
      BY <2>1, <2>2
    <3> QED  BY <3>1, <3>2, <3>3, <3>4
  <2>7. tt = aa
    BY <2>1, <2>3, <2>5, <2>6, SeqEqual
  <2> QED  BY <2>4, <2>7
<1>5. Seqs!FlattenSeq(ss) = Seqs!FlattenSeq(front) \o last
  BY <1>1, FlattenAppend
<1>6. Seqs!FlattenSeq(tt) = Seqs!FlattenSeq(front) \o (last \o x)
  BY <1>2, <1>4, FlattenAppend
<1>7. (Seqs!FlattenSeq(front) \o last) \o x = Seqs!FlattenSeq(front) \o (last \o x)
  <2>1. PICK f \in Seq(T) : f = Seqs!FlattenSeq(front)
    BY FlattenType
  <2>2. (f \o last) \o x = f \o (last \o x)
    BY ConcatAssociative
  <2> QED  BY <2>1, <2>2
<1> QED  BY <1>3, <1>5, <1>6, <1>7

UpTo(ss, n) == SubSeq(ss, 1, n)

\* The first members of a sequence, and the next one.
LEMMA UpToNext ==
    ASSUME NEW T, NEW ss \in Seq(T), NEW n \in 1 .. Len(ss)
    PROVE  /\ UpTo(ss, n - 1) \in Seq(T)
           /\ Len(UpTo(ss, n - 1)) = n - 1
           /\ \A x \in 1 .. n - 1 : UpTo(ss, n - 1)[x] = ss[x]
           /\ ss[n] \in T
           /\ UpTo(ss, n) = Append(UpTo(ss, n - 1), ss[n])
<1>1. /\ Len(ss) \in Nat /\ n - 1 \in Int /\ n - 1 - 1 + 1 = n - 1
      /\ n \in 1 .. Len(ss) /\ 1 \in 1 .. Len(ss) /\ n \in 1 .. Len(ss)
  OBVIOUS
<1>2. \A x \in 1 .. Len(ss) : ss[x] \in T
  BY ElementOfSeq
<1>3. /\ UpTo(ss, n - 1) \in Seq(T)
      /\ Len(UpTo(ss, n - 1)) = n - 1
      /\ \A x \in 1 .. n - 1 : UpTo(ss, n - 1)[x] = ss[x]
  <2>1. \A x \in 1 .. n - 1 : ss[x] \in T
    BY <1>1, <1>2
  <2>2. PICK l \in Int : l = n - 1
    OBVIOUS
  <2>3. /\ SubSeq(ss, 1, l) \in Seq(T)
        /\ Len(SubSeq(ss, 1, l)) = IF 1 <= l THEN l - 1 + 1 ELSE 0
        /\ \A x \in 1 .. l - 1 + 1 : SubSeq(ss, 1, l)[x] = ss[1 + x - 1]
    BY <2>1, <2>2, SubSeqProperties
  <2>4. l \in Nat /\ l - 1 + 1 = l /\ \A x \in 1 .. l : 1 + x - 1 = x
    BY <2>2
  <2> QED  BY <2>2, <2>3, <2>4 DEF UpTo
<1>4. UpTo(ss, n) = UpTo(ss, n - 1) \o <<ss[n]>>
  BY <1>1, SubSeqRecursiveSecond DEF UpTo
<1> QED  BY <1>2, <1>3, <1>4, AppendIsConcat

LEMMA ConcatAppend ==
    ASSUME NEW T, NEW ss \in Seq(T), NEW tt \in Seq(T), NEW x \in T
    PROVE  ss \o Append(tt, x) = Append(ss \o tt, x)
<1>1. <<x>> \in Seq(T) /\ ss \o tt \in Seq(T)
  BY ConcatProperties
<1>2. ss \o Append(tt, x) = ss \o (tt \o <<x>>)
  BY AppendIsConcat
<1>3. Append(ss \o tt, x) = (ss \o tt) \o <<x>>
  BY <1>1, AppendIsConcat
<1> QED  BY <1>1, <1>2, <1>3, ConcatAssociative

LEMMA FlattenConcatNext ==
    ASSUME NEW T, NEW ss \in Seq(Seq(T)), NEW tt \in Seq(Seq(T)), NEW x \in Seq(T),
           Seqs!FlattenSeq(ss \o tt) = Seqs!FlattenSeq(ss) \o Seqs!FlattenSeq(tt)
    PROVE  Seqs!FlattenSeq(ss \o Append(tt, x)) = Seqs!FlattenSeq(ss) \o Seqs!FlattenSeq(Append(tt, x))
<1>1. ss \o tt \in Seq(Seq(T))
  BY ConcatProperties
<1>2. ss \o Append(tt, x) = Append(ss \o tt, x)
  BY ConcatAppend
<1>3. Seqs!FlattenSeq(ss \o Append(tt, x)) = Seqs!FlattenSeq(ss \o tt) \o x
  BY <1>1, <1>2, FlattenAppend
<1>4. Seqs!FlattenSeq(Append(tt, x)) = Seqs!FlattenSeq(tt) \o x
  BY FlattenAppend
<1>5. Seqs!FlattenSeq(ss) \in Seq(T) /\ Seqs!FlattenSeq(tt) \in Seq(T)
  BY FlattenType
<1>6. (Seqs!FlattenSeq(ss) \o Seqs!FlattenSeq(tt)) \o x = Seqs!FlattenSeq(ss) \o (Seqs!FlattenSeq(tt) \o x)
  BY <1>5, ConcatAssociative
<1> QED  BY <1>3, <1>4, <1>6

LEMMA FlattenConcat ==
    ASSUME NEW T, NEW ss \in Seq(Seq(T)), NEW tt \in Seq(Seq(T))
    PROVE  Seqs!FlattenSeq(ss \o tt) = Seqs!FlattenSeq(ss) \o Seqs!FlattenSeq(tt)
<1> DEFINE Good(n) == Seqs!FlattenSeq(ss \o UpTo(tt, n)) = Seqs!FlattenSeq(ss) \o Seqs!FlattenSeq(UpTo(tt, n))
<1> DEFINE B == {n \in 0 .. Len(tt) : ~Good(n)}
<1>1. B = {}
  <2> SUFFICES ASSUME B # {} PROVE FALSE
    OBVIOUS
  <2>1. PICK n \in B : \A m \in B : n <= m
    <3>1. B \subseteq Nat
      OBVIOUS
    <3> HIDE DEF B
    <3> QED  BY <3>1, LeastNumber
  <2>2. n \in 0 .. Len(tt) /\ ~Good(n)
    OBVIOUS
  <2> HIDE DEF B
  <2>3. CASE n = 0
    <3>1. UpTo(tt, n) = <<>>
      BY <2>3, SubSeqEmpty DEF UpTo
    <3>2. /\ ss \o <<>> = ss
          /\ Seqs!FlattenSeq(ss) \o <<>> = Seqs!FlattenSeq(ss)
      BY FlattenType, ConcatEmptySeq
    <3>3. Good(n)
      BY <3>1, <3>2, FlattenEmpty
    <3> QED  BY <2>2, <3>3
  <2>4. CASE n # 0
    <3>1. n \in 1 .. Len(tt) /\ n - 1 \in 0 .. Len(tt) /\ ~(n <= n - 1)
      BY <2>2, <2>4
    <3>2. Good(n - 1)
      BY <2>1, <3>1 DEF B
    <3>3. PICK c \in Seq(Seq(T)) : c = UpTo(tt, n - 1)
      BY <3>1, UpToNext
    <3>4. PICK x \in Seq(T) : x = tt[n]
      BY <3>1, UpToNext
    <3>5. UpTo(tt, n) = Append(c, x)
      BY <3>1, <3>3, <3>4, UpToNext
    <3>6. Seqs!FlattenSeq(ss \o c) = Seqs!FlattenSeq(ss) \o Seqs!FlattenSeq(c)
      BY <3>2, <3>3
    <3> HIDE DEF Good
    <3>7. Seqs!FlattenSeq(ss \o Append(c, x)) = Seqs!FlattenSeq(ss) \o Seqs!FlattenSeq(Append(c, x))
      BY <3>3, <3>4, <3>6, FlattenConcatNext
    <3>8. Good(n)
      BY <3>5, <3>7 DEF Good
    <3> QED  BY <2>2, <3>8
  <2> QED  BY <2>3, <2>4
<1>2. Len(tt) \in 0 .. Len(tt)
  BY LenProperties
<1>3. Good(Len(tt))
  BY <1>1, <1>2
<1>4. UpTo(tt, Len(tt)) = tt
  BY SubSeqFull DEF UpTo
<1> QED  BY <1>3, <1>4

-----------------------------------------------------------------------------
(* The joined text. *)

\* Parts with characters in all of them, none with a blank at its end.
Proper(parts) ==
    /\ parts \in Seq(TextPart)
    /\ \A n \in DOMAIN parts :
        parts[n].text # <<>> /\ parts[n].text[Len(parts[n].text)] \notin Chunks!Blanks

\* Where the nth part begins in the text; for the one after the last, where
\* it would.
PartStart(parts, n) == IF n = 1 THEN 0 ELSE Len(Join(UpTo(parts, n - 1))) + 1

Joined(parts) == [n \in DOMAIN parts |-> Space(parts, n) \o parts[n].text]

LEMMA JoinedType ==
    ASSUME NEW parts \in Seq(TextPart)
    PROVE  /\ Joined(parts) \in Seq(Seq(Chunks!Chars))
           /\ Len(Joined(parts)) = Len(parts)
           /\ \A n \in 1 .. Len(parts) : Joined(parts)[n] = Space(parts, n) \o parts[n].text
<1>1. ASSUME NEW n \in 1 .. Len(parts)
      PROVE  Space(parts, n) \o parts[n].text \in Seq(Chunks!Chars)
  <2>1. <<"space">> \in Seq(Chunks!Chars) /\ <<>> \in Seq(Chunks!Chars)
    BY DEF Chunks!Chars
  <2>2. Space(parts, n) \in Seq(Chunks!Chars)
    BY <2>1 DEF Space
  <2>3. parts[n] \in TextPart
    BY ElementOfSeq
  <2>4. parts[n].text \in Seq(Chunks!Chars)
    BY <2>3 DEF TextPart
  <2> QED  BY <2>2, <2>4, ConcatProperties
<1>2. DOMAIN parts = 1 .. Len(parts) /\ Len(parts) \in Nat
  OBVIOUS
<1>3. Joined(parts) = [n \in 1 .. Len(parts) |-> Space(parts, n) \o parts[n].text]
  BY <1>2 DEF Joined
<1> QED  BY <1>1, <1>2, <1>3, IsASeq

LEMMA JoinType ==
    ASSUME NEW parts \in Seq(TextPart)
    PROVE  Join(parts) \in Seq(Chunks!Chars) /\ Len(Join(parts)) \in Nat
<1>1. Join(parts) = Seqs!FlattenSeq(Joined(parts))
  BY DEF Join, Joined
<1>2. Join(parts) \in Seq(Chunks!Chars)
  BY <1>1, JoinedType, FlattenType
<1> QED  BY <1>2, LenProperties

\* A part more: it comes after a space, unless it is the first.
LEMMA JoinAppend ==
    ASSUME NEW parts \in Seq(TextPart), NEW p \in TextPart,
           \A n \in DOMAIN parts : parts[n].text # <<>>
    PROVE  Join(Append(parts, p)) =
             Join(parts) \o ((IF parts = <<>> THEN <<>> ELSE <<"space">>) \o p.text)
<1>1. PICK qs \in Seq(TextPart) : qs = Append(parts, p)
  BY AppendProperties
<1>2. PICK m \in Nat : m = Len(parts)
  BY LenProperties
<1>3. /\ Len(qs) = m + 1 /\ qs[m + 1] = p
      /\ \A n \in 1 .. m : qs[n] = parts[n]
      /\ DOMAIN parts = 1 .. m
  BY <1>1, <1>2, AppendProperties
<1>4. PICK last : last = (IF parts = <<>> THEN <<>> ELSE <<"space">>) \o p.text
  OBVIOUS
<1>5. Space(qs, m + 1) = IF parts = <<>> THEN <<>> ELSE <<"space">>
  <2>1. (\E n \in 1 .. m + 1 - 1 : qs[n].text # <<>>) <=> m # 0
    <3>1. m + 1 - 1 = m
      OBVIOUS
    <3>2. CASE m = 0
      BY <3>2
    <3>3. CASE m # 0
      <4>1. 1 \in 1 .. m /\ qs[1] = parts[1] /\ parts[1].text # <<>>
        BY <1>3, <3>3
      <4> QED  BY <3>1, <3>3, <4>1
    <3> QED  BY <3>2, <3>3
  <2>2. m # 0 <=> parts # <<>>
    BY <1>2, EmptySeq
  <2> QED  BY <2>1, <2>2 DEF Space
<1>6. last \in Seq(Chunks!Chars)
  <2>1. PICK l \in 1 .. Len(qs) : l = m + 1
    BY <1>2, <1>3
  <2>2. Joined(qs)[l] = Space(qs, l) \o qs[l].text
    BY JoinedType
  <2>3. Joined(qs) \in Seq(Seq(Chunks!Chars)) /\ l \in 1 .. Len(Joined(qs))
    BY JoinedType
  <2>4. Joined(qs)[l] \in Seq(Chunks!Chars)
    BY <2>3, ElementOfSeq
  <2> QED  BY <1>3, <1>4, <1>5, <2>1, <2>2, <2>4
<1>7. Joined(qs) = Append(Joined(parts), last)
  <2>1. PICK aa : aa = Append(Joined(parts), last)
    OBVIOUS
  <2>2. /\ aa \in Seq(Seq(Chunks!Chars)) /\ Len(aa) = m + 1
        /\ aa[m + 1] = last
        /\ \A n \in 1 .. m : aa[n] = Joined(parts)[n]
    BY <1>2, <1>6, <2>1, JoinedType, AppendProperties
  <2>3. Joined(qs) \in Seq(Seq(Chunks!Chars)) /\ Len(Joined(qs)) = m + 1
    BY <1>3, JoinedType
  <2>4. ASSUME NEW n \in 1 .. m + 1 PROVE Joined(qs)[n] = aa[n]
    <3>1. Joined(qs)[n] = Space(qs, n) \o qs[n].text
      BY <1>3, JoinedType
    <3>2. CASE n = m + 1
      BY <1>3, <1>4, <1>5, <2>2, <3>1, <3>2
    <3>3. CASE n # m + 1
      <4>1. n \in 1 .. m
        BY <3>3
      <4>2. \A x \in 1 .. n - 1 : qs[x] = parts[x]
        BY <1>3, <4>1
      <4>3. Space(qs, n) = Space(parts, n)
        BY <4>2 DEF Space
      <4>4. Joined(parts)[n] = Space(parts, n) \o parts[n].text
        BY <1>2, <4>1, JoinedType
      <4> QED  BY <1>3, <2>2, <3>1, <4>1, <4>3, <4>4
    <3> QED  BY <3>2, <3>3
  <2> QED  BY <2>1, <2>2, <2>3, <2>4, SeqEqual
<1>8. Join(qs) = Seqs!FlattenSeq(Joined(parts)) \o last
  <2>1. Join(qs) = Seqs!FlattenSeq(Append(Joined(parts), last))
    BY <1>7 DEF Join, Joined
  <2> QED  BY <1>6, <2>1, JoinedType, FlattenAppend
<1> QED  BY <1>1, <1>4, <1>8 DEF Join, Joined

LEMMA JoinEmpty == Join(<<>>) = <<>> /\ Len(Join(<<>>)) = 0
<1>1. [n \in DOMAIN <<>> |-> Space(<<>>, n) \o <<>>[n].text] = <<>>
  OBVIOUS
<1> QED  BY <1>1, FlattenEmpty DEF Join

\* The text of the parts up to the nth: the one before, a space, and the part.
LEMMA JoinNext ==
    ASSUME NEW parts, Proper(parts), NEW n \in 1 .. Len(parts)
    PROVE  /\ Len(parts[n].text) \in Nat \ {0}
           /\ PartStart(parts, n) \in Nat
           /\ Len(Join(UpTo(parts, n))) = PartStart(parts, n) + Len(parts[n].text)
           /\ Len(Join(UpTo(parts, n - 1))) <= PartStart(parts, n)
           /\ \A x \in 1 .. Len(Join(UpTo(parts, n - 1))) :
                Join(UpTo(parts, n))[x] = Join(UpTo(parts, n - 1))[x]
           /\ \A x \in 1 .. Len(parts[n].text) :
                Join(UpTo(parts, n))[PartStart(parts, n) + x] = parts[n].text[x]
<1>1. parts \in Seq(TextPart) /\ n \in Nat
  BY DEF Proper
<1> DEFINE before == UpTo(parts, n - 1)
<1>2. /\ before \in Seq(TextPart) /\ Len(before) = n - 1
      /\ \A x \in 1 .. n - 1 : before[x] = parts[x]
      /\ parts[n] \in TextPart
      /\ UpTo(parts, n) = Append(before, parts[n])
  BY <1>1, UpToNext
<1> HIDE DEF before
<1>3. \A x \in DOMAIN before : before[x].text # <<>>
  <2>1. DOMAIN before = 1 .. n - 1 /\ \A x \in 1 .. n - 1 : x \in DOMAIN parts
    BY <1>1, <1>2
  <2> QED  BY <1>2, <2>1 DEF Proper
<1>4. PICK sp : sp = IF before = <<>> THEN <<>> ELSE <<"space">>
  OBVIOUS
<1>5. PICK str : str = parts[n].text
  OBVIOUS
<1>6. str \in Seq(Chunks!Chars) /\ Len(str) \in Nat \ {0}
  <2>1. str \in Seq(Chunks!Chars) /\ n \in DOMAIN parts
    BY <1>1, <1>2, <1>5 DEF TextPart
  <2>2. str # <<>>
    BY <1>5, <2>1 DEF Proper
  <2> QED  BY <2>1, <2>2, EmptySeq
<1>7. sp \in Seq(Chunks!Chars) /\ Len(sp) = IF n = 1 THEN 0 ELSE 1
  <2>1. before = <<>> <=> n = 1
    BY <1>1, <1>2, EmptySeq
  <2>2. <<"space">> \in Seq(Chunks!Chars) /\ Len(<<"space">>) = 1
    BY DEF Chunks!Chars
  <2>3. <<>> \in Seq(Chunks!Chars) /\ Len(<<>>) = 0
    BY EmptySeq
  <2>4. CASE n = 1
    BY <1>4, <2>1, <2>3, <2>4
  <2>5. CASE n # 1
    BY <1>4, <2>1, <2>2, <2>5
  <2> QED  BY <2>4, <2>5
<1>8. PICK joined : joined = Join(before)
  OBVIOUS
<1>9. joined \in Seq(Chunks!Chars) /\ Len(joined) \in Nat
  BY <1>2, <1>8, JoinType
<1>10. Join(UpTo(parts, n)) = joined \o (sp \o str)
  BY <1>2, <1>3, <1>4, <1>5, <1>8, JoinAppend
<1>11. PartStart(parts, n) = Len(joined) + Len(sp)
  <2>1. CASE n = 1
    <3>1. before = <<>>
      BY <1>2, <2>1, EmptySeq
    <3>2. Len(joined) = 0
      BY <1>8, <3>1, JoinEmpty
    <3> QED  BY <1>7, <2>1, <3>2 DEF PartStart
  <2>2. CASE n # 1
    BY <1>7, <1>8, <2>2 DEF PartStart, before
  <2> QED  BY <2>1, <2>2
<1>12. PICK tail : tail = sp \o str
  OBVIOUS
<1>13. /\ tail \in Seq(Chunks!Chars) /\ Len(tail) = Len(sp) + Len(str)
       /\ \A x \in 1 .. Len(sp) + Len(str) : tail[x] = IF x <= Len(sp) THEN sp[x] ELSE str[x - Len(sp)]
  BY <1>6, <1>7, <1>12, ConcatProperties
<1>14. PICK all : all = joined \o tail
  OBVIOUS
<1>15. /\ Len(all) = Len(joined) + Len(tail)
       /\ \A x \in 1 .. Len(joined) + Len(tail) :
            all[x] = IF x <= Len(joined) THEN joined[x] ELSE tail[x - Len(joined)]
  <2>1. joined \in Seq(Chunks!Chars) /\ tail \in Seq(Chunks!Chars)
    BY <1>9, <1>13
  <2> QED  BY <1>14, <2>1, ConcatProperties
<1>16. Len(sp) \in Nat
  BY <1>7
<1>17. ASSUME NEW x \in 1 .. Len(str)
       PROVE  all[Len(joined) + Len(sp) + x] = str[x]
  <2>1. PICK y : y = Len(sp) + x
    OBVIOUS
  <2>2. PICK z : z = Len(joined) + Len(sp) + x
    OBVIOUS
  <2>3. /\ y \in 1 .. Len(sp) + Len(str) /\ ~(y <= Len(sp)) /\ y - Len(sp) = x
        /\ z \in 1 .. Len(joined) + Len(tail) /\ ~(z <= Len(joined)) /\ z - Len(joined) = y
    BY <1>6, <1>9, <1>13, <1>16, <2>1, <2>2
  <2> QED  BY <1>13, <1>15, <2>2, <2>3
<1>18. Len(all) = Len(joined) + Len(sp) + Len(str)
  BY <1>6, <1>9, <1>13, <1>15, <1>16
<1>19. \A x \in 1 .. Len(joined) : all[x] = joined[x]
  <2>1. ASSUME NEW x \in 1 .. Len(joined)
        PROVE  x \in 1 .. Len(joined) + Len(tail) /\ x <= Len(joined)
    BY <1>6, <1>9, <1>13, <1>16
  <2> QED  BY <1>15, <2>1
<1>20. Join(UpTo(parts, n)) = all
  BY <1>10, <1>12, <1>14
<1>21. Join(UpTo(parts, n - 1)) = joined
  BY <1>8 DEF before
<1>22. Len(joined) <= Len(joined) + Len(sp) /\ Len(joined) + Len(sp) \in Nat
  BY <1>9, <1>16
<1> QED  BY <1>5, <1>6, <1>11, <1>17, <1>18, <1>19, <1>20, <1>21, <1>22

\* Where the next part begins.
LEMMA StartNext ==
    ASSUME NEW parts, Proper(parts), NEW n \in 1 .. Len(parts)
    PROVE  PartStart(parts, n + 1) = PartStart(parts, n) + Len(parts[n].text) + 1
<1>1. n + 1 - 1 = n /\ n + 1 # 1 /\ n \in Nat
  OBVIOUS
<1>2. PartStart(parts, n + 1) = Len(Join(UpTo(parts, n))) + 1
  BY <1>1 DEF PartStart
<1> QED  BY <1>2, JoinNext

\* The rune of a part in the whole text.
LEMMA RuneOfPart ==
    ASSUME NEW parts, Proper(parts), NEW n \in 1 .. Len(parts), NEW x \in 1 .. Len(parts[n].text)
    PROVE  /\ PartStart(parts, n) + x \in 1 .. Len(Join(parts))
           /\ Join(parts)[PartStart(parts, n) + x] = parts[n].text[x]
<1>1. parts \in Seq(TextPart) /\ Len(parts) \in Nat
  BY DEF Proper
<1>2. PICK y : y = PartStart(parts, n) + x
  OBVIOUS
<1> DEFINE Good(l) == y \in 1 .. Len(Join(UpTo(parts, l))) /\ Join(UpTo(parts, l))[y] = parts[n].text[x]
<1> DEFINE T == {l \in n .. Len(parts) : ~Good(l)}
<1>3. T = {}
  <2> SUFFICES ASSUME T # {} PROVE FALSE
    OBVIOUS
  <2>1. PICK l \in T : \A z \in T : l <= z
    <3>1. T \subseteq Nat
      BY <1>1
    <3> HIDE DEF T
    <3> QED  BY <3>1, LeastNumber
  <2>2. l \in 1 .. Len(parts) /\ l \in n .. Len(parts) /\ ~Good(l)
    BY <1>1
  <2> HIDE DEF T
  <2>3. CASE l = n
    <3>1. y \in 1 .. Len(Join(UpTo(parts, n)))
      BY <1>2, JoinNext
    <3>2. Join(UpTo(parts, n))[y] = parts[n].text[x]
      BY <1>2, JoinNext
    <3> QED  BY <2>2, <2>3, <3>1, <3>2
  <2>4. CASE l # n
    <3>1. l - 1 \in n .. Len(parts) /\ ~(l <= l - 1)
      BY <1>1, <2>2, <2>4
    <3>2. Good(l - 1)
      BY <2>1, <3>1 DEF T
    <3>3. /\ Len(Join(UpTo(parts, l))) = PartStart(parts, l) + Len(parts[l].text)
          /\ Len(Join(UpTo(parts, l - 1))) <= PartStart(parts, l)
          /\ PartStart(parts, l) \in Nat /\ Len(parts[l].text) \in Nat
          /\ Join(UpTo(parts, l))[y] = Join(UpTo(parts, l - 1))[y]
      BY <2>2, <3>2, JoinNext
    <3>4. Len(Join(UpTo(parts, l - 1))) \in Nat
      BY <1>1, <2>2, UpToNext, JoinType
    <3>5. y \in 1 .. Len(Join(UpTo(parts, l)))
      BY <3>2, <3>3, <3>4
    <3> QED  BY <2>2, <3>2, <3>3, <3>5
  <2> QED  BY <2>3, <2>4
<1>4. Len(parts) \in n .. Len(parts)
  BY <1>1
<1>5. Good(Len(parts))
  BY <1>3, <1>4
<1>6. UpTo(parts, Len(parts)) = parts
  BY <1>1, SubSeqFull DEF UpTo
<1> QED  BY <1>2, <1>5, <1>6

\* Where a part after the last would begin.
LEMMA StartAfterLast ==
    ASSUME NEW parts, Proper(parts), parts # <<>>
    PROVE  /\ PartStart(parts, Len(parts) + 1) = Len(Join(parts)) + 1
           /\ Len(Join(parts)) \in Nat
<1>1. parts \in Seq(TextPart)
  BY DEF Proper
<1>2. Len(parts) \in Nat \ {0}
  BY <1>1, EmptySeq
<1>3. Len(parts) + 1 # 1 /\ Len(parts) + 1 - 1 = Len(parts)
  BY <1>2
<1>4. UpTo(parts, Len(parts)) = parts
  BY <1>1, SubSeqFull DEF UpTo
<1> QED  BY <1>1, <1>3, <1>4, JoinType DEF PartStart

-----------------------------------------------------------------------------
(* The invariant of the finder. *)

\* A piece of a part of the document, or a pause of it.
Piece ==
    {p \in [of : Nat, part : Nat, from : Nat, to : Nat] :
        p.of \in DOMAIN doc /\ p.part \in 0 .. Len(doc[p.of])}

\* The text k is being split, or its chunks are being gathered.
Splitting == pc \in {"chunk", "scan", "cut", "done", "error"}

SSMLTypeOK ==
    /\ doc \in Documents
    /\ k \in 1 .. Len(doc) + 1
    /\ pc \in {"part", "chunk", "scan", "cut", "done", "error", "saved"}
    /\ pPart \in Nat \ {0}
    /\ pText \in Nat
    /\ from \in Nat
    /\ piece \in Seq(Piece)
    /\ pieces \in Seq(Seq(Piece))
    /\ merged \in 0 .. Len(pieces)
    /\ cParts \in Seq(Seq(Piece))
    /\ cPart \in BOOLEAN
    /\ res \in Seq(Seq(Seq(Piece)))
    /\ text \in Seq(Chunks!Chars)
    /\ at \in 0 .. Len(text)
    /\ i \in 0 .. Interval
    /\ s \in [1 .. 3 -> {"space", "newline", "stop", "upper", "other"}]
    /\ best \in {-1} \cup Nat
    /\ bestV \in 0 .. 3
    /\ cuts \in Seq(Nat)

\* The rune of the text the finder has come to.
Found == PartStart(Parts, pPart) + pText

\* How far the finder was ahead when it began with the chunk.
Ahead == Found - at - from

\* Where the finder is in the parts: after the last one, or in one that it
\* has left at a blank.
PlaceInv ==
    /\ pPart \in 1 .. Len(Parts) + 1
    /\ pPart = Len(Parts) + 1 => pText = 0
    /\ pPart # Len(Parts) + 1 => pText < Len(Parts[pPart].text)
    /\ pText > 0 => {Parts[pPart].text[pText], Parts[pPart].text[pText + 1]} \cap Chunks!Blanks # {}

\* It is one rune ahead of the chunks at most: it goes beyond a chunk when
\* that ends with a part, which can't happen twice in a row.
AheadInv ==
    /\ Ahead \in {0, 1}
    /\ pc = "cut" => from <= best \/ (from = best + 1 /\ Ahead = 0)

TextInv ==
    Splitting =>
        /\ k \in DOMAIN doc
        /\ Parts # Pause
        /\ text = Join(Parts)
        /\ pc # "done" => merged = 0
        /\ cPart => cParts # <<>>
        /\ PlaceInv
        /\ AheadInv

\* Between the chunks nothing is half found.
FreshInv == pc # "cut" => from = 0 /\ piece = <<>>

FinderInv ==
    /\ SSMLTypeOK
    /\ TextInv
    /\ FreshInv
    /\ Splitting => Cutter!IInv

-----------------------------------------------------------------------------
(* Each step keeps it. *)

USE StartAssumption, IntervalAssumption

LEMMA ProperParts ==
    ASSUME doc \in Documents, NEW n \in DOMAIN doc
    PROVE  Proper(doc[n])
<1>1. doc \in Seq(Seq(TextPart))
  BY DocumentsAssumption
<1>2. doc[n] \in Seq(TextPart)
  BY <1>1
<1>3. \A m \in DOMAIN doc[n] :
        doc[n][m].text # <<>> /\ doc[n][m].text[Len(doc[n][m].text)] \notin Chunks!Blanks
  BY DocumentsAssumption
<1> QED  BY <1>2, <1>3 DEF Proper

\* The steps of the splitter of plain texts are the ones it is proved about.
LEMMA SameFind == Chunks!Scan \/ Chunks!Finish => Cutter!Scan \/ Cutter!Finish
<1>1. Chunks!Finish => Cutter!Finish
  BY DEF Chunks!Finish, Cutter!Finish, Chunks!Rest, Cutter!Rest, Chunks!window, Cutter!window
<1>2. Chunks!TakeRest => Cutter!TakeRest
  BY DEF Chunks!TakeRest, Cutter!TakeRest, Chunks!Rest, Cutter!Rest
<1>3. Chunks!OpenWindow => Cutter!OpenWindow
  BY DEF Chunks!OpenWindow, Cutter!OpenWindow, Chunks!Rest, Cutter!Rest, Chunks!NoPattern, Cutter!NoPattern
<1>4. Chunks!CloseWindow => Cutter!CloseWindow
  BY DEF Chunks!CloseWindow, Cutter!CloseWindow, Chunks!window, Cutter!window
<1>5. Chunks!Look => Cutter!Look
  <2>1. \A str : /\ Chunks!ParagraphEnd(str) <=> Cutter!ParagraphEnd(str)
                 /\ Chunks!LineEnd(str) <=> Cutter!LineEnd(str)
                 /\ Chunks!SentenceEnd(str) <=> Cutter!SentenceEnd(str)
    BY DEF Chunks!ParagraphEnd, Cutter!ParagraphEnd, Chunks!LineEnd, Cutter!LineEnd,
       Chunks!SentenceEnd, Cutter!SentenceEnd
  <2>2. \A str, r : Chunks!Better(str, r) = Cutter!Better(str, r)
    BY <2>1 DEF Chunks!Better, Cutter!Better
  <2>3. \A str, r : Chunks!NewPattern(str, r) = Cutter!NewPattern(str, r)
    BY DEF Chunks!NewPattern, Cutter!NewPattern, Chunks!Push, Cutter!Push, Chunks!Kind, Cutter!Kind
  <2>4. \A n : Chunks!Rune(n) = Cutter!Rune(n)
    BY DEF Chunks!Rune, Cutter!Rune
  <2> QED  BY <2>1, <2>2, <2>3, <2>4 DEF Chunks!Look, Cutter!Look
<1> QED
  BY <1>1, <1>2, <1>3, <1>4, <1>5 DEF Chunks!Scan, Cutter!Scan

LEMMA SameCut == Chunks!Cut => Cutter!Cut
BY DEF Chunks!Cut, Cutter!Cut, Chunks!window, Cutter!window

LEMMA FindKeepsCutter ==
    ASSUME Cutter!IInv, Chunks!Scan \/ Chunks!Finish
    PROVE  Cutter!IInv'
<1>1. Cutter!Scan \/ Cutter!Finish
  BY SameFind
<1>2. CASE Cutter!Look
  BY <1>2, Cutter!LookKeepsInv
<1>3. CASE Cutter!Finish \/ Cutter!TakeRest \/ Cutter!OpenWindow \/ Cutter!CloseWindow
  BY <1>3, Cutter!OthersKeepInv
<1> QED  BY <1>1, <1>2, <1>3 DEF Cutter!Scan

LEMMA CutKeepsCutter == ASSUME Cutter!IInv, Chunks!Cut PROVE Cutter!IInv'
BY SameCut, Cutter!CutKeepsInv

LEMMA IdleKeepsCutter == ASSUME Cutter!IInv, UNCHANGED cutting PROVE Cutter!IInv'
<1>1. UNCHANGED Cutter!vars
  BY DEF cutting, Cutter!vars, Cutter!window
<1> QED  BY <1>1, Cutter!OthersKeepInv

\* What the invariant of the splitter says of a chunk that was found.
LEMMA ChunkFound ==
    ASSUME SSMLTypeOK, Cutter!IInv, pc = "cut"
    PROVE  /\ best \in Nat \ {0}
           /\ best <= Start + Interval - 1
           /\ at + best <= Len(text)
           /\ at + best < Len(text) => text[at + best + 1] \in Chunks!Blanks
           /\ at \in Nat /\ Len(text) \in Nat
<1>1. /\ best \in 1 .. Start + Interval - 1
      /\ best <= Len(text) - at
      /\ best < Len(text) - at => text[at + best + 1] \in Cutter!Blanks
  BY DEF Cutter!IInv, Cutter!CutInv, Cutter!Rest, Cutter!Rune
<1>2. at \in Nat /\ Len(text) \in Nat
  BY DEF SSMLTypeOK
<1> QED  BY <1>1, <1>2 DEF Cutter!Blanks, Chunks!Blanks

LEMMA InitKeeps == Init => FinderInv
<1> SUFFICES ASSUME Init PROVE FinderInv
  OBVIOUS
<1>1. doc \in Seq(Seq(TextPart))
  BY DocumentsAssumption DEF Init
<1>2. SSMLTypeOK
  <2>1. Len(doc) \in Nat
    BY <1>1
  <2>2. Chunks!NoPattern \in [1 .. 3 -> {"space", "newline", "stop", "upper", "other"}]
    BY DEF Chunks!NoPattern
  <2>3. \A T : <<>> \in Seq(T) /\ Len(<<>>) = 0
    BY EmptySeq
  <2>4. 0 \in 0 .. Interval
    OBVIOUS
  <2>5. /\ piece \in Seq(Piece) /\ pieces \in Seq(Seq(Piece)) /\ cParts \in Seq(Seq(Piece))
        /\ res \in Seq(Seq(Seq(Piece))) /\ text \in Seq(Chunks!Chars) /\ cuts \in Seq(Nat)
        /\ Len(text) = 0 /\ Len(pieces) = 0
    BY <2>3 DEF Init
  <2>6. k \in 1 .. Len(doc) + 1
    BY <2>1 DEF Init
  <2>7. /\ i \in 0 .. Interval /\ bestV \in 0 .. 3 /\ best \in {-1} \cup Nat
        /\ at \in 0 .. Len(text) /\ merged \in 0 .. Len(pieces)
    BY <2>5 DEF Init
  <2>8. cPart \in BOOLEAN
    BY Zenon DEF Init
  <2> QED  BY <2>2, <2>5, <2>6, <2>7, <2>8 DEF Init, SSMLTypeOK
<1> QED  BY <1>2 DEF Init, FinderInv, TextInv, FreshInv, Splitting

LEMMA StartTextKeeps == ASSUME FinderInv, StartText PROVE FinderInv'
<1> USE DEF StartText
<1>1. Parts' = Parts /\ Piece' = Piece /\ k \in DOMAIN doc /\ doc' = doc /\ k' = k
  BY DEF FinderInv, SSMLTypeOK, Parts, Piece
<1>2. Proper(Parts) /\ Parts # <<>>
  BY <1>1, ProperParts DEF FinderInv, SSMLTypeOK, Parts, Pause
<1>3. Join(Parts) \in Seq(Chunks!Chars) /\ Len(Join(Parts)) \in Nat
  BY <1>2, JoinType DEF Proper
<1>4. SSMLTypeOK'
  <2>1. \A T : <<>> \in Seq(T) /\ Len(<<>>) = 0
    BY EmptySeq
  <2>2. UNCHANGED <<doc, k, from, piece, cParts, res, i, s, best, bestV>>
    OBVIOUS
  <2>3. /\ pPart' \in Nat \ {0} /\ pText' \in Nat /\ pieces' = <<>> /\ merged' = 0
        /\ text' = Join(Parts) /\ at' = 0 /\ cuts' = <<>> /\ pc' = "chunk"
    OBVIOUS
  <2>4. /\ pieces' \in Seq(Seq(Piece)) /\ merged' \in 0 .. Len(pieces') /\ cuts' \in Seq(Nat)
        /\ at' \in 0 .. Len(text') /\ text' \in Seq(Chunks!Chars)
    BY <1>3, <2>1, <2>3
  <2>5. cPart' \in BOOLEAN
    BY Zenon DEF PartOfNewText
  <2> QED  BY <1>1, <2>2, <2>3, <2>4, <2>5 DEF FinderInv, SSMLTypeOK
<1>5. Cutter!IInv'
  <2>1. Cutter!TypeOK'
    BY <1>4 DEF SSMLTypeOK, Cutter!TypeOK, Chunks!Chars, Cutter!Chars
  <2> QED
    BY <2>1 DEF Cutter!IInv, Cutter!AtInv, Cutter!PatternInv, Cutter!BestInv, Cutter!SentenceInv,
       Cutter!CutInv, Cutter!DoneInv, Cutter!ChunkFits, Cutter!WordsKept,
       Cutter!RefusedOnlyWithoutSpace, Cutter!SentenceFirst
<1>6. from = 0 /\ piece = <<>>
  BY DEF FinderInv, FreshInv
<1>7. Len(Parts) \in Nat \ {0}
  BY <1>2, EmptySeq DEF Proper
<1>8. Len(Parts[1].text) \in Nat \ {0}
  BY <1>2, <1>7, JoinNext
<1>9. PlaceInv'
  BY <1>1, <1>7, <1>8 DEF PlaceInv
<1>10. AheadInv'
  BY <1>6 DEF AheadInv, Ahead, Found, PartStart
<1>11. ~cPart'
  BY Zenon DEF PartOfNewText
<1> QED
  BY <1>1, <1>3, <1>4, <1>5, <1>6, <1>9, <1>10, <1>11 DEF FinderInv, TextInv, FreshInv, Pause

LEMMA FindChunkKeeps == ASSUME FinderInv, FindChunk PROVE FinderInv'
<1>1. /\ pc \in {"chunk", "scan"}
      /\ Chunks!Scan \/ Chunks!Finish
      /\ UNCHANGED <<doc, k, pPart, pText, from, piece, pieces, merged, cParts, cPart, cLen, res>>
      /\ UNCHANGED <<text, at>>
  BY DEF FindChunk, Chunks!Scan, Chunks!Finish, Chunks!TakeRest, Chunks!OpenWindow, Chunks!Look,
     Chunks!CloseWindow, finding, gathering
<1>2. Parts' = Parts /\ Piece' = Piece
  BY <1>1 DEF Parts, Piece
<1>3. Cutter!IInv'
  BY <1>1, FindKeepsCutter DEF FinderInv, Splitting
<1>4. Cutter!TypeOK'
  BY <1>3 DEF Cutter!IInv
<1>5. SSMLTypeOK'
  BY <1>1, <1>2, <1>4 DEF FinderInv, SSMLTypeOK, Cutter!TypeOK
<1>6. from = 0 /\ piece = <<>> /\ merged = 0
  BY <1>1 DEF FinderInv, FreshInv, TextInv, Splitting
<1>7. PlaceInv'
  BY <1>1, <1>2 DEF FinderInv, TextInv, Splitting, PlaceInv
<1>8. AheadInv'
  <2>1. Ahead' = Ahead /\ Ahead \in {0, 1}
    BY <1>1, <1>2 DEF Ahead, Found, FinderInv, TextInv, Splitting, AheadInv
  <2>2. pc' = "cut" => best' \in Nat
    BY <1>3 DEF Cutter!IInv, Cutter!CutInv
  <2> QED  BY <1>1, <1>6, <2>1, <2>2 DEF AheadInv
<1> QED
  BY <1>1, <1>2, <1>3, <1>5, <1>6, <1>7, <1>8 DEF FinderInv, TextInv, Splitting, FreshInv

\* While a chunk's parts are being found: where the finder is, in numbers.
LEMMA Finding ==
    ASSUME FinderInv, pc = "cut"
    PROVE  /\ Splitting /\ k \in DOMAIN doc /\ Proper(Parts) /\ Parts # <<>>
           /\ text = Join(Parts) /\ PlaceInv /\ AheadInv
           /\ Cutter!IInv
           /\ pPart \in Nat \ {0} /\ pText \in Nat /\ from \in Nat /\ Ahead \in {0, 1}
           /\ Found = at + from + Ahead /\ Found \in Nat
           /\ Len(Parts) \in Nat \ {0}
<1>1. /\ Splitting /\ k \in DOMAIN doc /\ Parts # <<>> /\ text = Join(Parts) /\ PlaceInv /\ AheadInv
      /\ Cutter!IInv
  BY DEF FinderInv, TextInv, Splitting, Pause
<1>2. Proper(Parts)
  BY <1>1, ProperParts DEF FinderInv, SSMLTypeOK, Parts
<1>3. Len(Parts) \in Nat \ {0}
  BY <1>1, <1>2, EmptySeq DEF Proper
<1>4. pPart \in Nat \ {0} /\ pText \in Nat /\ from \in Nat /\ Ahead \in {0, 1} /\ at \in Nat
  BY <1>1 DEF FinderInv, SSMLTypeOK, AheadInv
<1>5. PartStart(Parts, pPart) \in Nat
  <2>1. CASE pPart = Len(Parts) + 1
    BY <1>1, <1>2, <2>1, StartAfterLast
  <2>2. CASE pPart # Len(Parts) + 1
    <3>1. pPart \in 1 .. Len(Parts)
      BY <1>1, <1>3, <2>2 DEF PlaceInv
    <3> QED  BY <1>2, <3>1, JoinNext
  <2> QED  BY <2>1, <2>2
<1>6. Found = at + from + Ahead /\ Found \in Nat
  BY <1>4, <1>5 DEF Found, Ahead
<1> QED  BY <1>1, <1>2, <1>3, <1>4, <1>6

\* The finder has a part to look into while it has not found the whole chunk.
LEMMA PartsLeft == ASSUME FinderInv, pc = "cut", from < best PROVE pPart \in 1 .. Len(Parts)
<1>1. SUFFICES ASSUME pPart = Len(Parts) + 1 PROVE FALSE
  BY Finding DEF PlaceInv
<1>2. pText = 0 /\ PartStart(Parts, pPart) = Len(text) + 1 /\ Len(text) \in Nat
  BY <1>1, Finding, StartAfterLast DEF PlaceInv
<1>3. at + best <= Len(text) /\ best \in Nat /\ at \in Nat
  BY ChunkFound DEF FinderInv, Splitting
<1>4. PartStart(Parts, pPart) + pText = at + from + Ahead /\ Ahead \in {0, 1} /\ from \in Nat
  BY Finding DEF Found
<1> QED  BY <1>2, <1>3, <1>4

\* The rest of the part the finder is in.
LEMMA InPart ==
    ASSUME FinderInv, pc = "cut", from < best
    PROVE  /\ pPart \in 1 .. Len(Parts)
           /\ Len(Parts[pPart].text) \in Nat \ {0}
           /\ pText < Len(Parts[pPart].text)
           /\ PartStart(Parts, pPart) \in Nat
           /\ \A x \in 1 .. Len(Parts[pPart].text) :
                /\ PartStart(Parts, pPart) + x \in 1 .. Len(text)
                /\ text[PartStart(Parts, pPart) + x] = Parts[pPart].text[x]
           /\ Parts[pPart].text[Len(Parts[pPart].text)] \notin Chunks!Blanks
<1>1. pPart \in 1 .. Len(Parts) /\ Proper(Parts) /\ text = Join(Parts) /\ Len(Parts) \in Nat
  BY PartsLeft, Finding
<1>2. Len(Parts[pPart].text) \in Nat \ {0} /\ PartStart(Parts, pPart) \in Nat
  BY <1>1, JoinNext
<1>3. pText < Len(Parts[pPart].text)
  BY <1>1, Finding DEF PlaceInv
<1>4. pPart \in DOMAIN Parts
  BY <1>1 DEF Proper
<1>5. Parts[pPart].text[Len(Parts[pPart].text)] \notin Chunks!Blanks
  BY <1>1, <1>4 DEF Proper
<1> QED  BY <1>1, <1>2, <1>3, <1>5, RuneOfPart

LEMMA SizeType ==
    ASSUME NEW str \in Seq(Chunks!Chars)
    PROVE  \A n \in Nat : Offset(str, n) \in Nat /\ Offset(str, n) >= n
<1> SUFFICES ASSUME NEW n \in Nat
             PROVE  Cardinality({m \in 1 .. n : str[m] \in Wide}) \in Nat
  BY DEF Offset
<1>1. IsFiniteSet(1 .. n)
  BY FS_Interval
<1>2. IsFiniteSet({m \in 1 .. n : str[m] \in Wide})
  BY <1>1, FS_Subset
<1> QED  BY <1>2, FS_CardinalityType

LEMMA TakeToEndKeeps == ASSUME FinderInv, TakeToEnd PROVE FinderInv'
<1>1. /\ pc = "cut" /\ pc' = pc /\ from < best /\ pText' = 0 /\ pPart' = pPart + 1
      /\ from' = from + RestOfPart + 1 /\ RestOfPart <= best - from
      /\ UNCHANGED <<doc, k, pieces, merged, cParts, cPart, cLen, res>>
      /\ UNCHANGED <<text, at, i, s, best, bestV, cuts>>
      /\ UNCHANGED cutting
  BY DEF TakeToEnd, gathering, cutting, EndSpace, EndsInChunk
<1>2. Parts' = Parts /\ Piece' = Piece
  BY <1>1 DEF Parts, Piece
<1>3. PICK str : str = Parts[pPart].text
  OBVIOUS
<1>4. PICK st : st = PartStart(Parts, pPart)
  OBVIOUS
<1>5. /\ pPart \in 1 .. Len(Parts) /\ Len(str) \in Nat \ {0} /\ pText < Len(str) /\ st \in Nat
      /\ st + Len(str) \in 1 .. Len(text)
      /\ text[st + Len(str)] \notin Chunks!Blanks
  <2>1. /\ pPart \in 1 .. Len(Parts) /\ Len(str) \in Nat \ {0} /\ pText < Len(str) /\ st \in Nat
        /\ \A x \in 1 .. Len(str) : st + x \in 1 .. Len(text) /\ text[st + x] = str[x]
        /\ str[Len(str)] \notin Chunks!Blanks
    BY <1>1, <1>3, <1>4, InPart
  <2>2. Len(str) \in 1 .. Len(str)
    BY <2>1
  <2> QED  BY <2>1, <2>2
<1>6. RestOfPart = Len(str) - pText
  BY <1>3 DEF RestOfPart
<1>7. /\ k \in DOMAIN doc /\ Proper(Parts) /\ Parts # <<>> /\ text = Join(Parts)
      /\ Cutter!IInv /\ AheadInv
      /\ pText \in Nat /\ from \in Nat /\ Ahead \in {0, 1}
      /\ Found = at + from + Ahead /\ Len(Parts) \in Nat \ {0}
  BY <1>1, Finding
<1>8. /\ best \in Nat /\ at \in Nat /\ Len(text) \in Nat
      /\ at + best < Len(text) => text[at + best + 1] \in Chunks!Blanks
  BY <1>1, <1>7, ChunkFound DEF FinderInv
<1>9. st + pText = at + from + Ahead
  BY <1>4, <1>7 DEF Found
<1>10. from' \in Nat /\ pPart' \in Nat \ {0}
  BY <1>1, <1>5, <1>6, <1>7
<1>11. SSMLTypeOK'
  <2>1. [of |-> k, part |-> pPart, from |-> pText, to |-> Size(Parts[pPart].text)] \in Piece
    <3>1. str \in Seq(Chunks!Chars)
      <4>1. Parts[pPart] \in TextPart
        BY <1>5, <1>7, ElementOfSeq DEF Proper
      <4> QED  BY <1>3, <4>1 DEF TextPart
    <3>2. Size(str) \in Nat
      BY <1>5, <3>1, SizeType DEF Size
    <3>3. k \in Nat /\ pPart \in 0 .. Len(doc[k])
      BY <1>5, <1>7 DEF FinderInv, SSMLTypeOK, Parts
    <3> QED  BY <1>3, <1>7, <3>2, <3>3 DEF Piece
  <2>2. piece' \in Seq(Piece)
    BY <2>1, AppendProperties DEF FinderInv, SSMLTypeOK, TakeToEnd
  <2> QED  BY <1>1, <1>2, <1>10, <2>2 DEF FinderInv, SSMLTypeOK
<1>12. Cutter!IInv'
  BY <1>1, <1>7, IdleKeepsCutter
<1>13. PlaceInv'
  <2>1. pPart + 1 \in 1 .. Len(Parts) + 1
    BY <1>5, <1>7
  <2>2. pPart + 1 # Len(Parts) + 1 => Len(Parts[pPart + 1].text) \in Nat \ {0}
    <3>1. pPart + 1 # Len(Parts) + 1 => pPart + 1 \in 1 .. Len(Parts)
      BY <1>5, <1>7
    <3> QED  BY <1>7, <3>1, JoinNext
  <2> QED  BY <1>1, <1>2, <2>1, <2>2 DEF PlaceInv
<1>14. AheadInv'
  <2>1. Found' = st + Len(str) + 1
    <3>1. PartStart(Parts, pPart + 1) = st + Len(str) + 1
      BY <1>3, <1>4, <1>5, <1>7, StartNext
    <3>2. Found' = PartStart(Parts, pPart + 1) + 0
      BY <1>1, <1>2 DEF Found
    <3> QED  BY <1>5, <3>1, <3>2
  <2>2. Ahead' = Found' - at - from'
    BY <1>1 DEF Ahead
  <2>3. Ahead' = Ahead
    <3>1. from' = from + (Len(str) - pText) + 1 /\ st + pText = at + from + Ahead
      BY <1>1, <1>6, <1>9
    <3>2. st \in Nat /\ Len(str) \in Nat /\ pText \in Nat /\ from \in Nat /\ at \in Nat /\ Ahead \in Int
      BY <1>5, <1>7, <1>8
    <3>3. Ahead' = (st + Len(str) + 1) - at - (from + (Len(str) - pText) + 1)
      BY <2>1, <2>2, <3>1
    <3> QED  BY <3>1, <3>2, <3>3
  <2>4. from' <= best + 1
    BY <1>1, <1>5, <1>6, <1>7, <1>8
  <2>5. ASSUME from' = best + 1, Ahead = 1 PROVE FALSE
    <3>1. st + Len(str) = at + best + 1
      BY <1>1, <1>5, <1>6, <1>7, <1>8, <1>9, <2>5
    <3>2. at + best < Len(text)
      BY <1>5, <1>8, <3>1
    <3> QED  BY <1>5, <1>8, <3>1, <3>2
  <2>6. from' <= best \/ from' = best + 1
    BY <1>8, <1>10, <2>4
  <2> QED  BY <1>1, <1>7, <2>3, <2>5, <2>6 DEF AheadInv
<1>15. pc' # "done" /\ merged' = 0 /\ Splitting'
  BY <1>1 DEF FinderInv, TextInv, Splitting
<1>16. cPart' => cParts' # <<>>
  BY <1>1 DEF FinderInv, TextInv, Splitting
<1> QED
  BY <1>1, <1>2, <1>7, <1>11, <1>12, <1>13, <1>14, <1>15, <1>16 DEF FinderInv, TextInv, FreshInv, Pause

LEMMA TakeSomeKeeps == ASSUME FinderInv, TakeSome PROVE FinderInv'
<1>1. /\ pc = "cut" /\ pc' = pc /\ from < best /\ pPart' = pPart
      /\ pText' = best - from + pText /\ from' = best /\ ~(RestOfPart <= best - from)
      /\ UNCHANGED <<doc, k, pieces, merged, cParts, cPart, cLen, res>>
      /\ UNCHANGED <<text, at, i, s, best, bestV, cuts>>
      /\ UNCHANGED cutting
  BY DEF TakeSome, gathering, cutting, TextTo, EndsInChunk
<1>2. Parts' = Parts /\ Piece' = Piece
  BY <1>1 DEF Parts, Piece
<1>3. PICK str : str = Parts[pPart].text
  OBVIOUS
<1>4. PICK st : st = PartStart(Parts, pPart)
  OBVIOUS
<1>5. /\ pPart \in 1 .. Len(Parts) /\ Len(str) \in Nat \ {0} /\ pText < Len(str) /\ st \in Nat
      /\ \A x \in 1 .. Len(str) : st + x \in 1 .. Len(text) /\ text[st + x] = str[x]
  BY <1>1, <1>3, <1>4, InPart
<1>6. RestOfPart = Len(str) - pText
  BY <1>3 DEF RestOfPart
<1>7. /\ k \in DOMAIN doc /\ Proper(Parts) /\ Parts # <<>> /\ text = Join(Parts)
      /\ Cutter!IInv /\ AheadInv
      /\ pText \in Nat /\ from \in Nat /\ Ahead \in {0, 1}
      /\ Found = at + from + Ahead /\ Len(Parts) \in Nat \ {0}
  BY <1>1, Finding
<1>8. /\ best \in Nat /\ at \in Nat /\ Len(text) \in Nat
      /\ at + best < Len(text) => text[at + best + 1] \in Chunks!Blanks
  BY <1>1, <1>7, ChunkFound DEF FinderInv
<1>9. st + pText = at + from + Ahead
  BY <1>4, <1>7 DEF Found
<1>10. /\ pText' \in Nat /\ from' \in Nat /\ pText' < Len(str) /\ pText' > 0
       /\ st + pText' = at + best + Ahead
  BY <1>1, <1>5, <1>6, <1>7, <1>8, <1>9
<1>11. SSMLTypeOK'
  <2>1. [of |-> k, part |-> pPart, from |-> pText, to |-> TextTo] \in Piece
    <3>1. k \in Nat /\ pPart \in 0 .. Len(doc[k])
      BY <1>5, <1>7 DEF FinderInv, SSMLTypeOK, Parts
    <3>2. TextTo \in Nat
      BY <1>1, <1>10 DEF TextTo
    <3> QED  BY <1>7, <3>1, <3>2 DEF Piece
  <2>2. piece' \in Seq(Piece)
    BY <2>1, AppendProperties DEF FinderInv, SSMLTypeOK, TakeSome
  <2> QED  BY <1>1, <1>2, <1>10, <2>2 DEF FinderInv, SSMLTypeOK
<1>12. Cutter!IInv'
  BY <1>1, <1>7, IdleKeepsCutter
<1>13. PlaceInv'
  <2>1. {str[pText'], str[pText' + 1]} \cap Chunks!Blanks # {}
    <3>1. PICK x \in Nat : x = pText'
      BY <1>10
    <3>2. x \in 1 .. Len(str) /\ x + 1 \in 1 .. Len(str) /\ st + (x + 1) = st + x + 1
      <4>1. Len(str) \in Nat /\ x < Len(str) /\ x > 0 /\ st \in Nat
        BY <1>5, <1>10, <3>1
      <4> QED  BY <4>1
    <3>3. /\ text[st + x] = str[x] /\ text[st + (x + 1)] = str[x + 1]
          /\ st + (x + 1) \in 1 .. Len(text)
      BY <1>5, <3>2
    <3>4. at + best < Len(text)
      <4>1. st + x = at + best + Ahead /\ st + (x + 1) <= Len(text) /\ st \in Nat
        BY <1>5, <1>8, <1>10, <3>1, <3>3
      <4> QED  BY <1>7, <1>8, <4>1
    <3>5. text[at + best + 1] \in Chunks!Blanks
      BY <1>8, <3>4
    <3>6. CASE Ahead = 0
      <4>1. st + (x + 1) = at + best + 1
        BY <1>8, <1>10, <3>1, <3>2, <3>6
      <4> QED  BY <3>1, <3>3, <3>5, <4>1
    <3>7. CASE Ahead = 1
      <4>1. st + x = at + best + 1
        BY <1>5, <1>8, <1>10, <3>1, <3>7
      <4> QED  BY <3>1, <3>3, <3>5, <4>1
    <3> QED  BY <1>7, <3>6, <3>7
  <2>2. pPart # Len(Parts) + 1 /\ pPart \in 1 .. Len(Parts) + 1
    BY <1>5, <1>7
  <2> QED  BY <1>1, <1>2, <1>3, <1>10, <2>1, <2>2 DEF PlaceInv
<1>14. AheadInv'
  <2>1. Found' = st + pText'
    BY <1>1, <1>2, <1>4 DEF Found
  <2>2. Ahead' = Found' - at - from'
    BY <1>1 DEF Ahead
  <2>3. Ahead' = Ahead
    BY <1>1, <1>7, <1>8, <1>10, <2>1, <2>2
  <2>4. from' <= best
    BY <1>1, <1>8
  <2> QED  BY <1>1, <1>7, <2>3, <2>4 DEF AheadInv
<1>15. pc' # "done" /\ merged' = 0 /\ Splitting'
  BY <1>1 DEF FinderInv, TextInv, Splitting
<1>16. cPart' => cParts' # <<>>
  BY <1>1 DEF FinderInv, TextInv, Splitting
<1> QED
  BY <1>1, <1>2, <1>7, <1>11, <1>12, <1>13, <1>14, <1>15, <1>16 DEF FinderInv, TextInv, FreshInv, Pause

LEMMA CutChunkKeeps == ASSUME FinderInv, CutChunk PROVE FinderInv'
<1>1. /\ pc = "cut" /\ pc' = "chunk" /\ from >= best /\ piece' = <<>> /\ from' = 0
      /\ pieces' = Append(pieces, piece) /\ at' = at + best
      /\ UNCHANGED <<doc, k, pPart, pText, merged, cParts, cPart, cLen, res>>
      /\ UNCHANGED <<text, i, s, best, bestV>>
      /\ Chunks!Cut
  BY DEF CutChunk, gathering, FromOfNext, Chunks!Cut, Chunks!window
<1>2. Parts' = Parts /\ Piece' = Piece
  BY <1>1 DEF Parts, Piece
<1>3. /\ k \in DOMAIN doc /\ Proper(Parts) /\ Parts # <<>> /\ text = Join(Parts)
      /\ Cutter!IInv /\ AheadInv /\ PlaceInv
      /\ from \in Nat /\ Ahead \in {0, 1}
      /\ Found = at + from + Ahead
  BY <1>1, Finding
<1>4. /\ best \in Nat /\ at \in Nat /\ Len(text) \in Nat
  BY <1>1, <1>3, ChunkFound DEF FinderInv
<1>5. Cutter!IInv'
  BY <1>1, <1>3, CutKeepsCutter
<1>6. SSMLTypeOK'
  <2>1. at' \in 0 .. Len(text') /\ cuts' \in Seq(Nat)
    BY <1>5 DEF Cutter!IInv, Cutter!TypeOK
  <2>2. pieces' \in Seq(Seq(Piece)) /\ Len(pieces') = Len(pieces) + 1 /\ Len(pieces) \in Nat
    BY <1>1, AppendProperties, LenProperties DEF FinderInv, SSMLTypeOK
  <2>3. piece' \in Seq(Piece)
    BY <1>1, EmptySeq
  <2>4. merged' \in 0 .. Len(pieces')
    BY <1>1, <2>2 DEF FinderInv, SSMLTypeOK
  <2> QED  BY <1>1, <1>2, <2>1, <2>2, <2>3, <2>4 DEF FinderInv, SSMLTypeOK
<1>7. PlaceInv'
  BY <1>1, <1>2, <1>3 DEF PlaceInv
<1>8. AheadInv'
  <2>1. Found' = Found
    BY <1>1, <1>2 DEF Found
  <2>2. Ahead' = Found - (at + best) - 0
    BY <1>1, <2>1 DEF Ahead
  <2>3. from = best \/ (from = best + 1 /\ Ahead = 0)
    BY <1>1, <1>3, <1>4 DEF AheadInv
  <2>4. Ahead' \in {0, 1}
    BY <1>3, <1>4, <2>2, <2>3
  <2> QED  BY <1>1, <2>4 DEF AheadInv
<1>9. merged' = 0
  BY <1>1 DEF FinderInv, TextInv, Splitting
<1>10. cPart' => cParts' # <<>>
  BY <1>1 DEF FinderInv, TextInv, Splitting
<1> QED
  BY <1>1, <1>2, <1>3, <1>5, <1>6, <1>7, <1>8, <1>9, <1>10 DEF FinderInv, TextInv, FreshInv, Pause

\* The pieces of a chunk go to the text that is being gathered, to a new one of
\* the request, or to a new request.
LEMMA MergeCases ==
    ASSUME FinderInv, Merge, NEW ps, ps = pieces[merged + 1]
    PROVE  /\ ps \in Seq(Piece)
           /\ \/ /\ cLen + RuneCount(ps) <= MaxChars
                 /\ cPart /\ cParts # <<>>
                 /\ res' = res
                 /\ cParts' = [cParts EXCEPT ![Len(cParts)] = @ \o ps]
                 /\ cLen' = cLen + RuneCount(ps)
              \/ /\ cLen + RuneCount(ps) <= MaxChars
                 /\ res' = res
                 /\ cParts' = Append(cParts, ps)
                 /\ cLen' = cLen + RuneCount(ps)
              \/ /\ res' = res \/ res' = Append(res, cParts)
                 /\ res' = res => cParts = <<>>
                 /\ cParts' = Append(<<>>, ps)
                 /\ cLen' = 0 + RuneCount(ps)
<1>1. /\ pieces \in Seq(Seq(Piece)) /\ merged \in Nat /\ Len(pieces) \in Nat
      /\ merged < Len(pieces)
      /\ res \in Seq(Seq(Seq(Piece))) /\ cParts \in Seq(Seq(Piece))
  BY LenProperties DEF FinderInv, SSMLTypeOK, Merge
<1>2. ps \in Seq(Piece)
  <2>1. merged + 1 \in 1 .. Len(pieces)
    BY <1>1
  <2> QED  BY <1>1, <2>1, ElementOfSeq
<1>3. PICK n : n = RuneCount(ps)
  OBVIOUS
<1>4. /\ res' = IF ~(cLen + n <= MaxChars) /\ cParts # <<>> THEN Append(res, cParts) ELSE res
      /\ cParts' = Gather(IF cLen + n <= MaxChars THEN cParts ELSE <<>>, cLen + n <= MaxChars /\ cPart, ps)
      /\ cLen' = LenBefore(cLen + n <= MaxChars) + n
  BY <1>3 DEF Merge
<1>5. CASE cLen + n <= MaxChars
  <2>1. res' = res /\ cLen' = cLen + n
    BY <1>4, <1>5 DEF LenBefore
  <2>2. CASE cPart
    <3>1. cParts # <<>>
      BY <2>2 DEF FinderInv, TextInv, Splitting, Merge
    <3>2. cParts' = [cParts EXCEPT ![Len(cParts)] = @ \o ps]
      BY <1>4, <1>5, <2>2 DEF Gather
    <3> QED  BY <1>2, <1>3, <1>5, <2>1, <2>2, <3>1, <3>2
  <2>3. CASE ~cPart
    <3>1. cParts' = Append(cParts, ps)
      BY <1>4, <1>5, <2>3 DEF Gather
    <3> QED  BY <1>2, <1>3, <1>5, <2>1, <3>1
  <2> QED  BY <2>2, <2>3
<1>6. CASE ~(cLen + n <= MaxChars)
  <2>1. cLen' = 0 + n
    BY <1>4, <1>6 DEF LenBefore
  <2>2. cParts' = Append(<<>>, ps)
    BY <1>4, <1>6 DEF Gather
  <2>3. res' = (IF cParts # <<>> THEN Append(res, cParts) ELSE res)
    BY <1>4, <1>6
  <2>4. Append(res, cParts) # res
    <3>1. Len(Append(res, cParts)) = Len(res) + 1 /\ Len(res) \in Nat
      BY <1>1, AppendProperties, LenProperties
    <3> QED  BY <3>1
  <2>5. /\ res' = res \/ res' = Append(res, cParts)
        /\ res' = res => cParts = <<>>
    BY <2>3, <2>4
  <2> QED  BY <1>2, <1>3, <2>1, <2>2, <2>5
<1> QED  BY <1>5, <1>6

\* The requests are gathered while nothing is being found.
LEMMA MergeKeeps == ASSUME FinderInv, Merge PROVE FinderInv'
<1>1. /\ pc = "done" /\ pc' = pc /\ merged < Len(pieces) /\ merged' = merged + 1
      /\ UNCHANGED <<doc, k, pPart, pText, from, piece, pieces>>
      /\ UNCHANGED <<text, at, i, s, best, bestV, cuts>>
      /\ UNCHANGED cutting
  BY DEF Merge, finding, cutting
<1>2. Parts' = Parts /\ Piece' = Piece
  BY <1>1 DEF Parts, Piece
<1>3. /\ merged \in Nat /\ Len(pieces) \in Nat
      /\ cParts \in Seq(Seq(Piece)) /\ res \in Seq(Seq(Seq(Piece)))
  BY LenProperties DEF FinderInv, SSMLTypeOK
<1>4. PICK ps \in Seq(Piece) : ps = pieces[merged + 1]
  BY MergeCases
<1>5. /\ res' \in Seq(Seq(Seq(Piece)))
      /\ cParts' \in Seq(Seq(Piece)) /\ cParts' # <<>>
  <2>1. CASE cParts # <<>> /\ res' = res /\ cParts' = [cParts EXCEPT ![Len(cParts)] = @ \o ps]
    <3>1. PICK l : l = Len(cParts)
      OBVIOUS
    <3>2. l \in 1 .. Len(cParts)
      BY <1>3, <2>1, <3>1, EmptySeq
    <3>3. PICK e : e = cParts[l] \o ps
      OBVIOUS
    <3>4. e \in Seq(Piece)
      BY <1>3, <1>4, <3>2, <3>3, ElementOfSeq, ConcatProperties
    <3>5. cParts' = [cParts EXCEPT ![l] = e]
      BY <2>1, <3>1, <3>3
    <3>6. cParts' \in Seq(Seq(Piece)) /\ Len(cParts') = Len(cParts)
      BY <1>3, <3>2, <3>4, <3>5, ExceptSeq
    <3> QED  BY <1>3, <2>1, <3>2, <3>6, EmptySeq
  <2>2. CASE res' = res /\ cParts' = Append(cParts, ps)
    BY <1>3, <1>4, <2>2, AppendProperties
  <2>3. CASE (res' = res \/ res' = Append(res, cParts)) /\ cParts' = Append(<<>>, ps)
    <3>1. <<>> \in Seq(Seq(Piece))
      BY EmptySeq
    <3>2. Append(<<>>, ps) \in Seq(Seq(Piece)) /\ Append(<<>>, ps) # <<>>
      BY <3>1, AppendProperties
    <3>3. Append(res, cParts) \in Seq(Seq(Seq(Piece)))
      BY <1>3, AppendProperties
    <3> QED  BY <1>3, <2>3, <3>2, <3>3
  <2>4. \/ cParts # <<>> /\ res' = res /\ cParts' = [cParts EXCEPT ![Len(cParts)] = @ \o ps]
        \/ res' = res /\ cParts' = Append(cParts, ps)
        \/ (res' = res \/ res' = Append(res, cParts)) /\ cParts' = Append(<<>>, ps)
    <3> QED  BY <1>4, MergeCases
  <2> QED  BY <2>1, <2>2, <2>3, <2>4
<1>6. cPart' \in BOOLEAN
  BY Zenon DEF Merge
<1>7. SSMLTypeOK'
  BY <1>1, <1>2, <1>3, <1>5, <1>6 DEF FinderInv, SSMLTypeOK
<1>8. Cutter!IInv'
  BY <1>1, IdleKeepsCutter DEF FinderInv, Splitting
<1>9. PlaceInv'
  BY <1>1, <1>2 DEF FinderInv, TextInv, Splitting, PlaceInv
<1>10. AheadInv'
  <2>1. Ahead' = Ahead
    BY <1>1, <1>2 DEF Ahead, Found
  <2> QED  BY <1>1, <2>1 DEF FinderInv, TextInv, Splitting, AheadInv
<1> QED
  BY <1>1, <1>2, <1>5, <1>7, <1>8, <1>9, <1>10 DEF FinderInv, TextInv, Splitting, FreshInv, Pause

\* So they are between the texts.
LEMMA OthersKeep ==
    ASSUME FinderInv, TextDone \/ AddPause \/ LastRequest \/ UNCHANGED vars
    PROVE  FinderInv'
<1>1. CASE TextDone
  <2>1. /\ pc = "done" /\ pc' = "part" /\ k' = k + 1 /\ k \in DOMAIN doc
        /\ UNCHANGED <<doc, pPart, pText, from, piece, pieces, merged, cParts, cPart, cLen, res>>
        /\ UNCHANGED <<text, at, i, s, best, bestV, cuts>>
    BY <1>1 DEF TextDone, finding, gathering, FinderInv, TextInv, Splitting
  <2>2. Piece' = Piece
    BY <2>1 DEF Piece
  <2>3. k' \in 1 .. Len(doc) + 1
    <3>1. doc \in Seq(Seq(TextPart))
      BY DocumentsAssumption DEF FinderInv, SSMLTypeOK
    <3>2. DOMAIN doc = 1 .. Len(doc) /\ Len(doc) \in Nat
      BY <3>1, LenProperties
    <3> QED  BY <2>1, <3>2
  <2>4. SSMLTypeOK'
    BY <2>1, <2>2, <2>3 DEF FinderInv, SSMLTypeOK
  <2> QED  BY <2>1, <2>4 DEF FinderInv, TextInv, Splitting, FreshInv
<1>2. CASE AddPause
  <2>1. /\ pc = "part" /\ pc' = pc /\ k' = k + 1 /\ k <= Len(doc) /\ doc[k] = <<>>
        /\ cParts' = Append(cParts, <<PauseAt(k)>>)
        /\ UNCHANGED <<doc, pPart, pText, from, piece, pieces, merged, cPart, cLen, res>>
        /\ UNCHANGED <<text, at, i, s, best, bestV, cuts>>
    BY <1>2 DEF AddPause, finding, cutting, Pause, Parts
  <2>2. Piece' = Piece
    BY <2>1 DEF Piece
  <2>3. DOMAIN doc = 1 .. Len(doc) /\ Len(doc) \in Nat /\ k \in 1 .. Len(doc) + 1
    <3>1. doc \in Seq(Seq(TextPart))
      BY DocumentsAssumption DEF FinderInv, SSMLTypeOK
    <3> QED  BY <3>1, LenProperties DEF FinderInv, SSMLTypeOK
  <2>4. cParts' \in Seq(Seq(Piece))
    <3>1. PauseAt(k) \in Piece
      <4>1. k \in DOMAIN doc /\ k \in Nat /\ Len(doc[k]) = 0
        BY <2>1, <2>3
      <4> QED  BY <4>1 DEF PauseAt, Piece
    <3>2. <<PauseAt(k)>> \in Seq(Piece)
      BY <3>1
    <3> QED  BY <2>1, <3>2, AppendProperties DEF FinderInv, SSMLTypeOK
  <2>5. SSMLTypeOK'
    BY <2>1, <2>2, <2>3, <2>4 DEF FinderInv, SSMLTypeOK
  <2> QED  BY <2>1, <2>5 DEF FinderInv, TextInv, Splitting, FreshInv
<1>3. CASE LastRequest
  <2>1. /\ pc = "part" /\ pc' = "saved"
        /\ UNCHANGED <<doc, k, pPart, pText, from, piece, pieces, merged, cParts, cPart, cLen>>
        /\ UNCHANGED <<text, at, i, s, best, bestV, cuts>>
        /\ res' = res \/ res' = Append(res, cParts)
    BY <1>3 DEF LastRequest, finding
  <2>2. Piece' = Piece
    BY <2>1 DEF Piece
  <2>3. res' \in Seq(Seq(Seq(Piece)))
    <3>1. cParts \in Seq(Seq(Piece)) /\ res \in Seq(Seq(Seq(Piece)))
      BY DEF FinderInv, SSMLTypeOK
    <3>2. Append(res, cParts) \in Seq(Seq(Seq(Piece)))
      BY <3>1, AppendProperties
    <3> QED  BY <2>1, <3>1, <3>2
  <2>4. SSMLTypeOK'
    BY <2>1, <2>2, <2>3 DEF FinderInv, SSMLTypeOK
  <2> QED  BY <2>1, <2>4 DEF FinderInv, TextInv, Splitting, FreshInv
<1>4. CASE UNCHANGED vars
  <2>1. /\ UNCHANGED <<doc, k, pc, pPart, pText, from, piece, pieces, merged, cParts, cPart, cLen, res>>
        /\ UNCHANGED <<text, at, i, s, best, bestV, cuts>>
        /\ UNCHANGED cutting
    BY <1>4 DEF vars, finding, gathering, cutting
  <2>2. Parts' = Parts /\ Piece' = Piece
    BY <2>1 DEF Parts, Piece
  <2>3. SSMLTypeOK'
    BY <2>1, <2>2 DEF FinderInv, SSMLTypeOK
  <2>4. Splitting => Cutter!IInv'
    BY <2>1, IdleKeepsCutter DEF FinderInv
  <2>5. PlaceInv' = PlaceInv /\ AheadInv' = AheadInv
    BY <2>1, <2>2 DEF PlaceInv, AheadInv, Ahead, Found
  <2>6. Splitting' = Splitting
    BY <2>1 DEF Splitting
  <2> QED  BY <2>1, <2>2, <2>3, <2>4, <2>5, <2>6 DEF FinderInv, TextInv, FreshInv, Pause
<1> QED  BY <1>1, <1>2, <1>3, <1>4

\* The invariant holds at all times.
LEMMA FinderInvariance == Spec => []FinderInv
<1>1. FinderInv /\ [Next]_vars => FinderInv'
  BY StartTextKeeps, FindChunkKeeps, TakeToEndKeeps, TakeSomeKeeps, CutChunkKeeps, MergeKeeps, OthersKeep
     DEF Next, Ended
<1> QED  BY InitKeeps, <1>1, PTL DEF Spec

\* getPartsTo never looks for a part after the last one.
THEOREM PartsSufficeHolds == Spec => []PartsSuffice
<1>1. FinderInv => PartsSuffice
  <2> SUFFICES ASSUME FinderInv, pc = "cut", from < best PROVE pPart \in DOMAIN Parts
    BY DEF PartsSuffice
  <2> QED  BY PartsLeft, Finding DEF Proper
<1> QED  BY FinderInvariance, <1>1, PTL

-----------------------------------------------------------------------------
(* What the steps do to the pieces and the requests. *)

LEMMA Taken ==
    ASSUME FinderInv, TakeToEnd \/ TakeSome
    PROVE  /\ pc = "cut" /\ pc' = "cut" /\ k \in DOMAIN doc
           /\ UNCHANGED <<doc, k, pieces, merged, cParts, cPart, cLen, res>>
           /\ pPart \in 1 .. Len(Parts)
           /\ \E p \in Piece : /\ piece' = Append(piece, p)
                               /\ p.of = k /\ p.part = pPart /\ p.from = pText
                               /\ TakeToEnd => p.to = Size(Parts[pPart].text)
                               /\ ~TakeToEnd => p.to = TextTo
<1>1. /\ pc = "cut" /\ pc' = "cut" /\ from < best
      /\ UNCHANGED <<doc, k, pieces, merged, cParts, cPart, cLen, res>>
  BY DEF TakeToEnd, TakeSome, gathering, cutting
<1>2. pPart \in 1 .. Len(Parts) /\ k \in DOMAIN doc
  BY <1>1, PartsLeft, Finding
<1>3. PICK p : /\ piece' = Append(piece, p)
               /\ \/ TakeToEnd /\ p = [of |-> k, part |-> pPart, from |-> pText,
                                       to |-> Size(Parts[pPart].text)]
                  \/ ~TakeToEnd /\ p = [of |-> k, part |-> pPart, from |-> pText, to |-> TextTo]
  <2>1. CASE TakeToEnd
    BY <2>1 DEF TakeToEnd
  <2>2. CASE ~TakeToEnd
    BY <2>2 DEF TakeSome
  <2> QED  BY <2>1, <2>2
<1>4. p \in Piece
  <2>1. FinderInv'
    BY TakeToEndKeeps, TakeSomeKeeps
  <2>2. piece' \in Seq(Piece)
    <3>1. Piece' = Piece
      BY <1>1 DEF Piece
    <3> QED  BY <2>1, <3>1 DEF FinderInv, SSMLTypeOK
  <2>3. /\ Len(piece') = Len(piece) + 1 /\ piece'[Len(piece) + 1] = p
        /\ Len(piece) \in Nat
    <3>1. piece \in Seq(Piece)
      BY DEF FinderInv, SSMLTypeOK
    <3> QED  BY <1>3, <3>1
  <2>4. Len(piece) + 1 \in 1 .. Len(piece')
    BY <2>3
  <2> QED  BY <2>2, <2>3, <2>4, ElementOfSeq
<1>5. p.of = k /\ p.part = pPart /\ p.from = pText
  BY <1>3
<1>6. (TakeToEnd => p.to = Size(Parts[pPart].text)) /\ (~TakeToEnd => p.to = TextTo)
  BY <1>3
<1> QED  BY <1>1, <1>2, <1>3, <1>4, <1>5, <1>6

\* The steps that leave the pieces and the requests alone.
LEMMA OutputSame ==
    ASSUME FindChunk \/ UNCHANGED vars
    PROVE  /\ UNCHANGED <<doc, k, pPart, pText, piece, pieces, merged, cParts, cPart, cLen, res>>
           /\ Splitting' <=> Splitting
           /\ pc' = "part" <=> pc = "part"
           /\ pc' = "saved" <=> pc = "saved"
BY DEF FindChunk, Chunks!Scan, Chunks!Finish, Chunks!TakeRest, Chunks!OpenWindow, Chunks!Look,
   Chunks!CloseWindow, finding, gathering, vars, cutting, Splitting

-----------------------------------------------------------------------------
(* The words are kept. *)

\* Without wide characters a rune is a byte.
LEMMA NarrowOffset ==
    ASSUME Wide = {}, NEW str, NEW n \in Nat
    PROVE  Offset(str, n) = n
<1>1. {m \in 1 .. n : str[m] \in Wide} = {}
  OBVIOUS
<1>2. Cardinality({m \in 1 .. n : str[m] \in Wide}) = 0
  BY <1>1, FS_EmptySet
<1> QED  BY <1>2 DEF Offset

LEMMA WordsStep ==
    ASSUME Wide = {}, FinderInv, PieceWordsKept, [Next]_vars
    PROVE  PieceWordsKept'
<1>1. piece \in Seq(Piece) /\ pieces \in Seq(Seq(Piece))
  BY DEF FinderInv, SSMLTypeOK
<1>2. ASSUME doc' = doc, piece' = piece \/ piece' = <<>>, pieces' = pieces \/ pieces' = <<>>
      PROVE  PieceWordsKept'
  <2>1. \A p : BeginsAtBlank(p) => BeginsAtBlank(p)'
    BY <1>2 DEF BeginsAtBlank, Offset
  <2>2. \A n \in DOMAIN piece' : BeginsAtBlank(piece[n])'
    BY <1>2, <2>1, EmptySeq DEF PieceWordsKept
  <2>3. \A m \in DOMAIN pieces' : \A n \in DOMAIN pieces'[m] : BeginsAtBlank(pieces[m][n])'
    BY <1>2, <2>1, EmptySeq DEF PieceWordsKept
  <2> QED  BY <2>2, <2>3 DEF PieceWordsKept
<1>3. CASE StartText
  BY <1>2, <1>3 DEF StartText
<1>4. CASE FindChunk \/ UNCHANGED vars
  BY <1>2, <1>4, OutputSame
<1>5. CASE TakeToEnd \/ TakeSome
  <2>1. /\ doc' = doc /\ pieces' = pieces /\ pc = "cut" /\ pPart \in 1 .. Len(Parts)
        /\ k \in DOMAIN doc
    BY <1>5, Taken
  <2>2. PICK p \in Piece : piece' = Append(piece, p) /\ p.of = k /\ p.part = pPart /\ p.from = pText
    BY <1>5, Taken
  <2>3. BeginsAtBlank(p)
    <3>1. PICK str : str = Parts[pPart].text
      OBVIOUS
    <3>2. PlaceInv /\ Len(Parts) \in Nat
      BY <2>1, Finding
    <3>3. /\ pText < Len(str) /\ pText \in Nat /\ Len(str) \in Nat
          /\ pText > 0 => {str[pText], str[pText + 1]} \cap Chunks!Blanks # {}
      <4>1. pPart # Len(Parts) + 1
        BY <2>1, <3>2
      <4>2. Len(str) \in Nat
        BY <2>1, <3>1, Finding, JoinNext
      <4> QED  BY <3>1, <3>2, <4>1, <4>2 DEF PlaceInv, FinderInv, SSMLTypeOK
    <3>4. pText > 0 => pText \in 1 .. Len(str) - 1 /\ Offset(str, pText) = pText
      BY <3>3, NarrowOffset
    <3>5. str = doc[p.of][p.part].text
      BY <2>2, <3>1 DEF Parts
    <3> QED  BY <2>2, <3>3, <3>4, <3>5 DEF BeginsAtBlank
  <2>4. ASSUME NEW n \in DOMAIN piece' PROVE BeginsAtBlank(piece'[n])
    <3>1. (n \in DOMAIN piece /\ piece'[n] = piece[n]) \/ piece'[n] = p
      BY <1>1, <2>2, Appended
    <3> QED  BY <2>3, <3>1 DEF PieceWordsKept
  <2> QED  BY <2>1, <2>4 DEF PieceWordsKept, BeginsAtBlank
<1>6. CASE CutChunk
  <2>1. doc' = doc /\ piece' = <<>> /\ pieces' = Append(pieces, piece)
    BY <1>6 DEF CutChunk
  <2>2. ASSUME NEW m \in DOMAIN pieces', NEW n \in DOMAIN pieces'[m]
        PROVE  BeginsAtBlank(pieces'[m][n])
    <3>1. (m \in DOMAIN pieces /\ pieces'[m] = pieces[m]) \/ pieces'[m] = piece
      BY <1>1, <2>1, Appended
    <3>2. CASE m \in DOMAIN pieces /\ pieces'[m] = pieces[m]
      <4>1. n \in DOMAIN pieces[m]
        BY <3>2
      <4> QED  BY <3>2, <4>1 DEF PieceWordsKept
    <3>3. CASE pieces'[m] = piece
      <4>1. n \in DOMAIN piece
        BY <3>3
      <4> QED  BY <3>3, <4>1 DEF PieceWordsKept
    <3> QED  BY <3>1, <3>2, <3>3
  <2>3. (\A m \in DOMAIN pieces : \A n \in DOMAIN pieces[m] : BeginsAtBlank(pieces[m][n]))'
    <3> SUFFICES ASSUME NEW m \in DOMAIN pieces', NEW n \in DOMAIN pieces'[m]
                 PROVE  BeginsAtBlank(pieces[m][n])'
      OBVIOUS
    <3>1. BeginsAtBlank(pieces'[m][n])
      BY <2>2
    <3> QED  BY <2>1, <3>1 DEF BeginsAtBlank
  <2>4. DOMAIN piece' = {}
    BY <2>1
  <2>5. (\A n \in DOMAIN piece : BeginsAtBlank(piece[n]))'
    BY <2>4
  <2> QED  BY <2>3, <2>5 DEF PieceWordsKept
<1>7. CASE Merge \/ TextDone \/ AddPause \/ LastRequest
  BY <1>2, <1>7 DEF Merge, TextDone, AddPause, LastRequest, finding
<1> QED  BY <1>3, <1>4, <1>5, <1>6, <1>7 DEF Next, Ended

\* In a text without wide characters a part is divided at a blank only, so
\* that no word is, with an accent or not.
THEOREM PieceWordsKeptHolds == ASSUME Wide = {} PROVE Spec => []PieceWordsKept
<1>1. Init => PieceWordsKept
  BY DEF Init, PieceWordsKept
<1>2. FinderInv /\ PieceWordsKept /\ [Next]_vars => PieceWordsKept'
  BY WordsStep
<1> QED  BY <1>1, <1>2, FinderInvariance, PTL DEF Spec

-----------------------------------------------------------------------------
(* The voices are kept. *)

OneVoice(ps) == \A x, y \in DOMAIN ps : ps[x].of = ps[y].of
OfText(ps) == \A x \in DOMAIN ps : ps[x].of = k

\* The pieces of a text are of one voice, and the text that is gathered last
\* is open for the pieces of its own text only.
VoiceInv ==
    /\ \A n \in DOMAIN res : \A m \in DOMAIN res[n] : OneVoice(res[n][m])
    /\ \A m \in DOMAIN cParts : OneVoice(cParts[m])
    /\ Splitting =>
        /\ OfText(piece)
        /\ \A m \in DOMAIN pieces : OfText(pieces[m])
        /\ cPart => OfText(cParts[Len(cParts)])

LEMMA VoiceStep ==
    ASSUME FinderInv, VoiceInv, [Next]_vars
    PROVE  VoiceInv'
<1>1. /\ piece \in Seq(Piece) /\ pieces \in Seq(Seq(Piece)) /\ cParts \in Seq(Seq(Piece))
      /\ res \in Seq(Seq(Seq(Piece)))
  BY DEF FinderInv, SSMLTypeOK
<1>2. \A ps : OneVoice(ps)' <=> OneVoice(ps)
  BY DEF OneVoice
<1>3. CASE StartText
  <2>1. UNCHANGED <<cParts, res>> /\ piece' = <<>> /\ pieces' = <<>>
    BY <1>3 DEF StartText, FinderInv, FreshInv
  <2>2. ~cPart'
    BY <1>3, Zenon DEF StartText, PartOfNewText
  <2> QED  BY <2>1, <2>2 DEF VoiceInv, OneVoice, OfText
<1>4. CASE FindChunk \/ UNCHANGED vars
  BY <1>4, OutputSame DEF VoiceInv, OneVoice, OfText
<1>5. CASE TakeToEnd \/ TakeSome
  <2>1. UNCHANGED <<k, pieces, cParts, cPart, res>> /\ Splitting
    BY <1>5, Taken DEF Splitting
  <2>2. PICK p \in Piece : piece' = Append(piece, p) /\ p.of = k
    BY <1>5, Taken
  <2>3. ASSUME NEW n \in DOMAIN piece' PROVE piece'[n].of = k
    <3>1. (n \in DOMAIN piece /\ piece'[n] = piece[n]) \/ piece'[n] = p
      BY <1>1, <2>2, Appended
    <3> QED  BY <2>1, <2>2, <3>1 DEF VoiceInv, OfText
  <2> QED  BY <2>1, <2>3 DEF VoiceInv, OneVoice, OfText
<1>6. CASE CutChunk
  <2>1. /\ UNCHANGED <<k, cParts, cPart, res>> /\ Splitting
        /\ piece' = <<>> /\ pieces' = Append(pieces, piece)
    BY <1>6 DEF CutChunk, Chunks!Cut, gathering, Splitting
  <2>2. ASSUME NEW m \in DOMAIN pieces' PROVE OfText(pieces'[m])
    <3>1. (m \in DOMAIN pieces /\ pieces'[m] = pieces[m]) \/ pieces'[m] = piece
      BY <1>1, <2>1, Appended
    <3> QED  BY <2>1, <3>1 DEF VoiceInv
  <2> QED  BY <2>1, <2>2 DEF VoiceInv, OneVoice, OfText
<1>7. CASE Merge
  <2>1. UNCHANGED <<k, piece, pieces>> /\ Splitting
    BY <1>7 DEF Merge, finding, Splitting
  <2>2. PICK ps \in Seq(Piece) : ps = pieces[merged + 1]
    BY <1>7, MergeCases
  <2>3. OfText(ps)
    <3>1. merged + 1 \in DOMAIN pieces
      BY <1>1, <1>7 DEF Merge, FinderInv, SSMLTypeOK
    <3> QED  BY <2>1, <2>2, <3>1 DEF VoiceInv
  <2>4. \A n \in DOMAIN res' : \A m \in DOMAIN res'[n] : OneVoice(res'[n][m])
    <3>1. res' = res \/ res' = Append(res, cParts)
      BY <1>7, <2>2, MergeCases
    <3>2. ASSUME NEW n \in DOMAIN res'
          PROVE  (n \in DOMAIN res /\ res'[n] = res[n]) \/ res'[n] = cParts
      <4>1. CASE res' = res
        BY <4>1
      <4>2. CASE res' = Append(res, cParts)
        BY <1>1, <4>2, Appended
      <4> QED  BY <3>1, <4>1, <4>2
    <3> QED  BY <3>2 DEF VoiceInv
  <2>5. /\ cParts' # <<>> /\ cParts' \in Seq(Seq(Piece)) /\ OfText(cParts'[Len(cParts')])
        /\ \A m \in DOMAIN cParts' :
            m = Len(cParts') \/ (m \in DOMAIN cParts /\ cParts'[m] = cParts[m])
    <3>1. CASE cPart /\ cParts # <<>> /\ cParts' = [cParts EXCEPT ![Len(cParts)] = @ \o ps]
      <4>1. PICK l : l = Len(cParts)
        OBVIOUS
      <4>2. l \in 1 .. Len(cParts)
        BY <1>1, <3>1, <4>1, EmptySeq
      <4>3. cParts[l] \in Seq(Piece) /\ OfText(cParts[l])
        BY <1>1, <2>1, <3>1, <4>1, <4>2, ElementOfSeq DEF VoiceInv
      <4>4. PICK e : e = cParts[l] \o ps
        OBVIOUS
      <4>5. /\ e \in Seq(Piece) /\ Len(e) = Len(cParts[l]) + Len(ps)
            /\ \A x \in 1 .. Len(cParts[l]) + Len(ps) :
                e[x] = IF x <= Len(cParts[l]) THEN cParts[l][x] ELSE ps[x - Len(cParts[l])]
        BY <4>3, <4>4, ConcatProperties
      <4>6. OfText(e)
        <5> SUFFICES ASSUME NEW x \in 1 .. Len(e) PROVE e[x].of = k
          BY <4>5 DEF OfText
        <5>1. Len(cParts[l]) \in Nat /\ Len(ps) \in Nat
          BY <4>3
        <5>2. CASE x <= Len(cParts[l])
          BY <4>3, <4>5, <5>1, <5>2 DEF OfText
        <5>3. CASE ~(x <= Len(cParts[l]))
          <6>1. x - Len(cParts[l]) \in 1 .. Len(ps) /\ x \in 1 .. Len(cParts[l]) + Len(ps)
            BY <4>5, <5>1, <5>3
          <6> QED  BY <2>3, <4>5, <5>3, <6>1 DEF OfText
        <5> QED  BY <5>2, <5>3
      <4>7. cParts' = [cParts EXCEPT ![l] = e]
        BY <3>1, <4>1, <4>4
      <4>8. /\ cParts' \in Seq(Seq(Piece)) /\ Len(cParts') = l
            /\ \A m \in 1 .. l : cParts'[m] = IF m = l THEN e ELSE cParts[m]
        BY <1>1, <4>1, <4>2, <4>5, <4>7, ExceptSeq
      <4>9. cParts'[l] = e /\ l # 0
        BY <4>1, <4>2, <4>8
      <4>10. cParts' # <<>>
        BY <4>8, <4>9, EmptySeq
      <4>11. DOMAIN cParts' = 1 .. l /\ DOMAIN cParts = 1 .. l
        BY <1>1, <4>1, <4>8
      <4>12. OfText(cParts'[Len(cParts')])
        BY <4>6, <4>8, <4>9
      <4> QED  BY <4>8, <4>10, <4>11, <4>12
    <3>2. CASE cParts' = Append(cParts, ps)
      <4>1. /\ cParts' \in Seq(Seq(Piece)) /\ cParts' # <<>>
            /\ cParts'[Len(cParts')] = ps
            /\ \A m \in DOMAIN cParts' :
                (m \in DOMAIN cParts /\ cParts'[m] = cParts[m]) \/ m = Len(cParts')
        <5>1. cParts \in Seq(Seq(Piece)) /\ ps \in Seq(Piece)
          BY <1>1, <2>2
        <5>2. PICK tt : tt = cParts'
          OBVIOUS
        <5>3. tt = Append(cParts, ps)
          BY <3>2, <5>2
        <5>4. /\ tt \in Seq(Seq(Piece)) /\ tt # <<>> /\ tt[Len(tt)] = ps
              /\ \A m \in DOMAIN tt : (m \in DOMAIN cParts /\ tt[m] = cParts[m]) \/ m = Len(tt)
          BY <5>1, <5>3, Appended
        <5> QED  BY <5>2, <5>4
      <4>2. OfText(cParts'[Len(cParts')])
        BY <2>3, <4>1
      <4> QED  BY <4>1, <4>2
    <3>3. CASE cParts' = Append(<<>>, ps)
      <4>1. <<>> \in Seq(Seq(Piece)) /\ DOMAIN <<>> = {}
        BY EmptySeq
      <4> QED  BY <2>3, <3>3, <4>1, Appended
    <3> QED  BY <1>7, <2>2, <3>1, <3>2, <3>3, MergeCases
  <2>6. OneVoice(cParts'[Len(cParts')])
    BY <2>5 DEF OneVoice, OfText
  <2>7. \A m \in DOMAIN cParts' : OneVoice(cParts'[m])
    BY <2>5, <2>6 DEF VoiceInv
  <2>8. \A qs : OfText(qs)' <=> OfText(qs)
    BY <2>1 DEF OfText
  <2>9. OfText(piece) /\ \A m \in DOMAIN pieces : OfText(pieces[m])
    BY <2>1 DEF VoiceInv
  <2> QED  BY <2>1, <2>4, <2>5, <2>7, <2>9 DEF VoiceInv, OneVoice, OfText
<1>8. CASE TextDone
  <2>1. UNCHANGED <<cParts, res>> /\ ~Splitting'
    BY <1>8 DEF TextDone, gathering, Splitting
  <2> QED  BY <2>1 DEF VoiceInv, OneVoice
<1>9. CASE AddPause
  <2>1. res' = res /\ ~Splitting' /\ cParts' = Append(cParts, <<PauseAt(k)>>)
    BY <1>9 DEF AddPause, cutting, Splitting
  <2>2. ASSUME NEW m \in DOMAIN cParts'
        PROVE  (m \in DOMAIN cParts /\ cParts'[m] = cParts[m]) \/ cParts'[m] = <<PauseAt(k)>>
    <3>1. <<PauseAt(k)>> \in Seq(Piece)
      <4>1. doc \in Seq(Seq(TextPart)) /\ k \in Nat \ {0} /\ k <= Len(doc)
        BY <1>9, DocumentsAssumption DEF AddPause, FinderInv, SSMLTypeOK
      <4>2. k \in DOMAIN doc /\ doc[k] \in Seq(TextPart)
        BY <4>1
      <4>3. PauseAt(k) \in Piece
        BY <4>1, <4>2 DEF PauseAt, Piece
      <4> QED  BY <4>3
    <3> QED  BY <1>1, <2>1, <3>1, Appended
  <2>3. OneVoice(<<PauseAt(k)>>)
    BY DEF OneVoice
  <2>4. \A m \in DOMAIN cParts' : OneVoice(cParts'[m])
    BY <2>2, <2>3 DEF VoiceInv
  <2> QED  BY <2>1, <2>4 DEF VoiceInv, OneVoice
<1>10. CASE LastRequest
  <2>1. cParts' = cParts /\ ~Splitting' /\ (res' = res \/ res' = Append(res, cParts))
    BY <1>10 DEF LastRequest, Splitting
  <2>2. ASSUME NEW n \in DOMAIN res'
        PROVE  (n \in DOMAIN res /\ res'[n] = res[n]) \/ res'[n] = cParts
    BY <1>1, <2>1, Appended
  <2>3. \A n \in DOMAIN res' : \A m \in DOMAIN res'[n] : OneVoice(res'[n][m])
    BY <2>2 DEF VoiceInv
  <2> QED  BY <2>1, <2>3 DEF VoiceInv, OneVoice
<1> QED
  BY <1>3, <1>4, <1>5, <1>6, <1>7, <1>8, <1>9, <1>10 DEF Next, Ended

\* A text of a request has the pieces of one text of the document, so of one
\* voice.
THEOREM VoiceKeptHolds == Spec => []VoiceKept
<1>1. Init => VoiceInv
  BY DEF Init, VoiceInv, Splitting
<1>2. FinderInv /\ VoiceInv /\ [Next]_vars => VoiceInv'
  BY VoiceStep
<1>3. VoiceInv => VoiceKept
  BY DEF VoiceInv, VoiceKept, OneVoice
<1> QED  BY <1>1, <1>2, <1>3, FinderInvariance, PTL DEF Spec

-----------------------------------------------------------------------------
(* The content is kept. *)

\* The pieces and pauses of the requests so far, the one being gathered too.
Written == Seqs!FlattenSeq(Seqs!FlattenSeq(res)) \o Seqs!FlattenSeq(cParts)

\* The place in the document the pieces have come to.
Here ==
    IF pc = "part" THEN ItemBegins(k)
    ELSE IF pPart = Len(Parts) + 1 THEN ItemBegins(k + 1)
    ELSE <<k, pPart, pText>>

\* The requests have what was written before the text, and as many of its
\* chunks as were merged; with all of its pieces they come to the place the
\* finder is at.
ContentInv ==
    /\ pc = "part" => Covers(Written, ItemBegins(1), Here)
    /\ Splitting =>
        \E before \in Seq(Piece) :
            /\ Written = before \o Seqs!FlattenSeq(SubSeq(pieces, 1, merged))
            /\ Covers(before \o (Seqs!FlattenSeq(pieces) \o piece), ItemBegins(1), Here)
    /\ ContentKept

LEMMA CoversAppend ==
    ASSUME NEW ps \in Seq(Piece), NEW p \in Piece, NEW a, NEW b, Covers(ps, a, b), Begins(p) = b
    PROVE  Covers(Append(ps, p), a, Following(p))
<1>1. PICK qs : qs = Append(ps, p)
  OBVIOUS
<1>2. PICK l \in Nat : l = Len(ps)
  BY LenProperties
<1>3. /\ qs # <<>> /\ Len(qs) = l + 1 /\ qs[l + 1] = p
      /\ \A n \in 1 .. l : qs[n] = ps[n]
  BY <1>1, <1>2, AppendProperties
<1>4. CASE ps = <<>>
  <2>1. l = 0 /\ a = b
    BY <1>2, <1>4, EmptySeq DEF Covers
  <2>2. Len(qs) = 1 /\ qs[1] = p
    BY <1>3, <2>1
  <2> QED  BY <1>1, <1>3, <2>1, <2>2 DEF Covers
<1>5. CASE ps # <<>>
  <2>1. l \in 1 .. l /\ 1 \in 1 .. l
    BY <1>2, <1>5, EmptySeq
  <2>2. /\ Begins(ps[1]) = a
        /\ \A n \in 1 .. l - 1 : Begins(ps[n + 1]) = Following(ps[n])
        /\ Following(ps[l]) = b
    BY <1>2, <1>5 DEF Covers
  <2>3. Begins(qs[1]) = a
    BY <1>3, <2>1, <2>2
  <2>4. ASSUME NEW n \in 1 .. l PROVE Begins(qs[n + 1]) = Following(qs[n])
    <3>1. CASE n = l
      BY <1>3, <2>1, <2>2, <3>1
    <3>2. CASE n # l
      <4>1. n \in 1 .. l - 1 /\ n + 1 \in 1 .. l
        BY <1>2, <3>2
      <4> QED  BY <1>3, <2>2, <4>1
    <3> QED  BY <3>1, <3>2
  <2>5. l + 1 - 1 = l
    BY <1>2
  <2>6. Following(qs[Len(qs)]) = Following(p)
    BY <1>3
  <2>7. \A n \in 1 .. Len(qs) - 1 : Begins(qs[n + 1]) = Following(qs[n])
    BY <1>3, <2>4, <2>5
  <2> QED  BY <1>1, <1>3, <2>3, <2>6, <2>7 DEF Covers
<1> QED  BY <1>4, <1>5

\* The document doesn't change, so neither does what covers it.
LEMMA CoversSame ==
    ASSUME doc' = doc, NEW ps, NEW a, NEW b, Covers(ps, a, b)
    PROVE  Covers(ps, a, b)'
BY DEF Covers, Begins, Following, Size, Offset, ItemBegins, Pause

LEMMA ItemSame ==
    ASSUME doc' = doc, NEW n
    PROVE  ItemBegins(n)' = ItemBegins(n)
BY DEF ItemBegins, Pause

\* What is written of a text comes after what was written before.
LEMMA Contents ==
    ASSUME FinderInv
    PROVE  /\ Written \in Seq(Piece)
           /\ Seqs!FlattenSeq(res) \in Seq(Seq(Piece))
           /\ Seqs!FlattenSeq(Seqs!FlattenSeq(res)) \in Seq(Piece)
           /\ Seqs!FlattenSeq(cParts) \in Seq(Piece)
           /\ Seqs!FlattenSeq(pieces) \in Seq(Piece)
           /\ Seqs!FlattenSeq(pieces) \o piece \in Seq(Piece)
<1>1. /\ piece \in Seq(Piece) /\ pieces \in Seq(Seq(Piece)) /\ cParts \in Seq(Seq(Piece))
      /\ res \in Seq(Seq(Seq(Piece)))
  BY DEF FinderInv, SSMLTypeOK
<1>2. Seqs!FlattenSeq(res) \in Seq(Seq(Piece))
  BY <1>1, FlattenType
<1>3. /\ Seqs!FlattenSeq(Seqs!FlattenSeq(res)) \in Seq(Piece)
      /\ Seqs!FlattenSeq(cParts) \in Seq(Piece) /\ Seqs!FlattenSeq(pieces) \in Seq(Piece)
  BY <1>1, <1>2, FlattenType
<1>4. Written \in Seq(Piece) /\ Seqs!FlattenSeq(pieces) \o piece \in Seq(Piece)
  BY <1>1, <1>3, ConcatProperties DEF Written
<1> QED  BY <1>2, <1>3, <1>4

\* The finder has found every part when the chunks are done.
LEMMA AllFound ==
    ASSUME FinderInv, pc = "done"
    PROVE  pPart = Len(Parts) + 1
<1>1. /\ Splitting /\ k \in DOMAIN doc /\ Parts # <<>> /\ text = Join(Parts) /\ PlaceInv /\ AheadInv
      /\ Cutter!IInv /\ from = 0
  BY DEF FinderInv, TextInv, Splitting, Pause, FreshInv
<1>2. Proper(Parts)
  BY <1>1, ProperParts DEF FinderInv, SSMLTypeOK, Parts
<1>3. Len(Parts) \in Nat
  BY <1>2, LenProperties DEF Proper
<1>4. at = Len(text) /\ Len(text) \in Nat
  <2>1. Len(text) - at = 0
    BY <1>1 DEF Cutter!IInv, Cutter!DoneInv, Cutter!Rest
  <2> QED  BY <2>1 DEF FinderInv, SSMLTypeOK
<1>5. SUFFICES ASSUME pPart \in 1 .. Len(Parts) PROVE FALSE
  BY <1>1, <1>3 DEF PlaceInv
<1>6. PICK l : l = Len(Parts[pPart].text)
  OBVIOUS
<1>7. PICK st : st = PartStart(Parts, pPart)
  OBVIOUS
<1>8. l \in Nat \ {0} /\ st \in Nat
  BY <1>2, <1>5, <1>6, <1>7, JoinNext
<1>9. pText < l /\ pText \in Nat
  <2>1. pPart # Len(Parts) + 1
    BY <1>3, <1>5
  <2> QED  BY <1>1, <1>6, <2>1 DEF PlaceInv, FinderInv, SSMLTypeOK
<1>10. st + l \in 1 .. Len(text)
  <2>1. l \in 1 .. l
    BY <1>8
  <2> QED  BY <1>1, <1>2, <1>5, <1>6, <1>7, <2>1, RuneOfPart
<1>11. st + pText - at - 0 \in {0, 1}
  <2>1. Ahead = (st + pText) - at - from
    BY <1>7 DEF Ahead, Found
  <2>2. st \in Int /\ pText \in Int /\ at \in Int
    BY <1>4, <1>8, <1>9
  <2> QED  BY <1>1, <2>1, <2>2 DEF AheadInv
<1> QED  BY <1>4, <1>8, <1>9, <1>10, <1>11

\* A chunk that is merged is written.
LEMMA MergeWrites ==
    ASSUME FinderInv, NEW ps \in Seq(Piece),
           \/ cParts # <<>> /\ res' = res /\ cParts' = [cParts EXCEPT ![Len(cParts)] = @ \o ps]
           \/ res' = res /\ cParts' = Append(cParts, ps)
           \/ /\ res' = res \/ res' = Append(res, cParts)
              /\ res' = res => cParts = <<>>
              /\ cParts' = Append(<<>>, ps)
    PROVE  Written' = Written \o ps
<1>1. cParts \in Seq(Seq(Piece)) /\ res \in Seq(Seq(Seq(Piece)))
  BY DEF FinderInv, SSMLTypeOK
<1>2. ps \in Seq(Piece)
  OBVIOUS
<1>3. PICK rs \in Seq(Piece) : rs = Seqs!FlattenSeq(Seqs!FlattenSeq(res))
  BY Contents
<1>4. PICK cs \in Seq(Piece) : cs = Seqs!FlattenSeq(cParts)
  BY Contents
<1>5. Written = rs \o cs
  BY <1>3, <1>4 DEF Written
<1>6. Written' = Seqs!FlattenSeq(Seqs!FlattenSeq(res')) \o Seqs!FlattenSeq(cParts')
  BY DEF Written
<1>7. (rs \o cs) \o ps = rs \o (cs \o ps)
  BY <1>2, <1>3, <1>4, ConcatAssociative
<1>8. CASE res' = res /\ Seqs!FlattenSeq(cParts') = cs \o ps
  BY <1>3, <1>5, <1>6, <1>7, <1>8
<1>9. CASE cParts # <<>> /\ res' = res /\ cParts' = [cParts EXCEPT ![Len(cParts)] = @ \o ps]
  <2>1. Seqs!FlattenSeq(cParts') = cs \o ps
    BY <1>1, <1>2, <1>4, <1>9, FlattenExtend
  <2> QED  BY <1>8, <1>9, <2>1
<1>10. CASE res' = res /\ cParts' = Append(cParts, ps)
  <2>1. Seqs!FlattenSeq(cParts') = cs \o ps
    BY <1>1, <1>2, <1>4, <1>10, FlattenAppend
  <2> QED  BY <1>8, <1>10, <2>1
<1>11. CASE /\ res' = res \/ res' = Append(res, cParts)
            /\ res' = res => cParts = <<>>
            /\ cParts' = Append(<<>>, ps)
  <2>1. Seqs!FlattenSeq(cParts') = ps
    <3>1. <<>> \in Seq(Seq(Piece)) /\ <<>> \o ps = ps
      BY <1>2, EmptySeq, ConcatEmptySeq
    <3>2. Seqs!FlattenSeq(Append(<<>>, ps)) = Seqs!FlattenSeq(<<>>) \o ps
      BY <1>2, <3>1, FlattenAppend
    <3> QED  BY <1>11, <3>1, <3>2, FlattenEmpty
  <2>2. CASE res' = res
    <3>1. cs = <<>> /\ <<>> \o ps = ps
      BY <1>2, <1>4, <1>11, <2>2, FlattenEmpty, ConcatEmptySeq
    <3> QED  BY <1>8, <2>1, <2>2, <3>1
  <2>3. CASE res' = Append(res, cParts)
    <3>1. Seqs!FlattenSeq(res') = Seqs!FlattenSeq(res) \o cParts
      BY <1>1, <2>3, FlattenAppend
    <3>2. Seqs!FlattenSeq(Seqs!FlattenSeq(res) \o cParts) = rs \o cs
      BY <1>1, <1>3, <1>4, Contents, FlattenConcat
    <3> QED  BY <1>5, <1>6, <2>1, <3>1, <3>2
  <2> QED  BY <1>11, <2>2, <2>3
<1> QED  BY <1>9, <1>10, <1>11

\* A chunk that is complete is one more of the chunks.
LEMMA ContentCut ==
    ASSUME FinderInv, ContentInv, CutChunk
    PROVE  ContentInv'
<1>1. /\ doc' = doc /\ k' = k /\ pPart' = pPart /\ pText' = pText /\ merged' = merged
      /\ cParts' = cParts /\ res' = res /\ pieces' = Append(pieces, piece) /\ piece' = <<>>
      /\ pc = "cut" /\ pc' = "chunk"
  BY DEF CutChunk, Chunks!Cut, gathering
<1>2. piece \in Seq(Piece) /\ pieces \in Seq(Seq(Piece)) /\ merged = 0
  BY <1>1 DEF FinderInv, SSMLTypeOK, TextInv, Splitting
<1>3. PICK before \in Seq(Piece) :
        /\ Written = before \o Seqs!FlattenSeq(SubSeq(pieces, 1, merged))
        /\ Covers(before \o (Seqs!FlattenSeq(pieces) \o piece), ItemBegins(1), Here)
  BY <1>1 DEF ContentInv, Splitting
<1>4. Piece' = Piece /\ Parts' = Parts
  BY <1>1 DEF Piece, Parts
<1>5. Here' = Here
  <2>1. ItemBegins(k + 1)' = ItemBegins(k + 1)
    BY <1>1 DEF ItemBegins, Pause
  <2> QED  BY <1>1, <1>4, <2>1 DEF Here
<1>6. SubSeq(pieces', 1, merged') = SubSeq(pieces, 1, merged)
  <2>1. SubSeq(pieces, 1, 0) = <<>> /\ SubSeq(pieces', 1, 0) = <<>>
    BY SubSeqEmpty
  <2> QED  BY <1>1, <1>2, <2>1
<1>7. Written' = before \o Seqs!FlattenSeq(SubSeq(pieces', 1, merged'))
  BY <1>1, <1>3, <1>6 DEF Written
<1>8. Seqs!FlattenSeq(pieces') \o piece' = Seqs!FlattenSeq(pieces) \o piece
  <2>1. Seqs!FlattenSeq(pieces') = Seqs!FlattenSeq(pieces) \o piece
    BY <1>1, <1>2, FlattenAppend
  <2>2. (Seqs!FlattenSeq(pieces) \o piece) \o <<>> = Seqs!FlattenSeq(pieces) \o piece
    BY Contents, ConcatEmptySeq
  <2> QED  BY <1>1, <2>1, <2>2
<1>9. PICK c : c = before \o (Seqs!FlattenSeq(pieces) \o piece)
  OBVIOUS
<1>10. PICK b : b = ItemBegins(1)
  OBVIOUS
<1>11. PICK h : h = Here
  OBVIOUS
<1>12. Covers(c, b, h)'
  BY <1>1, <1>3, <1>9, <1>10, <1>11, CoversSame
<1>13. ItemBegins(1)' = b /\ Here' = h
  BY <1>1, <1>5, <1>10, <1>11, ItemSame
<1>14. c = before \o (Seqs!FlattenSeq(pieces') \o piece')
  BY <1>8, <1>9
<1>15. Covers(before \o (Seqs!FlattenSeq(pieces) \o piece), ItemBegins(1), Here)'
  BY <1>12, <1>13, <1>14
<1> QED  BY <1>1, <1>3, <1>4, <1>7, <1>15 DEF ContentInv, ContentKept

\* A chunk that is merged is written after the ones before it.
LEMMA ContentMerge ==
    ASSUME FinderInv, ContentInv, Merge
    PROVE  ContentInv'
<1>1. /\ doc' = doc /\ k' = k /\ pPart' = pPart /\ pText' = pText /\ merged' = merged + 1
      /\ pieces' = pieces /\ piece' = piece /\ pc = "done" /\ pc' = "done" /\ merged < Len(pieces)
  BY DEF Merge, finding, cutting
<1>2. pieces \in Seq(Seq(Piece)) /\ merged \in 0 .. Len(pieces) /\ Len(pieces) \in Nat
  BY DEF FinderInv, SSMLTypeOK
<1>3. PICK before \in Seq(Piece) :
        /\ Written = before \o Seqs!FlattenSeq(SubSeq(pieces, 1, merged))
        /\ Covers(before \o (Seqs!FlattenSeq(pieces) \o piece), ItemBegins(1), Here)
  BY <1>1 DEF ContentInv, Splitting
<1>4. Piece' = Piece /\ Parts' = Parts
  BY <1>1 DEF Piece, Parts
<1>5. Here' = Here
  <2>1. ItemBegins(k + 1)' = ItemBegins(k + 1)
    BY <1>1 DEF ItemBegins, Pause
  <2> QED  BY <1>1, <1>4, <2>1 DEF Here
<1>6. PICK ps : ps = pieces[merged + 1]
  OBVIOUS
<1>7. ps \in Seq(Piece) /\ Written' = Written \o ps
  <2>1. ps \in Seq(Piece)
    BY <1>6, MergeCases
  <2>2. \/ cParts # <<>> /\ res' = res /\ cParts' = [cParts EXCEPT ![Len(cParts)] = @ \o ps]
        \/ res' = res /\ cParts' = Append(cParts, ps)
        \/ /\ res' = res \/ res' = Append(res, cParts)
           /\ res' = res => cParts = <<>>
           /\ cParts' = Append(<<>>, ps)
    BY <1>6, MergeCases
  <2> QED  BY <2>1, <2>2, MergeWrites
<1>8. PICK m : m = merged + 1
  OBVIOUS
<1>9. m \in 1 .. Len(pieces) /\ m - 1 = merged
  BY <1>1, <1>2, <1>8
<1>10. PICK f : f = Seqs!FlattenSeq(UpTo(pieces, merged))
  OBVIOUS
<1>11. f \in Seq(Piece) /\ Seqs!FlattenSeq(UpTo(pieces, m)) = f \o ps
  <2>1. /\ UpTo(pieces, m - 1) \in Seq(Seq(Piece))
        /\ UpTo(pieces, m) = Append(UpTo(pieces, m - 1), pieces[m])
    BY <1>2, <1>9, UpToNext
  <2>2. UpTo(pieces, merged) \in Seq(Seq(Piece)) /\ UpTo(pieces, m) = Append(UpTo(pieces, merged), ps)
    BY <1>6, <1>8, <1>9, <2>1, Zenon
  <2> QED  BY <1>7, <1>10, <2>2, FlattenType, FlattenAppend
<1>12. (before \o f) \o ps = before \o (f \o ps)
  BY <1>3, <1>7, <1>11, ConcatAssociative
<1>13. Written = before \o f
  BY <1>3, <1>10 DEF UpTo
<1>14. Written' = before \o Seqs!FlattenSeq(SubSeq(pieces', 1, merged'))
  <2>1. UpTo(pieces, m) = SubSeq(pieces', 1, merged')
    BY <1>1, <1>8 DEF UpTo
  <2> QED  BY <1>7, <1>11, <1>12, <1>13, <2>1
<1>15. PICK c : c = before \o (Seqs!FlattenSeq(pieces) \o piece)
  OBVIOUS
<1>16. PICK b : b = ItemBegins(1)
  OBVIOUS
<1>17. PICK h : h = Here
  OBVIOUS
<1>18. Covers(c, b, h)'
  BY <1>1, <1>3, <1>15, <1>16, <1>17, CoversSame
<1>19. ItemBegins(1)' = b /\ Here' = h
  BY <1>1, <1>5, <1>16, <1>17, ItemSame
<1>20. c = before \o (Seqs!FlattenSeq(pieces') \o piece')
  BY <1>1, <1>15
<1>21. Covers(before \o (Seqs!FlattenSeq(pieces) \o piece), ItemBegins(1), Here)'
  BY <1>18, <1>19, <1>20
<1> QED  BY <1>1, <1>3, <1>4, <1>14, <1>21 DEF ContentInv, ContentKept

\* With the last chunk merged the whole text is written.
LEMMA ContentDone ==
    ASSUME FinderInv, ContentInv, TextDone
    PROVE  ContentInv'
<1>1. /\ doc' = doc /\ k' = k + 1 /\ cParts' = cParts /\ res' = res
      /\ pc = "done" /\ pc' = "part" /\ merged = Len(pieces)
  BY DEF TextDone, gathering
<1>2. piece = <<>> /\ pieces \in Seq(Seq(Piece))
  BY <1>1 DEF FinderInv, SSMLTypeOK, FreshInv
<1>3. PICK before \in Seq(Piece) :
        /\ Written = before \o Seqs!FlattenSeq(SubSeq(pieces, 1, merged))
        /\ Covers(before \o (Seqs!FlattenSeq(pieces) \o piece), ItemBegins(1), Here)
  BY <1>1 DEF ContentInv, Splitting
<1>4. Here = ItemBegins(k + 1)
  BY <1>1, AllFound DEF Here
<1>5. SubSeq(pieces, 1, merged) = pieces
  BY <1>1, <1>2, SubSeqFull
<1>6. Seqs!FlattenSeq(pieces) \o piece = Seqs!FlattenSeq(pieces)
  BY <1>2, Contents, ConcatEmptySeq
<1>7. PICK w : w = Written
  OBVIOUS
<1>8. PICK b : b = ItemBegins(1)
  OBVIOUS
<1>9. PICK h : h = ItemBegins(k + 1)
  OBVIOUS
<1>10. Covers(w, b, h)
  BY <1>3, <1>4, <1>5, <1>6, <1>7, <1>8, <1>9
<1>11. Covers(w, b, h)'
  BY <1>1, <1>10, CoversSame
<1>12. Written' = w /\ ItemBegins(1)' = b
  BY <1>1, <1>7, <1>8, ItemSame DEF Written
<1>13. Here' = h
  BY <1>1, <1>9 DEF Here, ItemBegins, Pause
<1>14. Covers(Written, ItemBegins(1), Here)'
  BY <1>11, <1>12, <1>13
<1> QED  BY <1>1, <1>14 DEF ContentInv, ContentKept, Splitting

\* A pause is a piece that comes next.
LEMMA ContentPause ==
    ASSUME FinderInv, ContentInv, AddPause
    PROVE  ContentInv'
<1>1. /\ doc' = doc /\ k' = k + 1 /\ cParts' = Append(cParts, <<PauseAt(k)>>) /\ res' = res
      /\ pc = "part" /\ pc' = "part" /\ k <= Len(doc) /\ Parts = Pause
  BY DEF AddPause, cutting
<1>2. /\ cParts \in Seq(Seq(Piece)) /\ k \in DOMAIN doc /\ k \in Nat
      /\ Len(doc[k]) \in Nat
  <2>1. k \in 1 .. Len(doc) + 1 /\ doc \in Seq(Seq(TextPart))
    BY DocumentsAssumption DEF FinderInv, SSMLTypeOK
  <2>2. k \in 1 .. Len(doc) /\ Len(doc) \in Nat
    BY <1>1, <2>1
  <2>3. doc[k] \in Seq(TextPart)
    BY <2>1, <2>2, ElementOfSeq
  <2> QED  BY <2>1, <2>2, <2>3, LenProperties DEF FinderInv, SSMLTypeOK
<1>3. PICK p : p = PauseAt(k)
  OBVIOUS
<1>4. p \in Piece /\ p.of = k /\ p.part = 0 /\ p.from = 0
  BY <1>2, <1>3 DEF PauseAt, Piece
<1>5. Begins(p) = ItemBegins(k)
  BY <1>1, <1>4 DEF Begins, ItemBegins, Parts
<1>6. Following(p) = ItemBegins(k + 1)
  BY <1>4 DEF Following
<1>7. PICK w \in Seq(Piece) : w = Written
  BY Contents
<1>8. PICK b : b = ItemBegins(1)
  OBVIOUS
<1>9. Covers(w, b, ItemBegins(k))
  BY <1>1, <1>7, <1>8 DEF ContentInv, Here
<1>10. PICK h : h = Following(p)
  OBVIOUS
<1>11. PICK wp : wp = Append(w, p)
  OBVIOUS
<1>12. Covers(wp, b, h)'
  <2>1. Covers(wp, b, h)
    BY <1>4, <1>5, <1>7, <1>9, <1>10, <1>11, CoversAppend
  <2> QED  BY <1>1, <2>1, CoversSame
<1>13. Written' = wp
  <2>1. PICK rs \in Seq(Piece) : rs = Seqs!FlattenSeq(Seqs!FlattenSeq(res))
    BY Contents
  <2>2. PICK cs \in Seq(Piece) : cs = Seqs!FlattenSeq(cParts)
    BY Contents
  <2>3. <<p>> \in Seq(Piece)
    BY <1>4
  <2>4. Seqs!FlattenSeq(cParts') = cs \o <<p>>
    BY <1>1, <1>2, <1>3, <2>2, <2>3, FlattenAppend
  <2>5. cs \o <<p>> = Append(cs, p)
    BY <1>4, <2>2, AppendIsConcat
  <2>6. rs \o Append(cs, p) = Append(rs \o cs, p)
    BY <1>4, <2>1, <2>2, ConcatAppend
  <2>7. w = rs \o cs
    BY <1>7, <2>1, <2>2 DEF Written
  <2> QED  BY <1>1, <1>11, <2>1, <2>4, <2>5, <2>6, <2>7 DEF Written
<1>14. ItemBegins(1)' = b /\ Here' = h
  <2>1. Here' = ItemBegins(k + 1)
    BY <1>1 DEF Here, ItemBegins, Pause
  <2> QED  BY <1>1, <1>6, <1>8, <1>10, <2>1, ItemSame
<1>15. Covers(Written, ItemBegins(1), Here)'
  BY <1>12, <1>13, <1>14
<1> QED  BY <1>1, <1>15 DEF ContentInv, ContentKept, Splitting

\* At the end of the document the requests have it all.
LEMMA ContentLast ==
    ASSUME FinderInv, ContentInv, LastRequest
    PROVE  ContentInv'
<1>1. /\ doc' = doc /\ pc = "part" /\ pc' = "saved" /\ k > Len(doc)
      /\ res' = IF cParts # <<>> THEN Append(res, cParts) ELSE res
  BY DEF LastRequest
<1>2. /\ k = Len(doc) + 1 /\ cParts \in Seq(Seq(Piece)) /\ res \in Seq(Seq(Seq(Piece)))
  <2>1. k \in 1 .. Len(doc) + 1 /\ doc \in Seq(Seq(TextPart))
    BY DocumentsAssumption DEF FinderInv, SSMLTypeOK
  <2> QED  BY <1>1, <2>1 DEF FinderInv, SSMLTypeOK
<1>3. PICK w : w = Written
  OBVIOUS
<1>4. PICK b : b = ItemBegins(1)
  OBVIOUS
<1>5. PICK h : h = ItemBegins(Len(doc) + 1)
  OBVIOUS
<1>6. Covers(w, b, h)'
  <2>1. Covers(w, b, h)
    BY <1>1, <1>2, <1>3, <1>4, <1>5 DEF ContentInv, Here
  <2> QED  BY <1>1, <2>1, CoversSame
<1>7. Seqs!FlattenSeq(Seqs!FlattenSeq(res')) = w
  <2>1. CASE cParts # <<>>
    <3>1. Seqs!FlattenSeq(res') = Seqs!FlattenSeq(res) \o cParts
      BY <1>1, <1>2, <2>1, FlattenAppend
    <3>2. Seqs!FlattenSeq(Seqs!FlattenSeq(res) \o cParts) = Written
      BY <1>2, Contents, FlattenConcat DEF Written
    <3> QED  BY <1>3, <3>1, <3>2
  <2>2. CASE cParts = <<>>
    <3>1. Seqs!FlattenSeq(cParts) = <<>>
      BY <2>2, FlattenEmpty
    <3>2. Written = Seqs!FlattenSeq(Seqs!FlattenSeq(res))
      BY <3>1, Contents, ConcatEmptySeq DEF Written
    <3> QED  BY <1>1, <1>3, <2>2, <3>2
  <2> QED  BY <2>1, <2>2
<1>8. ItemBegins(1)' = b /\ ItemBegins(Len(doc) + 1)' = h
  BY <1>1, <1>4, <1>5 DEF ItemBegins, Pause
<1>9. Covers(Seqs!FlattenSeq(Seqs!FlattenSeq(res)), ItemBegins(1), ItemBegins(Len(doc) + 1))'
  BY <1>6, <1>7, <1>8
<1> QED  BY <1>1, <1>9 DEF ContentInv, ContentKept, Splitting

LEMMA ContentStep ==
    ASSUME FinderInv, ContentInv, [Next]_vars
    PROVE  ContentInv'
<1>1. /\ piece \in Seq(Piece) /\ pieces \in Seq(Seq(Piece)) /\ cParts \in Seq(Seq(Piece))
      /\ res \in Seq(Seq(Seq(Piece)))
  BY DEF FinderInv, SSMLTypeOK
<1>2. PICK w \in Seq(Piece) : w = Written
  BY Contents
<1>3. PICK all \in Seq(Piece) : all = Seqs!FlattenSeq(pieces) \o piece
  BY Contents
<1>4. CASE StartText
  <2>1. /\ doc' = doc /\ k' = k /\ cParts' = cParts /\ res' = res /\ piece' = <<>> /\ pieces' = <<>>
        /\ merged' = 0 /\ pc = "part" /\ pc' = "chunk" /\ pPart' = 1 /\ pText' = 0
        /\ k \in DOMAIN doc /\ Parts # Pause
    BY <1>4 DEF StartText, FinderInv, FreshInv, SSMLTypeOK
  <2>2. Piece' = Piece /\ Parts' = Parts
    BY <2>1 DEF Piece, Parts
  <2>3. Written' = w
    BY <1>2, <2>1 DEF Written
  <2>4. Here' = Here
    <3>1. Len(Parts) # 0
      <4>1. Proper(Parts)
        BY <2>1, ProperParts DEF Parts, FinderInv, SSMLTypeOK
      <4> QED  BY <2>1, <4>1, EmptySeq DEF Proper, Pause
    <3>2. Here' = <<k, 1, 0>>
      BY <2>1, <2>2, <3>1 DEF Here
    <3>3. Here = <<k, 1, 0>>
      BY <2>1 DEF Here, ItemBegins, Parts
    <3> QED  BY <3>2, <3>3
  <2>5. Seqs!FlattenSeq(SubSeq(pieces', 1, merged')) = <<>> /\ Seqs!FlattenSeq(pieces') = <<>>
    <3>1. SubSeq(pieces', 1, merged') = <<>>
      BY <2>1, SubSeqEmpty
    <3> QED  BY <2>1, <3>1, FlattenEmpty
  <2>6. w = w \o <<>> /\ <<>> \o <<>> = <<>>
    BY <1>2, ConcatEmptySeq
  <2>7. Covers(w, ItemBegins(1), Here)
    BY <1>2, <2>1 DEF ContentInv
  <2>8. PICK h : h = Here
    OBVIOUS
  <2>9. PICK b : b = ItemBegins(1)
    OBVIOUS
  <2>10. Covers(w, b, h)'
    BY <2>1, <2>7, <2>8, <2>9, CoversSame
  <2>11. Here' = h /\ ItemBegins(1)' = b
    BY <2>1, <2>4, <2>8, <2>9, ItemSame
  <2>12. w \o (Seqs!FlattenSeq(pieces') \o piece') = w
    BY <2>1, <2>5, <2>6
  <2>13. Covers(w \o (Seqs!FlattenSeq(pieces) \o piece), ItemBegins(1), Here)'
    BY <2>10, <2>11, <2>12
  <2> QED
    BY <1>2, <2>1, <2>2, <2>3, <2>5, <2>6, <2>13 DEF ContentInv, ContentKept
<1>5. CASE FindChunk \/ UNCHANGED vars
  <2>1. /\ UNCHANGED <<doc, k, pPart, pText, piece, pieces, merged, cParts, res>>
        /\ Splitting' <=> Splitting
        /\ pc' = "part" <=> pc = "part"
        /\ pc' = "saved" <=> pc = "saved"
    BY <1>5, OutputSame
  <2>2. Piece' = Piece /\ Parts' = Parts
    BY <2>1 DEF Piece, Parts
  <2>3. Written' = w
    BY <1>2, <2>1 DEF Written
  <2>4. PICK h : h = Here
    OBVIOUS
  <2>5. PICK b : b = ItemBegins(1)
    OBVIOUS
  <2>6. Here' = h /\ ItemBegins(1)' = b
    <3>1. ItemBegins(k)' = ItemBegins(k) /\ ItemBegins(k + 1)' = ItemBegins(k + 1)
      BY <2>1 DEF ItemBegins, Pause
    <3>2. Here' = Here
      BY <2>1, <2>2, <3>1 DEF Here
    <3> QED  BY <2>1, <2>4, <2>5, <3>2, ItemSame
  <2>7. ASSUME pc' = "part" PROVE Covers(Written, ItemBegins(1), Here)'
    <3>1. Covers(w, b, h)
      BY <1>2, <2>1, <2>4, <2>5, <2>7 DEF ContentInv
    <3>2. Covers(w, b, h)'
      BY <2>1, <3>1, CoversSame
    <3> QED  BY <2>3, <2>6, <3>2
  <2>8. ASSUME Splitting
        PROVE  (\E before \in Seq(Piece) :
                  /\ Written = before \o Seqs!FlattenSeq(SubSeq(pieces, 1, merged))
                  /\ Covers(before \o (Seqs!FlattenSeq(pieces) \o piece), ItemBegins(1), Here))'
    <3>1. PICK before \in Seq(Piece) :
            /\ Written = before \o Seqs!FlattenSeq(SubSeq(pieces, 1, merged))
            /\ Covers(before \o (Seqs!FlattenSeq(pieces) \o piece), ItemBegins(1), Here)
      BY <2>8 DEF ContentInv
    <3>2. PICK c : c = before \o (Seqs!FlattenSeq(pieces) \o piece)
      OBVIOUS
    <3>3. Covers(c, b, h)
      BY <2>4, <2>5, <3>1, <3>2
    <3>4. Covers(c, b, h)'
      BY <2>1, <3>3, CoversSame
    <3>5. c = before \o (Seqs!FlattenSeq(pieces') \o piece')
      BY <2>1, <3>2
    <3>6. Covers(before \o (Seqs!FlattenSeq(pieces) \o piece), ItemBegins(1), Here)'
      BY <2>6, <3>4, <3>5
    <3>7. Written' = before \o Seqs!FlattenSeq(SubSeq(pieces', 1, merged'))
      BY <1>2, <2>1, <2>3, <3>1
    <3> QED  BY <2>2, <3>1, <3>6, <3>7
  <2>9. ContentKept'
    <3> SUFFICES ASSUME pc' = "saved"
                 PROVE  Covers(Seqs!FlattenSeq(Seqs!FlattenSeq(res)), ItemBegins(1), ItemBegins(Len(doc) + 1))'
      BY DEF ContentKept
    <3>1. PICK c : c = Seqs!FlattenSeq(Seqs!FlattenSeq(res))
      OBVIOUS
    <3>2. PICK e : e = ItemBegins(Len(doc) + 1)
      OBVIOUS
    <3>3. Covers(c, b, e)
      BY <2>1, <2>5, <3>1, <3>2 DEF ContentInv, ContentKept
    <3>4. Covers(c, b, e)'
      BY <2>1, <3>3, CoversSame
    <3>5. ItemBegins(Len(doc) + 1)' = e
      BY <2>1, <3>2 DEF ItemBegins, Pause
    <3> QED  BY <2>1, <2>6, <3>1, <3>4, <3>5
  <2> QED  BY <2>1, <2>7, <2>8, <2>9 DEF ContentInv
<1>6. CASE TakeToEnd \/ TakeSome
  <2>1. /\ doc' = doc /\ k' = k /\ pieces' = pieces /\ merged' = merged /\ cParts' = cParts /\ res' = res
        /\ pc = "cut" /\ pc' = "cut" /\ pPart \in 1 .. Len(Parts) /\ k \in DOMAIN doc
    BY <1>6, Taken
  <2>2. PICK p \in Piece : /\ piece' = Append(piece, p)
                           /\ p.of = k /\ p.part = pPart /\ p.from = pText
                           /\ TakeToEnd => p.to = Size(Parts[pPart].text)
                           /\ ~TakeToEnd => p.to = TextTo
    BY <1>6, Taken
  <2>3. Piece' = Piece /\ Parts' = Parts
    BY <2>1 DEF Piece, Parts
  <2>4. PICK before \in Seq(Piece) :
          /\ Written = before \o Seqs!FlattenSeq(SubSeq(pieces, 1, merged))
          /\ Covers(before \o (Seqs!FlattenSeq(pieces) \o piece), ItemBegins(1), Here)
    BY <2>1 DEF ContentInv, Splitting
  <2>5. PICK c \in Seq(Piece) : c = before \o all
    BY <1>3, <2>4, ConcatProperties
  <2>6. PICK b : b = ItemBegins(1)
    OBVIOUS
  <2>7. Covers(c, b, Here)
    BY <1>3, <2>4, <2>5, <2>6
  <2>8. Len(Parts) \in Nat /\ pPart # Len(Parts) + 1
    BY <2>1, Finding
  <2>9. Begins(p) = Here
    BY <2>1, <2>2, <2>8 DEF Begins, Here
  <2>10. Covers(Append(c, p), b, Following(p))
    BY <2>2, <2>5, <2>7, <2>9, CoversAppend
  <2>11. Following(p) = Here'
    <3>1. /\ p.part # 0 /\ p.of = k /\ p.part = pPart /\ doc[p.of] = Parts /\ p.part \in Nat
      BY <2>1, <2>2 DEF Parts
    <3>2. ItemBegins(k + 1)' = ItemBegins(k + 1)
      BY <2>1 DEF ItemBegins, Pause
    <3>3. CASE TakeToEnd
      <4>1. pPart' = pPart + 1 /\ pText' = 0
        BY <3>3 DEF TakeToEnd
      <4>2. p.to = Size(Parts[pPart].text)
        BY <2>2, <3>3
      <4>3. Size(Parts[pPart].text) \in Nat
        <5>1. Parts \in Seq(TextPart)
          BY <2>1, Finding DEF Proper
        <5>2. Parts[pPart].text \in Seq(Chunks!Chars)
          <6>1. Parts[pPart] \in TextPart
            BY <2>1, <5>1, ElementOfSeq
          <6> QED  BY <6>1 DEF TextPart
        <5>3. Len(Parts[pPart].text) \in Nat
          BY <5>2, LenProperties
        <5> QED  BY <5>2, <5>3, SizeType DEF Size
      <4>4. ~(p.to < Size(doc[p.of][p.part].text))
        BY <3>1, <4>2, <4>3
      <4>5. CASE pPart < Len(Parts)
        <5>1. Following(p) = <<k, pPart + 1, 0>>
          BY <3>1, <4>4, <4>5 DEF Following
        <5>2. pPart + 1 # Len(Parts) + 1
          BY <2>1, <2>8, <4>5
        <5> QED  BY <2>1, <2>3, <4>1, <5>1, <5>2 DEF Here
      <4>6. CASE pPart = Len(Parts)
        <5>1. Following(p) = ItemBegins(k + 1)
          <6>1. ~(pPart < Len(Parts))
            BY <2>8, <4>6
          <6> QED  BY <3>1, <4>4, <6>1 DEF Following
        <5>2. Here' = ItemBegins(k + 1)'
          <6>1. pPart' = Len(Parts') + 1
            BY <2>3, <4>1, <4>6
          <6> QED  BY <2>1, <6>1 DEF Here
        <5> QED  BY <3>2, <5>1, <5>2
      <4> QED  BY <2>1, <2>8, <4>5, <4>6
    <3>4. CASE ~TakeToEnd
      <4>1. pPart' = pPart /\ pText' = TextTo /\ ~EndsInChunk /\ from < best
        BY <1>6, <3>4 DEF TakeSome
      <4>2. p.to = TextTo
        BY <2>2, <3>4
      <4>3. TextTo < Size(Parts[pPart].text)
        <5>1. PICK str \in Seq(Chunks!Chars) : str = Parts[pPart].text
          <6>1. Parts \in Seq(TextPart)
            BY <2>1, Finding DEF Proper
          <6>2. Parts[pPart] \in TextPart
            BY <2>1, <6>1, ElementOfSeq
          <6> QED  BY <6>2 DEF TextPart
        <5>2. Len(str) \in Nat
          BY <5>1, LenProperties
        <5>3. Offset(str, Len(str)) \in Nat /\ Offset(str, Len(str)) >= Len(str)
          BY <5>1, <5>2, SizeType
        <5>4. ~(Len(str) - pText <= best - from)
          BY <4>1, <5>1 DEF EndsInChunk, RestOfPart
        <5>5. best \in Nat /\ from \in Nat /\ pText \in Nat
          BY <2>1, Finding, ChunkFound DEF FinderInv
        <5>6. TextTo = (best - from) + pText
          BY DEF TextTo
        <5> QED  BY <5>1, <5>2, <5>3, <5>4, <5>5, <5>6 DEF Size
      <4>4. Following(p) = <<k, pPart, TextTo>>
        BY <3>1, <4>2, <4>3 DEF Following
      <4> QED  BY <2>1, <2>3, <2>8, <4>1, <4>4 DEF Here
    <3> QED  BY <3>3, <3>4
  <2>12. PICK h : h = Following(p)
    OBVIOUS
  <2>13. PICK cp : cp = Append(c, p)
    OBVIOUS
  <2>14. Covers(cp, b, h)'
    BY <2>1, <2>10, <2>12, <2>13, CoversSame
  <2>15. cp = before \o (Seqs!FlattenSeq(pieces') \o piece')
    <3>1. PICK f \in Seq(Piece) : f = Seqs!FlattenSeq(pieces)
      BY Contents
    <3>2. p \in Piece /\ before \in Seq(Piece) /\ piece \in Seq(Piece) /\ f \in Seq(Piece)
      BY <1>1, <2>2, <2>4, <3>1
    <3>3. Append(before \o (f \o piece), p) = before \o (f \o Append(piece, p))
      <4>1. PICK q \in Seq(Piece) : q = f \o piece
        BY <3>2, ConcatProperties
      <4>2. before \o Append(q, p) = Append(before \o q, p)
        BY ConcatAppend
      <4>3. f \o Append(piece, p) = Append(f \o piece, p)
        BY <3>2, ConcatAppend
      <4> QED  BY <4>1, <4>2, <4>3
    <3> QED  BY <1>3, <2>1, <2>2, <2>5, <2>13, <3>1, <3>3
  <2>16. Here' = h /\ ItemBegins(1)' = b
    BY <2>1, <2>6, <2>11, <2>12, ItemSame
  <2>17. Covers(before \o (Seqs!FlattenSeq(pieces) \o piece), ItemBegins(1), Here)'
    BY <2>14, <2>15, <2>16
  <2>18. Written' = before \o Seqs!FlattenSeq(SubSeq(pieces', 1, merged'))
    BY <2>1, <2>4 DEF Written
  <2> QED
    BY <2>1, <2>3, <2>4, <2>17, <2>18 DEF ContentInv, ContentKept
<1> QED
  BY <1>4, <1>5, <1>6, ContentCut, ContentMerge, ContentDone, ContentPause, ContentLast DEF Next, Ended

\* doSSML loses nothing of the document, says nothing twice and keeps the
\* order: the requests hold every piece and every pause, one after the other
\* from the first to the last, whatever the document and the sizes are.
THEOREM ContentKeptHolds == Spec => []ContentKept
<1>1. Init => ContentInv
  <2> SUFFICES ASSUME Init PROVE ContentInv
    OBVIOUS
  <2>1. pc = "part" /\ k = 1 /\ res = <<>> /\ cParts = <<>>
    BY DEF Init
  <2>2. Written = <<>>
    <3>1. <<>> \in Seq(Piece) /\ <<>> \o <<>> = <<>>
      BY EmptySeq, ConcatEmptySeq
    <3> QED  BY <2>1, <3>1, FlattenEmpty DEF Written
  <2>3. Covers(Written, ItemBegins(1), Here)
    BY <2>1, <2>2 DEF Covers, Here
  <2> QED  BY <2>1, <2>3 DEF ContentInv, ContentKept, Splitting
<1>2. FinderInv /\ ContentInv /\ [Next]_vars => ContentInv'
  BY ContentStep
<1>3. ContentInv => ContentKept
  BY DEF ContentInv
<1> QED  BY <1>1, <1>2, <1>3, FinderInvariance, PTL DEF Spec

-----------------------------------------------------------------------------
(* A request fits. *)

RunesIn(ps) == UNION {{x} \X Runes(ps[x]) : x \in DOMAIN ps}

LEMMA CountsRunes == \A ps : RuneCount(ps) = Cardinality(RunesIn(ps))
BY DEF RuneCount, RunesIn

LEMMA RunesFinite ==
    ASSUME SSMLTypeOK, NEW p \in Piece
    PROVE  IsFiniteSet(Runes(p))
<1>1. CASE p.part = 0
  BY <1>1, FS_EmptySet DEF Runes
<1>2. CASE p.part # 0
  <2>1. p.of \in DOMAIN doc /\ p.part \in 0 .. Len(doc[p.of]) /\ doc \in Seq(Seq(TextPart))
    BY DocumentsAssumption DEF SSMLTypeOK, Piece
  <2>2. doc[p.of] \in Seq(TextPart)
    BY <2>1, ElementOfSeq
  <2>3. p.part \in 1 .. Len(doc[p.of])
    BY <1>2, <2>1, <2>2, LenProperties
  <2>4. doc[p.of][p.part] \in TextPart
    BY <2>2, <2>3, ElementOfSeq
  <2>5. PICK str \in Seq(Chunks!Chars) : str = doc[p.of][p.part].text
    BY <2>4 DEF TextPart
  <2>6. DOMAIN str = 1 .. Len(str) /\ Len(str) \in Nat
    BY LenProperties
  <2>7. IsFiniteSet(DOMAIN str)
    BY <2>6, FS_Interval
  <2>8. Runes(p) = {n \in DOMAIN str : Offset(str, n - 1) < p.to /\ Offset(str, n) > p.from}
    BY <1>2, <2>5 DEF Runes
  <2>9. Runes(p) \in SUBSET (DOMAIN str)
    BY <2>8
  <2> QED  BY <2>7, <2>9, FS_Subset
<1> QED  BY <1>1, <1>2

\* A piece more has as many runes more as there are in the piece.
LEMMA RunesAppend ==
    ASSUME SSMLTypeOK, NEW ps \in Seq(Piece), NEW p \in Piece, IsFiniteSet(RunesIn(ps))
    PROVE  /\ IsFiniteSet(RunesIn(Append(ps, p)))
           /\ RuneCount(Append(ps, p)) = RuneCount(ps) + Cardinality(Runes(p))
<1>1. PICK qs : qs = Append(ps, p)
  OBVIOUS
<1>2. PICK l \in Nat : l = Len(ps)
  BY LenProperties
<1>3. /\ DOMAIN ps = 1 .. l /\ DOMAIN qs = 1 .. l + 1
      /\ qs[l + 1] = p /\ \A n \in 1 .. l : qs[n] = ps[n]
  BY <1>1, <1>2, AppendProperties
<1>4. PICK last : last = {l + 1} \X Runes(p)
  OBVIOUS
<1>5. IsFiniteSet(last) /\ Cardinality(last) = Cardinality(Runes(p)) /\ Cardinality(Runes(p)) \in Nat
  <2>1. IsFiniteSet(Runes(p)) /\ Cardinality(Runes(p)) \in Nat
    BY RunesFinite, FS_CardinalityType
  <2>2. IsFiniteSet({l + 1}) /\ Cardinality({l + 1}) = 1
    BY FS_Singleton
  <2>3. IsFiniteSet(last) /\ Cardinality(last) = Cardinality({l + 1}) * Cardinality(Runes(p))
    BY <1>4, <2>1, <2>2, FS_Product
  <2> QED  BY <2>1, <2>2, <2>3
<1>6. RunesIn(qs) = RunesIn(ps) \cup last
  <2>1. ASSUME NEW e PROVE e \in RunesIn(qs) <=> e \in RunesIn(ps) \/ e \in last
    <3>1. e \in RunesIn(qs) <=> \E x \in 1 .. l + 1 : e \in {x} \X Runes(qs[x])
      BY <1>3 DEF RunesIn
    <3>2. e \in RunesIn(ps) <=> \E x \in 1 .. l : e \in {x} \X Runes(ps[x])
      BY <1>3 DEF RunesIn
    <3>3. \A x \in 1 .. l + 1 : x # l + 1 => x \in 1 .. l
      OBVIOUS
    <3>4. \A x \in 1 .. l : x \in 1 .. l + 1
      OBVIOUS
    <3>5. l + 1 \in 1 .. l + 1
      OBVIOUS
    <3>6. (\E x \in 1 .. l + 1 : e \in {x} \X Runes(qs[x]))
            <=> (\E x \in 1 .. l : e \in {x} \X Runes(qs[x])) \/ e \in {l + 1} \X Runes(qs[l + 1])
      BY <3>3, <3>4, <3>5, Zenon
    <3>7. (\E x \in 1 .. l : e \in {x} \X Runes(qs[x])) <=> (\E x \in 1 .. l : e \in {x} \X Runes(ps[x]))
      BY <1>3
    <3>8. e \in {l + 1} \X Runes(qs[l + 1]) <=> e \in last
      BY <1>3, <1>4
    <3> QED  BY <3>1, <3>2, <3>6, <3>7, <3>8
  <2> QED  BY <2>1
<1>7. RunesIn(ps) \cap last = {}
  <2> SUFFICES ASSUME NEW e, e \in RunesIn(ps), e \in last PROVE FALSE
    OBVIOUS
  <2>1. PICK x \in DOMAIN ps : e \in {x} \X Runes(ps[x])
    BY DEF RunesIn
  <2>2. e[1] = x
    BY <2>1
  <2>3. e[1] = l + 1
    BY <1>4
  <2> QED  BY <1>3, <2>1, <2>2, <2>3
<1>8. Cardinality(RunesIn(ps)) \in Nat
  BY FS_CardinalityType
<1>9. /\ IsFiniteSet(RunesIn(ps) \cup last)
      /\ Cardinality(RunesIn(ps) \cup last) = Cardinality(RunesIn(ps)) + Cardinality(last) - Cardinality(RunesIn(ps) \cap last)
  BY <1>5, FS_Union
<1>10. Cardinality(RunesIn(ps) \cap last) = 0
  BY <1>7, FS_EmptySet
<1>11. IsFiniteSet(RunesIn(qs)) /\ Cardinality(RunesIn(qs)) = Cardinality(RunesIn(ps) \cup last)
  BY <1>6, <1>9, Zenon
<1>12. Cardinality(RunesIn(qs)) = Cardinality(RunesIn(ps)) + Cardinality(Runes(p))
  <2>1. PICK x : x = Cardinality(RunesIn(ps) \cap last)
    OBVIOUS
  <2>2. x = 0
    BY <1>10, <2>1
  <2>3. Cardinality(RunesIn(qs)) = Cardinality(RunesIn(ps)) + Cardinality(last) - x
    BY <1>9, <1>11, <2>1, Zenon
  <2> QED  BY <1>5, <1>8, <2>2, <2>3
<1>13. RuneCount(qs) = Cardinality(RunesIn(qs)) /\ RuneCount(ps) = Cardinality(RunesIn(ps))
  BY CountsRunes
<1> QED  BY <1>1, <1>11, <1>12, <1>13

LEMMA RuneCountEmpty == RunesIn(<<>>) = {} /\ IsFiniteSet(RunesIn(<<>>)) /\ RuneCount(<<>>) = 0
<1>1. DOMAIN <<>> = {}
  BY EmptySeq
<1>2. RunesIn(<<>>) = {}
  BY <1>1 DEF RunesIn
<1> QED  BY <1>2, FS_EmptySet DEF RuneCount, RunesIn

\* The runes of two lists of pieces are the ones of the first and the ones of
\* the second.
LEMMA RunesConcatUpTo ==
    ASSUME SSMLTypeOK, NEW ps \in Seq(Piece), NEW qs \in Seq(Piece), IsFiniteSet(RunesIn(ps))
    PROVE  \A n \in 0 .. Len(qs) :
               /\ IsFiniteSet(RunesIn(UpTo(qs, n)))
               /\ RuneCount(ps \o UpTo(qs, n)) = RuneCount(ps) + RuneCount(UpTo(qs, n))
               /\ IsFiniteSet(RunesIn(ps \o UpTo(qs, n)))
<1> DEFINE Good(n) == /\ IsFiniteSet(RunesIn(UpTo(qs, n)))
                      /\ RuneCount(ps \o UpTo(qs, n)) = RuneCount(ps) + RuneCount(UpTo(qs, n))
                      /\ IsFiniteSet(RunesIn(ps \o UpTo(qs, n)))
<1> DEFINE B == {n \in 0 .. Len(qs) : ~Good(n)}
<1>1. B = {}
  <2> SUFFICES ASSUME B # {} PROVE FALSE
    OBVIOUS
  <2>1. PICK n \in B : \A m \in B : n <= m
    <3>1. B \subseteq Nat
      OBVIOUS
    <3> HIDE DEF B
    <3> QED  BY <3>1, LeastNumber
  <2>2. n \in 0 .. Len(qs) /\ ~Good(n)
    OBVIOUS
  <2> HIDE DEF B
  <2>3. CASE n = 0
    <3>1. UpTo(qs, n) = <<>>
      BY <2>3, SubSeqEmpty DEF UpTo
    <3>2. ps \o <<>> = ps
      BY ConcatEmptySeq
    <3>3. RuneCount(ps) \in Nat
      BY FS_CardinalityType, CountsRunes
    <3>4. Good(n)
      BY <3>1, <3>2, <3>3, RuneCountEmpty
    <3> QED  BY <2>2, <3>4
  <2>4. CASE n # 0
    <3>1. n \in 1 .. Len(qs) /\ n - 1 \in 0 .. Len(qs) /\ ~(n <= n - 1)
      BY <2>2, <2>4
    <3>2. Good(n - 1)
      BY <2>1, <3>1 DEF B
    <3>3. PICK c \in Seq(Piece) : c = UpTo(qs, n - 1)
      BY <3>1, UpToNext
    <3>4. PICK x \in Piece : x = qs[n]
      BY <3>1, UpToNext
    <3>5. UpTo(qs, n) = Append(c, x)
      BY <3>1, <3>3, <3>4, UpToNext
    <3>6. c \in Seq(Piece) /\ x \in Piece
      OBVIOUS
    <3>7. ps \o c \in Seq(Piece) /\ ps \o Append(c, x) = Append(ps \o c, x)
      BY <3>6, ConcatProperties, ConcatAppend
    <3>8. /\ IsFiniteSet(RunesIn(c)) /\ IsFiniteSet(RunesIn(ps \o c))
          /\ RuneCount(ps \o c) = RuneCount(ps) + RuneCount(c)
      BY <3>2, <3>3
    <3>9. /\ IsFiniteSet(RunesIn(Append(c, x)))
          /\ RuneCount(Append(c, x)) = RuneCount(c) + Cardinality(Runes(x))
      BY <3>6, <3>8, RunesAppend
    <3>10. /\ IsFiniteSet(RunesIn(Append(ps \o c, x)))
           /\ RuneCount(Append(ps \o c, x)) = RuneCount(ps \o c) + Cardinality(Runes(x))
      BY <3>6, <3>7, <3>8, RunesAppend
    <3>11. RuneCount(ps) \in Nat /\ RuneCount(c) \in Nat /\ Cardinality(Runes(x)) \in Nat
      BY <3>6, <3>8, RunesFinite, FS_CardinalityType, CountsRunes
    <3>12. RuneCount(Append(ps \o c, x)) = RuneCount(ps) + RuneCount(Append(c, x))
      BY <3>8, <3>9, <3>10, <3>11
    <3>13. Good(n)
      BY <3>5, <3>7, <3>9, <3>10, <3>12
    <3> QED  BY <2>2, <3>13
  <2> QED  BY <2>3, <2>4
<1> QED  BY <1>1

LEMMA RunesType ==
    ASSUME SSMLTypeOK, NEW ps \in Seq(Piece)
    PROVE  IsFiniteSet(RunesIn(ps)) /\ RuneCount(ps) \in Nat
<1>1. <<>> \in Seq(Piece) /\ Len(ps) \in 0 .. Len(ps)
  BY EmptySeq, LenProperties
<1>2. UpTo(ps, Len(ps)) = ps
  BY SubSeqFull DEF UpTo
<1>3. IsFiniteSet(RunesIn(ps))
  <2>1. IsFiniteSet(RunesIn(UpTo(ps, Len(ps))))
    BY <1>1, RuneCountEmpty, RunesConcatUpTo
  <2> QED  BY <1>2, <2>1
<1> QED  BY <1>3, FS_CardinalityType, CountsRunes

LEMMA RunesConcat ==
    ASSUME SSMLTypeOK, NEW ps \in Seq(Piece), NEW qs \in Seq(Piece)
    PROVE  RuneCount(ps \o qs) = RuneCount(ps) + RuneCount(qs)
<1>1. Len(qs) \in 0 .. Len(qs)
  BY LenProperties
<1>2. UpTo(qs, Len(qs)) = qs
  BY SubSeqFull DEF UpTo
<1> QED  BY <1>1, <1>2, RunesType, RunesConcatUpTo

LEMMA RuneCountSame ==
    ASSUME doc' = doc, NEW ps
    PROVE  RuneCount(ps)' = RuneCount(ps)
BY DEF RuneCount, Runes, Offset

\* Without wide characters a piece has the runes its bytes say.
LEMMA NarrowRunes ==
    ASSUME Wide = {}, SSMLTypeOK, NEW p \in Piece, p.part # 0,
           p.to <= Len(doc[p.of][p.part].text), p.from <= p.to
    PROVE  Cardinality(Runes(p)) = p.to - p.from
<1>1. p.of \in DOMAIN doc /\ p.part \in 0 .. Len(doc[p.of]) /\ doc \in Seq(Seq(TextPart))
  BY DocumentsAssumption DEF SSMLTypeOK, Piece
<1>2. doc[p.of] \in Seq(TextPart)
  BY <1>1, ElementOfSeq
<1>3. p.part \in 1 .. Len(doc[p.of])
  BY <1>1, <1>2, LenProperties
<1>4. doc[p.of][p.part] \in TextPart
  BY <1>2, <1>3, ElementOfSeq
<1>5. PICK str \in Seq(Chunks!Chars) : str = doc[p.of][p.part].text
  BY <1>4 DEF TextPart
<1>6. DOMAIN str = 1 .. Len(str) /\ Len(str) \in Nat /\ p.from \in Nat /\ p.to \in Nat
  BY LenProperties DEF Piece
<1>7. Runes(p) = {n \in DOMAIN str : Offset(str, n - 1) < p.to /\ Offset(str, n) > p.from}
  BY <1>5 DEF Runes
<1>8. \A n \in DOMAIN str : Offset(str, n - 1) = n - 1 /\ Offset(str, n) = n
  BY <1>6, NarrowOffset
<1>9. Runes(p) = p.from + 1 .. p.to
  <2>1. p.to <= Len(str)
    BY <1>5
  <2>2. \A n \in DOMAIN str : (Offset(str, n - 1) < p.to /\ Offset(str, n) > p.from) <=> n \in p.from + 1 .. p.to
    BY <1>6, <1>8
  <2>3. p.from + 1 .. p.to \subseteq DOMAIN str
    BY <1>6, <2>1
  <2> QED  BY <1>7, <2>2, <2>3
<1>10. p.from + 1 \in Int /\ p.to \in Int
  BY <1>6
<1>11. Cardinality(p.from + 1 .. p.to) = IF p.from + 1 > p.to THEN 0 ELSE p.to - (p.from + 1) + 1
  BY <1>10, FS_Interval
<1>12. Cardinality(p.from + 1 .. p.to) = p.to - p.from
  BY <1>6, <1>11
<1> QED  BY <1>9, <1>12

\* A chunk has no more runes than the finder has gone through, and a request
\* no more than the chunks in it.
FitsInv ==
    /\ cLen = RuneCount(Seqs!FlattenSeq(cParts))
    /\ cLen <= MaxChars
    /\ \A n \in DOMAIN pieces : RuneCount(pieces[n]) <= MaxChars
    /\ RuneCount(piece) <= from
    /\ pc = "cut" => RuneCount(piece) <= best
    /\ RequestFits

\* With the same requests in the same document they fit as before.
LEMMA RequestsSame ==
    ASSUME doc' = doc, res' = res, RequestFits
    PROVE  RequestFits'
BY RuneCountSame DEF RequestFits, MaxChars

LEMMA FitsTake ==
    ASSUME Wide = {}, FinderInv, FitsInv, TakeToEnd \/ TakeSome
    PROVE  FitsInv'
<1>1. /\ doc' = doc /\ k' = k /\ pieces' = pieces /\ cParts' = cParts /\ cLen' = cLen /\ res' = res
      /\ pc = "cut" /\ pc' = "cut" /\ pPart \in 1 .. Len(Parts) /\ k \in DOMAIN doc
  BY Taken
<1>2. PICK p \in Piece : /\ piece' = Append(piece, p)
                         /\ p.of = k /\ p.part = pPart /\ p.from = pText
                         /\ TakeToEnd => p.to = Size(Parts[pPart].text)
                         /\ ~TakeToEnd => p.to = TextTo
  BY Taken
<1>3. best' = best /\ from < best
  BY DEF TakeToEnd, TakeSome, cutting
<1>4. piece \in Seq(Piece) /\ SSMLTypeOK
  BY DEF FinderInv, SSMLTypeOK
<1>5. PICK str : str = Parts[pPart].text
  OBVIOUS
<1>6. Len(str) \in Nat /\ pText < Len(str) /\ pText \in Nat /\ from \in Nat /\ best \in Nat
  BY <1>1, <1>3, <1>5, InPart, Finding, ChunkFound DEF FinderInv
<1>7. p.part # 0 /\ doc[p.of][p.part].text = str
  BY <1>1, <1>2, <1>5 DEF Parts
<1>8. RuneCount(piece') = RuneCount(piece) + Cardinality(Runes(p))
  <2>1. IsFiniteSet(RunesIn(piece))
    BY <1>4, RunesType
  <2> QED  BY <1>2, <1>4, <2>1, RunesAppend
<1>9. RuneCount(piece) \in Nat /\ RuneCount(piece) <= from
  BY <1>4, RunesType DEF FitsInv
<1>10. RuneCount(piece') <= from' /\ RuneCount(piece') <= best
  <2>1. CASE TakeToEnd
    <3>1. p.to = Len(str)
      BY <1>2, <1>5, <1>6, <2>1, NarrowOffset DEF Size
    <3>2. p.to <= Len(str) /\ p.from <= p.to
      BY <1>2, <1>6, <3>1
    <3>3. Cardinality(Runes(p)) = Len(str) - pText
      BY <1>2, <1>4, <1>7, <3>1, <3>2, NarrowRunes
    <3>4. from' = from + (Len(str) - pText) + 1 /\ Len(str) - pText <= best - from
      BY <1>5, <2>1 DEF TakeToEnd, EndsInChunk, RestOfPart, EndSpace
    <3> QED  BY <1>6, <1>8, <1>9, <3>3, <3>4
  <2>2. CASE ~TakeToEnd
    <3>1. from' = best /\ ~(Len(str) - pText <= best - from)
      BY <1>5, <2>2 DEF TakeSome, EndsInChunk, RestOfPart
    <3>2. p.to = (best - from) + pText
      BY <1>2, <2>2 DEF TextTo
    <3>3. p.to <= Len(str) /\ p.from <= p.to
      BY <1>2, <1>3, <1>6, <3>1, <3>2
    <3>4. Cardinality(Runes(p)) = ((best - from) + pText) - pText
      BY <1>2, <1>4, <1>7, <3>2, <3>3, NarrowRunes
    <3> QED  BY <1>6, <1>8, <1>9, <3>1, <3>4
  <2> QED  BY <2>1, <2>2
<1>11. PICK c : c = piece'
  OBVIOUS
<1>12. RuneCount(c)' = RuneCount(c)
  BY <1>1, RuneCountSame
<1>13. RuneCount(piece)' <= from' /\ RuneCount(piece)' <= best'
  BY <1>3, <1>10, <1>11, <1>12
<1>14. cLen' = RuneCount(Seqs!FlattenSeq(cParts))' /\ cLen' <= MaxChars
  BY <1>1, RuneCountSame DEF FitsInv
<1>15. \A n \in DOMAIN pieces' : RuneCount(pieces[n])' <= MaxChars
  BY <1>1, RuneCountSame DEF FitsInv
<1>16. RequestFits'
  BY <1>1, RequestsSame DEF FitsInv
<1> QED  BY <1>13, <1>14, <1>15, <1>16 DEF FitsInv, MaxChars

LEMMA FitsCut ==
    ASSUME FinderInv, FitsInv, CutChunk
    PROVE  FitsInv'
<1>1. /\ doc' = doc /\ cParts' = cParts /\ cLen' = cLen /\ res' = res /\ from' = 0
      /\ pieces' = Append(pieces, piece) /\ piece' = <<>> /\ pc = "cut" /\ pc' = "chunk"
  BY DEF CutChunk, Chunks!Cut, gathering, FromOfNext
<1>2. piece \in Seq(Piece) /\ pieces \in Seq(Seq(Piece)) /\ SSMLTypeOK
  BY DEF FinderInv, SSMLTypeOK
<1>3. RuneCount(piece) <= MaxChars
  <2>1. best \in Nat /\ best <= Start + Interval - 1
    BY <1>1, Finding, ChunkFound DEF FinderInv
  <2>2. RuneCount(piece) \in Nat /\ RuneCount(piece) <= best
    BY <1>1, <1>2, RunesType DEF FitsInv
  <2> QED  BY <2>1, <2>2 DEF MaxChars
<1>4. ASSUME NEW n \in DOMAIN pieces' PROVE RuneCount(pieces[n])' <= MaxChars
  <2>1. PICK l \in Nat : l = Len(pieces)
    BY <1>2, LenProperties
  <2>2. /\ DOMAIN pieces = 1 .. l /\ DOMAIN pieces' = 1 .. l + 1
        /\ pieces'[l + 1] = piece /\ \A m \in 1 .. l : pieces'[m] = pieces[m]
    BY <1>1, <1>2, <2>1, AppendProperties
  <2>3. RuneCount(pieces'[n]) <= MaxChars
    <3>1. CASE n = l + 1
      BY <1>3, <2>2, <3>1
    <3>2. CASE n # l + 1
      BY <2>2, <3>2 DEF FitsInv
    <3> QED  BY <3>1, <3>2
  <2>4. PICK c : c = pieces'[n]
    OBVIOUS
  <2>5. RuneCount(c)' = RuneCount(c)
    BY <1>1, RuneCountSame
  <2> QED  BY <2>3, <2>4, <2>5
<1>5. RuneCount(piece)' = 0
  <2>1. PICK c : c = <<>>
    OBVIOUS
  <2>2. RuneCount(c)' = RuneCount(c)
    BY <1>1, RuneCountSame
  <2> QED  BY <1>1, <2>1, <2>2, RuneCountEmpty
<1>6. cLen' = RuneCount(Seqs!FlattenSeq(cParts))' /\ cLen' <= MaxChars
  BY <1>1, RuneCountSame DEF FitsInv
<1>7. RequestFits'
  BY <1>1, RequestsSame DEF FitsInv
<1> QED  BY <1>1, <1>4, <1>5, <1>6, <1>7 DEF FitsInv, MaxChars

\* A request that is complete fits when what was gathered does.
LEMMA RequestsMore ==
    ASSUME FinderInv, FitsInv, doc' = doc, res' = res \/ res' = Append(res, cParts)
    PROVE  RequestFits'
<1>1. CASE res' = res
  BY <1>1, RequestsSame DEF FitsInv
<1>2. CASE res' = Append(res, cParts)
  <2>1. res \in Seq(Seq(Seq(Piece))) /\ cParts \in Seq(Seq(Piece))
    BY DEF FinderInv, SSMLTypeOK
  <2>2. PICK l \in Nat : l = Len(res)
    BY <2>1, LenProperties
  <2>3. /\ DOMAIN res = 1 .. l /\ DOMAIN res' = 1 .. l + 1
        /\ res'[l + 1] = cParts /\ \A m \in 1 .. l : res'[m] = res[m]
    BY <1>2, <2>1, <2>2, AppendProperties
  <2>4. ASSUME NEW n \in DOMAIN res' PROVE RuneCount(Seqs!FlattenSeq(res[n]))' <= MaxChars
    <3>1. RuneCount(Seqs!FlattenSeq(res'[n])) <= MaxChars
      <4>1. CASE n = l + 1
        BY <2>3, <4>1 DEF FitsInv
      <4>2. CASE n # l + 1
        BY <2>3, <4>2 DEF FitsInv, RequestFits
      <4> QED  BY <4>1, <4>2
    <3>2. PICK c : c = Seqs!FlattenSeq(res'[n])
      OBVIOUS
    <3>3. RuneCount(c)' = RuneCount(c)
      BY RuneCountSame
    <3> QED  BY <3>1, <3>2, <3>3
  <2> QED  BY <2>4 DEF RequestFits, MaxChars
<1> QED  BY <1>1, <1>2

\* A chunk goes into the request that is gathered only when it fits.
LEMMA FitsMerge ==
    ASSUME FinderInv, FitsInv, Merge
    PROVE  FitsInv'
<1>1. /\ doc' = doc /\ piece' = piece /\ from' = from /\ pieces' = pieces
      /\ pc = "done" /\ pc' = "done" /\ merged < Len(pieces)
  BY DEF Merge, finding, cutting
<1>2. /\ pieces \in Seq(Seq(Piece)) /\ merged \in 0 .. Len(pieces) /\ Len(pieces) \in Nat
      /\ cParts \in Seq(Seq(Piece)) /\ SSMLTypeOK
  BY DEF FinderInv, SSMLTypeOK
<1>3. PICK ps : ps = pieces[merged + 1]
  OBVIOUS
<1>4. /\ ps \in Seq(Piece)
      /\ \/ /\ cLen + RuneCount(ps) <= MaxChars
            /\ cPart /\ cParts # <<>>
            /\ res' = res
            /\ cParts' = [cParts EXCEPT ![Len(cParts)] = @ \o ps]
            /\ cLen' = cLen + RuneCount(ps)
         \/ /\ cLen + RuneCount(ps) <= MaxChars
            /\ res' = res
            /\ cParts' = Append(cParts, ps)
            /\ cLen' = cLen + RuneCount(ps)
         \/ /\ res' = res \/ res' = Append(res, cParts)
            /\ res' = res => cParts = <<>>
            /\ cParts' = Append(<<>>, ps)
            /\ cLen' = 0 + RuneCount(ps)
  BY <1>3, MergeCases
<1>5. RuneCount(ps) \in Nat /\ RuneCount(ps) <= MaxChars
  <2>1. merged + 1 \in DOMAIN pieces
    BY <1>1, <1>2
  <2> QED  BY <1>2, <1>3, <1>4, <2>1, RunesType DEF FitsInv
<1>6. PICK cs \in Seq(Piece) : cs = Seqs!FlattenSeq(cParts)
  BY Contents
<1>7. cs \in Seq(Piece) /\ ps \in Seq(Piece)
  BY <1>4
<1>8. RuneCount(cs \o ps) = RuneCount(cs) + RuneCount(ps)
  BY <1>2, <1>7, RunesConcat
<1>9. cLen = RuneCount(cs)
  BY <1>6 DEF FitsInv
<1>10. cLen' = RuneCount(Seqs!FlattenSeq(cParts')) /\ cLen' <= MaxChars
  <2>1. CASE /\ cLen + RuneCount(ps) <= MaxChars /\ cLen' = cLen + RuneCount(ps)
             /\ Seqs!FlattenSeq(cParts') = cs \o ps
    BY <1>8, <1>9, <2>1
  <2>2. CASE /\ cLen + RuneCount(ps) <= MaxChars /\ cParts # <<>>
             /\ cParts' = [cParts EXCEPT ![Len(cParts)] = @ \o ps]
             /\ cLen' = cLen + RuneCount(ps)
    <3>1. Seqs!FlattenSeq(cParts') = cs \o ps
      BY <1>2, <1>4, <1>6, <2>2, FlattenExtend
    <3> QED  BY <2>1, <2>2, <3>1
  <2>3. CASE /\ cLen + RuneCount(ps) <= MaxChars /\ cParts' = Append(cParts, ps)
             /\ cLen' = cLen + RuneCount(ps)
    <3>1. Seqs!FlattenSeq(cParts') = cs \o ps
      BY <1>2, <1>4, <1>6, <2>3, FlattenAppend
    <3> QED  BY <2>1, <2>3, <3>1
  <2>4. CASE cParts' = Append(<<>>, ps) /\ cLen' = 0 + RuneCount(ps)
    <3>1. Seqs!FlattenSeq(cParts') = ps
      <4>1. <<>> \in Seq(Seq(Piece)) /\ <<>> \o ps = ps
        BY <1>4, EmptySeq, ConcatEmptySeq
      <4>2. Seqs!FlattenSeq(Append(<<>>, ps)) = Seqs!FlattenSeq(<<>>) \o ps
        BY <1>4, <4>1, FlattenAppend
      <4> QED  BY <2>4, <4>1, <4>2, FlattenEmpty
    <3> QED  BY <1>5, <2>4, <3>1
  <2> QED  BY <1>4, <2>2, <2>3, <2>4
<1>11. cLen' = RuneCount(Seqs!FlattenSeq(cParts))'
  <2>1. PICK c : c = Seqs!FlattenSeq(cParts')
    OBVIOUS
  <2>2. RuneCount(c)' = RuneCount(c)
    BY <1>1, RuneCountSame
  <2> QED  BY <1>10, <2>1, <2>2
<1>12. /\ \A n \in DOMAIN pieces' : RuneCount(pieces[n])' <= MaxChars
       /\ RuneCount(piece)' <= from'
  BY <1>1, RuneCountSame DEF FitsInv
<1>13. RequestFits'
  <2>1. res' = res \/ res' = Append(res, cParts)
    BY <1>4
  <2> QED  BY <1>1, <2>1, RequestsMore
<1> QED  BY <1>1, <1>10, <1>11, <1>12, <1>13 DEF FitsInv, MaxChars

LEMMA FitsOthers ==
    ASSUME FinderInv, FinderInv', FitsInv,
           StartText \/ TextDone \/ AddPause \/ LastRequest \/ FindChunk \/ UNCHANGED vars
    PROVE  FitsInv'
<1>1. CASE FindChunk \/ UNCHANGED vars
  <2>1. UNCHANGED <<doc, piece, pieces, cParts, cLen, res, from>>
    BY <1>1, OutputSame DEF FindChunk, finding, vars
  <2>2. /\ cLen' = RuneCount(Seqs!FlattenSeq(cParts))' /\ cLen' <= MaxChars
        /\ \A n \in DOMAIN pieces' : RuneCount(pieces[n])' <= MaxChars
        /\ RuneCount(piece)' <= from'
    BY <2>1, RuneCountSame DEF FitsInv
  <2>3. RequestFits'
    BY <2>1, RequestsSame DEF FitsInv
  <2>4. ASSUME pc' = "cut" PROVE RuneCount(piece)' <= best'
    <3>1. CASE pc = "cut"
      <4>1. best' = best
        BY <1>1, <3>1 DEF FindChunk, Chunks!Scan, Chunks!Finish, Chunks!TakeRest, Chunks!OpenWindow,
           Chunks!Look, Chunks!CloseWindow, vars, cutting
      <4> QED  BY <2>1, <3>1, <4>1, RuneCountSame DEF FitsInv
    <3>2. CASE pc # "cut"
      <4>1. piece = <<>>
        BY <3>2 DEF FinderInv, FreshInv
      <4>2. RuneCount(piece)' = 0
        BY <2>1, <4>1, RuneCountSame, RuneCountEmpty
      <4>3. best' \in Nat \ {0}
        <5>1. Cutter!IInv'
          BY <2>4 DEF FinderInv, Splitting
        <5>2. best' \in 1 .. Start + Interval - 1
          BY <2>4, <5>1 DEF Cutter!IInv, Cutter!CutInv
        <5> QED  BY <5>2
      <4> QED  BY <4>2, <4>3
    <3> QED  BY <3>1, <3>2
  <2> QED  BY <2>2, <2>3, <2>4 DEF FitsInv, MaxChars
<1>2. CASE StartText \/ TextDone \/ AddPause \/ LastRequest
  <2>1. /\ doc' = doc /\ piece' = piece /\ from' = from /\ pc' # "cut" /\ cLen' = cLen
        /\ pieces' = pieces \/ pieces' = <<>>
        /\ \/ cParts' = cParts
           \/ k <= Len(doc) /\ cParts' = Append(cParts, <<PauseAt(k)>>)
        /\ res' = res \/ res' = Append(res, cParts)
    <3>1. CASE StartText
      BY <3>1 DEF StartText
    <3>2. CASE TextDone
      BY <3>2 DEF TextDone, finding, gathering
    <3>3. CASE AddPause
      BY <3>3 DEF AddPause, finding, cutting
    <3>4. CASE LastRequest
      BY <3>4 DEF LastRequest, finding
    <3> QED  BY <1>2, <3>1, <3>2, <3>3, <3>4
  <2>2. RequestFits'
    BY <2>1, RequestsMore
  <2>3. RuneCount(piece)' <= from'
    BY <2>1, RuneCountSame DEF FitsInv
  <2>4. \A n \in DOMAIN pieces' : RuneCount(pieces[n])' <= MaxChars
    <3>1. CASE pieces' = pieces
      BY <2>1, <3>1, RuneCountSame DEF FitsInv
    <3>2. CASE pieces' = <<>>
      BY <3>2, EmptySeq
    <3> QED  BY <2>1, <3>1, <3>2
  <2>5. cLen' = RuneCount(Seqs!FlattenSeq(cParts))'
    <3>1. CASE cParts' = cParts
      BY <2>1, <3>1, RuneCountSame DEF FitsInv
    <3>2. CASE cParts' = Append(cParts, <<PauseAt(k)>>) /\ k <= Len(doc)
      <4>1. /\ cParts \in Seq(Seq(Piece)) /\ k \in 1 .. Len(doc) /\ doc \in Seq(Seq(TextPart)) /\ SSMLTypeOK
        BY <3>2, DocumentsAssumption DEF FinderInv, SSMLTypeOK
      <4>2. PICK p : p = PauseAt(k)
        OBVIOUS
      <4>3. p \in Piece /\ p.part = 0
        <5>1. doc[k] \in Seq(TextPart)
          BY <4>1, ElementOfSeq
        <5>2. Len(doc[k]) \in Nat /\ k \in DOMAIN doc
          BY <4>1, <5>1, LenProperties
        <5> QED  BY <4>1, <4>2, <5>2 DEF PauseAt, Piece
      <4>4. PICK cs \in Seq(Piece) : cs = Seqs!FlattenSeq(cParts)
        BY Contents
      <4>5. Seqs!FlattenSeq(cParts') = cs \o <<p>>
        <5>1. <<p>> \in Seq(Piece)
          BY <4>3
        <5> QED  BY <3>2, <4>1, <4>2, <4>4, <5>1, FlattenAppend
      <4>6. cs \o <<p>> = Append(cs, p)
        BY <4>3, AppendIsConcat
      <4>7. RuneCount(Append(cs, p)) = RuneCount(cs) + Cardinality(Runes(p))
        BY <4>1, <4>3, RunesType, RunesAppend
      <4>8. Cardinality(Runes(p)) = 0
        BY <4>3, FS_EmptySet DEF Runes
      <4>9. RuneCount(cs) \in Nat /\ RuneCount(cs) = cLen
        BY <4>1, <4>4, RunesType DEF FitsInv
      <4>10. PICK c : c = Seqs!FlattenSeq(cParts')
        OBVIOUS
      <4>11. RuneCount(c)' = RuneCount(c)
        BY <2>1, RuneCountSame
      <4>12. RuneCount(c) = cLen
        <5>1. c = Append(cs, p)
          BY <4>5, <4>6, <4>10
        <5>2. RuneCount(Append(cs, p)) = cLen
          BY <4>7, <4>8, <4>9
        <5> QED  BY <5>1, <5>2, Zenon
      <4>13. cLen' = RuneCount(c)'
        BY <2>1, <4>11, <4>12
      <4> QED  BY <4>10, <4>13
    <3> QED  BY <2>1, <3>1, <3>2
  <2>6. cLen' <= MaxChars
    BY <2>1 DEF FitsInv
  <2> QED  BY <2>1, <2>2, <2>3, <2>4, <2>5, <2>6 DEF FitsInv, MaxChars
<1> QED  BY <1>1, <1>2

\* As long as a character is a byte, no request is longer than wantedChars*5/4,
\* whatever the document: the chunks are no longer than that, and a chunk is
\* put into a request only when it fits.
THEOREM RequestFitsHolds == ASSUME Wide = {} PROVE Spec => []RequestFits
<1>1. Init => FitsInv
  <2> SUFFICES ASSUME Init PROVE FitsInv
    OBVIOUS
  <2>1. /\ pc = "part" /\ res = <<>> /\ cParts = <<>> /\ pieces = <<>> /\ piece = <<>>
        /\ from = 0 /\ cLen = 0
    BY DEF Init
  <2>2. RuneCount(Seqs!FlattenSeq(cParts)) = 0 /\ RuneCount(piece) = 0
    BY <2>1, FlattenEmpty, RuneCountEmpty
  <2>3. DOMAIN pieces = {} /\ DOMAIN res = {}
    BY <2>1, EmptySeq
  <2>4. MaxChars \in Nat
    BY DEF MaxChars
  <2> QED  BY <2>1, <2>2, <2>3, <2>4 DEF FitsInv, RequestFits
<1>2. FinderInv /\ FinderInv' /\ FitsInv /\ [Next]_vars => FitsInv'
  BY FitsTake, FitsCut, FitsMerge, FitsOthers DEF Next, Ended
<1>3. FitsInv => RequestFits
  BY DEF FitsInv
<1> QED  BY <1>1, <1>2, <1>3, FinderInvariance, PTL DEF Spec

=============================================================================
