----------------------------- MODULE TextProofs -----------------------------
(***************************************************************************)
(* What the operators on texts and answers do, proved for every text: the  *)
(* messages of a body fit and say the whole of it, and the object that a   *)
(* language model was asked for is what is extracted from its answer.      *)
(*                                                                         *)
(* Pieces is a recursive function and the others are folds; both are shown *)
(* to exist before anything is said of them.  Induction over a sequence is *)
(* on the set of the sequences something holds of.                         *)
(***************************************************************************)
EXTENDS Chunks, SequenceTheorems, WellFoundedInduction, FiniteSetTheorems, TLAPS

(***************************************************************************)
(* Induction, over sets of numbers and of sequences.                       *)
(***************************************************************************)

\* A set of numbers that is not empty has a least one.
LEMMA LeastOf ==
  ASSUME NEW T \in SUBSET Nat, T # {}
  PROVE  \E n \in T : \A m \in T : n <= m
<1> DEFINE R == OpToRel(<, Nat)
<1>1. IsWellFoundedOn(R, Nat)
  BY NatLessThanWellFounded
<1>2. PICK n \in T : \A m \in T : <<m, n>> \notin R
  <2> HIDE DEF R
  <2>1. QED
    BY <1>1, WFMin
<1>3. \A m \in T : ~(m < n)
  BY <1>2 DEF OpToRel
<1>4. QED
  BY <1>3

\* What holds of 0 and of the next of each holds of every number.
LEMMA Induction ==
  ASSUME NEW S, 0 \in S, \A n \in Nat : n \in S => n + 1 \in S
  PROVE  Nat \subseteq S
<1> DEFINE T == Nat \ S
<1> SUFFICES ASSUME T # {} PROVE FALSE
  OBVIOUS
<1>1. PICK n \in T : \A m \in T : n <= m
  BY LeastOf
<1>2. n # 0 /\ n - 1 \in Nat
  OBVIOUS
<1>3. n - 1 \in S
  BY <1>1, <1>2
<1>4. n - 1 + 1 = n
  BY <1>2
<1>5. QED
  BY <1>2, <1>3, <1>4

\* What holds of the empty sequence, and of one with an element more whenever
\* it holds of the sequence, holds of all.
LEMMA SeqInduction ==
  ASSUME NEW V, NEW P, <<>> \in P, \A s \in Seq(V) : \A e \in V : s \in P => Append(s, e) \in P
  PROVE  Seq(V) \subseteq P
<1> DEFINE S == {n \in Nat : \A s \in Seq(V) : Len(s) = n => s \in P}
<1>1. 0 \in S
  BY EmptySeq
<1>2. ASSUME NEW n \in Nat, n \in S
      PROVE  n + 1 \in S
  <2> SUFFICES ASSUME NEW s \in Seq(V), Len(s) = n + 1
               PROVE  s \in P
    OBVIOUS
  <2>1. s # <<>>
    BY EmptySeq
  <2>2. PICK t \in Seq(V), e \in V : s = Append(t, e)
    BY <2>1, SequenceEmptyOrAppend
  <2>3. Len(t) = n
    BY <2>2, AppendProperties, LenProperties
  <2>4. QED
    BY <1>2, <2>2, <2>3
<1> HIDE DEF S
<1>3. Nat \subseteq S
  BY <1>1, <1>2, Induction
<1>4. QED
  BY <1>3, LenProperties DEF S
(***************************************************************************)
(* Sequences of sequences, one after the other.                            *)
(***************************************************************************)

\* The function that FlattenSeq is the last value of.
Flattening(ss, f) == f = [i \in 1 .. Len(ss) |-> IF i = 1 THEN ss[i] ELSE f[i - 1] \o ss[i]]

\* The sequences so far, put together, and one more.
LEMMA FlatteningGrows ==
  ASSUME NEW V, NEW ss \in Seq(Seq(V)), NEW e \in Seq(V),
         NEW f \in [1 .. Len(ss) -> Seq(V)], Flattening(ss, f)
  PROVE  \E g \in [1 .. Len(Append(ss, e)) -> Seq(V)] :
           /\ Flattening(Append(ss, e), g)
           /\ g[Len(ss) + 1] = IF ss = <<>> THEN e ELSE f[Len(ss)] \o e
<1> DEFINE n == Len(ss)
           last == IF ss = <<>> THEN e ELSE f[n] \o e
           g == [i \in 1 .. n + 1 |-> IF i = n + 1 THEN last ELSE f[i]]
           more == Append(ss, e)
<1>1. /\ n \in Nat /\ Len(more) = n + 1 /\ more[n + 1] = e
      /\ \A i \in 1 .. n : more[i] = ss[i] /\ ss[i] \in Seq(V)
  BY AppendProperties, LenProperties, ElementOfSeq
<1>2. last \in Seq(V)
  <2>1. CASE ss = <<>>
    BY <2>1
  <2>2. CASE ss # <<>>
    <3>1. n \in 1 .. n
      BY <2>2, EmptySeq
    <3>2. f[n] \in Seq(V)
      BY <3>1
    <3>3. QED
      BY <2>2, <3>2, ConcatProperties
  <2>3. QED
    BY <2>1, <2>2
<1>3. ASSUME NEW i \in 1 .. n + 1
      PROVE  g[i] = (IF i = 1 THEN more[i] ELSE g[i - 1] \o more[i]) /\ g[i] \in Seq(V)
  <2> HIDE DEF more
  <2>1. CASE i \in 1 .. n
    <3> HIDE DEF last
    <3>1. g[i] = f[i] /\ more[i] = ss[i] /\ (i # 1 => g[i - 1] = f[i - 1])
      <4>1. i \in Nat \ {0} /\ i <= n /\ i \in 1 .. n + 1
        BY <1>1, <2>1
      <4>2. more[i] = ss[i]
        BY <1>1, <2>1
      <4> HIDE DEF n
      <4>3. g[i] = f[i]
        BY <1>1, <4>1
      <4>4. ASSUME i # 1
            PROVE  g[i - 1] = f[i - 1]
        <5>1. i - 1 \in 1 .. n + 1 /\ i - 1 # n + 1
          BY <1>1, <4>1, <4>4
        <5>2. QED
          BY <5>1
      <4>5. QED
        BY <4>2, <4>3, <4>4
    <3>2. f[i] = IF i = 1 THEN ss[i] ELSE f[i - 1] \o ss[i]
      BY <2>1 DEF Flattening
    <3> HIDE DEF g
    <3>3. QED
      BY <2>1, <3>1, <3>2
  <2>2. CASE i = n + 1
    <3>1. CASE ss = <<>>
      <4>1. n = 0
        BY <3>1
      <4>2. QED
        BY <1>1, <1>2, <2>2, <3>1, <4>1
    <3>2. CASE ss # <<>>
      <4>1. n # 0
        BY <3>2, EmptySeq
      <4>2. g[i] = last /\ g[i - 1] = f[n] /\ more[i] = e /\ i # 1
        BY <1>1, <2>2, <4>1
      <4>3. last = f[n] \o e
        BY <3>2
      <4> HIDE DEF g, last
      <4>4. QED
        BY <1>2, <4>2, <4>3
    <3>3. QED
      BY <3>1, <3>2
  <2>3. QED
    BY <1>1, <2>1, <2>2
<1>4. /\ Flattening(more, g) <=> g = [i \in 1 .. n + 1 |-> IF i = 1 THEN more[i] ELSE g[i - 1] \o more[i]]
      /\ DOMAIN g = 1 .. n + 1 /\ g = [i \in 1 .. n + 1 |-> g[i]]
  BY <1>1 DEF Flattening
<1>5. g[n + 1] = last
  BY <1>1
<1> HIDE DEF g, more, last
<1>6. g \in [1 .. n + 1 -> Seq(V)] /\ Flattening(more, g)
  BY <1>3, <1>4
<1>7. QED
  BY <1>1, <1>5, <1>6 DEF more, last

\* There is a function that puts them together one by one ...
LEMMA FlatteningExists ==
  ASSUME NEW V, NEW ss \in Seq(Seq(V))
  PROVE  \E f \in [1 .. Len(ss) -> Seq(V)] : Flattening(ss, f)
<1> DEFINE P == {s \in Seq(Seq(V)) : \E f \in [1 .. Len(s) -> Seq(V)] : Flattening(s, f)}
<1>1. <<>> \in P
  <2>1. 1 .. Len(<<>>) = {}
    OBVIOUS
  <2> DEFINE f == [i \in 1 .. Len(<<>>) |-> <<>>]
  <2>2. f \in [1 .. Len(<<>>) -> Seq(V)] /\ Flattening(<<>>, f)
    BY <2>1 DEF Flattening
  <2>3. <<>> \in Seq(Seq(V))
    BY EmptySeq
  <2> HIDE DEF f
  <2>4. QED
    BY <2>2, <2>3
<1>2. ASSUME NEW s \in Seq(Seq(V)), NEW e \in Seq(V), s \in P
      PROVE  Append(s, e) \in P
  <2>1. PICK f \in [1 .. Len(s) -> Seq(V)] : Flattening(s, f)
    BY <1>2
  <2>2. Append(s, e) \in Seq(Seq(V))
    BY AppendProperties
  <2>3. QED
    BY <2>1, <2>2, FlatteningGrows
<1> HIDE DEF P
<1>3. Seq(Seq(V)) \subseteq P
  BY <1>1, <1>2, SeqInduction
<1>4. QED
  BY <1>3 DEF P

\* ... and only one ...
LEMMA FlatteningUnique ==
  ASSUME NEW V, NEW ss \in Seq(Seq(V)), NEW f, Flattening(ss, f), NEW g, Flattening(ss, g)
  PROVE  f = g
<1> DEFINE S == {n \in Nat : n + 1 \in 1 .. Len(ss) => f[n + 1] = g[n + 1]}
<1>1. /\ f = [i \in 1 .. Len(ss) |-> IF i = 1 THEN ss[i] ELSE f[i - 1] \o ss[i]]
      /\ g = [i \in 1 .. Len(ss) |-> IF i = 1 THEN ss[i] ELSE g[i - 1] \o ss[i]]
  BY DEF Flattening
<1>2. \A i \in 1 .. Len(ss) : /\ f[i] = IF i = 1 THEN ss[i] ELSE f[i - 1] \o ss[i]
                              /\ g[i] = IF i = 1 THEN ss[i] ELSE g[i - 1] \o ss[i]
  BY <1>1
<1>3. 0 \in S
  BY <1>2
<1>4. ASSUME NEW n \in Nat, n \in S PROVE n + 1 \in S
  <2> SUFFICES ASSUME n + 1 + 1 \in 1 .. Len(ss) PROVE f[n + 1 + 1] = g[n + 1 + 1]
    OBVIOUS
  <2>1. n + 1 \in 1 .. Len(ss) /\ n + 1 + 1 # 1 /\ n + 1 + 1 - 1 = n + 1
    BY LenProperties
  <2>2. f[n + 1] = g[n + 1]
    BY <1>4, <2>1
  <2>3. QED
    BY <1>2, <2>1, <2>2
<1> HIDE DEF S
<1>5. Nat \subseteq S
  BY <1>3, <1>4, Induction
<1>6. ASSUME NEW i \in 1 .. Len(ss) PROVE f[i] = g[i]
  <2>1. i - 1 \in Nat /\ i - 1 + 1 = i
    BY LenProperties
  <2>2. QED
    BY <1>5, <2>1 DEF S
<1>7. QED
  BY <1>1, <1>6

\* ... and it is the one that FlattenSeq takes.
LEMMA FlattenIs ==
  ASSUME NEW V, NEW ss \in Seq(Seq(V)), NEW f, Flattening(ss, f)
  PROVE  FlattenSeq(ss) = IF ss = <<>> THEN <<>> ELSE f[Len(ss)]
<1> DEFINE g == CHOOSE g : g = [i \in 1 .. Len(ss) |-> IF i = 1 THEN ss[i] ELSE g[i - 1] \o ss[i]]
<1>1. Flattening(ss, g)
  <2> DEFINE P(h) == h = [i \in 1 .. Len(ss) |-> IF i = 1 THEN ss[i] ELSE h[i - 1] \o ss[i]]
  <2>1. P(f)
    BY DEF Flattening
  <2> HIDE DEF P
  <2>2. P(CHOOSE h : P(h))
    BY <2>1
  <2>3. QED
    BY <2>2 DEF P, Flattening
<1>2. FlattenSeq(ss) = IF Len(ss) = 0 THEN ss ELSE g[Len(ss)]
  BY DEF FlattenSeq
<1> HIDE DEF g
<1>3. f = g
  BY <1>1, FlatteningUnique
<1>4. Len(ss) = 0 <=> ss = <<>>
  BY EmptySeq
<1>5. QED
  BY <1>2, <1>3, <1>4

\* A sequence of sequences is put together from the left.
LEMMA FlattenAppend ==
  ASSUME NEW V, NEW ss \in Seq(Seq(V))
  PROVE  /\ FlattenSeq(<<>>) = <<>>
         /\ FlattenSeq(ss) \in Seq(V)
         /\ \A e \in Seq(V) : FlattenSeq(Append(ss, e)) = FlattenSeq(ss) \o e
<1>1. FlattenSeq(<<>>) = <<>>
  BY DEF FlattenSeq
<1>2. PICK f \in [1 .. Len(ss) -> Seq(V)] : Flattening(ss, f)
  BY FlatteningExists
<1>3. FlattenSeq(ss) = IF ss = <<>> THEN <<>> ELSE f[Len(ss)]
  BY <1>2, FlattenIs
<1>4. FlattenSeq(ss) \in Seq(V)
  <2>1. ss # <<>> => Len(ss) \in 1 .. Len(ss)
    BY EmptySeq
  <2>2. QED
    BY <1>3, <2>1
<1>5. ASSUME NEW e \in Seq(V)
      PROVE  FlattenSeq(Append(ss, e)) = FlattenSeq(ss) \o e
  <2>1. PICK g \in [1 .. Len(Append(ss, e)) -> Seq(V)] :
               /\ Flattening(Append(ss, e), g)
               /\ g[Len(ss) + 1] = IF ss = <<>> THEN e ELSE f[Len(ss)] \o e
    BY <1>2, FlatteningGrows
  <2>2. /\ Append(ss, e) \in Seq(Seq(V)) /\ Append(ss, e) # <<>>
        /\ Len(Append(ss, e)) = Len(ss) + 1 /\ Len(ss) \in Nat
    BY AppendProperties, LenProperties
  <2>3. FlattenSeq(Append(ss, e)) = IF ss = <<>> THEN e ELSE f[Len(ss)] \o e
    BY <2>1, <2>2, FlattenIs
  <2>4. <<>> \o e = e
    BY ConcatEmptySeq
  <2>5. QED
    BY <1>3, <2>3, <2>4
<1>6. QED
  BY <1>1, <1>4, <1>5

\* Parts put together are put together.
LEMMA FlattenConcat ==
  ASSUME NEW V, NEW ss \in Seq(Seq(V)), NEW tt \in Seq(Seq(V))
  PROVE  FlattenSeq(ss \o tt) = FlattenSeq(ss) \o FlattenSeq(tt)
<1> DEFINE P == {t \in Seq(Seq(V)) : FlattenSeq(ss \o t) = FlattenSeq(ss) \o FlattenSeq(t)}
<1>1. <<>> \in P
  <2>1. ss \o <<>> = ss /\ FlattenSeq(ss) \o <<>> = FlattenSeq(ss)
    BY FlattenAppend, ConcatEmptySeq
  <2>2. QED
    BY <2>1, FlattenAppend
<1>2. ASSUME NEW t \in Seq(Seq(V)), NEW e \in Seq(V), t \in P
      PROVE  Append(t, e) \in P
  <2>1. ss \o Append(t, e) = Append(ss \o t, e)
    <3>1. <<e>> \in Seq(Seq(V)) /\ ss \o t \in Seq(Seq(V)) /\ Append(t, e) \in Seq(Seq(V))
      BY ConcatProperties, AppendProperties
    <3>2. Append(t, e) = t \o <<e>> /\ Append(ss \o t, e) = (ss \o t) \o <<e>>
      BY <3>1, AppendIsConcat
    <3>3. QED
      BY <3>1, <3>2, ConcatAssociative
  <2>2. ss \o t \in Seq(Seq(V)) /\ Append(t, e) \in Seq(Seq(V))
    BY ConcatProperties, AppendProperties
  <2>3. /\ FlattenSeq(Append(ss \o t, e)) = FlattenSeq(ss \o t) \o e
        /\ FlattenSeq(Append(t, e)) = FlattenSeq(t) \o e
        /\ FlattenSeq(ss) \in Seq(V) /\ FlattenSeq(t) \in Seq(V)
    BY <2>2, FlattenAppend
  <2>4. (FlattenSeq(ss) \o FlattenSeq(t)) \o e = FlattenSeq(ss) \o (FlattenSeq(t) \o e)
    BY <2>3, ConcatAssociative
  <2>5. FlattenSeq(ss \o t) = FlattenSeq(ss) \o FlattenSeq(t)
    BY <1>2
  <2>6. QED
    BY <2>1, <2>2, <2>3, <2>4, <2>5
<1> HIDE DEF P
<1>3. Seq(Seq(V)) \subseteq P
  BY <1>1, <1>2, SeqInduction
<1>4. QED
  BY <1>3 DEF P
\* What each element stands for, one after the other.
Mapped(M, s) == [i \in DOMAIN s |-> M[s[i]]]

\* M gives each element of A a sequence over V.
Gives(M, A, V) == M \in [A -> Seq(V)]

\* Each element gives its sequence.
LEMMA MappedIs ==
  ASSUME NEW A, NEW V, NEW M, Gives(M, A, V), NEW s \in Seq(A)
  PROVE  /\ Mapped(M, s) \in Seq(Seq(V)) /\ Len(Mapped(M, s)) = Len(s)
         /\ \A i \in 1 .. Len(s) : Mapped(M, s)[i] = M[s[i]]
         /\ FlattenSeq(Mapped(M, s)) \in Seq(V)
<1>1. DOMAIN s = 1 .. Len(s) /\ Len(s) \in Nat /\ \A i \in 1 .. Len(s) : s[i] \in A
  BY LenProperties
<1>2. Mapped(M, s) \in [1 .. Len(s) -> Seq(V)]
  BY <1>1 DEF Mapped, Gives
<1>3. Mapped(M, s) \in Seq(Seq(V)) /\ DOMAIN Mapped(M, s) = 1 .. Len(s)
  <2>1. PICK U : U = Seq(V)
    OBVIOUS
  <2>2. Mapped(M, s) \in [1 .. Len(s) -> U]
    BY <1>2, <2>1
  <2>3. Mapped(M, s) \in Seq(U)
    <3>1. Len(s) \in Nat
      BY <1>1
    <3>2. QED
      BY <2>2, <3>1, SeqDef
  <2>4. QED
    BY <2>1, <2>2, <2>3
<1>4. Len(Mapped(M, s)) = Len(s)
  BY <1>1, <1>3, LenProperties
<1>5. \A i \in 1 .. Len(s) : Mapped(M, s)[i] = M[s[i]]
  BY <1>1 DEF Mapped
<1>6. QED
  BY <1>3, <1>4, <1>5, FlattenAppend

\* What a sequence gives is what its parts give.
LEMMA MappedConcat ==
  ASSUME NEW A, NEW V, NEW M, Gives(M, A, V), NEW s \in Seq(A), NEW t \in Seq(A)
  PROVE  FlattenSeq(Mapped(M, s \o t)) = FlattenSeq(Mapped(M, s)) \o FlattenSeq(Mapped(M, t))
<1>1. s \o t \in Seq(A) /\ Len(s \o t) = Len(s) + Len(t) /\ Len(s) \in Nat /\ Len(t) \in Nat
  BY ConcatProperties, LenProperties
<1>2. PICK x, y, z : x = Mapped(M, s) /\ y = Mapped(M, t) /\ z = Mapped(M, s \o t)
  OBVIOUS
<1>3. /\ x \in Seq(Seq(V)) /\ Len(x) = Len(s)
      /\ \A i \in 1 .. Len(s) : x[i] = M[s[i]]
  <2>1. /\ Mapped(M, s) \in Seq(Seq(V)) /\ Len(Mapped(M, s)) = Len(s)
        /\ \A i \in 1 .. Len(s) : Mapped(M, s)[i] = M[s[i]]
    BY MappedIs
  <2>2. QED
    BY <1>2, <2>1
<1>4. /\ y \in Seq(Seq(V)) /\ Len(y) = Len(t)
      /\ \A i \in 1 .. Len(t) : y[i] = M[t[i]]
  <2>1. /\ Mapped(M, t) \in Seq(Seq(V)) /\ Len(Mapped(M, t)) = Len(t)
        /\ \A i \in 1 .. Len(t) : Mapped(M, t)[i] = M[t[i]]
    BY MappedIs
  <2>2. QED
    BY <1>2, <2>1
<1>5. /\ z \in Seq(Seq(V)) /\ Len(z) = Len(s) + Len(t)
      /\ \A i \in 1 .. Len(s) + Len(t) : z[i] = M[(s \o t)[i]]
  <2>1. PICK u : u = s \o t
    OBVIOUS
  <2>2. u \in Seq(A)
    BY <1>1, <2>1
  <2>3. /\ Mapped(M, u) \in Seq(Seq(V)) /\ Len(Mapped(M, u)) = Len(u)
        /\ \A i \in 1 .. Len(u) : Mapped(M, u)[i] = M[u[i]]
    BY <2>2, MappedIs
  <2>4. QED
    BY <1>1, <1>2, <2>1, <2>3
<1>6. /\ x \o y \in Seq(Seq(V)) /\ Len(x \o y) = Len(x) + Len(y)
      /\ \A i \in 1 .. Len(x) + Len(y) : (x \o y)[i] = IF i <= Len(x) THEN x[i] ELSE y[i - Len(x)]
  <2>1. PICK U : U = Seq(V)
    OBVIOUS
  <2>2. x \in Seq(U) /\ y \in Seq(U)
    BY <1>3, <1>4, <2>1
  <2>3. /\ x \o y \in Seq(U) /\ Len(x \o y) = Len(x) + Len(y)
        /\ \A i \in 1 .. Len(x) + Len(y) : (x \o y)[i] = IF i <= Len(x) THEN x[i] ELSE y[i - Len(x)]
    BY <2>2, ConcatProperties
  <2>4. QED
    BY <2>1, <2>3
<1>7. ASSUME NEW i \in 1 .. Len(z)
      PROVE  z[i] = (x \o y)[i]
  <2>1. z[i] = M[(s \o t)[i]]
    BY <1>5
  <2>2. (s \o t)[i] = IF i <= Len(s) THEN s[i] ELSE t[i - Len(s)]
    BY <1>5, ConcatProperties
  <2>3. i <= Len(s) => i \in 1 .. Len(s)
    BY <1>1, <1>5
  <2>4. ~(i <= Len(s)) => i - Len(s) \in 1 .. Len(t)
    BY <1>1, <1>5
  <2>5. (x \o y)[i] = IF i <= Len(s) THEN x[i] ELSE y[i - Len(s)]
    BY <1>3, <1>4, <1>5, <1>6
  <2>6. QED
    BY <1>3, <1>4, <2>1, <2>2, <2>3, <2>4, <2>5
<1>8. z = x \o y
  <2>1. Len(z) = Len(x \o y)
    BY <1>3, <1>4, <1>5, <1>6
  <2>2. PICK w : w = x \o y
    OBVIOUS
  <2>3. w \in Seq(Seq(V)) /\ Len(z) = Len(w) /\ \A i \in 1 .. Len(z) : z[i] = w[i]
    BY <1>6, <1>7, <2>1, <2>2
  <2>4. z = w
    BY <1>5, <2>3, SeqEqual
  <2>5. QED
    BY <2>2, <2>4
<1>9. FlattenSeq(x \o y) = FlattenSeq(x) \o FlattenSeq(y)
  BY <1>3, <1>4, FlattenConcat
<1>10. QED
  BY <1>2, <1>8, <1>9

\* What one element gives, and what none does.
LEMMA MappedOne ==
  ASSUME NEW A, NEW V, NEW M, Gives(M, A, V), NEW a \in A
  PROVE  FlattenSeq(Mapped(M, <<a>>)) = M[a] /\ FlattenSeq(Mapped(M, <<>>)) = <<>>
<1>1. Mapped(M, <<>>) = <<>> /\ Mapped(M, <<a>>) = <<M[a]>>
  BY DEF Mapped
<1>2. <<>> \in Seq(Seq(V)) /\ M[a] \in Seq(V) /\ Append(<<>>, M[a]) = <<M[a]>>
  BY EmptySeq DEF Gives
<1>3. FlattenSeq(<<>>) = <<>> /\ FlattenSeq(<<M[a]>>) = <<>> \o M[a]
  BY <1>2, FlattenAppend
<1>4. <<>> \o M[a] = M[a]
  BY <1>2, ConcatEmptySeq
<1>5. QED
  BY <1>1, <1>3, <1>4

(***************************************************************************)
(* The words of a text: what is cut off its ends is none of them.          *)
(***************************************************************************)

\* What a character adds to the words of a text.
WordsOf(ch) == IF ch \in {"nl", "more"} THEN <<>> ELSE <<ch>>

\* The words of a text are those of its characters.
LEMMA WordsMapped ==
  ASSUME NEW V, NEW s \in Seq(V)
  PROVE  LET M == [ch \in V |-> WordsOf(ch)]
         IN  Gives(M, V, V) /\ Words(s) = FlattenSeq(Mapped(M, s))
<1> DEFINE M == [ch \in V |-> WordsOf(ch)]
<1>1. Gives(M, V, V)
  BY DEF WordsOf, Gives
<1>2. \A i \in DOMAIN s : s[i] \in V
  BY LenProperties
<1>3. \A i \in DOMAIN s : M[s[i]] = WordsOf(s[i])
  BY <1>2
<1> HIDE DEF M
<1>4. Words(s) = FlattenSeq(Mapped(M, s))
  BY <1>3 DEF Words, WordsOf, Mapped
<1>5. QED
  BY <1>1, <1>4 DEF M

\* The words of two texts, one after the other.
LEMMA WordsConcat ==
  ASSUME NEW V, NEW s \in Seq(V), NEW t \in Seq(V)
  PROVE  Words(s \o t) = Words(s) \o Words(t) /\ Words(s) \in Seq(V)
<1> DEFINE M == [ch \in V |-> WordsOf(ch)]
<1>1. s \o t \in Seq(V)
  BY ConcatProperties
<1>2. /\ Gives(M, V, V)
      /\ Words(s) = FlattenSeq(Mapped(M, s)) /\ Words(t) = FlattenSeq(Mapped(M, t))
      /\ Words(s \o t) = FlattenSeq(Mapped(M, s \o t))
  BY <1>1, WordsMapped
<1> HIDE DEF M
<1>3. FlattenSeq(Mapped(M, s \o t)) = FlattenSeq(Mapped(M, s)) \o FlattenSeq(Mapped(M, t))
  <2>1. Gives(M, V, V)
    BY <1>2
  <2>2. QED
    BY <2>1, MappedConcat
<1>4. FlattenSeq(Mapped(M, s)) \in Seq(V)
  BY <1>2, MappedIs
<1>5. QED
  BY <1>2, <1>3, <1>4

\* The words of a character, and of the empty text.
LEMMA WordsOfOne ==
  ASSUME NEW ch
  PROVE  Words(<<ch>>) = WordsOf(ch) /\ Words(<<>>) = <<>>
<1>1. PICK V : V = {ch}
  OBVIOUS
<1> DEFINE M == [c \in V |-> WordsOf(c)]
<1>2. <<>> \in Seq(V) /\ <<ch>> \in Seq(V) /\ ch \in V
  BY <1>1
<1>3. Gives(M, V, V) /\ M[ch] = WordsOf(ch)
  BY <1>2, WordsMapped
<1>4. Words(<<ch>>) = FlattenSeq(Mapped(M, <<ch>>)) /\ Words(<<>>) = FlattenSeq(Mapped(M, <<>>))
  BY <1>2, WordsMapped
<1> HIDE DEF M
<1>5. QED
  BY <1>2, <1>3, <1>4, MappedOne

\* Blanks and markers are no words.
LEMMA WordsOfNone ==
  ASSUME NEW V, NEW s \in Seq(V), \A i \in 1 .. Len(s) : s[i] \in {"nl", "more"}
  PROVE  Words(s) = <<>>
<1> DEFINE P == {t \in Seq(V) : (\A i \in 1 .. Len(t) : t[i] \in {"nl", "more"}) => Words(t) = <<>>}
<1>1. <<>> \in P
  BY WordsOfOne, EmptySeq
<1>2. ASSUME NEW t \in Seq(V), NEW ch \in V, t \in P
      PROVE  Append(t, ch) \in P
  <2> DEFINE u == Append(t, ch)
  <2>1. /\ u \in Seq(V) /\ Len(u) = Len(t) + 1 /\ Len(t) \in Nat /\ u[Len(t) + 1] = ch
        /\ \A i \in 1 .. Len(t) : u[i] = t[i]
    BY AppendProperties, LenProperties
  <2>2. u = t \o <<ch>> /\ <<ch>> \in Seq(V)
    BY AppendIsConcat
  <2> HIDE DEF u
  <2>3. Words(u) = Words(t) \o WordsOf(ch)
    <3>1. Words(t \o <<ch>>) = Words(t) \o Words(<<ch>>)
      BY <2>2, WordsConcat
    <3>2. Words(<<ch>>) = WordsOf(ch)
      BY WordsOfOne
    <3>3. QED
      BY <2>2, <3>1, <3>2
  <2>4. ASSUME \A i \in 1 .. Len(u) : u[i] \in {"nl", "more"}
        PROVE  Words(u) = <<>>
    <3>1. Words(t) = <<>> /\ WordsOf(ch) = <<>>
      BY <1>2, <2>1, <2>4 DEF WordsOf
    <3>2. QED
      BY <2>3, <3>1
  <2>5. QED
    BY <2>1, <2>4 DEF u
<1> HIDE DEF P
<1>3. Seq(V) \subseteq P
  BY <1>1, <1>2, SeqInduction
<1>4. QED
  BY <1>3 DEF P

\* Min, of a set that is not empty.
LEMMA MinOf ==
  ASSUME NEW I \in SUBSET Nat, I # {}
  PROVE  Min(I) \in I /\ \A i \in I : Min(I) <= i
BY LeastOf DEF Min

\* Max, of a set that is not empty and has a bound.
LEMMA MaxOf ==
  ASSUME NEW n \in Nat, NEW I \in SUBSET (1 .. n), I # {}
  PROVE  Max(I) \in I /\ \A i \in I : i <= Max(I)
<1> DEFINE T == {n - i : i \in I}
<1>1. T \in SUBSET Nat /\ T # {}
  <2>1. \A i \in I : i \in 1 .. n /\ n - i \in Nat
    OBVIOUS
  <2>2. QED
    BY <2>1
<1>2. PICK k \in T : \A m \in T : k <= m
  BY <1>1, LeastOf
<1>3. PICK j \in I : k = n - j
  BY <1>2
<1>4. \A i \in I : i <= j
  BY <1>2, <1>3
<1>5. \E x \in I : \A y \in I : x >= y
  BY <1>4
<1>6. QED
  BY <1>5 DEF Max

\* str.lstrip takes no word away, and takes every blank from the front.
LEMMA LStripped ==
  ASSUME NEW V, NEW s \in Seq(V)
  PROVE  /\ LStrip(s) \in Seq(V) /\ Words(LStrip(s)) = Words(s)
         /\ Len(LStrip(s)) <= Len(s)
         /\ s # <<>> /\ s[1] = "nl" => Len(LStrip(s)) < Len(s)
         /\ LStrip(s) # <<>> => LStrip(s)[1] # "nl"
         /\ LStrip(s) = <<>> => Blank(s)
<1> DEFINE I == {i \in DOMAIN s : s[i] # "nl"}
           n == Len(s)
<1>1. n \in Nat /\ DOMAIN s = 1 .. n /\ \A i \in 1 .. n : s[i] \in V
  BY LenProperties
<1>2. CASE I = {}
  <2>1. LStrip(s) = <<>>
    BY <1>2 DEF LStrip
  <2>2. \A i \in 1 .. n : s[i] = "nl"
    BY <1>1, <1>2
  <2>3. Words(s) = <<>> /\ Words(<<>>) = <<>>
    BY <2>2, WordsOfNone, WordsOfOne
  <2>4. QED
    BY <1>1, <2>1, <2>2, <2>3, EmptySeq DEF Blank
<1>3. CASE I # {}
  <2> DEFINE m == Min(I)
             u == SubSeq(s, m, n)
             v == SubSeq(s, 1, m - 1)
  <2>1. LStrip(s) = u
    BY <1>3 DEF LStrip
  <2>2. m \in I /\ \A i \in I : m <= i
    <3>1. I \in SUBSET Nat
      BY <1>1
    <3> HIDE DEF I
    <3>2. QED
      BY <1>3, <3>1, MinOf
  <2> HIDE DEF m
  <2>3. m \in 1 .. n /\ s[m] # "nl" /\ \A i \in 1 .. m - 1 : s[i] = "nl"
    BY <1>1, <2>2
  <2>4. /\ u \in Seq(V) /\ Len(u) = n - m + 1 /\ \A i \in 1 .. n - m + 1 : u[i] = s[m + i - 1]
    BY <1>1, <2>3, SubSeqProperties
  <2>5. /\ v \in Seq(V) /\ Len(v) = m - 1 /\ \A i \in 1 .. m - 1 : v[i] = s[i]
    BY <1>1, <2>3, SubSeqProperties
  <2>6. v \o u = s
    <3>1. /\ 1 \in 1 .. n + 1 /\ m - 1 \in 1 - 1 .. n /\ n \in m - 1 .. n /\ m - 1 + 1 = m
      BY <1>1, <2>3
    <3>2. SubSeq(s, 1, m - 1) \o SubSeq(s, m - 1 + 1, n) = SubSeq(s, 1, n)
      BY <3>1, ConcatAdjacentSubSeq
    <3>3. QED
      BY <3>1, <3>2, SubSeqFull
  <2>7. Words(v) = <<>>
    BY <2>3, <2>5, WordsOfNone
  <2> HIDE DEF u, v
  <2>8. Words(u) = Words(s)
    <3>1. Words(s) = Words(v) \o Words(u) /\ Words(u) \in Seq(V)
      BY <2>4, <2>5, <2>6, WordsConcat
    <3>2. QED
      BY <2>7, <3>1, ConcatEmptySeq
  <2>9. u[1] # "nl"
    BY <1>1, <2>3, <2>4
  <2>10. s[1] = "nl" => m # 1
    BY <2>3
  <2>11. u # <<>>
    BY <2>3, <2>4, EmptySeq
  <2>12. QED
    BY <1>1, <2>1, <2>3, <2>4, <2>8, <2>9, <2>10, <2>11
<1>4. QED
  BY <1>2, <1>3

\* str.rstrip takes no word away, and takes every blank from the end.
LEMMA RStripped ==
  ASSUME NEW V, NEW s \in Seq(V)
  PROVE  /\ RStrip(s) \in Seq(V) /\ Words(RStrip(s)) = Words(s)
         /\ Len(RStrip(s)) <= Len(s)
         /\ RStrip(s) # <<>> => RStrip(s)[Len(RStrip(s))] # "nl" /\ RStrip(s)[1] = s[1]
         /\ RStrip(s) = <<>> => Blank(s)
<1> DEFINE I == {i \in DOMAIN s : s[i] # "nl"}
           n == Len(s)
<1>1. n \in Nat /\ DOMAIN s = 1 .. n /\ \A i \in 1 .. n : s[i] \in V
  BY LenProperties
<1>2. CASE I = {}
  <2>1. RStrip(s) = <<>>
    BY <1>2 DEF RStrip
  <2>2. \A i \in 1 .. n : s[i] = "nl"
    BY <1>1, <1>2
  <2>3. Words(s) = <<>> /\ Words(<<>>) = <<>>
    BY <2>2, WordsOfNone, WordsOfOne
  <2>4. QED
    BY <1>1, <2>1, <2>2, <2>3, EmptySeq DEF Blank
<1>3. CASE I # {}
  <2> DEFINE m == Max(I)
             u == SubSeq(s, 1, m)
             v == SubSeq(s, m + 1, n)
  <2>1. RStrip(s) = u
    BY <1>3 DEF RStrip
  <2>2. m \in I /\ \A i \in I : i <= m
    BY <1>1, <1>3, MaxOf
  <2> HIDE DEF m
  <2>3. m \in 1 .. n /\ s[m] # "nl" /\ \A i \in m + 1 .. n : s[i] = "nl"
    BY <1>1, <2>2
  <2>4. /\ u \in Seq(V) /\ Len(u) = m /\ \A i \in 1 .. m : u[i] = s[i]
    BY <1>1, <2>3, SubSeqProperties
  <2>5. /\ v \in Seq(V) /\ Len(v) = n - m /\ \A i \in 1 .. n - m : v[i] = s[m + i]
    <3>1. \A i \in m + 1 .. n : s[i] \in V
      BY <1>1, <2>3
    <3>2. /\ v \in Seq(V) /\ Len(v) = (IF m + 1 <= n THEN n - (m + 1) + 1 ELSE 0)
          /\ \A i \in 1 .. n - (m + 1) + 1 : v[i] = s[m + 1 + i - 1]
      BY <1>1, <2>3, <3>1, SubSeqProperties
    <3> HIDE DEF v, n
    <3>3. n - (m + 1) + 1 = n - m /\ (m + 1 > n => n - m = 0)
      BY <1>1, <2>3
    <3>4. \A i \in 1 .. n - m : m + 1 + i - 1 = m + i
      BY <1>1, <2>3
    <3>5. \A i \in 1 .. n - m : v[i] = s[m + i]
      BY <3>2, <3>3, <3>4
    <3>6. Len(v) = n - m
      BY <1>1, <2>3, <3>2, <3>3
    <3>7. QED
      BY <3>2, <3>5, <3>6
  <2>6. u \o v = s
    <3>1. /\ 1 \in 1 .. n + 1 /\ m \in 1 - 1 .. n /\ n \in m .. n
      BY <1>1, <2>3
    <3>2. SubSeq(s, 1, m) \o SubSeq(s, m + 1, n) = SubSeq(s, 1, n)
      BY <3>1, ConcatAdjacentSubSeq
    <3>3. QED
      BY <3>2, SubSeqFull
  <2> HIDE DEF u, v
  <2>7. Words(v) = <<>>
    <3>1. \A i \in 1 .. n - m : m + i \in m + 1 .. n
      BY <1>1, <2>3
    <3>2. QED
      BY <2>3, <2>5, <3>1, WordsOfNone
  <2>8. Words(u) = Words(s)
    <3>1. Words(s) = Words(u) \o Words(v) /\ Words(u) \in Seq(V)
      BY <2>4, <2>5, <2>6, WordsConcat
    <3>2. QED
      BY <2>7, <3>1, ConcatEmptySeq
  <2>9. u # <<>> /\ u[Len(u)] # "nl" /\ u[1] = s[1]
    BY <1>1, <2>3, <2>4, EmptySeq
  <2>10. QED
    BY <1>1, <2>1, <2>3, <2>4, <2>8, <2>9
<1>4. QED
  BY <1>2, <1>3

(***************************************************************************)
(* A recursion whose argument gets smaller defines a function.             *)
(***************************************************************************)

\* What a recursion needs: its argument, outside Stop, has a smaller one after it.
Shrinks(D, V, Stop, size, next, base, G) ==
  /\ V # {} /\ size \in [D -> Nat] /\ next \in [D \ Stop -> D]
  /\ base \in [D -> V] /\ G \in [D \X V -> V]
  /\ \A d \in D \ Stop : size[next[d]] < size[d]

\* The function that the recursion describes exists, so that CHOOSE gives one.
LEMMA Recursion ==
  ASSUME NEW D, NEW V, NEW Stop, NEW size, NEW next, NEW base, NEW G,
         Shrinks(D, V, Stop, size, next, base, G)
  PROVE  \E f \in [D -> V] :
           \A d \in D : f[d] = IF d \in Stop THEN base[d] ELSE G[<<d, f[next[d]]>>]
<1> DEFINE H(f, d) == IF d \in Stop THEN base[d] ELSE G[<<d, f[next[d]]>>]
           Good(n, f) == f \in [D -> V] /\ \A d \in D : size[d] < n => f[d] = H(f, d)
           S == {n \in Nat : \E f : Good(n, f)}
<1> USE DEF Shrinks
<1>1. \A d \in D : size[d] \in Nat
  OBVIOUS
<1> DEFINE v == CHOOSE x \in V : TRUE
<1> v \in V
  OBVIOUS
<1> HIDE DEF v
<1>2. Nat \subseteq S
  <2>1. 0 \in S
    <3> DEFINE f == [d \in D |-> v]
    <3>1. f \in [D -> V] /\ \A d \in D : ~(size[d] < 0)
      BY <1>1
    <3>2. Good(0, f)
      BY <3>1
    <3> HIDE DEF Good, f
    <3>3. QED
      BY <3>2
  <2>2. ASSUME NEW n \in Nat, n \in S
        PROVE  n + 1 \in S
    <3>1. PICK f : Good(n, f)
      BY <2>2
    <3> DEFINE g == [d \in D |-> H(f, d)]
    <3>2. \A d \in D : H(f, d) \in V
      BY <3>1
    <3>3. g \in [D -> V]
      BY <3>2
    <3>4. ASSUME NEW d \in D, size[d] < n + 1, d \notin Stop
          PROVE  g[next[d]] = f[next[d]]
      <4>1. next[d] \in D
        BY <3>4
      <4>2. size[next[d]] < n
        BY <1>1, <3>4, <4>1
      <4>3. QED
        BY <3>1, <4>1, <4>2
    <3>5. ASSUME NEW d \in D, size[d] < n + 1
          PROVE  g[d] = H(g, d)
      <4>1. g[d] = H(f, d)
        OBVIOUS
      <4>2. d \notin Stop => g[next[d]] = f[next[d]]
        BY <3>4, <3>5
      <4> HIDE DEF g
      <4>3. QED
        BY <4>1, <4>2
    <3> HIDE DEF g, H
    <3>6. Good(n + 1, g)
      BY <3>3, <3>5
    <3> HIDE DEF Good
    <3>7. QED
      BY <3>6
  <2> HIDE DEF S
  <2>3. QED
    BY <2>1, <2>2, Induction
<1>3. ASSUME NEW m \in Nat, NEW n \in Nat, NEW f, NEW g, Good(m, f), Good(n, g)
      PROVE  \A d \in D : size[d] < m /\ size[d] < n => f[d] = g[d]
  <2> DEFINE Q == {k \in Nat : \A d \in D : size[d] < k /\ size[d] < m /\ size[d] < n => f[d] = g[d]}
  <2>1. 0 \in Q
    BY <1>1
  <2>2. ASSUME NEW k \in Nat, k \in Q
        PROVE  k + 1 \in Q
    <3> SUFFICES ASSUME NEW d \in D, size[d] < k + 1, size[d] < m, size[d] < n
                 PROVE  f[d] = g[d]
      OBVIOUS
    <3>1. f[d] = H(f, d) /\ g[d] = H(g, d)
      BY <1>3
    <3>2. CASE d \in Stop
      BY <3>1, <3>2
    <3>3. CASE d \notin Stop
      <4>1. next[d] \in D /\ size[next[d]] < size[d]
        BY <3>3
      <4>2. size[next[d]] < k /\ size[next[d]] < m /\ size[next[d]] < n
        BY <1>1, <4>1
      <4>3. f[next[d]] = g[next[d]]
        BY <2>2, <4>1, <4>2
      <4>4. QED
        BY <3>1, <3>3, <4>3
    <3>4. QED
      BY <3>2, <3>3
  <2> HIDE DEF Q
  <2>3. Nat \subseteq Q
    BY <2>1, <2>2, Induction
  <2>4. QED
    <3> SUFFICES ASSUME NEW d \in D, size[d] < m /\ size[d] < n
                 PROVE  f[d] = g[d]
      OBVIOUS
    <3>1. size[d] + 1 \in Q /\ size[d] < size[d] + 1
      BY <1>1, <2>3
    <3>2. QED
      BY <3>1 DEF Q
<1> DEFINE F == [n \in Nat |-> CHOOSE f : Good(n, f)]
           h == [d \in D |-> F[size[d] + 1][d]]
<1>4. ASSUME NEW n \in Nat
      PROVE  Good(n, F[n])
  <2>1. \E f : Good(n, f)
    BY <1>2
  <2> HIDE DEF Good
  <2>2. Good(n, CHOOSE f : Good(n, f))
    BY <2>1
  <2>3. F[n] = CHOOSE f : Good(n, f)
    OBVIOUS
  <2>4. QED
    BY <2>2, <2>3
<1> HIDE DEF F
<1>5. ASSUME NEW d \in D
      PROVE  h[d] = H(h, d) /\ h[d] \in V
  <2> DEFINE n == size[d] + 1
  <2>1. n \in Nat /\ size[d] < n
    BY <1>1
  <2>2. h[d] = F[n][d]
    OBVIOUS
  <2>3. F[n] \in [D -> V] /\ F[n][d] = H(F[n], d)
    BY <1>4, <2>1
  <2>4. ASSUME d \notin Stop
        PROVE  F[n][next[d]] = h[next[d]]
    <3>1. next[d] \in D /\ size[next[d]] < size[d]
      BY <2>4
    <3>2. size[next[d]] \in Nat /\ size[next[d]] < n /\ size[next[d]] < size[next[d]] + 1
      BY <1>1, <3>1
    <3>3. size[next[d]] + 1 \in Nat
      BY <3>2
    <3>4. Good(n, F[n]) /\ Good(size[next[d]] + 1, F[size[next[d]] + 1])
      BY <1>4, <2>1, <3>3
    <3> HIDE DEF Good
    <3>5. F[n][next[d]] = F[size[next[d]] + 1][next[d]]
      BY <1>3, <2>1, <3>1, <3>2, <3>3, <3>4
    <3>6. QED
      BY <3>1, <3>5
  <2> HIDE DEF h, n
  <2>5. QED
    BY <2>2, <2>3, <2>4
<1>6. h \in [D -> V]
  <2>1. h = [d \in D |-> h[d]]
    OBVIOUS
  <2> HIDE DEF h
  <2>2. QED
    BY <1>5, <2>1
<1> HIDE DEF h
<1>7. QED
  BY <1>5, <1>6
(***************************************************************************)
(* A text cut into pieces.                                                 *)
(***************************************************************************)

\* A text that is too long is cut within the limit, and not before its first character unless that is a break.
LEMMA WhereToCut ==
  ASSUME NEW s \in Seq(Char), Len(s) > BodyLimit
  PROVE  CutOf(s) \in 0 .. BodyLimit /\ (CutOf(s) = 0 => s[1] = "nl")
<1> DEFINE u == SubSeq(s, 1, BodyLimit)
           breaks == LineBreaks(u)
<1>1. BodyLimit \in Nat \ {0} /\ Len(s) \in Nat
  BY ChunksAssumption, LenProperties
<1>2. \A i \in 1 .. BodyLimit : s[i] \in Char
  BY <1>1, LenProperties
<1>3. u \in Seq(Char) /\ Len(u) = BodyLimit /\ \A i \in 1 .. BodyLimit : u[i] = s[i]
  BY <1>1, <1>2, SubSeqProperties
<1>4. CutOf(s) = IF breaks = {} THEN BodyLimit ELSE Max(breaks) - 1
  BY DEF CutOf
<1> HIDE DEF u
<1>5. breaks \in SUBSET (1 .. BodyLimit) /\ \A i \in breaks : u[i] = "nl"
  BY <1>3, LenProperties DEF LineBreaks
<1> HIDE DEF breaks
<1>6. CASE breaks = {}
  BY <1>1, <1>4, <1>6
<1>7. CASE breaks # {}
  <2>1. BodyLimit \in Nat
    BY <1>1
  <2>2. Max(breaks) \in breaks
    BY <1>5, <1>7, <2>1, MaxOf
  <2>3. Max(breaks) \in 1 .. BodyLimit /\ u[Max(breaks)] = "nl"
    BY <1>5, <2>2
  <2>4. QED
    BY <1>3, <1>4, <1>7, <2>1, <2>3
<1>8. QED
  BY <1>6, <1>7

\* One cut: the piece fits, what is left is shorter, and no word is lost.
LEMMA WhatIsLeft ==
  ASSUME NEW s \in Seq(Char), Len(s) > BodyLimit
  PROVE  LET first == RStrip(SubSeq(s, 1, CutOf(s)))
             rest == Rest(s, CutOf(s))
         IN  /\ first \in Seq(Char) /\ Len(first) <= BodyLimit
             /\ rest \in Seq(Char) /\ Len(rest) < Len(s)
             /\ Words(s) = Words(first) \o Words(rest)
<1> DEFINE c == CutOf(s)
           n == Len(s)
           u == SubSeq(s, 1, c)
           v == SubSeq(s, c + 1, n)
<1>1. BodyLimit \in Nat \ {0} /\ n \in Nat /\ \A i \in 1 .. n : s[i] \in Char
  BY ChunksAssumption, LenProperties
<1>2. c \in 0 .. BodyLimit /\ (c = 0 => s[1] = "nl")
  BY WhereToCut
<1>3. c \in Nat /\ c < n /\ c <= BodyLimit
  BY <1>1, <1>2
<1> HIDE DEF c, n
<1>4. u \in Seq(Char) /\ Len(u) = c
  BY <1>1, <1>3, SubSeqProperties
<1>5. v \in Seq(Char) /\ Len(v) = n - c /\ (c = 0 => v[1] = s[1])
  <2>1. \A i \in c + 1 .. n : s[i] \in Char
    BY <1>1, <1>3
  <2>2. /\ v \in Seq(Char) /\ Len(v) = (IF c + 1 <= n THEN n - (c + 1) + 1 ELSE 0)
        /\ \A i \in 1 .. n - (c + 1) + 1 : v[i] = s[c + 1 + i - 1]
    BY <1>1, <1>3, <2>1, SubSeqProperties
  <2>3. c + 1 <= n /\ n - (c + 1) + 1 = n - c /\ 1 \in 1 .. n - c /\ c + 1 + 1 - 1 = c + 1
    BY <1>1, <1>3
  <2> HIDE DEF v
  <2>4. v[1] = s[c + 1]
    BY <2>2, <2>3
  <2>5. QED
    BY <2>2, <2>3, <2>4
<1>6. u \o v = s
  <2>1. /\ 1 \in 1 .. n + 1 /\ c \in 1 - 1 .. n /\ n \in c .. n
    BY <1>1, <1>3
  <2>2. SubSeq(s, 1, c) \o SubSeq(s, c + 1, n) = SubSeq(s, 1, n)
    BY <2>1, ConcatAdjacentSubSeq DEF n
  <2>3. QED
    BY <2>2, SubSeqFull DEF n
<1> HIDE DEF u, v
<1>7. Words(s) = Words(u) \o Words(v)
  BY <1>4, <1>5, <1>6, WordsConcat
<1>8. /\ RStrip(u) \in Seq(Char) /\ Words(RStrip(u)) = Words(u) /\ Len(RStrip(u)) <= Len(u)
  BY <1>4, RStripped
<1>9. /\ LStrip(v) \in Seq(Char) /\ Words(LStrip(v)) = Words(v) /\ Len(LStrip(v)) <= Len(v)
      /\ v # <<>> /\ v[1] = "nl" => Len(LStrip(v)) < Len(v)
  BY <1>5, LStripped
<1>10. Len(LStrip(v)) < n
  <2>1. Len(LStrip(v)) \in Nat /\ v # <<>>
    BY <1>1, <1>3, <1>5, <1>9, LenProperties, EmptySeq
  <2>2. QED
    BY <1>1, <1>2, <1>3, <1>5, <1>9, <2>1
<1>11. Len(RStrip(u)) <= BodyLimit
  BY <1>1, <1>3, <1>4, <1>8, LenProperties
<1>12. Rest(s, c) = LStrip(v)
  BY DEF Rest, v, n
<1>13. QED
  BY <1>7, <1>8, <1>9, <1>10, <1>11, <1>12 DEF c, u, n

\* So the recursion of Pieces is well founded, and Pieces obeys it.
LEMMA PiecesAre ==
  \A s \in Seq(Char) :
    Pieces[s] = IF s = <<>> THEN <<>>
                ELSE IF Len(s) <= BodyLimit THEN <<s>>
                ELSE <<RStrip(SubSeq(s, 1, CutOf(s)))>> \o Pieces[Rest(s, CutOf(s))]
<1> DEFINE D == Seq(Char)
           Stop == {s \in D : Len(s) <= BodyLimit}
           size == [s \in D |-> Len(s)]
           next == [s \in D \ Stop |-> Rest(s, CutOf(s))]
           base == [s \in D |-> IF s = <<>> THEN <<>> ELSE <<s>>]
           first == [s \in D |-> IF s \in Stop THEN <<>> ELSE <<RStrip(SubSeq(s, 1, CutOf(s)))>>]
           G == [x \in D \X Seq(D) |-> first[x[1]] \o x[2]]
<1>1. BodyLimit \in Nat
  BY ChunksAssumption
<1>2. \A s \in D \ Stop : Len(s) > BodyLimit
  BY <1>1, LenProperties
<1>3. \A s \in D \ Stop : /\ Rest(s, CutOf(s)) \in D /\ Len(Rest(s, CutOf(s))) < Len(s)
                          /\ RStrip(SubSeq(s, 1, CutOf(s))) \in D
  BY <1>2, WhatIsLeft
<1>4. size \in [D -> Nat]
  BY LenProperties
<1>5. next \in [D \ Stop -> D]
  BY <1>3
<1>6. base \in [D -> Seq(D)]
  OBVIOUS
<1>7. first \in [D -> Seq(D)]
  BY <1>3
<1>8. G \in [D \X Seq(D) -> Seq(D)]
  <2> HIDE DEF first
  <2>1. PICK C : C = D
    OBVIOUS
  <2>2. \A x \in C \X Seq(C) : first[x[1]] \in Seq(C) /\ x[2] \in Seq(C)
    BY <1>7, <2>1
  <2>3. \A x \in C \X Seq(C) : first[x[1]] \o x[2] \in Seq(C)
    BY <2>2, ConcatProperties
  <2>4. QED
    BY <2>1, <2>3
<1>9. \A s \in D \ Stop : size[next[s]] < size[s]
  BY <1>3
<1>10. <<>> \in Seq(D)
  BY EmptySeq
<1> HIDE DEF size, next, base, first, G, Stop
<1>11. Shrinks(D, Seq(D), Stop, size, next, base, G)
  BY <1>4, <1>5, <1>6, <1>8, <1>9, <1>10 DEF Shrinks
<1>12. PICK f \in [D -> Seq(D)] :
         \A s \in D : f[s] = IF s \in Stop THEN base[s] ELSE G[<<s, f[next[s]]>>]
  BY <1>11, Recursion
<1> DEFINE E(g, s) == IF s = <<>> THEN <<>>
                      ELSE IF Len(s) <= BodyLimit THEN <<s>>
                      ELSE <<RStrip(SubSeq(s, 1, CutOf(s)))>> \o g[Rest(s, CutOf(s))]
<1>13. ASSUME NEW s \in D
       PROVE  f[s] = E(f, s)
  <2>1. CASE s \in Stop
    BY <1>1, <1>12, <2>1, EmptySeq DEF Stop, base
  <2>2. CASE s \notin Stop
    <3>1. Len(s) > BodyLimit /\ s # <<>>
      BY <1>1, <1>2, <2>2, EmptySeq
    <3>2. next[s] = Rest(s, CutOf(s)) /\ Rest(s, CutOf(s)) \in D
      BY <1>3, <2>2 DEF next
    <3>3. f[next[s]] \in Seq(D)
      BY <3>2
    <3>4. G[<<s, f[next[s]]>>] = first[s] \o f[next[s]]
      BY <3>3 DEF G
    <3>5. first[s] = <<RStrip(SubSeq(s, 1, CutOf(s)))>>
      BY <2>2 DEF first
    <3>6. f[s] = <<RStrip(SubSeq(s, 1, CutOf(s)))>> \o f[Rest(s, CutOf(s))]
      BY <1>12, <2>2, <3>2, <3>4, <3>5
    <3>7. ~(Len(s) <= BodyLimit)
      BY <2>2 DEF Stop
    <3>8. QED
      BY <3>1, <3>6, <3>7
  <2>3. QED
    BY <2>1, <2>2
<1>14. f = [s \in D |-> E(f, s)]
  <2>1. f = [s \in D |-> f[s]]
    OBVIOUS
  <2> HIDE DEF E
  <2>2. QED
    BY <1>13, <2>1
<1>15. Pieces = [s \in D |-> E(Pieces, s)]
  BY <1>14 DEF Pieces
<1>16. \A s \in D : Pieces[s] = E(Pieces, s)
  <2> HIDE DEF E
  <2>1. PICK g : g = Pieces
    OBVIOUS
  <2>2. g = [s \in D |-> E(g, s)]
    BY <1>15, <2>1
  <2>3. \A s \in D : g[s] = E(g, s)
    BY <2>2
  <2>4. QED
    BY <2>1, <2>3
<1>17. QED
  BY <1>16

\* The words of one message after another.
Joined(ss) == FlattenSeq([i \in DOMAIN ss |-> Words(ss[i])])

\* The words of the messages, put together.
LEMMA JoinedIs ==
  ASSUME NEW V, NEW ss \in Seq(Seq(V)), NEW tt \in Seq(Seq(V))
  PROVE  /\ Joined(ss \o tt) = Joined(ss) \o Joined(tt) /\ Joined(ss) \in Seq(V)
         /\ \A s \in Seq(V) : Joined(<<s>>) = Words(s)
         /\ Joined(<<>>) = <<>>
<1> DEFINE M == [s \in Seq(V) |-> Words(s)]
           A == Seq(V)
<1>1. Gives(M, A, V) /\ \A s \in A : M[s] = Words(s)
  BY WordsConcat DEF Gives
<1>2. \A s \in Seq(A) : Joined(s) = FlattenSeq(Mapped(M, s))
  <2> SUFFICES ASSUME NEW s \in Seq(A) PROVE Joined(s) = FlattenSeq(Mapped(M, s))
    OBVIOUS
  <2>1. \A i \in DOMAIN s : s[i] \in A
    BY LenProperties
  <2>2. \A i \in DOMAIN s : M[s[i]] = Words(s[i])
    BY <1>1, <2>1
  <2> HIDE DEF M
  <2>3. QED
    BY <2>2 DEF Joined, Mapped
<1> HIDE DEF M
<1>3. ss \o tt \in Seq(A) /\ <<>> \in Seq(A)
  BY ConcatProperties, EmptySeq
<1>4. FlattenSeq(Mapped(M, ss \o tt)) = FlattenSeq(Mapped(M, ss)) \o FlattenSeq(Mapped(M, tt))
  BY <1>1, MappedConcat
<1>5. FlattenSeq(Mapped(M, ss)) \in Seq(V)
  BY <1>1, MappedIs
<1>6. ASSUME NEW s \in A PROVE Joined(<<s>>) = Words(s) /\ Joined(<<>>) = <<>>
  <2>1. FlattenSeq(Mapped(M, <<s>>)) = M[s] /\ FlattenSeq(Mapped(M, <<>>)) = <<>>
    BY <1>1, MappedOne
  <2>2. <<s>> \in Seq(A)
    OBVIOUS
  <2>3. QED
    BY <1>1, <1>2, <1>3, <2>1, <2>2
<1>7. <<>> \in A
  BY EmptySeq
<1>8. QED
  BY <1>2, <1>3, <1>4, <1>5, <1>6, <1>7

\* Every piece fits, and together they have the words of the text.
LEMMA PiecesFit ==
  ASSUME NEW s \in Seq(Char)
  PROVE  /\ Pieces[s] \in Seq(Seq(Char))
         /\ \A i \in 1 .. Len(Pieces[s]) : Len(Pieces[s][i]) <= BodyLimit
         /\ Joined(Pieces[s]) = Words(s)
<1> DEFINE Fit(ss) == ss \in Seq(Seq(Char)) /\ \A i \in 1 .. Len(ss) : Len(ss[i]) <= BodyLimit
           S == {n \in Nat : \A t \in Seq(Char) : Len(t) < n =>
                                Fit(Pieces[t]) /\ Joined(Pieces[t]) = Words(t)}
<1>1. 0 \in S
  BY LenProperties
<1>2. ASSUME NEW n \in Nat, n \in S
      PROVE  n + 1 \in S
  <2> SUFFICES ASSUME NEW t \in Seq(Char), Len(t) < n + 1
               PROVE  Fit(Pieces[t]) /\ Joined(Pieces[t]) = Words(t)
    OBVIOUS
  <2>1. CASE t = <<>>
    <3>1. Pieces[t] = <<>>
      BY <2>1, PiecesAre
    <3>2. <<>> \in Seq(Seq(Char)) /\ Len(<<>>) = 0
      BY EmptySeq
    <3>3. Joined(<<>>) = <<>> /\ Words(<<>>) = <<>>
      BY <3>2, JoinedIs, WordsOfOne
    <3>4. QED
      BY <2>1, <3>1, <3>2, <3>3
  <2>2. CASE t # <<>> /\ Len(t) <= BodyLimit
    <3>1. Pieces[t] = <<t>>
      BY <2>2, PiecesAre
    <3>2. <<t>> \in Seq(Seq(Char)) /\ Len(<<t>>) = 1 /\ <<t>>[1] = t
      OBVIOUS
    <3>3. Joined(<<t>>) = Words(t)
      BY <3>2, JoinedIs
    <3>4. QED
      BY <2>2, <3>1, <3>2, <3>3
  <2>3. CASE ~(Len(t) <= BodyLimit)
    <3> DEFINE first == RStrip(SubSeq(t, 1, CutOf(t)))
               rest == Rest(t, CutOf(t))
    <3>1. Len(t) > BodyLimit /\ t # <<>> /\ Len(t) \in Nat
      BY <2>3, ChunksAssumption, LenProperties, EmptySeq
    <3>2. Pieces[t] = <<first>> \o Pieces[rest]
      BY <2>3, <3>1, PiecesAre
    <3>3. /\ first \in Seq(Char) /\ Len(first) <= BodyLimit
          /\ rest \in Seq(Char) /\ Len(rest) < Len(t)
          /\ Words(t) = Words(first) \o Words(rest)
      BY <3>1, WhatIsLeft
    <3> HIDE DEF first, rest
    <3>4. PICK more : more = Pieces[rest]
      OBVIOUS
    <3>5. Fit(more) /\ Joined(more) = Words(rest)
      <4>1. Len(rest) < n
        BY <3>1, <3>3, LenProperties
      <4>2. QED
        BY <1>2, <3>3, <3>4, <4>1
    <3>6. <<first>> \in Seq(Seq(Char)) /\ Len(<<first>>) = 1 /\ <<first>>[1] = first
      BY <3>3
    <3>7. Joined(<<first>> \o more) = Joined(<<first>>) \o Joined(more) /\ Joined(<<first>>) = Words(first)
      BY <3>3, <3>5, <3>6, JoinedIs
    <3>8. PICK both, one : both = one \o more /\ one = <<first>>
      OBVIOUS
    <3>9. /\ both \in Seq(Seq(Char)) /\ Len(both) = 1 + Len(more) /\ Len(more) \in Nat
          /\ \A i \in 1 .. 1 + Len(more) : both[i] = IF i <= 1 THEN one[i] ELSE more[i - 1]
      <4>1. PICK D : D = Seq(Char)
        OBVIOUS
      <4>2. one \in Seq(D) /\ more \in Seq(D) /\ Len(one) = 1
        BY <3>5, <3>6, <3>8, <4>1
      <4>3. /\ both \in Seq(D) /\ Len(both) = Len(one) + Len(more)
            /\ \A i \in 1 .. Len(one) + Len(more) : both[i] = IF i <= Len(one) THEN one[i] ELSE more[i - Len(one)]
        BY <3>8, <4>2, ConcatProperties
      <4>4. QED
        BY <4>1, <4>2, <4>3, LenProperties
    <3>10. ASSUME NEW i \in 1 .. Len(both) PROVE Len(both[i]) <= BodyLimit
      <4>1. CASE i <= 1
        BY <3>3, <3>6, <3>8, <3>9, <4>1
      <4>2. CASE ~(i <= 1)
        <5>1. i - 1 \in 1 .. Len(more) /\ both[i] = more[i - 1]
          BY <3>9, <4>2
        <5>2. QED
          BY <3>5, <5>1
      <4>3. QED
        BY <4>1, <4>2
    <3>11. Fit(both)
      BY <3>9, <3>10
    <3> HIDE DEF Fit
    <3>12. QED
      BY <3>2, <3>3, <3>4, <3>5, <3>7, <3>8, <3>11
  <2>4. QED
    BY <2>1, <2>2, <2>3
<1> HIDE DEF S
<1>3. Nat \subseteq S
  BY <1>1, <1>2, Induction
<1>4. Len(s) + 1 \in S /\ Len(s) < Len(s) + 1
  BY <1>3, LenProperties
<1>5. QED
  BY <1>4 DEF S

\* Texts as they are shown, with the marker.
Texts == Seq(Char \cup {"more"})

\* A text without the marker is one that might have it; the title and the marker.
LEMMA CharTexts ==
  /\ \A s \in Seq(Char) : s \in Texts
  /\ TitleLine \in Seq(Char) /\ Len(TitleLine) = 3 /\ Words(TitleLine) = <<"x">>
  /\ Marker \in Texts /\ Len(Marker) = 2 /\ Words(Marker) = <<>>
<1>1. \A s \in Seq(Char) : s \in Texts
  BY SeqMonotonic DEF Texts
<1>2. TitleLine \in Seq(Char) /\ Len(TitleLine) = 3
  BY DEF TitleLine, Char
<1>3. Words(TitleLine) = <<"x">>
  <2>1. <<"x">> \in Seq(Char) /\ <<"nl", "nl">> \in Seq(Char) /\ TitleLine = <<"x">> \o <<"nl", "nl">>
    BY DEF TitleLine, Char
  <2>2. Words(TitleLine) = Words(<<"x">>) \o Words(<<"nl", "nl">>)
    BY <2>1, WordsConcat
  <2>3. Words(<<"nl", "nl">>) = <<>>
    <3>1. \A i \in 1 .. Len(<<"nl", "nl">>) : <<"nl", "nl">>[i] \in {"nl", "more"}
      OBVIOUS
    <3>2. QED
      BY <2>1, <3>1, WordsOfNone
  <2>4. Words(<<"x">>) = <<"x">>
    BY WordsOfOne DEF WordsOf
  <2>5. <<"x">> \o <<>> = <<"x">>
    BY <2>1, ConcatEmptySeq
  <2>6. QED
    BY <2>2, <2>3, <2>4, <2>5
<1>4. Marker \in Texts /\ Len(Marker) = 2
  BY DEF Marker, Texts, Char
<1>5. Words(Marker) = <<>>
  <2>1. \A i \in 1 .. Len(Marker) : Marker[i] \in {"nl", "more"}
    BY DEF Marker
  <2>2. QED
    BY <1>4, <2>1, WordsOfNone DEF Texts
<1>6. QED
  BY <1>1, <1>2, <1>3, <1>4, <1>5

\* The body under its title.
LEMMA FullIs ==
  ASSUME NEW body \in Seq(Char)
  PROVE  Full(body) \in Seq(Char) /\ Words(Full(body)) = <<"x">> \o Words(body)
BY CharTexts, ConcatProperties, WordsConcat DEF Full

\* A message that is not the last one, with its mark.
LEMMA MarkedIs ==
  ASSUME NEW s \in Seq(Char)
  PROVE  LET m == RStrip(s) \o Marker
         IN  m \in Texts /\ Len(m) <= Len(s) + Len(Marker) /\ Words(m) = Words(s)
<1> DEFINE r == RStrip(s)
<1>1. r \in Seq(Char) /\ Words(r) = Words(s) /\ Len(r) <= Len(s) /\ r \in Texts
  BY RStripped, CharTexts
<1>2. Marker \in Texts /\ Len(Marker) = 2 /\ Words(Marker) = <<>>
  BY CharTexts
<1> HIDE DEF r
<1>3. r \o Marker \in Texts /\ Len(r \o Marker) = Len(r) + Len(Marker)
  BY <1>1, <1>2, ConcatProperties DEF Texts
<1>4. Words(r \o Marker) = Words(r) \o Words(Marker) /\ Words(r) \in Texts
  BY <1>1, <1>2, WordsConcat DEF Texts
<1>5. Words(r) \o <<>> = Words(r)
  BY <1>4, ConcatEmptySeq DEF Texts
<1>6. Len(r) + Len(Marker) <= Len(s) + Len(Marker)
  BY <1>1, <1>2, LenProperties
<1>7. QED
  BY <1>1, <1>2, <1>3, <1>4, <1>5, <1>6 DEF r

\* Whatever the limits are, no message of _chunk_messages is longer than Discord
\* takes, there is at least one, and together they say the whole of the body.
THEOREM MessagesFit ==
  ASSUME NEW body \in Seq(Char)
  PROVE  LET out == ChunkMessages(body)
         IN  /\ out \in Seq(Texts) /\ Len(out) >= 1
             /\ \A i \in 1 .. Len(out) : Len(out[i]) <= MessageLimit
             /\ Joined(out) = Words(Full(body))
<1>1. /\ MessageLimit \in Nat /\ BodyLimit \in Nat /\ BodyLimit + Len(Marker) <= MessageLimit
      /\ Len(TitleLine) + Len(Marker) <= MessageLimit /\ Len(Marker) = 2 /\ Len(TitleLine) = 3
  BY ChunksAssumption, CharTexts
<1>2. Full(body) \in Seq(Char) /\ Full(body) \in Texts
  BY FullIs, CharTexts
<1>3. CASE Len(Full(body)) <= MessageLimit
  <2>1. ChunkMessages(body) = <<Full(body)>>
    BY <1>3 DEF ChunkMessages
  <2>2. Joined(<<Full(body)>>) = Words(Full(body))
    <3>1. <<>> \in Seq(Seq(Char))
      BY EmptySeq
    <3>2. QED
      BY <1>2, <3>1, JoinedIs
  <2>3. <<Full(body)>> \in Seq(Texts) /\ Len(<<Full(body)>>) = 1 /\ <<Full(body)>>[1] = Full(body)
    BY <1>2
  <2>4. QED
    BY <1>3, <2>1, <2>2, <2>3
<1>4. CASE ~(Len(Full(body)) <= MessageLimit)
  <2> DEFINE ss == <<TitleLine>> \o Pieces[body]
             n == Len(ss)
             out == [i \in DOMAIN ss |-> IF i < Len(ss) THEN RStrip(ss[i]) \o Marker ELSE ss[i]]
  <2>1. ChunkMessages(body) = out
    BY <1>4 DEF ChunkMessages
  <2>2. PICK D, one, more : D = Seq(Char) /\ one = <<TitleLine>> /\ more = Pieces[body]
    OBVIOUS
  <2>3. /\ one \in Seq(D) /\ Len(one) = 1 /\ one[1] = TitleLine
        /\ more \in Seq(D) /\ \A i \in 1 .. Len(more) : Len(more[i]) <= BodyLimit
        /\ Joined(more) = Words(body)
    <3>1. /\ Pieces[body] \in Seq(Seq(Char)) /\ Joined(Pieces[body]) = Words(body)
          /\ \A i \in 1 .. Len(Pieces[body]) : Len(Pieces[body][i]) <= BodyLimit
      BY PiecesFit
    <3>2. <<TitleLine>> \in Seq(Seq(Char)) /\ Len(<<TitleLine>>) = 1 /\ <<TitleLine>>[1] = TitleLine
      BY CharTexts
    <3>3. QED
      BY <2>2, <3>1, <3>2
  <2>4. /\ ss \in Seq(D) /\ n = 1 + Len(more) /\ Len(more) \in Nat
        /\ \A i \in 1 .. n : ss[i] = IF i <= 1 THEN one[i] ELSE more[i - 1]
    <3>1. PICK both : both = one \o more
      OBVIOUS
    <3>2. /\ both \in Seq(D) /\ Len(both) = Len(one) + Len(more)
          /\ \A i \in 1 .. Len(one) + Len(more) : both[i] = IF i <= Len(one) THEN one[i] ELSE more[i - Len(one)]
      BY <2>3, <3>1, ConcatProperties
    <3>3. QED
      BY <2>2, <2>3, <3>1, <3>2, LenProperties
  <2>5. Joined(ss) = Words(Full(body))
    <3>1. Joined(one \o more) = Joined(one) \o Joined(more) /\ Joined(one) = Words(TitleLine)
      BY <2>2, <2>3, CharTexts, JoinedIs
    <3>2. Words(TitleLine) = <<"x">> /\ Words(Full(body)) = <<"x">> \o Words(body)
      BY FullIs, CharTexts
    <3>3. QED
      BY <2>2, <2>3, <3>1, <3>2
  <2>6. \A i \in 1 .. n : ss[i] \in Seq(Char) /\ Len(ss[i]) + Len(Marker) <= MessageLimit
    <3> SUFFICES ASSUME NEW i \in 1 .. n
                 PROVE  ss[i] \in Seq(Char) /\ Len(ss[i]) + Len(Marker) <= MessageLimit
      OBVIOUS
    <3>1. CASE i <= 1
      <4>1. i = 1 /\ ss[i] = TitleLine
        BY <2>3, <2>4, <3>1
      <4>2. QED
        BY <1>1, <4>1, CharTexts
    <3>2. CASE ~(i <= 1)
      <4>1. i - 1 \in 1 .. Len(more) /\ ss[i] = more[i - 1]
        BY <2>4, <3>2
      <4>2. more[i - 1] \in Seq(Char) /\ Len(more[i - 1]) <= BodyLimit
        BY <2>2, <2>3, <4>1, ElementOfSeq
      <4>3. QED
        BY <1>1, <4>1, <4>2, LenProperties
    <3>3. QED
      BY <3>1, <3>2
  <2>7. DOMAIN ss = 1 .. n /\ n \in Nat /\ n >= 1
    BY <2>4, LenProperties
  <2> HIDE DEF ss
  <2>8. ASSUME NEW i \in 1 .. n
        PROVE  out[i] \in Texts /\ Len(out[i]) <= MessageLimit /\ Words(out[i]) = Words(ss[i])
    <3>1. ss[i] \in Seq(Char) /\ Len(ss[i]) \in Nat /\ Len(ss[i]) + Len(Marker) <= MessageLimit
      BY <2>6, LenProperties
    <3>2. out[i] = IF i < n THEN RStrip(ss[i]) \o Marker ELSE ss[i]
      BY <2>7
    <3> HIDE DEF out
    <3>3. CASE i < n
      <4>1. PICK m : m = RStrip(ss[i]) \o Marker
        OBVIOUS
      <4>2. m \in Texts /\ Len(m) <= Len(ss[i]) + Len(Marker) /\ Words(m) = Words(ss[i]) /\ Len(m) \in Nat
        BY <3>1, <4>1, MarkedIs, LenProperties DEF Texts
      <4>3. QED
        BY <1>1, <3>1, <3>2, <3>3, <4>1, <4>2
    <3>4. CASE ~(i < n)
      <4>1. out[i] = ss[i] /\ ss[i] \in Texts
        BY <3>1, <3>2, <3>4, CharTexts
      <4>2. QED
        BY <1>1, <3>1, <4>1
    <3>5. QED
      BY <3>3, <3>4
  <2>9. out \in Seq(Texts) /\ Len(out) = n /\ DOMAIN out = 1 .. n
    <3>1. DOMAIN out = 1 .. n
      BY <2>7
    <3>2. PICK U : U = Texts
      OBVIOUS
    <3>3. out \in [1 .. n -> U]
      <4>1. out = [i \in 1 .. n |-> out[i]]
        BY <2>7
      <4> HIDE DEF out
      <4>2. QED
        BY <2>8, <3>2, <4>1
    <3> HIDE DEF out
    <3>4. out \in Seq(U)
      BY <2>7, <3>3, SeqDef
    <3>5. QED
      BY <2>7, <3>1, <3>2, <3>4, LenProperties
  <2>10. Joined(out) = Joined(ss)
    <3> HIDE DEF out
    <3>1. [i \in DOMAIN out |-> Words(out[i])] = [i \in DOMAIN ss |-> Words(ss[i])]
      BY <2>7, <2>8, <2>9
    <3>2. QED
      BY <3>1 DEF Joined
  <2> HIDE DEF out
  <2>11. QED
    BY <2>1, <2>5, <2>7, <2>8, <2>9, <2>10
<1>5. QED
  BY <1>3, <1>4

\* What comes first is a prefix.
LEMMA PrefixOf ==
  ASSUME NEW V, NEW s \in Seq(V), NEW t \in Seq(V)
  PROVE  IsPrefix(s, s \o t)
<1>1. Len(s) \in Nat /\ Len(t) \in Nat /\ Len(s \o t) = Len(s) + Len(t)
  BY LenProperties, ConcatProperties
<1>2. SubSeq(s \o t, 1, Len(s)) = SubSeq(s, 1, Len(s))
  <2>1. CASE Len(s) = 0
    BY <1>1, <2>1, SubSeqEmpty
  <2>2. CASE Len(s) # 0
    <3>1. 1 \in 1 .. Len(s) /\ Len(s) \in 1 .. Len(s)
      BY <1>1, <2>2
    <3>2. QED
      BY <3>1, SubSeqOfConcat1
  <2>3. QED
    BY <2>1, <2>2
<1>3. Len(s) <= Len(s \o t)
  BY <1>1
<1>4. QED
  BY <1>2, <1>3 DEF IsPrefix

\* str.strip takes no word away.
LEMMA StripIs ==
  ASSUME NEW s \in Seq(Char)
  PROVE  /\ Strip(s) \in Seq(Char) /\ Words(Strip(s)) = Words(s)
         /\ ~Blank(s) => Strip(s) # <<>> /\ Strip(s)[1] # "nl"
<1>1. /\ RStrip(s) \in Seq(Char) /\ Words(RStrip(s)) = Words(s)
      /\ RStrip(s) = <<>> => Blank(s)
      /\ RStrip(s) # <<>> => RStrip(s)[Len(RStrip(s))] # "nl"
  BY RStripped
<1>2. PICK r : r = RStrip(s)
  OBVIOUS
<1>3. r \in Seq(Char)
  BY <1>1, <1>2
<1>4. /\ LStrip(r) \in Seq(Char) /\ Words(LStrip(r)) = Words(r)
      /\ LStrip(r) # <<>> => LStrip(r)[1] # "nl"
      /\ LStrip(r) = <<>> => Blank(r)
  BY <1>3, LStripped
<1>5. Blank(r) => r = <<>>
  <2>1. r # <<>> => Len(r) \in DOMAIN r
    BY <1>3, EmptySeq, LenProperties
  <2>2. QED
    BY <1>1, <1>2, <2>1 DEF Blank
<1>6. Strip(s) = LStrip(r)
  BY <1>2 DEF Strip
<1>7. QED
  BY <1>1, <1>2, <1>4, <1>5, <1>6

\* What a request shows of a text on Telegram is its beginning, and not nothing.
LEMMA PreviewIs ==
  ASSUME NEW s \in Seq(Char), ~Blank(s)
  PROVE  LET t == Truncate(s, Preview)
         IN  t \in Texts /\ Words(t) # <<>> /\ IsPrefix(Words(t), Words(s))
<1>1. Preview \in Nat /\ Preview > 1
  BY ChunksAssumption
<1>2. PICK u : u = Strip(s)
  OBVIOUS
<1> DEFINE n == Len(u)
<1>3. u \in Seq(Char) /\ u \in Texts /\ Words(u) = Words(s) /\ u # <<>> /\ u[1] # "nl"
  BY <1>2, StripIs, CharTexts
<1>4. n \in Nat /\ n > 0 /\ u[1] \in Char /\ \A i \in 1 .. n : u[i] \in Char
  BY <1>3, EmptySeq, LenProperties
<1>5. u[1] \notin {"nl", "more"}
  BY <1>3, <1>4 DEF Char
<1>6. ASSUME NEW k \in 1 .. n
      PROVE  LET v == SubSeq(u, 1, k) w == SubSeq(u, k + 1, n)
             IN  /\ v \in Seq(Char) /\ w \in Seq(Char)
                 /\ Words(u) = Words(v) \o Words(w) /\ Words(v) # <<>>
  <2> DEFINE v == SubSeq(u, 1, k)
             w == SubSeq(u, k + 1, n)
             x == SubSeq(v, 2, k)
  <2> HIDE DEF n
  <2>1. v \in Seq(Char) /\ Len(v) = k /\ \A i \in 1 .. k : v[i] = u[i]
    BY <1>4, SubSeqProperties
  <2>2. w \in Seq(Char)
    <3>1. \A i \in k + 1 .. n : u[i] \in Char
      BY <1>4
    <3>2. QED
      BY <1>4, <3>1, SubSeqProperties
  <2>3. v \o w = u
    <3>1. /\ 1 \in 1 .. n + 1 /\ k \in 1 - 1 .. n /\ n \in k .. n
      BY <1>4
    <3>2. SubSeq(u, 1, k) \o SubSeq(u, k + 1, n) = SubSeq(u, 1, n)
      BY <1>3, <3>1, ConcatAdjacentSubSeq DEF n
    <3>3. QED
      BY <1>3, <3>2, SubSeqFull DEF n
  <2> HIDE DEF v, w
  <2>4. Words(u) = Words(v) \o Words(w)
    BY <2>1, <2>2, <2>3, WordsConcat
  <2>5. Words(v) # <<>>
    <3>1. v = <<v[1]>> \o x /\ v[1] = u[1]
      <4>1. 1 \in 1 .. Len(v) /\ k \in 1 .. Len(v)
        BY <2>1
      <4>2. SubSeq(v, 1, k) = <<v[1]>> \o SubSeq(v, 1 + 1, k)
        BY <2>1, <4>1, SubSeqRecursiveFirst
      <4>3. SubSeq(v, 1, k) = v
        BY <2>1, SubSeqFull
      <4>4. QED
        BY <2>1, <4>2, <4>3
    <3>2. x \in Seq(Char) /\ <<v[1]>> \in Seq(Char)
      <4>1. \A i \in 2 .. k : v[i] \in Char
        BY <2>1, LenProperties
      <4>2. x \in Seq(Char)
        BY <4>1, SubSeqProperties
      <4>3. v[1] \in Char
        BY <1>4, <3>1
      <4>4. QED
        BY <4>2, <4>3
    <3> HIDE DEF x
    <3>3. Words(v) = Words(<<v[1]>>) \o Words(x) /\ Words(x) \in Seq(Char) /\ Words(<<v[1]>>) \in Seq(Char)
      BY <3>1, <3>2, WordsConcat
    <3>4. Words(<<v[1]>>) = <<u[1]>>
      BY <1>5, <3>1, WordsOfOne DEF WordsOf
    <3>5. <<u[1]>> # <<>>
      OBVIOUS
    <3>6. QED
      BY <3>3, <3>4, <3>5, ConcatEqualIffEmpty
  <2>6. QED
    BY <2>1, <2>2, <2>4, <2>5 DEF v, w
<1>7. CASE n <= Preview
  <2>1. Truncate(s, Preview) = u
    BY <1>2, <1>7 DEF Truncate
  <2>2. PICK k \in 1 .. n : k = n
    BY <1>4
  <2>3. SubSeq(u, 1, k) = u
    BY <1>3, <2>2, SubSeqFull
  <2>4. Words(u) # <<>> /\ Words(u) \in Seq(Char)
    BY <1>3, <1>6, <2>3, WordsConcat
  <2>5. IsPrefix(Words(u), Words(u) \o <<>>) /\ Words(u) \o <<>> = Words(u)
    BY <2>4, EmptySeq, PrefixOf, ConcatEmptySeq
  <2>6. QED
    BY <1>3, <2>1, <2>4, <2>5
<1>8. CASE ~(n <= Preview)
  <2> DEFINE k == Preview - 1
             v == SubSeq(u, 1, k)
             w == SubSeq(u, k + 1, n)
  <2>1. Truncate(s, Preview) = Append(v, "more")
    BY <1>2, <1>8 DEF Truncate
  <2>2. k \in 1 .. n
    BY <1>1, <1>4, <1>8
  <2> HIDE DEF k, n
  <2>3. v \in Seq(Char) /\ w \in Seq(Char) /\ Words(u) = Words(v) \o Words(w) /\ Words(v) # <<>>
    BY <1>6, <2>2
  <2> HIDE DEF v, w
  <2>4. v \in Texts /\ "more" \in Char \cup {"more"} /\ <<"more">> \in Texts
    BY <2>3, CharTexts DEF Texts
  <2>5. Append(v, "more") \in Texts /\ Append(v, "more") = v \o <<"more">>
    BY <2>4, AppendProperties, AppendIsConcat DEF Texts
  <2>6. Words(v \o <<"more">>) = Words(v) \o Words(<<"more">>) /\ Words(<<"more">>) = <<>>
    BY <2>4, WordsConcat, WordsOfOne DEF Texts, WordsOf
  <2>7. Words(v) \in Seq(Char) /\ Words(w) \in Seq(Char) /\ Words(v) \o <<>> = Words(v)
    BY <2>3, WordsConcat, ConcatEmptySeq
  <2>8. IsPrefix(Words(v), Words(v) \o Words(w))
    BY <2>7, PrefixOf
  <2>9. QED
    BY <1>3, <2>1, <2>3, <2>5, <2>6, <2>7, <2>8
<1>9. QED
  BY <1>7, <1>8

\* The words of the first n messages.
Sofar(out, n) == FlattenSeq([k \in 1 .. n |-> Words(out[k])])

\* Message by message, up to the last.
LEMMA SofarIs ==
  ASSUME NEW out \in Seq(Texts)
  PROVE  /\ Sofar(out, 0) = <<>>
         /\ \A n \in 1 .. Len(out) : Sofar(out, n) = Sofar(out, n - 1) \o Words(out[n])
         /\ Sofar(out, Len(out)) = Joined(out)
<1>1. PICK W : W = Char \cup {"more"}
  OBVIOUS
<1>2. out \in Seq(Seq(W)) /\ Len(out) \in Nat /\ DOMAIN out = 1 .. Len(out)
      /\ \A i \in 1 .. Len(out) : out[i] \in Seq(W)
  BY <1>1, LenProperties DEF Texts
<1>3. \A n \in 0 .. Len(out) :
        /\ SubSeq(out, 1, n) \in Seq(Seq(W)) /\ Len(SubSeq(out, 1, n)) = n
        /\ \A i \in 1 .. n : SubSeq(out, 1, n)[i] = out[i]
  <2> SUFFICES ASSUME NEW n \in 0 .. Len(out)
               PROVE  /\ SubSeq(out, 1, n) \in Seq(Seq(W)) /\ Len(SubSeq(out, 1, n)) = n
                      /\ \A i \in 1 .. n : SubSeq(out, 1, n)[i] = out[i]
    OBVIOUS
  <2>1. \A i \in 1 .. n : out[i] \in Seq(W)
    BY <1>2
  <2>2. QED
    BY <1>2, <2>1, SubSeqProperties
<1>4. \A n \in 0 .. Len(out) : Sofar(out, n) = Joined(SubSeq(out, 1, n))
  <2> SUFFICES ASSUME NEW n \in 0 .. Len(out) PROVE Sofar(out, n) = Joined(SubSeq(out, 1, n))
    OBVIOUS
  <2>1. DOMAIN SubSeq(out, 1, n) = 1 .. n
    BY <1>3, LenProperties
  <2>2. \A i \in 1 .. n : Words(SubSeq(out, 1, n)[i]) = Words(out[i])
    BY <1>3
  <2>3. QED
    BY <2>1, <2>2 DEF Sofar, Joined
<1>5. Sofar(out, 0) = <<>>
  <2>1. SubSeq(out, 1, 0) = <<>>
    BY <1>2, <1>3, EmptySeq
  <2>2. Joined(<<>>) = <<>>
    BY <1>2, JoinedIs
  <2>3. 0 \in 0 .. Len(out)
    BY <1>2
  <2>4. QED
    BY <1>4, <2>1, <2>2, <2>3
<1>6. ASSUME NEW n \in 1 .. Len(out)
      PROVE  Sofar(out, n) = Sofar(out, n - 1) \o Words(out[n])
  <2>1. n - 1 \in 0 .. Len(out) /\ n \in 0 .. Len(out) /\ n \in Nat /\ out[n] \in Seq(W)
    BY <1>2
  <2>2. SubSeq(out, 1, n) = SubSeq(out, 1, n - 1) \o <<out[n]>>
    <3>1. 1 \in 1 .. Len(out) /\ n \in 1 .. Len(out)
      BY <1>2
    <3>2. n \in 1 .. Len(out)
      OBVIOUS
    <3>3. QED
      BY <1>2, <3>1, <3>2, SubSeqRecursiveSecond
  <2>3. PICK u, v : u = SubSeq(out, 1, n - 1) /\ v = <<out[n]>>
    OBVIOUS
  <2>4. u \in Seq(Seq(W)) /\ v \in Seq(Seq(W))
    BY <1>3, <2>1, <2>3
  <2>5. Joined(u \o v) = Joined(u) \o Joined(v)
    BY <2>4, JoinedIs
  <2>6. Joined(v) = Words(out[n])
    BY <2>1, <2>3, <2>4, JoinedIs
  <2>7. QED
    BY <1>4, <2>1, <2>2, <2>3, <2>5, <2>6
<1>7. Sofar(out, Len(out)) = Joined(out)
  BY <1>2 DEF Sofar, Joined
<1>8. QED
  BY <1>5, <1>6, <1>7

(***************************************************************************)
(* Folds over a sequence, of a step that is given as a function.           *)
(***************************************************************************)

\* G is a step of a fold: a state and an element give a state.
Steps(G, A, V) == G \in [A \X V -> A]

\* The last of the first n + 1 numbers, and the others.
LEMMA MaxOfRange ==
  ASSUME NEW n \in Nat
  PROVE  Max(1 .. n + 1) = n + 1 /\ (1 .. n + 1) \ {n + 1} = 1 .. n
<1>1. n + 1 \in Nat /\ 1 .. n + 1 # {}
  OBVIOUS
<1>2. Max(1 .. n + 1) \in 1 .. n + 1 /\ \A i \in 1 .. n + 1 : i <= Max(1 .. n + 1)
  BY <1>1, MaxOf
<1>3. QED
  BY <1>2

\* The function that FoldLeft takes the last value of, on the sets of positions.
OnSets(f, G, A, a, s) ==
  /\ f \in [SUBSET (1 .. Len(s)) -> A]
  /\ \A S \in SUBSET (1 .. Len(s)) :
       f[S] = IF S = {} THEN a ELSE G[<<f[S \ {Max(S)}], s[Max(S)]>>]

\* The recursion over sets of positions that MapThenFoldSet is has a solution ...
LEMMA FoldedExists ==
  ASSUME NEW A, NEW V, NEW G, Steps(G, A, V), NEW a \in A, NEW s \in Seq(V)
  PROVE  \E f : OnSets(f, G, A, a, s)
<1> DEFINE n == Len(s)
           D == SUBSET (1 .. n)
           Stop == {{}}
           size == [S \in D |-> IF S = {} THEN 0 ELSE Max(S)]
           next == [S \in D \ Stop |-> S \ {Max(S)}]
           base == [S \in D |-> a]
           H == [x \in D \X A |-> IF x[1] = {} THEN a ELSE G[<<x[2], s[Max(x[1])]>>]]
<1>1. n \in Nat /\ \A i \in 1 .. n : s[i] \in V
  BY LenProperties
<1>2. \A S \in D \ Stop : Max(S) \in S /\ \A i \in S : i <= Max(S)
  BY <1>1, MaxOf
<1> HIDE DEF n
<1>3. size \in [D -> Nat] /\ next \in [D \ Stop -> D] /\ base \in [D -> A]
  <2>1. \A S \in D : S # {} => Max(S) \in Nat
    <3> SUFFICES ASSUME NEW S \in D, S # {} PROVE Max(S) \in Nat
      OBVIOUS
    <3>1. Max(S) \in S /\ S \subseteq 1 .. n
      BY <1>2
    <3>2. \A i \in 1 .. n : i \in Nat
      BY <1>1
    <3> QED
      BY <3>1, <3>2, Zenon
  <2>2. size \in [D -> Nat]
    <3>1. \A S \in D : (IF S = {} THEN 0 ELSE Max(S)) \in Nat
      BY <2>1
    <3>2. QED
      BY <3>1
  <2>3. next \in [D \ Stop -> D]
    OBVIOUS
  <2>4. base \in [D -> A]
    OBVIOUS
  <2>5. QED
    BY <2>2, <2>3, <2>4
<1>4. H \in [D \X A -> A]
  <2>1. ASSUME NEW x \in D \X A, x[1] # {}
        PROVE  G[<<x[2], s[Max(x[1])]>>] \in A
    <3>1. x[1] \in D \ Stop /\ x[2] \in A
      BY <2>1
    <3>2. s[Max(x[1])] \in V
      BY <1>1, <1>2, <3>1
    <3>3. QED
      BY <3>1, <3>2 DEF Steps
  <2>2. QED
    BY <2>1
<1>5. \A S \in D \ Stop : size[next[S]] < size[S]
  <2> SUFFICES ASSUME NEW S \in D \ Stop PROVE size[next[S]] < size[S]
    OBVIOUS
  <2> DEFINE T == S \ {Max(S)}
  <2>1. next[S] = T /\ T \in D /\ size[S] = Max(S) /\ Max(S) \in 1 .. n
    BY <1>2
  <2>2. CASE T = {}
    BY <1>1, <2>1, <2>2
  <2>3. CASE T # {}
    <3>1. Max(T) \in T
      BY <1>2, <2>1, <2>3
    <3>2. Max(T) \in S /\ Max(T) # Max(S) /\ Max(T) <= Max(S) /\ Max(T) \in 1 .. n
      BY <1>2, <2>1, <3>1
    <3>3. QED
      BY <1>1, <2>1, <2>3, <3>2
  <2>4. QED
    BY <2>2, <2>3
<1>6. \A S \in D \ Stop : next[S] = S \ {Max(S)} /\ next[S] \in D
  BY <1>3
<1>7. \A S \in D \ Stop : \A x \in A : H[<<S, x>>] = G[<<x, s[Max(S)]>>]
  OBVIOUS
<1>8. \A S \in D : base[S] = a
  OBVIOUS
<1> HIDE DEF size, next, base, H
<1>9. Shrinks(D, A, Stop, size, next, base, H)
  BY <1>3, <1>4, <1>5 DEF Shrinks
<1> HIDE DEF D, Stop
<1>10. PICK f \in [D -> A] : \A S \in D : f[S] = IF S \in Stop THEN base[S] ELSE H[<<S, f[next[S]]>>]
  BY <1>9, Recursion
<1> USE DEF D, Stop
<1>11. \A S \in D : f[S] = IF S = {} THEN a ELSE G[<<f[S \ {Max(S)}], s[Max(S)]>>]
  <2> SUFFICES ASSUME NEW S \in D
               PROVE  f[S] = IF S = {} THEN a ELSE G[<<f[S \ {Max(S)}], s[Max(S)]>>]
    OBVIOUS
  <2>1. CASE S = {}
    BY <1>8, <1>10, <2>1
  <2>2. CASE S # {}
    <3>1. S \in D \ Stop
      BY <2>2
    <3>2. f[next[S]] \in A
      BY <1>6, <3>1
    <3>3. f[S] = H[<<S, f[next[S]]>>]
      BY <1>10, <3>1
    <3>4. H[<<S, f[next[S]]>>] = G[<<f[next[S]], s[Max(S)]>>]
      BY <1>7, <3>1, <3>2
    <3>5. next[S] = S \ {Max(S)}
      BY <1>6, <3>1
    <3>6. QED
      BY <2>2, <3>3, <3>4, <3>5
  <2>3. QED
    BY <2>1, <2>2
<1>12. QED
  BY <1>10, <1>11 DEF n, OnSets

\* A fold by its values along the sequence.
Along(f, G, A, a, s) ==
  /\ f \in [0 .. Len(s) -> A] /\ f[0] = a
  /\ \A i \in 0 .. Len(s) - 1 : f[i + 1] = G[<<f[i], s[i + 1]>>]

\* ... and so has the one along the sequence.
LEMMA AlongExists ==
  ASSUME NEW A, NEW V, NEW G, Steps(G, A, V), NEW a \in A, NEW s \in Seq(V)
  PROVE  \E f : Along(f, G, A, a, s)
<1>1. PICK h : OnSets(h, G, A, a, s)
  BY FoldedExists
<1> DEFINE f == [i \in 0 .. Len(s) |-> h[1 .. i]]
<1>2. Len(s) \in Nat
  BY LenProperties
<1>3. \A i \in 0 .. Len(s) : 1 .. i \in SUBSET (1 .. Len(s))
  BY <1>2
<1>4. f \in [0 .. Len(s) -> A]
  BY <1>1, <1>3 DEF OnSets
<1>5. f[0] = a
  <2> 0 \in 0 .. Len(s)
    BY <1>2
  <2> 1 .. 0 = {}
    OBVIOUS
  <2>1. f[0] = h[1 .. 0] /\ h[1 .. 0] = h[{}]
    OBVIOUS
  <2>2. QED
    BY <1>1, <2>1 DEF OnSets
<1>6. ASSUME NEW i \in 0 .. Len(s) - 1
      PROVE  f[i + 1] = G[<<f[i], s[i + 1]>>]
  <2>1. i \in Nat /\ i \in 0 .. Len(s) /\ i + 1 \in 0 .. Len(s)
    BY <1>2
  <2> 1 .. i + 1 # {}
    BY <2>1
  <2>2. Max(1 .. i + 1) = i + 1 /\ (1 .. i + 1) \ {i + 1} = 1 .. i
    BY <2>1, MaxOfRange
  <2>3. h[1 .. i + 1] = G[<<h[1 .. i], s[i + 1]>>]
    BY <1>1, <1>3, <2>1, <2>2 DEF OnSets
  <2>4. QED
    BY <2>1, <2>3
<1>7. QED
  BY <1>4, <1>5, <1>6 DEF Along
\* The fold of s by G, from a: the end of the states along s.
Folded(G, A, a, s) == (CHOOSE f : Along(f, G, A, a, s))[Len(s)]

\* Any solution gives the fold.
LEMMA FoldedBy ==
  ASSUME NEW A, NEW V, NEW G, Steps(G, A, V), NEW a \in A, NEW s \in Seq(V),
         NEW f, Along(f, G, A, a, s)
  PROVE  Folded(G, A, a, s) = f[Len(s)] /\ Folded(G, A, a, s) \in A
<1> DEFINE g == CHOOSE g : Along(g, G, A, a, s)
           Q == {i \in Nat : i <= Len(s) => g[i] = f[i]}
<1>1. Len(s) \in Nat
  BY LenProperties
<1>2. Along(g, G, A, a, s)
  OBVIOUS
<1>3. Folded(G, A, a, s) = g[Len(s)]
  BY DEF Folded
<1> HIDE DEF g
<1>4. 0 \in Q
  BY <1>2 DEF Along
<1>5. ASSUME NEW i \in Nat, i \in Q
      PROVE  i + 1 \in Q
  <2> SUFFICES ASSUME i + 1 <= Len(s) PROVE g[i + 1] = f[i + 1]
    OBVIOUS
  <2>1. i \in 0 .. Len(s) - 1 /\ g[i] = f[i]
    BY <1>1, <1>5
  <2>2. QED
    BY <1>2, <2>1 DEF Along
<1> HIDE DEF Q
<1>6. Nat \subseteq Q
  BY <1>4, <1>5, Induction
<1>7. g[Len(s)] = f[Len(s)]
  BY <1>1, <1>6 DEF Q
<1>8. f[Len(s)] \in A
  <2>1. Len(s) \in 0 .. Len(s)
    BY <1>1
  <2>2. QED
    BY <2>1 DEF Along
<1>9. QED
  BY <1>3, <1>7, <1>8

\* What FoldLeft takes its last value of agrees with that.
LEMMA FoldedFrom ==
  ASSUME NEW A, NEW V, NEW G, Steps(G, A, V), NEW a \in A, NEW s \in Seq(V),
         NEW h, h[{}] = a,
         \A i \in 0 .. Len(s) - 1 : h[1 .. i] \in A => h[1 .. i + 1] = G[<<h[1 .. i], s[i + 1]>>]
  PROVE  h[1 .. Len(s)] = Folded(G, A, a, s)
<1>1. Len(s) \in Nat
  BY LenProperties
<1>2. PICK f : Along(f, G, A, a, s)
  BY AlongExists
<1> DEFINE Q == {i \in Nat : i <= Len(s) => h[1 .. i] = f[i]}
<1>3. 0 \in Q
  <2>1. 1 .. 0 = {}
    OBVIOUS
  <2>2. h[1 .. 0] = f[0]
    BY <1>2, <2>1 DEF Along
  <2>3. QED
    BY <2>2
<1>4. ASSUME NEW i \in Nat, i \in Q
      PROVE  i + 1 \in Q
  <2> SUFFICES ASSUME i + 1 <= Len(s) PROVE h[1 .. i + 1] = f[i + 1]
    OBVIOUS
  <2>1. i \in 0 .. Len(s) - 1 /\ i \in 0 .. Len(s) /\ h[1 .. i] = f[i]
    BY <1>1, <1>4
  <2>2. h[1 .. i] \in A
    BY <1>2, <2>1 DEF Along
  <2>3. QED
    BY <1>2, <2>1, <2>2 DEF Along
<1> HIDE DEF Q
<1>5. Nat \subseteq Q
  BY <1>3, <1>4, Induction
<1>6. h[1 .. Len(s)] = f[Len(s)]
  BY <1>1, <1>5 DEF Q
<1>7. QED
  BY <1>2, <1>6, FoldedBy

\* A fold stays where its steps do.
LEMMA FoldedIn ==
  ASSUME NEW A, NEW V, NEW G, Steps(G, A, V), NEW a \in A, NEW s \in Seq(V)
  PROVE  Folded(G, A, a, s) \in A
<1>1. PICK f : Along(f, G, A, a, s)
  BY AlongExists
<1>2. QED
  BY <1>1, FoldedBy

(***************************************************************************)
(* The three folds of Answers.                                             *)
(***************************************************************************)

\* The states of Spell, and its step as a function ...
Reads == [ok : BOOLEAN, escaped : BOOLEAN, text : Seq(Char)]
SpellStep == [x \in Reads \X Char |-> Spell(x[1], x[2])]

\* Reading a string ...
LEMMA SpellSteps == Steps(SpellStep, Reads, Char) /\ Unspelled \in Reads
<1>1. ASSUME NEW x \in Reads \X Char PROVE Spell(x[1], x[2]) \in Reads
  <2>1. PICK acc, ch : acc = x[1] /\ ch = x[2] /\ acc \in Reads /\ ch \in Char
    BY Zenon
  <2> "n" \in Char /\ "nl" \in Char
    BY DEF Char
  <2>2. Append(acc.text, ch) \in Seq(Char) /\ Append(acc.text, "nl") \in Seq(Char)
    BY <2>1 DEF Reads
  <2>3. QED
    BY <2>1, <2>2 DEF Spell, Reads
<1>2. QED
  BY <1>1 DEF Steps, SpellStep, Unspelled, Reads

\* ... those of Write ...
Writes == [at : [inside : BOOLEAN, escaped : BOOLEAN], out : Seq(Char)]
WriteStep == [x \in Writes \X Char |-> Write(x[1], x[2])]

\* ... sanitizing an answer ...
LEMMA WriteSteps == Steps(WriteStep, Writes, Char) /\ Unwritten \in Writes
<1>1. ASSUME NEW x \in Writes \X Char PROVE Write(x[1], x[2]) \in Writes
  <2>1. PICK acc, ch : acc = x[1] /\ ch = x[2] /\ acc \in Writes /\ ch \in Char
    BY Zenon
  <2>2. Track(acc.at, ch) \in [inside : BOOLEAN, escaped : BOOLEAN]
    BY <2>1 DEF Track, Writes
  <2>3. Append(acc.out, ch) \in Seq(Char)
    BY <2>1 DEF Writes
  <2>4. acc.out \o <<"slash", "n">> \in Seq(Char)
    <3>1. acc.out \in Seq(Char) /\ <<"slash", "n">> \in Seq(Char)
      BY <2>1 DEF Writes, Char
    <3>2. QED
      BY <3>1, ConcatProperties
  <2>5. QED
    BY <2>1, <2>2, <2>3, <2>4 DEF Write, Writes
<1>2. QED
  BY <1>1 DEF Steps, WriteStep, Unwritten, Outside, Writes

\* ... and those of Balance.
Balances == [at : Nat, depth : Int, inside : BOOLEAN, escaped : BOOLEAN, end : Nat]
BalanceStep == [x \in Balances \X Char |-> Balance(x[1], x[2])]

\* ... and counting braces, one character at a time.
LEMMA BalanceSteps == Steps(BalanceStep, Balances, Char) /\ Unbalanced \in Balances
<1>1. ASSUME NEW x \in Balances \X Char PROVE Balance(x[1], x[2]) \in Balances
  <2>1. PICK acc, ch : acc = x[1] /\ ch = x[2] /\ acc \in Balances /\ ch \in Char
    BY Zenon
  <2>2. acc.at + 1 \in Nat /\ acc.depth + 1 \in Int /\ acc.depth - 1 \in Int
    BY <2>1 DEF Balances
  <2>3. CASE acc.end # 0
    BY <2>1, <2>3 DEF Balance
  <2>4. CASE acc.end = 0
    BY <2>1, <2>2, <2>4 DEF Balance, Balances
  <2>5. QED
    BY <2>1, <2>3, <2>4 DEF Balances
<1>2. QED
  BY <1>1 DEF Steps, BalanceStep, Unbalanced, Balances

\* InString, Sanitize and BalancedEnd are FoldLeft of these steps.
LEMMA InStringFolds ==
  ASSUME NEW s \in Seq(Char)
  PROVE  InString(s) = Folded(SpellStep, Reads, Unspelled, s)
<1> DEFINE E(f, S) == IF S = {} THEN Unspelled ELSE Spell(f[S \ {Max(S)}], s[Max(S)])
           R(f) == f = [S \in SUBSET DOMAIN s |-> E(f, S)]
           h == CHOOSE f : R(f)
<1>1. InString(s) = h[DOMAIN s]
  BY Zenon DEF InString, FoldLeft, MapThenFoldSet
<1>2. Len(s) \in Nat /\ DOMAIN s = 1 .. Len(s) /\ \A i \in 1 .. Len(s) : s[i] \in Char
  BY LenProperties
<1>3. Steps(SpellStep, Reads, Char) /\ Unspelled \in Reads
  BY SpellSteps
<1>4. \A acc \in Reads, ch \in Char : SpellStep[<<acc, ch>>] = Spell(acc, ch)
  BY DEF SpellStep
<1>5. R(h)
  <2>1. PICK g : OnSets(g, SpellStep, Reads, Unspelled, s)
    BY <1>3, FoldedExists
  <2>2. \A S \in SUBSET (1 .. Len(s)) : g[S] = E(g, S)
    <3> SUFFICES ASSUME NEW S \in SUBSET (1 .. Len(s)), S # {}
                 PROVE  g[S] = Spell(g[S \ {Max(S)}], s[Max(S)])
      BY <2>1 DEF OnSets
    <3>1. Max(S) \in S /\ S \ {Max(S)} \in SUBSET (1 .. Len(s))
      BY <1>2, MaxOf
    <3>2. g[S \ {Max(S)}] \in Reads /\ s[Max(S)] \in Char
      BY <1>2, <2>1, <3>1 DEF OnSets
    <3>3. QED
      BY <1>4, <2>1, <3>2 DEF OnSets
  <2> HIDE DEF E
  <2>3. g = [S \in SUBSET (1 .. Len(s)) |-> E(g, S)]
    <3>1. g = [S \in SUBSET (1 .. Len(s)) |-> g[S]]
      BY <2>1 DEF OnSets
    <3>2. QED
      BY <2>2, <3>1
  <2>4. R(g)
    BY <1>2, <2>3
  <2> HIDE DEF R
  <2>5. QED
    BY <2>4
<1> HIDE DEF h
<1>6. \A S \in SUBSET (1 .. Len(s)) : h[S] = E(h, S)
  <2> HIDE DEF E
  <2>1. QED
    BY <1>2, <1>5
<1>7. h[{}] = Unspelled
  BY <1>6
<1>8. ASSUME NEW i \in 0 .. Len(s) - 1, h[1 .. i] \in Reads
      PROVE  h[1 .. i + 1] = SpellStep[<<h[1 .. i], s[i + 1]>>]
  <2>1. i \in Nat /\ 1 .. i + 1 \in SUBSET (1 .. Len(s)) /\ s[i + 1] \in Char
    BY <1>2
  <2> i + 1 \in 1 .. i + 1
    BY <2>1
  <2>2. Max(1 .. i + 1) = i + 1 /\ (1 .. i + 1) \ {i + 1} = 1 .. i
    BY <2>1, MaxOfRange
  <2>3. h[1 .. i + 1] = Spell(h[1 .. i], s[i + 1])
    BY <1>6, <2>1, <2>2
  <2>4. QED
    BY <1>4, <1>8, <2>1, <2>3
<1>9. h[1 .. Len(s)] = Folded(SpellStep, Reads, Unspelled, s)
  BY <1>3, <1>7, <1>8, FoldedFrom
<1>10. QED
  BY <1>1, <1>2, <1>9

\* _sanitize_json_control_chars, character by character.
LEMMA SanitizeFolds ==
  ASSUME NEW s \in Seq(Char)
  PROVE  Sanitize(s) = Folded(WriteStep, Writes, Unwritten, s).out
<1> DEFINE E(f, S) == IF S = {} THEN Unwritten ELSE Write(f[S \ {Max(S)}], s[Max(S)])
           R(f) == f = [S \in SUBSET DOMAIN s |-> E(f, S)]
           h == CHOOSE f : R(f)
<1>1. Sanitize(s) = h[DOMAIN s].out
  BY Zenon DEF Sanitize, FoldLeft, MapThenFoldSet
<1>2. Len(s) \in Nat /\ DOMAIN s = 1 .. Len(s) /\ \A i \in 1 .. Len(s) : s[i] \in Char
  BY LenProperties
<1>3. Steps(WriteStep, Writes, Char) /\ Unwritten \in Writes
  BY WriteSteps
<1>4. \A acc \in Writes, ch \in Char : WriteStep[<<acc, ch>>] = Write(acc, ch)
  BY DEF WriteStep
<1>5. R(h)
  <2>1. PICK g : OnSets(g, WriteStep, Writes, Unwritten, s)
    BY <1>3, FoldedExists
  <2>2. \A S \in SUBSET (1 .. Len(s)) : g[S] = E(g, S)
    <3> SUFFICES ASSUME NEW S \in SUBSET (1 .. Len(s)), S # {}
                 PROVE  g[S] = Write(g[S \ {Max(S)}], s[Max(S)])
      BY <2>1 DEF OnSets
    <3>1. Max(S) \in S /\ S \ {Max(S)} \in SUBSET (1 .. Len(s))
      BY <1>2, MaxOf
    <3>2. g[S \ {Max(S)}] \in Writes /\ s[Max(S)] \in Char
      BY <1>2, <2>1, <3>1 DEF OnSets
    <3>3. QED
      BY <1>4, <2>1, <3>2 DEF OnSets
  <2> HIDE DEF E
  <2>3. g = [S \in SUBSET (1 .. Len(s)) |-> E(g, S)]
    <3>1. g = [S \in SUBSET (1 .. Len(s)) |-> g[S]]
      BY <2>1 DEF OnSets
    <3>2. QED
      BY <2>2, <3>1
  <2>4. R(g)
    BY <1>2, <2>3
  <2> HIDE DEF R
  <2>5. QED
    BY <2>4
<1> HIDE DEF h
<1>6. \A S \in SUBSET (1 .. Len(s)) : h[S] = E(h, S)
  <2> HIDE DEF E
  <2>1. QED
    BY <1>2, <1>5
<1>7. h[{}] = Unwritten
  BY <1>6
<1>8. ASSUME NEW i \in 0 .. Len(s) - 1, h[1 .. i] \in Writes
      PROVE  h[1 .. i + 1] = WriteStep[<<h[1 .. i], s[i + 1]>>]
  <2>1. i \in Nat /\ 1 .. i + 1 \in SUBSET (1 .. Len(s)) /\ s[i + 1] \in Char
    BY <1>2
  <2> i + 1 \in 1 .. i + 1
    BY <2>1
  <2>2. Max(1 .. i + 1) = i + 1 /\ (1 .. i + 1) \ {i + 1} = 1 .. i
    BY <2>1, MaxOfRange
  <2>3. h[1 .. i + 1] = Write(h[1 .. i], s[i + 1])
    BY <1>6, <2>1, <2>2
  <2>4. QED
    BY <1>4, <1>8, <2>1, <2>3
<1>9. h[1 .. Len(s)] = Folded(WriteStep, Writes, Unwritten, s)
  BY <1>3, <1>7, <1>8, FoldedFrom
<1>10. QED
  BY <1>1, <1>2, <1>9

\* The search for the brace that closes the object, character by character.
LEMMA BalancedEndFolds ==
  ASSUME NEW s \in Seq(Char)
  PROVE  BalancedEnd(s) = Folded(BalanceStep, Balances, Unbalanced, s).end
<1> DEFINE E(f, S) == IF S = {} THEN Unbalanced ELSE Balance(f[S \ {Max(S)}], s[Max(S)])
           R(f) == f = [S \in SUBSET DOMAIN s |-> E(f, S)]
           h == CHOOSE f : R(f)
<1>1. BalancedEnd(s) = h[DOMAIN s].end
  BY Zenon DEF BalancedEnd, FoldLeft, MapThenFoldSet
<1>2. Len(s) \in Nat /\ DOMAIN s = 1 .. Len(s) /\ \A i \in 1 .. Len(s) : s[i] \in Char
  BY LenProperties
<1>3. Steps(BalanceStep, Balances, Char) /\ Unbalanced \in Balances
  BY BalanceSteps
<1>4. \A acc \in Balances, ch \in Char : BalanceStep[<<acc, ch>>] = Balance(acc, ch)
  BY DEF BalanceStep
<1>5. R(h)
  <2>1. PICK g : OnSets(g, BalanceStep, Balances, Unbalanced, s)
    BY <1>3, FoldedExists
  <2>2. \A S \in SUBSET (1 .. Len(s)) : g[S] = E(g, S)
    <3> SUFFICES ASSUME NEW S \in SUBSET (1 .. Len(s)), S # {}
                 PROVE  g[S] = Balance(g[S \ {Max(S)}], s[Max(S)])
      BY <2>1 DEF OnSets
    <3>1. Max(S) \in S /\ S \ {Max(S)} \in SUBSET (1 .. Len(s))
      BY <1>2, MaxOf
    <3>2. g[S \ {Max(S)}] \in Balances /\ s[Max(S)] \in Char
      BY <1>2, <2>1, <3>1 DEF OnSets
    <3>3. QED
      BY <1>4, <2>1, <3>2 DEF OnSets
  <2> HIDE DEF E
  <2>3. g = [S \in SUBSET (1 .. Len(s)) |-> E(g, S)]
    <3>1. g = [S \in SUBSET (1 .. Len(s)) |-> g[S]]
      BY <2>1 DEF OnSets
    <3>2. QED
      BY <2>2, <3>1
  <2>4. R(g)
    BY <1>2, <2>3
  <2> HIDE DEF R
  <2>5. QED
    BY <2>4
<1> HIDE DEF h
<1>6. \A S \in SUBSET (1 .. Len(s)) : h[S] = E(h, S)
  <2> HIDE DEF E
  <2>1. QED
    BY <1>2, <1>5
<1>7. h[{}] = Unbalanced
  BY <1>6
<1>8. ASSUME NEW i \in 0 .. Len(s) - 1, h[1 .. i] \in Balances
      PROVE  h[1 .. i + 1] = BalanceStep[<<h[1 .. i], s[i + 1]>>]
  <2>1. i \in Nat /\ 1 .. i + 1 \in SUBSET (1 .. Len(s)) /\ s[i + 1] \in Char
    BY <1>2
  <2> i + 1 \in 1 .. i + 1
    BY <2>1
  <2>2. Max(1 .. i + 1) = i + 1 /\ (1 .. i + 1) \ {i + 1} = 1 .. i
    BY <2>1, MaxOfRange
  <2>3. h[1 .. i + 1] = Balance(h[1 .. i], s[i + 1])
    BY <1>6, <2>1, <2>2
  <2>4. QED
    BY <1>4, <1>8, <2>1, <2>3
<1>9. h[1 .. Len(s)] = Folded(BalanceStep, Balances, Unbalanced, s)
  BY <1>3, <1>7, <1>8, FoldedFrom
<1>10. QED
  BY <1>1, <1>2, <1>9

(***************************************************************************)
(* What is read from an answer is text.                                    *)
(***************************************************************************)

\* A part of a sequence is a sequence.
LEMMA CutOut ==
  ASSUME NEW V, NEW s \in Seq(V), NEW i \in Nat \ {0}, NEW j \in Int, j <= Len(s)
  PROVE  SubSeq(s, i, j) \in Seq(V)
<1>1. CASE i <= j
  BY <1>1, SubSeqProperties, LenProperties
<1>2. CASE ~ i <= j
  BY <1>2, SubSeqProperties, LenProperties
<1>3. QED
  BY <1>1, <1>2

\* A string is read as text.
LEMMA InStringIs ==
  ASSUME NEW s \in Seq(Char)
  PROVE  InString(s) \in Reads
<1>1. Folded(SpellStep, Reads, Unspelled, s) \in Reads
  BY SpellSteps, FoldedIn
<1>2. QED
  BY <1>1, InStringFolds

\* A sanitized answer is text.
LEMMA SanitizeIs ==
  ASSUME NEW s \in Seq(Char)
  PROVE  Sanitize(s) \in Seq(Char)
<1>1. Folded(WriteStep, Writes, Unwritten, s) \in Writes
  BY WriteSteps, FoldedIn
<1>2. QED
  BY <1>1, SanitizeFolds DEF Writes

\* What is between quotes is text.
LEMMA UnquotedIs ==
  ASSUME NEW s \in Seq(Char), Quoted(s)
  PROVE  Unquoted(s) \in Seq(Char)
<1>1. SubSeq(s, 2, Len(s) - 1) \in Seq(Char)
  BY CutOut, LenProperties
<1>2. QED
  BY <1>1, InStringIs DEF Unquoted, Reads

\* The texto of what loads is text.
LEMMA LoadsIs ==
  ASSUME NEW s \in Seq(Char)
  PROVE  Loads(s).texto \in Seq(Char)
<1> DEFINE text == Strip(s)
           inner == Strip(SubSeq(text, 2, Len(text) - 1))
<1>1. text \in Seq(Char)
  BY StripIs
<1>2. SubSeq(text, 2, Len(text) - 1) \in Seq(Char)
  BY <1>1, CutOut, LenProperties
<1>3. inner \in Seq(Char)
  BY <1>2, StripIs
<1> HIDE DEF text, inner
<1>4. Quoted(inner) => Unquoted(inner) \in Seq(Char)
  BY <1>3, UnquotedIs
<1>5. <<>> \in Seq(Char)
  OBVIOUS
<1>6. \/ Loads(s) = Other \/ Loads(s) = Empty \/ Loads(s) = NoJson
      \/ Quoted(inner) /\ Loads(s) = Object(Unquoted(inner))
  <2>1. Loads(s) = IF Quoted(text) THEN Other
                   ELSE IF Braced(text) /\ inner = <<>> THEN Empty
                   ELSE IF Braced(text) /\ Quoted(inner) THEN Object(Unquoted(inner))
                   ELSE NoJson
    BY Zenon DEF Loads, text, inner
  <2>2. CASE Quoted(text)
    BY <2>1, <2>2, Zenon
  <2>3. CASE ~Quoted(text) /\ Braced(text) /\ inner = <<>>
    BY <2>1, <2>3, Zenon
  <2>4. CASE ~Quoted(text) /\ ~(Braced(text) /\ inner = <<>>) /\ Braced(text) /\ Quoted(inner)
    <3>1. Loads(s) = Object(Unquoted(inner))
      BY <2>1, <2>4, Zenon
    <3>2. QED
      BY <2>4, <3>1
  <2>5. CASE ~Quoted(text) /\ ~(Braced(text) /\ inner = <<>>) /\ ~(Braced(text) /\ Quoted(inner))
    BY <2>1, <2>5, Zenon
  <2>6. QED
    BY <2>2, <2>3, <2>4, <2>5, Zenon
<1>7. QED
  <2>1. Other.texto = <<>> /\ Empty.texto = <<>> /\ NoJson.texto = <<>>
    BY DEF Other, Empty, NoJson
  <2>2. Quoted(inner) => Object(Unquoted(inner)).texto \in Seq(Char)
    <3>1. Object(Unquoted(inner)).texto = Unquoted(inner)
      BY DEF Object
    <3>2. QED
      BY <1>4, <3>1, Zenon
  <2>3. QED
    BY <1>5, <1>6, <2>1, <2>2, Zenon

\* What is in a fence is text.
LEMMA UnfenceIs ==
  ASSUME NEW s \in Seq(Char)
  PROVE  Unfence(s) \in Seq(Char)
<1> DEFINE breaks == LineBreaks(s)
           body == IF breaks = {} THEN s ELSE SubSeq(s, Min(breaks) + 1, Len(s))
           last == IF LineBreaks(body) = {} THEN 1 ELSE Max(LineBreaks(body)) + 1
<1>1. \A t \in Seq(Char) : LineBreaks(t) \subseteq 1 .. Len(t) /\ Len(t) \in Nat
  BY LenProperties DEF LineBreaks
<1>2. breaks # {} => Min(breaks) \in 1 .. Len(s)
  BY <1>1, MinOf
<1>3. body \in Seq(Char)
  <2>1. CASE breaks = {}
    BY <2>1
  <2>2. CASE breaks # {}
    BY <1>1, <1>2, <2>2, CutOut
  <2>3. QED
    BY <2>1, <2>2
<1>4. LineBreaks(body) # {} => Max(LineBreaks(body)) \in 1 .. Len(body)
  <2> HIDE DEF body
  <2>1. QED
    BY <1>1, <1>3, MaxOf
<1>5. last \in Nat \ {0}
  <2> HIDE DEF body
  <2>1. QED
    BY <1>1, <1>3, <1>4
<1> HIDE DEF body
<1>6. last <= Len(body) => SubSeq(body, 1, last - 1) \in Seq(Char)
  <2> HIDE DEF last
  <2>1. QED
    BY <1>1, <1>3, <1>5, CutOut
<1> HIDE DEF last
<1> DEFINE kept == IF last <= Len(body) /\ body[last] = "fence"
                   THEN SubSeq(body, 1, last - 1) ELSE body
<1>8. kept \in Seq(Char)
  BY <1>3, <1>6
<1>9. Unfence(s) = s \/ Unfence(s) = Strip(kept)
  BY DEF Unfence, kept, last, body, breaks
<1>10. QED
  BY <1>8, <1>9, StripIs

\* The end of the braces is a position of the text, or 0.
LEMMA BalancedEndIs ==
  ASSUME NEW s \in Seq(Char)
  PROVE  BalancedEnd(s) \in 0 .. Len(s)
<1>1. PICK f : Along(f, BalanceStep, Balances, Unbalanced, s)
  BY BalanceSteps, AlongExists
<1>2. BalancedEnd(s) = f[Len(s)].end
  BY <1>1, BalanceSteps, FoldedBy, BalancedEndFolds
<1>3. Len(s) \in Nat /\ \A i \in 1 .. Len(s) : s[i] \in Char
  BY LenProperties
<1> DEFINE P == {i \in Nat : i <= Len(s) =>
                   f[i] \in Balances /\ f[i].at <= i /\ f[i].end <= f[i].at}
<1>4. 0 \in P
  BY <1>1, BalanceSteps DEF Along, Unbalanced
<1>5. ASSUME NEW i \in Nat, i \in P
      PROVE  i + 1 \in P
  <2> SUFFICES ASSUME i + 1 <= Len(s)
               PROVE  f[i + 1] \in Balances /\ f[i + 1].at <= i + 1 /\ f[i + 1].end <= f[i + 1].at
    OBVIOUS
  <2>1. f[i] \in Balances /\ f[i].at <= i /\ f[i].end <= f[i].at
    BY <1>3, <1>5
  <2>2. i \in 0 .. Len(s) - 1 /\ s[i + 1] \in Char
    BY <1>3
  <2>3. f[i + 1] = Balance(f[i], s[i + 1])
    BY <1>1, <2>1, <2>2 DEF Along, BalanceStep
  <2>4. f[i + 1] \in Balances
    <3>1. f[i + 1] = BalanceStep[<<f[i], s[i + 1]>>] /\ <<f[i], s[i + 1]>> \in Balances \X Char
      BY <1>1, <2>1, <2>2 DEF Along
    <3>2. QED
      BY <3>1, BalanceSteps DEF Steps
  <2>5. \/ f[i + 1] = f[i]
        \/ f[i].end = 0 /\ f[i + 1].at = f[i].at + 1 /\ f[i + 1].end \in {0, f[i].at + 1}
    BY <2>1, <2>3 DEF Balance, Balances
  <2>6. f[i].at \in Nat /\ f[i].end \in Nat
    BY <2>1 DEF Balances
  <2>7. QED
    BY <2>1, <2>4, <2>5, <2>6
<1> HIDE DEF P
<1>6. Nat \subseteq P
  BY <1>4, <1>5, Induction
<1>7. QED
  BY <1>2, <1>3, <1>6 DEF P, Balances

\* From brace to brace there is text.
LEMMA BracesIs ==
  ASSUME NEW s \in Seq(Char), NEW k \in DOMAIN s, s[k] = "open"
  PROVE  Braces(s) \in Seq(Char)
<1> DEFINE I == {i \in DOMAIN s : s[i] = "open"}
           from == SubSeq(s, Min(I), Len(s))
<1>1. Len(s) \in Nat /\ DOMAIN s = 1 .. Len(s)
  BY LenProperties
<1>2. Min(I) \in 1 .. Len(s)
  BY <1>1, MinOf
<1> HIDE DEF I
<1>3. from \in Seq(Char) /\ Len(from) \in Nat
  BY <1>1, <1>2, CutOut, LenProperties
<1> HIDE DEF from
<1>4. BalancedEnd(from) \in 0 .. Len(from)
  BY <1>3, BalancedEndIs
<1> DEFINE j == IF BalancedEnd(from) = 0 THEN Len(from) - 1 ELSE BalancedEnd(from)
<1>5. j \in Int /\ j <= Len(from)
  BY <1>3, <1>4
<1>6. Braces(s) = SubSeq(from, 1, j)
  BY DEF Braces, from, I
<1> HIDE DEF j
<1>7. QED
  BY <1>3, <1>5, <1>6, CutOut

\* The texto of what is extracted is text.
LEMMA ExtractIs ==
  ASSUME NEW s \in Seq(Char), NEW value \in Extract(s)
  PROVE  value.texto \in Seq(Char)
<1> DEFINE text == Unfence(Strip(Sanitize(s)))
<1>1. Sanitize(s) \in Seq(Char)
  BY SanitizeIs
<1>2. text \in Seq(Char)
  BY <1>1, StripIs, UnfenceIs
<1> HIDE DEF text
<1>3. Loads(text).texto \in Seq(Char)
  BY <1>2, LoadsIs
<1>4. (\E i \in DOMAIN text : text[i] = "open") => Loads(Braces(text)).texto \in Seq(Char)
  BY <1>2, BracesIs, LoadsIs
<1>5. NoJson.texto \in Seq(Char) /\ \A t \in Repaired : Object(t).texto \in Seq(Char)
  BY AnswersAssumption DEF NoJson, Object
<1>6. \/ value = Loads(text)
      \/ value = NoJson
      \/ (\E i \in DOMAIN text : text[i] = "open") /\ value = Loads(Braces(text))
      \/ \E t \in Repaired : value = Object(t)
  BY DEF Extract, Repair, text
<1>7. QED
  BY <1>3, <1>4, <1>5, <1>6

(***************************************************************************)
(* Folds of one sequence after another.                                    *)
(***************************************************************************)

\* Nothing to fold.
LEMMA FoldedNone ==
  ASSUME NEW A, NEW V, NEW G, Steps(G, A, V), NEW a \in A
  PROVE  Folded(G, A, a, <<>>) = a
<1>1. PICK s : s = <<>>
  OBVIOUS
<1>2. s \in Seq(V)
  BY <1>1, EmptySeq
<1>3. PICK f : Along(f, G, A, a, s)
  BY <1>2, AlongExists
<1>4. Folded(G, A, a, s) = f[Len(s)]
  BY <1>2, <1>3, FoldedBy
<1>5. Len(s) = 0
  BY <1>1
<1>6. QED
  BY <1>1, <1>3, <1>4, <1>5 DEF Along

\* One more element is one more step.
LEMMA FoldedAppend ==
  ASSUME NEW A, NEW V, NEW G, Steps(G, A, V), NEW a \in A, NEW s \in Seq(V), NEW e \in V
  PROVE  Folded(G, A, a, Append(s, e)) = G[<<Folded(G, A, a, s), e>>]
<1>1. PICK t : t = Append(s, e)
  OBVIOUS
<1>2. /\ t \in Seq(V) /\ Len(t) = Len(s) + 1 /\ Len(s) \in Nat /\ t[Len(s) + 1] = e
      /\ \A i \in 1 .. Len(s) : t[i] = s[i]
  BY <1>1, AppendProperties, LenProperties
<1>3. PICK f : Along(f, G, A, a, t)
  BY <1>2, AlongExists
<1> DEFINE g == [i \in 0 .. Len(s) |-> f[i]]
<1>4. Along(g, G, A, a, s)
  <2>1. g \in [0 .. Len(s) -> A]
    BY <1>2, <1>3 DEF Along
  <2>2. g[0] = a
    BY <1>2, <1>3 DEF Along
  <2>3. ASSUME NEW i \in 0 .. Len(s) - 1
        PROVE  g[i + 1] = G[<<g[i], s[i + 1]>>]
    <3>1. i \in 0 .. Len(t) - 1 /\ i \in 0 .. Len(s) /\ i + 1 \in 0 .. Len(s) /\ i + 1 \in 1 .. Len(s)
      BY <1>2
    <3>2. f[i + 1] = G[<<f[i], t[i + 1]>>]
      BY <1>3, <3>1 DEF Along
    <3>3. QED
      BY <1>2, <3>1, <3>2
  <2>4. QED
    BY <2>1, <2>2, <2>3 DEF Along
<1>5. Folded(G, A, a, s) = f[Len(s)]
  <2>1. g[Len(s)] = f[Len(s)]
    BY <1>2
  <2> HIDE DEF g
  <2>2. QED
    BY <1>4, <2>1, FoldedBy
<1>6. Folded(G, A, a, t) = f[Len(s) + 1]
  BY <1>2, <1>3, FoldedBy
<1>7. f[Len(s) + 1] = G[<<f[Len(s)], t[Len(s) + 1]>>]
  <2>1. Len(s) \in 0 .. Len(t) - 1
    BY <1>2
  <2>2. QED
    BY <1>3, <2>1 DEF Along
<1>8. QED
  BY <1>1, <1>2, <1>5, <1>6, <1>7

\* A fold over two parts starts the second from where the first ended.
LEMMA FoldedConcat ==
  ASSUME NEW A, NEW V, NEW G, Steps(G, A, V), NEW a \in A, NEW s \in Seq(V), NEW t \in Seq(V)
  PROVE  Folded(G, A, a, s \o t) = Folded(G, A, Folded(G, A, a, s), t)
<1>1. PICK b : b = Folded(G, A, a, s)
  OBVIOUS
<1>2. b \in A
  BY <1>1, FoldedIn
<1> DEFINE P == {u \in Seq(V) : Folded(G, A, a, s \o u) = Folded(G, A, b, u)}
<1>3. <<>> \in P
  <2>1. s \o <<>> = s
    BY ConcatEmptySeq
  <2>2. Folded(G, A, b, <<>>) = b
    BY <1>2, FoldedNone
  <2>3. QED
    BY <1>1, <2>1, <2>2, EmptySeq
<1>4. ASSUME NEW u \in Seq(V), NEW e \in V, u \in P
      PROVE  Append(u, e) \in P
  <2>1. PICK v : v = s \o u
    OBVIOUS
  <2>2. v \in Seq(V) /\ Append(u, e) \in Seq(V)
    BY <2>1, ConcatProperties, AppendProperties
  <2>3. s \o Append(u, e) = Append(v, e)
    <3>1. Append(u, e) = u \o <<e>> /\ Append(v, e) = v \o <<e>>
      BY <2>2, AppendIsConcat
    <3>2. <<e>> \in Seq(V)
      OBVIOUS
    <3>3. QED
      BY <2>1, <3>1, <3>2, ConcatAssociative
  <2>4. Folded(G, A, a, Append(v, e)) = G[<<Folded(G, A, a, v), e>>]
    BY <2>2, FoldedAppend
  <2>5. Folded(G, A, b, Append(u, e)) = G[<<Folded(G, A, b, u), e>>]
    BY <1>2, FoldedAppend
  <2>6. QED
    BY <1>4, <2>1, <2>2, <2>3, <2>4, <2>5
<1> HIDE DEF P
<1>5. Seq(V) \subseteq P
  BY <1>3, <1>4, SeqInduction
<1>6. QED
  BY <1>1, <1>5 DEF P

\* One element, one step.
LEMMA FoldedOne ==
  ASSUME NEW A, NEW V, NEW G, Steps(G, A, V), NEW a \in A, NEW e \in V
  PROVE  Folded(G, A, a, <<e>>) = G[<<a, e>>]
<1>1. PICK s : s = <<>>
  OBVIOUS
<1>2. s \in Seq(V)
  BY <1>1, EmptySeq
<1>3. Folded(G, A, a, Append(s, e)) = G[<<Folded(G, A, a, s), e>>]
  BY <1>2, FoldedAppend
<1>4. Folded(G, A, a, s) = a
  BY <1>1, FoldedNone
<1>5. Append(s, e) = <<e>>
  BY <1>1
<1>6. QED
  BY <1>3, <1>4, <1>5

(***************************************************************************)
(* Parts of sequences that are put together.                               *)
(***************************************************************************)

\* What is cut off in front is cut off the first part.
LEMMA CutLeft ==
  ASSUME NEW V, NEW s \in Seq(V), NEW t \in Seq(V), NEW k \in 1 .. Len(s) + 1
  PROVE  /\ SubSeq(s \o t, k, Len(s \o t)) = SubSeq(s, k, Len(s)) \o t
         /\ SubSeq(s, k, Len(s)) \in Seq(V)
         /\ Len(SubSeq(s, k, Len(s))) = Len(s) + 1 - k
         /\ \A i \in 1 .. Len(s) + 1 - k : SubSeq(s, k, Len(s))[i] = s[k + i - 1]
<1> DEFINE m == Len(s)
           n == Len(t)
           u == s \o t
           v == SubSeq(s, k, m)
           x == SubSeq(u, k, m + n)
           y == v \o t
<1>1. /\ m \in Nat /\ n \in Nat /\ u \in Seq(V) /\ Len(u) = m + n
      /\ \A i \in 1 .. m : u[i] = s[i] /\ s[i] \in V
      /\ \A i \in 1 .. n : u[m + i] = t[i]
  <2>1. /\ u \in Seq(V) /\ Len(u) = m + n /\ m \in Nat /\ n \in Nat
        /\ \A i \in 1 .. m : s[i] \in V
    BY ConcatProperties, LenProperties
  <2>2. \A i \in 1 .. m + n : u[i] = IF i <= m THEN s[i] ELSE t[i - m]
    BY ConcatProperties
  <2> HIDE DEF u, m, n
  <2>3. QED
    BY <2>1, <2>2
<1> HIDE DEF u, m, n
<1>2. k \in Nat /\ k >= 1 /\ k <= m + 1
  BY <1>1 DEF m
<1>3. /\ v \in Seq(V) /\ Len(v) = m + 1 - k /\ \A i \in 1 .. m + 1 - k : v[i] = s[k + i - 1]
  <2>1. \A i \in k .. m : s[i] \in V
    BY <1>1, <1>2
  <2>2. /\ SubSeq(s, k, m) \in Seq(V)
        /\ Len(SubSeq(s, k, m)) = IF k <= m THEN m - k + 1 ELSE 0
        /\ \A i \in 1 .. m - k + 1 : SubSeq(s, k, m)[i] = s[k + i - 1]
    BY <1>1, <1>2, <2>1, SubSeqProperties
  <2> HIDE DEF v
  <2>3. QED
    BY <1>1, <1>2, <2>2 DEF v
<1>4. /\ x \in Seq(V) /\ Len(x) = m + n + 1 - k /\ \A i \in 1 .. m + n + 1 - k : x[i] = u[k + i - 1]
  <2>1. \A i \in k .. m + n : u[i] \in V
    BY <1>1, <1>2, LenProperties
  <2>2. /\ SubSeq(u, k, m + n) \in Seq(V)
        /\ Len(SubSeq(u, k, m + n)) = IF k <= m + n THEN m + n - k + 1 ELSE 0
        /\ \A i \in 1 .. m + n - k + 1 : SubSeq(u, k, m + n)[i] = u[k + i - 1]
    BY <1>1, <1>2, <2>1, SubSeqProperties
  <2> HIDE DEF x
  <2>3. QED
    BY <1>1, <1>2, <2>2 DEF x
<1> HIDE DEF v, x
<1>5. /\ y \in Seq(V) /\ Len(y) = m + 1 - k + n
      /\ \A i \in 1 .. m + 1 - k + n : y[i] = IF i <= m + 1 - k THEN v[i] ELSE t[i - (m + 1 - k)]
  BY <1>3, ConcatProperties DEF n
<1> HIDE DEF y
<1>6. ASSUME NEW i \in 1 .. Len(x) PROVE x[i] = y[i]
  <2>1. CASE i <= m + 1 - k
    <3>1. k + i - 1 \in 1 .. m /\ i \in 1 .. m + 1 - k
      BY <1>1, <1>2, <1>4, <2>1
    <3>2. QED
      BY <1>1, <1>2, <1>3, <1>4, <1>5, <2>1, <3>1
  <2>2. CASE i > m + 1 - k
    <3>1. i - (m + 1 - k) \in 1 .. n /\ k + i - 1 = m + (i - (m + 1 - k))
      BY <1>1, <1>2, <1>4, <2>2
    <3>2. u[k + i - 1] = t[i - (m + 1 - k)]
      BY <1>1, <3>1
    <3>3. QED
      BY <1>1, <1>2, <1>4, <1>5, <2>2, <3>2
  <2>3. QED
    BY <1>1, <1>2, <1>4, <2>1, <2>2
<1>7. Len(x) = Len(y)
  BY <1>1, <1>2, <1>4, <1>5
<1>8. x = y
  BY <1>4, <1>5, <1>6, <1>7, SeqEqual
<1>9. QED
  BY <1>1, <1>3, <1>8 DEF m, n, u, v, x, y

\* What is cut off behind is cut off the second part.
LEMMA CutRight ==
  ASSUME NEW V, NEW s \in Seq(V), NEW t \in Seq(V), NEW j \in 0 .. Len(t)
  PROVE  /\ SubSeq(s \o t, 1, Len(s) + j) = s \o SubSeq(t, 1, j)
         /\ SubSeq(t, 1, j) \in Seq(V)
<1> DEFINE m == Len(s)
           n == Len(t)
           u == s \o t
           v == SubSeq(t, 1, j)
           x == SubSeq(u, 1, m + j)
           y == s \o v
<1>1. /\ m \in Nat /\ n \in Nat /\ u \in Seq(V) /\ Len(u) = m + n
      /\ \A i \in 1 .. m : u[i] = s[i]
      /\ \A i \in 1 .. n : u[m + i] = t[i] /\ t[i] \in V
  <2>1. /\ u \in Seq(V) /\ Len(u) = m + n /\ m \in Nat /\ n \in Nat
        /\ \A i \in 1 .. n : t[i] \in V
    BY ConcatProperties, LenProperties
  <2>2. \A i \in 1 .. m + n : u[i] = IF i <= m THEN s[i] ELSE t[i - m]
    BY ConcatProperties
  <2> HIDE DEF u, m, n
  <2>3. QED
    BY <2>1, <2>2
<1> HIDE DEF u, m, n
<1>2. j \in Nat /\ j <= n
  BY <1>1 DEF n
<1>3. v \in Seq(V) /\ Len(v) = j /\ \A i \in 1 .. j : v[i] = t[i]
  <2>1. \A i \in 1 .. j : t[i] \in V
    BY <1>1, <1>2
  <2>2. QED
    BY <1>2, <2>1, SubSeqProperties
<1>4. x \in Seq(V) /\ Len(x) = m + j /\ \A i \in 1 .. m + j : x[i] = u[i]
  <2>1. \A i \in 1 .. m + j : u[i] \in V
    BY <1>1, <1>2, LenProperties
  <2>2. QED
    BY <1>1, <1>2, <2>1, SubSeqProperties
<1> HIDE DEF v, x
<1>5. /\ y \in Seq(V) /\ Len(y) = m + j
      /\ \A i \in 1 .. m + j : y[i] = IF i <= m THEN s[i] ELSE v[i - m]
  BY <1>3, ConcatProperties DEF m
<1> HIDE DEF y
<1>6. ASSUME NEW i \in 1 .. Len(x) PROVE x[i] = y[i]
  <2>1. CASE i <= m
    BY <1>1, <1>4, <1>5, <2>1
  <2>2. CASE i > m
    <3>1. i - m \in 1 .. j /\ i - m \in 1 .. n /\ m + (i - m) = i
      BY <1>1, <1>2, <1>4, <2>2
    <3>2. u[i] = t[i - m] /\ v[i - m] = t[i - m]
      BY <1>1, <1>3, <3>1
    <3>3. QED
      BY <1>1, <1>2, <1>4, <1>5, <2>2, <3>2
  <2>3. QED
    BY <1>1, <1>4, <2>1, <2>2
<1>7. Len(x) = Len(y)
  BY <1>4, <1>5
<1>8. x = y
  BY <1>4, <1>5, <1>6, <1>7, SeqEqual
<1>9. QED
  BY <1>3, <1>8 DEF m, u, v, x, y

\* Taking off what was put around.
LEMMA CutMiddle ==
  ASSUME NEW V, NEW s \in Seq(V), NEW a \in V, NEW b \in V
  PROVE  LET t == (<<a>> \o s) \o <<b>>
         IN  t \in Seq(V) /\ Len(t) = Len(s) + 2 /\ t[1] = a /\ t[Len(t)] = b
             /\ SubSeq(t, 2, Len(t) - 1) = s
             /\ \A i \in 1 .. Len(s) : t[i + 1] = s[i]
<1> DEFINE t == (<<a>> \o s) \o <<b>>
           u == <<a>> \o s
           v == <<b>>
           n == Len(s)
<1>1. n \in Nat /\ \A i \in 1 .. n : s[i] \in V
  BY LenProperties
<1>2. /\ u \in Seq(V) /\ Len(u) = n + 1 /\ u[1] = a /\ \A i \in 1 .. n : u[i + 1] = s[i]
  <2>1. <<a>> \in Seq(V) /\ Len(<<a>>) = 1 /\ <<a>>[1] = a
    OBVIOUS
  <2>2. /\ u \in Seq(V) /\ Len(u) = 1 + n
        /\ \A i \in 1 .. 1 + n : u[i] = IF i <= 1 THEN <<a>>[i] ELSE s[i - 1]
    BY <2>1, ConcatProperties
  <2> HIDE DEF u, n
  <2>3. QED
    BY <1>1, <2>1, <2>2
<1>3. v \in Seq(V) /\ Len(v) = 1 /\ v[1] = b
  OBVIOUS
<1> HIDE DEF u, v, n
<1>4. /\ t \in Seq(V) /\ Len(t) = n + 2 /\ t[n + 2] = b /\ \A i \in 1 .. n + 1 : t[i] = u[i]
  <2>1. t = u \o v
    BY DEF u, v
  <2>2. /\ u \o v \in Seq(V) /\ Len(u \o v) = n + 1 + 1
        /\ \A i \in 1 .. n + 1 + 1 : (u \o v)[i] = IF i <= n + 1 THEN u[i] ELSE v[i - (n + 1)]
    <3>1. u \in Seq(V) /\ v \in Seq(V)
      BY <1>2, <1>3
    <3>2. /\ u \o v \in Seq(V) /\ Len(u \o v) = Len(u) + Len(v)
          /\ \A i \in 1 .. Len(u) + Len(v) :
               (u \o v)[i] = IF i <= Len(u) THEN u[i] ELSE v[i - Len(u)]
      BY <3>1, ConcatProperties
    <3>3. Len(u) = n + 1 /\ Len(v) = 1
      BY <1>2, <1>3
    <3>4. QED
      BY <3>2, <3>3
  <2>3. n + 2 - (n + 1) = 1 /\ n + 1 + 1 = n + 2
    BY <1>1
  <2> HIDE DEF t
  <2>4. QED
    BY <1>1, <1>3, <2>1, <2>2, <2>3
<1> HIDE DEF t
<1>5. t[1] = a /\ \A i \in 1 .. n : t[i + 1] = s[i]
  BY <1>1, <1>2, <1>4
<1>6. SubSeq(t, 2, n + 1) = s
  <2>1. \A i \in 2 .. n + 1 : t[i] \in V
    BY <1>1, <1>4, LenProperties
  <2>2. /\ SubSeq(t, 2, n + 1) \in Seq(V)
        /\ Len(SubSeq(t, 2, n + 1)) = IF 2 <= n + 1 THEN n + 1 - 2 + 1 ELSE 0
        /\ \A i \in 1 .. n + 1 - 2 + 1 : SubSeq(t, 2, n + 1)[i] = t[2 + i - 1]
    BY <1>1, <2>1, SubSeqProperties
  <2>3. PICK x : x = SubSeq(t, 2, n + 1)
    OBVIOUS
  <2>4. x \in Seq(V) /\ Len(x) = n /\ \A i \in 1 .. n : x[i] = s[i]
    BY <1>1, <1>5, <2>2, <2>3
  <2>5. x = s
    BY <2>4, SeqEqual DEF n
  <2>6. QED
    BY <2>3, <2>5
<1>7. Len(t) - 1 = n + 1
  BY <1>1, <1>4
<1>8. QED
  BY <1>4, <1>5, <1>6, <1>7 DEF t, n

(***************************************************************************)
(* Blanks around something that neither starts nor ends with one.          *)
(***************************************************************************)

\* A text that starts with no blank is not stripped at its start.
LEMMA LStripAround ==
  ASSUME NEW V, NEW s \in Seq(V), NEW t \in Seq(V), t # <<>>, t[1] # "nl"
  PROVE  /\ LStrip(s \o t) = LStrip(s) \o t
         /\ \E k \in 1 .. Len(s) + 1 : LStrip(s) = SubSeq(s, k, Len(s))
<1> DEFINE m == Len(s)
           n == Len(t)
           u == s \o t
           I == {i \in DOMAIN s : s[i] # "nl"}
           J == {i \in DOMAIN u : u[i] # "nl"}
<1>1. /\ m \in Nat /\ n \in Nat \ {0} /\ u \in Seq(V) /\ Len(u) = m + n
      /\ DOMAIN s = 1 .. m /\ DOMAIN u = 1 .. m + n
      /\ \A i \in 1 .. m : u[i] = s[i]
      /\ u[m + 1] = t[1]
  <2>1. /\ u \in Seq(V) /\ Len(u) = m + n /\ m \in Nat /\ n \in Nat \ {0}
        /\ DOMAIN s = 1 .. m
    BY ConcatProperties, LenProperties, EmptySeq
  <2>2. \A i \in 1 .. m + n : u[i] = IF i <= m THEN s[i] ELSE t[i - m]
    BY ConcatProperties
  <2>3. DOMAIN u = 1 .. Len(u)
    BY <2>1, LenProperties
  <2>4. m + 1 - m = 1
    BY <2>1
  <2> HIDE DEF u, m, n
  <2>5. QED
    BY <2>1, <2>2, <2>3, <2>4
<1> HIDE DEF u, m, n
<1>2. m + 1 \in J /\ J # {} /\ J \in SUBSET Nat /\ I \in SUBSET Nat
  BY <1>1
<1>3. Min(J) \in J /\ \A i \in J : Min(J) <= i
  <2> HIDE DEF J
  <2>1. QED
    BY <1>2, MinOf
<1>4. LStrip(u) = SubSeq(u, Min(J), Len(u))
  BY <1>2 DEF LStrip
<1>5. PICK k \in 1 .. m + 1 : k = Min(J) /\ LStrip(s) = SubSeq(s, k, m)
  <2>1. CASE I = {}
    <3>1. Min(J) = m + 1
      <4>1. \A i \in J : i > m
        BY <1>1, <2>1
      <4> HIDE DEF J
      <4>2. Min(J) \in Nat /\ Min(J) > m /\ Min(J) <= m + 1
        BY <1>1, <1>2, <1>3, <4>1
      <4>3. QED
        BY <1>1, <4>2
    <3>2. LStrip(s) = <<>>
      BY <2>1 DEF LStrip
    <3>3. SubSeq(s, m + 1, m) = <<>>
      BY <1>1, SubSeqEmpty
    <3>4. m + 1 \in 1 .. m + 1
      BY <1>1
    <3>5. QED
      BY <3>1, <3>2, <3>3, <3>4
  <2>2. CASE I # {}
    <3>1. Min(I) \in I /\ \A i \in I : Min(I) <= i
      <4> HIDE DEF I
      <4>1. QED
        BY <1>2, <2>2, MinOf
    <3>2. LStrip(s) = SubSeq(s, Min(I), m)
      BY <2>2 DEF LStrip, m
    <3>3. PICK a, b : a = Min(I) /\ b = Min(J)
      OBVIOUS
    <3>4. a \in I /\ b \in J /\ \A i \in I : a <= i
      BY <1>3, <3>1, <3>3
    <3>5. \A i \in J : b <= i
      BY <1>3, <3>3
    <3>6. I \subseteq J
      BY <1>1
    <3>7. b <= a /\ a \in 1 .. m /\ b \in Nat
      BY <1>1, <3>4, <3>5, <3>6
    <3>8. b \in I
      BY <1>1, <3>4, <3>7
    <3>9. a <= b
      BY <3>4, <3>8
    <3>10. a = b /\ a \in 1 .. m + 1
      BY <1>1, <3>7, <3>9
    <3>11. QED
      BY <3>2, <3>3, <3>10
  <2>3. QED
    BY <2>1, <2>2
<1>6. LStrip(u) = SubSeq(s, k, m) \o t
  BY <1>4, <1>5, CutLeft DEF m, u
<1>7. QED
  BY <1>5, <1>6 DEF m, u

\* A text that ends in no blank is not stripped at its end.
LEMMA RStripAround ==
  ASSUME NEW V, NEW s \in Seq(V), NEW t \in Seq(V), s # <<>>, s[Len(s)] # "nl"
  PROVE  /\ RStrip(s \o t) = s \o RStrip(t)
         /\ RStrip(t) \in Seq(V)
<1> DEFINE m == Len(s)
           n == Len(t)
           u == s \o t
           I == {i \in DOMAIN t : t[i] # "nl"}
           J == {i \in DOMAIN u : u[i] # "nl"}
<1>1. /\ m \in Nat \ {0} /\ n \in Nat /\ u \in Seq(V) /\ Len(u) = m + n
      /\ DOMAIN t = 1 .. n /\ DOMAIN u = 1 .. m + n
      /\ u[m] = s[m]
      /\ \A i \in 1 .. n : u[m + i] = t[i]
      /\ \A i \in m + 1 .. m + n : u[i] = t[i - m]
  <2>1. /\ u \in Seq(V) /\ Len(u) = m + n /\ m \in Nat \ {0} /\ n \in Nat
        /\ DOMAIN t = 1 .. n
    BY ConcatProperties, LenProperties, EmptySeq
  <2>2. \A i \in 1 .. m + n : u[i] = IF i <= m THEN s[i] ELSE t[i - m]
    BY ConcatProperties
  <2>3. DOMAIN u = 1 .. Len(u)
    BY <2>1, LenProperties
  <2> HIDE DEF u, m, n
  <2>4. QED
    BY <2>1, <2>2, <2>3
<1> HIDE DEF u, m, n
<1>2. m \in J /\ J # {} /\ J \in SUBSET (1 .. m + n) /\ I \in SUBSET (1 .. n)
  <2>1. u[m] # "nl"
    BY <1>1 DEF m
  <2>2. m \in 1 .. m + n
    BY <1>1
  <2>3. m \in J
    BY <1>1, <2>1, <2>2
  <2>4. J \subseteq DOMAIN u /\ I \subseteq DOMAIN t
    OBVIOUS
  <2> HIDE DEF I, J
  <2>5. QED
    BY <1>1, <2>3, <2>4
<1>3. Max(J) \in J /\ \A i \in J : i <= Max(J)
  <2>1. m + n \in Nat
    BY <1>1
  <2> HIDE DEF J
  <2>2. QED
    BY <1>2, <2>1, MaxOf
<1>4. RStrip(u) = SubSeq(u, 1, Max(J))
  BY <1>2 DEF RStrip
<1>5. PICK j \in 0 .. n : Max(J) = m + j /\ RStrip(t) = SubSeq(t, 1, j)
  <2>1. CASE I = {}
    <3>1. Max(J) = m
      <4>1. \A i \in J : i <= m
        <5> SUFFICES ASSUME NEW i \in J, i > m PROVE FALSE
          BY <1>1
        <5>1. i \in m + 1 .. m + n /\ i - m \in 1 .. n
          BY <1>1
        <5>2. t[i - m] # "nl"
          BY <1>1, <5>1
        <5>3. QED
          BY <1>1, <2>1, <5>1, <5>2
      <4> HIDE DEF J
      <4>2. PICK b : b = Max(J)
        OBVIOUS
      <4>3. b <= m /\ m <= b
        BY <1>2, <1>3, <4>1, <4>2
      <4>4. b \in 1 .. m + n
        BY <1>2, <1>3, <4>2
      <4>5. QED
        BY <1>1, <4>2, <4>3, <4>4
    <3>2. RStrip(t) = <<>>
      BY <2>1 DEF RStrip
    <3>3. SubSeq(t, 1, 0) = <<>>
      BY SubSeqEmpty
    <3>4. 0 \in 0 .. n /\ m + 0 = m
      BY <1>1
    <3>5. QED
      BY <3>1, <3>2, <3>3, <3>4
  <2>2. CASE I # {}
    <3>1. Max(I) \in I /\ \A i \in I : i <= Max(I)
      <4> HIDE DEF I
      <4>1. QED
        BY <1>1, <1>2, <2>2, MaxOf
    <3>2. RStrip(t) = SubSeq(t, 1, Max(I))
      BY <2>2 DEF RStrip
    <3>3. PICK a, b : a = Max(I) /\ b = Max(J)
      OBVIOUS
    <3>4. a \in 1 .. n /\ t[a] # "nl" /\ b \in 1 .. m + n /\ u[b] # "nl"
      BY <1>1, <1>3, <3>1, <3>3
    <3>5. m + a \in J
      BY <1>1, <3>4
    <3>6. m + a <= b
      BY <1>3, <3>3, <3>5
    <3>7. b - m \in 1 .. n /\ b \in m + 1 .. m + n
      BY <1>1, <3>4, <3>6
    <3>8. b - m \in I
      BY <1>1, <3>4, <3>7
    <3>9. b - m <= a
      BY <3>1, <3>3, <3>8
    <3>10. b = m + a /\ a \in 0 .. n
      BY <1>1, <3>4, <3>6, <3>9
    <3>11. QED
      BY <3>2, <3>3, <3>10
  <2>3. QED
    BY <2>1, <2>2
<1>6. SubSeq(u, 1, m + j) = s \o SubSeq(t, 1, j) /\ SubSeq(t, 1, j) \in Seq(V)
  BY <1>5, CutRight DEF m, n, u
<1>7. QED
  BY <1>4, <1>5, <1>6 DEF u

\* A text with something of an object's shape in it.
Around(u, w, r) == (u \o w) \o r

\* It starts and ends with other characters than blanks.
Solid(w) == w \in Seq(Char) /\ w # <<>> /\ w[1] # "nl" /\ w[Len(w)] # "nl"

\* Where its characters are.
Lies(V, t, u, w, r) ==
  /\ t \in Seq(V) /\ t = u \o (w \o r) /\ u \o w \in Seq(V) /\ w \o r \in Seq(V)
  /\ Len(t) = Len(u) + Len(w) + Len(r)
  /\ Len(u) \in Nat /\ Len(w) \in Nat /\ Len(r) \in Nat
  /\ \A i \in 1 .. Len(u) : t[i] = u[i]
  /\ \A i \in 1 .. Len(w) : t[Len(u) + i] = w[i]
  /\ \A i \in 1 .. Len(r) : t[Len(u) + Len(w) + i] = r[i]

\* Where everything lies in a text around another.
LEMMA AroundIs ==
  ASSUME NEW V, NEW u \in Seq(V), NEW w \in Seq(V), NEW r \in Seq(V)
  PROVE  Lies(V, Around(u, w, r), u, w, r)
<1> DEFINE l == Len(u)
           m == Len(w)
           n == Len(r)
           x == u \o w
           y == x \o r
<1>1. l \in Nat /\ m \in Nat /\ n \in Nat
  BY LenProperties
<1>2. /\ x \in Seq(V) /\ Len(x) = l + m
      /\ \A i \in 1 .. l + m : x[i] = IF i <= l THEN u[i] ELSE w[i - l]
  BY ConcatProperties
<1> HIDE DEF x
<1>3. /\ y \in Seq(V) /\ Len(y) = Len(x) + n
      /\ \A i \in 1 .. Len(x) + n : y[i] = IF i <= Len(x) THEN x[i] ELSE r[i - Len(x)]
  <2>1. x \in Seq(V)
    BY <1>2
  <2>2. QED
    BY <2>1, ConcatProperties
<1> HIDE DEF y
<1>4. w \o r \in Seq(V) /\ y = u \o (w \o r)
  BY ConcatProperties, ConcatAssociative DEF x, y
<1> HIDE DEF l, m, n
<1>5. \A i \in 1 .. l : y[i] = u[i]
  BY <1>1, <1>2, <1>3
<1>6. \A i \in 1 .. m : y[l + i] = w[i]
  <2> SUFFICES ASSUME NEW i \in 1 .. m PROVE y[l + i] = w[i]
    OBVIOUS
  <2>1. l + i \in 1 .. l + m /\ ~(l + i <= l) /\ l + i - l = i
    BY <1>1
  <2>2. QED
    BY <1>1, <1>2, <1>3, <2>1
<1>7. \A i \in 1 .. n : y[l + m + i] = r[i]
  <2> SUFFICES ASSUME NEW i \in 1 .. n PROVE y[l + m + i] = r[i]
    OBVIOUS
  <2>1. l + m + i \in 1 .. l + m + n /\ ~(l + m + i <= l + m) /\ l + m + i - (l + m) = i
    BY <1>1
  <2>2. QED
    BY <1>1, <1>2, <1>3, <2>1
<1>8. Len(y) = l + m + n
  BY <1>1, <1>2, <1>3
<1>9. QED
  BY <1>1, <1>2, <1>3, <1>4, <1>5, <1>6, <1>7, <1>8 DEF Around, Lies, x, y, l, m, n

\* Stripping goes no further than what is solid.
LEMMA StripAround ==
  ASSUME NEW u \in Seq(Char), NEW w, Solid(w), NEW r \in Seq(Char)
  PROVE  /\ Strip(Around(u, w, r)) = Around(LStrip(u), w, RStrip(r))
         /\ LStrip(u) \in Seq(Char) /\ RStrip(r) \in Seq(Char)
         /\ \E k \in 1 .. Len(u) + 1 : LStrip(u) = SubSeq(u, k, Len(u))
<1>1. w \in Seq(Char) /\ w # <<>> /\ w[1] # "nl" /\ w[Len(w)] # "nl"
  BY DEF Solid
<1>2. PICK x : x = u \o w
  OBVIOUS
<1>3. /\ x \in Seq(Char) /\ Len(x) = Len(u) + Len(w) /\ x[Len(x)] = w[Len(w)]
      /\ Len(w) \in Nat \ {0} /\ Len(u) \in Nat
  <2>1. Len(w) \in Nat \ {0} /\ Len(u) \in Nat
    BY <1>1, LenProperties, EmptySeq
  <2>2. /\ x \in Seq(Char) /\ Len(x) = Len(u) + Len(w)
        /\ \A i \in 1 .. Len(u) + Len(w) : x[i] = IF i <= Len(u) THEN u[i] ELSE w[i - Len(u)]
    BY <1>1, <1>2, ConcatProperties
  <2>3. /\ Len(x) \in 1 .. Len(u) + Len(w) /\ ~(Len(x) <= Len(u)) /\ Len(x) - Len(u) = Len(w)
    BY <2>1, <2>2
  <2>4. QED
    BY <2>1, <2>2, <2>3
<1>4. x # <<>>
  BY <1>3, EmptySeq
<1>5. RStrip(x \o r) = x \o RStrip(r) /\ RStrip(r) \in Seq(Char)
  BY <1>1, <1>3, <1>4, RStripAround
<1>6. PICK y, z : y = RStrip(r) /\ z = w \o y
  OBVIOUS
<1>7. y \in Seq(Char) /\ z \in Seq(Char) /\ z[1] = w[1] /\ z # <<>>
  <2>1. y \in Seq(Char)
    BY <1>5, <1>6
  <2>2. /\ z \in Seq(Char) /\ Len(z) = Len(w) + Len(y) /\ Len(y) \in Nat
        /\ \A i \in 1 .. Len(w) + Len(y) : z[i] = IF i <= Len(w) THEN w[i] ELSE y[i - Len(w)]
    BY <1>1, <1>6, <2>1, ConcatProperties, LenProperties
  <2>3. Len(z) # 0 /\ 1 \in 1 .. Len(w) + Len(y) /\ 1 <= Len(w)
    BY <1>3, <2>2
  <2>4. QED
    BY <2>1, <2>2, <2>3, EmptySeq
<1>8. LStrip(u \o z) = LStrip(u) \o z /\ \E k \in 1 .. Len(u) + 1 : LStrip(u) = SubSeq(u, k, Len(u))
  BY <1>1, <1>7, LStripAround
<1>9. LStrip(u) \in Seq(Char)
  BY LStripped
<1>10. x \o y = u \o z
  <2>1. y \in Seq(Char)
    BY <1>7
  <2>2. (u \o w) \o y = u \o (w \o y)
    BY <1>1, <2>1, ConcatAssociative
  <2>3. QED
    BY <1>2, <1>6, <2>2
<1>11. LStrip(u) \o z = Around(LStrip(u), w, y)
  <2>1. PICK v : v = LStrip(u)
    OBVIOUS
  <2>2. v \in Seq(Char) /\ y \in Seq(Char)
    BY <1>7, <1>9, <2>1
  <2>3. Around(v, w, y) = v \o (w \o y)
    <3>1. v \in Seq(Char) /\ w \in Seq(Char) /\ y \in Seq(Char)
      BY <1>1, <2>2
    <3>2. (v \o w) \o y = v \o (w \o y)
      BY <3>1, ConcatAssociative
    <3>3. QED
      BY <3>2 DEF Around
  <2>4. QED
    BY <1>6, <2>1, <2>3
<1>12. QED
  BY <1>2, <1>5, <1>6, <1>8, <1>9, <1>10, <1>11 DEF Strip, Around

(***************************************************************************)
(* The shape of an object as it is asked for, whatever is in its string,   *)
(* and what _extract_json_object does to the text around it.               *)
(***************************************************************************)

\* What can be told of the object without its string.
Shaped(w) ==
  /\ w \in Seq(Char) /\ Len(w) \in Nat /\ Len(w) >= 6 /\ w[3] = "quote"
  /\ w[1] = "open" /\ w[2] = "nl" /\ w[Len(w) - 1] = "nl" /\ w[Len(w)] = "close"

\* There is no brace before it.
Plain(u) == u \in Seq(Char) /\ \A i \in 1 .. Len(u) : u[i] # "open"

\* An object starts and ends with a brace.
LEMMA ShapedIsSolid ==
  ASSUME NEW w, Shaped(w)
  PROVE  Solid(w)
<1>1. w \in Seq(Char) /\ Len(w) >= 6 /\ w[1] = "open" /\ w[Len(w)] = "close"
  BY DEF Shaped
<1>2. w # <<>>
  <2>1. Len(<<>>) = 0
    OBVIOUS
  <2>2. QED
    BY <1>1, <2>1
<1>3. QED
  BY <1>1, <1>2 DEF Solid

\* What follows in a text without braces has none.
LEMMA PlainRest ==
  ASSUME NEW u, Plain(u), NEW k \in 1 .. Len(u) + 1
  PROVE  Plain(SubSeq(u, k, Len(u)))
<1>1. u \in Seq(Char) /\ Len(u) \in Nat /\ \A i \in 1 .. Len(u) : u[i] # "open" /\ u[i] \in Char
  BY LenProperties DEF Plain
<1>2. PICK v : v = SubSeq(u, k, Len(u))
  OBVIOUS
<1>3. /\ v \in Seq(Char) /\ Len(v) = IF k <= Len(u) THEN Len(u) - k + 1 ELSE 0
      /\ \A i \in 1 .. Len(u) - k + 1 : v[i] = u[k + i - 1]
  <2>1. k \in Nat
    BY <1>1
  <2>2. \A i \in k .. Len(u) : u[i] \in Char
    BY <1>1
  <2>3. QED
    BY <1>1, <1>2, <2>1, <2>2, SubSeqProperties
<1>4. ASSUME NEW i \in 1 .. Len(v) PROVE v[i] # "open"
  <2>1. i \in 1 .. Len(u) - k + 1 /\ k + i - 1 \in 1 .. Len(u)
    BY <1>1, <1>3
  <2>2. QED
    BY <1>1, <1>3, <2>1
<1>5. QED
  BY <1>2, <1>3, <1>4 DEF Plain

\* str.strip leaves the object, and no brace before it.
LEMMA StripKeeps ==
  ASSUME NEW u, Plain(u), NEW w, Shaped(w), NEW r \in Seq(Char)
  PROVE  /\ Strip(Around(u, w, r)) = Around(LStrip(u), w, RStrip(r))
         /\ Plain(LStrip(u)) /\ RStrip(r) \in Seq(Char)
<1>1. u \in Seq(Char) /\ Solid(w)
  BY ShapedIsSolid DEF Plain
<1>2. /\ Strip(Around(u, w, r)) = Around(LStrip(u), w, RStrip(r)) /\ RStrip(r) \in Seq(Char)
      /\ \E k \in 1 .. Len(u) + 1 : LStrip(u) = SubSeq(u, k, Len(u))
  BY <1>1, StripAround
<1>3. Plain(LStrip(u))
  BY <1>2, PlainRest
<1>4. QED
  BY <1>2, <1>3

\* The object stays when the start is cut ...
LEMMA AroundFrom ==
  ASSUME NEW V, NEW u \in Seq(V), NEW w \in Seq(V), NEW r \in Seq(V), NEW k \in 1 .. Len(u) + 1
  PROVE  LET t == Around(u, w, r) IN SubSeq(t, k, Len(t)) = Around(SubSeq(u, k, Len(u)), w, r)
<1>1. PICK v, z : v = SubSeq(u, k, Len(u)) /\ z = w \o r
  OBVIOUS
<1>2. z \in Seq(V)
  BY <1>1, ConcatProperties
<1>3. SubSeq(u \o z, k, Len(u \o z)) = v \o z /\ v \in Seq(V)
  BY <1>1, <1>2, CutLeft
<1>4. (u \o w) \o r = u \o z
  BY <1>1, ConcatAssociative
<1>5. (v \o w) \o r = v \o z
  <2>1. v \in Seq(V)
    BY <1>3
  <2>2. (v \o w) \o r = v \o (w \o r)
    BY <2>1, ConcatAssociative
  <2>3. QED
    BY <1>1, <2>2
<1>6. QED
  BY <1>1, <1>3, <1>4, <1>5 DEF Around

\* ... and when the end is.
LEMMA AroundTo ==
  ASSUME NEW V, NEW u \in Seq(V), NEW w \in Seq(V), NEW r \in Seq(V),
         NEW j \in Nat, Len(u) + Len(w) <= j, j <= Len(u) + Len(w) + Len(r)
  PROVE  \E q \in Seq(V) : SubSeq(Around(u, w, r), 1, j) = Around(u, w, q)
<1>1. PICK x : x = u \o w
  OBVIOUS
<1>2. x \in Seq(V) /\ Len(x) = Len(u) + Len(w) /\ Len(r) \in Nat /\ Len(u) \in Nat /\ Len(w) \in Nat
  BY <1>1, ConcatProperties, LenProperties
<1>3. PICK i \in 0 .. Len(r) : j = Len(x) + i
  <2>1. j - Len(x) \in 0 .. Len(r) /\ j = Len(x) + (j - Len(x))
    BY <1>2
  <2>2. QED
    BY <2>1
<1>4. SubSeq(x \o r, 1, Len(x) + i) = x \o SubSeq(r, 1, i) /\ SubSeq(r, 1, i) \in Seq(V)
  <2>1. x \in Seq(V)
    BY <1>2
  <2>2. QED
    BY <2>1, CutRight
<1>5. QED
  BY <1>1, <1>3, <1>4 DEF Around

\* So it does when a fence is taken off.
LEMMA UnfenceAround ==
  ASSUME NEW u, Plain(u), u # <<>> /\ u[1] = "fence" => u[Len(u)] = "nl",
         NEW w, Shaped(w), NEW r \in Seq(Char)
  PROVE  \E v, q : /\ Plain(v) /\ q \in Seq(Char)
                   /\ Unfence(Around(u, w, r)) = Around(v, w, q)
<1> DEFINE text == Around(u, w, r)
           breaks == LineBreaks(text)
           body == IF breaks = {} THEN text ELSE SubSeq(text, Min(breaks) + 1, Len(text))
           last == IF LineBreaks(body) = {} THEN 1 ELSE Max(LineBreaks(body)) + 1
           kept == IF last <= Len(body) /\ body[last] = "fence" THEN SubSeq(body, 1, last - 1) ELSE body
<1>1. /\ u \in Seq(Char) /\ w \in Seq(Char) /\ Len(w) >= 6 /\ w[1] = "open"
      /\ w[Len(w) - 1] = "nl" /\ w[Len(w)] = "close"
  BY DEF Plain, Shaped
<1>2. /\ text \in Seq(Char) /\ Len(text) = Len(u) + Len(w) + Len(r)
      /\ Len(u) \in Nat /\ Len(w) \in Nat /\ Len(r) \in Nat
      /\ \A i \in 1 .. Len(u) : text[i] = u[i]
      /\ \A i \in 1 .. Len(w) : text[Len(u) + i] = w[i]
  <2>1. w \in Seq(Char)
    BY <1>1
  <2>2. u \in Seq(Char)
    BY <1>1
  <2>3. QED
    <3>1. Lies(Char, text, u, w, r)
      BY <2>1, <2>2, AroundIs, Zenon
    <3>2. QED
      BY <3>1 DEF Lies
<1>3. CASE u = <<>> \/ u[1] # "fence"
  <2>1. text # <<>> /\ Head(text) = text[1]
    BY <1>1, <1>2, EmptySeq
  <2>2. text[1] # "fence"
    <3>1. CASE Len(u) = 0
      <4>1. text[Len(u) + 1] = w[1]
        BY <1>1, <1>2
      <4>2. QED
        BY <1>1, <3>1, <4>1
    <3>2. CASE Len(u) > 0
      <4>1. u # <<>> /\ 1 \in 1 .. Len(u)
        BY <1>2, <3>2, EmptySeq
      <4>2. QED
        BY <1>2, <1>3, <4>1
    <3>3. QED
      BY <1>2, <3>1, <3>2
  <2>3. Unfence(text) = text
    BY <2>1, <2>2 DEF Unfence
  <2>4. QED
    BY <2>3
<1>4. CASE u # <<>> /\ u[1] = "fence"
  <2>1. Len(u) \in 1 .. Len(u) /\ u[Len(u)] = "nl" /\ 1 \in 1 .. Len(u)
    BY <1>1, <1>2, <1>4, EmptySeq
  <2>2. Len(u) \in breaks /\ breaks \in SUBSET (1 .. Len(text))
    <3>1. DOMAIN text = 1 .. Len(text) /\ text[Len(u)] = "nl" /\ Len(u) \in 1 .. Len(text)
      BY <1>1, <1>2, <2>1, LenProperties
    <3>2. QED
      BY <3>1 DEF LineBreaks
  <2> HIDE DEF breaks
  <2>3. Min(breaks) \in 1 .. Len(u)
    <3>1. breaks \in SUBSET Nat /\ breaks # {}
      BY <2>2
    <3>2. Min(breaks) \in breaks /\ Min(breaks) <= Len(u)
      BY <2>2, <3>1, MinOf
    <3>3. PICK a : a = Min(breaks)
      OBVIOUS
    <3>4. a \in 1 .. Len(text) /\ a <= Len(u)
      BY <2>2, <3>2, <3>3
    <3> HIDE DEF text
    <3>5. QED
      BY <1>2, <3>3, <3>4
  <2>4. PICK v : v = SubSeq(u, Min(breaks) + 1, Len(u))
    OBVIOUS
  <2>5. Plain(v) /\ body = Around(v, w, r)
    <3>1. Min(breaks) + 1 \in 1 .. Len(u) + 1
      BY <1>2, <2>3
    <3>2. Plain(v)
      BY <2>4, <3>1, PlainRest
    <3>3. body = SubSeq(text, Min(breaks) + 1, Len(text))
      BY <2>2
    <3>4. SubSeq(text, Min(breaks) + 1, Len(text)) = Around(v, w, r)
      BY <1>1, <2>4, <3>1, AroundFrom
    <3>5. QED
      BY <3>2, <3>3, <3>4
  <2> HIDE DEF body
  <2>6. /\ body \in Seq(Char) /\ Len(body) = Len(v) + Len(w) + Len(r) /\ Len(v) \in Nat
        /\ \A i \in 1 .. Len(w) : body[Len(v) + i] = w[i]
    <3>1. v \in Seq(Char) /\ w \in Seq(Char)
      BY <1>1, <2>5 DEF Plain
    <3>2. v \in Seq(Char)
      BY <3>1
    <3>3. w \in Seq(Char)
      BY <3>1
    <3>4. QED
      <4>1. Lies(Char, Around(v, w, r), v, w, r)
        BY <3>2, <3>3, AroundIs, Zenon
      <4>2. QED
        BY <2>5, <4>1 DEF Lies
  <2>7. last \in Nat /\ last >= Len(v) + Len(w) /\ (last <= Len(body) => body[Len(v) + Len(w)] = "close")
    <3>1. Len(v) + (Len(w) - 1) \in 1 .. Len(body) /\ body[Len(v) + (Len(w) - 1)] = "nl"
      <4>1. Len(w) - 1 \in 1 .. Len(w)
        BY <1>1, <1>2
      <4>2. body[Len(v) + (Len(w) - 1)] = "nl"
        BY <1>1, <2>6, <4>1
      <4> HIDE DEF text
      <4>3. QED
        BY <1>1, <1>2, <2>6, <4>2
    <3>2. DOMAIN body = 1 .. Len(body) /\ Len(body) \in Nat
      BY <2>6, LenProperties
    <3>3. Len(v) + (Len(w) - 1) \in LineBreaks(body) /\ LineBreaks(body) \in SUBSET (1 .. Len(body))
      BY <3>1, <3>2 DEF LineBreaks
    <3>4. PICK m, B : m = Max(LineBreaks(body)) /\ B = LineBreaks(body)
      OBVIOUS
    <3>5. Max(B) \in B /\ \A i \in B : i <= Max(B)
      BY <3>2, <3>3, <3>4, MaxOf
    <3>6. m \in 1 .. Len(body) /\ Len(v) + (Len(w) - 1) <= m /\ last = m + 1
      BY <3>3, <3>4, <3>5
    <3>7. body[Len(v) + Len(w)] = "close"
      BY <1>1, <1>2, <2>6
    <3> HIDE DEF last
    <3>8. QED
      BY <1>2, <2>6, <3>2, <3>6, <3>7
  <2> HIDE DEF last
  <2>8. PICK q \in Seq(Char) : kept = Around(v, w, q)
    <3>1. CASE last <= Len(body) /\ body[last] = "fence"
      <4>1. last # Len(v) + Len(w)
        BY <2>7, <3>1
      <4>2. last - 1 \in Nat /\ Len(v) + Len(w) <= last - 1 /\ last - 1 <= Len(v) + Len(w) + Len(r)
        <5>1. last \in Nat /\ last >= Len(v) + Len(w) /\ last <= Len(v) + Len(w) + Len(r)
          BY <2>6, <2>7, <3>1
        <5>2. Len(v) \in Nat /\ Len(w) \in Nat /\ Len(r) \in Nat /\ Len(w) >= 6
          BY <1>1, <1>2, <2>6
        <5>3. QED
          BY <4>1, <5>1, <5>2
      <4>3. kept = SubSeq(body, 1, last - 1)
        BY <3>1
      <4>4. v \in Seq(Char)
        BY <2>5 DEF Plain
      <4>5. w \in Seq(Char)
        BY <1>1
      <4>6. PICK j : j = last - 1
        OBVIOUS
      <4>7. \E q \in Seq(Char) : SubSeq(Around(v, w, r), 1, j) = Around(v, w, q)
        <5>1. j \in Nat /\ Len(v) + Len(w) <= j /\ j <= Len(v) + Len(w) + Len(r)
          BY <4>2, <4>6
        <5>2. QED
          BY <4>4, <4>5, <5>1, AroundTo
      <4>8. QED
        BY <2>5, <4>3, <4>6, <4>7
    <3>2. CASE ~(last <= Len(body) /\ body[last] = "fence")
      BY <2>5, <3>2
    <3>3. QED
      BY <3>1, <3>2
  <2>9. Unfence(text) = Strip(kept)
    <3>1. text # <<>> /\ Head(text) = text[1]
      BY <1>1, <1>2, EmptySeq
    <3>2. text[1] = "fence"
      BY <1>2, <1>4, <2>1
    <3>3. ~(text = <<>> \/ Head(text) # "fence")
      BY <3>1, <3>2
    <3> HIDE DEF text
    <3>4. QED
      BY <3>3 DEF Unfence, kept, last, body, breaks
  <2>10. Strip(kept) = Around(LStrip(v), w, RStrip(q)) /\ Plain(LStrip(v)) /\ RStrip(q) \in Seq(Char)
    <3>1. Plain(v)
      BY <2>5
    <3>2. Strip(Around(v, w, q)) = Around(LStrip(v), w, RStrip(q)) /\ Plain(LStrip(v)) /\ RStrip(q) \in Seq(Char)
      BY <3>1, StripKeeps
    <3>3. QED
      BY <2>8, <3>2
  <2>11. QED
    BY <2>9, <2>10
<1>5. QED
  BY <1>3, <1>4

(***************************************************************************)
(* JSON has no line break in a string, so what is not the object alone     *)
(* does not load.                                                          *)
(***************************************************************************)

\* A string with a line break in it is not read.
LEMMA BreaksAreNotRead ==
  ASSUME NEW s \in Seq(Char), NEW k \in 1 .. Len(s), s[k] = "nl"
  PROVE  ~InString(s).ok
<1>1. PICK f : Along(f, SpellStep, Reads, Unspelled, s)
  BY SpellSteps, AlongExists
<1>2. InString(s) = f[Len(s)]
  BY <1>1, SpellSteps, FoldedBy, InStringFolds
<1>3. Len(s) \in Nat /\ k \in Nat /\ \A i \in 1 .. Len(s) : s[i] \in Char
  BY LenProperties
<1>4. ASSUME NEW i \in Nat, i + 1 <= Len(s)
      PROVE  f[i + 1] = Spell(f[i], s[i + 1]) /\ f[i] \in Reads
  <2>1. i \in 0 .. Len(s) - 1 /\ i \in 0 .. Len(s) /\ i + 1 \in 1 .. Len(s)
    BY <1>3, <1>4
  <2>2. f[i] \in Reads /\ s[i + 1] \in Char
    BY <1>1, <1>3, <2>1 DEF Along
  <2>3. f[i + 1] = SpellStep[<<f[i], s[i + 1]>>]
    BY <1>1, <2>1 DEF Along
  <2>4. QED
    BY <2>2, <2>3 DEF SpellStep
<1> DEFINE P == {i \in Nat : k <= i /\ i <= Len(s) => ~f[i].ok}
<1>5. 0 \in P
  BY <1>3
<1>6. ASSUME NEW i \in Nat, i \in P
      PROVE  i + 1 \in P
  <2> SUFFICES ASSUME k <= i + 1, i + 1 <= Len(s)
               PROVE  ~f[i + 1].ok
    OBVIOUS
  <2>1. f[i + 1] = Spell(f[i], s[i + 1]) /\ f[i] \in Reads
    BY <1>4
  <2>2. CASE k = i + 1
    BY <2>1, <2>2 DEF Spell, Reads
  <2>3. CASE k <= i
    <3>1. ~f[i].ok
      BY <1>3, <1>6, <2>3
    <3>2. QED
      BY <2>1, <3>1 DEF Spell, Reads
  <2>4. QED
    BY <1>3, <2>2, <2>3
<1> HIDE DEF P
<1>7. Nat \subseteq P
  BY <1>5, <1>6, Induction
<1>8. QED
  BY <1>2, <1>3, <1>7 DEF P

\* Nor does a text with a line break in it, between quotes.
LEMMA BreaksAreNotQuoted ==
  ASSUME NEW s \in Seq(Char), NEW k \in 2 .. Len(s) - 1, s[k] = "nl"
  PROVE  ~Quoted(s)
<1>1. Len(s) \in Nat /\ \A i \in 1 .. Len(s) : s[i] \in Char
  BY LenProperties
<1>2. PICK t : t = SubSeq(s, 2, Len(s) - 1)
  OBVIOUS
<1>3. /\ t \in Seq(Char) /\ Len(t) = IF 2 <= Len(s) - 1 THEN Len(s) - 1 - 2 + 1 ELSE 0
      /\ \A i \in 1 .. Len(s) - 1 - 2 + 1 : t[i] = s[2 + i - 1]
  <2>1. \A i \in 2 .. Len(s) - 1 : s[i] \in Char
    BY <1>1
  <2>2. Len(s) - 1 \in Int /\ 2 \in Nat
    BY <1>1
  <2>3. QED
    BY <1>2, <2>1, <2>2, SubSeqProperties
<1>4. k - 1 \in 1 .. Len(t) /\ t[k - 1] = s[k]
  <2>1. k - 1 \in 1 .. Len(s) - 1 - 2 + 1 /\ 2 + (k - 1) - 1 = k /\ 2 <= Len(s) - 1
    BY <1>1
  <2>2. QED
    BY <1>3, <2>1
<1>5. ~InString(t).ok
  <2>1. PICK j : j = k - 1
    OBVIOUS
  <2>2. t \in Seq(Char) /\ j \in 1 .. Len(t) /\ t[j] = "nl"
    BY <1>3, <1>4, <2>1
  <2>3. QED
    BY <2>2, BreaksAreNotRead
<1>6. QED
  BY <1>2, <1>5 DEF Quoted

\* What stays of a line break between two other characters.
LEMMA StripBetween ==
  ASSUME NEW s \in Seq(Char), NEW i \in 1 .. Len(s), NEW j \in 1 .. Len(s), NEW k \in 1 .. Len(s),
         i < j, j < k, s[i] # "nl", s[j] = "nl", s[k] # "nl"
  PROVE  \E p \in 2 .. Len(Strip(s)) - 1 : Strip(s)[p] = "nl"
<1> DEFINE I == {p \in DOMAIN s : s[p] # "nl"}
<1>1. /\ Len(s) \in Nat /\ DOMAIN s = 1 .. Len(s) /\ \A p \in 1 .. Len(s) : s[p] \in Char
      /\ i \in Nat /\ j \in Nat /\ k \in Nat
  BY LenProperties
<1>2. I \in SUBSET (1 .. Len(s)) /\ k \in I /\ I # {}
  BY <1>1
<1>3. PICK b : b = Max(I)
  OBVIOUS
<1>4. PICK t : t = SubSeq(s, 1, b)
  OBVIOUS
<1>5. RStrip(s) = t
  BY <1>2, <1>3, <1>4 DEF RStrip
<1>6. b \in 1 .. Len(s) /\ k <= b
  <2> HIDE DEF I
  <2>1. Max(I) \in I /\ \A p \in I : p <= Max(I)
    BY <1>1, <1>2, MaxOf
  <2>2. QED
    BY <1>2, <1>3, <2>1
<1>7. t \in Seq(Char) /\ Len(t) = b /\ \A p \in 1 .. b : t[p] = s[p]
  <2>1. b \in Nat /\ \A p \in 1 .. b : s[p] \in Char
    BY <1>1, <1>6
  <2>2. QED
    BY <1>4, <2>1, SubSeqProperties
<1> HIDE DEF I
<1> DEFINE J == {p \in DOMAIN t : t[p] # "nl"}
<1>8. J \in SUBSET Nat /\ i \in J /\ J # {} /\ b \in Nat
  <2>1. DOMAIN t = 1 .. b /\ i \in 1 .. b /\ t[i] # "nl"
    BY <1>1, <1>6, <1>7, LenProperties
  <2>2. QED
    BY <1>6, <2>1
<1>9. PICK a : a = Min(J)
  OBVIOUS
<1>10. PICK u : u = SubSeq(t, a, b)
  OBVIOUS
<1>11. Strip(s) = u
  <2>1. LStrip(t) = u
    BY <1>7, <1>8, <1>9, <1>10 DEF LStrip
  <2>2. QED
    BY <1>5, <2>1 DEF Strip
<1>12. a \in Nat /\ a \in J /\ a <= i
  <2> HIDE DEF J
  <2>1. Min(J) \in J /\ \A p \in J : Min(J) <= p
    BY <1>8, MinOf
  <2>2. QED
    BY <1>8, <1>9, <2>1
<1>13. a \in 1 .. b
  BY <1>7, <1>12, LenProperties
<1>14. /\ u \in Seq(Char) /\ Len(u) = IF a <= b THEN b - a + 1 ELSE 0
       /\ \A p \in 1 .. b - a + 1 : u[p] = t[a + p - 1]
  <2>1. \A p \in a .. b : t[p] \in Char
    BY <1>1, <1>6, <1>7, <1>13
  <2>2. a \in Nat /\ b \in Nat
    BY <1>8, <1>12
  <2>3. QED
    BY <1>10, <2>1, <2>2, SubSeqProperties
<1>15. j - a + 1 \in 2 .. Len(u) - 1 /\ u[j - a + 1] = "nl"
  <2>1. /\ j - a + 1 \in 1 .. b - a + 1 /\ a + (j - a + 1) - 1 = j /\ a <= b /\ j \in 1 .. b
        /\ j - a + 1 \in 2 .. b - a + 1 - 1
    BY <1>1, <1>6, <1>8, <1>12, <1>13
  <2>2. u[j - a + 1] = t[j]
    BY <1>14, <2>1
  <2>3. t[j] = "nl"
    BY <1>7, <2>1
  <2>4. Len(u) = b - a + 1
    BY <1>14, <2>1
  <2>5. j - a + 1 \in 2 .. Len(u) - 1
    BY <1>1, <1>8, <1>12, <2>1, <2>4
  <2>6. QED
    BY <2>2, <2>3, <2>5
<1>16. QED
  BY <1>11, <1>15

\* json.loads does not look at the blanks around.
LEMMA LoadsStripped ==
  ASSUME NEW s, NEW t, Strip(s) = Strip(t)
  PROVE  Loads(s) = Loads(t)
BY Zenon DEF Loads

\* Neither a string nor an object: no JSON.
LEMMA LoadsNothing ==
  ASSUME NEW s, ~Quoted(Strip(s)),
         Braced(Strip(s)) => LET inner == Strip(SubSeq(Strip(s), 2, Len(Strip(s)) - 1))
                             IN  inner # <<>> /\ ~Quoted(inner)
  PROVE  Loads(s) = NoJson
<1> DEFINE text == Strip(s)
           inner == Strip(SubSeq(text, 2, Len(text) - 1))
<1>1. ~Quoted(text) /\ ~(Braced(text) /\ inner = <<>>) /\ ~(Braced(text) /\ Quoted(inner))
  BY Zenon
<1>2. Loads(s) = IF Quoted(text) THEN Other
                 ELSE IF Braced(text) /\ inner = <<>> THEN Empty
                 ELSE IF Braced(text) /\ Quoted(inner) THEN Object(Unquoted(inner))
                 ELSE NoJson
  BY Zenon DEF Loads
<1> HIDE DEF text, inner
<1>3. QED
  BY <1>1, <1>2, Zenon

\* With something around it an object loads as itself, or not at all.
LEMMA LoadsAround ==
  ASSUME NEW u, Plain(u), NEW w, Shaped(w), NEW r \in Seq(Char)
  PROVE  Loads(Around(u, w, r)) \in {NoJson, Loads(w)}
<1>1. PICK v, q, t : v = LStrip(u) /\ q = RStrip(r) /\ t = Around(v, w, q)
  OBVIOUS
<1>2. Strip(Around(u, w, r)) = t /\ Plain(v) /\ q \in Seq(Char)
  BY <1>1, StripKeeps
<1>3. v \in Seq(Char) /\ w \in Seq(Char)
  BY <1>2 DEF Plain, Shaped
<1>4. Lies(Char, t, v, w, q)
  <2>1. q \in Seq(Char)
    BY <1>2
  <2>2. QED
    BY <1>1, <1>3, <2>1, AroundIs, Zenon
<1>5. /\ t \in Seq(Char) /\ Len(t) = Len(v) + Len(w) + Len(q)
      /\ Len(v) \in Nat /\ Len(w) \in Nat /\ Len(q) \in Nat
      /\ \A i \in 1 .. Len(v) : t[i] = v[i]
      /\ \A i \in 1 .. Len(w) : t[Len(v) + i] = w[i]
  BY <1>4 DEF Lies
<1>6. /\ Len(w) >= 6 /\ w[1] = "open" /\ w[2] = "nl" /\ w[3] = "quote"
      /\ w[Len(w) - 1] = "nl" /\ w[Len(w)] = "close"
  BY DEF Shaped
<1>7. ~Quoted(t)
  <2>1. PICK k : k = Len(v) + 2
    OBVIOUS
  <2>2. k \in 2 .. Len(t) - 1
    BY <1>5, <1>6, <2>1
  <2>3. t[k] = "nl"
    BY <1>5, <1>6, <2>1
  <2>4. t \in Seq(Char)
    BY <1>5
  <2>5. QED
    BY <2>2, <2>3, <2>4, BreaksAreNotQuoted
<1>8. CASE v = <<>> /\ q = <<>>
  <2>1. t = w
    <3>1. (v \o w) \o q = w
      BY <1>3, <1>8, ConcatEmptySeq
    <3>2. QED
      BY <1>1, <3>1 DEF Around
  <2>2. Strip(w) = w
    <3>1. Solid(w)
      BY ShapedIsSolid
    <3>2. RStrip(<<>>) = <<>> /\ LStrip(<<>>) = <<>>
      BY DEF RStrip, LStrip
    <3>3. <<>> \in Seq(Char)
      OBVIOUS
    <3>4. Strip(Around(<<>>, w, <<>>)) = Around(LStrip(<<>>), w, RStrip(<<>>))
      <4>1. PICK e : e = <<>>
        OBVIOUS
      <4>2. e \in Seq(Char)
        BY <3>3, <4>1
      <4>3. Strip(Around(e, w, e)) = Around(LStrip(e), w, RStrip(e))
        BY <3>1, <4>2, StripAround
      <4>4. QED
        BY <4>1, <4>3
    <3>5. QED
      BY <1>1, <1>8, <2>1, <3>2, <3>4
  <2>3. QED
    BY <1>2, <2>1, <2>2, LoadsStripped
<1>9. CASE v # <<>>
  <2>1. 1 \in 1 .. Len(v)
    BY <1>3, <1>5, <1>9, EmptySeq
  <2>2. t[1] # "open"
    BY <1>2, <1>5, <2>1 DEF Plain
  <2>3. ~Braced(t)
    BY <2>2 DEF Braced
  <2>4. QED
    BY <1>2, <1>7, <2>3, LoadsNothing
<1>10. CASE v = <<>> /\ q # <<>>
  <2>1. Len(v) = 0 /\ Len(q) > 0
    BY <1>2, <1>5, <1>10, EmptySeq
  <2>2. PICK s : s = SubSeq(t, 2, Len(t) - 1)
    OBVIOUS
  <2>3. /\ s \in Seq(Char) /\ Len(s) = Len(t) - 2
        /\ \A i \in 1 .. Len(t) - 2 : s[i] = t[i + 1]
    <3>1. \A i \in 2 .. Len(t) - 1 : t[i] \in Char
      BY <1>5, LenProperties
    <3>2. PICK n : n = Len(t) - 1
      OBVIOUS
    <3>3. n \in Nat /\ 2 <= n /\ n - 1 = Len(t) - 2
      BY <1>5, <1>6, <2>1, <3>2
    <3>4. /\ s \in Seq(Char) /\ Len(s) = IF 2 <= n THEN n - 2 + 1 ELSE 0
          /\ \A i \in 1 .. n - 2 + 1 : s[i] = t[2 + i - 1]
      BY <2>2, <3>1, <3>2, <3>3, SubSeqProperties
    <3>5. Len(s) = Len(t) - 2 /\ \A i \in 1 .. Len(t) - 2 : i \in 1 .. n - 2 + 1 /\ 2 + i - 1 = i + 1
      BY <3>3, <3>4
    <3>6. QED
      BY <3>4, <3>5
  <2>4. PICK j, k : j = Len(w) - 2 /\ k = Len(w) - 1
    OBVIOUS
  <2>5. /\ 2 \in 1 .. Len(s) /\ j \in 1 .. Len(s) /\ k \in 1 .. Len(s) /\ 2 < j /\ j < k
        /\ j + 1 = Len(w) - 1 /\ k + 1 = Len(w) /\ 2 + 1 = 3
    BY <1>5, <1>6, <2>1, <2>3, <2>4
  <2>6. \A i \in 1 .. Len(w) : t[i] = w[i]
    BY <1>5, <2>1
  <2>7. s[2] = w[3] /\ s[j] = w[Len(w) - 1] /\ s[k] = w[Len(w)]
    <3>1. 3 \in 1 .. Len(w) /\ Len(w) - 1 \in 1 .. Len(w) /\ Len(w) \in 1 .. Len(w)
      BY <1>5, <1>6
    <3>2. \A i \in 1 .. Len(s) : s[i] = t[i + 1]
      BY <2>3
    <3>3. s[2] = t[3] /\ s[j] = t[Len(w) - 1] /\ s[k] = t[Len(w)]
      BY <2>5, <3>2
    <3>4. QED
      BY <2>6, <3>1, <3>3
  <2>8. \E p \in 2 .. Len(Strip(s)) - 1 : Strip(s)[p] = "nl"
    BY <1>6, <2>3, <2>5, <2>7, StripBetween
  <2>9. Strip(s) \in Seq(Char)
    BY <2>3, StripIs
  <2>10. Strip(s) # <<>> /\ ~Quoted(Strip(s))
    <3>1. PICK z : z = Strip(s)
      OBVIOUS
    <3>2. PICK p \in 2 .. Len(z) - 1 : z[p] = "nl"
      BY <2>8, <3>1
    <3>3. z \in Seq(Char) /\ Len(z) \in Nat
      BY <2>9, <3>1, LenProperties
    <3>4. ~Quoted(z)
      BY <3>2, <3>3, BreaksAreNotQuoted
    <3>5. Len(z) # 0
      BY <3>2, <3>3
    <3>6. QED
      BY <3>1, <3>4, <3>5
  <2>11. QED
    BY <1>2, <1>7, <2>2, <2>10, LoadsNothing
<1>11. QED
  BY <1>8, <1>9, <1>10

(***************************************************************************)
(* The first object of a text is found, whatever follows it.               *)
(***************************************************************************)

\* Its last brace is the one that closes its first.
Closes(w) == Folded(BalanceStep, Balances, Unbalanced, w).end = Len(w)

\* Past the end the count stands still.
LEMMA BalanceDone ==
  ASSUME NEW a \in Balances, a.end # 0, NEW r \in Seq(Char)
  PROVE  Folded(BalanceStep, Balances, a, r) = a
<1> DEFINE P == {s \in Seq(Char) : Folded(BalanceStep, Balances, a, s) = a}
<1>1. <<>> \in P
  <2>1. Folded(BalanceStep, Balances, a, <<>>) = a
    BY BalanceSteps, FoldedNone
  <2>2. QED
    BY <2>1, EmptySeq
<1>2. ASSUME NEW s \in Seq(Char), NEW ch \in Char, s \in P
      PROVE  Append(s, ch) \in P
  <2>1. Folded(BalanceStep, Balances, a, Append(s, ch)) = BalanceStep[<<Folded(BalanceStep, Balances, a, s), ch>>]
    BY BalanceSteps, FoldedAppend
  <2>2. BalanceStep[<<a, ch>>] = Balance(a, ch)
    BY DEF BalanceStep
  <2>3. Balance(a, ch) = a
    BY DEF Balance
  <2>4. Append(s, ch) \in Seq(Char)
    BY AppendProperties
  <2>5. QED
    BY <1>2, <2>1, <2>2, <2>3, <2>4
<1> HIDE DEF P
<1>3. Seq(Char) \subseteq P
  BY <1>1, <1>2, SeqInduction
<1>4. QED
  BY <1>3 DEF P

\* From the first brace to the one that closes it there is the object.
LEMMA BracesAround ==
  ASSUME NEW u, Plain(u), NEW w, Shaped(w), Closes(w), NEW r \in Seq(Char)
  PROVE  Braces(Around(u, w, r)) = w
<1>1. u \in Seq(Char) /\ w \in Seq(Char) /\ Len(u) \in Nat /\ \A i \in 1 .. Len(u) : u[i] # "open"
  BY LenProperties DEF Plain, Shaped
<1>2. PICK t : t = Around(u, w, r)
  OBVIOUS
<1>3. /\ t \in Seq(Char) /\ Len(t) = Len(u) + Len(w) + Len(r) /\ Len(w) \in Nat /\ Len(r) \in Nat
      /\ \A i \in 1 .. Len(u) : t[i] = u[i]
      /\ \A i \in 1 .. Len(w) : t[Len(u) + i] = w[i]
  <2>1. u \in Seq(Char) /\ w \in Seq(Char)
    BY <1>1
  <2>2. Lies(Char, t, u, w, r)
    BY <1>2, <2>1, AroundIs, Zenon
  <2>3. QED
    BY <2>2 DEF Lies
<1>4. Len(w) >= 6 /\ w[1] = "open"
  BY DEF Shaped
<1> DEFINE I == {i \in DOMAIN t : t[i] = "open"}
<1>5. Min(I) = Len(u) + 1
  <2>1. DOMAIN t = 1 .. Len(t) /\ Len(u) + 1 \in 1 .. Len(t) /\ t[Len(u) + 1] = "open"
    BY <1>1, <1>3, <1>4, LenProperties
  <2>2. Len(u) + 1 \in I /\ I \in SUBSET Nat
    BY <1>1, <2>1
  <2>3. \A i \in I : i > Len(u)
    BY <1>1, <1>3, <2>1
  <2> HIDE DEF I
  <2>4. PICK a : a = Min(I)
    OBVIOUS
  <2>5. a \in I /\ \A i \in I : a <= i
    <3>1. I # {}
      BY <2>2
    <3>2. QED
      BY <2>2, <2>4, <3>1, MinOf
  <2>6. a \in Nat /\ a <= Len(u) + 1 /\ a > Len(u)
    BY <2>2, <2>3, <2>5
  <2>7. QED
    BY <1>1, <2>4, <2>6
<1> HIDE DEF I
<1>6. PICK from : from = w \o r
  OBVIOUS
<1>7. SubSeq(t, Min(I), Len(t)) = from
  <2>1. PICK k : k = Len(u) + 1
    OBVIOUS
  <2>2. k \in 1 .. Len(u) + 1
    BY <1>1, <2>1
  <2>3. u \in Seq(Char)
    BY <1>1
  <2>4. w \in Seq(Char)
    BY <1>1
  <2>5. SubSeq(t, k, Len(t)) = Around(SubSeq(u, k, Len(u)), w, r)
    BY <1>2, <2>2, <2>3, <2>4, AroundFrom
  <2>6. SubSeq(u, k, Len(u)) = <<>>
    BY <1>1, <2>1, SubSeqEmpty
  <2>7. <<>> \o w = w
    BY <2>4, ConcatEmptySeq
  <2>8. QED
    BY <1>5, <1>6, <2>1, <2>5, <2>6, <2>7 DEF Around
<1>8. BalancedEnd(from) = Len(w)
  <2>1. from \in Seq(Char)
    BY <1>1, <1>6, ConcatProperties
  <2>2. BalancedEnd(from) = Folded(BalanceStep, Balances, Unbalanced, from).end
    BY <2>1, BalancedEndFolds
  <2>3. PICK b : b = Folded(BalanceStep, Balances, Unbalanced, w)
    OBVIOUS
  <2>4. w \in Seq(Char)
    BY <1>1
  <2>5. b \in Balances /\ b.end = Len(w) /\ b.end # 0
    <3>1. b \in Balances
      BY <2>3, <2>4, BalanceSteps, FoldedIn
    <3>2. QED
      BY <1>3, <1>4, <2>3, <3>1 DEF Closes
  <2>6. Folded(BalanceStep, Balances, Unbalanced, w \o r) = Folded(BalanceStep, Balances, b, r)
    BY <2>3, <2>4, BalanceSteps, FoldedConcat
  <2>7. Folded(BalanceStep, Balances, b, r) = b
    BY <2>5, BalanceDone
  <2>8. QED
    BY <1>6, <2>2, <2>5, <2>6, <2>7
<1>9. SubSeq(from, 1, Len(w)) = w
  <2>1. w \in Seq(Char)
    BY <1>1
  <2>2. 0 \in 0 .. Len(r)
    BY <1>3
  <2>3. SubSeq(w \o r, 1, Len(w) + 0) = w \o SubSeq(r, 1, 0)
    BY <2>1, <2>2, CutRight
  <2>4. SubSeq(r, 1, 0) = <<>> /\ Len(w) + 0 = Len(w) /\ w \o <<>> = w
    BY <1>3, <2>1, SubSeqEmpty, ConcatEmptySeq
  <2>5. QED
    BY <1>6, <2>3, <2>4
<1>10. Braces(t) = SubSeq(from, 1, IF BalancedEnd(from) = 0 THEN Len(from) - 1 ELSE BalancedEnd(from))
  BY <1>7 DEF Braces, I
<1>11. QED
  BY <1>2, <1>3, <1>4, <1>8, <1>9, <1>10

\* So whatever is around it, the object is what is extracted.
LEMMA ExtractAround ==
  ASSUME NEW answer \in Seq(Char), NEW u, Plain(u), (\E i \in 1 .. Len(u) : u[i] = "fence") => u[Len(u)] = "nl",
         NEW w, Shaped(w), Closes(w), NEW r \in Seq(Char), Sanitize(answer) = Around(u, w, r),
         Loads(w) # NoJson
  PROVE  Extract(answer) = {Loads(w)}
<1>1. PICK v, q : v = LStrip(u) /\ q = RStrip(r)
  OBVIOUS
<1>2. Strip(Around(u, w, r)) = Around(v, w, q) /\ Plain(v) /\ q \in Seq(Char)
  BY <1>1, StripKeeps
<1>3. v # <<>> /\ v[1] = "fence" => v[Len(v)] = "nl"
  <2>1. u \in Seq(Char) /\ Len(u) \in Nat /\ \A i \in 1 .. Len(u) : u[i] \in Char
    BY LenProperties DEF Plain
  <2>2. PICK k \in 1 .. Len(u) + 1 : v = SubSeq(u, k, Len(u))
    <3>1. u \in Seq(Char) /\ Solid(w)
      BY <2>1, ShapedIsSolid
    <3>2. \E k \in 1 .. Len(u) + 1 : LStrip(u) = SubSeq(u, k, Len(u))
      BY <3>1, StripAround
    <3>3. QED
      BY <1>1, <3>2
  <2>3. /\ Len(v) = IF k <= Len(u) THEN Len(u) - k + 1 ELSE 0
        /\ \A i \in 1 .. Len(u) - k + 1 : v[i] = u[k + i - 1]
        /\ v \in Seq(Char)
    <3>1. k \in Nat /\ \A i \in k .. Len(u) : u[i] \in Char
      BY <2>1
    <3>2. QED
      BY <2>1, <2>2, <3>1, SubSeqProperties
  <2>4. SUFFICES ASSUME v # <<>>, v[1] = "fence" PROVE v[Len(v)] = "nl"
    OBVIOUS
  <2>5. k <= Len(u) /\ k \in Nat
    <3>1. Len(v) # 0
      BY <2>3, <2>4, EmptySeq
    <3>2. QED
      BY <2>1, <2>3, <3>1
  <2>6. 1 \in 1 .. Len(u) - k + 1 /\ k + 1 - 1 = k /\ Len(v) \in 1 .. Len(u) - k + 1 /\ k + Len(v) - 1 = Len(u)
    BY <2>1, <2>3, <2>5
  <2>7. v[1] = u[k] /\ v[Len(v)] = u[Len(u)] /\ k \in 1 .. Len(u)
    BY <2>1, <2>3, <2>5, <2>6
  <2>8. QED
    BY <2>4, <2>7
<1>4. PICK x, y : Plain(x) /\ y \in Seq(Char) /\ Unfence(Around(v, w, q)) = Around(x, w, y)
  BY <1>2, <1>3, UnfenceAround
<1>5. PICK text : text = Around(x, w, y)
  OBVIOUS
<1>6. Loads(text) \in {NoJson, Loads(w)}
  BY <1>4, <1>5, LoadsAround
<1>7. Braces(text) = w
  BY <1>4, <1>5, BracesAround
<1>8. \E i \in DOMAIN text : text[i] = "open"
  <2>1. x \in Seq(Char) /\ w \in Seq(Char) /\ w[1] = "open" /\ Len(w) >= 6
    BY <1>4 DEF Plain, Shaped
  <2>2. Lies(Char, text, x, w, y)
    BY <1>4, <1>5, <2>1, AroundIs, Zenon
  <2>3. 1 \in 1 .. Len(w) /\ Len(x) + 1 \in 1 .. Len(text) /\ DOMAIN text = 1 .. Len(text)
    BY <2>1, <2>2, LenProperties DEF Lies
  <2>4. text[Len(x) + 1] = w[1]
    BY <2>2, <2>3 DEF Lies
  <2>5. QED
    BY <2>1, <2>3, <2>4
<1>9. Unfence(Strip(Sanitize(answer))) = text
  BY <1>2, <1>4, <1>5
<1>10. Extract(answer) = IF Loads(text) # NoJson THEN {Loads(text)}
                         ELSE IF \A i \in DOMAIN text : text[i] # "open" THEN {NoJson}
                         ELSE IF Loads(Braces(text)) # NoJson THEN {Loads(Braces(text))}
                         ELSE Repair(text)
  BY <1>9, Zenon DEF Extract
<1>11. QED
  BY <1>6, <1>7, <1>8, <1>10, Zenon

(***************************************************************************)
(* The inside of the string: as it is written, as it is once sanitized,    *)
(* and as it is read.                                                      *)
(***************************************************************************)

\* The three states within a string that has no escape open.
Within == [inside |-> TRUE, escaped |-> FALSE]
Writing(out) == [at |-> Within, out |-> out]
Reading(text) == [ok |-> TRUE, escaped |-> FALSE, text |-> text]
Balancing(at) == [at |-> at, depth |-> 1, inside |-> TRUE, escaped |-> FALSE, end |-> 0]

\* What is written comes out as new, within a string all along, and is read as text.
Sanitizes(written, new) ==
  \A out \in Seq(Char) :
    Folded(WriteStep, Writes, Writing(out), written) = Writing(out \o new)
\* Read, the inside of a string adds its text ...
ReadsAs(new, text) ==
  \A t \in Seq(Char) : Folded(SpellStep, Reads, Reading(t), new) = Reading(t \o text)
\* ... and counting braces goes by it ...
StaysWithin(new) ==
  \A at \in Nat : Folded(BalanceStep, Balances, Balancing(at), new) = Balancing(at + Len(new))
\* ... so that what is written turns into new, which is read as text.
Turns(written, new, text) ==
  /\ written \in Seq(Char) /\ new \in Seq(Char) /\ text \in Seq(Char)
  /\ Sanitizes(written, new) /\ ReadsAs(new, text) /\ StaysWithin(new)

\* The states within a string are states.
LEMMA StatesWithin ==
  /\ \A s \in Seq(Char) : Writing(s) \in Writes /\ Reading(s) \in Reads
  /\ \A n \in Nat : Balancing(n) \in Balances
BY DEF Writing, Within, Writes, Reading, Reads, Balancing, Balances

\* The empty string.
LEMMA NothingTurns == Turns(<<>>, <<>>, <<>>)
<1>1. PICK e : e = <<>>
  OBVIOUS
<1>2. e \in Seq(Char) /\ Len(e) = 0
  BY <1>1, EmptySeq
<1>3. Sanitizes(e, e)
  <2> SUFFICES ASSUME NEW out \in Seq(Char)
               PROVE  Folded(WriteStep, Writes, Writing(out), e) = Writing(out \o e)
    BY DEF Sanitizes
  <2>1. Folded(WriteStep, Writes, Writing(out), <<>>) = Writing(out)
    BY StatesWithin, WriteSteps, FoldedNone
  <2>2. out \o <<>> = out
    BY ConcatEmptySeq
  <2>3. QED
    BY <1>1, <2>1, <2>2
<1>4. ReadsAs(e, e)
  <2> SUFFICES ASSUME NEW t \in Seq(Char)
               PROVE  Folded(SpellStep, Reads, Reading(t), e) = Reading(t \o e)
    BY DEF ReadsAs
  <2>1. Folded(SpellStep, Reads, Reading(t), <<>>) = Reading(t)
    BY StatesWithin, SpellSteps, FoldedNone
  <2>2. t \o <<>> = t
    BY ConcatEmptySeq
  <2>3. QED
    BY <1>1, <2>1, <2>2
<1>5. StaysWithin(e)
  <2> SUFFICES ASSUME NEW at \in Nat
               PROVE  Folded(BalanceStep, Balances, Balancing(at), e) = Balancing(at + Len(e))
    BY DEF StaysWithin
  <2>1. Folded(BalanceStep, Balances, Balancing(at), <<>>) = Balancing(at)
    BY StatesWithin, BalanceSteps, FoldedNone
  <2>2. at + Len(e) = at
    BY <1>2
  <2>3. QED
    BY <1>1, <2>1, <2>2
<1>6. QED
  BY <1>1, <1>2, <1>3, <1>4, <1>5 DEF Turns

\* One part of a string after another.
LEMMA TurnsOn ==
  ASSUME NEW s, NEW n, NEW t, Turns(s, n, t), NEW s2, NEW n2, NEW t2, Turns(s2, n2, t2)
  PROVE  Turns(s \o s2, n \o n2, t \o t2)
<1>1. /\ s \in Seq(Char) /\ n \in Seq(Char) /\ t \in Seq(Char)
      /\ s2 \in Seq(Char) /\ n2 \in Seq(Char) /\ t2 \in Seq(Char)
  BY DEF Turns
<1>2. s \o s2 \in Seq(Char) /\ n \o n2 \in Seq(Char) /\ t \o t2 \in Seq(Char)
  BY <1>1, ConcatProperties
<1>3. Sanitizes(s \o s2, n \o n2)
  <2> SUFFICES ASSUME NEW out \in Seq(Char)
               PROVE  Folded(WriteStep, Writes, Writing(out), s \o s2) = Writing(out \o (n \o n2))
    BY DEF Sanitizes
  <2>1. PICK o : o = out \o n
    OBVIOUS
  <2>2. o \in Seq(Char)
    BY <1>1, <2>1, ConcatProperties
  <2>3. /\ Folded(WriteStep, Writes, Writing(out), s) = Writing(o)
        /\ Folded(WriteStep, Writes, Writing(o), s2) = Writing(o \o n2)
    BY <2>1, <2>2 DEF Turns, Sanitizes
  <2>4. PICK a : a = Writing(out)
    OBVIOUS
  <2>5. a \in Writes
    BY <2>4, StatesWithin
  <2>6. Folded(WriteStep, Writes, a, s \o s2) = Folded(WriteStep, Writes, Folded(WriteStep, Writes, a, s), s2)
    BY <1>1, <2>5, WriteSteps, FoldedConcat
  <2>7. (out \o n) \o n2 = out \o (n \o n2)
    BY <1>1, ConcatAssociative
  <2>8. QED
    BY <2>1, <2>3, <2>4, <2>6, <2>7
<1>4. ReadsAs(n \o n2, t \o t2)
  <2> SUFFICES ASSUME NEW out \in Seq(Char)
               PROVE  Folded(SpellStep, Reads, Reading(out), n \o n2) = Reading(out \o (t \o t2))
    BY DEF ReadsAs
  <2>1. PICK o : o = out \o t
    OBVIOUS
  <2>2. o \in Seq(Char)
    BY <1>1, <2>1, ConcatProperties
  <2>3. /\ Folded(SpellStep, Reads, Reading(out), n) = Reading(o)
        /\ Folded(SpellStep, Reads, Reading(o), n2) = Reading(o \o t2)
    BY <2>1, <2>2 DEF Turns, ReadsAs
  <2>4. PICK a : a = Reading(out)
    OBVIOUS
  <2>5. a \in Reads
    BY <2>4, StatesWithin
  <2>6. Folded(SpellStep, Reads, a, n \o n2) = Folded(SpellStep, Reads, Folded(SpellStep, Reads, a, n), n2)
    BY <1>1, <2>5, SpellSteps, FoldedConcat
  <2>7. (out \o t) \o t2 = out \o (t \o t2)
    <3>1. t \in Seq(Char) /\ t2 \in Seq(Char)
      BY <1>1
    <3>2. QED
      BY <3>1, ConcatAssociative
  <2>8. QED
    BY <2>1, <2>3, <2>4, <2>6, <2>7
<1>5. StaysWithin(n \o n2)
  <2> SUFFICES ASSUME NEW at \in Nat
               PROVE  Folded(BalanceStep, Balances, Balancing(at), n \o n2) = Balancing(at + Len(n \o n2))
    BY DEF StaysWithin
  <2>1. PICK o : o = at + Len(n)
    OBVIOUS
  <2>2. Len(n) \in Nat /\ Len(n2) \in Nat /\ Len(n \o n2) = Len(n) + Len(n2)
    BY <1>1, LenProperties, ConcatProperties
  <2>3. o \in Nat /\ o + Len(n2) = at + Len(n \o n2)
    BY <2>1, <2>2
  <2>4. /\ Folded(BalanceStep, Balances, Balancing(at), n) = Balancing(o)
        /\ Folded(BalanceStep, Balances, Balancing(o), n2) = Balancing(o + Len(n2))
    BY <2>1, <2>3 DEF Turns, StaysWithin
  <2>5. PICK a : a = Balancing(at)
    OBVIOUS
  <2>6. a \in Balances
    BY <2>5, StatesWithin
  <2>7. Folded(BalanceStep, Balances, a, n \o n2) = Folded(BalanceStep, Balances, Folded(BalanceStep, Balances, a, n), n2)
    BY <1>1, <2>6, BalanceSteps, FoldedConcat
  <2>8. QED
    BY <2>3, <2>4, <2>5, <2>7
<1>6. QED
  BY <1>1, <1>2, <1>3, <1>4, <1>5 DEF Turns

\* One character, and one that a backslash comes before.
LEMMA AppendToOne ==
  ASSUME NEW V, NEW d \in V, NEW e \in V
  PROVE  Append(<<d>>, e) = <<d, e>>
<1>1. PICK s, t : s = <<d>> /\ t = <<d, e>>
  OBVIOUS
<1>2. s \in Seq(V) /\ Len(s) = 1 /\ s[1] = d /\ t \in Seq(V) /\ Len(t) = 2 /\ t[1] = d /\ t[2] = e
  BY <1>1
<1>3. PICK x : x = Append(s, e)
  OBVIOUS
<1>4. x \in Seq(V) /\ Len(x) = Len(s) + 1 /\ (\A i \in 1 .. Len(s) : x[i] = s[i]) /\ x[Len(s) + 1] = e
  <2>1. s \in Seq(V)
    BY <1>2
  <2>2. QED
    BY <1>3, <2>1, AppendProperties
<1>5. Len(x) = 2 /\ x[1] = d /\ x[2] = e
  BY <1>2, <1>4
<1>6. x = t
  <2>1. \A i \in 1 .. Len(x) : x[i] = t[i]
    BY <1>2, <1>5
  <2>2. QED
    BY <1>2, <1>4, <1>5, <2>1, SeqEqual
<1>7. QED
  BY <1>1, <1>3, <1>6

\* Two elements, two steps.
LEMMA FoldedTwo ==
  ASSUME NEW A, NEW V, NEW G, Steps(G, A, V), NEW a \in A, NEW d \in V, NEW e \in V
  PROVE  Folded(G, A, a, <<d, e>>) = G[<<G[<<a, d>>], e>>]
<1>1. Folded(G, A, a, <<d>>) = G[<<a, d>>]
  BY FoldedOne
<1>2. PICK s : s = <<d>>
  OBVIOUS
<1>3. s \in Seq(V)
  BY <1>2
<1>4. Append(s, e) = <<d, e>>
  BY <1>2, AppendToOne
<1>5. Folded(G, A, a, Append(s, e)) = G[<<Folded(G, A, a, s), e>>]
  BY <1>3, FoldedAppend
<1>6. QED
  BY <1>1, <1>2, <1>4, <1>5

\* A character that needs no escape, and the line break that is given one.
LEMMA StepsWithin ==
  ASSUME NEW ch \in Char, ch # "slash", ch # "quote"
  PROVE  /\ ch # "nl" => Turns(<<ch>>, <<ch>>, <<ch>>)
         /\ ch = "nl" => Turns(<<ch>>, <<"slash", "n">>, <<ch>>)
<1>1. PICK s : s = <<ch>>
  OBVIOUS
<1>2. s \in Seq(Char) /\ Len(s) = 1
  BY <1>1
<1>3. ASSUME NEW out \in Seq(Char)
      PROVE  out \o s = Append(out, ch)
  BY <1>1, AppendIsConcat
<1>4. CASE ch # "nl"
  <2>1. Sanitizes(s, s)
    <3> SUFFICES ASSUME NEW out \in Seq(Char)
                 PROVE  Folded(WriteStep, Writes, Writing(out), s) = Writing(out \o s)
      BY DEF Sanitizes
    <3>1. PICK a : a = Writing(out)
      OBVIOUS
    <3>2. a \in Writes
      BY <3>1, StatesWithin
    <3>3. Folded(WriteStep, Writes, a, <<ch>>) = WriteStep[<<a, ch>>]
      BY <3>2, WriteSteps, FoldedOne
    <3>4. WriteStep[<<a, ch>>] = Write(a, ch)
      BY <3>2 DEF WriteStep
    <3>5. Write(a, ch) = Writing(Append(out, ch))
      BY <1>4, <3>1 DEF Write, Track, Writing, Within
    <3>6. QED
      BY <1>1, <1>3, <3>1, <3>3, <3>4, <3>5
  <2>2. ReadsAs(s, s)
    <3> SUFFICES ASSUME NEW out \in Seq(Char)
                 PROVE  Folded(SpellStep, Reads, Reading(out), s) = Reading(out \o s)
      BY DEF ReadsAs
    <3>1. PICK a : a = Reading(out)
      OBVIOUS
    <3>2. a \in Reads
      BY <3>1, StatesWithin
    <3>3. Folded(SpellStep, Reads, a, <<ch>>) = SpellStep[<<a, ch>>]
      BY <3>2, SpellSteps, FoldedOne
    <3>4. SpellStep[<<a, ch>>] = Spell(a, ch)
      BY <3>2 DEF SpellStep
    <3>5. Spell(a, ch) = Reading(Append(out, ch))
      BY <1>4, <3>1 DEF Spell, Reading
    <3>6. QED
      BY <1>1, <1>3, <3>1, <3>3, <3>4, <3>5
  <2>3. StaysWithin(s)
    <3> SUFFICES ASSUME NEW at \in Nat
                 PROVE  Folded(BalanceStep, Balances, Balancing(at), s) = Balancing(at + 1)
      BY <1>2 DEF StaysWithin
    <3>1. PICK a : a = Balancing(at)
      OBVIOUS
    <3>2. a \in Balances
      BY <3>1, StatesWithin
    <3>3. Folded(BalanceStep, Balances, a, <<ch>>) = BalanceStep[<<a, ch>>]
      BY <3>2, BalanceSteps, FoldedOne
    <3>4. BalanceStep[<<a, ch>>] = Balance(a, ch)
      BY <3>2 DEF BalanceStep
    <3>5. Balance(a, ch) = Balancing(at + 1)
      BY <3>1 DEF Balance, Balancing
    <3>6. QED
      BY <1>1, <3>1, <3>3, <3>4, <3>5
  <2>4. QED
    BY <1>1, <1>2, <1>4, <2>1, <2>2, <2>3 DEF Turns
<1>5. CASE ch = "nl"
  <2>1. PICK z : z = <<"slash", "n">>
    OBVIOUS
  <2> "slash" \in Char /\ "n" \in Char
    BY DEF Char
  <2>2. z \in Seq(Char) /\ Len(z) = 2
    BY <2>1
  <2>3. Sanitizes(s, z)
    <3> SUFFICES ASSUME NEW out \in Seq(Char)
                 PROVE  Folded(WriteStep, Writes, Writing(out), s) = Writing(out \o z)
      BY DEF Sanitizes
    <3>1. PICK a : a = Writing(out)
      OBVIOUS
    <3>2. a \in Writes
      BY <3>1, StatesWithin
    <3>3. Folded(WriteStep, Writes, a, <<ch>>) = WriteStep[<<a, ch>>]
      BY <3>2, WriteSteps, FoldedOne
    <3>4. WriteStep[<<a, ch>>] = Write(a, ch)
      BY <3>2 DEF WriteStep
    <3>5. Write(a, ch) = Writing(out \o z)
      BY <1>5, <2>1, <3>1 DEF Write, Writing, Within
    <3>6. QED
      BY <1>1, <3>1, <3>3, <3>4, <3>5
  <2>4. ReadsAs(z, s)
    <3> SUFFICES ASSUME NEW out \in Seq(Char)
                 PROVE  Folded(SpellStep, Reads, Reading(out), z) = Reading(out \o s)
      BY DEF ReadsAs
    <3>1. PICK a : a = Reading(out)
      OBVIOUS
    <3>2. a \in Reads
      BY <3>1, StatesWithin
    <3>3. Folded(SpellStep, Reads, a, <<"slash", "n">>) = SpellStep[<<SpellStep[<<a, "slash">>], "n">>]
      BY <3>2, SpellSteps, FoldedTwo
    <3>4. PICK b : b = SpellStep[<<a, "slash">>]
      OBVIOUS
    <3>5. b = Spell(a, "slash") /\ b \in Reads
      BY <3>2, <3>4, SpellSteps DEF SpellStep, Steps
    <3>6. SpellStep[<<b, "n">>] = Spell(b, "n")
      BY <3>5 DEF SpellStep
    <3>7. Spell(b, "n") = Reading(Append(out, "nl"))
      BY <3>1, <3>5 DEF Spell, Reading
    <3>8. QED
      BY <1>3, <1>5, <2>1, <3>1, <3>3, <3>4, <3>6, <3>7
  <2>5. StaysWithin(z)
    <3> SUFFICES ASSUME NEW at \in Nat
                 PROVE  Folded(BalanceStep, Balances, Balancing(at), z) = Balancing(at + 2)
      BY <2>2 DEF StaysWithin
    <3>1. PICK a : a = Balancing(at)
      OBVIOUS
    <3>2. a \in Balances
      BY <3>1, StatesWithin
    <3>3. Folded(BalanceStep, Balances, a, <<"slash", "n">>) = BalanceStep[<<BalanceStep[<<a, "slash">>], "n">>]
      BY <3>2, BalanceSteps, FoldedTwo
    <3>4. PICK b : b = BalanceStep[<<a, "slash">>]
      OBVIOUS
    <3>5. b = Balance(a, "slash") /\ b \in Balances
      BY <3>2, <3>4, BalanceSteps DEF BalanceStep, Steps
    <3>6. BalanceStep[<<b, "n">>] = Balance(b, "n")
      BY <3>5 DEF BalanceStep
    <3>7. Balance(b, "n") = Balancing(at + 1 + 1)
      BY <3>1, <3>5 DEF Balance, Balancing
    <3>8. at + 1 + 1 = at + 2
      OBVIOUS
    <3>9. QED
      BY <2>1, <3>1, <3>3, <3>4, <3>6, <3>7, <3>8
  <2>6. QED
    BY <1>1, <1>2, <1>5, <2>1, <2>2, <2>3, <2>4, <2>5 DEF Turns
<1>6. QED
  BY <1>4, <1>5

\* A backslash and what it escapes.
LEMMA EscapesWithin ==
  ASSUME NEW ch \in {"n", "quote", "slash"}
  PROVE  Turns(<<"slash", ch>>, <<"slash", ch>>, <<IF ch = "n" THEN "nl" ELSE ch>>)
<1> DEFINE m == IF ch = "n" THEN "nl" ELSE ch
<1> "slash" \in Char /\ ch \in Char /\ m \in Char
  BY DEF Char
<1> HIDE DEF m
<1>1. PICK z, s : z = <<"slash", ch>> /\ s = <<m>>
  OBVIOUS
<1>2. z \in Seq(Char) /\ Len(z) = 2 /\ s \in Seq(Char)
  BY <1>1
<1>3. Sanitizes(z, z)
  <2> SUFFICES ASSUME NEW out \in Seq(Char)
               PROVE  Folded(WriteStep, Writes, Writing(out), z) = Writing(out \o z)
    BY DEF Sanitizes
  <2>1. PICK a : a = Writing(out)
    OBVIOUS
  <2>2. a \in Writes
    BY <2>1, StatesWithin
  <2>3. Folded(WriteStep, Writes, a, <<"slash", ch>>) = WriteStep[<<WriteStep[<<a, "slash">>], ch>>]
    BY <2>2, WriteSteps, FoldedTwo
  <2>4. PICK b : b = WriteStep[<<a, "slash">>]
    OBVIOUS
  <2>5. b = Write(a, "slash") /\ b \in Writes
    BY <2>2, <2>4, WriteSteps DEF WriteStep, Steps
  <2>6. WriteStep[<<b, ch>>] = Write(b, ch)
    BY <2>5 DEF WriteStep
  <2>7. b = [at |-> [inside |-> TRUE, escaped |-> TRUE], out |-> Append(out, "slash")]
    BY <2>1, <2>5 DEF Write, Track, Writing, Within
  <2>8. Write(b, ch) = Writing(Append(Append(out, "slash"), ch))
    BY <2>7 DEF Write, Track, Writing, Within
  <2>9. Append(Append(out, "slash"), ch) = out \o z
    <3>1. PICK x : x = Append(out, "slash")
      OBVIOUS
    <3>2. x \in Seq(Char) /\ x = out \o <<"slash">>
      BY <3>1, AppendProperties, AppendIsConcat
    <3>3. Append(x, ch) = x \o <<ch>>
      BY <3>2, AppendIsConcat
    <3>4. <<"slash">> \in Seq(Char) /\ <<ch>> \in Seq(Char)
      OBVIOUS
    <3>5. (out \o <<"slash">>) \o <<ch>> = out \o (<<"slash">> \o <<ch>>)
      BY <3>4, ConcatAssociative
    <3>6. <<"slash">> \o <<ch>> = <<"slash", ch>>
      <4>1. Append(<<"slash">>, ch) = <<"slash", ch>>
        BY AppendToOne
      <4>2. Append(<<"slash">>, ch) = <<"slash">> \o <<ch>>
        BY <3>4, AppendIsConcat
      <4>3. QED
        BY <4>1, <4>2
    <3>7. QED
      BY <1>1, <3>1, <3>2, <3>3, <3>5, <3>6
  <2>10. QED
    BY <1>1, <2>1, <2>3, <2>4, <2>6, <2>8, <2>9
<1>4. ReadsAs(z, s)
  <2> SUFFICES ASSUME NEW out \in Seq(Char)
               PROVE  Folded(SpellStep, Reads, Reading(out), z) = Reading(out \o s)
    BY DEF ReadsAs
  <2>1. PICK a : a = Reading(out)
    OBVIOUS
  <2>2. a \in Reads
    BY <2>1, StatesWithin
  <2>3. Folded(SpellStep, Reads, a, <<"slash", ch>>) = SpellStep[<<SpellStep[<<a, "slash">>], ch>>]
    BY <2>2, SpellSteps, FoldedTwo
  <2>4. PICK b : b = SpellStep[<<a, "slash">>]
    OBVIOUS
  <2>5. b = Spell(a, "slash") /\ b \in Reads
    BY <2>2, <2>4, SpellSteps DEF SpellStep, Steps
  <2>6. SpellStep[<<b, ch>>] = Spell(b, ch)
    BY <2>5 DEF SpellStep
  <2>7. Spell(b, ch) = Reading(Append(out, m))
    BY <2>1, <2>5 DEF Spell, Reading, m
  <2>8. out \o s = Append(out, m)
    BY <1>1, AppendIsConcat
  <2>9. QED
    BY <1>1, <2>1, <2>3, <2>4, <2>6, <2>7, <2>8
<1>5. StaysWithin(z)
  <2> SUFFICES ASSUME NEW at \in Nat
               PROVE  Folded(BalanceStep, Balances, Balancing(at), z) = Balancing(at + 2)
    BY <1>2 DEF StaysWithin
  <2>1. PICK a : a = Balancing(at)
    OBVIOUS
  <2>2. a \in Balances
    BY <2>1, StatesWithin
  <2>3. Folded(BalanceStep, Balances, a, <<"slash", ch>>) = BalanceStep[<<BalanceStep[<<a, "slash">>], ch>>]
    BY <2>2, BalanceSteps, FoldedTwo
  <2>4. PICK b : b = BalanceStep[<<a, "slash">>]
    OBVIOUS
  <2>5. b = Balance(a, "slash") /\ b \in Balances
    BY <2>2, <2>4, BalanceSteps DEF BalanceStep, Steps
  <2>6. BalanceStep[<<b, ch>>] = Balance(b, ch)
    BY <2>5 DEF BalanceStep
  <2>7. Balance(b, ch) = Balancing(at + 1 + 1)
    BY <2>1, <2>5 DEF Balance, Balancing
  <2>8. at + 1 + 1 = at + 2
    OBVIOUS
  <2>9. QED
    BY <1>1, <2>1, <2>3, <2>4, <2>6, <2>7, <2>8
<1>6. QED
  BY <1>1, <1>2, <1>3, <1>4, <1>5 DEF Turns, m

\* Each piece, as it is written and as it is read.
LEMMA PieceTurns ==
  ASSUME NEW p \in Piece
  PROVE  p.written \in Seq(Char) /\ \E new : Turns(p.written, new, <<p.means>>)
<1>1. \E new : Turns(p.written, new, <<p.means>>)
  <2>1. CASE p = [written |-> <<"x">>, means |-> "x"]
    <3>1. "x" \in Char
      BY DEF Char
    <3>2. Turns(<<"x">>, <<"x">>, <<"x">>)
      BY <3>1, StepsWithin
    <3>3. QED
      BY <2>1, <3>2
  <2>2. CASE p = [written |-> <<"nl">>, means |-> "nl"]
    <3>1. "nl" \in Char
      BY DEF Char
    <3>2. Turns(<<"nl">>, <<"slash", "n">>, <<"nl">>)
      BY <3>1, StepsWithin
    <3>3. QED
      BY <2>2, <3>2
  <2>3. CASE p = [written |-> <<"slash", "n">>, means |-> "nl"]
    <3>1. Turns(<<"slash", "n">>, <<"slash", "n">>, <<IF "n" = "n" THEN "nl" ELSE "n">>)
      BY EscapesWithin
    <3>2. QED
      BY <2>3, <3>1
  <2>4. CASE p = [written |-> <<"slash", "quote">>, means |-> "quote"]
    <3>1. Turns(<<"slash", "quote">>, <<"slash", "quote">>, <<IF "quote" = "n" THEN "nl" ELSE "quote">>)
      BY EscapesWithin
    <3>2. QED
      BY <2>4, <3>1
  <2>5. CASE p = [written |-> <<"slash", "slash">>, means |-> "slash"]
    <3>1. Turns(<<"slash", "slash">>, <<"slash", "slash">>, <<IF "slash" = "n" THEN "nl" ELSE "slash">>)
      BY EscapesWithin
    <3>2. QED
      BY <2>5, <3>1
  <2>6. CASE p = [written |-> <<"open">>, means |-> "open"]
    <3>1. "open" \in Char
      BY DEF Char
    <3>2. Turns(<<"open">>, <<"open">>, <<"open">>)
      BY <3>1, StepsWithin
    <3>3. QED
      BY <2>6, <3>2
  <2>7. CASE p = [written |-> <<"close">>, means |-> "close"]
    <3>1. "close" \in Char
      BY DEF Char
    <3>2. Turns(<<"close">>, <<"close">>, <<"close">>)
      BY <3>1, StepsWithin
    <3>3. QED
      BY <2>7, <3>2
  <2>8. QED
    BY <2>1, <2>2, <2>3, <2>4, <2>5, <2>6, <2>7 DEF Piece
<1>2. QED
  BY <1>1 DEF Turns

\* The inside of a string, piece by piece.
LEMMA WrittenAppend ==
  ASSUME NEW inside \in Seq(Piece), NEW p \in Piece
  PROVE  /\ Written(<<>>) = <<>> /\ Meaning(<<>>) = <<>>
         /\ Written(Append(inside, p)) = Written(inside) \o p.written
         /\ Meaning(Append(inside, p)) = Meaning(inside) \o <<p.means>>
<1> DEFINE M == [q \in Piece |-> q.written]
<1>1. Gives(M, Piece, Char)
  <2>1. \A q \in Piece : q.written \in Seq(Char)
    BY PieceTurns
  <2>2. QED
    BY <2>1 DEF Gives
<1>2. ASSUME NEW s \in Seq(Piece)
      PROVE  Written(s) = FlattenSeq(Mapped(M, s))
  <2>1. \A i \in DOMAIN s : s[i] \in Piece
    BY LenProperties
  <2>2. [i \in DOMAIN s |-> s[i].written] = Mapped(M, s)
    BY <2>1 DEF Mapped
  <2>3. QED
    BY <2>2 DEF Written
<1> HIDE DEF M
<1>3. M[p] = p.written
  BY DEF M
<1>4. PICK e, one, more : e = <<>> /\ one = <<p>> /\ more = Append(inside, p)
  OBVIOUS
<1>5. e \in Seq(Piece) /\ one \in Seq(Piece) /\ more \in Seq(Piece) /\ more = inside \o one
  BY <1>4, AppendIsConcat, AppendProperties
<1>6. Written(e) = <<>>
  <2>1. FlattenSeq(Mapped(M, <<>>)) = <<>>
    BY <1>1, MappedOne
  <2>2. QED
    BY <1>2, <1>4, <1>5, <2>1
<1>7. Written(more) = Written(inside) \o p.written
  <2>1. FlattenSeq(Mapped(M, inside \o one)) = FlattenSeq(Mapped(M, inside)) \o FlattenSeq(Mapped(M, one))
    BY <1>1, <1>5, MappedConcat
  <2>2. FlattenSeq(Mapped(M, <<p>>)) = M[p]
    BY <1>1, MappedOne
  <2>3. QED
    BY <1>2, <1>3, <1>4, <1>5, <2>1, <2>2
<1>8. Meaning(e) = <<>>
  BY <1>4 DEF Meaning
<1>9. Meaning(more) = Meaning(inside) \o <<p.means>>
  <2> DEFINE A == {q.means : q \in Piece}
  <2>1. PICK x, y, n : x = Meaning(inside) /\ y = Meaning(more) /\ n = Len(inside)
    OBVIOUS
  <2>2. /\ n \in Nat /\ DOMAIN inside = 1 .. n /\ DOMAIN more = 1 .. n + 1
        /\ \A i \in 1 .. n : inside[i] \in Piece /\ more[i] = inside[i]
        /\ more[n + 1] = p
    BY <1>4, <1>5, <2>1, LenProperties, AppendProperties
  <2>3. x \in Seq(A) /\ Len(x) = n /\ \A i \in 1 .. n : x[i] = inside[i].means
    <3>1. x = [i \in 1 .. n |-> inside[i].means]
      BY <2>1, <2>2 DEF Meaning
    <3>2. \A i \in 1 .. n : inside[i].means \in A
      BY <2>2
    <3> HIDE DEF A
    <3>3. QED
      BY <2>2, <3>1, <3>2
  <2>4. y \in Seq(A) /\ Len(y) = n + 1 /\ \A i \in 1 .. n + 1 : y[i] = more[i].means
    <3>1. y = [i \in 1 .. n + 1 |-> more[i].means]
      BY <2>1, <2>2 DEF Meaning
    <3>2. \A i \in 1 .. n + 1 : more[i].means \in A
      BY <2>2
    <3> HIDE DEF A
    <3>3. QED
      BY <2>2, <3>1, <3>2
  <2>5. p.means \in A
    OBVIOUS
  <2> HIDE DEF A
  <2>6. PICK z : z = Append(x, p.means)
    OBVIOUS
  <2>7. /\ z \in Seq(A) /\ Len(z) = Len(x) + 1 /\ (\A i \in 1 .. Len(x) : z[i] = x[i])
        /\ z[Len(x) + 1] = p.means
    <3>1. x \in Seq(A)
      BY <2>3
    <3>2. QED
      BY <2>5, <2>6, <3>1, AppendProperties
  <2>8. \A i \in 1 .. n + 1 : y[i] = z[i]
    <3> SUFFICES ASSUME NEW i \in 1 .. n + 1 PROVE y[i] = z[i]
      OBVIOUS
    <3>1. CASE i = n + 1
      BY <2>2, <2>3, <2>4, <2>7, <3>1
    <3>2. CASE i \in 1 .. n
      BY <2>2, <2>3, <2>4, <2>7, <3>2
    <3>3. QED
      BY <2>2, <3>1, <3>2
  <2>9. y = z
    BY <2>3, <2>4, <2>7, <2>8, SeqEqual
  <2>10. z = x \o <<p.means>>
    <3>1. x \in Seq(A)
      BY <2>3
    <3>2. QED
      BY <2>5, <2>6, <3>1, AppendIsConcat
  <2>11. QED
    BY <2>1, <2>9, <2>10
<1>10. QED
  BY <1>4, <1>6, <1>7, <1>8, <1>9

\* So the whole of it: sanitized, it is read as what was meant.
LEMMA InsideTurns ==
  ASSUME NEW inside \in Seq(Piece)
  PROVE  \E new : Turns(Written(inside), new, Meaning(inside))
<1> DEFINE P == {s \in Seq(Piece) : \E new : Turns(Written(s), new, Meaning(s))}
<1>1. <<>> \in P
  <2>1. PICK p : p \in Piece
    BY DEF Piece
  <2>2. <<>> \in Seq(Piece)
    OBVIOUS
  <2>3. Written(<<>>) = <<>> /\ Meaning(<<>>) = <<>>
    BY <2>1, <2>2, WrittenAppend
  <2>4. Turns(Written(<<>>), <<>>, Meaning(<<>>))
    BY <2>3, NothingTurns
  <2>5. QED
    BY <2>2, <2>4
<1>2. ASSUME NEW s \in Seq(Piece), NEW p \in Piece, s \in P
      PROVE  Append(s, p) \in P
  <2>1. PICK new : Turns(Written(s), new, Meaning(s))
    BY <1>2
  <2>2. PICK n : Turns(p.written, n, <<p.means>>)
    BY PieceTurns
  <2>3. Turns(Written(s) \o p.written, new \o n, Meaning(s) \o <<p.means>>)
    BY <2>1, <2>2, TurnsOn
  <2>4. /\ Written(Append(s, p)) = Written(s) \o p.written
        /\ Meaning(Append(s, p)) = Meaning(s) \o <<p.means>>
    BY WrittenAppend
  <2>5. Append(s, p) \in Seq(Piece)
    BY AppendProperties
  <2>6. QED
    BY <2>3, <2>4, <2>5
<1> HIDE DEF P
<1>3. Seq(Piece) \subseteq P
  BY <1>1, <1>2, SeqInduction
<1>4. QED
  BY <1>3 DEF P

(***************************************************************************)
(* The object as it is once sanitized.                                     *)
(***************************************************************************)

\* The object as ObjectOf writes it, around the inside of its string.
Opening == <<"open", "nl", "quote">>
Closing == <<"quote", "nl", "close">>
Boxed(n) == Around(Opening, n, Closing)

\* What the object starts and ends with.
LEMMA OpeningIs ==
  /\ Opening \in Seq(Char) /\ Len(Opening) = 3
  /\ Opening[1] = "open" /\ Opening[2] = "nl" /\ Opening[3] = "quote"
  /\ Closing \in Seq(Char) /\ Len(Closing) = 3
  /\ Closing[1] = "quote" /\ Closing[2] = "nl" /\ Closing[3] = "close"
BY DEF Opening, Closing, Char

\* The object has its shape whatever its string is.
LEMMA BoxedIs ==
  ASSUME NEW n \in Seq(Char)
  PROVE  /\ Shaped(Boxed(n)) /\ Len(Boxed(n)) = Len(n) + 6
         /\ Boxed(n)[3] = "quote" /\ Boxed(n)[Len(n) + 4] = "quote"
         /\ \A i \in 1 .. Len(n) : Boxed(n)[3 + i] = n[i]
<1>1. PICK w, m, h, c : w = Boxed(n) /\ m = Len(n) /\ h = Opening /\ c = Closing
  OBVIOUS
<1>2. /\ h \in Seq(Char) /\ c \in Seq(Char) /\ Len(h) = 3 /\ Len(c) = 3
      /\ h[1] = "open" /\ h[2] = "nl" /\ h[3] = "quote"
      /\ c[1] = "quote" /\ c[2] = "nl" /\ c[3] = "close"
  BY <1>1, OpeningIs
<1>3. Lies(Char, w, h, n, c)
  <2>1. h \in Seq(Char)
    BY <1>2
  <2>2. c \in Seq(Char)
    BY <1>2
  <2>3. Lies(Char, Around(h, n, c), h, n, c)
    BY <2>1, <2>2, AroundIs, Zenon
  <2>4. QED
    BY <1>1, <2>3 DEF Boxed
<1>4. /\ w \in Seq(Char) /\ Len(w) = 3 + m + 3 /\ m \in Nat
      /\ \A i \in 1 .. 3 : w[i] = h[i]
      /\ \A i \in 1 .. m : w[3 + i] = n[i]
      /\ \A i \in 1 .. 3 : w[3 + m + i] = c[i]
  BY <1>1, <1>2, <1>3 DEF Lies
<1>5. /\ w[1] = "open" /\ w[2] = "nl" /\ w[3] = "quote"
      /\ w[3 + m + 1] = "quote" /\ w[3 + m + 2] = "nl" /\ w[3 + m + 3] = "close"
  BY <1>2, <1>4
<1>6. 3 + m + 1 = m + 4 /\ Len(w) - 1 = 3 + m + 2 /\ Len(w) = m + 6 /\ Len(w) >= 6 /\ Len(w) \in Nat
  BY <1>4
<1>7. QED
  BY <1>1, <1>4, <1>5, <1>6 DEF Shaped

\* Three elements, three steps.
LEMMA FoldedThree ==
  ASSUME NEW A, NEW V, NEW G, Steps(G, A, V), NEW a \in A, NEW d \in V, NEW e \in V, NEW f \in V
  PROVE  Folded(G, A, a, <<d, e, f>>) = G[<<G[<<G[<<a, d>>], e>>], f>>]
<1>1. PICK s, t : s = <<d, e>> /\ t = <<d, e, f>>
  OBVIOUS
<1>2. /\ s \in Seq(V) /\ Len(s) = 2 /\ s[1] = d /\ s[2] = e
      /\ t \in Seq(V) /\ Len(t) = 3 /\ t[1] = d /\ t[2] = e /\ t[3] = f
  BY <1>1
<1>3. PICK x : x = Append(s, f)
  OBVIOUS
<1>4. s \in Seq(V)
  BY <1>2
<1>5. x \in Seq(V) /\ Len(x) = Len(s) + 1 /\ (\A i \in 1 .. Len(s) : x[i] = s[i]) /\ x[Len(s) + 1] = f
  BY <1>3, <1>4, AppendProperties
<1>6. Len(x) = 3 /\ x[1] = d /\ x[2] = e /\ x[3] = f
  BY <1>2, <1>5
<1>7. x = t
  <2>1. \A i \in 1 .. Len(x) : x[i] = t[i]
    BY <1>2, <1>6
  <2>2. QED
    BY <1>2, <1>5, <1>6, <2>1, SeqEqual
<1>8. Folded(G, A, a, Append(s, f)) = G[<<Folded(G, A, a, s), f>>]
  BY <1>4, FoldedAppend
<1>9. Folded(G, A, a, s) = G[<<G[<<a, d>>], e>>]
  BY <1>1, FoldedTwo
<1>10. QED
  BY <1>1, <1>3, <1>7, <1>8, <1>9

\* Counting braces, with none of the escapes open.
Standing(at, depth, inside) ==
  [at |-> at, depth |-> depth, inside |-> inside, escaped |-> FALSE, end |-> 0]

\* Counting the braces of the object, outside its string and at its ends.
LEMMA StandingSteps ==
  \A at \in Nat :    /\ BalanceStep[<<Standing(at, 1, FALSE), "nl">>] = Standing(at + 1, 1, FALSE)
                     /\ BalanceStep[<<Standing(at, 0, FALSE), "open">>] = Standing(at + 1, 1, FALSE)
                     /\ BalanceStep[<<Standing(at, 1, FALSE), "quote">>] = Standing(at + 1, 1, TRUE)
                     /\ BalanceStep[<<Standing(at, 1, TRUE), "quote">>] = Standing(at + 1, 1, FALSE)
                     /\ BalanceStep[<<Standing(at, 1, FALSE), "close">>].end = at + 1
<1> SUFFICES ASSUME NEW at \in Nat
             PROVE  /\ BalanceStep[<<Standing(at, 1, FALSE), "nl">>] = Standing(at + 1, 1, FALSE)
                    /\ BalanceStep[<<Standing(at, 0, FALSE), "open">>] = Standing(at + 1, 1, FALSE)
                    /\ BalanceStep[<<Standing(at, 1, FALSE), "quote">>] = Standing(at + 1, 1, TRUE)
                    /\ BalanceStep[<<Standing(at, 1, TRUE), "quote">>] = Standing(at + 1, 1, FALSE)
                    /\ BalanceStep[<<Standing(at, 1, FALSE), "close">>].end = at + 1
  OBVIOUS
<1> "open" \in Char /\ "nl" \in Char /\ "quote" \in Char /\ "close" \in Char
  BY DEF Char
<1>1. ASSUME NEW a \in Balances, NEW ch \in Char
      PROVE  BalanceStep[<<a, ch>>] = Balance(a, ch)
  BY DEF BalanceStep
<1>2. Standing(at, 1, TRUE) \in Balances /\ Standing(at, 1, FALSE) \in Balances
  BY DEF Standing, Balances
<1>3. Standing(at, 0, FALSE) \in Balances
  BY DEF Standing, Balances
<1>4. Balance(Standing(at, 1, FALSE), "nl") = Standing(at + 1, 1, FALSE)
  BY DEF Balance, Standing
<1>5. Balance(Standing(at, 0, FALSE), "open") = Standing(at + 1, 1, FALSE)
  <2>1. ASSUME NEW depth \in Int
        PROVE  Balance(Standing(at, depth, FALSE), "open") = Standing(at + 1, depth + 1, FALSE)
    BY DEF Balance, Standing
  <2>2. 0 \in Int /\ 0 + 1 = 1
    OBVIOUS
  <2>3. Balance(Standing(at, 0, FALSE), "open") = Standing(at + 1, 0 + 1, FALSE)
    BY <2>1, <2>2
  <2>4. QED
    BY <2>2, <2>3
<1>6. Balance(Standing(at, 1, FALSE), "quote") = Standing(at + 1, 1, TRUE)
  BY DEF Balance, Standing
<1>7. Balance(Standing(at, 1, TRUE), "quote") = Standing(at + 1, 1, FALSE)
  BY DEF Balance, Standing
<1>8. Balance(Standing(at, 1, FALSE), "close").end = at + 1
  BY DEF Balance, Standing
<1>9. QED
  BY <1>1, <1>2, <1>3, <1>4, <1>5, <1>6, <1>7, <1>8

\* The object closes at its last character, and not before.
LEMMA BoxedCloses ==
  ASSUME NEW n \in Seq(Char), StaysWithin(n)
  PROVE  Closes(Boxed(n))
<1> DEFINE F(a, s) == Folded(BalanceStep, Balances, a, s)
<1>1. PICK h, c, m : h = Opening /\ c = Closing /\ m = Len(n)
  OBVIOUS
<1>2. h \in Seq(Char) /\ c \in Seq(Char) /\ h \o n \in Seq(Char) /\ m \in Nat
  BY <1>1, OpeningIs, ConcatProperties, LenProperties
<1> "open" \in Char /\ "nl" \in Char /\ "quote" \in Char /\ "close" \in Char
  BY DEF Char
<1>4. Unbalanced \in Balances /\ Steps(BalanceStep, Balances, Char)
  BY BalanceSteps
<1>5. F(Unbalanced, h) = Balancing(3)
  <2>1. F(Unbalanced, h) = BalanceStep[<<BalanceStep[<<BalanceStep[<<Unbalanced, "open">>], "nl">>], "quote">>]
    BY <1>1, <1>4, FoldedThree DEF Opening
  <2>2. Unbalanced = Standing(0, 0, FALSE) /\ Balancing(3) = Standing(3, 1, TRUE)
    BY DEF Unbalanced, Standing, Balancing
  <2>3. 0 \in Nat /\ 0 + 1 = 1 /\ 1 + 1 = 2 /\ 2 + 1 = 3
    OBVIOUS
  <2>4. BalanceStep[<<Standing(0, 0, FALSE), "open">>] = Standing(1, 1, FALSE)
    BY <2>3, StandingSteps
  <2>5. BalanceStep[<<Standing(1, 1, FALSE), "nl">>] = Standing(2, 1, FALSE)
    BY <2>3, StandingSteps
  <2>6. BalanceStep[<<Standing(2, 1, FALSE), "quote">>] = Standing(3, 1, TRUE)
    BY <2>3, StandingSteps
  <2>7. QED
    BY <2>1, <2>2, <2>4, <2>5, <2>6
<1>6. F(Balancing(3), n) = Balancing(3 + m)
  BY <1>1 DEF StaysWithin
<1>7. F(Balancing(3 + m), c).end = 3 + m + 3
  <2>1. PICK p : p = 3 + m
    OBVIOUS
  <2>2. /\ p \in Nat /\ p + 1 \in Nat /\ p + 1 + 1 \in Nat /\ p + 1 + 1 + 1 = 3 + m + 3
        /\ Balancing(p) \in Balances /\ Balancing(p) = Standing(p, 1, TRUE)
    BY <1>2, <2>1, StatesWithin DEF Balancing, Standing
  <2>3. F(Balancing(p), c) = BalanceStep[<<BalanceStep[<<BalanceStep[<<Balancing(p), "quote">>], "nl">>], "close">>]
    <3>1. PICK b : b = Balancing(p)
      OBVIOUS
    <3>2. b \in Balances
      BY <2>2, <3>1
    <3>3. F(b, c) = BalanceStep[<<BalanceStep[<<BalanceStep[<<b, "quote">>], "nl">>], "close">>]
      BY <1>1, <1>4, <3>2, FoldedThree DEF Closing
    <3>4. QED
      BY <3>1, <3>3
  <2>4. BalanceStep[<<Standing(p, 1, TRUE), "quote">>] = Standing(p + 1, 1, FALSE)
    BY <2>2, StandingSteps
  <2>5. BalanceStep[<<Standing(p + 1, 1, FALSE), "nl">>] = Standing(p + 1 + 1, 1, FALSE)
    BY <2>2, StandingSteps
  <2>6. BalanceStep[<<Standing(p + 1 + 1, 1, FALSE), "close">>].end = p + 1 + 1 + 1
    BY <2>2, StandingSteps
  <2>7. QED
    BY <2>1, <2>2, <2>3, <2>4, <2>5, <2>6
<1>8. F(Unbalanced, h \o n) = Balancing(3 + m)
  <2>1. F(Unbalanced, h \o n) = F(F(Unbalanced, h), n)
    BY <1>2, <1>4, FoldedConcat
  <2> HIDE DEF F
  <2>2. QED
    BY <1>5, <1>6, <2>1
<1>9. F(Unbalanced, (h \o n) \o c) = F(Balancing(3 + m), c)
  <2>1. PICK x : x = h \o n
    OBVIOUS
  <2>2. x \in Seq(Char) /\ c \in Seq(Char)
    BY <1>2, <2>1
  <2>3. F(Unbalanced, x \o c) = F(F(Unbalanced, x), c)
    BY <1>4, <2>2, FoldedConcat
  <2> HIDE DEF F
  <2>4. QED
    BY <1>8, <2>1, <2>3
<1>10. Len(Boxed(n)) = 3 + m + 3
  BY <1>1, <1>2, BoxedIs
<1>11. QED
  BY <1>1, <1>7, <1>9, <1>10 DEF Closes, Boxed, Around

\* The object loads as its string is read.
LEMMA BoxedLoads ==
  ASSUME NEW n \in Seq(Char), NEW text \in Seq(Char), ReadsAs(n, text)
  PROVE  Loads(Boxed(n)) = Object(text)
<1>1. PICK m, w : m = Len(n) /\ w = Boxed(n)
  OBVIOUS
<1>2. /\ Shaped(w) /\ Len(w) = m + 6 /\ w[3] = "quote" /\ w[m + 4] = "quote"
      /\ m \in Nat /\ \A i \in 1 .. m : w[3 + i] = n[i]
  BY <1>1, BoxedIs, LenProperties
<1>3. /\ w \in Seq(Char) /\ w[1] = "open" /\ w[2] = "nl" /\ w[m + 5] = "nl" /\ w[m + 6] = "close"
  <2>1. m + 6 - 1 = m + 5
    BY <1>2
  <2>2. QED
    BY <1>2, <2>1 DEF Shaped
<1> "open" \in Char /\ "nl" \in Char /\ "quote" \in Char /\ "close" \in Char
  BY DEF Char
<1>4. PICK core : core = (<<"quote">> \o n) \o <<"quote">>
  OBVIOUS
<1>5. /\ core \in Seq(Char) /\ Len(core) = m + 2 /\ core[1] = "quote" /\ core[m + 2] = "quote"
      /\ SubSeq(core, 2, Len(core) - 1) = n
      /\ \A i \in 1 .. m : core[i + 1] = n[i]
  <2>1. /\ core \in Seq(Char) /\ Len(core) = Len(n) + 2 /\ core[1] = "quote" /\ core[Len(core)] = "quote"
        /\ SubSeq(core, 2, Len(core) - 1) = n
        /\ \A i \in 1 .. Len(n) : core[i + 1] = n[i]
    BY <1>4, CutMiddle
  <2>2. QED
    BY <1>1, <2>1
<1>6. PICK mid : mid = (<<"nl">> \o core) \o <<"nl">>
  OBVIOUS
<1>7. /\ mid \in Seq(Char) /\ Len(mid) = m + 4 /\ mid[1] = "nl" /\ mid[m + 4] = "nl"
      /\ \A i \in 1 .. m + 2 : mid[i + 1] = core[i]
  <2>1. core \in Seq(Char)
    BY <1>5
  <2>2. /\ mid \in Seq(Char) /\ Len(mid) = Len(core) + 2 /\ mid[1] = "nl" /\ mid[Len(mid)] = "nl"
        /\ \A i \in 1 .. Len(core) : mid[i + 1] = core[i]
    BY <1>6, <2>1, CutMiddle
  <2>3. Len(core) = m + 2 /\ m + 2 + 2 = m + 4
    BY <1>2, <1>5
  <2>4. QED
    BY <2>2, <2>3
<1>8. PICK big : big = (<<"open">> \o mid) \o <<"close">>
  OBVIOUS
<1>9. /\ big \in Seq(Char) /\ Len(big) = m + 6 /\ big[1] = "open" /\ big[m + 6] = "close"
      /\ SubSeq(big, 2, Len(big) - 1) = mid
      /\ \A i \in 1 .. m + 4 : big[i + 1] = mid[i]
  <2>1. mid \in Seq(Char)
    BY <1>7
  <2>2. /\ big \in Seq(Char) /\ Len(big) = Len(mid) + 2 /\ big[1] = "open" /\ big[Len(big)] = "close"
        /\ SubSeq(big, 2, Len(big) - 1) = mid
        /\ \A i \in 1 .. Len(mid) : big[i + 1] = mid[i]
    BY <1>8, <2>1, CutMiddle
  <2>3. Len(mid) = m + 4 /\ m + 4 + 2 = m + 6
    BY <1>2, <1>7
  <2>4. QED
    BY <2>2, <2>3
<1>10. w = big
  <2>1. ASSUME NEW i \in 1 .. Len(w) PROVE w[i] = big[i]
    <3>1. i \in Nat /\ i >= 1 /\ i <= m + 6
      BY <1>2
    <3>2. CASE i = 1 \/ i = m + 6
      BY <1>3, <1>9, <3>2
    <3>3. CASE i \in 2 .. m + 5
      <4>1. PICK j : j = i - 1
        OBVIOUS
      <4>2. j \in 1 .. m + 4 /\ i = j + 1
        BY <1>2, <3>3, <4>1
      <4>3. big[i] = mid[j]
        BY <1>9, <4>2
      <4>4. CASE j = 1 \/ j = m + 4
        <5>1. i = 2 \/ i = m + 5
          BY <1>2, <4>2, <4>4
        <5>2. w[i] = "nl" /\ mid[j] = "nl"
          BY <1>3, <1>7, <4>4, <5>1
        <5>3. QED
          BY <4>3, <5>2
      <4>5. CASE j \in 2 .. m + 3
        <5>1. PICK k : k = j - 1
          OBVIOUS
        <5>2. k \in 1 .. m + 2 /\ j = k + 1
          BY <1>2, <4>5, <5>1
        <5>3. mid[j] = core[k]
          BY <1>7, <5>2
        <5>4. CASE k = 1 \/ k = m + 2
          <6>1. i = 3 \/ i = m + 4
            BY <1>2, <4>2, <5>2, <5>4
          <6>2. w[i] = "quote" /\ core[k] = "quote"
            BY <1>2, <1>5, <5>4, <6>1
          <6>3. QED
            BY <4>3, <5>3, <6>2
        <5>5. CASE k \in 2 .. m + 1
          <6>1. PICK l : l = k - 1
            OBVIOUS
          <6>2. l \in 1 .. m /\ k = l + 1 /\ i = 3 + l
            BY <1>2, <4>2, <5>2, <5>5, <6>1
          <6>3. core[k] = n[l] /\ w[i] = n[l]
            BY <1>2, <1>5, <6>2
          <6>4. QED
            BY <4>3, <5>3, <6>3
        <5>6. QED
          BY <1>2, <5>2, <5>4, <5>5
      <4>6. QED
        BY <1>2, <4>2, <4>4, <4>5
    <3>4. QED
      BY <1>2, <3>1, <3>2, <3>3
  <2>2. QED
    BY <1>2, <1>3, <1>9, <2>1, SeqEqual
<1>11. LStrip(<<"nl">>) = <<>> /\ RStrip(<<"nl">>) = <<>> /\ LStrip(<<>>) = <<>> /\ RStrip(<<>>) = <<>>
  BY DEF LStrip, RStrip
<1>12. ASSUME NEW v \in Seq(Char), Solid(v), NEW e \in {<<>>, <<"nl">>}
       PROVE  Strip((e \o v) \o e) = v
  <2>1. e \in Seq(Char)
    <3>1. <<>> \in Seq(Char)
      OBVIOUS
    <3>2. <<"nl">> \in Seq(Char)
      OBVIOUS
    <3>3. QED
      BY <3>1, <3>2
  <2>2. Strip(Around(e, v, e)) = Around(LStrip(e), v, RStrip(e))
    BY <1>12, <2>1, StripAround
  <2>3. LStrip(e) = <<>> /\ RStrip(e) = <<>>
    BY <1>11
  <2>4. <<>> \o v = v /\ v \o <<>> = v
    BY ConcatEmptySeq
  <2>5. QED
    BY <2>2, <2>3, <2>4 DEF Around
<1>13. Strip(w) = w
  <2>1. Solid(w)
    BY <1>2, ShapedIsSolid
  <2>2. Strip((<<>> \o w) \o <<>>) = w
    BY <1>3, <1>12, <2>1
  <2>3. <<>> \o w = w /\ w \o <<>> = w
    BY <1>3, ConcatEmptySeq
  <2>4. QED
    BY <2>2, <2>3
<1>14. Strip(mid) = core
  <2>1. Solid(core)
    <3>1. core # <<>>
      BY <1>2, <1>5, EmptySeq
    <3>2. QED
      BY <1>5, <3>1 DEF Solid
  <2>2. core \in Seq(Char)
    BY <1>5
  <2>3. QED
    BY <1>6, <1>12, <2>1, <2>2
<1>15. InString(n) = Reading(text)
  <2>1. InString(n) = Folded(SpellStep, Reads, Unspelled, n)
    BY InStringFolds
  <2>2. Unspelled = Reading(<<>>)
    BY DEF Unspelled, Reading
  <2>3. PICK e : e = <<>>
    OBVIOUS
  <2>4. e \in Seq(Char) /\ e \o text = text
    BY <2>3, ConcatEmptySeq
  <2>5. Folded(SpellStep, Reads, Reading(e), n) = Reading(e \o text)
    BY <2>4 DEF ReadsAs
  <2>6. QED
    BY <2>1, <2>2, <2>3, <2>4, <2>5
<1>16. Quoted(core) /\ Unquoted(core) = text
  <2>1. Head(core) = core[1] /\ Last(core) = core[Len(core)] /\ core # <<>>
    <3>1. core # <<>>
      BY <1>2, <1>5, EmptySeq
    <3>2. QED
      BY <1>5, <3>1 DEF Last
  <2>2. Len(core) >= 2
    BY <1>2, <1>5
  <2>3. Head(core) = "quote" /\ Last(core) = "quote"
    BY <1>5, <2>1
  <2>4. InString(n).ok /\ ~InString(n).escaped /\ InString(n).text = text
    BY <1>15 DEF Reading
  <2>5. QED
    BY <1>5, <2>2, <2>3, <2>4 DEF Quoted, Unquoted
<1>17. ~Quoted(w) /\ Braced(w)
  <2>1. w # <<>> /\ Len(w) >= 2
    BY <1>2, <1>3, EmptySeq
  <2>2. Head(w) = w[1] /\ Last(w) = w[Len(w)]
    BY <1>3, <2>1 DEF Last
  <2>3. Braced(w)
    BY <1>2, <1>3, <2>1, <2>2 DEF Braced
  <2>4. 2 \in 2 .. Len(w) - 1
    BY <1>2
  <2>5. ~Quoted(w)
    BY <1>3, <2>4, BreaksAreNotQuoted
  <2>6. QED
    BY <2>3, <2>5
<1>18. Strip(SubSeq(w, 2, Len(w) - 1)) = core
  BY <1>9, <1>10, <1>14
<1>19. core # <<>>
  BY <1>2, <1>5, EmptySeq
<1>20. Loads(w) = IF Quoted(w) THEN Other
                  ELSE IF Braced(w) /\ core = <<>> THEN Empty
                  ELSE IF Braced(w) /\ Quoted(core) THEN Object(Unquoted(core))
                  ELSE NoJson
  BY <1>13, <1>18, Zenon DEF Loads
<1>21. QED
  BY <1>1, <1>16, <1>17, <1>19, <1>20, Zenon

(***************************************************************************)
(* The sanitizer, from the prose before an object to what follows it.      *)
(***************************************************************************)

\* What the sanitizer wrote, and whether it is inside a string.
Wrote(inside, out) == [at |-> [inside |-> inside, escaped |-> FALSE], out |-> out]

\* The sanitizer, outside a string and within.
LEMMA WroteSteps ==
  ASSUME NEW out \in Seq(Char)
  PROVE  /\ Wrote(TRUE, out) \in Writes /\ Wrote(FALSE, out) \in Writes
         /\ Wrote(TRUE, out) = Writing(out)
         /\ \A ch \in Char \ {"quote"} :
              WriteStep[<<Wrote(FALSE, out), ch>>] = Wrote(FALSE, Append(out, ch))
         /\ WriteStep[<<Wrote(FALSE, out), "quote">>] = Wrote(TRUE, Append(out, "quote"))
         /\ WriteStep[<<Wrote(TRUE, out), "quote">>] = Wrote(FALSE, Append(out, "quote"))
         /\ WriteStep[<<Wrote(TRUE, out), "nl">>] = Wrote(TRUE, out \o <<"slash", "n">>)
         /\ WriteStep[<<Wrote(TRUE, out), "x">>] = Wrote(TRUE, Append(out, "x"))
<1> "x" \in Char /\ "nl" \in Char /\ "quote" \in Char
  BY DEF Char
<1>1. Wrote(TRUE, out) \in Writes /\ Wrote(FALSE, out) \in Writes
  BY DEF Wrote, Writes
<1>2. Wrote(TRUE, out) = Writing(out)
  BY DEF Wrote, Writing, Within
<1>3. ASSUME NEW a \in Writes, NEW ch \in Char
      PROVE  WriteStep[<<a, ch>>] = Write(a, ch)
  BY DEF WriteStep
<1>4. ASSUME NEW ch \in Char \ {"quote"}
      PROVE  Write(Wrote(FALSE, out), ch) = Wrote(FALSE, Append(out, ch))
  BY DEF Write, Track, Wrote
<1>5. Write(Wrote(FALSE, out), "quote") = Wrote(TRUE, Append(out, "quote"))
  BY DEF Write, Track, Wrote
<1>6. Write(Wrote(TRUE, out), "quote") = Wrote(FALSE, Append(out, "quote"))
  BY DEF Write, Track, Wrote
<1>7. Write(Wrote(TRUE, out), "nl") = Wrote(TRUE, out \o <<"slash", "n">>)
  BY DEF Write, Track, Wrote
<1>8. Write(Wrote(TRUE, out), "x") = Wrote(TRUE, Append(out, "x"))
  BY DEF Write, Track, Wrote
<1>9. QED
  BY <1>1, <1>2, <1>3, <1>4, <1>5, <1>6, <1>7, <1>8

\* Neither a brace nor a fence is in it.
Bare(o) == o \in Seq(Char) /\ \A i \in 1 .. Len(o) : o[i] \notin {"open", "fence"}

\* Still neither braces nor fences.
LEMMA BareAppend ==
  ASSUME NEW o, Bare(o), NEW ch \in Char \ {"open", "fence"}
  PROVE  Bare(Append(o, ch))
<1>1. o \in Seq(Char) /\ Len(o) \in Nat /\ \A i \in 1 .. Len(o) : o[i] \notin {"open", "fence"}
  BY LenProperties DEF Bare
<1>2. PICK p : p = Append(o, ch)
  OBVIOUS
<1>3. /\ p \in Seq(Char) /\ Len(p) = Len(o) + 1 /\ p[Len(o) + 1] = ch
      /\ \A i \in 1 .. Len(o) : p[i] = o[i]
  <2>1. o \in Seq(Char)
    BY <1>1
  <2>2. QED
    BY <1>2, <2>1, AppendProperties
<1>4. ASSUME NEW i \in 1 .. Len(p) PROVE p[i] \notin {"open", "fence"}
  <2>1. CASE i = Len(o) + 1
    BY <1>3, <2>1
  <2>2. CASE i \in 1 .. Len(o)
    BY <1>1, <1>3, <2>2
  <2>3. QED
    BY <1>1, <1>3, <2>1, <2>2
<1>5. QED
  BY <1>2, <1>3, <1>4 DEF Bare

\* Where the quotes of a text are.
Quotes(s) == {i \in DOMAIN s : s[i] = "quote"}

\* Quotes are counted one by one.
LEMMA QuotesAppend ==
  ASSUME NEW s \in Seq(Char), NEW ch \in Char
  PROVE  /\ Cardinality(Quotes(s)) \in Nat
         /\ ch # "quote" => Cardinality(Quotes(Append(s, ch))) = Cardinality(Quotes(s))
         /\ ch = "quote" => Cardinality(Quotes(Append(s, ch))) = Cardinality(Quotes(s)) + 1
<1>1. PICK n, t : n = Len(s) /\ t = Append(s, ch)
  OBVIOUS
<1>2. n \in Nat /\ DOMAIN s = 1 .. n
  BY <1>1, LenProperties
<1>3. DOMAIN t = 1 .. n + 1 /\ t[n + 1] = ch /\ \A i \in 1 .. n : t[i] = s[i]
  <2>1. t \in Seq(Char) /\ Len(t) = n + 1 /\ t[n + 1] = ch /\ \A i \in 1 .. n : t[i] = s[i]
    BY <1>1, AppendProperties
  <2>2. QED
    BY <2>1, LenProperties
<1>4. Quotes(s) \subseteq 1 .. n
  BY <1>2 DEF Quotes
<1>5. IsFiniteSet(Quotes(s)) /\ Cardinality(Quotes(s)) \in Nat
  <2>1. IsFiniteSet(1 .. n)
    BY <1>2, FS_Interval
  <2>2. IsFiniteSet(Quotes(s))
    BY <1>4, <2>1, FS_Subset
  <2>3. QED
    BY <2>2, FS_CardinalityType
<1>6. CASE ch # "quote"
  <2>1. Quotes(t) = Quotes(s)
    <3>1. \A i : i \in 1 .. n + 1 <=> i \in 1 .. n \/ i = n + 1
      BY <1>2
    <3>2. QED
      BY <1>2, <1>3, <1>6, <3>1 DEF Quotes
  <2>2. QED
    BY <1>1, <1>5, <1>6, <2>1
<1>7. CASE ch = "quote"
  <2>1. Quotes(t) = Quotes(s) \cup {n + 1}
    <3>1. \A i : i \in 1 .. n + 1 <=> i \in 1 .. n \/ i = n + 1
      BY <1>2
    <3>2. QED
      BY <1>2, <1>3, <1>7, <3>1 DEF Quotes
  <2>2. n + 1 \notin Quotes(s)
    <3>1. n + 1 \notin 1 .. n
      BY <1>2
    <3>2. QED
      BY <1>4, <3>1
  <2>3. Cardinality(Quotes(s) \cup {n + 1}) = Cardinality(Quotes(s)) + 1
    BY <1>5, <2>2, FS_AddElement
  <2>4. QED
    BY <1>1, <1>5, <1>7, <2>1, <2>3
<1>8. QED
  BY <1>6, <1>7

\* After an even number of quotes the sanitizer is outside strings.
LEMMA ProseIsBare ==
  ASSUME NEW s \in Seq({"x", "nl", "quote"}), Cardinality(Quotes(s)) % 2 = 0
  PROVE  \E o : Bare(o) /\ Folded(WriteStep, Writes, Unwritten, s) = Wrote(FALSE, o)
<1> DEFINE V == {"x", "nl", "quote"}
           F(t) == Folded(WriteStep, Writes, Unwritten, t)
           P == {t \in Seq(V) :
                   \E o : /\ Bare(o)
                          /\ \/ Cardinality(Quotes(t)) % 2 = 0 /\ F(t) = Wrote(FALSE, o)
                             \/ Cardinality(Quotes(t)) % 2 = 1 /\ F(t) = Wrote(TRUE, o)}
<1>1. V \subseteq Char
  BY DEF Char
<1> HIDE DEF V
<1>2. \A t \in Seq(V) : t \in Seq(Char)
  BY <1>1
<1>3. <<>> \in P
  <2>1. F(<<>>) = Unwritten
    BY WriteSteps, FoldedNone
  <2>2. Unwritten = Wrote(FALSE, <<>>)
    BY DEF Unwritten, Outside, Wrote
  <2>3. Quotes(<<>>) = {}
    BY DEF Quotes
  <2>4. Cardinality(Quotes(<<>>)) % 2 = 0
    <3>1. Cardinality({}) = 0
      BY FS_EmptySet
    <3>2. 0 % 2 = 0
      OBVIOUS
    <3>3. QED
      BY <2>3, <3>1, <3>2
  <2>5. Bare(<<>>)
    BY DEF Bare
  <2>6. <<>> \in Seq(V)
    OBVIOUS
  <2> HIDE DEF F
  <2>7. QED
    BY <2>1, <2>2, <2>4, <2>5, <2>6
<1>4. ASSUME NEW t \in Seq(V), NEW ch \in V, t \in P
      PROVE  Append(t, ch) \in P
  <2>1. PICK o : /\ Bare(o)
                 /\ \/ Cardinality(Quotes(t)) % 2 = 0 /\ F(t) = Wrote(FALSE, o)
                    \/ Cardinality(Quotes(t)) % 2 = 1 /\ F(t) = Wrote(TRUE, o)
    BY <1>4
  <2>2. PICK u : u = Append(t, ch)
    OBVIOUS
  <2>3. t \in Seq(Char) /\ ch \in Char /\ u \in Seq(V)
    BY <1>1, <1>2, <2>2, AppendProperties
  <2>4. F(u) = WriteStep[<<F(t), ch>>]
    <3>1. t \in Seq(Char) /\ ch \in Char
      BY <2>3
    <3>2. QED
      BY <2>2, <3>1, WriteSteps, FoldedAppend
  <2>5. /\ Cardinality(Quotes(t)) \in Nat
        /\ ch # "quote" => Cardinality(Quotes(u)) = Cardinality(Quotes(t))
        /\ ch = "quote" => Cardinality(Quotes(u)) = Cardinality(Quotes(t)) + 1
    BY <2>2, <2>3, QuotesAppend
  <2> HIDE DEF F
  <2>6. o \in Seq(Char)
    BY <2>1 DEF Bare
  <2>7. ch \in Char \ {"open", "fence"} /\ ch \in {"x", "nl", "quote"}
    BY <2>3 DEF V
  <2>8. Bare(Append(o, ch))
    BY <2>1, <2>7, BareAppend
  <2>9. CASE ch = "quote"
    <3>1. PICK c, d : c = Cardinality(Quotes(t)) /\ d = Cardinality(Quotes(u))
      OBVIOUS
    <3>2. c \in Nat /\ d = c + 1
      BY <2>5, <2>9, <3>1
    <3>3. (c % 2 = 0 => d % 2 = 1) /\ (c % 2 = 1 => d % 2 = 0)
      BY <3>2
    <3>4. /\ F(t) = Wrote(FALSE, o) => F(u) = Wrote(TRUE, Append(o, ch))
          /\ F(t) = Wrote(TRUE, o) => F(u) = Wrote(FALSE, Append(o, ch))
      BY <2>4, <2>6, <2>9, WroteSteps
    <3>5. QED
      BY <2>1, <2>2, <2>3, <2>8, <3>1, <3>3, <3>4
  <2>10. CASE ch # "quote" /\ (F(t) = Wrote(FALSE, o) \/ ch = "x")
    <3>1. Cardinality(Quotes(u)) = Cardinality(Quotes(t))
      BY <2>5, <2>10
    <3>2. /\ F(t) = Wrote(FALSE, o) => F(u) = Wrote(FALSE, Append(o, ch))
          /\ F(t) = Wrote(TRUE, o) /\ ch = "x" => F(u) = Wrote(TRUE, Append(o, ch))
      BY <2>3, <2>4, <2>6, <2>10, WroteSteps
    <3>3. Wrote(TRUE, o) # Wrote(FALSE, o)
      BY DEF Wrote
    <3>4. QED
      BY <2>1, <2>2, <2>3, <2>8, <2>10, <3>1, <3>2, <3>3
  <2>11. CASE ch = "nl" /\ F(t) = Wrote(TRUE, o)
    <3>1. Cardinality(Quotes(u)) = Cardinality(Quotes(t)) /\ Cardinality(Quotes(t)) % 2 = 1
      <4>1. Wrote(TRUE, o) # Wrote(FALSE, o)
        BY DEF Wrote
      <4>2. QED
        BY <2>1, <2>5, <2>11, <4>1
    <3>2. F(u) = Wrote(TRUE, o \o <<"slash", "n">>)
      BY <2>4, <2>6, <2>11, WroteSteps
    <3>3. Bare(o \o <<"slash", "n">>)
      <4> "slash" \in Char \ {"open", "fence"} /\ "n" \in Char \ {"open", "fence"}
        BY DEF Char
      <4>1. PICK p : p = Append(o, "slash")
        OBVIOUS
      <4>2. Bare(p)
        BY <2>1, <4>1, BareAppend
      <4>3. Bare(Append(p, "n"))
        BY <4>2, BareAppend
      <4>4. Append(p, "n") = o \o <<"slash", "n">>
        <5>1. p \in Seq(Char)
          BY <4>2 DEF Bare
        <5>2. Append(p, "n") = p \o <<"n">> /\ p = o \o <<"slash">>
          BY <2>6, <4>1, <5>1, AppendIsConcat
        <5>3. <<"slash">> \in Seq(Char) /\ <<"n">> \in Seq(Char)
          OBVIOUS
        <5>4. (o \o <<"slash">>) \o <<"n">> = o \o (<<"slash">> \o <<"n">>)
          BY <2>6, <5>3, ConcatAssociative
        <5>5. Append(<<"slash">>, "n") = <<"slash">> \o <<"n">>
          BY <5>3, AppendIsConcat
        <5>6. Append(<<"slash">>, "n") = <<"slash", "n">>
          BY AppendToOne
        <5>7. QED
          BY <5>2, <5>4, <5>5, <5>6
      <4>5. QED
        BY <4>3, <4>4
    <3>4. QED
      BY <2>2, <2>3, <3>1, <3>2, <3>3
  <2>12. QED
    BY <2>1, <2>7, <2>9, <2>10, <2>11
<1> HIDE DEF P
<1>5. Seq(V) \subseteq P
  BY <1>3, <1>4, SeqInduction
<1>6. s \in P
  BY <1>5 DEF V
<1>7. PICK o : /\ Bare(o)
               /\ \/ Cardinality(Quotes(s)) % 2 = 0 /\ F(s) = Wrote(FALSE, o)
                  \/ Cardinality(Quotes(s)) % 2 = 1 /\ F(s) = Wrote(TRUE, o)
  BY <1>6 DEF P
<1>8. F(s) = Wrote(FALSE, o)
  <2> HIDE DEF F
  <2>1. PICK c : c = Cardinality(Quotes(s)) % 2
    OBVIOUS
  <2>2. c # 1
    BY <2>1
  <2>3. QED
    BY <1>7, <2>1, <2>2
<1>9. QED
  BY <1>7, <1>8

\* Parts put together, from the left or from the right.
LEMMA Regroup ==
  ASSUME NEW x \in Seq(Char), NEW y \in Seq(Char), NEW z \in Seq(Char)
  PROVE  (x \o y) \o z = x \o (y \o z)
BY ConcatAssociative

\* The sanitizer only adds to what it has written.
LEMMA WriteAdds ==
  ASSUME NEW a \in Writes, NEW s \in Seq(Char)
  PROVE  \E r \in Seq(Char) : Folded(WriteStep, Writes, a, s).out = a.out \o r
<1> DEFINE F(t) == Folded(WriteStep, Writes, a, t)
           P == {t \in Seq(Char) : \E r \in Seq(Char) : F(t).out = a.out \o r}
<1>1. a.out \in Seq(Char)
  BY DEF Writes
<1>2. <<>> \in P
  <2>1. F(<<>>) = a
    BY WriteSteps, FoldedNone
  <2>2. PICK e : e = <<>>
    OBVIOUS
  <2>3. e \in Seq(Char) /\ a.out \o e = a.out
    BY <1>1, <2>2, ConcatEmptySeq
  <2>4. F(e).out = a.out \o e
    BY <2>1, <2>2, <2>3
  <2> HIDE DEF F
  <2>5. e \in P
    BY <2>3, <2>4
  <2>6. QED
    BY <2>2, <2>5
<1>3. ASSUME NEW t \in Seq(Char), NEW ch \in Char, t \in P
      PROVE  Append(t, ch) \in P
  <2>1. PICK r \in Seq(Char) : F(t).out = a.out \o r
    BY <1>3
  <2>2. PICK u, b : u = Append(t, ch) /\ b = F(t)
    OBVIOUS
  <2>3. u \in Seq(Char)
    BY <2>2, AppendProperties
  <2>4. b \in Writes
    BY <2>2, WriteSteps, FoldedIn
  <2>5. F(u) = WriteStep[<<b, ch>>]
    BY <2>2, WriteSteps, FoldedAppend
  <2>6. WriteStep[<<b, ch>>] = Write(b, ch)
    BY <2>4 DEF WriteStep
  <2> HIDE DEF F
  <2>7. b.out \in Seq(Char) /\ b.out = a.out \o r
    BY <2>1, <2>2, <2>4 DEF Writes
  <2>8. PICK x \in {<<"slash", "n">>, <<ch>>} : Write(b, ch).out = b.out \o x
    <3>1. CASE b.at.inside /\ ~b.at.escaped /\ ch = "nl"
      <4>1. Write(b, ch) = [b EXCEPT !.out = b.out \o <<"slash", "n">>]
        BY <3>1 DEF Write
      <4>2. Write(b, ch).out = b.out \o <<"slash", "n">>
        BY <2>4, <4>1 DEF Writes
      <4>3. QED
        BY <4>2
    <3>2. CASE ~(b.at.inside /\ ~b.at.escaped /\ ch = "nl")
      <4>1. Write(b, ch).out = Append(b.out, ch)
        BY <3>2 DEF Write
      <4>2. Append(b.out, ch) = b.out \o <<ch>>
        BY <2>7, AppendIsConcat
      <4>3. QED
        BY <4>1, <4>2
    <3>3. QED
      BY <3>1, <3>2
  <2>9. x \in Seq(Char)
    <3> "slash" \in Char /\ "n" \in Char
      BY DEF Char
    <3>1. <<"slash", "n">> \in Seq(Char)
      OBVIOUS
    <3>2. <<ch>> \in Seq(Char)
      OBVIOUS
    <3>3. QED
      BY <3>1, <3>2
  <2>10. (a.out \o r) \o x = a.out \o (r \o x)
    <3>1. PICK o : o = a.out
      OBVIOUS
    <3>2. o \in Seq(Char)
      BY <1>1, <3>1
    <3>3. (o \o r) \o x = o \o (r \o x)
      BY <2>9, <3>2, Regroup
    <3>4. QED
      BY <3>1, <3>3
  <2>11. r \o x \in Seq(Char)
    BY <2>9, ConcatProperties
  <2>12. F(u).out = a.out \o (r \o x)
    BY <2>5, <2>6, <2>7, <2>8, <2>10
  <2>13. QED
    BY <2>2, <2>3, <2>11, <2>12
<1> HIDE DEF P
<1>4. Seq(Char) \subseteq P
  BY <1>2, <1>3, SeqInduction
<1>5. QED
  BY <1>4 DEF P

\* Three more characters are a part of three.
LEMMA AppendThree ==
  ASSUME NEW V, NEW s \in Seq(V), NEW d \in V, NEW e \in V, NEW f \in V
  PROVE  Append(Append(Append(s, d), e), f) = s \o <<d, e, f>>
<1>1. PICK x, y, z, t, w : /\ x = Append(s, d) /\ y = Append(x, e) /\ z = Append(y, f)
                           /\ t = <<d, e, f>> /\ w = s \o t
  OBVIOUS
<1>2. PICK n : n = Len(s)
  OBVIOUS
<1>3. n \in Nat
  BY <1>2, LenProperties
<1>4. x \in Seq(V) /\ Len(x) = n + 1 /\ x[n + 1] = d /\ \A i \in 1 .. n : x[i] = s[i]
  BY <1>1, <1>2, AppendProperties
<1>5. y \in Seq(V) /\ Len(y) = n + 1 + 1 /\ y[n + 1 + 1] = e /\ \A i \in 1 .. n + 1 : y[i] = x[i]
  <2>1. x \in Seq(V)
    BY <1>4
  <2>2. y \in Seq(V) /\ Len(y) = Len(x) + 1 /\ y[Len(x) + 1] = e /\ \A i \in 1 .. Len(x) : y[i] = x[i]
    BY <1>1, <2>1, AppendProperties
  <2>3. QED
    BY <1>4, <2>2
<1>6. z \in Seq(V) /\ Len(z) = n + 1 + 1 + 1 /\ z[n + 1 + 1 + 1] = f /\ \A i \in 1 .. n + 1 + 1 : z[i] = y[i]
  <2>1. y \in Seq(V)
    BY <1>5
  <2>2. z \in Seq(V) /\ Len(z) = Len(y) + 1 /\ z[Len(y) + 1] = f /\ \A i \in 1 .. Len(y) : z[i] = y[i]
    BY <1>1, <2>1, AppendProperties
  <2>3. QED
    BY <1>5, <2>2
<1>7. t \in Seq(V) /\ Len(t) = 3 /\ t[1] = d /\ t[2] = e /\ t[3] = f
  BY <1>1
<1>8. /\ w \in Seq(V) /\ Len(w) = n + 3
      /\ \A i \in 1 .. n + 3 : w[i] = IF i <= n THEN s[i] ELSE t[i - n]
  <2>1. t \in Seq(V)
    BY <1>7
  <2>2. /\ w \in Seq(V) /\ Len(w) = Len(s) + Len(t)
        /\ \A i \in 1 .. Len(s) + Len(t) : w[i] = IF i <= Len(s) THEN s[i] ELSE t[i - Len(s)]
    BY <1>1, <2>1, ConcatProperties
  <2>3. QED
    BY <1>2, <1>7, <2>2
<1>9. ASSUME NEW i \in 1 .. Len(z) PROVE z[i] = w[i]
  <2>1. i \in 1 .. n + 3 /\ i \in Nat
    BY <1>3, <1>6
  <2>2. CASE i <= n
    <3>1. i \in 1 .. n /\ i \in 1 .. n + 1 /\ i \in 1 .. n + 1 + 1
      BY <1>3, <2>1, <2>2
    <3>2. z[i] = s[i]
      BY <1>4, <1>5, <1>6, <3>1
    <3>3. QED
      BY <1>8, <2>1, <2>2, <3>2
  <2>3. CASE i = n + 1
    <3>1. i \in 1 .. n + 1 /\ i \in 1 .. n + 1 + 1 /\ ~(i <= n) /\ i - n = 1
      BY <1>3, <2>3
    <3>2. z[i] = d
      BY <1>4, <1>5, <1>6, <2>3, <3>1
    <3>3. QED
      BY <1>7, <1>8, <2>1, <3>1, <3>2
  <2>4. CASE i = n + 1 + 1
    <3>1. i \in 1 .. n + 1 + 1 /\ ~(i <= n) /\ i - n = 2
      BY <1>3, <2>4
    <3>2. z[i] = e
      BY <1>5, <1>6, <2>4, <3>1
    <3>3. QED
      BY <1>7, <1>8, <2>1, <3>1, <3>2
  <2>5. CASE i = n + 1 + 1 + 1
    <3>1. ~(i <= n) /\ i - n = 3
      BY <1>3, <2>5
    <3>2. z[i] = f
      BY <1>6, <2>5
    <3>3. QED
      BY <1>7, <1>8, <2>1, <3>1, <3>2
  <2>6. QED
    BY <1>3, <2>1, <2>2, <2>3, <2>4, <2>5
<1>10. z = w
  <2>1. Len(z) = Len(w)
    BY <1>3, <1>6, <1>8
  <2>2. QED
    BY <1>6, <1>8, <1>9, <2>1, SeqEqual
<1>11. QED
  BY <1>1, <1>10

\* The sanitizer enters the string of the object ...
LEMMA OpeningWritten ==
  ASSUME NEW u \in Seq(Char)
  PROVE  Folded(WriteStep, Writes, Wrote(FALSE, u), Opening) = Wrote(TRUE, u \o Opening)
<1> "open" \in Char /\ "nl" \in Char /\ "quote" \in Char
  BY DEF Char
<1>1. PICK a : a = Wrote(FALSE, u)
  OBVIOUS
<1>2. a \in Writes
  BY <1>1, WroteSteps
<1>3. Folded(WriteStep, Writes, a, Opening) = WriteStep[<<WriteStep[<<WriteStep[<<a, "open">>], "nl">>], "quote">>]
  BY <1>2, WriteSteps, FoldedThree DEF Opening
<1>4. PICK x, y, z : x = Append(u, "open") /\ y = Append(x, "nl") /\ z = Append(y, "quote")
  OBVIOUS
<1>5. x \in Seq(Char)
  BY <1>4, AppendProperties
<1>6. y \in Seq(Char)
  BY <1>4, <1>5, AppendProperties
<1>7. "open" \in Char \ {"quote"} /\ "nl" \in Char \ {"quote"}
  OBVIOUS
<1>8. WriteStep[<<a, "open">>] = Wrote(FALSE, x)
  BY <1>1, <1>4, <1>7, WroteSteps
<1>9. WriteStep[<<Wrote(FALSE, x), "nl">>] = Wrote(FALSE, y)
  BY <1>4, <1>5, <1>7, WroteSteps
<1>10. WriteStep[<<Wrote(FALSE, y), "quote">>] = Wrote(TRUE, z)
  BY <1>4, <1>6, WroteSteps
<1>11. Append(Append(Append(u, "open"), "nl"), "quote") = u \o <<"open", "nl", "quote">>
  BY AppendThree
<1>12. QED
  BY <1>1, <1>3, <1>4, <1>8, <1>9, <1>10, <1>11 DEF Opening

\* ... and leaves it.
LEMMA ClosingWritten ==
  ASSUME NEW u \in Seq(Char)
  PROVE  Folded(WriteStep, Writes, Wrote(TRUE, u), Closing) = Wrote(FALSE, u \o Closing)
<1> "quote" \in Char /\ "nl" \in Char /\ "close" \in Char
  BY DEF Char
<1>1. PICK a : a = Wrote(TRUE, u)
  OBVIOUS
<1>2. a \in Writes
  BY <1>1, WroteSteps
<1>3. Folded(WriteStep, Writes, a, Closing) = WriteStep[<<WriteStep[<<WriteStep[<<a, "quote">>], "nl">>], "close">>]
  BY <1>2, WriteSteps, FoldedThree DEF Closing
<1>4. PICK x, y, z : x = Append(u, "quote") /\ y = Append(x, "nl") /\ z = Append(y, "close")
  OBVIOUS
<1>5. x \in Seq(Char)
  BY <1>4, AppendProperties
<1>6. y \in Seq(Char)
  BY <1>4, <1>5, AppendProperties
<1>7. "close" \in Char \ {"quote"} /\ "nl" \in Char \ {"quote"}
  OBVIOUS
<1>8. WriteStep[<<a, "quote">>] = Wrote(FALSE, x)
  BY <1>1, <1>4, WroteSteps
<1>9. WriteStep[<<Wrote(FALSE, x), "nl">>] = Wrote(FALSE, y)
  BY <1>4, <1>5, <1>7, WroteSteps
<1>10. WriteStep[<<Wrote(FALSE, y), "close">>] = Wrote(FALSE, z)
  BY <1>4, <1>6, <1>7, WroteSteps
<1>11. Append(Append(Append(u, "quote"), "nl"), "close") = u \o <<"quote", "nl", "close">>
  BY AppendThree
<1>12. QED
  BY <1>1, <1>3, <1>4, <1>8, <1>9, <1>10, <1>11 DEF Closing

\* What it has written then is the object, behind what it had.
LEMMA BoxedAfter ==
  ASSUME NEW u \in Seq(Char), NEW n \in Seq(Char)
  PROVE  ((u \o Opening) \o n) \o Closing = u \o Boxed(n)
<1>1. Opening \in Seq(Char) /\ Closing \in Seq(Char)
  BY OpeningIs
<1>2. PICK k : k = Opening \o n
  OBVIOUS
<1>3. k \in Seq(Char)
  BY <1>1, <1>2, ConcatProperties
<1>4. (u \o Opening) \o n = u \o (Opening \o n)
  BY <1>1, Regroup
<1>5. (u \o k) \o Closing = u \o (k \o Closing)
  BY <1>1, <1>3, Regroup
<1>6. QED
  BY <1>2, <1>4, <1>5 DEF Boxed, Around

\* What the sanitizer has written after a text that leaves it outside strings.
Leads(text, u) == Folded(WriteStep, Writes, Unwritten, text) = Wrote(FALSE, u)

\* An answer with an object in it ...
Between(before, written, after) == before \o (Opening \o (written \o (Closing \o after)))
Holds(answer, u, box) == \E r \in Seq(Char) : Sanitize(answer) = Around(u, box, r)

\* An object with its string sanitized, between what came before it and something.
LEMMA ObjectSanitized ==
  ASSUME NEW before \in Seq(Char), NEW u \in Seq(Char), Leads(before, u),
         NEW written \in Seq(Char), NEW new \in Seq(Char), Sanitizes(written, new),
         NEW after \in Seq(Char)
  PROVE  Holds(Between(before, written, after), u, Boxed(new))
<1> DEFINE F(a, s) == Folded(WriteStep, Writes, a, s)
<1>1. PICK h, c : h = Opening /\ c = Closing
  OBVIOUS
<1>2. h \in Seq(Char)
  BY <1>1, OpeningIs
<1>3. c \in Seq(Char)
  BY <1>1, OpeningIs
<1>4. PICK s3 : s3 = c \o after
  OBVIOUS
<1>5. s3 \in Seq(Char)
  BY <1>3, <1>4, ConcatProperties
<1>6. PICK s2 : s2 = written \o s3
  OBVIOUS
<1>7. s2 \in Seq(Char)
  BY <1>5, <1>6, ConcatProperties
<1>8. PICK s1 : s1 = h \o s2
  OBVIOUS
<1>9. s1 \in Seq(Char)
  BY <1>2, <1>7, <1>8, ConcatProperties
<1>10. PICK s : s = before \o s1
  OBVIOUS
<1>11. s \in Seq(Char)
  BY <1>9, <1>10, ConcatProperties
<1>12. Unwritten \in Writes /\ Steps(WriteStep, Writes, Char)
  BY WriteSteps
<1>13. F(Unwritten, s) = F(Wrote(FALSE, u), s1)
  <2>1. F(Unwritten, before \o s1) = F(F(Unwritten, before), s1)
    <3>1. PICK a : a = Unwritten
      OBVIOUS
    <3>2. a \in Writes
      BY <1>12, <3>1
    <3>3. F(a, before \o s1) = F(F(a, before), s1)
      BY <1>9, <1>12, <3>2, FoldedConcat
    <3>4. QED
      BY <3>1, <3>3
  <2>2. F(Unwritten, before) = Wrote(FALSE, u)
    BY DEF Leads
  <2> HIDE DEF F
  <2>3. QED
    BY <1>10, <2>1, <2>2
<1>14. PICK o1 : o1 = u \o h
  OBVIOUS
<1>15. o1 \in Seq(Char)
  BY <1>2, <1>14, ConcatProperties
<1>16. F(Wrote(FALSE, u), h) = Writing(o1)
  <2>1. F(Wrote(FALSE, u), Opening) = Wrote(TRUE, u \o Opening)
    BY OpeningWritten
  <2>2. Wrote(TRUE, o1) = Writing(o1)
    BY <1>15, WroteSteps
  <2> HIDE DEF F
  <2>3. QED
    BY <1>1, <1>14, <2>1, <2>2
<1>17. F(Wrote(FALSE, u), s1) = F(Writing(o1), s2)
  <2>1. PICK a : a = Wrote(FALSE, u)
    OBVIOUS
  <2>2. a \in Writes
    BY <2>1, WroteSteps
  <2>3. F(a, h \o s2) = F(F(a, h), s2)
    BY <1>2, <1>7, <1>12, <2>2, FoldedConcat
  <2> HIDE DEF F
  <2>4. QED
    BY <1>8, <1>16, <2>1, <2>3
<1>18. PICK o2 : o2 = o1 \o new
  OBVIOUS
<1>19. o2 \in Seq(Char)
  BY <1>15, <1>18, ConcatProperties
<1>20. F(Writing(o1), s2) = F(Writing(o2), s3)
  <2>1. PICK a : a = Writing(o1)
    OBVIOUS
  <2>2. a \in Writes
    BY <1>15, <2>1, StatesWithin
  <2>3. F(a, written \o s3) = F(F(a, written), s3)
    BY <1>5, <1>12, <2>2, FoldedConcat
  <2>4. F(a, written) = Writing(o2)
    BY <1>15, <1>18, <2>1 DEF Sanitizes
  <2> HIDE DEF F
  <2>5. QED
    BY <1>6, <2>1, <2>3, <2>4
<1>21. PICK o3 : o3 = o2 \o c
  OBVIOUS
<1>22. o3 \in Seq(Char)
  BY <1>3, <1>19, <1>21, ConcatProperties
<1>23. F(Writing(o2), c) = Wrote(FALSE, o3)
  <2>1. F(Wrote(TRUE, o2), Closing) = Wrote(FALSE, o2 \o Closing)
    BY <1>19, ClosingWritten
  <2>2. Wrote(TRUE, o2) = Writing(o2)
    BY <1>19, WroteSteps
  <2> HIDE DEF F
  <2>3. QED
    BY <1>1, <1>21, <2>1, <2>2
<1>24. F(Writing(o2), s3) = F(Wrote(FALSE, o3), after)
  <2>1. PICK a : a = Writing(o2)
    OBVIOUS
  <2>2. a \in Writes
    BY <1>19, <2>1, StatesWithin
  <2>3. F(a, c \o after) = F(F(a, c), after)
    BY <1>3, <1>12, <2>2, FoldedConcat
  <2> HIDE DEF F
  <2>4. QED
    BY <1>4, <1>23, <2>1, <2>3
<1>25. PICK r \in Seq(Char) : F(Wrote(FALSE, o3), after).out = o3 \o r
  <2>1. PICK a : a = Wrote(FALSE, o3)
    OBVIOUS
  <2>2. a \in Writes
    BY <1>22, <2>1, WroteSteps
  <2>3. \E r \in Seq(Char) : F(a, after).out = a.out \o r
    BY <2>2, WriteAdds
  <2>4. a.out = o3
    BY <2>1 DEF Wrote
  <2> HIDE DEF F
  <2>5. QED
    BY <2>1, <2>3, <2>4
<1>26. Sanitize(s) = F(Unwritten, s).out
  BY <1>11, SanitizeFolds
<1> HIDE DEF F
<1>27. Sanitize(s) = o3 \o r
  BY <1>13, <1>17, <1>20, <1>24, <1>25, <1>26
<1>28. o3 = u \o Boxed(new)
  BY <1>1, <1>14, <1>18, <1>21, BoxedAfter
<1>29. s = Between(before, written, after)
  BY <1>1, <1>4, <1>6, <1>8, <1>10 DEF Between
<1>30. QED
  BY <1>27, <1>28, <1>29 DEF Around, Holds

\* One object, whatever is in its string and what follows it.
LEMMA ObjectExtracted ==
  ASSUME NEW before \in Seq(Char), NEW u, Plain(u),
         (\E i \in 1 .. Len(u) : u[i] = "fence") => u[Len(u)] = "nl",
         Folded(WriteStep, Writes, Unwritten, before) = Wrote(FALSE, u),
         NEW inside \in Seq(Piece), NEW after \in Seq(Char)
  PROVE  Extract(before \o (ObjectOf(inside) \o after)) = {Object(Meaning(inside))}
<1>1. PICK n : Turns(Written(inside), n, Meaning(inside))
  BY InsideTurns
<1>2. PICK w, t : w = Written(inside) /\ t = Meaning(inside)
  OBVIOUS
<1>3. w \in Seq(Char) /\ n \in Seq(Char) /\ t \in Seq(Char)
  BY <1>1, <1>2 DEF Turns
<1>4. Sanitizes(w, n) /\ ReadsAs(n, t) /\ StaysWithin(n)
  BY <1>1, <1>2 DEF Turns
<1>5. PICK answer : answer = before \o (Opening \o (w \o (Closing \o after)))
  OBVIOUS
<1>6. answer = before \o (ObjectOf(inside) \o after) /\ answer \in Seq(Char)
  <2>1. Opening \in Seq(Char) /\ Closing \in Seq(Char)
    BY OpeningIs
  <2>2. PICK x, y : x = Opening \o w /\ y = Closing \o after
    OBVIOUS
  <2>3. x \in Seq(Char)
    BY <1>3, <2>1, <2>2, ConcatProperties
  <2>4. y \in Seq(Char)
    BY <2>1, <2>2, ConcatProperties
  <2>5. (x \o Closing) \o after = x \o (Closing \o after)
    BY <2>1, <2>3, Regroup
  <2>6. (Opening \o w) \o y = Opening \o (w \o y)
    <3>1. PICK o : o = Opening
      OBVIOUS
    <3>2. o \in Seq(Char)
      BY <2>1, <3>1
    <3>3. w \in Seq(Char)
      BY <1>3
    <3>4. (o \o w) \o y = o \o (w \o y)
      BY <2>4, <3>2, <3>3, Regroup
    <3>5. QED
      BY <3>1, <3>4
  <2>7. ObjectOf(inside) = (Opening \o w) \o Closing
    BY <1>2 DEF ObjectOf, Opening, Closing
  <2>8. Opening \o (w \o y) \in Seq(Char)
    <3>1. PICK z : z = w \o y
      OBVIOUS
    <3>2. z \in Seq(Char)
      BY <1>3, <2>4, <3>1, ConcatProperties
    <3>3. QED
      BY <2>1, <3>1, <3>2, ConcatProperties
  <2>9. PICK z : z = Opening \o (w \o y)
    OBVIOUS
  <2>10. before \o z \in Seq(Char)
    BY <2>8, <2>9, ConcatProperties
  <2>11. QED
    BY <1>5, <2>2, <2>5, <2>6, <2>7, <2>9, <2>10
<1>7. PICK r \in Seq(Char) : Sanitize(answer) = Around(u, Boxed(n), r)
  <2>1. u \in Seq(Char)
    BY DEF Plain
  <2>2. w \in Seq(Char)
    BY <1>3
  <2>3. n \in Seq(Char)
    BY <1>3
  <2>4. Sanitizes(w, n)
    BY <1>4
  <2>5. Leads(before, u)
    BY DEF Leads
  <2>6. Holds(Between(before, w, after), u, Boxed(n))
    BY <2>1, <2>2, <2>3, <2>4, <2>5, ObjectSanitized
  <2>7. answer = Between(before, w, after)
    BY <1>5 DEF Between
  <2>8. QED
    BY <2>6, <2>7 DEF Holds
<1>8. PICK box : box = Boxed(n)
  OBVIOUS
<1>9. Shaped(box) /\ Closes(box) /\ Loads(box) = Object(t)
  BY <1>3, <1>4, <1>8, BoxedIs, BoxedCloses, BoxedLoads
<1>10. Object(t) # NoJson
  BY DEF Object, NoJson
<1>11. Extract(answer) = {Loads(box)}
  <2>1. answer \in Seq(Char)
    BY <1>6
  <2>2. QED
    BY <1>7, <1>8, <1>9, <1>10, <2>1, ExtractAround
<1>12. QED
  BY <1>2, <1>6, <1>9, <1>11

\* The object is text.
LEMMA ObjectIsText ==
  ASSUME NEW inside \in Seq(Piece)
  PROVE  ObjectOf(inside) \in Seq(Char)
<1>1. PICK w, x : w = Written(inside) /\ x = Opening \o w
  OBVIOUS
<1>2. w \in Seq(Char)
  BY <1>1, InsideTurns DEF Turns
<1>3. x \in Seq(Char)
  BY <1>1, <1>2, OpeningIs, ConcatProperties
<1>4. x \o Closing \in Seq(Char)
  BY <1>3, OpeningIs, ConcatProperties
<1>5. QED
  BY <1>1, <1>4 DEF ObjectOf, Opening, Closing

\* Fenced, around the object.
FenceLine == <<"fence", "nl">>
FenceEnd == <<"nl", "fence", "nl">>

\* A fence before the object, on a line of its own.
LEMMA FenceWritten ==
  ASSUME NEW before \in Seq(Char), NEW o, Bare(o),
         Folded(WriteStep, Writes, Unwritten, before) = Wrote(FALSE, o)
  PROVE  \E u : /\ Plain(u) /\ ((\E i \in 1 .. Len(u) : u[i] = "fence") => u[Len(u)] = "nl")
                /\ before \o FenceLine \in Seq(Char)
                /\ Folded(WriteStep, Writes, Unwritten, before \o FenceLine) = Wrote(FALSE, u)
<1> "fence" \in Char /\ "nl" \in Char
  BY DEF Char
<1>1. PICK f, u1, u : f = FenceLine /\ u1 = Append(o, "fence") /\ u = Append(u1, "nl")
  OBVIOUS
<1>2. f \in Seq(Char)
  BY <1>1 DEF FenceLine
<1>3. o \in Seq(Char) /\ Len(o) \in Nat /\ \A i \in 1 .. Len(o) : o[i] # "open"
  BY LenProperties DEF Bare
<1>4. /\ u1 \in Seq(Char) /\ Len(u1) = Len(o) + 1 /\ u1[Len(o) + 1] = "fence"
      /\ \A i \in 1 .. Len(o) : u1[i] = o[i]
  <2>1. o \in Seq(Char)
    BY <1>3
  <2>2. QED
    BY <1>1, <2>1, AppendProperties
<1>5. /\ u \in Seq(Char) /\ Len(u) = Len(u1) + 1 /\ u[Len(u1) + 1] = "nl"
      /\ \A i \in 1 .. Len(u1) : u[i] = u1[i]
  <2>1. u1 \in Seq(Char)
    BY <1>4
  <2>2. QED
    BY <1>1, <2>1, AppendProperties
<1>6. ASSUME NEW i \in 1 .. Len(u) PROVE u[i] # "open"
  <2>1. CASE i = Len(u1) + 1
    BY <1>5, <2>1
  <2>2. CASE i = Len(o) + 1
    BY <1>3, <1>4, <1>5, <2>2
  <2>3. CASE i \in 1 .. Len(o)
    BY <1>3, <1>4, <1>5, <2>3
  <2>4. QED
    BY <1>3, <1>4, <1>5, <2>1, <2>2, <2>3
<1>7. Plain(u)
  BY <1>5, <1>6 DEF Plain
<1>8. u[Len(u)] = "nl"
  BY <1>5
<1>9. PICK a : a = Wrote(FALSE, o)
  OBVIOUS
<1>10. a \in Writes
  BY <1>3, <1>9, WroteSteps
<1>11. Folded(WriteStep, Writes, a, f) = WriteStep[<<WriteStep[<<a, "fence">>], "nl">>]
  BY <1>1, <1>10, WriteSteps, FoldedTwo DEF FenceLine
<1>12. "fence" \in Char \ {"quote"} /\ "nl" \in Char \ {"quote"}
  OBVIOUS
<1>13. WriteStep[<<a, "fence">>] = Wrote(FALSE, u1)
  BY <1>1, <1>3, <1>9, <1>12, WroteSteps
<1>14. WriteStep[<<Wrote(FALSE, u1), "nl">>] = Wrote(FALSE, u)
  BY <1>1, <1>4, <1>12, WroteSteps
<1>15. PICK b : b = Unwritten
  OBVIOUS
<1>16. b \in Writes
  BY <1>15, WriteSteps
<1>17. Folded(WriteStep, Writes, b, before \o f) = Folded(WriteStep, Writes, Folded(WriteStep, Writes, b, before), f)
  BY <1>2, <1>16, WriteSteps, FoldedConcat
<1>18. before \o f \in Seq(Char)
  BY <1>2, ConcatProperties
<1>19. QED
  BY <1>1, <1>7, <1>8, <1>9, <1>11, <1>13, <1>14, <1>15, <1>17, <1>18

\* The object in its fence, and what the fence leaves around it.
LEMMA FencedIs ==
  ASSUME NEW before \in Seq(Char), NEW object \in Seq(Char), NEW after \in Seq(Char)
  PROVE  /\ (before \o Fenced(object)) \o after = (before \o FenceLine) \o (object \o (FenceEnd \o after))
         /\ FenceEnd \o after \in Seq(Char)
<1>1. PICK f, g : f = FenceLine /\ g = FenceEnd
  OBVIOUS
<1>2. f \in Seq(Char)
  BY <1>1 DEF FenceLine, Char
<1>3. g \in Seq(Char)
  BY <1>1 DEF FenceEnd, Char
<1>4. PICK x, y, z : x = object \o g /\ y = before \o f /\ z = g \o after
  OBVIOUS
<1>5. x \in Seq(Char)
  BY <1>3, <1>4, ConcatProperties
<1>6. y \in Seq(Char)
  BY <1>2, <1>4, ConcatProperties
<1>7. z \in Seq(Char)
  BY <1>3, <1>4, ConcatProperties
<1>8. (f \o object) \o g = f \o x
  BY <1>2, <1>3, <1>4, Regroup
<1>9. before \o (f \o x) = y \o x
  BY <1>2, <1>4, <1>5, Regroup
<1>10. (y \o x) \o after = y \o (x \o after)
  BY <1>5, <1>6, Regroup
<1>11. x \o after = object \o z
  BY <1>3, <1>4, Regroup
<1>12. Fenced(object) = (f \o object) \o g
  BY <1>1 DEF Fenced, FenceLine, FenceEnd
<1>13. QED
  BY <1>1, <1>4, <1>7, <1>8, <1>9, <1>10, <1>11, <1>12

\* The sequences that are checked are among those that are proved about.
LEMMA BoundedIs ==
  ASSUME NEW S, NEW n, NEW s \in BoundedSeq(S, n)
  PROVE  s \in Seq(S)
<1>1. PICK m \in 0 .. n : s \in [1 .. m -> S]
  BY DEF BoundedSeq, SeqOf
<1>2. m \in Nat
  OBVIOUS
<1>3. QED
  BY <1>1, <1>2

\* Whatever the bounds, the object that was asked for is what the extraction
\* gives: LinkedInAgent._extract_json_object, for every text of the draft.
THEOREM ObjectsAreFound ==
  ASSUME NEW before \in Seq({"x", "nl", "quote"}),
         Cardinality({i \in DOMAIN before : before[i] = "quote"}) % 2 = 0,
         NEW inside \in Seq(Piece), NEW after \in Seq(Char),
         NEW object \in {ObjectOf(inside), Fenced(ObjectOf(inside))}
  PROVE  Extract(before \o object \o after) = {Object(Meaning(inside))}
<1>1. PICK o : Bare(o) /\ Folded(WriteStep, Writes, Unwritten, before) = Wrote(FALSE, o)
  BY ProseIsBare DEF Quotes
<1>2. before \in Seq(Char)
  <2>1. {"x", "nl", "quote"} \subseteq Char
    BY DEF Char
  <2>2. QED
    BY <2>1
<1>3. CASE object = ObjectOf(inside)
  <2>1. Plain(o) /\ ((\E i \in 1 .. Len(o) : o[i] = "fence") => o[Len(o)] = "nl")
    BY <1>1 DEF Bare, Plain
  <2>2. Extract(before \o (ObjectOf(inside) \o after)) = {Object(Meaning(inside))}
    BY <1>1, <1>2, <2>1, ObjectExtracted
  <2>3. ObjectOf(inside) \in Seq(Char)
    BY ObjectIsText
  <2>4. PICK x : x = ObjectOf(inside)
    OBVIOUS
  <2>5. (before \o x) \o after = before \o (x \o after)
    BY <1>2, <2>3, <2>4, Regroup
  <2>6. QED
    BY <1>3, <2>2, <2>4, <2>5
<1>4. CASE object = Fenced(ObjectOf(inside))
  <2>1. PICK u : /\ Plain(u) /\ ((\E i \in 1 .. Len(u) : u[i] = "fence") => u[Len(u)] = "nl")
                 /\ before \o FenceLine \in Seq(Char)
                 /\ Folded(WriteStep, Writes, Unwritten, before \o FenceLine) = Wrote(FALSE, u)
    BY <1>1, <1>2, FenceWritten
  <2>2. PICK b, x, y : b = before \o FenceLine /\ x = ObjectOf(inside) /\ y = FenceEnd \o after
    OBVIOUS
  <2>3. x \in Seq(Char)
    BY <2>2, ObjectIsText
  <2>4. (before \o Fenced(x)) \o after = b \o (x \o y) /\ y \in Seq(Char)
    BY <1>2, <2>2, <2>3, FencedIs
  <2>5. Extract(b \o (ObjectOf(inside) \o y)) = {Object(Meaning(inside))}
    <3>1. y \in Seq(Char)
      BY <2>4
    <3>2. b \in Seq(Char)
      BY <2>1, <2>2
    <3>3. Folded(WriteStep, Writes, Unwritten, b) = Wrote(FALSE, u)
      BY <2>1, <2>2
    <3>4. Plain(u) /\ ((\E i \in 1 .. Len(u) : u[i] = "fence") => u[Len(u)] = "nl")
      BY <2>1
    <3>5. QED
      BY <3>1, <3>2, <3>3, <3>4, ObjectExtracted
  <2>6. QED
    BY <1>4, <2>2, <2>4, <2>5
<1>5. QED
  BY <1>3, <1>4

-----------------------------------------------------------------------------
(* What the agents make of an object.                                      *)

\* The pieces that JSON allows as they are written.
Escaped == {p \in Piece : p.written # <<"nl">>}

\* Sanitizing changes none of them.
LEMMA EscapedTurns ==
  ASSUME NEW p \in Escaped
  PROVE  Turns(p.written, p.written, <<p.means>>)
<1>1. CASE \E ch \in {"x", "open", "close"} : p = [written |-> <<ch>>, means |-> ch]
  <2>1. PICK ch \in {"x", "open", "close"} : p = [written |-> <<ch>>, means |-> ch]
    BY <1>1
  <2>2. ch \in Char /\ ch # "slash" /\ ch # "quote" /\ ch # "nl"
    BY DEF Char
  <2>3. Turns(<<ch>>, <<ch>>, <<ch>>)
    BY <2>2, StepsWithin
  <2>4. QED
    BY <2>1, <2>3
<1>2. CASE \E ch \in {"n", "quote", "slash"} :
             p = [written |-> <<"slash", ch>>, means |-> IF ch = "n" THEN "nl" ELSE ch]
  <2>1. PICK ch \in {"n", "quote", "slash"} :
          p = [written |-> <<"slash", ch>>, means |-> IF ch = "n" THEN "nl" ELSE ch]
    BY <1>2
  <2>2. Turns(<<"slash", ch>>, <<"slash", ch>>, <<IF ch = "n" THEN "nl" ELSE ch>>)
    BY EscapesWithin
  <2>3. p.written = <<"slash", ch>> /\ p.means = IF ch = "n" THEN "nl" ELSE ch
    BY <2>1
  <2>4. QED
    BY <2>2, <2>3
<1>3. p \in Piece /\ p # [written |-> <<"nl">>, means |-> "nl"]
  BY DEF Escaped
<1>4. QED
  BY <1>1, <1>2, <1>3 DEF Piece

\* Nor a string made of them.
LEMMA EscapedStays ==
  ASSUME NEW inside \in Seq(Escaped)
  PROVE  Turns(Written(inside), Written(inside), Meaning(inside))
<1> DEFINE P == {s \in Seq(Escaped) : Turns(Written(s), Written(s), Meaning(s))}
<1>1. \A s \in Seq(Escaped) : s \in Seq(Piece)
  <2>1. Escaped \subseteq Piece
    BY DEF Escaped
  <2>2. QED
    BY <2>1, SeqMonotonic
<1>2. <<>> \in P
  <2>1. PICK p : p \in Piece
    BY DEF Piece
  <2>2. <<>> \in Seq(Escaped) /\ <<>> \in Seq(Piece)
    OBVIOUS
  <2>3. Written(<<>>) = <<>> /\ Meaning(<<>>) = <<>>
    BY <2>1, <2>2, WrittenAppend
  <2>4. Turns(Written(<<>>), Written(<<>>), Meaning(<<>>))
    BY <2>3, NothingTurns
  <2>5. QED
    BY <2>2, <2>4
<1>3. ASSUME NEW s \in Seq(Escaped), NEW p \in Escaped, s \in P
      PROVE  Append(s, p) \in P
  <2>1. Turns(Written(s), Written(s), Meaning(s))
    BY <1>3
  <2>2. Turns(p.written, p.written, <<p.means>>)
    BY EscapedTurns
  <2>3. Turns(Written(s) \o p.written, Written(s) \o p.written, Meaning(s) \o <<p.means>>)
    BY <2>1, <2>2, TurnsOn
  <2>4. /\ Written(Append(s, p)) = Written(s) \o p.written
        /\ Meaning(Append(s, p)) = Meaning(s) \o <<p.means>>
    <3>1. s \in Seq(Piece)
      BY <1>1
    <3>2. p \in Piece
      BY DEF Escaped
    <3>3. QED
      BY <3>1, <3>2, WrittenAppend
  <2>5. Append(s, p) \in Seq(Escaped)
    BY AppendProperties
  <2>6. QED
    BY <2>3, <2>4, <2>5
<1> HIDE DEF P
<1>4. Seq(Escaped) \subseteq P
  BY <1>2, <1>3, SeqInduction
<1>5. QED
  BY <1>4 DEF P

\* A digest and a summary that are answered as JSON, their line breaks escaped,
\* are kept as they were meant: NewsDigestAgent and SummaryAgent read the answer
\* as it is.
THEOREM AnswersAreRead ==
  ASSUME NEW inside \in Seq(Escaped), ~Blank(Meaning(inside)), NEW title \in {"given", "missing"}
  PROVE  LET answer == [text |-> ObjectOf(inside), title |-> title]
         IN  /\ DigestOutput(answer) = Parsed(TRUE, Meaning(inside), TRUE)
             /\ SummaryOutput(answer) = Meaning(inside)
<1>1. PICK w, t : w = Written(inside) /\ t = Meaning(inside)
  OBVIOUS
<1>2. w \in Seq(Char)
  BY <1>1, EscapedStays DEF Turns
<1>3. t \in Seq(Char)
  BY <1>1, EscapedStays DEF Turns
<1>4. ReadsAs(w, t)
  BY <1>1, EscapedStays DEF Turns
<1>5. Loads(Boxed(w)) = Object(t)
  BY <1>2, <1>3, <1>4, BoxedLoads
<1>6. ObjectOf(inside) = Boxed(w)
  BY <1>1 DEF ObjectOf, Boxed, Around, Opening, Closing
<1>7. Object(t).is = "object" /\ Object(t).texto = t
  BY DEF Object
<1>8. QED
  BY <1>1, <1>5, <1>6, <1>7 DEF DigestOutput, SummaryOutput

\* A post is drafted with the text that was meant: after prose without braces whose
\* quotations are closed, with any string in the object, line breaks left as they
\* are included, and anything after it. LinkedInAgent._parse_output.
THEOREM PostsAreRead ==
  ASSUME NEW before \in Seq({"x", "nl", "quote"}),
         Cardinality({i \in DOMAIN before : before[i] = "quote"}) % 2 = 0,
         NEW inside \in Seq(Piece), ~Blank(Meaning(inside)), NEW after \in Seq(Char),
         NEW object \in {ObjectOf(inside), Fenced(ObjectOf(inside))},
         NEW title \in {"given", "missing"}
  PROVE  LinkedInOutput([text |-> before \o object \o after, title |-> title])
           = {Parsed(title = "given", Meaning(inside), TRUE)}
<1>1. PICK s, t : s = before \o object \o after /\ t = Meaning(inside)
  OBVIOUS
<1>2. Extract(s) = {Object(t)}
  BY <1>1, ObjectsAreFound
<1>3. Object(t).is = "object" /\ Object(t).texto = t
  BY DEF Object
<1>4. PICK a : a = [text |-> s, title |-> title]
  OBVIOUS
<1>5. a.text = s /\ a.title = title /\ title # "illtyped"
  BY <1>4
<1>6. LinkedInOutput(a) = {Parsed(title = "given", t, TRUE)}
  <2> DEFINE R(value) ==
        IF value.is = "object" /\ ~Blank(value.texto)
        THEN IF a.title = "illtyped" THEN Raised
             ELSE Parsed(a.title = "given", value.texto, TRUE)
        ELSE Parsed(TRUE, a.text, FALSE)
  <2>1. R(Object(t)) = Parsed(title = "given", t, TRUE)
    BY <1>1, <1>3, <1>5
  <2>2. LinkedInOutput(a) = {R(value) : value \in Extract(a.text)}
    BY DEF LinkedInOutput
  <2>3. Extract(a.text) = {Object(t)}
    BY <1>2, <1>5
  <2> HIDE DEF R
  <2>4. QED
    BY <2>1, <2>2, <2>3
<1>7. QED
  BY <1>1, <1>4, <1>6

=============================================================================
