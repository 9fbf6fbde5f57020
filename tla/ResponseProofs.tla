---------------------------- MODULE ResponseProofs ----------------------------
(***************************************************************************)
(* Lemmas about what is done to a response, for any text, secrets and      *)
(* event: what redaction keeps of a text, that it distributes over a cut   *)
(* no secret straddles, where Cut cuts, and what a client reads from an    *)
(* event whose data was replaced.                                          *)
(***************************************************************************)
EXTENDS Redaction, EventFraming, SequenceTheorems, FiniteSetTheorems, WellFoundedInduction, TLAPS

LEMMA Least ==
    ASSUME NEW S \in SUBSET Nat, S # {}
    PROVE  \E m \in S : \A n \in S : m <= n
<1> DEFINE R == OpToRel(<, Nat)
<1>1. IsWellFoundedOn(R, Nat)
  BY NatLessThanWellFounded
<1>2. \A i, j \in Nat : i < j => <<i, j>> \in R
  BY DEF OpToRel
<1> HIDE DEF R
<1>3. PICK m \in S : \A n \in S : <<n, m>> \notin R
  BY <1>1, WFMin
<1>4. ASSUME NEW n \in S
      PROVE  m <= n
  <2>1. m \in Nat /\ n \in Nat
    OBVIOUS
  <2>2. ~(n < m)
    BY <1>2, <1>3, <2>1
  <2> QED
    BY <2>1, <2>2
<1> QED
  BY <1>4

(* Induction from the top: a set that has every number up to n whose       *)
(* successors up to n it has.                                              *)
LEMMA Downwards ==
    ASSUME NEW n \in Nat, NEW S,
           \A i \in 1..n : (\A j \in i + 1..n : j \in S) => i \in S
    PROVE  1..n \subseteq S
<1> SUFFICES ASSUME NEW i \in 1..n, i \notin S PROVE FALSE
  OBVIOUS
<1> DEFINE Above == {d \in 0..n : n - d \in 1..n /\ n - d \notin S}
<1>1. n - i \in Above /\ Above \in SUBSET Nat
  OBVIOUS
<1>2. PICK d \in Above : \A e \in Above : d <= e
  BY <1>1, Least
<1>3. n - d \in 1..n /\ n - d \notin S /\ d \in 0..n
  OBVIOUS
<1>4. ASSUME NEW j \in n - d + 1..n PROVE j \in S
  <2>1. n - j \in 0..n /\ n - (n - j) = j /\ ~(d <= n - j) /\ j \in 1..n
    BY <1>3
  <2> QED
    BY <1>2, <2>1
<1> QED
  BY <1>3, <1>4

(* Induction from the bottom. *)
LEMMA Upwards ==
    ASSUME NEW n \in Nat, NEW S, 0 \in S,
           \A i \in 1..n : i - 1 \in S => i \in S
    PROVE  0..n \subseteq S
<1> SUFFICES ASSUME NEW i \in 0..n, i \notin S PROVE FALSE
  OBVIOUS
<1> DEFINE Out == {j \in 0..n : j \notin S}
<1>1. i \in Out /\ Out \in SUBSET Nat
  OBVIOUS
<1>2. PICK m \in Out : \A j \in Out : m <= j
  BY <1>1, Least
<1>3. m \in 1..n /\ m - 1 \in 0..n /\ ~(m <= m - 1) /\ m \notin S
  OBVIOUS
<1>4. m - 1 \in S
  BY <1>2, <1>3
<1> QED
  BY <1>3, <1>4

-----------------------------------------------------------------------------
Text == Seq(Symbols \cup {Redacted})

Literal == Seq(Symbols) \ {<<>>}

LEMMA LiteralIs ==
    ASSUME NEW literal \in Literal
    PROVE  /\ literal \in Text /\ Len(literal) \in Nat \ {0}
           /\ \A m \in 1..Len(literal) : literal[m] \in Symbols /\ literal[m] # Redacted
<1>1. literal \in Seq(Symbols) /\ literal # <<>>
  BY DEF Literal
<1>2. literal \in Text
  BY <1>1, SeqMonotonic DEF Text
<1>3. Len(literal) \in Nat \ {0}
  BY <1>1, EmptySeq
<1>4. \A m \in 1..Len(literal) : literal[m] \in Symbols
  BY <1>1, ElementOfSeq
<1> QED
  BY <1>2, <1>3, <1>4, SymbolsAssumption

LEMMA OccursIs ==
    ASSUME NEW text \in Text, NEW literal \in Literal, NEW i \in Nat \ {0}
    PROVE  OccursAt(text, literal, i) <=>
             /\ i + Len(literal) - 1 <= Len(text)
             /\ \A m \in 1..Len(literal) : text[i + m - 1] = literal[m]
<1>1. literal \in Text /\ Len(literal) \in Nat \ {0} /\ Len(text) \in Nat
  BY LiteralIs DEF Text
<1> SUFFICES ASSUME i + Len(literal) - 1 <= Len(text)
             PROVE  SubSeq(text, i, i + Len(literal) - 1) = literal <=>
                      \A m \in 1..Len(literal) : text[i + m - 1] = literal[m]
  BY DEF OccursAt
<1> DEFINE j == i + Len(literal) - 1
           part == SubSeq(text, i, j)
<1>2. i \in Int /\ j \in Int /\ i <= j /\ j - i + 1 = Len(literal)
  BY <1>1
<1>3. \A m \in i..j : text[m] \in Symbols \cup {Redacted}
  <2>1. \A m \in i..j : m \in 1..Len(text)
    BY <1>1
  <2> QED
    BY <2>1, ElementOfSeq DEF Text
<1> HIDE DEF j
<1>4. /\ part \in Text /\ Len(part) = Len(literal)
      /\ \A m \in 1..Len(literal) : part[m] = text[i + m - 1]
  BY <1>2, <1>3, SubSeqProperties DEF Text
<1> HIDE DEF part
<1>5. part = literal <=> \A m \in 1..Len(literal) : part[m] = literal[m]
  BY <1>1, <1>4, SeqEqual DEF Text
<1>6. part = literal <=> \A m \in 1..Len(literal) : text[i + m - 1] = literal[m]
  BY <1>4, <1>5
<1> QED
  BY <1>6 DEF part, j
(* What Replace makes of a text from its i-th symbol on. *)
Onwards(f, text, literal, i) ==
    IF i > Len(text) THEN <<>>
    ELSE IF OccursAt(text, literal, i) THEN <<Redacted>> \o f[i + Len(literal)]
    ELSE <<text[i]>> \o f[i + 1]

LEMMA OnwardsIs ==
    ASSUME NEW text \in Text, NEW literal \in Literal, NEW i \in 1..Len(text) + 1, NEW f,
           \A j \in i + 1..Len(text) + 1 : f[j] \in Text
    PROVE  /\ Onwards(f, text, literal, i) \in Text
           /\ \A g : (\A j \in i + 1..Len(text) + 1 : g[j] = f[j]) =>
                 Onwards(g, text, literal, i) = Onwards(f, text, literal, i)
<1>1. Len(text) \in Nat /\ Len(literal) \in Nat \ {0}
  BY LiteralIs DEF Text
<1>2. CASE i > Len(text)
  BY <1>2, EmptySeq DEF Onwards, Text
<1>3. CASE i <= Len(text) /\ OccursAt(text, literal, i)
  <2>1. i + Len(literal) \in i + 1..Len(text) + 1
    BY <1>1, <1>3 DEF OccursAt
  <2>2. <<Redacted>> \in Text
    BY DEF Text
  <2>3. <<Redacted>> \o f[i + Len(literal)] \in Text
    BY <2>1, <2>2, ConcatProperties DEF Text
  <2>4. \A g : Onwards(g, text, literal, i) = <<Redacted>> \o g[i + Len(literal)]
    BY <1>1, <1>3 DEF Onwards
  <2> QED
    BY <2>1, <2>3, <2>4
<1>4. CASE i <= Len(text) /\ ~OccursAt(text, literal, i)
  <2>1. i + 1 \in i + 1..Len(text) + 1 /\ i \in 1..Len(text)
    BY <1>1, <1>4
  <2>2. text[i] \in Symbols \cup {Redacted}
    BY <2>1, ElementOfSeq DEF Text
  <2>3. <<text[i]>> \in Text
    BY <2>2 DEF Text
  <2>4. <<text[i]>> \o f[i + 1] \in Text
    BY <2>1, <2>3, ConcatProperties DEF Text
  <2>5. \A g : Onwards(g, text, literal, i) = <<text[i]>> \o g[i + 1]
    BY <1>1, <1>4 DEF Onwards
  <2> QED
    BY <2>1, <2>4, <2>5
<1> QED
  BY <1>1, <1>2, <1>3, <1>4

(* The recursion of Replace has a solution, ... *)
Solves(f, text, literal) ==
    /\ f \in [1..Len(text) + 1 -> Text]
    /\ \A i \in 1..Len(text) + 1 : f[i] = Onwards(f, text, literal, i)

LEMMA ReplaceHasSolution ==
    ASSUME NEW text \in Text, NEW literal \in Literal
    PROVE  \E f : Solves(f, text, literal)
<1> DEFINE n == Len(text) + 1
           Partial(f, i) == /\ f \in [1..n -> Text]
                            /\ \A j \in i..n : f[j] = Onwards(f, text, literal, j)
           S == {i \in 1..n : \E f : Partial(f, i)}
<1>1. n \in Nat \ {0} /\ Len(text) \in Nat
  BY DEF Text
<1>2. ASSUME NEW i \in 1..n, \A j \in i + 1..n : j \in S PROVE i \in S
  <2>1. \E f \in [1..n -> Text] : \A j \in i + 1..n : f[j] = Onwards(f, text, literal, j)
    <3>1. CASE i = n
      <4>1. [j \in 1..n |-> <<>>] \in [1..n -> Text]
        BY EmptySeq DEF Text
      <4>2. i + 1..n = {}
        BY <1>1, <3>1
      <4> QED
        BY <4>1, <4>2
    <3>2. CASE i # n
      <4>1. i + 1 \in i + 1..n
        BY <1>1, <3>2
      <4>2. i + 1 \in S
        BY <1>2, <4>1
      <4> QED
        BY <4>2
    <3> QED
      BY <3>1, <3>2
  <2>2. PICK f \in [1..n -> Text] : \A j \in i + 1..n : f[j] = Onwards(f, text, literal, j)
    BY <2>1
  <2> DEFINE g == [f EXCEPT ![i] = Onwards(f, text, literal, i)]
  <2> HIDE DEF n
  <2>3. Onwards(f, text, literal, i) \in Text
    BY <1>1, OnwardsIs DEF n
  <2>4. /\ g \in [1..n -> Text] /\ g[i] = Onwards(f, text, literal, i)
        /\ \A j \in i + 1..n : g[j] = f[j]
    BY <1>1, <2>3
  <2> HIDE DEF g
  <2>5. ASSUME NEW j \in i..n PROVE g[j] = Onwards(g, text, literal, j)
    <3>1. j \in 1..n /\ \A m \in j + 1..n : m \in i + 1..n
      BY <1>1
    <3>2. \A m \in j + 1..Len(text) + 1 : g[m] = f[m]
      BY <2>4, <3>1 DEF n
    <3>3. Onwards(g, text, literal, j) = Onwards(f, text, literal, j)
      <4>1. \A m \in j + 1..Len(text) + 1 : f[m] \in Text
        BY <1>1, <3>1 DEF n
      <4>2. j \in 1..Len(text) + 1
        BY <3>1 DEF n
      <4> QED
        BY <3>2, <4>1, <4>2, OnwardsIs
    <3>4. j = i \/ j \in i + 1..n
      BY <1>1
    <3> QED
      BY <2>2, <2>4, <3>3, <3>4
  <2> QED
    BY <2>4, <2>5
<1>3. 1..n \subseteq S
  <2> HIDE DEF S, n
  <2> QED
    BY <1>1, <1>2, Downwards
<1>4. 1 \in S
  BY <1>1, <1>3
<1> QED
  BY <1>4 DEF Solves

(* ... and Replace is one of them: they are the same. *)
LEMMA ReplaceIs ==
    ASSUME NEW text \in Text, NEW literal \in Literal
    PROVE  \E f : Solves(f, text, literal) /\ Replace(text, literal) = f[1]
<1> DEFINE Is(f) == f = [i \in 1..Len(text) + 1 |-> Onwards(f, text, literal, i)]
           from == CHOOSE f : Is(f)
<1>1. PICK f : Solves(f, text, literal)
  BY ReplaceHasSolution
<1>2. Is(f)
  BY <1>1 DEF Solves
<1>3. Is(from)
  BY <1>2
<1>4. Replace(text, literal) = from[1]
  BY DEF Replace, Onwards
<1> HIDE DEF from
<1>5. 1..Len(text) + 1 \subseteq {i \in 1..Len(text) + 1 : from[i] = f[i]}
  <2> DEFINE S == {i \in 1..Len(text) + 1 : from[i] = f[i]}
             n == Len(text) + 1
  <2>1. n \in Nat
    BY DEF Text
  <2>2. ASSUME NEW i \in 1..n, \A j \in i + 1..n : j \in S PROVE i \in S
    <3>1. \A j \in i + 1..n : from[j] = f[j] /\ f[j] \in Text
      BY <1>1, <2>2 DEF Solves
    <3>2. Onwards(from, text, literal, i) = Onwards(f, text, literal, i)
      BY <3>1, OnwardsIs
    <3>3. from[i] = Onwards(from, text, literal, i) /\ f[i] = Onwards(f, text, literal, i)
      BY <1>1, <1>3 DEF Solves
    <3> QED
      BY <3>2, <3>3
  <2> HIDE DEF S, n
  <2>3. 1..n \subseteq S
    BY <2>1, <2>2, Downwards
  <2> QED
    BY <2>3 DEF S, n
<1>6. 1 \in 1..Len(text) + 1
  BY DEF Text
<1> QED
  BY <1>1, <1>4, <1>5, <1>6
-----------------------------------------------------------------------------
LEMMA ConcatIs ==
    ASSUME NEW a \in Text, NEW b \in Text
    PROVE  /\ a \o b \in Text /\ Len(a \o b) = Len(a) + Len(b) /\ Len(a) \in Nat /\ Len(b) \in Nat
           /\ \A m \in 1..Len(a) : (a \o b)[m] = a[m]
           /\ \A m \in 1..Len(b) : (a \o b)[Len(a) + m] = b[m]
<1>1. /\ a \o b \in Text /\ Len(a \o b) = Len(a) + Len(b) /\ Len(a) \in Nat /\ Len(b) \in Nat
      /\ \A m \in 1..Len(a) + Len(b) : (a \o b)[m] = IF m <= Len(a) THEN a[m] ELSE b[m - Len(a)]
  BY ConcatProperties DEF Text
<1> QED
  BY <1>1

LEMMA TextAssociative ==
    ASSUME NEW a \in Text, NEW b \in Text, NEW c \in Text
    PROVE  a \o (b \o c) = (a \o b) \o c
BY ConcatAssociative DEF Text

LEMMA OccursInFirst ==
    ASSUME NEW a \in Text, NEW b \in Text, NEW literal \in Literal, NEW i \in 1..Len(a)
    PROVE  OccursAt(a, literal, i) <=>
             OccursAt(a \o b, literal, i) /\ i + Len(literal) - 1 <= Len(a)
<1>1. Len(literal) \in Nat \ {0} /\ Len(a) \in Nat
  BY LiteralIs, ConcatIs
<1>2. CASE i + Len(literal) - 1 <= Len(a)
  <2> DEFINE whole == a \o b
  <2>1. \A m \in 1..Len(literal) : i + m - 1 \in 1..Len(a)
    BY <1>1, <1>2
  <2>2. /\ whole \in Text /\ Len(whole) = Len(a) + Len(b) /\ Len(b) \in Nat
        /\ \A m \in 1..Len(a) : whole[m] = a[m]
    BY ConcatIs
  <2> HIDE DEF whole
  <2>3. i + Len(literal) - 1 <= Len(whole)
    BY <1>1, <1>2, <2>2
  <2>4. OccursAt(a, literal, i) <=> \A m \in 1..Len(literal) : a[i + m - 1] = literal[m]
    BY <1>2, OccursIs
  <2>5. OccursAt(whole, literal, i) <=> \A m \in 1..Len(literal) : whole[i + m - 1] = literal[m]
    <3>1. i \in Nat \ {0}
      BY <1>1
    <3> QED
      BY <2>2, <2>3, <3>1, OccursIs
  <2>6. OccursAt(a, literal, i) <=> OccursAt(whole, literal, i)
    BY <2>1, <2>2, <2>4, <2>5
  <2> QED
    BY <1>2, <2>6 DEF whole
<1>3. CASE ~(i + Len(literal) - 1 <= Len(a))
  BY <1>3, OccursIs
<1> QED
  BY <1>2, <1>3

LEMMA OccursInSecond ==
    ASSUME NEW a \in Text, NEW b \in Text, NEW literal \in Literal, NEW i \in Nat \ {0}
    PROVE  OccursAt(a \o b, literal, Len(a) + i) <=> OccursAt(b, literal, i)
<1>1. Len(literal) \in Nat \ {0} /\ Len(a) \in Nat /\ Len(b) \in Nat /\ a \o b \in Text
      /\ Len(a \o b) = Len(a) + Len(b)
  BY LiteralIs, ConcatIs
<1>2. Len(a) + i + Len(literal) - 1 <= Len(a \o b) <=> i + Len(literal) - 1 <= Len(b)
  BY <1>1
<1>3. ASSUME i + Len(literal) - 1 <= Len(b), NEW m \in 1..Len(literal)
      PROVE  (a \o b)[Len(a) + i + m - 1] = b[i + m - 1]
  <2> DEFINE whole == a \o b
  <2>1. i + m - 1 \in 1..Len(b) /\ Len(a) + i + m - 1 = Len(a) + (i + m - 1)
    BY <1>1, <1>3
  <2>2. \A j \in 1..Len(b) : whole[Len(a) + j] = b[j]
    BY ConcatIs
  <2> HIDE DEF whole
  <2>3. whole[Len(a) + i + m - 1] = b[i + m - 1]
    BY <2>1, <2>2
  <2> QED
    BY <2>3 DEF whole
<1>4. Len(a) + i \in Nat \ {0}
  BY <1>1
<1> QED
  BY <1>1, <1>2, <1>3, <1>4, OccursIs

(* No occurrence of the literal begins in a and ends in b. *)
Parts(a, b, literal) ==
    \A i \in 1..Len(a) : OccursAt(a \o b, literal, i) => i + Len(literal) - 1 <= Len(a)

(* Where no occurrence straddles the seam, the replacement of the whole is *)
(* that of the parts.                                                      *)
LEMMA ReplaceOfParts ==
    ASSUME NEW a \in Text, NEW b \in Text, NEW literal \in Literal, Parts(a, b, literal)
    PROVE  Replace(a \o b, literal) = Replace(a, literal) \o Replace(b, literal)
<1> DEFINE whole == a \o b
           l == Len(literal)
<1>1. PICK f : Solves(f, whole, literal) /\ Replace(whole, literal) = f[1]
  BY ReplaceIs, ConcatIs
<1>2. PICK g : Solves(g, a, literal) /\ Replace(a, literal) = g[1]
  BY ReplaceIs
<1>3. PICK h : Solves(h, b, literal) /\ Replace(b, literal) = h[1]
  BY ReplaceIs
<1>4. /\ Len(whole) = Len(a) + Len(b) /\ Len(a) \in Nat /\ Len(b) \in Nat /\ l \in Nat \ {0}
      /\ whole \in Text
      /\ \A m \in 1..Len(a) : whole[m] = a[m]
      /\ \A m \in 1..Len(b) : whole[Len(a) + m] = b[m]
  BY LiteralIs, ConcatIs
<1>5. \A i \in 1..Len(b) + 1 : f[Len(a) + i] = h[i]
  <2> DEFINE n == Len(b) + 1
             S == {i \in 1..n : f[Len(a) + i] = h[i]}
  <2>1. ASSUME NEW i \in 1..n, \A j \in i + 1..n : j \in S PROVE i \in S
    <3>1. f[Len(a) + i] = Onwards(f, whole, literal, Len(a) + i) /\ h[i] = Onwards(h, b, literal, i)
      BY <1>1, <1>3, <1>4 DEF Solves
    <3>2. CASE i = n
      BY <1>4, <3>1, <3>2 DEF Onwards
    <3>3. CASE i # n /\ OccursAt(b, literal, i)
      <4>1. i + l \in i + 1..n
        BY <1>4, <3>3 DEF OccursAt
      <4>2. f[Len(a) + (i + l)] = h[i + l]
        BY <2>1, <4>1
      <4>3. Len(a) + i + l = Len(a) + (i + l) /\ ~(Len(a) + i > Len(whole)) /\ ~(i > Len(b))
        BY <1>4, <3>3
      <4>4. OccursAt(whole, literal, Len(a) + i)
        BY <3>3, OccursInSecond
      <4> QED
        BY <3>1, <3>3, <4>2, <4>3, <4>4 DEF Onwards
    <3>4. CASE i # n /\ ~OccursAt(b, literal, i)
      <4>1. i + 1 \in i + 1..n /\ i \in 1..Len(b)
        BY <1>4, <3>4
      <4>2. f[Len(a) + (i + 1)] = h[i + 1]
        BY <2>1, <4>1
      <4>3. Len(a) + i + 1 = Len(a) + (i + 1) /\ ~(Len(a) + i > Len(whole)) /\ ~(i > Len(b))
        BY <1>4, <3>4
      <4>4. ~OccursAt(whole, literal, Len(a) + i)
        BY <3>4, OccursInSecond
      <4>5. whole[Len(a) + i] = b[i]
        BY <1>4, <4>1
      <4> QED
        BY <3>1, <3>4, <4>2, <4>3, <4>4, <4>5 DEF Onwards
    <3> QED
      BY <3>2, <3>3, <3>4
  <2> HIDE DEF S, n
  <2>2. n \in Nat
    BY <1>4 DEF n
  <2>3. 1..n \subseteq S
    BY <2>1, <2>2, Downwards
  <2> QED
    BY <2>3 DEF S, n
<1>6. h[1] \in Text /\ f[Len(a) + 1] = h[1]
  BY <1>3, <1>4, <1>5 DEF Solves
<1>7. \A i \in 1..Len(a) + 1 : f[i] = g[i] \o h[1]
  <2> DEFINE n == Len(a) + 1
             S == {i \in 1..n : f[i] = g[i] \o h[1]}
  <2>1. ASSUME NEW i \in 1..n, \A j \in i + 1..n : j \in S PROVE i \in S
    <3>1. f[i] = Onwards(f, whole, literal, i) /\ g[i] = Onwards(g, a, literal, i)
      BY <1>1, <1>2, <1>4 DEF Solves
    <3>2. CASE i = n
      <4>1. g[i] = <<>>
        BY <1>4, <3>1, <3>2 DEF Onwards
      <4> QED
        BY <1>6, <3>2, <4>1, ConcatEmptySeq DEF Text
    <3>3. CASE i # n /\ OccursAt(a, literal, i)
      <4>1. i + l \in i + 1..n /\ i \in 1..Len(a)
        BY <1>4, <3>3 DEF OccursAt
      <4>2. f[i + l] = g[i + l] \o h[1] /\ g[i + l] \in Text
        BY <1>2, <1>4, <2>1, <4>1 DEF Solves
      <4>3. OccursAt(whole, literal, i)
        BY <3>3, <4>1, OccursInFirst
      <4>4. f[i] = <<Redacted>> \o f[i + l] /\ g[i] = <<Redacted>> \o g[i + l]
        BY <1>4, <3>1, <3>3, <4>1, <4>3 DEF Onwards
      <4>5. <<Redacted>> \in Text
        BY DEF Text
      <4>6. <<Redacted>> \o (g[i + l] \o h[1]) = (<<Redacted>> \o g[i + l]) \o h[1]
        BY <1>6, <4>2, <4>5, TextAssociative
      <4> QED
        BY <4>2, <4>4, <4>6
    <3>4. CASE i # n /\ ~OccursAt(a, literal, i)
      <4>1. i + 1 \in i + 1..n /\ i \in 1..Len(a)
        BY <1>4, <3>4
      <4>2. f[i + 1] = g[i + 1] \o h[1] /\ g[i + 1] \in Text
        BY <1>2, <1>4, <2>1, <4>1 DEF Solves
      <4>3. ~OccursAt(whole, literal, i)
        BY <3>4, <4>1, OccursInFirst DEF Parts
      <4>4. f[i] = <<a[i]>> \o f[i + 1] /\ g[i] = <<a[i]>> \o g[i + 1]
        BY <1>4, <3>1, <3>4, <4>1, <4>3 DEF Onwards
      <4>5. a[i] \in Symbols \cup {Redacted}
        BY <4>1, ElementOfSeq DEF Text
      <4>6. <<a[i]>> \in Text
        BY <4>5 DEF Text
      <4>7. <<a[i]>> \o (g[i + 1] \o h[1]) = (<<a[i]>> \o g[i + 1]) \o h[1]
        BY <1>6, <4>2, <4>6, TextAssociative
      <4> QED
        BY <4>2, <4>4, <4>7
    <3> QED
      BY <3>2, <3>3, <3>4
  <2> HIDE DEF S, n
  <2>2. n \in Nat
    BY <1>4 DEF n
  <2>3. 1..n \subseteq S
    BY <2>1, <2>2, Downwards
  <2> QED
    BY <2>3 DEF S, n
<1>8. f[1] = g[1] \o h[1]
  <2>1. 1 \in 1..Len(a) + 1
    BY <1>4
  <2> QED
    BY <1>7, <2>1
<1> QED
  BY <1>1, <1>2, <1>3, <1>8
-----------------------------------------------------------------------------
LEMMA ConsIs ==
    ASSUME NEW x \in Symbols \cup {Redacted}, NEW t \in Text
    PROVE  /\ <<x>> \o t \in Text /\ Len(<<x>> \o t) = Len(t) + 1 /\ Len(t) \in Nat
           /\ (<<x>> \o t)[1] = x
           /\ \A m \in 1..Len(t) : (<<x>> \o t)[m + 1] = t[m]
<1>1. <<x>> \in Text /\ Len(<<x>>) = 1 /\ <<x>>[1] = x
  BY DEF Text
<1> DEFINE one == <<x>>
           s == one \o t
<1> HIDE DEF one
<1>2. /\ s \in Text /\ Len(s) = Len(one) + Len(t) /\ Len(t) \in Nat
      /\ \A m \in 1..Len(one) : s[m] = one[m]
      /\ \A m \in 1..Len(t) : s[Len(one) + m] = t[m]
  BY <1>1, ConcatIs DEF one
<1> HIDE DEF s
<1>3. /\ s \in Text /\ Len(s) = Len(t) + 1 /\ Len(t) \in Nat
      /\ s[1] = x
      /\ \A m \in 1..Len(t) : s[m + 1] = t[m]
  BY <1>1, <1>2 DEF one
<1> QED
  BY <1>3 DEF s, one

(* A step of Replace puts one symbol before what comes later: the marker,  *)
(* or the symbol of the text.                                              *)
Steps(f, text, literal, i) ==
    \E j \in i + 1..Len(text) + 1, x \in Symbols \cup {Redacted} :
        /\ f[i] = <<x>> \o f[j] /\ f[j] \in Text
        /\ x # Redacted => j = i + 1 /\ x = text[i] /\ ~OccursAt(text, literal, i)

LEMMA StepIs ==
    ASSUME NEW text \in Text, NEW literal \in Literal, NEW f, Solves(f, text, literal),
           NEW i \in 1..Len(text)
    PROVE  Steps(f, text, literal, i)
<1> USE DEF Steps
<1>1. Len(text) \in Nat /\ Len(literal) \in Nat \ {0} /\ f[i] = Onwards(f, text, literal, i)
  BY LiteralIs DEF Text, Solves
<1>2. \A j \in i + 1..Len(text) + 1 : f[j] \in Text
  BY <1>1 DEF Solves
<1>3. CASE OccursAt(text, literal, i)
  <2>1. i + Len(literal) \in i + 1..Len(text) + 1
    BY <1>1, <1>3 DEF OccursAt
  <2>2. f[i] = <<Redacted>> \o f[i + Len(literal)]
    BY <1>1, <1>3 DEF Onwards
  <2> QED
    BY <1>2, <2>1, <2>2
<1>4. CASE ~OccursAt(text, literal, i)
  <2>1. f[i] = <<text[i]>> \o f[i + 1]
    BY <1>1, <1>4 DEF Onwards
  <2>2. text[i] \in Symbols \cup {Redacted} /\ i + 1 \in i + 1..Len(text) + 1
    BY <1>1, ElementOfSeq DEF Text
  <2> QED
    BY <1>2, <1>4, <2>1, <2>2
<1> QED
  BY <1>3, <1>4

(* What precedes the first marker, and what follows the last, is as it was *)
(* in the text.                                                            *)
FrontKept(s, text, i) ==
    \A k \in 0..Len(s) : (\A m \in 1..k : s[m] # Redacted) =>
        k <= Len(text) + 1 - i /\ \A m \in 1..k : s[m] = text[i + m - 1]

BackKept(s, text, i) ==
    \A k \in 0..Len(s) : (\A m \in 1..k : s[Len(s) + 1 - m] # Redacted) =>
        /\ k <= Len(text) + 1 - i
        /\ k = Len(s) => k = Len(text) + 1 - i
        /\ \A m \in 1..k : s[Len(s) + 1 - m] = text[Len(text) + 1 - m]

LEMMA StepKeepsFront ==
    ASSUME NEW text \in Text, NEW i \in 1..Len(text), NEW j \in i + 1..Len(text) + 1,
           NEW x \in Symbols \cup {Redacted}, NEW t \in Text,
           x # Redacted => j = i + 1 /\ x = text[i],
           FrontKept(t, text, j)
    PROVE  FrontKept(<<x>> \o t, text, i)
<1> DEFINE s == <<x>> \o t
<1>1. /\ s \in Text /\ Len(s) = Len(t) + 1 /\ Len(t) \in Nat /\ Len(text) \in Nat
      /\ s[1] = x /\ \A m \in 1..Len(t) : s[m + 1] = t[m]
  BY ConsIs DEF Text
<1> HIDE DEF s
<1>2. ASSUME NEW k \in 0..Len(s), \A m \in 1..k : s[m] # Redacted
      PROVE  k <= Len(text) + 1 - i /\ \A m \in 1..k : s[m] = text[i + m - 1]
  <2>1. CASE k = 0
    BY <1>1, <2>1
  <2>2. CASE k # 0
    <3>1. j = i + 1 /\ x = text[i] /\ k - 1 \in 0..Len(t)
      BY <1>1, <1>2, <2>2
    <3>2. \A m \in 1..k - 1 : t[m] # Redacted
      BY <1>1, <1>2
    <3>3. k - 1 <= Len(text) + 1 - j /\ \A m \in 1..k - 1 : t[m] = text[j + m - 1]
      BY <3>1, <3>2 DEF FrontKept
    <3>4. ASSUME NEW m \in 1..k PROVE s[m] = text[i + m - 1]
      <4>1. CASE m = 1
        BY <1>1, <3>1, <4>1
      <4>2. CASE m # 1
        <5>1. m - 1 \in 1..k - 1 /\ m - 1 \in 1..Len(t) /\ (m - 1) + 1 = m
              /\ j + (m - 1) - 1 = i + m - 1
          BY <1>1, <3>1, <4>2
        <5> QED
          BY <1>1, <3>3, <5>1
      <4> QED
        BY <4>1, <4>2
    <3> QED
      BY <1>1, <3>1, <3>3, <3>4
  <2> QED
    BY <2>1, <2>2
<1> QED
  BY <1>2 DEF FrontKept, s

LEMMA StepKeepsBack ==
    ASSUME NEW text \in Text, NEW i \in 1..Len(text), NEW j \in i + 1..Len(text) + 1,
           NEW x \in Symbols \cup {Redacted}, NEW t \in Text,
           x # Redacted => j = i + 1 /\ x = text[i],
           BackKept(t, text, j)
    PROVE  BackKept(<<x>> \o t, text, i)
<1> DEFINE s == <<x>> \o t
<1>1. /\ s \in Text /\ Len(s) = Len(t) + 1 /\ Len(t) \in Nat /\ Len(text) \in Nat
      /\ s[1] = x /\ \A m \in 1..Len(t) : s[m + 1] = t[m]
  BY ConsIs DEF Text
<1> HIDE DEF s
<1>2. ASSUME NEW k \in 0..Len(s), \A m \in 1..k : s[Len(s) + 1 - m] # Redacted
      PROVE  /\ k <= Len(text) + 1 - i
             /\ k = Len(s) => k = Len(text) + 1 - i
             /\ \A m \in 1..k : s[Len(s) + 1 - m] = text[Len(text) + 1 - m]
  <2>1. ASSUME NEW m \in 1..Len(t) PROVE s[Len(s) + 1 - m] = t[Len(t) + 1 - m]
    <3>1. Len(t) + 1 - m \in 1..Len(t) /\ (Len(t) + 1 - m) + 1 = Len(s) + 1 - m
      BY <1>1
    <3> QED
      BY <1>1, <3>1
  <2>2. CASE k <= Len(t)
    <3>1. k \in 0..Len(t) /\ \A m \in 1..k : m \in 1..Len(t)
      BY <1>1, <2>2
    <3>2. \A m \in 1..k : t[Len(t) + 1 - m] # Redacted
      BY <1>2, <2>1, <3>1
    <3>3. k <= Len(text) + 1 - j /\ \A m \in 1..k : t[Len(t) + 1 - m] = text[Len(text) + 1 - m]
      BY <3>1, <3>2 DEF BackKept
    <3>4. \A m \in 1..k : s[Len(s) + 1 - m] = text[Len(text) + 1 - m]
      BY <2>1, <3>1, <3>3
    <3> QED
      BY <1>1, <2>2, <3>3, <3>4
  <2>3. CASE ~(k <= Len(t))
    <3>1. k = Len(s) /\ k = Len(t) + 1 /\ k \in 1..k /\ Len(s) + 1 - k = 1
      BY <1>1, <2>3
    <3>2. j = i + 1 /\ x = text[i]
      BY <1>1, <1>2, <3>1
    <3>3. \A m \in 1..Len(t) : t[Len(t) + 1 - m] # Redacted
      BY <1>1, <1>2, <2>1, <3>1
    <3>4. /\ Len(t) = Len(text) + 1 - j
          /\ \A m \in 1..Len(t) : t[Len(t) + 1 - m] = text[Len(text) + 1 - m]
      <4>1. Len(t) \in 0..Len(t)
        BY <1>1
      <4> QED
        BY <3>3, <4>1 DEF BackKept
    <3>5. k = Len(text) + 1 - i
      BY <1>1, <3>1, <3>2, <3>4
    <3>6. ASSUME NEW m \in 1..k PROVE s[Len(s) + 1 - m] = text[Len(text) + 1 - m]
      <4>1. CASE m = k
        <5>1. Len(text) + 1 - m = i
          BY <1>1, <3>5, <4>1
        <5> QED
          BY <1>1, <3>1, <3>2, <4>1, <5>1
      <4>2. CASE m # k
        <5>1. m \in 1..Len(t)
          BY <3>1, <4>2
        <5> QED
          BY <2>1, <3>4, <5>1
      <4> QED
        BY <4>1, <4>2
    <3> QED
      BY <1>1, <3>1, <3>5, <3>6
  <2> QED
    BY <1>1, <2>2, <2>3
<1> QED
  BY <1>2 DEF BackKept, s

LEMMA ReplaceKeepsEnds ==
    ASSUME NEW text \in Text, NEW literal \in Literal
    PROVE  /\ Replace(text, literal) \in Text
           /\ FrontKept(Replace(text, literal), text, 1)
           /\ BackKept(Replace(text, literal), text, 1)
<1>1. PICK f : Solves(f, text, literal) /\ Replace(text, literal) = f[1]
  BY ReplaceIs
<1>2. ASSUME NEW i \in 1..Len(text)
      PROVE  Steps(f, text, literal, i)
  BY <1>1, StepIs
<1> DEFINE n == Len(text) + 1
           S == {i \in 1..n : f[i] \in Text /\ FrontKept(f[i], text, i) /\ BackKept(f[i], text, i)}
<1>3. Len(text) \in Nat /\ n \in Nat
  BY DEF Text
<1>4. ASSUME NEW i \in 1..n, \A j \in i + 1..n : j \in S PROVE i \in S
  <2>1. f[i] \in Text
    BY <1>1 DEF Solves
  <2>2. CASE i = n
    <3>1. f[i] = <<>>
      <4>1. f[i] = Onwards(f, text, literal, i)
        BY <1>1, <1>3 DEF Solves
      <4>2. i > Len(text)
        BY <1>3, <2>2
      <4> QED
        BY <4>1, <4>2 DEF Onwards
    <3>2. FrontKept(<<>>, text, i) /\ BackKept(<<>>, text, i)
      BY <1>3, <2>2 DEF FrontKept, BackKept
    <3> QED
      BY <2>1, <3>1, <3>2
  <2>3. CASE i # n
    <3>1. i \in 1..Len(text)
      BY <1>3, <2>3
    <3>2. PICK j \in i + 1..n, x \in Symbols \cup {Redacted} :
            /\ f[i] = <<x>> \o f[j] /\ f[j] \in Text
            /\ x # Redacted => j = i + 1 /\ x = text[i] /\ ~OccursAt(text, literal, i)
      BY <1>2, <3>1 DEF Steps
    <3>3. FrontKept(f[j], text, j) /\ BackKept(f[j], text, j)
      BY <1>4
    <3>4. FrontKept(<<x>> \o f[j], text, i) /\ BackKept(<<x>> \o f[j], text, i)
      BY <3>1, <3>2, <3>3, StepKeepsFront, StepKeepsBack
    <3> QED
      BY <2>1, <3>2, <3>4
  <2> QED
    BY <2>2, <2>3
<1>5. 1..n \subseteq S
  <2> HIDE DEF S, n
  <2> QED
    BY <1>3, <1>4, Downwards
<1>6. 1 \in S
  BY <1>3, <1>5
<1> QED
  BY <1>1, <1>6

(* Whatever is left of the text begins where the literal does not. *)
RunsKept(s, text, literal) ==
    \A k \in 1..Len(s), r \in Nat \ {0} :
        k + r - 1 <= Len(s) /\ (\A m \in 1..r : s[k + m - 1] # Redacted) =>
            \E i \in Nat \ {0} :
                /\ i + r - 1 <= Len(text) /\ ~OccursAt(text, literal, i)
                /\ \A m \in 1..r : s[k + m - 1] = text[i + m - 1]

LEMMA ReplaceKeepsRuns ==
    ASSUME NEW text \in Text, NEW literal \in Literal
    PROVE  RunsKept(Replace(text, literal), text, literal)
<1>1. PICK f : Solves(f, text, literal) /\ Replace(text, literal) = f[1]
  BY ReplaceIs
<1>2. ASSUME NEW i \in 1..Len(text)
      PROVE  Steps(f, text, literal, i)
  BY <1>1, StepIs
<1> DEFINE n == Len(text) + 1
           S == {i \in 1..n : FrontKept(f[i], text, i) /\ RunsKept(f[i], text, literal)}
<1>3. Len(text) \in Nat /\ n \in Nat
  BY DEF Text
<1>4. ASSUME NEW i \in 1..n, \A j \in i + 1..n : j \in S PROVE i \in S
  <2>1. f[i] \in Text
    BY <1>1 DEF Solves
  <2>2. CASE i = n
    <3>1. f[i] = <<>>
      <4>1. f[i] = Onwards(f, text, literal, i)
        BY <1>1, <1>3 DEF Solves
      <4>2. i > Len(text)
        BY <1>3, <2>2
      <4> QED
        BY <4>1, <4>2 DEF Onwards
    <3>2. FrontKept(<<>>, text, i) /\ RunsKept(<<>>, text, literal)
      BY <1>3, <2>2 DEF FrontKept, RunsKept
    <3> QED
      BY <3>1, <3>2
  <2>3. CASE i # n
    <3>1. i \in 1..Len(text)
      BY <1>3, <2>3
    <3>2. PICK j \in i + 1..n, x \in Symbols \cup {Redacted} :
            /\ f[i] = <<x>> \o f[j] /\ f[j] \in Text
            /\ x # Redacted => j = i + 1 /\ x = text[i] /\ ~OccursAt(text, literal, i)
      BY <1>2, <3>1 DEF Steps
    <3>3. FrontKept(f[j], text, j) /\ RunsKept(f[j], text, literal)
      BY <1>4
    <3>4. FrontKept(<<x>> \o f[j], text, i)
      BY <3>1, <3>2, <3>3, StepKeepsFront
    <3> DEFINE s == f[i]
               t == f[j]
    <3>5. /\ Len(s) = Len(t) + 1 /\ Len(t) \in Nat /\ s[1] = x
          /\ \A m \in 1..Len(t) : s[m + 1] = t[m]
      BY <3>2, ConsIs
    <3>6. FrontKept(s, text, i)
      BY <3>2, <3>4
    <3> HIDE DEF s, t, n
    <3>7. ASSUME NEW k \in 1..Len(s), NEW r \in Nat \ {0}, k + r - 1 <= Len(s),
                 \A m \in 1..r : s[k + m - 1] # Redacted
          PROVE  \E a \in Nat \ {0} :
                    /\ a + r - 1 <= Len(text) /\ ~OccursAt(text, literal, a)
                    /\ \A m \in 1..r : s[k + m - 1] = text[a + m - 1]
      <4>1. CASE k = 1
        <5>1. r \in 0..Len(s) /\ 1 \in 1..r /\ \A m \in 1..r : k + m - 1 = m
          BY <3>5, <3>7, <4>1
        <5>2. \A m \in 1..r : s[m] # Redacted
          BY <3>7, <5>1
        <5>3. r <= Len(text) + 1 - i /\ \A m \in 1..r : s[m] = text[i + m - 1]
          BY <3>6, <5>1, <5>2 DEF FrontKept
        <5>4. ~OccursAt(text, literal, i)
          BY <3>2, <3>5, <5>1, <5>2
        <5>5. i \in Nat \ {0} /\ i + r - 1 <= Len(text)
          BY <1>3, <3>1, <5>3
        <5> QED
          BY <5>1, <5>3, <5>4, <5>5
      <4>2. CASE k # 1
        <5>1. k - 1 \in 1..Len(t) /\ (k - 1) + r - 1 <= Len(t)
          BY <3>5, <3>7, <4>2
        <5>2. ASSUME NEW m \in 1..r PROVE t[(k - 1) + m - 1] = s[k + m - 1]
          <6>1. (k - 1) + m - 1 \in 1..Len(t) /\ ((k - 1) + m - 1) + 1 = k + m - 1
            BY <3>5, <5>1
          <6> QED
            BY <3>5, <6>1
        <5>3. \A m \in 1..r : t[(k - 1) + m - 1] # Redacted
          BY <3>7, <5>2
        <5>4. RunsKept(t, text, literal)
          BY <3>3 DEF t
        <5>5. PICK a \in Nat \ {0} :
                /\ a + r - 1 <= Len(text) /\ ~OccursAt(text, literal, a)
                /\ \A m \in 1..r : t[(k - 1) + m - 1] = text[a + m - 1]
          BY <5>1, <5>3, <5>4 DEF RunsKept
        <5> QED
          BY <5>2, <5>5
      <4> QED
        BY <4>1, <4>2
    <3>8. RunsKept(s, text, literal)
      BY <3>7 DEF RunsKept
    <3> QED
      BY <3>6, <3>8 DEF s
  <2> QED
    BY <2>2, <2>3
<1>5. 1..n \subseteq S
  <2> HIDE DEF S, n
  <2> QED
    BY <1>3, <1>4, Downwards
<1>6. 1 \in S
  BY <1>3, <1>5
<1> QED
  BY <1>1, <1>6

Free(text, literal) == \A i \in 1..Len(text) : ~OccursAt(text, literal, i)

(* Replacement leaves no occurrence of its literal, and makes none of      *)
(* another one.                                                            *)
LEMMA ReplaceFrees ==
    ASSUME NEW text \in Text, NEW literal \in Literal, NEW other \in Literal,
           other = literal \/ Free(text, other)
    PROVE  Free(Replace(text, literal), other)
<1> DEFINE s == Replace(text, literal)
           l == Len(other)
<1>1. s \in Text /\ Len(s) \in Nat /\ Len(text) \in Nat
  BY ReplaceKeepsEnds DEF Text
<1>2. RunsKept(s, text, literal)
  BY ReplaceKeepsRuns
<1>3. l \in Nat \ {0} /\ \A m \in 1..l : other[m] # Redacted
  BY LiteralIs
<1> HIDE DEF s, l
<1> SUFFICES ASSUME NEW k \in 1..Len(s), OccursAt(s, other, k)
             PROVE  FALSE
  BY DEF Free, s
<1>4. k \in Nat \ {0} /\ k + l - 1 <= Len(s) /\ \A m \in 1..l : s[k + m - 1] = other[m]
  BY <1>1, OccursIs DEF l
<1>5. PICK i \in Nat \ {0} :
        /\ i + l - 1 <= Len(text) /\ ~OccursAt(text, literal, i)
        /\ \A m \in 1..l : s[k + m - 1] = text[i + m - 1]
  <2>1. k + l - 1 <= Len(s) /\ \A m \in 1..l : s[k + m - 1] # Redacted
    BY <1>3, <1>4
  <2> QED
    BY <1>2, <1>3, <2>1 DEF RunsKept
<1>6. \A m \in 1..l : text[i + m - 1] = other[m]
  BY <1>4, <1>5
<1>7. OccursAt(text, other, i)
  BY <1>5, <1>6, OccursIs DEF l
<1>8. i \in 1..Len(text)
  BY <1>1, <1>3, <1>5
<1> QED
  BY <1>5, <1>7, <1>8 DEF Free

(* Replacement makes no occurrence of a literal straddle a seam that none  *)
(* straddled before: a literal holds no marker, and next to the seam there *)
(* is, up to the nearest marker, what was there before.                    *)
LEMMA SeamKept ==
    ASSUME NEW a \in Text, NEW b \in Text, NEW literal \in Literal, NEW other \in Literal,
           Parts(a, b, other)
    PROVE  Parts(Replace(a, literal), Replace(b, literal), other)
<1> DEFINE ra == Replace(a, literal)
           rb == Replace(b, literal)
           whole == a \o b
           made == ra \o rb
           l == Len(other)
<1>1. /\ ra \in Text /\ BackKept(ra, a, 1)
      /\ rb \in Text /\ FrontKept(rb, b, 1)
  BY ReplaceKeepsEnds
<1> HIDE DEF ra, rb
<1>2. /\ Len(whole) = Len(a) + Len(b) /\ Len(a) \in Nat /\ Len(b) \in Nat /\ whole \in Text
      /\ \A m \in 1..Len(a) : whole[m] = a[m]
      /\ \A m \in 1..Len(b) : whole[Len(a) + m] = b[m]
  BY ConcatIs
<1>3. /\ Len(made) = Len(ra) + Len(rb) /\ Len(ra) \in Nat /\ Len(rb) \in Nat /\ made \in Text
      /\ \A m \in 1..Len(ra) : made[m] = ra[m]
      /\ \A m \in 1..Len(rb) : made[Len(ra) + m] = rb[m]
  BY <1>1, ConcatIs
<1>4. l \in Nat \ {0} /\ \A m \in 1..l : other[m] # Redacted
  BY LiteralIs
<1> HIDE DEF whole, made, l
<1> SUFFICES ASSUME NEW i \in 1..Len(ra), OccursAt(made, other, i), i + l - 1 > Len(ra)
             PROVE  FALSE
  BY <1>3, <1>4 DEF Parts, made, l, ra, rb
<1> DEFINE k == Len(ra) + 1 - i
           r == l - k
           first == Len(a) + 1 - k
<1>5. /\ i + l - 1 <= Len(made)
      /\ \A m \in 1..l : made[i + m - 1] = other[m]
  BY <1>3, OccursIs DEF l
<1>6. k \in 1..Len(ra) /\ r \in 1..Len(rb) /\ k + r = l
  BY <1>3, <1>4, <1>5
<1>7. ASSUME NEW m \in 1..k PROVE ra[Len(ra) + 1 - m] = other[k + 1 - m]
  <2>1. /\ k + 1 - m \in 1..l /\ i + (k + 1 - m) - 1 = Len(ra) + 1 - m
        /\ Len(ra) + 1 - m \in 1..Len(ra)
    BY <1>3, <1>6
  <2> QED
    BY <1>3, <1>5, <2>1
<1>8. ASSUME NEW m \in 1..r PROVE rb[m] = other[k + m]
  <2>1. k + m \in 1..l /\ i + (k + m) - 1 = Len(ra) + m /\ m \in 1..Len(rb)
    BY <1>3, <1>6
  <2> QED
    BY <1>3, <1>5, <2>1
<1>9. k <= Len(a) /\ \A m \in 1..k : ra[Len(ra) + 1 - m] = a[Len(a) + 1 - m]
  <2>1. \A m \in 1..k : ra[Len(ra) + 1 - m] # Redacted
    <3>1. \A m \in 1..k : k + 1 - m \in 1..l
      BY <1>6
    <3> QED
      BY <1>4, <1>7, <3>1
  <2>2. k \in 0..Len(ra)
    BY <1>6
  <2> HIDE DEF k
  <2>3. k <= Len(a) + 1 - 1
    BY <1>1, <2>1, <2>2 DEF BackKept
  <2>4. \A m \in 1..k : ra[Len(ra) + 1 - m] = a[Len(a) + 1 - m]
    BY <1>1, <2>1, <2>2 DEF BackKept
  <2> QED
    BY <1>2, <2>3, <2>4
<1>10. r <= Len(b) /\ \A m \in 1..r : rb[m] = b[m]
  <2>1. \A m \in 1..r : rb[m] # Redacted
    <3>1. \A m \in 1..r : k + m \in 1..l
      BY <1>6
    <3> QED
      BY <1>4, <1>8, <3>1
  <2>2. r \in 0..Len(rb)
    BY <1>6
  <2> HIDE DEF r
  <2>3. r <= Len(b) + 1 - 1 /\ \A m \in 1..r : rb[m] = b[1 + m - 1]
    BY <1>1, <2>1, <2>2 DEF FrontKept
  <2>4. \A m \in 1..r : 1 + m - 1 = m
    BY <2>2
  <2> QED
    BY <1>2, <2>3, <2>4
<1>11. first \in 1..Len(a) /\ first + l - 1 = Len(a) + r
  BY <1>2, <1>4, <1>6, <1>9
<1>12. ASSUME NEW m \in 1..l PROVE whole[first + m - 1] = other[m]
  <2>1. CASE m <= k
    <3>1. /\ k + 1 - m \in 1..k /\ k + 1 - (k + 1 - m) = m
          /\ Len(a) + 1 - (k + 1 - m) = first + m - 1
          /\ first + m - 1 \in 1..Len(a)
      BY <1>2, <1>6, <1>9, <2>1
    <3> HIDE DEF k, first
    <3> QED
      BY <1>2, <1>7, <1>9, <3>1
  <2>2. CASE m > k
    <3>1. m - k \in 1..r /\ k + (m - k) = m /\ Len(a) + (m - k) = first + m - 1 /\ m - k \in 1..Len(b)
      BY <1>2, <1>6, <1>10, <2>2
    <3> HIDE DEF k, first, r
    <3> QED
      BY <1>2, <1>8, <1>10, <3>1
  <2> QED
    BY <1>6, <2>1, <2>2
<1>13. OccursAt(whole, other, first)
  <2>1. first + l - 1 <= Len(whole) /\ first \in Nat \ {0}
    <3> HIDE DEF k, r, first
    <3> QED
      BY <1>2, <1>6, <1>10, <1>11
  <2> HIDE DEF first
  <2> QED
    BY <1>2, <1>12, <2>1, OccursIs DEF l
<1>14. first + l - 1 <= Len(a)
  <2> HIDE DEF first
  <2> QED
    BY <1>11, <1>13 DEF Parts, whole, l
<1> QED
  BY <1>2, <1>6, <1>11, <1>14

-----------------------------------------------------------------------------
(* The stages of a redaction, one per secret. *)
Redacts(f, text, secrets) ==
    /\ f \in [0..Len(secrets) -> Text]
    /\ f[0] = text
    /\ \A n \in 1..Len(secrets) : f[n] = Replace(f[n - 1], secrets[n])

LEMMA RedactIs ==
    ASSUME NEW text \in Text, NEW secrets \in Seq(Literal)
    PROVE  \E f : Redacts(f, text, secrets) /\ Redact(text, secrets) = f[Len(secrets)]
<1> DEFINE total == Len(secrets)
           Is(f) == f = [n \in 0..total |-> IF n = 0 THEN text ELSE Replace(f[n - 1], secrets[n])]
           after == CHOOSE f : Is(f)
           S == {n \in 0..total : \E f \in [0..total -> Text] :
                    f[0] = text /\ \A m \in 1..n : f[m] = Replace(f[m - 1], secrets[m])}
<1>1. total \in Nat /\ \A n \in 1..total : secrets[n] \in Literal
  BY ElementOfSeq
<1>2. Redact(text, secrets) = after[total]
  BY DEF Redact
<1> HIDE DEF after, total
<1>3. 0 \in S
  <2>1. [n \in 0..total |-> text] \in [0..total -> Text] /\ 0 \in 0..total
    BY <1>1
  <2>2. [n \in 0..total |-> text][0] = text
    BY <2>1
  <2>3. 1..0 = {}
    OBVIOUS
  <2> QED
    BY <2>1, <2>2, <2>3
<1>4. ASSUME NEW n \in 1..total, n - 1 \in S PROVE n \in S
  <2>1. PICK f \in [0..total -> Text] :
          f[0] = text /\ \A m \in 1..n - 1 : f[m] = Replace(f[m - 1], secrets[m])
    BY <1>4
  <2> DEFINE g == [f EXCEPT ![n] = Replace(f[n - 1], secrets[n])]
  <2>2. n \in 0..total /\ n - 1 \in 0..total /\ n # n - 1 /\ n # 0
    BY <1>1
  <2>3. Replace(f[n - 1], secrets[n]) \in Text
    BY <1>1, <2>2, ReplaceKeepsEnds
  <2>4. /\ g \in [0..total -> Text] /\ g[n] = Replace(f[n - 1], secrets[n])
        /\ \A m \in 0..n - 1 : g[m] = f[m]
    BY <1>1, <2>2, <2>3
  <2> HIDE DEF g
  <2>5. g[0] = text
    BY <2>1, <2>2, <2>4
  <2>6. ASSUME NEW m \in 1..n PROVE g[m] = Replace(g[m - 1], secrets[m])
    <3>1. m - 1 \in 0..n - 1
      BY <1>1
    <3>2. CASE m = n
      BY <2>4, <3>1, <3>2
    <3>3. CASE m # n
      <4>1. m \in 1..n - 1 /\ m \in 0..n - 1
        BY <1>1, <3>3
      <4> QED
        BY <2>1, <2>4, <3>1, <4>1
    <3> QED
      BY <3>2, <3>3
  <2> QED
    BY <2>2, <2>4, <2>5, <2>6
<1>5. total \in S
  <2> HIDE DEF S
  <2>1. 0..total \subseteq S
    BY <1>1, <1>3, <1>4, Upwards
  <2> QED
    BY <1>1, <2>1
<1>6. PICK f \in [0..total -> Text] :
        f[0] = text /\ \A m \in 1..total : f[m] = Replace(f[m - 1], secrets[m])
  BY <1>5
<1>7. Is(f)
  <2>1. ASSUME NEW n \in 0..total
        PROVE  f[n] = IF n = 0 THEN text ELSE Replace(f[n - 1], secrets[n])
    <3>1. n = 0 \/ n \in 1..total
      BY <1>1
    <3> QED
      BY <1>6, <3>1
  <2> QED
    BY <2>1
<1>8. Is(after)
  BY <1>7 DEF after
<1>9. after[0] = text /\ \A n \in 1..total : after[n] = Replace(after[n - 1], secrets[n])
  <2>1. 0 \in 0..total /\ \A n \in 1..total : n \in 0..total /\ n # 0
    BY <1>1
  <2> QED
    BY <1>8, <2>1
<1>10. \A n \in 0..total : after[n] \in Text
  <2> DEFINE U == {n \in 0..total : after[n] \in Text}
  <2>1. 0 \in U
    BY <1>1, <1>9
  <2>2. ASSUME NEW n \in 1..total, n - 1 \in U PROVE n \in U
    <3>1. n \in 0..total
      BY <1>1
    <3> QED
      BY <1>1, <1>9, <2>2, <3>1, ReplaceKeepsEnds
  <2> HIDE DEF U
  <2>3. 0..total \subseteq U
    BY <1>1, <2>1, <2>2, Upwards
  <2> QED
    BY <2>3 DEF U
<1>11. after \in [0..total -> Text]
  BY <1>8, <1>10
<1> QED
  BY <1>2, <1>9, <1>11 DEF Redacts, total

LEMMA RedactType ==
    ASSUME NEW text \in Text, NEW secrets \in Seq(Literal)
    PROVE  Redact(text, secrets) \in Text
<1>1. PICK f : Redacts(f, text, secrets) /\ Redact(text, secrets) = f[Len(secrets)]
  BY RedactIs
<1>2. Len(secrets) \in 0..Len(secrets)
  OBVIOUS
<1> QED
  BY <1>1, <1>2 DEF Redacts

LEMMA RedactEmpty ==
    ASSUME NEW secrets \in Seq(Literal)
    PROVE  Redact(<<>>, secrets) = <<>>
<1> DEFINE total == Len(secrets)
<1>1. <<>> \in Text /\ Len(<<>>) = 0
  BY EmptySeq DEF Text
<1>2. ASSUME NEW literal \in Literal PROVE Replace(<<>>, literal) = <<>>
  <2>1. PICK f : Solves(f, <<>>, literal) /\ Replace(<<>>, literal) = f[1]
    BY <1>1, ReplaceIs
  <2>2. f[1] = Onwards(f, <<>>, literal, 1)
    BY <1>1, <2>1 DEF Solves
  <2> QED
    BY <1>1, <2>1, <2>2 DEF Onwards
<1>3. PICK f : Redacts(f, <<>>, secrets) /\ Redact(<<>>, secrets) = f[total]
  BY <1>1, RedactIs
<1>4. total \in Nat /\ \A n \in 1..total : secrets[n] \in Literal
  BY ElementOfSeq
<1>5. f[0] = <<>> /\ \A n \in 1..total : f[n] = Replace(f[n - 1], secrets[n])
  BY <1>3 DEF Redacts
<1> DEFINE U == {n \in 0..total : f[n] = <<>>}
<1>6. 0 \in U
  BY <1>4, <1>5
<1>7. ASSUME NEW n \in 1..total, n - 1 \in U PROVE n \in U
  <2>1. n \in 0..total
    BY <1>4
  <2> QED
    BY <1>2, <1>4, <1>5, <1>7, <2>1
<1>8. 0..total \subseteq U
  <2> HIDE DEF U, total
  <2> QED
    BY <1>4, <1>6, <1>7, Upwards
<1>9. total \in 0..total
  BY <1>4
<1> QED
  BY <1>3, <1>8, <1>9

(* Redaction leaves no secret. *)
LEMMA RedactFrees ==
    ASSUME NEW text \in Text, NEW secrets \in Seq(Literal), NEW j \in DOMAIN secrets
    PROVE  Free(Redact(text, secrets), secrets[j])
<1> DEFINE total == Len(secrets)
<1>1. PICK f : Redacts(f, text, secrets) /\ Redact(text, secrets) = f[total]
  BY RedactIs
<1>2. total \in Nat /\ j \in 1..total /\ \A n \in 1..total : secrets[n] \in Literal
  BY ElementOfSeq
<1>3. \A n \in 1..total : f[n - 1] \in Text /\ f[n] = Replace(f[n - 1], secrets[n])
  <2>1. \A n \in 1..total : n - 1 \in 0..total
    BY <1>2
  <2> QED
    BY <1>1, <2>1 DEF Redacts
<1> DEFINE S == {n \in 0..total : n >= j => Free(f[n], secrets[j])}
<1>4. 0 \in S
  BY <1>2
<1>5. ASSUME NEW n \in 1..total, n - 1 \in S PROVE n \in S
  <2>1. n \in 0..total /\ (n >= j => n = j \/ n - 1 >= j)
    BY <1>2
  <2>2. n >= j => secrets[j] = secrets[n] \/ Free(f[n - 1], secrets[j])
    BY <1>5, <2>1
  <2>3. n >= j => Free(f[n], secrets[j])
    <3> HIDE DEF S
    <3> QED
      BY <1>2, <1>3, <2>2, ReplaceFrees
  <2> QED
    BY <2>1, <2>3
<1>6. 0..total \subseteq S
  <2> HIDE DEF S, total
  <2> QED
    BY <1>2, <1>4, <1>5, Upwards
<1>7. total \in 0..total /\ total >= j
  BY <1>2
<1> QED
  BY <1>1, <1>6, <1>7

(* Where no secret straddles the seam, the redaction of the whole is that  *)
(* of the parts.                                                           *)
LEMMA RedactOfParts ==
    ASSUME NEW a \in Text, NEW b \in Text, NEW secrets \in Seq(Literal),
           \A j \in DOMAIN secrets : Parts(a, b, secrets[j])
    PROVE  Redact(a \o b, secrets) = Redact(a, secrets) \o Redact(b, secrets)
<1> DEFINE total == Len(secrets)
           whole == a \o b
<1>1. PICK f : Redacts(f, whole, secrets) /\ Redact(whole, secrets) = f[total]
  BY ConcatIs, RedactIs
<1>2. PICK g : Redacts(g, a, secrets) /\ Redact(a, secrets) = g[total]
  BY RedactIs
<1>3. PICK h : Redacts(h, b, secrets) /\ Redact(b, secrets) = h[total]
  BY RedactIs
<1>4. total \in Nat /\ DOMAIN secrets = 1..total /\ \A n \in 1..total : secrets[n] \in Literal
  BY ElementOfSeq
<1> DEFINE S == {n \in 0..total : /\ f[n] = g[n] \o h[n]
                                  /\ \A j \in 1..total : Parts(g[n], h[n], secrets[j])}
<1>5. 0 \in S
  <2>1. f[0] = a \o b /\ g[0] = a /\ h[0] = b /\ 0 \in 0..total
    BY <1>1, <1>2, <1>3, <1>4 DEF Redacts
  <2>2. f[0] = g[0] \o h[0]
    BY <2>1
  <2> QED
    BY <1>4, <2>1, <2>2
<1>6. ASSUME NEW n \in 1..total, n - 1 \in S PROVE n \in S
  <2>1. n \in 0..total /\ n - 1 \in 0..total
    BY <1>4
  <2>2. g[n - 1] \in Text /\ h[n - 1] \in Text
    BY <1>2, <1>3, <2>1 DEF Redacts
  <2>3. f[n - 1] = g[n - 1] \o h[n - 1] /\ \A j \in 1..total : Parts(g[n - 1], h[n - 1], secrets[j])
    BY <1>6
  <2>4. /\ f[n] = Replace(f[n - 1], secrets[n])
        /\ g[n] = Replace(g[n - 1], secrets[n])
        /\ h[n] = Replace(h[n - 1], secrets[n])
    BY <1>1, <1>2, <1>3 DEF Redacts
  <2>5. f[n] = g[n] \o h[n]
    <3>1. Replace(g[n - 1] \o h[n - 1], secrets[n]) =
            Replace(g[n - 1], secrets[n]) \o Replace(h[n - 1], secrets[n])
      BY <1>4, <2>2, <2>3, ReplaceOfParts
    <3> HIDE DEF S
    <3> QED
      BY <2>3, <2>4, <3>1
  <2>6. \A j \in 1..total : Parts(g[n], h[n], secrets[j])
    BY <1>4, <2>2, <2>3, <2>4, SeamKept
  <2> QED
    BY <2>1, <2>5, <2>6
<1>7. 0..total \subseteq S
  <2> HIDE DEF S, total
  <2> QED
    BY <1>4, <1>5, <1>6, Upwards
<1>8. total \in 0..total
  BY <1>4
<1> QED
  BY <1>1, <1>2, <1>3, <1>7, <1>8

-----------------------------------------------------------------------------
(* No literal is longer than what is kept back, and one symbol. *)
LEMMA OverlapIs ==
    ASSUME NEW secrets \in Seq(Literal)
    PROVE  /\ Overlap(secrets) \in Nat
           /\ \A j \in DOMAIN secrets : Len(secrets[j]) <= Overlap(secrets) + 1
<1> DEFINE total == Len(secrets)
           L(j) == Len(secrets[j])
           S == {n \in 0..total : n = 0 \/ \E m \in 1..n : \A j \in 1..n : L(j) <= L(m)}
<1>1. total \in Nat /\ DOMAIN secrets = 1..total /\ \A j \in 1..total : L(j) \in Nat \ {0}
  BY ElementOfSeq, LiteralIs
<1> HIDE DEF L
<1>2. ASSUME NEW n \in 1..total, n - 1 \in S PROVE n \in S
  <2>1. n \in 0..total /\ n \in 1..n /\ \A j \in 1..n : j \in 1..total /\ (j = n \/ j \in 1..n - 1)
    BY <1>1
  <2>2. CASE n = 1
    BY <1>1, <2>1, <2>2
  <2>3. CASE n # 1
    <3>1. PICK m \in 1..n - 1 : \A j \in 1..n - 1 : L(j) <= L(m)
      BY <1>1, <1>2, <2>3
    <3>2. m \in 1..n
      BY <1>1
    <3>3. CASE L(n) <= L(m)
      BY <2>1, <3>1, <3>2, <3>3
    <3>4. CASE ~(L(n) <= L(m))
      <4>1. \A j \in 1..n : L(j) <= L(n)
        BY <1>1, <2>1, <3>1, <3>2, <3>4
      <4> QED
        BY <2>1, <4>1
    <3> QED
      BY <3>3, <3>4
  <2> QED
    BY <2>2, <2>3
<1>3. total \in S
  <2>1. 0 \in S
    BY <1>1
  <2> HIDE DEF S, total
  <2>2. 0..total \subseteq S
    BY <1>1, <1>2, <2>1, Upwards
  <2> QED
    BY <1>1, <2>2
<1>4. CASE secrets = <<>>
  <2>1. DOMAIN secrets = {}
    BY <1>4
  <2> QED
    BY <1>4, <2>1 DEF Overlap
<1>5. CASE secrets # <<>>
  <2>1. total # 0
    BY <1>5, EmptySeq
  <2> DEFINE lengths == {L(j) : j \in DOMAIN secrets}
  <2>2. \E x \in lengths : \A y \in lengths : x >= y
    <3>1. PICK m \in 1..total : \A j \in 1..total : L(j) <= L(m)
      BY <1>3, <2>1
    <3>2. L(m) \in lengths
      BY <1>1
    <3>3. \A y \in lengths : L(m) >= y
      BY <1>1, <3>1
    <3> QED
      BY <3>2, <3>3
  <2>3. Max(lengths) \in lengths /\ \A y \in lengths : Max(lengths) >= y
    BY <2>2 DEF Max
  <2>4. Overlap(secrets) = Max(lengths) - 1
    BY <1>5 DEF Overlap, L
  <2>5. Max(lengths) \in Nat \ {0}
    BY <1>1, <2>3
  <2>6. \A j \in DOMAIN secrets : L(j) <= Max(lengths) /\ L(j) \in Nat
    BY <1>1, <2>3, <2>5
  <2> HIDE DEF lengths
  <2> QED
    BY <2>4, <2>5, <2>6 DEF L
<1> QED
  BY <1>4, <1>5

(* The literals that straddle a cut begin before it; the first of them     *)
(* straddles every cut from its beginning to this one.                     *)
LEMMA FirstStraddling ==
    ASSUME NEW text \in Text, NEW secrets \in Seq(Literal), NEW c \in 0..Len(text),
           Straddling(text, secrets, c) # {}
    PROVE  /\ Min(Straddling(text, secrets, c)) \in 0..c - 1
           /\ \A d \in Min(Straddling(text, secrets, c)) + 1..c : Straddling(text, secrets, d) # {}
<1> DEFINE S == Straddling(text, secrets, c)
<1>1. S \in SUBSET Nat /\ S \subseteq 0..c - 1 /\ c \in Nat
  BY DEF Straddling, Text
<1>2. PICK m \in S : \A n \in S : m <= n
  <2> HIDE DEF S
  <2> QED
    BY <1>1, Least DEF S
<1>3. Min(S) \in S
  <2>1. \E x \in S : \A y \in S : x <= y
    BY <1>2
  <2> QED
    BY <2>1 DEF Min
<1> DEFINE first == Min(S)
<1>4. PICK j \in DOMAIN secrets :
        OccursAt(text, secrets[j], first + 1) /\ c < first + Len(secrets[j])
  BY <1>3 DEF Straddling
<1>5. Len(secrets[j]) \in Nat
  BY ElementOfSeq, LiteralIs
<1>6. first \in 0..c - 1
  BY <1>1, <1>3
<1> HIDE DEF first
<1>7. ASSUME NEW d \in first + 1..c PROVE Straddling(text, secrets, d) # {}
  <2>1. first \in 0..d - 1 /\ d < first + Len(secrets[j])
    BY <1>1, <1>4, <1>5, <1>6
  <2> QED
    BY <1>4, <2>1 DEF Straddling
<1> QED
  BY <1>6, <1>7 DEF first

(* How far a cut moves. *)
Settles(f, text, secrets) ==
    /\ f \in [0..Len(text) -> 0..Len(text)]
    /\ \A c \in 0..Len(text) :
         f[c] = IF Straddling(text, secrets, c) = {} THEN c
                ELSE f[Min(Straddling(text, secrets, c))]

LEMMA CutSettles ==
    ASSUME NEW text \in Text, NEW secrets \in Seq(Literal)
    PROVE  \E f : /\ Settles(f, text, secrets)
                  /\ Cut(text, secrets) =
                       IF Len(text) > Overlap(secrets) THEN f[Len(text) - Overlap(secrets)] ELSE 0
<1> DEFINE n == Len(text)
           At(c) == Straddling(text, secrets, c)
           Is(f) == f = [c \in 0..n |-> IF At(c) = {} THEN c ELSE f[Min(At(c))]]
           settled == CHOOSE f : Is(f)
           Partial(f, k) == \A c \in 0..k : f[c] = IF At(c) = {} THEN c ELSE f[Min(At(c))]
           S == {k \in 0..n : \E f \in [0..n -> 0..n] : Partial(f, k)}
<1>1. n \in Nat
  BY DEF Text
<1>2. \A c \in 0..n : At(c) # {} => Min(At(c)) \in 0..c - 1
  BY FirstStraddling
<1>3. Cut(text, secrets) = IF n > Overlap(secrets) THEN settled[n - Overlap(secrets)] ELSE 0
  BY DEF Cut
<1> HIDE DEF At, n, settled
<1>4. 0 \in S
  <2>1. [c \in 0..n |-> 0] \in [0..n -> 0..n] /\ 0 \in 0..n
    BY <1>1
  <2>2. At(0) = {}
    BY <1>1, <1>2
  <2>3. \A c \in 0..0 : c = 0
    OBVIOUS
  <2>4. Partial([c \in 0..n |-> 0], 0)
    BY <2>1, <2>2, <2>3
  <2> QED
    BY <2>1, <2>4
<1>5. ASSUME NEW k \in 1..n, k - 1 \in S PROVE k \in S
  <2>1. PICK f \in [0..n -> 0..n] : Partial(f, k - 1)
    BY <1>5
  <2> DEFINE v == IF At(k) = {} THEN k ELSE f[Min(At(k))]
             g == [f EXCEPT ![k] = v]
  <2>2. k \in 0..n /\ \A c \in 0..k - 1 : c \in 0..n /\ c # k
    BY <1>1
  <2>3. v \in 0..n
    BY <1>2, <2>2
  <2>4. g \in [0..n -> 0..n] /\ g[k] = v /\ \A c \in 0..k - 1 : g[c] = f[c]
    BY <2>2, <2>3
  <2> HIDE DEF g
  <2>5. ASSUME NEW c \in 0..k PROVE g[c] = IF At(c) = {} THEN c ELSE g[Min(At(c))]
    <3>1. c \in 0..n
      BY <1>1
    <3>2. At(c) # {} => Min(At(c)) \in 0..k - 1
      <4>1. \A x \in 0..c - 1 : x \in 0..k - 1
        BY <1>1
      <4> QED
        BY <1>2, <3>1, <4>1
    <3>3. CASE c = k
      BY <2>4, <3>2, <3>3
    <3>4. CASE c # k
      <4>1. c \in 0..k - 1
        BY <1>1, <3>4
      <4>2. f[c] = IF At(c) = {} THEN c ELSE f[Min(At(c))]
        BY <2>1, <4>1
      <4> QED
        BY <2>4, <3>2, <4>1, <4>2
    <3> QED
      BY <3>3, <3>4
  <2>6. Partial(g, k)
    BY <2>5
  <2> HIDE DEF Partial
  <2> QED
    BY <2>2, <2>4, <2>6
<1>6. n \in S
  <2> HIDE DEF S
  <2>1. 0..n \subseteq S
    BY <1>1, <1>4, <1>5, Upwards
  <2> QED
    BY <1>1, <2>1
<1>7. PICK f \in [0..n -> 0..n] : Partial(f, n)
  BY <1>6
<1>8. Is(f)
  BY <1>7
<1>9. Is(settled)
  BY <1>8 DEF settled
<1>10. Partial(settled, n)
  BY <1>9
<1>11. \A c \in 0..n : settled[c] \in 0..n
  <2> DEFINE U == {k \in 0..n : \A c \in 0..k : settled[c] \in 0..n}
  <2>1. 0 \in U
    <3>1. 0 \in 0..n /\ \A c \in 0..0 : c = 0
      BY <1>1
    <3>2. At(0) = {}
      BY <1>2, <3>1
    <3> QED
      BY <1>10, <3>1, <3>2
  <2>2. ASSUME NEW k \in 1..n, k - 1 \in U PROVE k \in U
    <3>1. k \in 0..n /\ \A c \in 0..k : c = k \/ c \in 0..k - 1
      BY <1>1
    <3>2. At(k) # {} => Min(At(k)) \in 0..k - 1
      BY <1>2, <3>1
    <3>3. settled[k] \in 0..n
      BY <1>10, <2>2, <3>1, <3>2
    <3> QED
      BY <2>2, <3>1, <3>3
  <2> HIDE DEF U
  <2>3. 0..n \subseteq U
    BY <1>1, <2>1, <2>2, Upwards
  <2>4. n \in U
    BY <1>1, <2>3
  <2> QED
    BY <2>4 DEF U
<1>12. settled \in [0..n -> 0..n]
  BY <1>9, <1>11
<1>13. Settles(settled, text, secrets)
  BY <1>10, <1>12 DEF Settles, n, At
<1> QED
  BY <1>3, <1>13 DEF n

(* Nothing straddles the cut, a literal may end beyond what is certain, and *)
(* every later cut that is certain is straddled.                            *)
LEMMA CutIs ==
    ASSUME NEW text \in Text, NEW secrets \in Seq(Literal)
    PROVE  /\ Cut(text, secrets) \in 0..Len(text)
           /\ Straddling(text, secrets, Cut(text, secrets)) = {}
           /\ Cut(text, secrets) = 0 \/ Cut(text, secrets) + Overlap(secrets) <= Len(text)
           /\ \A c \in Cut(text, secrets) + 1..Len(text) :
                 c + Overlap(secrets) <= Len(text) => Straddling(text, secrets, c) # {}
<1> DEFINE n == Len(text)
           At(c) == Straddling(text, secrets, c)
           cut == Cut(text, secrets)
           o == Overlap(secrets)
<1>1. n \in Nat /\ o \in Nat
  BY OverlapIs DEF Text
<1>2. PICK f : /\ Settles(f, text, secrets)
               /\ cut = IF n > o THEN f[n - o] ELSE 0
  BY CutSettles
<1>3. \A c \in 0..n : At(c) # {} =>
        Min(At(c)) \in 0..c - 1 /\ \A d \in Min(At(c)) + 1..c : At(d) # {}
  BY FirstStraddling
<1>4. \A c \in 0..n : f[c] \in 0..n /\ f[c] = IF At(c) = {} THEN c ELSE f[Min(At(c))]
  BY <1>2 DEF Settles
<1>5. At(0) = {}
  <2>1. 0 \in 0..n
    BY <1>1
  <2> HIDE DEF At
  <2> QED
    BY <1>3, <2>1
<1> HIDE DEF n, At, cut, o
<1> DEFINE Settled(c) == f[c] \in 0..c /\ At(f[c]) = {} /\ \A d \in f[c] + 1..c : At(d) # {}
           S == {k \in 0..n : \A c \in 0..k : Settled(c)}
<1>6. 0 \in S
  <2>1. 0 \in 0..n /\ \A c \in 0..0 : c = 0
    BY <1>1
  <2>2. f[0] = 0
    BY <1>4, <1>5, <2>1
  <2>3. Settled(0)
    BY <1>5, <2>2
  <2> QED
    BY <2>1, <2>3
<1>7. ASSUME NEW k \in 1..n, k - 1 \in S PROVE k \in S
  <2>1. k \in 0..n /\ \A c \in 0..k : c = k \/ c \in 0..k - 1
    BY <1>1
  <2>2. Settled(k)
    <3>1. CASE At(k) = {}
      <4>1. f[k] = k
        BY <1>4, <2>1, <3>1
      <4> QED
        BY <1>1, <3>1, <4>1
    <3>2. CASE At(k) # {}
      <4> DEFINE m == Min(At(k))
      <4>1. m \in 0..k - 1 /\ (\A d \in m + 1..k : At(d) # {}) /\ f[k] = f[m]
        BY <1>3, <1>4, <2>1, <3>2
      <4> HIDE DEF m
      <4>2. Settled(m)
        BY <1>7, <4>1
      <4>3. \A d \in f[m] + 1..k : d \in f[m] + 1..m \/ d \in m + 1..k
        BY <1>1, <4>1, <4>2
      <4>4. f[m] \in 0..k
        BY <1>1, <4>1, <4>2
      <4> QED
        BY <4>1, <4>2, <4>3, <4>4
    <3> QED
      BY <3>1, <3>2
  <2> QED
    BY <1>7, <2>1, <2>2
<1>8. \A c \in 0..n : Settled(c)
  <2> HIDE DEF S
  <2>1. 0..n \subseteq S
    BY <1>1, <1>6, <1>7, Upwards
  <2>2. n \in S
    BY <1>1, <2>1
  <2> QED
    BY <2>2 DEF S
<1>9. CASE n > o
  <2>1. n - o \in 0..n /\ cut = f[n - o]
    BY <1>1, <1>2, <1>9
  <2>2. cut \in 0..n - o /\ At(cut) = {} /\ \A d \in cut + 1..n - o : At(d) # {}
    BY <1>8, <2>1
  <2>3. cut \in 0..n /\ cut + o <= n
    BY <1>1, <2>1, <2>2
  <2>4. \A c \in cut + 1..n : c + o <= n => c \in cut + 1..n - o
    BY <1>1, <2>3
  <2> QED
    BY <2>2, <2>3, <2>4 DEF n, At, cut, o
<1>10. CASE ~(n > o)
  <2>1. cut = 0
    BY <1>2, <1>10
  <2>2. cut \in 0..n /\ \A c \in cut + 1..n : ~(c + o <= n)
    BY <1>1, <1>10, <2>1
  <2> QED
    BY <1>5, <2>1, <2>2 DEF n, At, cut, o
<1> QED
  BY <1>9, <1>10

(* A cut of a text: the two parts make it up again, and no secret has a    *)
(* part in both.                                                           *)
LEMMA CutParts ==
    ASSUME NEW text \in Text, NEW secrets \in Seq(Literal), NEW c \in 0..Len(text),
           Straddling(text, secrets, c) = {}
    PROVE  /\ SubSeq(text, 1, c) \in Text /\ Len(SubSeq(text, 1, c)) = c
           /\ SubSeq(text, c + 1, Len(text)) \in Text
           /\ Len(SubSeq(text, c + 1, Len(text))) = Len(text) - c
           /\ SubSeq(text, 1, c) \o SubSeq(text, c + 1, Len(text)) = text
           /\ \A j \in DOMAIN secrets :
                Parts(SubSeq(text, 1, c), SubSeq(text, c + 1, Len(text)), secrets[j])
<1> DEFINE n == Len(text)
           a == SubSeq(text, 1, c)
           b == SubSeq(text, c + 1, n)
<1>1. n \in Nat /\ \A m \in 1..n : text[m] \in Symbols \cup {Redacted}
  BY ElementOfSeq DEF Text
<1>2. a \in Text /\ Len(a) = c /\ \A m \in 1..c : a[m] = text[m]
  <2>1. \A m \in 1..c : text[m] \in Symbols \cup {Redacted}
    BY <1>1
  <2>2. 1 \in Int /\ c \in Int /\ (IF 1 <= c THEN c - 1 + 1 ELSE 0) = c
    BY <1>1
  <2>3. a \in Seq(Symbols \cup {Redacted}) /\ Len(a) = c
    BY <2>1, <2>2, SubSeqProperties
  <2>4. \A m \in 1..c : a[m] = text[1 + m - 1]
    BY <2>1, <2>2, <2>3, SubSeqProperties
  <2>5. \A m \in 1..c : 1 + m - 1 = m
    BY <1>1
  <2> QED
    BY <2>3, <2>4, <2>5 DEF Text
<1>3. b \in Text /\ Len(b) = n - c /\ \A m \in 1..n - c : b[m] = text[c + m]
  <2>1. \A m \in c + 1..n : text[m] \in Symbols \cup {Redacted}
    BY <1>1
  <2>2. c + 1 \in Int /\ n \in Int /\ (IF c + 1 <= n THEN n - (c + 1) + 1 ELSE 0) = n - c
    BY <1>1
  <2>3. b \in Seq(Symbols \cup {Redacted}) /\ Len(b) = n - c
    BY <2>1, <2>2, SubSeqProperties
  <2>4. \A m \in 1..n - c : b[m] = text[c + 1 + m - 1]
    BY <2>1, <2>2, <2>3, SubSeqProperties
  <2>5. \A m \in 1..n - c : c + 1 + m - 1 = c + m
    BY <1>1
  <2> QED
    BY <2>3, <2>4, <2>5 DEF Text
<1> HIDE DEF a, b
<1>4. a \o b = text
  <2> DEFINE whole == a \o b
  <2>1. /\ whole \in Text /\ Len(whole) = n
        /\ \A m \in 1..Len(a) : whole[m] = a[m]
        /\ \A m \in 1..Len(b) : whole[Len(a) + m] = b[m]
    <3>1. Len(a) + Len(b) = n
      BY <1>1, <1>2, <1>3
    <3> HIDE DEF n
    <3> QED
      BY <1>2, <1>3, <3>1, ConcatIs
  <2> HIDE DEF whole
  <2>2. ASSUME NEW m \in 1..n PROVE whole[m] = text[m]
    <3>1. CASE m <= c
      BY <1>2, <2>1, <3>1
    <3>2. CASE m > c
      <4>1. m - c \in 1..n - c /\ c + (m - c) = m
        BY <1>1, <3>2
      <4>2. m - c \in 1..Len(b) /\ Len(a) + (m - c) = m
        BY <1>2, <1>3, <4>1
      <4>3. whole[Len(a) + (m - c)] = b[m - c]
        BY <2>1, <4>2
      <4>4. b[m - c] = text[c + (m - c)]
        BY <1>3, <4>1
      <4> QED
        BY <4>1, <4>2, <4>3, <4>4
    <3> QED
      BY <1>1, <3>1, <3>2
  <2>3. whole = text
    BY <1>1, <2>1, <2>2, SeqEqual DEF Text
  <2> QED
    BY <2>3 DEF whole
<1>5. ASSUME NEW j \in DOMAIN secrets PROVE Parts(a, b, secrets[j])
  <2> SUFFICES ASSUME NEW i \in 1..c, OccursAt(text, secrets[j], i),
                      ~(i + Len(secrets[j]) - 1 <= c)
               PROVE  FALSE
    BY <1>2, <1>4 DEF Parts
  <2>1. Len(secrets[j]) \in Nat /\ c \in Nat
    BY <1>1, ElementOfSeq, LiteralIs
  <2>2. i - 1 \in 0..c - 1 /\ (i - 1) + 1 = i /\ c < (i - 1) + Len(secrets[j])
    BY <2>1
  <2>3. i - 1 \in Straddling(text, secrets, c)
    BY <2>2 DEF Straddling
  <2> QED
    BY <2>3
<1> QED
  BY <1>2, <1>3, <1>4, <1>5 DEF a, b, n

-----------------------------------------------------------------------------
(* A text that arrives in chunks: what has been received is a part p whose *)
(* redaction has been sent and a part that is carried, with no secret in   *)
(* both.  Until the end, whatever secret begins in p has been received     *)
(* whole; and a cut after p that is as certain is straddled.               *)
Splits(p, received, carry, sent, secrets, ended) ==
    /\ received = p \o carry
    /\ sent = Redact(p, secrets)
    /\ \A j \in DOMAIN secrets : Parts(p, carry, secrets[j])
    /\ ended \/ p = <<>> \/ Len(p) + Overlap(secrets) <= Len(received)
    /\ \A c \in Len(p) + 1..Len(received) :
          c + Overlap(secrets) <= Len(received) => Straddling(received, secrets, c) # {}

Streamed(received, carry, sent, secrets, ended) ==
    /\ received \in Text /\ carry \in Text /\ sent \in Text
    /\ \E p \in Text : Splits(p, received, carry, sent, secrets, ended)

LEMMA StreamBegins ==
    ASSUME NEW secrets \in Seq(Literal)
    PROVE  Streamed(<<>>, <<>>, <<>>, secrets, FALSE)
<1>1. <<>> \in Text /\ Len(<<>>) = 0 /\ <<>> \o <<>> = <<>>
  BY EmptySeq DEF Text
<1>2. \A j \in DOMAIN secrets : Parts(<<>>, <<>>, secrets[j])
  BY <1>1 DEF Parts
<1>3. \A c \in Len(<<>>) + 1..Len(<<>>) : FALSE
  BY <1>1
<1> QED
  BY <1>1, <1>2, <1>3, RedactEmpty DEF Streamed, Splits

(* A literal that straddles the seam begins in p, so it is within what had *)
(* been received before the chunk, where none straddles.                   *)
LEMMA ChunkParts ==
    ASSUME NEW secrets \in Seq(Literal), NEW j \in DOMAIN secrets,
           NEW p \in Text, NEW carry \in Text, NEW chunk \in Text,
           Parts(p, carry, secrets[j]),
           p = <<>> \/ Len(p) + Overlap(secrets) <= Len(p \o carry)
    PROVE  Parts(p, carry \o chunk, secrets[j])
<1> DEFINE before == p \o carry
           whole == p \o (carry \o chunk)
           literal == secrets[j]
<1>1. /\ before \in Text /\ Len(before) = Len(p) + Len(carry)
      /\ Len(p) \in Nat /\ Len(carry) \in Nat
  BY ConcatIs
<1>2. whole = before \o chunk
  BY TextAssociative
<1>3. literal \in Literal /\ Len(literal) \in Nat \ {0}
  BY ElementOfSeq, LiteralIs
<1>4. Overlap(secrets) \in Nat /\ Len(literal) <= Overlap(secrets) + 1
  BY OverlapIs
<1> HIDE DEF before, whole, literal
<1> SUFFICES ASSUME NEW i \in 1..Len(p), OccursAt(whole, literal, i)
             PROVE  i + Len(literal) - 1 <= Len(p)
  BY DEF Parts, whole, literal
<1>5. p # <<>>
  BY EmptySeq
<1>6. Len(p) + Overlap(secrets) <= Len(before)
  BY <1>5 DEF before
<1>7. i \in 1..Len(before) /\ i + Len(literal) - 1 <= Len(before)
  BY <1>1, <1>3, <1>4, <1>6
<1>8. OccursAt(before, literal, i)
  BY <1>1, <1>2, <1>3, <1>7, OccursInFirst
<1> QED
  BY <1>8 DEF Parts, before, literal

(* The next cut is made in what was carried and the chunk. *)
LEMMA ChunkSplits ==
    ASSUME NEW secrets \in Seq(Literal), NEW p \in Text, NEW q \in Text,
           \A j \in DOMAIN secrets : Parts(p, q, secrets[j]),
           p = <<>> \/ Len(p) + Overlap(secrets) <= Len(p \o q)
    PROVE  /\ Sendable(q, secrets) \in Text /\ Kept(q, secrets) \in Text
           /\ Splits(p \o Sendable(q, secrets), p \o q, Kept(q, secrets),
                     Redact(p, secrets) \o Redact(Sendable(q, secrets), secrets), secrets, FALSE)
<1> DEFINE cut == Cut(q, secrets)
           a == Sendable(q, secrets)
           b == Kept(q, secrets)
           pa == p \o a
           whole == p \o q
           o == Overlap(secrets)
<1>1. /\ cut \in 0..Len(q)
      /\ Straddling(q, secrets, cut) = {}
      /\ cut = 0 \/ cut + o <= Len(q)
      /\ \A c \in cut + 1..Len(q) : c + o <= Len(q) => Straddling(q, secrets, c) # {}
  BY CutIs
<1>2. o \in Nat /\ \A j \in DOMAIN secrets : secrets[j] \in Literal /\ Len(secrets[j]) \in Nat \ {0}
  BY OverlapIs, ElementOfSeq, LiteralIs
<1> HIDE DEF cut
<1>3. /\ a \in Text /\ Len(a) = cut /\ b \in Text /\ a \o b = q
      /\ \A j \in DOMAIN secrets : Parts(a, b, secrets[j])
  BY <1>1, CutParts DEF Sendable, Kept, cut
<1> HIDE DEF a, b
<1>4. /\ pa \in Text /\ Len(pa) = Len(p) + cut /\ Len(p) \in Nat
      /\ whole \in Text /\ Len(whole) = Len(p) + Len(q) /\ Len(q) \in Nat
  BY <1>3, ConcatIs
<1>5. whole = pa \o b
  BY <1>3, TextAssociative
<1> HIDE DEF pa, whole, o
<1>6. ASSUME NEW j \in DOMAIN secrets PROVE Parts(p, a, secrets[j])
  <2> SUFFICES ASSUME NEW i \in 1..Len(p), OccursAt(pa, secrets[j], i)
               PROVE  i + Len(secrets[j]) - 1 <= Len(p)
    BY DEF Parts, pa
  <2>1. i \in 1..Len(pa)
    BY <1>1, <1>4
  <2>2. OccursAt(whole, secrets[j], i)
    BY <1>2, <1>3, <1>4, <1>5, <2>1, OccursInFirst
  <2> QED
    BY <2>2 DEF Parts, whole
<1>7. Redact(pa, secrets) = Redact(p, secrets) \o Redact(a, secrets)
  BY <1>3, <1>6, RedactOfParts DEF pa
<1>8. ASSUME NEW j \in DOMAIN secrets PROVE Parts(pa, b, secrets[j])
  <2> SUFFICES ASSUME NEW i \in 1..Len(pa), OccursAt(whole, secrets[j], i)
               PROVE  i + Len(secrets[j]) - 1 <= Len(pa)
    BY <1>5 DEF Parts
  <2>1. CASE i <= Len(p)
    <3>1. i \in 1..Len(p)
      BY <1>4, <2>1
    <3>2. i + Len(secrets[j]) - 1 <= Len(p)
      BY <3>1 DEF Parts, whole
    <3> QED
      BY <1>1, <1>2, <1>4, <3>2
  <2>2. CASE i > Len(p)
    <3> DEFINE k == i - Len(p)
    <3>1. k \in 1..Len(a) /\ k \in Nat \ {0} /\ Len(p) + k = i
      BY <1>1, <1>3, <1>4, <2>2
    <3> HIDE DEF k
    <3>2. OccursAt(q, secrets[j], k)
      BY <1>2, <3>1, OccursInSecond DEF whole
    <3>3. k + Len(secrets[j]) - 1 <= Len(a)
      BY <1>3, <3>1, <3>2 DEF Parts
    <3> QED
      BY <1>1, <1>2, <1>3, <1>4, <3>1, <3>3
  <2> QED
    BY <1>1, <1>4, <2>1, <2>2
<1>9. pa = <<>> \/ Len(pa) + o <= Len(whole)
  <2>1. CASE cut = 0
    <3>1. pa = p
      BY <1>3, <2>1, EmptySeq, ConcatEmptySeq DEF pa, Text
    <3> QED
      BY <3>1 DEF whole, o
  <2>2. CASE cut # 0
    BY <1>1, <1>2, <1>4, <2>2
  <2> QED
    BY <2>1, <2>2
<1>10. ASSUME NEW c \in Len(pa) + 1..Len(whole), c + o <= Len(whole)
       PROVE  Straddling(whole, secrets, c) # {}
  <2> DEFINE d == c - Len(p)
  <2>1. d \in cut + 1..Len(q) /\ d + o <= Len(q) /\ Len(p) + d = c
    BY <1>1, <1>2, <1>4, <1>10
  <2> HIDE DEF d
  <2>2. PICK i \in 0..d - 1, j \in DOMAIN secrets :
          OccursAt(q, secrets[j], i + 1) /\ d < i + Len(secrets[j])
    BY <1>1, <2>1 DEF Straddling
  <2>3. i + 1 \in Nat \ {0}
    BY <2>2
  <2>4. OccursAt(whole, secrets[j], Len(p) + (i + 1))
    BY <1>2, <2>2, <2>3, OccursInSecond DEF whole
  <2>5. /\ Len(p) + i \in 0..c - 1 /\ (Len(p) + i) + 1 = Len(p) + (i + 1)
        /\ c < (Len(p) + i) + Len(secrets[j])
    BY <1>1, <1>2, <1>4, <2>1, <2>2
  <2>6. Len(p) + i \in Straddling(whole, secrets, c)
    BY <2>4, <2>5 DEF Straddling
  <2> QED
    BY <2>6
<1> QED
  BY <1>3, <1>5, <1>7, <1>8, <1>9, <1>10 DEF Splits, a, b, pa, whole, o

LEMMA ChunkStreamed ==
    ASSUME NEW secrets \in Seq(Literal), NEW received, NEW carry, NEW sent,
           Streamed(received, carry, sent, secrets, FALSE), NEW chunk \in Seq(Symbols)
    PROVE  Streamed(received \o chunk, Kept(carry \o chunk, secrets),
                    sent \o Redact(Sendable(carry \o chunk, secrets), secrets), secrets, FALSE)
<1>1. chunk \in Text
  BY SeqMonotonic DEF Text
<1>2. PICK p \in Text : Splits(p, received, carry, sent, secrets, FALSE)
  BY DEF Streamed
<1>3. received \in Text /\ carry \in Text /\ sent \in Text
  BY DEF Streamed
<1> DEFINE q == carry \o chunk
           sendable == Sendable(q, secrets)
           kept == Kept(q, secrets)
<1>4. q \in Text
  BY <1>1, <1>3, ConcatIs
<1>5. received = p \o carry /\ sent = Redact(p, secrets)
  BY <1>2 DEF Splits
<1>6. received \o chunk = p \o q
  BY <1>1, <1>3, <1>5, TextAssociative
<1>7. \A j \in DOMAIN secrets : Parts(p, q, secrets[j])
  BY <1>1, <1>2, <1>3, <1>5, ChunkParts DEF Splits
<1>8. p = <<>> \/ Len(p) + Overlap(secrets) <= Len(p \o q)
  <2>1. /\ Len(received \o chunk) = Len(received) + Len(chunk)
        /\ Len(received) \in Nat /\ Len(chunk) \in Nat /\ Len(p) \in Nat
    BY <1>1, <1>3, ConcatIs DEF Text
  <2>2. p = <<>> \/ Len(p) + Overlap(secrets) <= Len(received)
    BY <1>2 DEF Splits
  <2>3. Overlap(secrets) \in Nat
    BY OverlapIs
  <2> HIDE DEF q
  <2> QED
    BY <1>6, <2>1, <2>2, <2>3
<1> HIDE DEF q
<1>9. /\ sendable \in Text /\ kept \in Text
      /\ Splits(p \o sendable, p \o q, kept,
                Redact(p, secrets) \o Redact(sendable, secrets), secrets, FALSE)
  BY <1>4, <1>7, <1>8, ChunkSplits
<1> HIDE DEF sendable, kept
<1>10. /\ p \o sendable \in Text /\ p \o q \in Text
       /\ Redact(p, secrets) \o Redact(sendable, secrets) \in Text
  BY <1>4, <1>9, RedactType, ConcatIs
<1>11. Streamed(p \o q, kept, Redact(p, secrets) \o Redact(sendable, secrets), secrets, FALSE)
  BY <1>9, <1>10 DEF Streamed
<1>12. Streamed(received \o chunk, kept, sent \o Redact(sendable, secrets), secrets, FALSE)
  BY <1>5, <1>6, <1>11
<1> QED
  BY <1>12 DEF sendable, kept, q

(* What is sent and the redaction of what is carried make up that of what  *)
(* has been received.                                                      *)
LEMMA StreamedIs ==
    ASSUME NEW secrets \in Seq(Literal), NEW received, NEW carry, NEW sent, NEW ended,
           Streamed(received, carry, sent, secrets, ended)
    PROVE  /\ sent \o Redact(carry, secrets) = Redact(received, secrets)
           /\ \A c \in (Len(received) - Len(carry) + 1)..Len(received) :
                 c + Overlap(secrets) <= Len(received) => Straddling(received, secrets, c) # {}
<1>1. PICK p \in Text : Splits(p, received, carry, sent, secrets, ended)
  BY DEF Streamed
<1>2. received \in Text /\ carry \in Text
  BY DEF Streamed
<1>3. sent \o Redact(carry, secrets) = Redact(received, secrets)
  <2>1. Redact(p \o carry, secrets) = Redact(p, secrets) \o Redact(carry, secrets)
    BY <1>1, <1>2, RedactOfParts DEF Splits
  <2> QED
    BY <1>1, <2>1 DEF Splits
<1>4. Len(received) - Len(carry) = Len(p)
  <2>1. Len(p \o carry) = Len(p) + Len(carry) /\ Len(p) \in Nat /\ Len(carry) \in Nat
    BY <1>2, ConcatIs
  <2>2. received = p \o carry
    BY <1>1 DEF Splits
  <2> QED
    BY <2>1, <2>2
<1> QED
  BY <1>1, <1>3, <1>4 DEF Splits

LEMMA TailStreamed ==
    ASSUME NEW secrets \in Seq(Literal), NEW received, NEW carry, NEW sent, NEW ended,
           Streamed(received, carry, sent, secrets, ended)
    PROVE  Streamed(received, <<>>, sent \o Redact(carry, secrets), secrets, TRUE)
<1>1. received \in Text /\ Redact(received, secrets) \in Text /\ <<>> \in Text
  BY RedactType, EmptySeq DEF Streamed, Text
<1>2. sent \o Redact(carry, secrets) = Redact(received, secrets)
  BY StreamedIs
<1>3. received \o <<>> = received /\ Len(received) \in Nat
  BY <1>1, ConcatEmptySeq DEF Text
<1>4. ASSUME NEW j \in DOMAIN secrets PROVE Parts(received, <<>>, secrets[j])
  BY <1>3 DEF Parts, OccursAt
<1>5. \A c \in Len(received) + 1..Len(received) : FALSE
  BY <1>3
<1>6. Splits(received, received, <<>>, Redact(received, secrets), secrets, TRUE)
  BY <1>3, <1>4, <1>5 DEF Splits
<1> QED
  BY <1>1, <1>2, <1>6 DEF Streamed

-----------------------------------------------------------------------------
(* The stages of a concatenation of sequences. *)
Flattens(f, T, seqs) ==
    /\ f \in [0..Len(seqs) -> Seq(T)]
    /\ f[0] = <<>>
    /\ \A n \in 1..Len(seqs) : f[n] = f[n - 1] \o seqs[n]

LEMMA FlattenIs ==
    ASSUME NEW T, NEW seqs \in Seq(Seq(T))
    PROVE  \E f : Flattens(f, T, seqs) /\ FlattenSeq(seqs) = f[Len(seqs)]
<1> DEFINE total == Len(seqs)
           S == {n \in 0..total : \E f \in [0..total -> Seq(T)] :
                    f[0] = <<>> /\ \A m \in 1..n : f[m] = f[m - 1] \o seqs[m]}
           Is(h) == h = [i \in 1..total |-> IF i = 1 THEN seqs[i] ELSE h[i - 1] \o seqs[i]]
           flatten == CHOOSE h : Is(h)
<1>1. total \in Nat /\ \A n \in 1..total : seqs[n] \in Seq(T)
  BY ElementOfSeq
<1>2. FlattenSeq(seqs) = IF total = 0 THEN seqs ELSE flatten[total]
  BY DEF FlattenSeq
<1>3. total = 0 => seqs = <<>>
  BY EmptySeq
<1> HIDE DEF total, flatten
<1>4. 0 \in S
  <2>1. <<>> \in Seq(T) /\ 0 \in 0..total
    BY <1>1, EmptySeq
  <2>2. [n \in 0..total |-> <<>>] \in [0..total -> Seq(T)] /\ [n \in 0..total |-> <<>>][0] = <<>>
    BY <2>1
  <2>3. 1..0 = {}
    OBVIOUS
  <2> QED
    BY <2>1, <2>2, <2>3
<1>5. ASSUME NEW n \in 1..total, n - 1 \in S PROVE n \in S
  <2>1. PICK f \in [0..total -> Seq(T)] :
          f[0] = <<>> /\ \A m \in 1..n - 1 : f[m] = f[m - 1] \o seqs[m]
    BY <1>5
  <2> DEFINE v == f[n - 1] \o seqs[n]
             g == [f EXCEPT ![n] = v]
  <2>2. n \in 0..total /\ n - 1 \in 0..total /\ n # n - 1 /\ n # 0
    BY <1>1
  <2>3. v \in Seq(T)
    <3>1. f[n - 1] \in Seq(T) /\ seqs[n] \in Seq(T)
      BY <1>1, <2>2
    <3> QED
      BY <3>1, ConcatProperties
  <2> HIDE DEF v
  <2>4. /\ g \in [0..total -> Seq(T)] /\ g[n] = v
        /\ \A m \in 0..n - 1 : g[m] = f[m]
    BY <1>1, <2>2, <2>3
  <2> HIDE DEF g
  <2>5. g[0] = <<>>
    BY <2>1, <2>2, <2>4
  <2>6. ASSUME NEW m \in 1..n PROVE g[m] = g[m - 1] \o seqs[m]
    <3>1. m - 1 \in 0..n - 1
      BY <1>1
    <3>2. CASE m = n
      BY <2>4, <3>1, <3>2 DEF v
    <3>3. CASE m # n
      <4>1. m \in 1..n - 1 /\ m \in 0..n - 1
        BY <1>1, <3>3
      <4> QED
        BY <2>1, <2>4, <3>1, <4>1
    <3> QED
      BY <3>2, <3>3
  <2> QED
    BY <2>2, <2>4, <2>5, <2>6
<1>6. PICK f \in [0..total -> Seq(T)] :
        f[0] = <<>> /\ \A m \in 1..total : f[m] = f[m - 1] \o seqs[m]
  <2> HIDE DEF S
  <2>1. 0..total \subseteq S
    BY <1>1, <1>4, <1>5, Upwards
  <2>2. total \in S
    BY <1>1, <2>1
  <2> QED
    BY <2>2 DEF S
<1>7. 1 \in 1..total => f[1] = seqs[1]
  <2> SUFFICES ASSUME 1 \in 1..total PROVE f[1] = seqs[1]
    OBVIOUS
  <2>1. f[1] = f[0] \o seqs[1]
    <3>1. \A m \in 1..total : m = 1 => m - 1 = 0
      BY <1>1
    <3>2. \A m \in 1..total : m = 1 => f[m] = f[0] \o seqs[m]
      BY <1>6, <3>1
    <3> QED
      BY <3>2
  <2>2. <<>> \o seqs[1] = seqs[1]
    BY <1>1, ConcatEmptySeq
  <2> QED
    BY <1>6, <2>1, <2>2
<1>8. Is([i \in 1..total |-> f[i]])
  <2> DEFINE h == [i \in 1..total |-> f[i]]
  <2>1. ASSUME NEW i \in 1..total
        PROVE  h[i] = IF i = 1 THEN seqs[i] ELSE h[i - 1] \o seqs[i]
    <3>1. CASE i = 1
      BY <1>7, <3>1
    <3>2. CASE i # 1
      <4>1. i - 1 \in 1..total
        BY <1>1, <3>2
      <4>2. h[i - 1] = f[i - 1] /\ h[i] = f[i]
        BY <4>1
      <4> HIDE DEF h
      <4> QED
        BY <1>6, <3>2, <4>2
    <3> QED
      BY <3>1, <3>2
  <2> QED
    BY <2>1
<1>9. Is(flatten)
  BY <1>8 DEF flatten
<1>10. \A n \in 1..total : flatten[n] = f[n]
  <2> DEFINE U == {n \in 0..total : n # 0 => flatten[n] = f[n]}
  <2>1. 0 \in U
    BY <1>1
  <2>2. ASSUME NEW n \in 1..total, n - 1 \in U PROVE n \in U
    <3>1. n \in 0..total /\ n # 0
      BY <1>1
    <3>2. flatten[n] = IF n = 1 THEN seqs[n] ELSE flatten[n - 1] \o seqs[n]
      BY <1>9
    <3>3. CASE n = 1
      BY <1>7, <3>1, <3>2, <3>3
    <3>4. CASE n # 1
      <4>1. flatten[n - 1] = f[n - 1]
        BY <1>1, <2>2, <3>4
      <4> QED
        BY <1>6, <3>1, <3>2, <3>4, <4>1
    <3> QED
      BY <3>3, <3>4
  <2> HIDE DEF U
  <2>3. 0..total \subseteq U
    BY <1>1, <2>1, <2>2, Upwards
  <2>4. \A n \in 1..total : n \in 0..total /\ n # 0
    BY <1>1
  <2> QED
    BY <2>3, <2>4 DEF U
<1>11. FlattenSeq(seqs) = f[total]
  <2>1. CASE total = 0
    BY <1>2, <1>3, <1>6, <2>1
  <2>2. CASE total # 0
    <3>1. total \in 1..total
      BY <1>1, <2>2
    <3> QED
      BY <1>2, <1>10, <2>2, <3>1
  <2> QED
    BY <2>1, <2>2
<1>12. Flattens(f, T, seqs)
  BY <1>6 DEF Flattens, total
<1> QED
  BY <1>11, <1>12 DEF total

(***************************************************************************)
(* Events                                                                  *)
(***************************************************************************)

Line == {"data", "other"} \X Nat

DataLine == {"data"} \X Nat

(* The stages of the lines of a field. *)
Selects(f, lines, field) ==
    /\ f \in [0..Len(lines) -> Seq(Line)]
    /\ f[0] = <<>>
    /\ \A n \in 1..Len(lines) :
         f[n] = IF lines[n][1] = field THEN f[n - 1] \o <<lines[n]>> ELSE f[n - 1]

LEMMA LinesOfIs ==
    ASSUME NEW lines \in Seq(Line), NEW field
    PROVE  \E f : Selects(f, lines, field) /\ LinesOf(lines, field) = f[Len(lines)]
<1> DEFINE total == Len(lines)
           piece(n) == IF lines[n][1] = field THEN <<lines[n]>> ELSE <<>>
           pieces == [n \in DOMAIN lines |-> piece(n)]
<1>1. total \in Nat /\ DOMAIN lines = 1..total /\ \A n \in 1..total : lines[n] \in Line
  BY ElementOfSeq
<1>2. \A n \in 1..total : piece(n) \in Seq(Line)
  <2>1. ASSUME NEW n \in 1..total PROVE <<lines[n]>> \in Seq(Line) /\ <<>> \in Seq(Line)
    <3>1. lines[n] \in Line
      BY <1>1
    <3> HIDE DEF Line
    <3> QED
      BY <3>1, EmptySeq
  <2> QED
    BY <2>1
<1>3. LinesOf(lines, field) = FlattenSeq(pieces)
  BY DEF LinesOf
<1> HIDE DEF total, piece
<1>4. pieces \in Seq(Seq(Line)) /\ Len(pieces) = total /\ \A n \in 1..total : pieces[n] = piece(n)
  <2>1. pieces \in [1..total -> Seq(Line)]
    BY <1>1, <1>2
  <2>2. pieces \in Seq(Seq(Line)) /\ Len(pieces) = total
    BY <1>1, <2>1, SeqDef, LenProperties
  <2> QED
    BY <1>1, <2>2
<1> HIDE DEF pieces
<1>5. PICK f : Flattens(f, Line, pieces) /\ FlattenSeq(pieces) = f[total]
  BY <1>4, FlattenIs
<1>6. f \in [0..total -> Seq(Line)] /\ f[0] = <<>>
  BY <1>4, <1>5 DEF Flattens
<1>7. ASSUME NEW n \in 1..total
      PROVE  f[n] = IF lines[n][1] = field THEN f[n - 1] \o <<lines[n]>> ELSE f[n - 1]
  <2>1. f[n] = f[n - 1] \o piece(n)
    BY <1>4, <1>5 DEF Flattens
  <2>2. n - 1 \in 0..total
    BY <1>1
  <2>3. f[n - 1] \o <<>> = f[n - 1]
    BY <1>6, <2>2, ConcatEmptySeq
  <2> QED
    BY <2>1, <2>3 DEF piece
<1>8. Selects(f, lines, field)
  BY <1>6, <1>7 DEF Selects, total
<1> QED
  BY <1>3, <1>5, <1>8 DEF total

LEMMA LinesOfType ==
    ASSUME NEW lines \in Seq(Line), NEW field
    PROVE  LinesOf(lines, field) \in Seq(Line)
<1>1. PICK f : Selects(f, lines, field) /\ LinesOf(lines, field) = f[Len(lines)]
  BY LinesOfIs
<1>2. Len(lines) \in 0..Len(lines)
  OBVIOUS
<1> QED
  BY <1>1, <1>2 DEF Selects

LEMMA LinesAssociative ==
    ASSUME NEW s \in Seq(Line), NEW t \in Seq(Line), NEW u \in Seq(Line)
    PROVE  (s \o t) \o u = s \o (t \o u)
BY ConcatAssociative

LEMMA LinesOfConcat ==
    ASSUME NEW a \in Seq(Line), NEW b \in Seq(Line), NEW field
    PROVE  LinesOf(a \o b, field) = LinesOf(a, field) \o LinesOf(b, field)
<1> DEFINE whole == a \o b
<1>1. /\ whole \in Seq(Line) /\ Len(whole) = Len(a) + Len(b) /\ Len(a) \in Nat /\ Len(b) \in Nat
      /\ \A m \in 1..Len(a) + Len(b) : whole[m] = IF m <= Len(a) THEN a[m] ELSE b[m - Len(a)]
  BY ConcatProperties
<1> HIDE DEF whole
<1>2. PICK f : Selects(f, whole, field) /\ LinesOf(whole, field) = f[Len(whole)]
  BY <1>1, LinesOfIs
<1>3. PICK g : Selects(g, a, field) /\ LinesOf(a, field) = g[Len(a)]
  BY LinesOfIs
<1>4. PICK h : Selects(h, b, field) /\ LinesOf(b, field) = h[Len(b)]
  BY LinesOfIs
<1>5. /\ f[0] = <<>>
      /\ \A n \in 1..Len(a) + Len(b) :
           f[n] = IF whole[n][1] = field THEN f[n - 1] \o <<whole[n]>> ELSE f[n - 1]
  BY <1>1, <1>2 DEF Selects
<1>6. 0..Len(a) \subseteq {n \in 0..Len(a) : f[n] = g[n]}
  <2> DEFINE S == {n \in 0..Len(a) : f[n] = g[n]}
  <2>1. 0 \in S
    BY <1>1, <1>3, <1>5 DEF Selects
  <2>2. ASSUME NEW n \in 1..Len(a), n - 1 \in S PROVE n \in S
    <3>1. n \in 0..Len(a) /\ n \in 1..Len(a) + Len(b) /\ n <= Len(a)
      BY <1>1
    <3>2. whole[n] = a[n]
      BY <1>1, <3>1
    <3>3. g[n] = IF a[n][1] = field THEN g[n - 1] \o <<a[n]>> ELSE g[n - 1]
      BY <1>3 DEF Selects
    <3> QED
      BY <1>5, <2>2, <3>1, <3>2, <3>3
  <2> HIDE DEF S
  <2>3. 0..Len(a) \subseteq S
    BY <1>1, <2>1, <2>2, Upwards
  <2> QED
    BY <2>3 DEF S
<1> DEFINE first == g[Len(a)]
<1>7. first \in Seq(Line) /\ f[Len(a)] = first
  <2>1. Len(a) \in 0..Len(a)
    BY <1>1
  <2> QED
    BY <1>3, <1>6, <2>1 DEF Selects
<1> HIDE DEF first
<1>8. 0..Len(b) \subseteq {n \in 0..Len(b) : f[Len(a) + n] = first \o h[n]}
  <2> DEFINE S == {n \in 0..Len(b) : f[Len(a) + n] = first \o h[n]}
  <2>1. 0 \in S
    <3>1. h[0] = <<>> /\ Len(a) + 0 = Len(a) /\ 0 \in 0..Len(b)
      BY <1>1, <1>4 DEF Selects
    <3>2. first \o <<>> = first
      BY <1>7, ConcatEmptySeq
    <3> QED
      BY <1>7, <3>1, <3>2
  <2>2. ASSUME NEW n \in 1..Len(b), n - 1 \in S PROVE n \in S
    <3>1. /\ n \in 0..Len(b) /\ n - 1 \in 0..Len(b)
          /\ Len(a) + n \in 1..Len(a) + Len(b) /\ ~(Len(a) + n <= Len(a))
          /\ Len(a) + n - Len(a) = n /\ Len(a) + n - 1 = Len(a) + (n - 1)
      BY <1>1
    <3>2. whole[Len(a) + n] = b[n]
      BY <1>1, <3>1
    <3>3. h[n] = IF b[n][1] = field THEN h[n - 1] \o <<b[n]>> ELSE h[n - 1]
      BY <1>4 DEF Selects
    <3>4. f[Len(a) + n] = IF b[n][1] = field THEN f[Len(a) + (n - 1)] \o <<b[n]>>
                          ELSE f[Len(a) + (n - 1)]
      BY <1>5, <3>1, <3>2
    <3>5. f[Len(a) + (n - 1)] = first \o h[n - 1]
      BY <2>2
    <3>6. (first \o h[n - 1]) \o <<b[n]>> = first \o (h[n - 1] \o <<b[n]>>)
      <4>1. h[n - 1] \in Seq(Line)
        BY <1>4, <3>1 DEF Selects
      <4>2. b[n] \in Line
        BY ElementOfSeq
      <4>3. <<b[n]>> \in Seq(Line)
        <5> HIDE DEF Line
        <5> QED
          BY <4>2
      <4> DEFINE before == h[n - 1]
                 one == <<b[n]>>
      <4> HIDE DEF before, one
      <4>4. before \in Seq(Line) /\ one \in Seq(Line)
        BY <4>1, <4>3 DEF before, one
      <4>5. (first \o before) \o one = first \o (before \o one)
        BY <1>7, <4>4, LinesAssociative
      <4> QED
        BY <4>5 DEF before, one
    <3> QED
      BY <3>1, <3>3, <3>4, <3>5, <3>6
  <2> HIDE DEF S
  <2>3. 0..Len(b) \subseteq S
    BY <1>1, <2>1, <2>2, Upwards
  <2> QED
    BY <2>3 DEF S
<1>9. f[Len(a) + Len(b)] = first \o h[Len(b)]
  <2>1. Len(b) \in 0..Len(b)
    BY <1>1
  <2> QED
    BY <1>8, <2>1
<1> QED
  BY <1>1, <1>2, <1>3, <1>4, <1>9 DEF whole, first

LEMMA LinesOfNone ==
    ASSUME NEW field
    PROVE  LinesOf(<<>>, field) = <<>>
<1>1. <<>> \in Seq(Line) /\ Len(<<>>) = 0
  BY EmptySeq
<1>2. PICK f : Selects(f, <<>>, field) /\ LinesOf(<<>>, field) = f[Len(<<>>)]
  BY <1>1, LinesOfIs
<1> QED
  BY <1>1, <1>2 DEF Selects

LEMMA LinesOfOne ==
    ASSUME NEW line \in Line, NEW field
    PROVE  LinesOf(<<line>>, field) = IF line[1] = field THEN <<line>> ELSE <<>>
<1> DEFINE one == <<line>>
<1>1. one \in Seq(Line) /\ Len(one) = 1 /\ one[1] = line
  <2> HIDE DEF Line
  <2> QED
    OBVIOUS
<1> HIDE DEF one
<1>2. PICK f : Selects(f, one, field) /\ LinesOf(one, field) = f[Len(one)]
  BY <1>1, LinesOfIs
<1>3. f[0] = <<>>
  BY <1>2 DEF Selects
<1>4. f[1] = IF line[1] = field THEN f[0] \o one ELSE f[0]
  <2>1. 1 \in 1..Len(one) /\ 1 - 1 = 0
    BY <1>1
  <2>2. f[1] = IF one[1][1] = field THEN f[1 - 1] \o <<one[1]>> ELSE f[1 - 1]
    BY <1>2, <2>1 DEF Selects
  <2> QED
    BY <1>1, <2>1, <2>2 DEF one
<1>5. <<>> \o one = one
  BY <1>1, ConcatEmptySeq
<1> QED
  BY <1>1, <1>2, <1>3, <1>4, <1>5 DEF one

(* All lines of data are of the field "data", and none of another one. *)
LEMMA LinesOfData ==
    ASSUME NEW data \in Seq(DataLine)
    PROVE  data \in Seq(Line) /\ LinesOf(data, "data") = data /\ LinesOf(data, "other") = <<>>
<1>1. data \in Seq(Line)
  BY SeqMonotonic DEF Line, DataLine
<1>2. Len(data) \in Nat /\ \A n \in 1..Len(data) : data[n] \in Line /\ data[n][1] = "data"
  BY <1>1, ElementOfSeq DEF DataLine, Line
<1>3. PICK f : Selects(f, data, "data") /\ LinesOf(data, "data") = f[Len(data)]
  BY <1>1, LinesOfIs
<1>4. PICK g : Selects(g, data, "other") /\ LinesOf(data, "other") = g[Len(data)]
  BY <1>1, LinesOfIs
<1> DEFINE part(n) == SubSeq(data, 1, n)
           S == {n \in 0..Len(data) : f[n] = part(n) /\ g[n] = <<>>}
<1>5. part(0) = <<>> /\ part(Len(data)) = data
  BY <1>1, SubSeqEmpty, SubSeqFull
<1>6. ASSUME NEW n \in 1..Len(data) PROVE part(n) = part(n - 1) \o <<data[n]>>
  <2>1. 1 \in 1..Len(data) /\ n \in 1..Len(data)
    BY <1>2
  <2> QED
    BY <1>1, <2>1, SubSeqRecursiveSecond
<1> HIDE DEF part
<1>7. 0 \in S
  BY <1>2, <1>3, <1>4, <1>5 DEF Selects
<1>8. ASSUME NEW n \in 1..Len(data), n - 1 \in S PROVE n \in S
  <2>1. n \in 0..Len(data)
    BY <1>2
  <2>2. f[n] = f[n - 1] \o <<data[n]>>
    BY <1>2, <1>3 DEF Selects
  <2>3. g[n] = g[n - 1]
    BY <1>2, <1>4 DEF Selects
  <2> QED
    BY <1>6, <1>8, <2>1, <2>2, <2>3
<1>9. Len(data) \in S
  <2> HIDE DEF S
  <2>1. 0..Len(data) \subseteq S
    BY <1>2, <1>7, <1>8, Upwards
  <2> QED
    BY <1>2, <2>1
<1> QED
  BY <1>1, <1>3, <1>4, <1>5, <1>9

(* As many lines as before: the i-th data line gets the i-th line of data. *)
LEMMA ReplaceInPlace ==
    ASSUME NEW lines \in Seq(Line), NEW data \in Seq(DataLine),
           Cardinality(DataIndexes(lines)) = Len(data)
    PROVE  LET made == [i \in DOMAIN lines |->
                         IF i \in DataIndexes(lines)
                         THEN data[Cardinality({j \in DataIndexes(lines) : j <= i})] ELSE lines[i]]
           IN DataOf(made) = data /\ OtherOf(made) = OtherOf(lines)
<1> DEFINE at == DataIndexes(lines)
           total == Len(lines)
           upTo(n) == {j \in at : j <= n}
           count(n) == Cardinality(upTo(n))
           made == [i \in DOMAIN lines |-> IF i \in at THEN data[count(i)] ELSE lines[i]]
           part(n) == SubSeq(data, 1, n)
<1>1. /\ total \in Nat /\ DOMAIN lines = 1..total
      /\ \A n \in 1..total : lines[n] \in Line /\ lines[n][1] \in {"data", "other"}
  BY ElementOfSeq DEF Line
<1>2. at \subseteq 1..total /\ \A n \in 1..total : n \in at <=> lines[n][1] = "data"
  BY <1>1 DEF DataIndexes
<1>3. /\ Len(data) \in Nat /\ data \in Seq(Line)
      /\ \A n \in 1..Len(data) : data[n] \in Line /\ data[n][1] = "data"
  BY LinesOfData, ElementOfSeq DEF DataLine, Line
<1>4. Cardinality(at) = Len(data)
  OBVIOUS
<1> HIDE DEF at, total
<1>5. IsFiniteSet(at) /\ \A j \in at : j \in Nat /\ 1 <= j /\ j <= total
  <2>1. 1 \in Int /\ total \in Int
    BY <1>1
  <2>2. IsFiniteSet(1..total)
    BY <2>1, FS_Interval
  <2>3. IsFiniteSet(at)
    BY <1>2, <2>2, FS_Subset
  <2>4. \A j \in 1..total : j \in Nat /\ 1 <= j /\ j <= total
    BY <1>1
  <2> QED
    BY <1>2, <2>3, <2>4
<1>6. \A n \in Nat : IsFiniteSet(upTo(n)) /\ count(n) \in Nat /\ count(n) <= Len(data)
  <2>1. ASSUME NEW n \in Nat PROVE IsFiniteSet(upTo(n)) /\ count(n) \in Nat /\ count(n) <= Len(data)
    <3>1. upTo(n) \in SUBSET at
      OBVIOUS
    <3> HIDE DEF upTo
    <3> QED
      BY <1>4, <1>5, <3>1, FS_Subset, FS_CardinalityType
  <2> QED
    BY <2>1
<1>7. count(0) = 0 /\ count(total) = Len(data)
  <2>1. upTo(0) = {} /\ upTo(total) = at
    BY <1>5
  <2> QED
    BY <1>4, <2>1, FS_EmptySet
<1>8. ASSUME NEW n \in 1..total
      PROVE  /\ n \in at => count(n) = count(n - 1) + 1 /\ count(n) \in 1..Len(data)
             /\ n \notin at => count(n) = count(n - 1)
  <2>1. n - 1 \in Nat /\ n \in Nat /\ n \notin upTo(n - 1)
    BY <1>1
  <2>2. n \in at => upTo(n) = upTo(n - 1) \cup {n}
    <3>1. \A j \in at : j <= n <=> j <= n - 1 \/ j = n
      BY <1>5, <2>1
    <3> QED
      BY <3>1
  <2>3. n \notin at => upTo(n) = upTo(n - 1)
    BY <1>5, <2>1
  <2>4. IsFiniteSet(upTo(n - 1)) /\ count(n - 1) \in Nat /\ count(n) <= Len(data)
    BY <1>6, <2>1
  <2> DEFINE before == upTo(n - 1)
  <2> HIDE DEF upTo
  <2>5. Cardinality(before \cup {n}) = Cardinality(before) + 1
    BY <2>1, <2>4, FS_AddElement
  <2> HIDE DEF before
  <2>6. n \in at => count(n) = count(n - 1) + 1
    BY <2>2, <2>5 DEF before
  <2>7. n \notin at => count(n) = count(n - 1)
    BY <2>3
  <2> HIDE DEF count
  <2> QED
    BY <1>3, <2>4, <2>6, <2>7
<1> HIDE DEF count, upTo
<1>9. /\ made \in Seq(Line) /\ Len(made) = total
      /\ \A n \in 1..total : made[n] = IF n \in at THEN data[count(n)] ELSE lines[n]
  <2>1. \A n \in 1..total : (IF n \in at THEN data[count(n)] ELSE lines[n]) \in Line
    BY <1>1, <1>3, <1>8
  <2>2. made \in [1..total -> Line]
    BY <1>1, <2>1
  <2> HIDE DEF Line
  <2>3. made \in Seq(Line) /\ Len(made) = total
    BY <1>1, <2>2, SeqDef, LenProperties
  <2> QED
    BY <1>1, <2>3
<1> HIDE DEF made
<1>10. PICK f : Selects(f, made, "data") /\ LinesOf(made, "data") = f[total]
  BY <1>9, LinesOfIs
<1>11. PICK g : Selects(g, made, "other") /\ LinesOf(made, "other") = g[total]
  BY <1>9, LinesOfIs
<1>12. PICK h : Selects(h, lines, "other") /\ LinesOf(lines, "other") = h[total]
  BY LinesOfIs DEF total
<1>13. part(0) = <<>> /\ part(Len(data)) = data
  BY <1>3, SubSeqEmpty, SubSeqFull
<1>14. ASSUME NEW n \in 1..Len(data) PROVE part(n) = part(n - 1) \o <<data[n]>>
  <2>1. 1 \in 1..Len(data) /\ n \in 1..Len(data)
    BY <1>3
  <2> QED
    BY <1>3, <2>1, SubSeqRecursiveSecond
<1> HIDE DEF part
<1> DEFINE S == {n \in 0..total : f[n] = part(count(n)) /\ g[n] = h[n]}
<1>15. 0 \in S
  BY <1>1, <1>7, <1>10, <1>11, <1>12, <1>13 DEF Selects
<1>16. ASSUME NEW n \in 1..total, n - 1 \in S PROVE n \in S
  <2>1. n \in 0..total
    BY <1>1
  <2>2. /\ f[n] = IF made[n][1] = "data" THEN f[n - 1] \o <<made[n]>> ELSE f[n - 1]
        /\ g[n] = IF made[n][1] = "other" THEN g[n - 1] \o <<made[n]>> ELSE g[n - 1]
        /\ h[n] = IF lines[n][1] = "other" THEN h[n - 1] \o <<lines[n]>> ELSE h[n - 1]
    BY <1>9, <1>10, <1>11, <1>12 DEF Selects, total
  <2>3. f[n - 1] = part(count(n - 1)) /\ g[n - 1] = h[n - 1]
    BY <1>16
  <2>4. CASE n \in at
    <3>1. made[n] = data[count(n)] /\ made[n][1] = "data" /\ lines[n][1] = "data"
      BY <1>2, <1>3, <1>8, <1>9, <2>4
    <3>2. count(n) - 1 = count(n - 1)
      <4>1. n - 1 \in Nat
        BY <1>1
      <4> QED
        BY <1>6, <1>8, <2>4, <4>1
    <3>3. part(count(n)) = part(count(n - 1)) \o <<data[count(n)]>>
      BY <1>8, <1>14, <2>4, <3>2
    <3> QED
      BY <2>1, <2>2, <2>3, <3>1, <3>3
  <2>5. CASE n \notin at
    <3>1. made[n] = lines[n] /\ lines[n][1] = "other" /\ count(n) = count(n - 1)
      BY <1>1, <1>2, <1>8, <1>9, <2>5
    <3> QED
      BY <2>1, <2>2, <2>3, <3>1
  <2> QED
    BY <2>4, <2>5
<1>17. total \in S
  <2> HIDE DEF S
  <2>1. 0..total \subseteq S
    BY <1>1, <1>15, <1>16, Upwards
  <2> QED
    BY <1>1, <2>1
<1>18. DataOf(made) = data /\ OtherOf(made) = OtherOf(lines)
  BY <1>7, <1>10, <1>11, <1>12, <1>13, <1>17 DEF DataOf, OtherOf
<1> QED
  BY <1>18 DEF made, at, count, upTo

(* Otherwise all of the data is where its first line was. *)
LEMMA ReplaceElsewhere ==
    ASSUME NEW lines \in Seq(Line), NEW data \in Seq(DataLine), DataIndexes(lines) # {}
    PROVE  LET made == FlattenSeq([i \in DOMAIN lines |->
                         IF i = Min(DataIndexes(lines)) THEN data
                         ELSE IF i \in DataIndexes(lines) THEN <<>> ELSE <<lines[i]>>])
           IN DataOf(made) = data /\ OtherOf(made) = OtherOf(lines)
<1> DEFINE at == DataIndexes(lines)
           total == Len(lines)
           first == Min(at)
           piece(n) == IF n = first THEN data ELSE IF n \in at THEN <<>> ELSE <<lines[n]>>
           pieces == [n \in DOMAIN lines |-> piece(n)]
           made == FlattenSeq(pieces)
<1>1. /\ total \in Nat /\ DOMAIN lines = 1..total
      /\ \A n \in 1..total : lines[n] \in Line /\ lines[n][1] \in {"data", "other"}
  BY ElementOfSeq DEF Line
<1>2. at \subseteq 1..total /\ \A n \in 1..total : n \in at <=> lines[n][1] = "data"
  BY <1>1 DEF DataIndexes
<1>3. data \in Seq(Line) /\ LinesOf(data, "data") = data /\ LinesOf(data, "other") = <<>>
  BY LinesOfData
<1> HIDE DEF total
<1>4. first \in at
  <2> HIDE DEF at
  <2>1. at \in SUBSET Nat
    BY <1>1, <1>2
  <2>2. \E x \in at : \A y \in at : x <= y
    BY <2>1, Least DEF at
  <2> QED
    BY <2>2 DEF Min
<1> HIDE DEF at, first
<1>5. \A n \in 1..total : piece(n) \in Seq(Line)
  <2>1. ASSUME NEW n \in 1..total PROVE <<lines[n]>> \in Seq(Line) /\ <<>> \in Seq(Line)
    <3>1. lines[n] \in Line
      BY <1>1
    <3> HIDE DEF Line
    <3> QED
      BY <3>1, EmptySeq
  <2> QED
    BY <1>3, <2>1
<1> HIDE DEF piece
<1>6. pieces \in Seq(Seq(Line)) /\ Len(pieces) = total /\ \A n \in 1..total : pieces[n] = piece(n)
  <2>1. pieces \in [1..total -> Seq(Line)]
    BY <1>1, <1>5
  <2>2. pieces \in Seq(Seq(Line)) /\ Len(pieces) = total
    BY <1>1, <2>1, SeqDef, LenProperties
  <2> QED
    BY <1>1, <2>2
<1> HIDE DEF pieces
<1>7. PICK f : Flattens(f, Line, pieces) /\ made = f[total]
  BY <1>6, FlattenIs
<1> HIDE DEF made
<1>8. /\ f[0] = <<>>
      /\ \A n \in 1..total : f[n - 1] \in Seq(Line) /\ f[n] = f[n - 1] \o piece(n)
  <2>1. \A n \in 1..total : n - 1 \in 0..total
    BY <1>1
  <2> QED
    BY <1>6, <1>7, <2>1 DEF Flattens
<1>9. PICK h : Selects(h, lines, "other") /\ LinesOf(lines, "other") = h[total]
  BY LinesOfIs DEF total
<1>10. /\ h[0] = <<>>
       /\ \A n \in 1..total : h[n - 1] \in Seq(Line)
       /\ \A n \in 1..total :
            h[n] = IF lines[n][1] = "other" THEN h[n - 1] \o <<lines[n]>> ELSE h[n - 1]
  <2>1. \A n \in 1..total : n - 1 \in 0..total
    BY <1>1
  <2> QED
    BY <1>9, <2>1 DEF Selects, total
<1> DEFINE S == {n \in 0..total : /\ LinesOf(f[n], "data") = IF n < first THEN <<>> ELSE data
                                  /\ LinesOf(f[n], "other") = h[n]}
<1>11. 0 \in S
  <2>1. 0 < first /\ 0 \in 0..total
    BY <1>1, <1>2, <1>4
  <2> QED
    BY <1>8, <1>10, <2>1, LinesOfNone
<1>12. ASSUME NEW n \in 1..total, n - 1 \in S PROVE n \in S
  <2>1. n \in 0..total
    BY <1>1
  <2>2. ASSUME NEW field
        PROVE  LinesOf(f[n], field) = LinesOf(f[n - 1], field) \o LinesOf(piece(n), field)
    <3>1. f[n - 1] \in Seq(Line) /\ piece(n) \in Seq(Line) /\ f[n] = f[n - 1] \o piece(n)
      BY <1>5, <1>8
    <3> HIDE DEF S
    <3>2. LinesOf(f[n - 1] \o piece(n), field) = LinesOf(f[n - 1], field) \o LinesOf(piece(n), field)
      BY <3>1, LinesOfConcat
    <3> QED
      BY <3>1, <3>2
  <2>3. /\ LinesOf(f[n - 1], "data") = IF n - 1 < first THEN <<>> ELSE data
        /\ LinesOf(f[n - 1], "other") = h[n - 1]
    BY <1>12
  <2>4. first \in 1..total
    BY <1>2, <1>4
  <2>5. ASSUME NEW field
        PROVE  /\ LinesOf(f[n - 1], field) \o <<>> = LinesOf(f[n - 1], field)
               /\ <<>> \o data = data
    <3>1. LinesOf(f[n - 1], field) \in Seq(Line)
      BY <1>8, LinesOfType
    <3> QED
      BY <1>3, <3>1, ConcatEmptySeq
  <2>6. CASE n = first
    <3>1. piece(n) = data /\ lines[n][1] = "data" /\ n - 1 < first /\ ~(n < first)
      BY <1>2, <1>4, <2>4, <2>6 DEF piece
    <3>2. LinesOf(f[n], "data") = data
      BY <1>3, <2>2, <2>3, <2>5, <3>1
    <3>3. LinesOf(f[n], "other") = LinesOf(f[n - 1], "other")
      BY <1>3, <2>2, <2>5, <3>1
    <3>4. h[n] = h[n - 1]
      BY <1>10, <3>1
    <3> QED
      BY <2>1, <2>3, <3>1, <3>2, <3>3, <3>4
  <2>7. CASE n # first /\ n \in at
    <3>1. piece(n) = <<>> /\ lines[n][1] = "data" /\ (n - 1 < first <=> n < first)
      BY <1>2, <2>4, <2>7 DEF piece
    <3>2. ASSUME NEW field PROVE LinesOf(f[n], field) = LinesOf(f[n - 1], field)
      <4>1. LinesOf(piece(n), field) = <<>>
        BY <3>1, LinesOfNone
      <4> HIDE DEF S
      <4> QED
        BY <2>2, <2>5, <4>1
    <3>3. h[n] = h[n - 1]
      BY <1>10, <3>1
    <3> QED
      BY <2>1, <2>3, <3>1, <3>2, <3>3
  <2>8. CASE n \notin at
    <3>1. /\ piece(n) = <<lines[n]>> /\ lines[n][1] = "other" /\ lines[n] \in Line
          /\ n - 1 < first <=> n < first
      BY <1>1, <1>2, <1>4, <2>4, <2>8 DEF piece
    <3>2. LinesOf(piece(n), "data") = <<>> /\ LinesOf(piece(n), "other") = <<lines[n]>>
      BY <3>1, LinesOfOne
    <3>3. LinesOf(f[n], "data") = LinesOf(f[n - 1], "data")
      BY <1>3, <2>2, <2>3, <2>5, <3>2
    <3>4. LinesOf(f[n], "other") = h[n]
      BY <1>10, <2>2, <2>3, <3>1, <3>2
    <3> QED
      BY <2>1, <2>3, <3>1, <3>3, <3>4
  <2> QED
    BY <2>6, <2>7, <2>8
<1>13. total \in S
  <2> HIDE DEF S
  <2>1. 0..total \subseteq S
    BY <1>1, <1>11, <1>12, Upwards
  <2> QED
    BY <1>1, <2>1
<1>14. ~(total < first)
  BY <1>1, <1>2, <1>4
<1>15. DataOf(made) = data /\ OtherOf(made) = OtherOf(lines)
  BY <1>7, <1>9, <1>13, <1>14 DEF DataOf, OtherOf
<1> QED
  BY <1>15 DEF made, pieces, piece, at, first

(* What a client reads from a transformed event is the new data, and what  *)
(* else it read before.                                                    *)
LEMMA TransformIs ==
    ASSUME NEW lines \in Seq(Line), NEW data \in Seq(DataLine)
    PROVE  /\ OtherOf(TransformEvent(lines, data)) = OtherOf(lines)
           /\ DataOf(lines) # <<>> => DataOf(TransformEvent(lines, data)) = data
<1>1. CASE DataOf(lines) = <<>> \/ DataOf(lines) = data
  BY <1>1 DEF TransformEvent
<1>2. CASE ~(DataOf(lines) = <<>> \/ DataOf(lines) = data)
  <2>1. TransformEvent(lines, data) = ReplaceData(lines, data)
    BY <1>2 DEF TransformEvent
  <2>2. CASE Cardinality(DataIndexes(lines)) = Len(data)
    BY <2>1, <2>2, ReplaceInPlace DEF ReplaceData
  <2>3. CASE Cardinality(DataIndexes(lines)) # Len(data)
    <3>1. DataIndexes(lines) # {}
      <4> SUFFICES ASSUME DataIndexes(lines) = {} PROVE DataOf(lines) = <<>>
        BY <1>2
      <4>1. PICK f : Selects(f, lines, "data") /\ LinesOf(lines, "data") = f[Len(lines)]
        BY LinesOfIs
      <4> DEFINE S == {n \in 0..Len(lines) : f[n] = <<>>}
      <4>2. Len(lines) \in Nat /\ DOMAIN lines = 1..Len(lines)
        BY LenProperties
      <4>3. 0 \in S
        BY <4>1, <4>2 DEF Selects
      <4>4. ASSUME NEW n \in 1..Len(lines), n - 1 \in S PROVE n \in S
        <5>1. n \in 0..Len(lines) /\ lines[n][1] # "data"
          BY <4>2 DEF DataIndexes
        <5> QED
          BY <4>1, <4>4, <5>1 DEF Selects
      <4>5. 0..Len(lines) \subseteq S
        <5> HIDE DEF S
        <5> QED
          BY <4>2, <4>3, <4>4, Upwards
      <4>6. Len(lines) \in 0..Len(lines)
        BY <4>2
      <4> QED
        BY <4>1, <4>5, <4>6 DEF DataOf
    <3> QED
      BY <2>1, <2>3, <3>1, ReplaceElsewhere DEF ReplaceData
  <2> QED
    BY <2>2, <2>3
<1> QED
  BY <1>1, <1>2

(* What a client reads of a field, it reads from one of the lines. *)
LEMMA LinesOfWithin ==
    ASSUME NEW T \in SUBSET Line, NEW lines \in Seq(T), NEW field
    PROVE  LinesOf(lines, field) \in Seq(T)
<1>1. lines \in Seq(Line) /\ Len(lines) \in Nat
  BY SeqMonotonic
<1>2. PICK f : Selects(f, lines, field) /\ LinesOf(lines, field) = f[Len(lines)]
  BY <1>1, LinesOfIs
<1> DEFINE S == {n \in 0..Len(lines) : f[n] \in Seq(T)}
<1>3. 0 \in S
  BY <1>1, <1>2, EmptySeq DEF Selects
<1>4. ASSUME NEW n \in 1..Len(lines), n - 1 \in S PROVE n \in S
  <2>1. n \in 0..Len(lines) /\ lines[n] \in T
    BY <1>1, ElementOfSeq
  <2>2. <<lines[n]>> \in Seq(T)
    BY <2>1
  <2>3. f[n - 1] \in Seq(T)
    BY <1>4
  <2>4. f[n - 1] \o <<lines[n]>> \in Seq(T)
    BY <2>2, <2>3, ConcatProperties
  <2>5. f[n] = f[n - 1] \o <<lines[n]>> \/ f[n] = f[n - 1]
    BY <1>2 DEF Selects
  <2> QED
    BY <2>1, <2>3, <2>4, <2>5
<1>5. 0..Len(lines) \subseteq S
  <2> HIDE DEF S
  <2> QED
    BY <1>1, <1>3, <1>4, Upwards
<1>6. Len(lines) \in 0..Len(lines)
  BY <1>1
<1> QED
  BY <1>2, <1>5, <1>6
=============================================================================
