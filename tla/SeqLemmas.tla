------------------------------ MODULE SeqLemmas ------------------------------
(***************************************************************************)
(* Facts about sequences that the proofs of several modules rest on.       *)
(***************************************************************************)
EXTENDS Integers, SequencesExt, Histories, SequenceTheorems, WellFoundedInduction, TLAPS

LEMMA Singleton ==
    ASSUME NEW S, NEW x \in S
    PROVE  <<x>> \in Seq(S) /\ Len(<<x>>) = 1 /\ \A i \in 1..1 : <<x>>[i] = x
  OBVIOUS

LEMMA ToSetFacts ==
    ASSUME NEW S, NEW s \in Seq(S), NEW x
    PROVE  x \in ToSet(s) <=> \E i \in 1..Len(s) : s[i] = x
  BY DEF ToSet

(* What list.remove leaves: every element but the i-th, in order.          *)
LEMMA RemoveAtFacts ==
    ASSUME NEW S, NEW s \in Seq(S), NEW i \in 1..Len(s)
    PROVE  /\ RemoveAt(s, i) \in Seq(S)
           /\ Len(RemoveAt(s, i)) = Len(s) - 1
           /\ \A j \in 1..(Len(s) - 1) :
                 RemoveAt(s, i)[j] = IF j < i THEN s[j] ELSE s[j + 1]
<1> DEFINE a == SubSeq(s, 1, i - 1)
           b == SubSeq(s, i + 1, Len(s))
<1>1. a \in Seq(S) /\ Len(a) = i - 1 /\ \A j \in 1..(i - 1) : a[j] = s[j]
  OBVIOUS
<1>2. b \in Seq(S) /\ Len(b) = Len(s) - i /\ \A j \in 1..(Len(s) - i) : b[j] = s[i + j]
  OBVIOUS
<1> HIDE DEF a, b
<1>0. i \in Int /\ Len(s) \in Nat /\ 1 <= i /\ i <= Len(s)
  OBVIOUS
<1>3. /\ a \o b \in Seq(S)
      /\ Len(a \o b) = Len(s) - 1
      /\ \A j \in 1..(Len(s) - 1) :
            (a \o b)[j] = IF j <= Len(a) THEN a[j] ELSE b[j - Len(a)]
  <2>1. /\ a \o b \in Seq(S)
        /\ Len(a \o b) = Len(a) + Len(b)
        /\ \A j \in 1..(Len(a) + Len(b)) :
              (a \o b)[j] = IF j <= Len(a) THEN a[j] ELSE b[j - Len(a)]
    BY <1>1, <1>2, ConcatProperties
  <2>2. Len(a) + Len(b) = Len(s) - 1
    BY <1>0, <1>1, <1>2
  <2> QED
    BY <2>1, <2>2
<1>4. RemoveAt(s, i) = a \o b
  BY DEF RemoveAt, a, b
<1>5. ASSUME NEW j \in 1..(Len(s) - 1)
      PROVE  (a \o b)[j] = IF j < i THEN s[j] ELSE s[j + 1]
  <2>0. j \in Int /\ 1 <= j /\ j <= Len(s) - 1
    OBVIOUS
  <2>1. CASE j < i
    <3>1. j <= Len(a) /\ j \in 1..(i - 1)
      BY <1>0, <1>1, <2>0, <2>1
    <3> QED
      BY <1>1, <1>3, <2>1, <3>1
  <2>2. CASE ~(j < i)
    <3>1. ~(j <= Len(a)) /\ j - Len(a) = j - i + 1
      BY <1>0, <1>1, <2>0, <2>2
    <3>2. j - i + 1 \in 1..(Len(s) - i) /\ i + (j - i + 1) = j + 1
      BY <1>0, <2>0, <2>2
    <3>3. (a \o b)[j] = b[j - i + 1]
      BY <1>3, <3>1
    <3>4. b[j - i + 1] = s[i + (j - i + 1)]
      BY <1>2, <3>2
    <3> QED
      BY <2>2, <3>2, <3>3, <3>4
  <2> QED
    BY <2>1, <2>2
<1> QED
  BY <1>3, <1>4, <1>5

(* If s has no repetition, what is left has none, and lacks the i-th.      *)
LEMMA RemoveAtDistinct ==
    ASSUME NEW S, NEW s \in Seq(S), NEW i \in 1..Len(s),
           \A j, k \in 1..Len(s) : s[j] = s[k] => j = k
    PROVE  /\ RemoveAt(s, i) \in Seq(S)
           /\ \A j, k \in 1..Len(RemoveAt(s, i)) :
                 RemoveAt(s, i)[j] = RemoveAt(s, i)[k] => j = k
           /\ \A x : (\E j \in 1..Len(RemoveAt(s, i)) : RemoveAt(s, i)[j] = x)
                     <=> (x # s[i] /\ \E j \in 1..Len(s) : s[j] = x)
<1> DEFINE r == RemoveAt(s, i)
<1>1. /\ r \in Seq(S)
      /\ Len(r) = Len(s) - 1
      /\ \A j \in 1..(Len(s) - 1) : r[j] = IF j < i THEN s[j] ELSE s[j + 1]
  BY RemoveAtFacts
<1> HIDE DEF r
<1>2. Len(s) \in Nat /\ i \in Int /\ 1 <= i /\ i <= Len(s)
  OBVIOUS
<1>3. ASSUME NEW j \in 1..Len(r), NEW k \in 1..Len(r), r[j] = r[k]
      PROVE  j = k
  BY <1>1, <1>2, <1>3
<1>4. ASSUME NEW j \in 1..Len(r)
      PROVE  r[j] # s[i] /\ \E k \in 1..Len(s) : s[k] = r[j]
  BY <1>1, <1>2
<1>5. ASSUME NEW j \in 1..Len(s), s[j] # s[i]
      PROVE  \E k \in 1..Len(r) : r[k] = s[j]
  <2>1. CASE j < i
    BY <1>1, <1>2, <2>1
  <2>2. CASE j > i
    <3>1. j - 1 \in 1..Len(r) /\ r[j - 1] = s[j]
      BY <1>1, <1>2, <2>2
    <3> QED
      BY <3>1
  <2> QED
    BY <1>2, <1>5, <2>1, <2>2
<1>6. ASSUME NEW x
      PROVE  (\E j \in 1..Len(r) : r[j] = x) <=> (x # s[i] /\ \E j \in 1..Len(s) : s[j] = x)
  <2>1. ASSUME NEW j \in 1..Len(r), r[j] = x
        PROVE  x # s[i] /\ \E k \in 1..Len(s) : s[k] = x
    BY <1>4, <2>1
  <2>2. ASSUME NEW j \in 1..Len(s), s[j] = x, x # s[i]
        PROVE  \E k \in 1..Len(r) : r[k] = x
    BY <1>5, <2>2
  <2> QED
    BY <2>1, <2>2
<1>7. \A j, k \in 1..Len(r) : r[j] = r[k] => j = k
  BY <1>3
<1> QED
  BY <1>1, <1>6, <1>7 DEF r

(* An element is taken off the front of b and put at the end of a: nothing *)
(* changes for a followed by b.                                            *)
LEMMA MoveHead ==
    ASSUME NEW S, NEW a \in Seq(S), NEW b \in Seq(S), b # << >>
    PROVE  a \o b = Append(a, Head(b)) \o Tail(b)
<1>1. b = <<Head(b)>> \o Tail(b) /\ Head(b) \in S /\ Tail(b) \in Seq(S)
  OBVIOUS
<1>2. a \o (<<Head(b)>> \o Tail(b)) = (a \o <<Head(b)>>) \o Tail(b)
  BY <1>1, ConcatAssociative
<1>3. Append(a, Head(b)) = a \o <<Head(b)>>
  BY <1>1, AppendIsConcat
<1> QED
  BY <1>1, <1>2, <1>3
(* Whatever is part of a history stays part of it when it grows.           *)
LEMMA PartOfGrows ==
    ASSUME NEW S, NEW out \in Seq(S), NEW in \in Seq(S), NEW x \in S, PartOf(out, in)
    PROVE  PartOf(out, Append(in, x))
<1>1. /\ Len(Append(in, x)) = Len(in) + 1 /\ Len(in) \in Nat
      /\ \A b \in 1..Len(in) : Append(in, x)[b] = in[b] /\ b \in 1..(Len(in) + 1)
  OBVIOUS
<1>2. ASSUME NEW j \in 1..Len(out)
      PROVE  \E b \in 1..Len(Append(in, x)) :
                /\ Append(in, x)[b] = out[j]
                /\ \A i \in 1..(j - 1) :
                      /\ out[i] # out[j]
                      /\ \E a \in 1..(b - 1) : Append(in, x)[a] = out[i]
  <2>1. PICK b \in 1..Len(in) :
               /\ in[b] = out[j]
               /\ \A i \in 1..(j - 1) :
                     out[i] # out[j] /\ \E a \in 1..(b - 1) : in[a] = out[i]
    BY DEF PartOf
  <2>2. \A a \in 1..(b - 1) : Append(in, x)[a] = in[a]
    BY <1>1
  <2> QED
    BY <1>1, <2>1, <2>2
<1> QED
  BY <1>2 DEF PartOf

(* The item of in that follows all those of out is put at its end.         *)
LEMMA PartOfAppend ==
    ASSUME NEW S, NEW out \in Seq(S), NEW in \in Seq(S), PartOf(out, in),
           NEW c \in 1..Len(in),
           \A j \in 1..Len(out) : out[j] # in[c] /\ \E b \in 1..(c - 1) : in[b] = out[j]
    PROVE  PartOf(Append(out, in[c]), in)
<1> DEFINE o == Append(out, in[c])
<1>1. /\ in[c] \in S
      /\ Len(o) = Len(out) + 1 /\ Len(out) \in Nat
      /\ \A j \in 1..Len(out) : o[j] = out[j]
      /\ o[Len(out) + 1] = in[c]
  OBVIOUS
<1> HIDE DEF o
<1>2. ASSUME NEW j \in 1..Len(o)
      PROVE  \E b \in 1..Len(in) :
                /\ in[b] = o[j]
                /\ \A i \in 1..(j - 1) : o[i] # o[j] /\ \E a \in 1..(b - 1) : in[a] = o[i]
  <2>1. CASE j = Len(out) + 1
    <3>1. \A i \in 1..(j - 1) : i \in 1..Len(out)
      BY <1>1, <2>1
    <3> QED
      BY <1>1, <2>1, <3>1
  <2>2. CASE j # Len(out) + 1
    <3>1. j \in 1..Len(out) /\ \A i \in 1..(j - 1) : i \in 1..Len(out)
      BY <1>1, <2>2
    <3>2. PICK b \in 1..Len(in) :
               /\ in[b] = out[j]
               /\ \A i \in 1..(j - 1) :
                     out[i] # out[j] /\ \E a \in 1..(b - 1) : in[a] = out[i]
      BY <3>1 DEF PartOf
    <3>3. o[j] = out[j] /\ \A i \in 1..(j - 1) : o[i] = out[i]
      BY <1>1, <3>1
    <3> QED
      BY <3>2, <3>3
  <2> QED
    BY <2>1, <2>2
<1> QED
  BY <1>2 DEF PartOf, o
(* So are several that follow one another in in, which has no repetition.  *)
LEMMA PartOfConcat ==
    ASSUME NEW S, NEW out \in Seq(S), NEW in \in Seq(S), NEW ext \in Seq(S),
           PartOf(out, in),
           \A a, b \in 1..Len(in) : in[a] = in[b] => a = b,
           NEW c \in Nat, c + Len(ext) <= Len(in),
           \A j \in 1..Len(out) : \E b \in 1..c : in[b] = out[j],
           \A j \in 1..Len(ext) : ext[j] = in[c + j]
    PROVE  PartOf(out \o ext, in)
<1> DEFINE o == out \o ext
<1>1. /\ Len(o) = Len(out) + Len(ext) /\ Len(out) \in Nat /\ Len(ext) \in Nat
      /\ Len(in) \in Nat
      /\ \A j \in 1..Len(o) : o[j] = IF j <= Len(out) THEN out[j] ELSE ext[j - Len(out)]
  BY ConcatProperties
<1> HIDE DEF o
<1>2. ASSUME NEW j \in 1..Len(o), ~(j <= Len(out))
      PROVE  /\ c + (j - Len(out)) \in 1..Len(in)
             /\ o[j] = in[c + (j - Len(out))]
  <2>1. j - Len(out) \in 1..Len(ext)
    BY <1>1, <1>2
  <2>2. c + (j - Len(out)) \in 1..Len(in)
    BY <1>1, <2>1
  <2> QED
    BY <1>1, <1>2, <2>1, <2>2
<1>3. ASSUME NEW j \in 1..Len(o), j <= Len(out)
      PROVE  /\ j \in 1..Len(out) /\ o[j] = out[j]
             /\ \E b \in 1..c : in[b] = o[j] /\ b \in 1..Len(in)
  <2>1. j \in 1..Len(out) /\ o[j] = out[j]
    BY <1>1, <1>3
  <2>2. PICK b \in 1..c : in[b] = out[j]
    BY <2>1
  <2>3. b \in 1..Len(in)
    BY <1>1
  <2> QED
    BY <2>1, <2>2, <2>3
<1>4. ASSUME NEW j \in 1..Len(o)
      PROVE  \E b \in 1..Len(in) :
                /\ in[b] = o[j]
                /\ \A i \in 1..(j - 1) : o[i] # o[j] /\ \E a \in 1..(b - 1) : in[a] = o[i]
  <2>1. CASE j <= Len(out)
    <3>1. j \in 1..Len(out) /\ o[j] = out[j]
      BY <1>3, <2>1
    <3>2. \A i \in 1..(j - 1) : i \in 1..Len(o) /\ i <= Len(out)
      BY <1>1, <2>1
    <3>3. \A i \in 1..(j - 1) : o[i] = out[i]
      BY <1>3, <3>2
    <3>4. PICK b \in 1..Len(in) :
               /\ in[b] = out[j]
               /\ \A i \in 1..(j - 1) :
                     out[i] # out[j] /\ \E a \in 1..(b - 1) : in[a] = out[i]
      BY <3>1 DEF PartOf
    <3>5. ASSUME NEW i \in 1..(j - 1)
          PROVE  o[i] # o[j] /\ \E a \in 1..(b - 1) : in[a] = o[i]
      BY <3>1, <3>3, <3>4
    <3> QED
      BY <3>1, <3>4, <3>5
  <2>2. CASE ~(j <= Len(out))
    <3> DEFINE b == c + (j - Len(out))
    <3>1. b \in 1..Len(in) /\ in[b] = o[j] /\ b > c
      BY <1>1, <1>2, <2>2
    <3>2. ASSUME NEW i \in 1..(j - 1)
          PROVE  o[i] # o[j] /\ \E a \in 1..(b - 1) : in[a] = o[i]
      <4>0. i \in 1..Len(o)
        OBVIOUS
      <4>1. CASE i <= Len(out)
        <5>1. PICK a \in 1..c : in[a] = o[i] /\ a \in 1..Len(in)
          BY <1>3, <4>0, <4>1
        <5>2. a # b /\ a \in 1..(b - 1)
          BY <3>1
        <5> QED
          BY <3>1, <5>1, <5>2
      <4>2. CASE ~(i <= Len(out))
        <5>1. c + (i - Len(out)) \in 1..Len(in) /\ o[i] = in[c + (i - Len(out))]
          BY <1>2, <4>0, <4>2
        <5>2. c + (i - Len(out)) \in 1..(b - 1) /\ c + (i - Len(out)) # b
          BY <1>1, <3>1, <5>1
        <5> QED
          BY <3>1, <5>1, <5>2
      <4> QED
        BY <4>1, <4>2
    <3> HIDE DEF b
    <3>3. \A i \in 1..(j - 1) : o[i] # o[j] /\ \E a \in 1..(b - 1) : in[a] = o[i]
      BY <3>2
    <3>4. b \in 1..Len(in) /\ in[b] = o[j]
      BY <3>1
    <3> QED
      BY <3>3, <3>4
  <2> QED
    BY <2>1, <2>2
<1> QED
  BY <1>4 DEF PartOf, o
(***************************************************************************)
(* Recursion on the length.  A set of natural numbers has a least element; *)
(* so a recursion from 0 to n has a solution, and only one.                *)
(***************************************************************************)
LEMMA SmallestOf ==
    ASSUME NEW T \in SUBSET Nat, T # {}
    PROVE  \E m \in T : \A k \in T : m <= k
<1>1. PICK m \in T : \A k \in T : <<k, m>> \notin OpToRel(<, Nat)
  <2>1. IsWellFoundedOn(OpToRel(<, Nat), Nat)
    BY NatLessThanWellFounded
  <2> QED
    BY <2>1, WFMin
<1>2. \A k \in T : ~(k < m)
  BY <1>1 DEF OpToRel
<1> QED
  BY <1>2

LEMMA RecursionExists ==
    ASSUME NEW S, NEW base \in S, NEW n \in Nat, NEW step \in [1..n -> [S -> S]]
    PROVE  \E f \in [0..n -> S] : f[0] = base /\ \A i \in 1..n : f[i] = step[i][f[i - 1]]
<1> DEFINE Solves(f, m) ==
               /\ f \in [0..m -> S] /\ f[0] = base
               /\ \A i \in 1..m : f[i] = step[i][f[i - 1]]
           T == {m \in 0..n : ~ \E f : Solves(f, m)}
<1>1. ASSUME T # {}
      PROVE  FALSE
  <2>0. T \in SUBSET Nat
    OBVIOUS
  <2>1. PICK m \in T : \A k \in T : m <= k
    <3> HIDE DEF T
    <3> QED
      BY <1>1, <2>0, SmallestOf
  <2>2. m \in 0..n /\ \A f : ~Solves(f, m)
    OBVIOUS
  <2>3. CASE m = 0
    <3>1. Solves([i \in 0..0 |-> base], 0)
      OBVIOUS
    <3> QED
      BY <2>2, <2>3, <3>1
  <2>4. CASE m # 0
    <3>1. m \in 1..n /\ m - 1 \in 0..n /\ m - 1 \notin T
      BY <2>1, <2>4
    <3>2. PICK f : Solves(f, m - 1)
      BY <3>1
    <3> DEFINE g == [i \in 0..m |-> IF i = m THEN step[m][f[m - 1]] ELSE f[i]]
    <3>3. f[m - 1] \in S /\ step[m] \in [S -> S] /\ step[m][f[m - 1]] \in S
      BY <3>1, <3>2
    <3>4. g \in [0..m -> S]
      <4>1. \A i \in 0..m : i # m => i \in 0..(m - 1)
        BY <3>1
      <4> QED
        BY <3>2, <3>3, <4>1
    <3>5. g[0] = base
      BY <3>1, <3>2
    <3>6. ASSUME NEW i \in 1..m
          PROVE  g[i] = step[i][g[i - 1]]
      <4>1. i \in 0..m /\ i - 1 \in 0..m /\ i - 1 # m
        BY <3>1
      <4>2. g[i - 1] = f[i - 1]
        BY <4>1
      <4>3. CASE i = m
        BY <4>1, <4>2, <4>3
      <4>4. CASE i # m
        <5>1. i \in 1..(m - 1) /\ g[i] = f[i]
          BY <3>1, <4>1, <4>4
        <5> QED
          BY <3>2, <4>2, <5>1
      <4> QED
        BY <4>3, <4>4
    <3> HIDE DEF g
    <3>7. Solves(g, m)
      BY <3>4, <3>5, <3>6
    <3> QED
      BY <2>2, <3>7
  <2> QED
    BY <2>3, <2>4
<1>2. n \in 0..n
  OBVIOUS
<1>3. n \notin T
  <2> HIDE DEF T
  <2> QED
    BY <1>1
<1> QED
  BY <1>2, <1>3

LEMMA SameByRecursion ==
    ASSUME NEW n \in Nat, NEW f, NEW g, f[0] = g[0],
           \A i \in 1..n : f[i - 1] = g[i - 1] => f[i] = g[i]
    PROVE  \A i \in 0..n : f[i] = g[i]
<1> DEFINE T == {i \in 0..n : f[i] # g[i]}
<1>1. ASSUME T # {}
      PROVE  FALSE
  <2>0. T \in SUBSET Nat
    OBVIOUS
  <2>1. PICK m \in T : \A k \in T : m <= k
    <3> HIDE DEF T
    <3> QED
      BY <1>1, <2>0, SmallestOf
  <2>2. m \in 1..n /\ m - 1 \in 0..n /\ m - 1 \notin T
    BY <2>1
  <2> QED
    BY <2>2
<1> QED
  BY <1>1

----------------------------------------------------------------------------
(* Stretches of a history: what they hold, and how they join.             *)
LEMMA SegmentFacts ==
    ASSUME NEW S, NEW w \in Seq(S), NEW a \in Nat, NEW b \in Nat, a <= b, b <= Len(w)
    PROVE  /\ SubSeq(w, a + 1, b) \in Seq(S)
           /\ Len(SubSeq(w, a + 1, b)) = b - a
           /\ \A i \in 1..(b - a) : SubSeq(w, a + 1, b)[i] = w[a + i]
<1>1. SubSeq(w, a + 1, b) = [i \in 1..(b - a) |-> w[a + i]]
  OBVIOUS
<1>2. \A i \in 1..(b - a) : w[a + i] \in S
  OBVIOUS
<1> QED
  BY <1>1, <1>2

LEMMA SegmentsJoin ==
    ASSUME NEW S, NEW w \in Seq(S), NEW a \in Nat, NEW b \in Nat, NEW c \in Nat,
           a <= b, b <= c, c <= Len(w)
    PROVE  SubSeq(w, a + 1, b) \o SubSeq(w, b + 1, c) = SubSeq(w, a + 1, c)
<1> DEFINE s == SubSeq(w, a + 1, b)
           t == SubSeq(w, b + 1, c)
           u == SubSeq(w, a + 1, c)
<1>1. s \in Seq(S) /\ Len(s) = b - a /\ \A i \in 1..(b - a) : s[i] = w[a + i]
  BY SegmentFacts
<1>2. t \in Seq(S) /\ Len(t) = c - b /\ \A i \in 1..(c - b) : t[i] = w[b + i]
  BY SegmentFacts
<1>3. u \in Seq(S) /\ Len(u) = c - a /\ \A i \in 1..(c - a) : u[i] = w[a + i]
  BY SegmentFacts
<1> HIDE DEF s, t, u
<1>4. /\ s \o t \in Seq(S) /\ Len(s \o t) = Len(s) + Len(t)
      /\ \A i \in 1..(Len(s) + Len(t)) : (s \o t)[i] = IF i <= Len(s) THEN s[i] ELSE t[i - Len(s)]
  BY <1>1, <1>2, ConcatProperties
<1>5. Len(s \o t) = c - a
  BY <1>1, <1>2, <1>4
<1>6. ASSUME NEW i \in 1..(c - a)
      PROVE  (s \o t)[i] = u[i]
  <2>0. u[i] = w[a + i] /\ i \in 1..(Len(s) + Len(t))
    BY <1>1, <1>2, <1>3
  <2>1. CASE i <= b - a
    BY <1>1, <1>4, <2>0, <2>1
  <2>2. CASE ~(i <= b - a)
    <3>1. i - (b - a) \in 1..(c - b) /\ b + (i - (b - a)) = a + i
      BY <2>2
    <3>2. t[i - (b - a)] = w[a + i]
      BY <1>2, <3>1
    <3> QED
      BY <1>1, <1>4, <2>0, <2>2, <3>2
  <2> QED
    BY <2>1, <2>2
<1>7. s \o t = u
  BY <1>3, <1>4, <1>5, <1>6, SeqEqual
<1> QED
  BY <1>7 DEF s, t, u

(* The last stretch of a history is a suffix of it.                        *)
LEMMA SegmentIsSuffix ==
    ASSUME NEW S, NEW w \in Seq(S), NEW a \in Nat, a <= Len(w)
    PROVE  IsSuffix(SubSeq(w, a + 1, Len(w)), w)
<1> DEFINE n == Len(w)
           s == SubSeq(w, a + 1, n)
           r == Reverse(s)
           q == Reverse(w)
<1>1. n \in Nat /\ s \in Seq(S) /\ Len(s) = n - a /\ \A i \in 1..(n - a) : s[i] = w[a + i]
  BY SegmentFacts
<1>2. n - a \in Nat /\ n - a <= n
  BY <1>1
<1> HIDE DEF s
<1>3. r = [i \in 1..(n - a) |-> s[(n - a) - i + 1]]
  BY <1>1 DEF Reverse
<1>4. q = [i \in 1..n |-> w[n - i + 1]]
  BY DEF Reverse
<1>5. \A i \in 1..(n - a) : s[(n - a) - i + 1] = w[n - i + 1]
  <2> TAKE i \in 1..(n - a)
  <2>1. (n - a) - i + 1 \in 1..(n - a) /\ a + ((n - a) - i + 1) = n - i + 1
    BY <1>1, <1>2
  <2> QED
    BY <1>1, <2>1
<1>6. r = [i \in 1..(n - a) |-> w[n - i + 1]]
  BY <1>3, <1>5
<1>7. /\ r \in Seq(S) /\ Len(r) = n - a
  <2>1. \A i \in 1..(n - a) : w[n - i + 1] \in S
    BY <1>1, <1>2
  <2> QED
    BY <1>2, <1>6, <2>1
<1>8. q \in Seq(S) /\ Len(q) = n
  <2>1. \A i \in 1..n : w[n - i + 1] \in S
    BY <1>1
  <2> QED
    BY <1>1, <1>4, <2>1
<1>9. SubSeq(r, 1, n - a) = [i \in 1..(n - a) |-> w[n - i + 1]]
  <2> HIDE DEF r
  <2>1. SubSeq(r, 1, n - a) = [i \in 1..(n - a) |-> r[i]]
    BY <1>2, <1>7
  <2> QED
    BY <1>6, <2>1
<1>10. SubSeq(q, 1, n - a) = [i \in 1..(n - a) |-> w[n - i + 1]]
  <2> HIDE DEF q
  <2>1. SubSeq(q, 1, n - a) = [i \in 1..(n - a) |-> q[i]]
    BY <1>2, <1>8
  <2>2. \A i \in 1..(n - a) : i \in 1..n
    BY <1>1, <1>2
  <2> QED
    BY <1>4, <2>1, <2>2
<1>11. IsPrefix(r, q)
  <2> HIDE DEF r, q
  <2> QED
    BY <1>1, <1>2, <1>7, <1>8, <1>9, <1>10 DEF IsPrefix
<1> QED
  BY <1>11 DEF IsSuffix, s

(* A longer history has the same stretches, and a longer last one.         *)
LEMMA SegmentGrows ==
    ASSUME NEW S, NEW w \in Seq(S), NEW x \in S, NEW a \in Nat, NEW b \in Nat,
           a <= b, b <= Len(w)
    PROVE  /\ SubSeq(Append(w, x), a + 1, b) = SubSeq(w, a + 1, b)
           /\ SubSeq(Append(w, x), a + 1, Len(w) + 1) = Append(SubSeq(w, a + 1, Len(w)), x)
<1> DEFINE v == Append(w, x)
           n == Len(w)
<1>1. /\ n \in Nat /\ v \in Seq(S) /\ Len(v) = n + 1 /\ v[n + 1] = x
      /\ \A i \in 1..n : v[i] = w[i]
  BY AppendProperties
<1> HIDE DEF v
<1>2. /\ SubSeq(v, a + 1, b) \in Seq(S) /\ Len(SubSeq(v, a + 1, b)) = b - a
      /\ \A i \in 1..(b - a) : SubSeq(v, a + 1, b)[i] = v[a + i]
  BY <1>1, SegmentFacts
<1>3. /\ SubSeq(w, a + 1, b) \in Seq(S) /\ Len(SubSeq(w, a + 1, b)) = b - a
      /\ \A i \in 1..(b - a) : SubSeq(w, a + 1, b)[i] = w[a + i]
  BY SegmentFacts
<1>4. \A i \in 1..(b - a) : v[a + i] = w[a + i]
  BY <1>1
<1>5. SubSeq(v, a + 1, b) = SubSeq(w, a + 1, b)
  BY <1>2, <1>3, <1>4, SeqEqual
<1> DEFINE s == SubSeq(w, a + 1, n)
           t == SubSeq(v, a + 1, n + 1)
<1>6. s \in Seq(S) /\ Len(s) = n - a /\ \A i \in 1..(n - a) : s[i] = w[a + i]
  BY <1>1, SegmentFacts
<1>7. t \in Seq(S) /\ Len(t) = n + 1 - a /\ \A i \in 1..(n + 1 - a) : t[i] = v[a + i]
  <2>1. n + 1 \in Nat /\ a <= n + 1 /\ n + 1 <= Len(v)
    BY <1>1
  <2> HIDE DEF n
  <2> QED
    BY <1>1, <2>1, SegmentFacts
<1> HIDE DEF s, t
<1>8. /\ Append(s, x) \in Seq(S) /\ Len(Append(s, x)) = n - a + 1
      /\ \A i \in 1..(n - a) : Append(s, x)[i] = s[i]
      /\ Append(s, x)[n - a + 1] = x
  BY <1>6, AppendProperties
<1>9. ASSUME NEW i \in 1..(n - a + 1)
      PROVE  t[i] = Append(s, x)[i]
  <2>1. CASE i = n - a + 1
    <3>1. a + i = n + 1
      BY <1>1, <2>1
    <3> QED
      BY <1>1, <1>7, <1>8, <2>1, <3>1
  <2>2. CASE i # n - a + 1
    <3>1. i \in 1..(n - a) /\ a + i \in 1..n
      BY <1>1, <2>2
    <3> QED
      BY <1>1, <1>6, <1>7, <1>8, <3>1
  <2> QED
    BY <2>1, <2>2
<1>10. Len(t) = Len(Append(s, x))
  BY <1>1, <1>7, <1>8
<1>11. t = Append(s, x)
  BY <1>7, <1>8, <1>9, <1>10, SeqEqual
<1> QED
  BY <1>5, <1>11 DEF s, t, v

(* An empty stretch adds nothing, a stretch of one element adds it.        *)
LEMMA Stretches ==
    ASSUME NEW S, NEW s \in Seq(S), NEW a \in Seq(S), NEW p \in Nat
    PROVE  /\ s \o SubSeq(a, p + 1, p) = s
           /\ p + 1 <= Len(a) => s \o SubSeq(a, p + 1, p + 1) = Append(s, a[p + 1])
<1>1. SubSeq(a, p + 1, p) = << >>
  OBVIOUS
<1>2. ASSUME p + 1 <= Len(a)
      PROVE  s \o SubSeq(a, p + 1, p + 1) = Append(s, a[p + 1])
  <2> DEFINE t == SubSeq(a, p + 1, p + 1)
  <2>1. p + 1 \in 1..Len(a) /\ a[p + 1] \in S /\ p + 1 \in Nat /\ p <= p + 1 /\ p + 1 - p = 1
    BY <1>2
  <2>2. t \in Seq(S) /\ Len(t) = 1 /\ \A i \in 1..1 : t[i] = a[p + i]
    BY <1>2, <2>1, SegmentFacts
  <2> HIDE DEF t
  <2>3. t = <<a[p + 1]>>
    <3>1. t[1] = a[p + 1]
      BY <2>2
    <3>2. Len(t) = Len(<<a[p + 1]>>) /\ \A i \in 1..Len(t) : t[i] = <<a[p + 1]>>[i]
      BY <2>2, <3>1
    <3>3. <<a[p + 1]>> \in Seq(S)
      BY <2>1
    <3> QED
      BY <2>2, <3>2, <3>3, SeqEqual
  <2>4. Append(s, a[p + 1]) = s \o <<a[p + 1]>>
    BY <2>1, AppendIsConcat
  <2> QED
    BY <2>3, <2>4 DEF t
<1> QED
  BY <1>1, <1>2

(* A history is cut into n parts, and flattening the parts gives back the  *)
(* stretch of the history they come from.                                  *)
LEMMA FlattenSegments ==
    ASSUME NEW S, NEW w \in Seq(S), NEW n \in Nat \ {0}, NEW F, NEW cut,
           F = [k \in 1..n |-> SubSeq(w, cut[k - 1] + 1, cut[k])],
           \A k \in 0..n : cut[k] \in 0..Len(w),
           \A k \in 1..n : cut[0] <= cut[k - 1] /\ cut[k - 1] <= cut[k]
    PROVE  FlattenSeq(F) = SubSeq(w, cut[0] + 1, cut[n])
<1> DEFINE g == [k \in 1..n |-> SubSeq(w, cut[0] + 1, cut[k])]
           G(f) == [k \in 1..n |-> IF k = 1 THEN F[k] ELSE f[k - 1] \o F[k]]
           fl == CHOOSE f : f = G(f)
<1>1. Len(F) = n /\ n # 0
  OBVIOUS
<1>2. FlattenSeq(F) = fl[n]
  BY <1>1 DEF FlattenSeq
<1>3. g = G(g)
  <2>1. ASSUME NEW k \in 1..n
        PROVE  g[k] = IF k = 1 THEN F[k] ELSE g[k - 1] \o F[k]
    <3>1. CASE k = 1
      BY <3>1
    <3>2. CASE k # 1
      <4>1. k - 1 \in 1..n /\ 0 \in 0..n /\ k \in 0..n /\ k - 1 \in 0..n
        BY <3>2
      <4>2. /\ cut[0] \in Nat /\ cut[k - 1] \in Nat /\ cut[k] \in Nat
            /\ cut[0] <= cut[k - 1] /\ cut[k - 1] <= cut[k] /\ cut[k] <= Len(w)
        BY <4>1
      <4>3. SubSeq(w, cut[0] + 1, cut[k - 1]) \o SubSeq(w, cut[k - 1] + 1, cut[k])
               = SubSeq(w, cut[0] + 1, cut[k])
        BY <4>2, SegmentsJoin
      <4> QED
        BY <3>2, <4>1, <4>3
    <3> QED
      BY <3>1, <3>2
  <2> QED
    BY <2>1
<1>4. fl = G(fl)
  <2> HIDE DEF G, g
  <2> QED
    BY <1>3
<1>5. \A k \in 1..n : fl[k] = IF k = 1 THEN F[k] ELSE fl[k - 1] \o F[k]
  <2> HIDE DEF fl
  <2>1. DOMAIN G(fl) = 1..n /\ \A k \in 1..n : G(fl)[k] = IF k = 1 THEN F[k] ELSE fl[k - 1] \o F[k]
    OBVIOUS
  <2> HIDE DEF G
  <2> QED
    BY <1>4, <2>1
<1>6. \A k \in 1..n : g[k] = IF k = 1 THEN F[k] ELSE g[k - 1] \o F[k]
  <2>1. DOMAIN G(g) = 1..n /\ \A k \in 1..n : G(g)[k] = IF k = 1 THEN F[k] ELSE g[k - 1] \o F[k]
    <3> HIDE DEF g
    <3> QED
      OBVIOUS
  <2> HIDE DEF G, g
  <2> QED
    BY <1>3, <2>1
<1> DEFINE T == {k \in 1..n : fl[k] # g[k]}
<1>7. T = {}
  <2> HIDE DEF fl, g
  <2>1. SUFFICES ASSUME T # {}
                 PROVE  FALSE
    OBVIOUS
  <2>2. T \in SUBSET Nat
    OBVIOUS
  <2>3. PICK k \in T : \A j \in T : k <= j
    <3> HIDE DEF T
    <3> QED
      BY <2>1, <2>2, SmallestOf
  <2>4. k \in 1..n /\ fl[k] # g[k]
    OBVIOUS
  <2>5. k # 1
    BY <1>5, <1>6, <2>4
  <2>6. k - 1 \in 1..n /\ fl[k - 1] = g[k - 1]
    BY <2>3, <2>4, <2>5
  <2> QED
    BY <1>5, <1>6, <2>4, <2>5, <2>6
<1>0. n \in 1..n
  OBVIOUS
<1>8. fl[n] = g[n]
  <2> HIDE DEF fl, g
  <2> QED
    BY <1>0, <1>7
<1>9. g[n] = SubSeq(w, cut[0] + 1, cut[n])
  BY <1>0
<1> QED
  BY <1>2, <1>8, <1>9

(* The files m to l of a history, put in increasing slots of a longer      *)
(* sequence that is empty elsewhere.                                       *)
InSlots(F, w, n, m, l, slot, cut) ==
    /\ F = [k \in 1..n |-> F[k]]
    /\ \A i \in m..l : slot[i] \in 1..n
    /\ \A i, j \in m..l : i < j => slot[i] < slot[j]
    /\ \A i \in m..(l + 1) : cut[i] \in 0..Len(w)
    /\ \A i, j \in m..(l + 1) : i <= j => cut[i] <= cut[j]
    /\ \A i \in m..l : F[slot[i]] = SubSeq(w, cut[i] + 1, cut[i + 1])
    /\ \A k \in 1..n : (\A i \in m..l : slot[i] # k) => F[k] = << >>

LEMMA FlattenSlots ==
    ASSUME NEW S, NEW w \in Seq(S), NEW n \in Nat \ {0}, NEW m \in Nat, NEW l \in Nat,
           m <= l + 1, NEW slot, NEW cut, NEW F, InSlots(F, w, n, m, l, slot, cut)
    PROVE  FlattenSeq(F) = SubSeq(w, cut[m] + 1, cut[l + 1])
<1> USE DEF InSlots
<1> DEFINE First(k, p) == /\ \A j \in m..(p - 1) : slot[j] <= k
                          /\ p <= l => slot[p] > k
<1>1. ASSUME NEW k \in 0..n
      PROVE  \E p \in m..(l + 1) : First(k, p)
  <2> DEFINE T == {p \in m..(l + 1) : p <= l => slot[p] > k}
  <2>1. T \in SUBSET Nat /\ l + 1 \in T
    OBVIOUS
  <2>2. PICK p \in T : \A j \in T : p <= j
    <3> HIDE DEF T
    <3> QED
      BY <2>1, SmallestOf
  <2>3. ASSUME NEW j \in m..(p - 1)
        PROVE  slot[j] <= k
    <3>1. j \in m..l /\ j \notin T /\ j \in m..(l + 1)
      BY <2>2
    <3> QED
      BY <3>1
  <2> QED
    BY <2>3
<1> DEFINE at == [k \in 0..n |-> CHOOSE p \in m..(l + 1) : First(k, p)]
<1>2. \A k \in 0..n : at[k] \in m..(l + 1) /\ First(k, at[k])
  <2> HIDE DEF First
  <2> QED
    BY <1>1
<1> HIDE DEF at
<1>3. at[0] = m
  <2>1. at[0] \in m..(l + 1) /\ First(0, at[0])
    BY <1>2
  <2>2. ASSUME at[0] # m
        PROVE  FALSE
    <3>1. m \in m..(at[0] - 1) /\ m \in m..l
      BY <2>1, <2>2
    <3>2. slot[m] <= 0 /\ slot[m] \in 1..n
      BY <2>1, <3>1
    <3> QED
      BY <3>2
  <2> QED
    BY <2>2
<1>4. at[n] = l + 1
  <2>1. at[n] \in m..(l + 1) /\ First(n, at[n])
    BY <1>2
  <2>2. at[n] # l + 1 => at[n] \in m..l /\ at[n] <= l
    BY <2>1
  <2> QED
    BY <2>1, <2>2
<1>5. ASSUME NEW k \in 1..n
      PROVE  /\ at[k - 1] <= at[k]
             /\ F[k] = SubSeq(w, cut[at[k - 1]] + 1, cut[at[k]])
  <2> DEFINE p == at[k - 1]
             q == at[k]
  <2>1. /\ p \in m..(l + 1) /\ First(k - 1, p)
        /\ q \in m..(l + 1) /\ First(k, q)
    <3>1. k \in 0..n /\ k - 1 \in 0..n
      OBVIOUS
    <3> QED
      BY <1>2, <3>1
  <2> HIDE DEF p, q
  <2>2. p <= q
    <3>1. ~(p <= q) => q \in m..(p - 1) /\ q <= l /\ q \in m..l
      BY <2>1
    <3> QED
      BY <2>1, <3>1
  <2>3. CASE \E i \in m..l : slot[i] = k
    <3>1. PICK i \in m..l : slot[i] = k
      BY <2>3
    <3>2. p = i
      <4>1. CASE p < i
        <5>1. p \in m..l /\ slot[p] > k - 1 /\ slot[p] < slot[i] /\ slot[p] \in 1..n
          BY <2>1, <4>1
        <5> QED
          BY <3>1, <5>1
      <4>2. CASE p > i
        <5>1. i \in m..(p - 1)
          BY <4>2, <2>1
        <5> QED
          BY <2>1, <3>1, <5>1
      <4> QED
        BY <2>1, <4>1, <4>2
    <3>3. q = i + 1
      <4>1. CASE q < i + 1
        <5>1. q \in m..l /\ q <= l /\ (q = i \/ q < i)
          BY <2>1, <4>1
        <5>2. slot[q] > k /\ slot[q] \in 1..n
          BY <2>1, <5>1
        <5>3. q = i \/ slot[q] < slot[i]
          BY <5>1
        <5> QED
          BY <3>1, <5>2, <5>3
      <4>2. CASE q > i + 1
        <5>1. i + 1 \in m..(q - 1) /\ i + 1 \in m..l /\ i < i + 1
          BY <4>2, <2>1
        <5>2. slot[i + 1] <= k /\ slot[i] < slot[i + 1] /\ slot[i + 1] \in 1..n
          BY <2>1, <5>1
        <5> QED
          BY <3>1, <5>2
      <4> QED
        BY <2>1, <4>1, <4>2
    <3>4. F[slot[i]] = SubSeq(w, cut[i] + 1, cut[i + 1])
      OBVIOUS
    <3> QED
      BY <2>2, <3>1, <3>2, <3>3, <3>4 DEF p, q
  <2>4. CASE \A i \in m..l : slot[i] # k
    <3>1. p = q
      <4>1. p # q => p \in m..(q - 1) /\ p \in m..l
        BY <2>1, <2>2
      <4>2. p # q => slot[p] > k - 1 /\ slot[p] <= k /\ slot[p] \in 1..n
        BY <2>1, <4>1
      <4>3. p # q => slot[p] = k
        BY <4>2
      <4> QED
        BY <2>4, <4>1, <4>3
    <3>2. F[k] = << >>
      BY <2>4
    <3>3. cut[p] \in Nat /\ cut[p] <= Len(w)
      BY <2>1
    <3>4. SubSeq(w, cut[p] + 1, cut[p]) = << >>
      <4>1. /\ SubSeq(w, cut[p] + 1, cut[p]) \in Seq(S)
            /\ Len(SubSeq(w, cut[p] + 1, cut[p])) = cut[p] - cut[p]
        BY <3>3, SegmentFacts
      <4> QED
        BY <3>3, <4>1
    <3> QED
      BY <2>2, <3>1, <3>2, <3>4 DEF p, q
  <2> QED
    BY <2>3, <2>4
<1> DEFINE c == [k \in 0..n |-> cut[at[k]]]
<1>6. F = [k \in 1..n |-> SubSeq(w, c[k - 1] + 1, c[k])]
  <2>1. \A k \in 1..n : k \in 0..n /\ k - 1 \in 0..n
    OBVIOUS
  <2>2. \A k \in 1..n : F[k] = SubSeq(w, c[k - 1] + 1, c[k])
    BY <1>5, <2>1
  <2> QED
    BY <2>2
<1>7. \A k \in 0..n : c[k] \in 0..Len(w)
  BY <1>2
<1>8. ASSUME NEW k \in 1..n
      PROVE  c[0] <= c[k - 1] /\ c[k - 1] <= c[k]
  <2>1. k \in 0..n /\ k - 1 \in 0..n /\ 0 \in 0..n
    OBVIOUS
  <2>2. at[0] <= at[k - 1] /\ at[k - 1] <= at[k]
    BY <1>2, <1>3, <1>5, <2>1
  <2>3. cut[at[0]] <= cut[at[k - 1]] /\ cut[at[k - 1]] <= cut[at[k]]
    BY <1>2, <2>1, <2>2
  <2> QED
    BY <2>1, <2>3
<1>9. c[0] = cut[m] /\ c[n] = cut[l + 1]
  BY <1>3, <1>4
<1> HIDE DEF c
<1>10. FlattenSeq(F) = SubSeq(w, c[0] + 1, c[n])
  <2> HIDE DEF InSlots
  <2> QED
    BY <1>6, <1>7, <1>8, FlattenSegments
<1> QED
  BY <1>9, <1>10
=============================================================================
