---------------------------- MODULE ListLemmas -----------------------------
(***************************************************************************)
(* Facts about sequences and numbers the proofs about the lists of         *)
(* libsparse rest on: the least element of a set of naturals, and what     *)
(* inserting into and removing from a sequence does to each position.      *)
(***************************************************************************)
EXTENDS Sums, Integers, Sequences, SequencesExt, FiniteSetTheorems, SequenceTheorems, TLAPS

(* Rounding down to a multiple.                                            *)
LEMMA DivFacts ==
  ASSUME NEW a \in Nat, NEW d \in Nat \ {0}
  PROVE  a \div d \in Nat /\ d * (a \div d) =< a /\ a < d * (a \div d) + d
OBVIOUS

LEMMA DivExact ==
  ASSUME NEW a \in Nat, NEW d \in Nat \ {0}, a % d = 0
  PROVE  a \div d \in Nat /\ a = d * (a \div d)
OBVIOUS

(* Multiples of a block size.                                              *)
LEMMA MulLess ==
  ASSUME NEW p \in Int, NEW q \in Int, NEW d \in Nat \ {0}
  PROVE  /\ d * p < d * q => p < q
         /\ p =< q => d * p =< d * q
         /\ d * (p + q) = d * p + d * q
         /\ d * p \in Int
OBVIOUS

LEMMA DivUnique ==
  ASSUME NEW a \in Nat, NEW d \in Nat \ {0}, NEW q \in Nat, d * q =< a, a < d * q + d
  PROVE  a \div d = q
<1>1. a \div d \in Nat /\ d * (a \div d) =< a /\ a < d * (a \div d) + d
  BY DivFacts
<1> DEFINE b == a \div d
<1> HIDE DEF b
<1>2. d * (b + 1) = d * b + d /\ d * (q + 1) = d * q + d
  BY <1>1 DEF b
<1>3. d * b < d * (q + 1) /\ d * q < d * (b + 1)
  BY <1>1, <1>2 DEF b
<1>4. b < q + 1 /\ q < b + 1
  BY <1>1, <1>3, MulLess DEF b
<1> QED BY <1>1, <1>4 DEF b

(* Every non-empty set of naturals has a least element.  It is what makes  *)
(* the search loop of queue_bb end at a first position.                    *)
LEMMA LeastElement ==
  ASSUME NEW T, T \in SUBSET Nat, T # {}
  PROVE  \E m \in T : \A k \in T : m =< k
<1> DEFINE D == {1 .. n : n \in T}
           R == StrictSubsetOrdering(Nat)
           F == FiniteSubsetsOf(Nat)
<1>1. D \subseteq F
  <2> SUFFICES ASSUME NEW n \in T PROVE 1 .. n \in F OBVIOUS
  <2>1. n \in Int /\ 1 \in Int /\ 1 .. n \subseteq Nat OBVIOUS
  <2>2. IsFiniteSet(1 .. n) BY <2>1, FS_Interval
  <2> QED BY <2>1, <2>2 DEF FiniteSubsetsOf
<1>2. IsWellFoundedOn(R, F) BY FS_StrictSubsetOrderingWellFounded
<1>3. D # {} OBVIOUS
<1>4. PICK d \in D : \A e \in D : ~ (<<e, d>> \in R)
  <2> HIDE DEF D, R, F
  <2> QED BY <1>1, <1>2, <1>3, WFMin
<1>5. PICK m \in T : d = 1 .. m OBVIOUS
<1>6. ASSUME NEW k \in T, k < m PROVE FALSE
  <2>1. 1 .. k \subseteq 1 .. m /\ m \in (1 .. m) \ (1 .. k)
    BY <1>6
  <2>2. <<1 .. k, 1 .. m>> \in R
    BY <2>1 DEF StrictSubsetOrdering
  <2> QED BY <2>2, <1>4, <1>5
<1> QED BY <1>6

(* A sequence cut before position i: the first i-1 elements.               *)
LEMMA FrontProperties ==
  ASSUME NEW S, NEW s \in Seq(S), NEW i \in 1 .. Len(s) + 1
  PROVE  /\ SubSeq(s, 1, i-1) \in Seq(S)
         /\ Len(SubSeq(s, 1, i-1)) = i - 1
         /\ \A j \in 1 .. i-1 : SubSeq(s, 1, i-1)[j] = s[j]
<1>1. Len(s) \in Nat /\ \A j \in 1 .. i-1 : s[j] \in S
  BY LenProperties, ElementOfSeq
<1>2. /\ SubSeq(s, 1, i-1) \in Seq(S)
      /\ Len(SubSeq(s, 1, i-1)) = IF 1 =< i-1 THEN (i-1)-1+1 ELSE 0
      /\ \A j \in 1 .. (i-1)-1+1 : SubSeq(s, 1, i-1)[j] = s[1+j-1]
  BY <1>1, SubSeqProperties
<1> QED BY <1>1, <1>2

(* The elements of a sequence from position i on.                          *)
LEMMA BackProperties ==
  ASSUME NEW S, NEW s \in Seq(S), NEW i \in 1 .. Len(s) + 1
  PROVE  /\ SubSeq(s, i, Len(s)) \in Seq(S)
         /\ Len(SubSeq(s, i, Len(s))) = Len(s) - i + 1
         /\ \A j \in 1 .. Len(s) - i + 1 : SubSeq(s, i, Len(s))[j] = s[i + j - 1]
<1>1. Len(s) \in Nat /\ \A j \in i .. Len(s) : s[j] \in S
  BY LenProperties, ElementOfSeq
<1>2. /\ SubSeq(s, i, Len(s)) \in Seq(S)
      /\ Len(SubSeq(s, i, Len(s))) = IF i =< Len(s) THEN Len(s)-i+1 ELSE 0
      /\ \A j \in 1 .. Len(s)-i+1 : SubSeq(s, i, Len(s))[j] = s[i+j-1]
  BY <1>1, SubSeqProperties
<1> QED BY <1>1, <1>2

(* Inserting e before position i shifts the elements from i on by one.     *)
LEMMA InsertAtElements ==
  ASSUME NEW S, NEW s \in Seq(S), NEW i \in 1 .. Len(s) + 1, NEW e \in S
  PROVE  /\ InsertAt(s, i, e) \in Seq(S)
         /\ Len(InsertAt(s, i, e)) = Len(s) + 1
         /\ \A j \in 1 .. i - 1 : InsertAt(s, i, e)[j] = s[j]
         /\ InsertAt(s, i, e)[i] = e
         /\ \A j \in i .. Len(s) : InsertAt(s, i, e)[j + 1] = s[j]
<1> DEFINE l  == SubSeq(s, 1, i-1)
           r  == SubSeq(s, i, Len(s))
           le == l \o <<e>>
<1>0. Len(s) \in Nat /\ i \in Nat
  BY LenProperties
<1>1. l \in Seq(S) /\ Len(l) = i - 1 /\ \A j \in 1 .. i - 1 : l[j] = s[j]
  BY FrontProperties
<1>2. /\ r \in Seq(S) /\ Len(r) = Len(s) - i + 1
      /\ \A j \in 1 .. Len(s) - i + 1 : r[j] = s[i + j - 1]
  BY BackProperties
<1>3. <<e>> \in Seq(S) /\ Len(<<e>>) = 1 /\ <<e>>[1] = e
  OBVIOUS
<1>4. /\ le \in Seq(S) /\ Len(le) = i
      /\ \A j \in 1 .. i : le[j] = IF j < i THEN s[j] ELSE e
  <2>1. /\ le \in Seq(S) /\ Len(le) = Len(l) + Len(<<e>>)
        /\ \A j \in 1 .. Len(l) + Len(<<e>>) : le[j] = IF j =< Len(l) THEN l[j] ELSE <<e>>[j - Len(l)]
    <3> HIDE DEF l
    <3> QED BY <1>1, <1>3, ConcatProperties
  <2> QED BY <2>1, <1>0, <1>1, <1>3
<1>5. /\ le \o r \in Seq(S) /\ Len(le \o r) = Len(le) + Len(r)
      /\ \A j \in 1 .. Len(le) + Len(r) :
           (le \o r)[j] = IF j =< Len(le) THEN le[j] ELSE r[j - Len(le)]
  <2> HIDE DEF le, r
  <2> QED BY <1>4, <1>2, ConcatProperties
<1>6. InsertAt(s, i, e) = le \o r BY DEF InsertAt
<1> HIDE DEF le, r
<1> QED BY <1>0, <1>2, <1>4, <1>5, <1>6

(* The same in one formula.                                                *)
LEMMA InsertAtProperties ==
  ASSUME NEW S, NEW s \in Seq(S), NEW i \in 1 .. Len(s) + 1, NEW e \in S
  PROVE  /\ InsertAt(s, i, e) \in Seq(S)
         /\ Len(InsertAt(s, i, e)) = Len(s) + 1
         /\ \A j \in 1 .. Len(s) + 1 : InsertAt(s, i, e)[j] =
              IF j < i THEN s[j] ELSE IF j = i THEN e ELSE s[j - 1]
<1> DEFINE t == InsertAt(s, i, e)
<1>1. Len(s) \in Nat /\ i \in Nat
  BY LenProperties
<1>2. /\ t \in Seq(S) /\ Len(t) = Len(s) + 1
      /\ \A j \in 1 .. i - 1 : t[j] = s[j]
      /\ t[i] = e
      /\ \A j \in i .. Len(s) : t[j + 1] = s[j]
  BY InsertAtElements
<1> HIDE DEF t
<1>3. ASSUME NEW j \in 1 .. Len(s) + 1
      PROVE  t[j] = IF j < i THEN s[j] ELSE IF j = i THEN e ELSE s[j - 1]
  <2>1. CASE j < i
    BY <1>1, <1>2, <2>1
  <2>2. CASE j = i
    BY <1>2, <2>2
  <2>3. CASE j > i
    <3>1. j - 1 \in i .. Len(s) /\ (j - 1) + 1 = j
      BY <1>1, <2>3
    <3> QED BY <1>1, <1>2, <2>3, <3>1
  <2> QED BY <1>1, <2>1, <2>2, <2>3
<1> QED BY <1>2, <1>3 DEF t

(* Removing position i shifts the elements behind it back by one.          *)
LEMMA RemoveAtProperties ==
  ASSUME NEW S, NEW s \in Seq(S), NEW i \in 1 .. Len(s)
  PROVE  /\ RemoveAt(s, i) \in Seq(S)
         /\ Len(RemoveAt(s, i)) = Len(s) - 1
         /\ \A j \in 1 .. Len(s) - 1 : RemoveAt(s, i)[j] = IF j < i THEN s[j] ELSE s[j + 1]
<1> DEFINE l == SubSeq(s, 1, i-1)
           r == SubSeq(s, i+1, Len(s))
<1>0. Len(s) \in Nat /\ i \in Nat /\ i \in 1 .. Len(s) + 1 /\ i+1 \in 1 .. Len(s) + 1
  BY LenProperties
<1>1. l \in Seq(S) /\ Len(l) = i - 1 /\ \A j \in 1 .. i - 1 : l[j] = s[j]
  BY <1>0, FrontProperties
<1>2. /\ r \in Seq(S) /\ Len(r) = Len(s) - (i+1) + 1
      /\ \A j \in 1 .. Len(s) - (i+1) + 1 : r[j] = s[(i+1) + j - 1]
  BY <1>0, BackProperties
<1>3. /\ l \o r \in Seq(S) /\ Len(l \o r) = Len(l) + Len(r)
      /\ \A j \in 1 .. Len(l) + Len(r) :
           (l \o r)[j] = IF j =< Len(l) THEN l[j] ELSE r[j - Len(l)]
  <2> HIDE DEF l, r
  <2> QED BY <1>1, <1>2, ConcatProperties
<1>4. RemoveAt(s, i) = l \o r BY DEF RemoveAt
<1>5. \A j \in i .. Len(s) - 1 : r[j - (i-1)] = s[j + 1]
  <2> SUFFICES ASSUME NEW j \in i .. Len(s) - 1 PROVE r[j - (i-1)] = s[j + 1] OBVIOUS
  <2> HIDE DEF l, r
  <2>1. j - (i-1) \in 1 .. Len(s) - (i+1) + 1 /\ (i+1) + (j - (i-1)) - 1 = j + 1
    BY <1>0
  <2> QED BY <1>2, <2>1
<1>6. Len(l \o r) = Len(s) - 1
  <2> HIDE DEF l, r
  <2> QED BY <1>0, <1>1, <1>2, <1>3
<1>7. \A j \in 1 .. Len(s) - 1 : (l \o r)[j] = IF j < i THEN s[j] ELSE s[j + 1]
  <2> SUFFICES ASSUME NEW j \in 1 .. Len(s) - 1
               PROVE  (l \o r)[j] = IF j < i THEN s[j] ELSE s[j + 1]
    OBVIOUS
  <2> HIDE DEF l, r
  <2>1. (l \o r)[j] = IF j =< i - 1 THEN l[j] ELSE r[j - (i-1)]
    BY <1>0, <1>1, <1>2, <1>3
  <2>2. CASE j < i BY <2>1, <2>2, <1>0, <1>1
  <2>3. CASE ~(j < i) BY <2>1, <2>3, <1>0, <1>5
  <2> QED BY <2>2, <2>3
<1> QED BY <1>3, <1>4, <1>6, <1>7

(* Putting e in front shifts everything by one.                            *)
LEMMA PrependProperties ==
  ASSUME NEW S, NEW s \in Seq(S), NEW e \in S
  PROVE  /\ <<e>> \o s \in Seq(S)
         /\ Len(<<e>> \o s) = Len(s) + 1
         /\ \A j \in 1 .. Len(s) + 1 : (<<e>> \o s)[j] = IF j = 1 THEN e ELSE s[j - 1]
<1>1. <<e>> \in Seq(S) /\ Len(<<e>>) = 1 /\ <<e>>[1] = e /\ Len(s) \in Nat
  BY LenProperties
<1>2. /\ <<e>> \o s \in Seq(S) /\ Len(<<e>> \o s) = Len(<<e>>) + Len(s)
      /\ \A j \in 1 .. Len(<<e>>) + Len(s) :
           (<<e>> \o s)[j] = IF j =< Len(<<e>>) THEN <<e>>[j] ELSE s[j - Len(<<e>>)]
  BY <1>1, ConcatProperties
<1> QED BY <1>1, <1>2

-----------------------------------------------------------------------------
(* The elements of a sequence, their places set aside.                     *)

LEMMA InsertAtToSet ==
  ASSUME NEW S, NEW s \in Seq(S), NEW i \in 1 .. Len(s) + 1, NEW e \in S
  PROVE  ToSet(InsertAt(s, i, e)) = ToSet(s) \cup {e}
<1> DEFINE n == Len(s)
           t == InsertAt(s, i, e)
<1>1. n \in Nat /\ DOMAIN s = 1 .. n /\ i \in 1 .. n + 1
  BY LenProperties
<1>2. /\ t \in Seq(S) /\ Len(t) = n + 1
      /\ \A j \in 1 .. i - 1 : t[j] = s[j]
      /\ t[i] = e
      /\ \A j \in i .. n : t[j + 1] = s[j]
  BY InsertAtElements, SMTT(40)
<1>3. DOMAIN t = 1 .. n + 1
  BY <1>2, LenProperties
<1> HIDE DEF t, n
<1>4. ASSUME NEW j \in 1 .. n + 1 PROVE t[j] \in ToSet(s) \cup {e}
  <2>1. CASE j < i
    <3>1. j \in 1 .. i - 1 /\ j \in 1 .. n
      BY <1>1, <2>1
    <3> QED BY <1>1, <1>2, <3>1 DEF ToSet
  <2>2. CASE j = i
    BY <1>2, <2>2
  <2>3. CASE j > i
    <3>1. j - 1 \in i .. n /\ j - 1 \in 1 .. n /\ (j - 1) + 1 = j
      BY <1>1, <2>3
    <3>2. t[j] = s[j - 1]
      BY <1>2, <3>1
    <3> QED BY <1>1, <3>1, <3>2 DEF ToSet
  <2> QED BY <1>1, <2>1, <2>2, <2>3
<1>5. ASSUME NEW j \in 1 .. n PROVE s[j] \in ToSet(t)
  <2>1. CASE j < i
    <3>1. j \in 1 .. i - 1 /\ j \in 1 .. n + 1
      BY <1>1, <2>1
    <3>2. t[j] = s[j]
      BY <1>2, <3>1
    <3> QED BY <1>3, <3>1, <3>2 DEF ToSet
  <2>2. CASE ~(j < i)
    <3>1. j \in i .. n /\ j + 1 \in 1 .. n + 1
      BY <1>1, <2>2
    <3>2. t[j + 1] = s[j]
      BY <1>2, <3>1
    <3> QED BY <1>3, <3>1, <3>2 DEF ToSet
  <2> QED BY <2>1, <2>2
<1>6. e \in ToSet(t)
  BY <1>1, <1>2, <1>3 DEF ToSet
<1>7. \A x \in ToSet(t) : x \in ToSet(s) \cup {e}
  BY <1>3, <1>4 DEF ToSet
<1>8. \A x \in ToSet(s) : x \in ToSet(t)
  BY <1>1, <1>5 DEF ToSet
<1> QED BY <1>6, <1>7, <1>8 DEF t

LEMMA ConcatToSet ==
  ASSUME NEW S, NEW s \in Seq(S), NEW t \in Seq(S)
  PROVE  ToSet(s \o t) = ToSet(s) \cup ToSet(t)
<1> DEFINE n == Len(s)
           m == Len(t)
           u == s \o t
<1>1. n \in Nat /\ DOMAIN s = 1 .. n /\ m \in Nat /\ DOMAIN t = 1 .. m
  BY LenProperties
<1>2. /\ u \in Seq(S) /\ Len(u) = n + m
      /\ \A j \in 1 .. n + m : u[j] = IF j =< n THEN s[j] ELSE t[j - n]
  BY ConcatProperties
<1>3. DOMAIN u = 1 .. n + m
  BY <1>2, LenProperties
<1> HIDE DEF u, n, m
<1>4. ASSUME NEW j \in 1 .. n + m PROVE u[j] \in ToSet(s) \cup ToSet(t)
  <2>1. CASE j =< n
    <3>1. u[j] = s[j] /\ j \in 1 .. n
      BY <1>1, <1>2, <2>1
    <3> QED BY <1>1, <3>1 DEF ToSet
  <2>2. CASE ~(j =< n)
    <3>1. u[j] = t[j - n] /\ j - n \in 1 .. m
      BY <1>1, <1>2, <2>2
    <3> QED BY <1>1, <3>1 DEF ToSet
  <2> QED BY <2>1, <2>2
<1>5. ASSUME NEW j \in 1 .. n PROVE s[j] \in ToSet(u)
  <2>1. j \in 1 .. n + m /\ u[j] = s[j]
    BY <1>1, <1>2
  <2> QED BY <1>3, <2>1 DEF ToSet
<1>6. ASSUME NEW j \in 1 .. m PROVE t[j] \in ToSet(u)
  <2>1. j + n \in 1 .. n + m /\ ~(j + n =< n) /\ (j + n) - n = j
    BY <1>1
  <2>2. u[j + n] = t[j]
    BY <1>2, <2>1
  <2> QED BY <1>3, <2>1, <2>2 DEF ToSet
<1>7. \A x \in ToSet(u) : x \in ToSet(s) \cup ToSet(t)
  BY <1>3, <1>4 DEF ToSet
<1>8. \A x \in ToSet(s) \cup ToSet(t) : x \in ToSet(u)
  BY <1>1, <1>5, <1>6 DEF ToSet
<1> QED BY <1>7, <1>8 DEF u

-----------------------------------------------------------------------------
(* The concatenation of a sequence of sequences.  FlattenSeq is defined by *)
(* a recursive function; it exists and is unique by induction, and a       *)
(* longer sequence is joined the same way up to its last element.          *)
Joins(f, ss) == f = [i \in 1 .. Len(ss) |-> IF i = 1 THEN ss[i] ELSE f[i-1] \o ss[i]]

LEMMA JoinsExists ==
  ASSUME NEW S, NEW ss \in Seq(Seq(S))
  PROVE  \E f : Joins(f, ss)
<1> DEFINE Upto(f, n) == f = [i \in 1 .. n |-> IF i = 1 THEN ss[i] ELSE f[i-1] \o ss[i]]
           T == {n \in 0 .. Len(ss) : \A f : ~ Upto(f, n)}
<1>1. Len(ss) \in Nat
  BY LenProperties
<1> HIDE DEF Upto
<1>2. T \in SUBSET Nat
  BY <1>1
<1>3. SUFFICES T = {}
  <2>1. PICK f : Upto(f, Len(ss))
    BY <1>1, <1>3
  <2> QED BY <2>1 DEF Joins, Upto
<1>4. SUFFICES ASSUME T # {} PROVE FALSE
  OBVIOUS
<1>5. PICK m \in T : \A k \in T : m =< k
  <2> HIDE DEF T
  <2> QED BY <1>2, <1>4, LeastElement
<1>6. m \in 0 .. Len(ss) /\ \A f : ~ Upto(f, m)
  OBVIOUS
<1>7. m # 0
  <2> DEFINE f == [i \in 1 .. 0 |-> 0]
  <2>1. f = [i \in 1 .. 0 |-> IF i = 1 THEN ss[i] ELSE f[i-1] \o ss[i]]
    OBVIOUS
  <2>2. Upto(f, 0)
    BY <2>1 DEF Upto
  <2> QED BY <1>6, <2>2
<1>8. m-1 \in 0 .. Len(ss) /\ ~(m =< m-1)
  BY <1>1, <1>6, <1>7
<1>9. PICK f : Upto(f, m-1)
  <2>1. m-1 \notin T
    <3> HIDE DEF T
    <3> QED BY <1>5, <1>8
  <2> QED BY <1>8, <2>1
<1> DEFINE g == [i \in 1 .. m |-> IF i < m THEN f[i] ELSE IF i = 1 THEN ss[i] ELSE f[i-1] \o ss[i]]
<1>10. ASSUME NEW i \in 1 .. m
      PROVE  g[i] = IF i = 1 THEN ss[i] ELSE g[i-1] \o ss[i]
  <2>1. CASE i < m
    <3>1. i \in 1 .. m-1 /\ g[i] = f[i]
      BY <1>6, <2>1
    <3>2. f[i] = IF i = 1 THEN ss[i] ELSE f[i-1] \o ss[i]
      BY <1>9, <3>1 DEF Upto
    <3>3. i # 1 => g[i-1] = f[i-1]
      <4> SUFFICES ASSUME i # 1 PROVE g[i-1] = f[i-1] OBVIOUS
      <4>1. i-1 \in 1 .. m /\ i-1 < m
        BY <1>6, <2>1
      <4> QED BY <4>1
    <3> HIDE DEF g
    <3> QED BY <3>1, <3>2, <3>3
  <2>2. CASE i = m
    <3>1. g[i] = IF i = 1 THEN ss[i] ELSE f[i-1] \o ss[i]
      BY <1>6, <2>2
    <3>2. i # 1 => g[i-1] = f[i-1]
      <4> SUFFICES ASSUME i # 1 PROVE g[i-1] = f[i-1] OBVIOUS
      <4>1. i-1 \in 1 .. m /\ i-1 < m
        BY <1>6, <2>2
      <4> QED BY <4>1
    <3> HIDE DEF g
    <3> QED BY <3>1, <3>2
  <2> QED BY <1>6, <2>1, <2>2
<1>11. g = [i \in 1 .. m |-> g[i]]
  OBVIOUS
<1> HIDE DEF g
<1>12. Upto(g, m)
  BY <1>10, <1>11 DEF Upto
<1> QED BY <1>6, <1>12

LEMMA JoinsAgree ==
  ASSUME NEW S, NEW ss \in Seq(Seq(S)), NEW tt \in Seq(Seq(S)), Len(ss) =< Len(tt),
         \A i \in 1 .. Len(ss) : ss[i] = tt[i],
         NEW f, NEW g, Joins(f, ss), Joins(g, tt)
  PROVE  \A i \in 1 .. Len(ss) : f[i] = g[i] /\ f[i] \in Seq(S)
<1> DEFINE T == {i \in 1 .. Len(ss) : ~ (f[i] = g[i] /\ f[i] \in Seq(S))}
<1>1. /\ Len(ss) \in Nat /\ Len(tt) \in Nat
      /\ \A i \in 1 .. Len(ss) : ss[i] \in Seq(S)
  BY LenProperties, ElementOfSeq
<1>2. SUFFICES ASSUME T # {} PROVE FALSE
  OBVIOUS
<1>3. PICK m \in T : \A k \in T : m =< k
  <2>1. T \in SUBSET Nat
    BY <1>1
  <2> HIDE DEF T
  <2> QED BY <1>2, <2>1, LeastElement
<1>4. m \in 1 .. Len(ss) /\ m \in 1 .. Len(tt) /\ ss[m] = tt[m] /\ ss[m] \in Seq(S)
  BY <1>1, <1>3
<1>5. /\ f[m] = IF m = 1 THEN ss[m] ELSE f[m-1] \o ss[m]
      /\ g[m] = IF m = 1 THEN tt[m] ELSE g[m-1] \o tt[m]
  BY <1>4 DEF Joins
<1>6. CASE m = 1
  BY <1>3, <1>4, <1>5, <1>6
<1>7. CASE m # 1
  <2>1. m-1 \in 1 .. Len(ss) /\ m-1 \notin T
    BY <1>1, <1>3, <1>4, <1>7
  <2>2. f[m-1] = g[m-1] /\ f[m-1] \in Seq(S)
    BY <2>1
  <2>3. f[m-1] \o ss[m] \in Seq(S)
    BY <1>4, <2>2, ConcatProperties
  <2> QED BY <1>3, <1>4, <1>5, <1>7, <2>2, <2>3
<1> QED BY <1>6, <1>7

LEMMA FlattenIsSeq ==
  ASSUME NEW S, NEW ss \in Seq(Seq(S))
  PROVE  FlattenSeq(ss) \in Seq(S)
<1>1. CASE Len(ss) = 0
  <2>1. ss = <<>>
    BY <1>1, EmptySeq
  <2> QED BY <1>1, <2>1 DEF FlattenSeq
<1>2. CASE Len(ss) # 0
  <2> DEFINE f == CHOOSE h : Joins(h, ss)
  <2>1. FlattenSeq(ss) = f[Len(ss)]
    BY <1>2 DEF FlattenSeq, Joins
  <2>2. Joins(f, ss)
    BY JoinsExists
  <2> HIDE DEF f
  <2>3. Len(ss) \in 1 .. Len(ss) /\ Len(ss) =< Len(ss)
    BY <1>2, LenProperties
  <2>4. \A i \in 1 .. Len(ss) : f[i] \in Seq(S)
    BY <2>2, <2>3, JoinsAgree
  <2> QED BY <2>1, <2>3, <2>4
<1> QED BY <1>1, <1>2

LEMMA FlattenAppend ==
  ASSUME NEW S, NEW ss \in Seq(Seq(S)), NEW s \in Seq(S)
  PROVE  FlattenSeq(Append(ss, s)) = FlattenSeq(ss) \o s
<1> DEFINE tt == Append(ss, s)
           n  == Len(ss)
           f  == CHOOSE h : Joins(h, ss)
           g  == CHOOSE h : Joins(h, tt)
<1>1. /\ n \in Nat /\ tt \in Seq(Seq(S)) /\ Len(tt) = n + 1
      /\ \A i \in 1 .. n : tt[i] = ss[i]
      /\ tt[n + 1] = s
  BY AppendProperties, LenProperties
<1>2. FlattenSeq(tt) = g[n + 1]
  <2>1. Len(tt) # 0
    BY <1>1
  <2>2. FlattenSeq(tt) = g[Len(tt)]
    <3> HIDE DEF tt
    <3> QED BY <2>1 DEF FlattenSeq, Joins
  <2> QED BY <1>1, <2>2
<1>3. n # 0 => FlattenSeq(ss) = f[n]
  BY DEF FlattenSeq, Joins
<1>4. Joins(f, ss) /\ Joins(g, tt)
  <2> HIDE DEF tt
  <2> QED BY <1>1, JoinsExists
<1> HIDE DEF tt, f, g
<1>5. g[n + 1] = IF n + 1 = 1 THEN s ELSE g[(n + 1) - 1] \o s
  <2>1. n + 1 \in 1 .. Len(tt)
    BY <1>1
  <2> QED BY <1>1, <1>4, <2>1 DEF Joins
<1>6. CASE n = 0
  <2>1. ss = <<>>
    BY <1>6, EmptySeq
  <2>2. FlattenSeq(ss) = <<>>
    BY <2>1 DEF FlattenSeq
  <2>3. <<>> \o s = s
    BY ConcatEmptySeq
  <2> QED BY <1>2, <1>5, <1>6, <2>2, <2>3 DEF tt
<1>7. CASE n # 0
  <2>1. n \in 1 .. n /\ n =< Len(tt) /\ (n + 1) - 1 = n /\ n + 1 # 1
    BY <1>1, <1>7
  <2>2. \A i \in 1 .. n : f[i] = g[i]
    <3>1. /\ ss \in Seq(Seq(S)) /\ tt \in Seq(Seq(S)) /\ Len(ss) =< Len(tt)
          /\ \A i \in 1 .. Len(ss) : ss[i] = tt[i]
      BY <1>1, <2>1
    <3>2. \A i \in 1 .. Len(ss) : f[i] = g[i]
      BY <1>4, <3>1, JoinsAgree, SMTT(40)
    <3> QED BY <3>2
  <2>3. g[n] = f[n]
    BY <2>1, <2>2
  <2> QED BY <1>2, <1>3, <1>5, <1>7, <2>1, <2>3 DEF tt
<1> QED BY <1>6, <1>7

-----------------------------------------------------------------------------
(* The sums of the first values of a function, as a loop adds them up.     *)
AddsUp(f, h, n) == f = [i \in 0 .. n |-> IF i = 0 THEN 0 ELSE f[i-1] + h[i]]

LEMMA AddsUpExists ==
  ASSUME NEW n \in Nat, NEW h
  PROVE  \E f : AddsUp(f, h, n)
<1> DEFINE T == {k \in 0 .. n : \A f : ~ AddsUp(f, h, k)}
<1>1. T \in SUBSET Nat
  OBVIOUS
<1>2. SUFFICES ASSUME T # {} PROVE FALSE
  OBVIOUS
<1>3. PICK m \in T : \A k \in T : m =< k
  <2> HIDE DEF T
  <2> QED BY <1>1, <1>2, LeastElement
<1>4. m \in 0 .. n /\ \A f : ~ AddsUp(f, h, m)
  OBVIOUS
<1>5. m # 0
  <2> DEFINE f == [i \in 0 .. 0 |-> 0]
  <2>1. f = [i \in 0 .. 0 |-> IF i = 0 THEN 0 ELSE f[i-1] + h[i]]
    OBVIOUS
  <2>2. AddsUp(f, h, 0)
    BY <2>1 DEF AddsUp
  <2> QED BY <1>4, <2>2
<1>6. m-1 \in 0 .. n /\ ~(m =< m-1)
  BY <1>4, <1>5
<1>7. PICK f : AddsUp(f, h, m-1)
  <2>1. m-1 \notin T
    <3> HIDE DEF T
    <3> QED BY <1>3, <1>6
  <2> QED BY <1>6, <2>1
<1> DEFINE g == [i \in 0 .. m |-> IF i < m THEN f[i] ELSE f[i-1] + h[i]]
<1>8. ASSUME NEW i \in 0 .. m
      PROVE  g[i] = IF i = 0 THEN 0 ELSE g[i-1] + h[i]
  <2>1. CASE i < m
    <3>1. i \in 0 .. m-1 /\ g[i] = f[i]
      BY <1>4, <2>1
    <3>2. f[i] = IF i = 0 THEN 0 ELSE f[i-1] + h[i]
      BY <1>7, <3>1 DEF AddsUp
    <3>3. i # 0 => g[i-1] = f[i-1]
      <4> SUFFICES ASSUME i # 0 PROVE g[i-1] = f[i-1] OBVIOUS
      <4>1. i-1 \in 0 .. m /\ i-1 < m
        BY <1>4, <2>1
      <4> QED BY <4>1
    <3> HIDE DEF g
    <3> QED BY <3>1, <3>2, <3>3
  <2>2. CASE i = m
    <3>1. g[i] = f[i-1] + h[i]
      BY <1>4, <2>2
    <3>2. i-1 \in 0 .. m /\ i-1 < m
      BY <1>4, <1>5, <2>2
    <3>3. g[i-1] = f[i-1]
      BY <3>2
    <3> HIDE DEF g
    <3> QED BY <1>5, <2>2, <3>1, <3>3
  <2> QED BY <1>4, <2>1, <2>2
<1>9. g = [i \in 0 .. m |-> g[i]]
  OBVIOUS
<1> HIDE DEF g
<1>10. AddsUp(g, h, m)
  BY <1>8, <1>9 DEF AddsUp
<1> QED BY <1>4, <1>10

LEMMA AddsUpAgree ==
  ASSUME NEW n \in Nat, NEW m \in Nat, n =< m, NEW h, NEW k,
         \A i \in 1 .. n : h[i] = k[i] /\ h[i] \in Nat,
         NEW f, NEW g, AddsUp(f, h, n), AddsUp(g, k, m)
  PROVE  \A i \in 0 .. n : f[i] = g[i] /\ f[i] \in Nat
<1> DEFINE T == {i \in 0 .. n : ~ (f[i] = g[i] /\ f[i] \in Nat)}
<1>1. SUFFICES ASSUME T # {} PROVE FALSE
  OBVIOUS
<1>2. PICK j \in T : \A i \in T : j =< i
  <2>1. T \in SUBSET Nat
    OBVIOUS
  <2> HIDE DEF T
  <2> QED BY <1>1, <2>1, LeastElement
<1>3. j \in 0 .. n /\ j \in 0 .. m
  BY <1>2
<1>4. /\ f[j] = IF j = 0 THEN 0 ELSE f[j-1] + h[j]
      /\ g[j] = IF j = 0 THEN 0 ELSE g[j-1] + k[j]
  BY <1>3 DEF AddsUp
<1>5. CASE j = 0
  BY <1>2, <1>4, <1>5
<1>6. CASE j # 0
  <2>1. j-1 \in 0 .. n /\ j-1 \notin T /\ j \in 1 .. n
    BY <1>2, <1>3, <1>6
  <2>2. f[j-1] = g[j-1] /\ f[j-1] \in Nat
    BY <2>1
  <2>3. f[j-1] + h[j] \in Nat /\ h[j] = k[j]
    BY <2>1, <2>2
  <2> QED BY <1>2, <1>4, <1>6, <2>2, <2>3
<1> QED BY <1>5, <1>6

LEMMA TotalIs ==
  ASSUME NEW h, Len(h) \in Nat
  PROVE  \E f : AddsUp(f, h, Len(h)) /\ Total(h) = f[Len(h)]
<1> DEFINE n == Len(h)
           g == CHOOSE f : AddsUp(f, h, n)
<1>1. Total(h) = g[n]
  BY DEF Total, AddsUp
<1> HIDE DEF n
<1>2. \E f : AddsUp(f, h, n)
  BY AddsUpExists DEF n
<1>3. AddsUp(g, h, n)
  <2> HIDE DEF AddsUp
  <2> QED BY <1>2
<1> HIDE DEF g
<1> QED BY <1>1, <1>3 DEF n

(* The sum of no numbers, and of one number more.                          *)
LEMMA TotalEmpty ==
  ASSUME NEW h, Len(h) = 0
  PROVE  Total(h) = 0
<1>1. PICK f : AddsUp(f, h, 0) /\ Total(h) = f[0]
  BY TotalIs
<1> QED BY <1>1 DEF AddsUp

LEMMA TotalNext ==
  ASSUME NEW h \in Seq(Nat), NEW k \in Seq(Nat), Len(k) = Len(h) + 1,
         \A i \in 1 .. Len(h) : k[i] = h[i]
  PROVE  Total(k) = Total(h) + k[Len(k)] /\ Total(h) \in Nat /\ Total(k) \in Nat
<1> DEFINE n == Len(h)
           m == Len(k)
<1>1. n \in Nat /\ m \in Nat /\ m = n + 1 /\ n =< m /\ m \in 0 .. m /\ m # 0 /\ m - 1 = n
      /\ m \in 1 .. m
  BY LenProperties
<1>2. (\A i \in 1 .. n : h[i] = k[i] /\ h[i] \in Nat) /\ k[m] \in Nat
  BY <1>1, ElementOfSeq
<1>3. PICK f : AddsUp(f, h, n) /\ Total(h) = f[n]
  BY <1>1, TotalIs
<1>4. PICK g : AddsUp(g, k, m) /\ Total(k) = g[m]
  BY <1>1, TotalIs
<1> HIDE DEF n, m
<1>5. \A i \in 0 .. n : f[i] = g[i] /\ f[i] \in Nat
  BY <1>1, <1>2, <1>3, <1>4, AddsUpAgree
<1>6. f[n] = g[n] /\ f[n] \in Nat
  BY <1>1, <1>5
<1>7. g[m] = g[m-1] + k[m]
  BY <1>1, <1>4 DEF AddsUp
<1> QED BY <1>1, <1>2, <1>3, <1>4, <1>6, <1>7 DEF m

-----------------------------------------------------------------------------
(* Parts of a sequence of sequences, and what they join to.                *)

LEMMA FlattenFew ==
  ASSUME NEW S, NEW a \in Seq(S), NEW b \in Seq(S)
  PROVE  /\ FlattenSeq(<<>>) = <<>>
         /\ FlattenSeq(<<a>>) = a
         /\ FlattenSeq(<<a, b>>) = a \o b
<1>1. FlattenSeq(<<>>) = <<>>
  BY DEF FlattenSeq
<1>2. <<>> \in Seq(Seq(S)) /\ <<a>> \in Seq(Seq(S))
  OBVIOUS
<1>3. Append(<<>>, a) = <<a>> /\ Append(<<a>>, b) = <<a, b>>
  <2>1. /\ Append(<<>>, a) \in Seq(Seq(S)) /\ Len(Append(<<>>, a)) = 1 /\ Append(<<>>, a)[1] = a
        /\ <<a>> \in Seq(Seq(S)) /\ Len(<<a>>) = 1 /\ <<a>>[1] = a
    BY <1>2, AppendProperties
  <2>2. /\ Append(<<a>>, b) \in Seq(Seq(S)) /\ Len(Append(<<a>>, b)) = 2
        /\ Append(<<a>>, b)[1] = a /\ Append(<<a>>, b)[2] = b
    BY <1>2, AppendProperties
  <2>3. <<a, b>> \in Seq(Seq(S)) /\ Len(<<a, b>>) = 2 /\ <<a, b>>[1] = a /\ <<a, b>>[2] = b
    OBVIOUS
  <2>4. Append(<<>>, a) = <<a>>
    BY <2>1, SeqEqual
  <2>5. \A i \in 1 .. 2 : Append(<<a>>, b)[i] = <<a, b>>[i]
    BY <2>2, <2>3
  <2>6. Append(<<a>>, b) = <<a, b>>
    BY <2>2, <2>3, <2>5, SeqEqual
  <2> QED BY <2>4, <2>6
<1>4. FlattenSeq(Append(<<>>, a)) = FlattenSeq(<<>>) \o a
  BY <1>2, FlattenAppend
<1>5. FlattenSeq(<<a>>) = a
  <2>1. <<>> \o a = a
    BY ConcatEmptySeq
  <2> QED BY <1>1, <1>3, <1>4, <2>1
<1>6. FlattenSeq(Append(<<a>>, b)) = FlattenSeq(<<a>>) \o b
  BY <1>2, FlattenAppend
<1> QED BY <1>1, <1>3, <1>5, <1>6

LEMMA FirstParts ==
  ASSUME NEW S, NEW ss \in Seq(S), NEW n \in 0 .. Len(ss)
  PROVE  /\ SubSeq(ss, 1, n) \in Seq(S) /\ Len(SubSeq(ss, 1, n)) = n
         /\ \A i \in 1 .. n : SubSeq(ss, 1, n)[i] = ss[i]
         /\ n = Len(ss) => SubSeq(ss, 1, n) = ss
         /\ n > 0 => SubSeq(ss, 1, n) = Append(SubSeq(ss, 1, n-1), ss[n])
<1>1. Len(ss) \in Nat /\ \A i \in 1 .. Len(ss) : ss[i] \in S
  BY LenProperties, ElementOfSeq
<1>2. ASSUME NEW m \in 0 .. Len(ss)
      PROVE  /\ SubSeq(ss, 1, m) \in Seq(S) /\ Len(SubSeq(ss, 1, m)) = m
             /\ \A i \in 1 .. m : SubSeq(ss, 1, m)[i] = ss[i]
  <2>1. m+1 \in 1 .. Len(ss) + 1 /\ (m+1) - 1 = m
    BY <1>1
  <2> QED BY <2>1, FrontProperties
<1>3. n = Len(ss) => SubSeq(ss, 1, n) = ss
  BY <1>1, <1>2, SeqEqual
<1>4. ASSUME n > 0 PROVE SubSeq(ss, 1, n) = Append(SubSeq(ss, 1, n-1), ss[n])
  <2> DEFINE p == SubSeq(ss, 1, n-1)
             q == SubSeq(ss, 1, n)
             r == Append(p, ss[n])
  <2>1. n-1 \in 0 .. Len(ss) /\ n \in 1 .. Len(ss) /\ ss[n] \in S
    BY <1>1, <1>4
  <2>2. p \in Seq(S) /\ Len(p) = n-1 /\ \A i \in 1 .. n-1 : p[i] = ss[i]
    BY <1>2, <2>1
  <2>3. q \in Seq(S) /\ Len(q) = n /\ \A i \in 1 .. n : q[i] = ss[i]
    BY <1>2
  <2> HIDE DEF p, q
  <2>4. r \in Seq(S) /\ Len(r) = n /\ r[n] = ss[n] /\ \A i \in 1 .. n-1 : r[i] = ss[i]
    BY <1>1, <2>1, <2>2, AppendProperties
  <2>5. \A i \in 1 .. n : q[i] = r[i]
    <3> HIDE DEF r
    <3>1. \A i \in 1 .. n : i = n \/ i \in 1 .. n-1
      BY <2>1
    <3> QED BY <2>3, <2>4, <3>1
  <2>6. q = r
    <3> HIDE DEF r
    <3> QED BY <2>3, <2>4, <2>5, SeqEqual
  <2> QED BY <2>6 DEF p, q
<1> QED BY <1>2, <1>3, <1>4

(* Pieces of one length and one value join to a longer one.                *)
Copies(v, w) == [k \in 1 .. w |-> v]

LEMMA CopiesJoin ==
  ASSUME NEW S, NEW v \in S, NEW m \in Nat, NEW w \in Nat
  PROVE  Copies(v, w) \in Seq(S) /\ Copies(v, m) \o Copies(v, w) = Copies(v, m + w)
<1>1. ASSUME NEW n \in Nat
      PROVE  Copies(v, n) \in Seq(S) /\ Len(Copies(v, n)) = n /\ \A i \in 1 .. n : Copies(v, n)[i] = v
  BY DEF Copies
<1> DEFINE a == Copies(v, m)
           b == Copies(v, w)
           c == Copies(v, m + w)
<1>2. m + w \in Nat
  OBVIOUS
<1>3. /\ a \in Seq(S) /\ Len(a) = m /\ (\A i \in 1 .. m : a[i] = v)
      /\ b \in Seq(S) /\ Len(b) = w /\ (\A i \in 1 .. w : b[i] = v)
      /\ c \in Seq(S) /\ Len(c) = m + w /\ (\A i \in 1 .. m + w : c[i] = v)
  BY <1>1, <1>2
<1> HIDE DEF a, b, c
<1>4. /\ a \o b \in Seq(S) /\ Len(a \o b) = Len(a) + Len(b)
      /\ \A i \in 1 .. Len(a) + Len(b) : (a \o b)[i] = IF i =< Len(a) THEN a[i] ELSE b[i - Len(a)]
  BY <1>3, ConcatProperties
<1>5. \A i \in 1 .. m + w : (a \o b)[i] = c[i]
  <2> SUFFICES ASSUME NEW i \in 1 .. m + w PROVE (a \o b)[i] = c[i]
    OBVIOUS
  <2>1. (a \o b)[i] = IF i =< m THEN a[i] ELSE b[i - m]
    BY <1>3, <1>4
  <2>2. i =< m \/ i - m \in 1 .. w
    OBVIOUS
  <2> QED BY <1>3, <2>1, <2>2
<1>6. Len(a \o b) = Len(c)
  BY <1>3, <1>4
<1>7. a \o b = c
  BY <1>3, <1>4, <1>5, <1>6, SeqEqual
<1> QED BY <1>3, <1>7 DEF a, b, c

LEMMA FlattenUniform ==
  ASSUME NEW S, NEW v \in S, NEW w \in Nat, NEW ss \in Seq(Seq(S)),
         \A i \in 1 .. Len(ss) : ss[i] = Copies(v, w)
  PROVE  FlattenSeq(ss) = Copies(v, Len(ss) * w)
<1> DEFINE Good(n) == FlattenSeq(SubSeq(ss, 1, n)) = Copies(v, n * w)
           T == {n \in 0 .. Len(ss) : ~ Good(n)}
<1>1. Len(ss) \in Nat /\ \A i \in 1 .. Len(ss) : ss[i] \in Seq(S)
  BY LenProperties, ElementOfSeq
<1>2. Good(0)
  <2>1. SubSeq(ss, 1, 0) = <<>>
    <3>1. 0 \in 0 .. Len(ss)
      BY <1>1
    <3> QED BY <3>1, FirstParts, EmptySeq
  <2>2. 0 * w = 0 /\ 1 .. 0 = {}
    OBVIOUS
  <2>3. <<>> = Copies(v, 0)
    BY DEF Copies
  <2>4. FlattenSeq(<<>>) = <<>>
    BY DEF FlattenSeq
  <2> QED BY <2>1, <2>2, <2>3, <2>4
<1>3. ASSUME NEW n \in 1 .. Len(ss), Good(n-1) PROVE Good(n)
  <2> DEFINE p == SubSeq(ss, 1, n-1)
             m == (n-1) * w
  <2>1. n-1 \in 0 .. Len(ss) /\ n \in 0 .. Len(ss) /\ n > 0
    BY <1>1
  <2>2. p \in Seq(Seq(S)) /\ SubSeq(ss, 1, n) = Append(p, ss[n])
    BY <2>1, FirstParts
  <2>3. FlattenSeq(Append(p, ss[n])) = FlattenSeq(p) \o ss[n]
    BY <1>1, <2>2, FlattenAppend
  <2>4. m \in Nat /\ n * w = m + w
    BY <2>1
  <2> HIDE DEF m, p
  <2>5. Copies(v, m) \o Copies(v, w) = Copies(v, m + w)
    BY <2>4, CopiesJoin
  <2> QED BY <1>3, <2>2, <2>3, <2>4, <2>5 DEF m, p
<1> HIDE DEF Good
<1>4. T = {}
  <2> SUFFICES ASSUME T # {} PROVE FALSE
    OBVIOUS
  <2>1. PICK m \in T : \A k \in T : m =< k
    <3>1. T \in SUBSET Nat
      BY <1>1
    <3> HIDE DEF T
    <3> QED BY <3>1, LeastElement
  <2>2. m # 0 /\ m \in 1 .. Len(ss) /\ m-1 \in 0 .. Len(ss) /\ ~(m =< m-1)
    BY <1>1, <1>2
  <2>3. m-1 \notin T
    <3> HIDE DEF T
    <3> QED BY <2>1, <2>2
  <2> QED BY <1>3, <2>1, <2>2, <2>3
<1>5. Good(Len(ss)) /\ SubSeq(ss, 1, Len(ss)) = ss
  <2>1. Len(ss) \in 0 .. Len(ss)
    BY <1>1
  <2> QED BY <1>4, <2>1, FirstParts
<1> QED BY <1>5 DEF Good

LEMMA FlattenCopies ==
  ASSUME NEW S, NEW v \in S, NEW w \in Nat, NEW n \in Nat, NEW ss \in [1 .. n -> {Copies(v, w)}]
  PROVE  ss \in Seq(Seq(S)) /\ FlattenSeq(ss) = Copies(v, n * w)
<1>1. Copies(v, w) \in Seq(S)
  BY CopiesJoin
<1>2. ss \in [1 .. n -> Seq(S)] /\ \A i \in 1 .. n : ss[i] = Copies(v, w)
  BY <1>1
<1>3. ss \in Seq(Seq(S)) /\ Len(ss) = n
  BY <1>2, SeqDef, LenProperties
<1>4. FlattenSeq(ss) = Copies(v, Len(ss) * w)
  BY <1>2, <1>3, FlattenUniform
<1> QED BY <1>3, <1>4
=============================================================================
