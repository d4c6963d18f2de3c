----------------------------- MODULE ListLemmas -----------------------------
(***************************************************************************)
(* Facts about numbers and sequences that the proofs share.                *)
(***************************************************************************)
EXTENDS Naturals, Sequences, SequencesExt, Selection, SequenceTheorems,
        FiniteSetTheorems, WellFoundedInduction, TLAPS

(* A set of numbers has a least one.                                       *)
LEMMA Least ==
  ASSUME NEW S \in SUBSET Nat, S # {}
  PROVE  \E n \in S : \A m \in S : n <= m
  <1>1. PICK x \in S : \A y \in S : ~(<<y, x>> \in OpToRel(<, Nat))
    BY WFMin, NatLessThanWellFounded, Zenon
  <1>2. \A x1, y1 \in Nat : x1 < y1 => <<x1, y1>> \in OpToRel(<, Nat)
    BY Zenon DEF OpToRel
  <1>3. \A y \in S : ~(y < x)
    BY <1>1, <1>2, Zenon
  <1> QED
    BY <1>3

(* What is left of a sequence without one of its elements.                 *)
LEMMA OneLess ==
  ASSUME NEW S, NEW s \in Seq(S), NEW k \in 1..Len(s)
  PROVE  /\ RemoveAt(s, k) \in Seq(S) /\ Len(RemoveAt(s, k)) = Len(s) - 1
         /\ \A i \in 1..Len(RemoveAt(s, k)) : \E h \in 1..Len(s) : RemoveAt(s, k)[i] = s[h]
  <1> DEFINE front == SubSeq(s, 1, k - 1)
             back  == SubSeq(s, k + 1, Len(s))
  <1>1. Len(s) \in Nat /\ k \in 1..Len(s) /\ \A i \in 1..Len(s) : s[i] \in S
    OBVIOUS
  <1>2. front \in Seq(S) /\ Len(front) = k - 1 /\ \A i \in 1..(k - 1) : front[i] = s[i]
    BY <1>1, SubSeqProperties
  <1>3. /\ back \in Seq(S) /\ Len(back) = Len(s) - k
        /\ \A i \in 1..(Len(s) - k) : back[i] = s[k + i]
    BY <1>1, SubSeqProperties
  <1> HIDE DEF front, back
  <1>4. /\ front \o back \in Seq(S)
        /\ Len(front \o back) = Len(front) + Len(back)
        /\ \A i \in 1..(Len(front) + Len(back)) :
             (front \o back)[i] = IF i <= Len(front) THEN front[i] ELSE back[i - Len(front)]
    BY <1>2, <1>3, ConcatProperties, Zenon
  <1>5. Len(front) = k - 1 /\ Len(front) + Len(back) = Len(s) - 1
    BY <1>1, <1>2, <1>3
  <1>6. /\ front \o back \in Seq(S) /\ Len(front \o back) = Len(s) - 1
        /\ \A i \in 1..(Len(s) - 1) :
             (front \o back)[i] = IF i <= k - 1 THEN front[i] ELSE back[i - (k - 1)]
    BY <1>4, <1>5, Zenon
  <1>7. ASSUME NEW i \in 1..(Len(s) - 1)
        PROVE  \E h \in 1..Len(s) : (front \o back)[i] = s[h]
    <2>1. CASE i <= k - 1
      <3>1. i \in 1..Len(s) /\ (front \o back)[i] = s[i]
        BY <1>1, <1>2, <1>6, <2>1
      <3> QED
        BY <3>1
    <2>2. CASE i > k - 1
      <3>1. i + 1 \in 1..Len(s) /\ (front \o back)[i] = s[i + 1]
        BY <1>1, <1>3, <1>6, <2>2
      <3> QED
        BY <3>1
    <2>3. i <= k - 1 \/ i > k - 1
      BY <1>1
    <2> QED
      BY <2>1, <2>2, <2>3, Zenon
  <1>8. RemoveAt(s, k) = front \o back
    BY DEF RemoveAt, front, back
  <1> QED
    BY <1>6, <1>7, <1>8

(* A sequence has no more different elements than elements.                *)
LEMMA ToSetIsFinite ==
  ASSUME NEW S, NEW s \in Seq(S)
  PROVE  /\ ToSet(s) \subseteq S
         /\ IsFiniteSet(ToSet(s)) /\ Cardinality(ToSet(s)) <= Len(s)
  <1>1. Len(s) \in Nat /\ DOMAIN s = 1..Len(s) /\ s \in [1..Len(s) -> S]
    OBVIOUS
  <1>2. s \in Surjection(1..Len(s), ToSet(s))
    BY <1>1 DEF Surjection, ToSet
  <1>3. IsFiniteSet(1..Len(s)) /\ Cardinality(1..Len(s)) = Len(s)
    BY <1>1, FS_Interval
  <1> QED
    BY <1>1, <1>2, <1>3, FS_Surjection DEF ToSet

(* A sequence is its head and the rest.                                    *)
LEMMA HeadAndTail ==
  ASSUME NEW S, NEW s \in Seq(S), s # << >>
  PROVE  /\ Head(s) \in S /\ Tail(s) \in Seq(S)
         /\ ToSet(s) = {Head(s)} \cup ToSet(Tail(s))
  <1>1. /\ Len(s) \in Nat \ {0} /\ Tail(s) \in Seq(S) /\ Len(Tail(s)) = Len(s) - 1
        /\ Head(s) = s[1] /\ \A i \in 1..(Len(s) - 1) : Tail(s)[i] = s[i + 1]
        /\ s[1] \in S
    OBVIOUS
  <1>2. ASSUME NEW x \in ToSet(s) PROVE x \in {Head(s)} \cup ToSet(Tail(s))
    <2>1. PICK i \in 1..Len(s) : x = s[i]
      BY DEF ToSet
    <2>2. CASE i = 1
      BY <1>1, <2>1, <2>2
    <2>3. CASE i # 1
      <3>1. i - 1 \in 1..Len(Tail(s)) /\ Tail(s)[i - 1] = x
        BY <1>1, <2>1, <2>3
      <3>2. DOMAIN Tail(s) = 1..Len(Tail(s))
        BY <1>1
      <3> QED
        BY <3>1, <3>2 DEF ToSet
    <2> QED
      BY <2>2, <2>3
  <1>3. ASSUME NEW x \in ToSet(Tail(s)) PROVE x \in ToSet(s)
    <2>1. PICK i \in 1..Len(Tail(s)) : x = Tail(s)[i]
      BY <1>1 DEF ToSet
    <2>2. i + 1 \in 1..Len(s) /\ s[i + 1] = x
      BY <1>1, <2>1
    <2> QED
      BY <2>2 DEF ToSet
  <1>4. Head(s) \in ToSet(s)
    BY <1>1 DEF ToSet
  <1> QED
    BY <1>1, <1>2, <1>3, <1>4

(* The beginning of a sequence.                                            *)
LEMMA Beginning ==
  ASSUME NEW S, NEW s \in Seq(S), NEW n \in 0..Len(s)
  PROVE  /\ SubSeq(s, 1, n) \in Seq(S) /\ Len(SubSeq(s, 1, n)) = n
         /\ \A i \in 1..n : SubSeq(s, 1, n)[i] = s[i]
         /\ ToSet(SubSeq(s, 1, n)) \subseteq ToSet(s)
  <1>1. Len(s) \in Nat /\ DOMAIN s = 1..Len(s) /\ \A i \in 1..Len(s) : s[i] \in S
    OBVIOUS
  <1>2. /\ SubSeq(s, 1, n) \in Seq(S) /\ Len(SubSeq(s, 1, n)) = n
        /\ \A i \in 1..n : SubSeq(s, 1, n)[i] = s[i]
    BY <1>1, SubSeqProperties
  <1>3. DOMAIN SubSeq(s, 1, n) = 1..n
    BY <1>2
  <1> QED
    BY <1>1, <1>2, <1>3 DEF ToSet

(* The elements of a finite set can be listed.                             *)
LEMMA SetIsListed ==
  ASSUME NEW S, IsFiniteSet(S)
  PROVE  /\ SetToSeq(S) \in Seq(S) /\ Len(SetToSeq(S)) = Cardinality(S)
         /\ IsInjective(SetToSeq(S))
  <1>1. Cardinality(S) \in Nat /\ ExistsBijection(1..Cardinality(S), S)
    BY FS_CardinalityType
  <1>2. PICK f \in [1..Cardinality(S) -> S] : IsInjective(f)
    BY <1>1 DEF ExistsBijection, Bijection, Injection, IsInjective
  <1>3. SetToSeq(S) \in [1..Cardinality(S) -> S] /\ IsInjective(SetToSeq(S))
    BY <1>2 DEF SetToSeq
  <1> QED
    BY <1>1, <1>3

(* The function that Where is defined by: there is one. *)
Filtering(f, seq, S, m) ==
  f = [n \in 0..m |-> IF n = 0 THEN << >>
        ELSE IF seq[n] \in S THEN Append(f[n - 1], seq[n]) ELSE f[n - 1]]

(* Such a function exists for every length.                                *)
LEMMA FilteringExists ==
  ASSUME NEW seq, NEW S, NEW m \in Nat
  PROVE  \E f : Filtering(f, seq, S, m)
<1> DEFINE bad == {k \in Nat : ~\E f : Filtering(f, seq, S, k)}
<1>1. SUFFICES bad = {}
  OBVIOUS
<1>2. SUFFICES ASSUME bad # {} PROVE FALSE
  OBVIOUS
<1>3. PICK n \in bad : \A k \in bad : n <= k
  BY <1>2, Least
<1>4. n # 0
  <2> DEFINE g == [k \in 0..0 |-> << >>]
  <2>1. g = [k \in 0..0 |-> IF k = 0 THEN << >>
                 ELSE IF seq[k] \in S THEN Append(g[k - 1], seq[k]) ELSE g[k - 1]]
    OBVIOUS
  <2> QED
    BY <2>1 DEF Filtering
<1>5. n - 1 \in Nat /\ n - 1 \notin bad
  BY <1>3, <1>4
<1>6. PICK f : Filtering(f, seq, S, n - 1)
  BY <1>5
<1> DEFINE last == IF seq[n] \in S THEN Append(f[n - 1], seq[n]) ELSE f[n - 1]
           g == [k \in 0..n |-> IF k = n THEN last ELSE f[k]]
<1>7. \A k \in 0..n : g[k] = IF k = 0 THEN << >>
          ELSE IF seq[k] \in S THEN Append(g[k - 1], seq[k]) ELSE g[k - 1]
  <2> TAKE k \in 0..n
  <2>1. CASE k = n
    BY <1>4, <1>5, <2>1
  <2>2. CASE k < n
    <3>1. /\ k \in 0..(n - 1) /\ g[k] = f[k]
          /\ k # 0 => k - 1 \in 0..n /\ k - 1 # n /\ g[k - 1] = f[k - 1]
      BY <2>2
    <3> HIDE DEF g, last
    <3> QED
      BY <3>1, <1>6 DEF Filtering
  <2> QED
    BY <2>1, <2>2
<1>8. Filtering(g, seq, S, n)
  <2>1. g = [k \in 0..n |-> g[k]]
    OBVIOUS
  <2> HIDE DEF g, last
  <2> QED
    BY <1>7, <2>1 DEF Filtering
<1> QED
  BY <1>3, <1>8

(* Where is the last value of such a function.                             *)
LEMMA WhereByRecursion ==
  ASSUME NEW seq, NEW S, Len(seq) \in Nat
  PROVE  \E f : Filtering(f, seq, S, Len(seq)) /\ Where(seq, S) = f[Len(seq)]
<1> DEFINE g == CHOOSE f : Filtering(f, seq, S, Len(seq))
<1>1. Filtering(g, seq, S, Len(seq))
  BY FilteringExists
<1>2. Where(seq, S) = g[Len(seq)]
  BY Zenon DEF Where, Filtering
<1> QED
  BY <1>1, <1>2

(* What is kept of a beginning.                                            *)
Filtered(t, seq, S, A, n) ==
  /\ t \in Seq(A) /\ Len(t) <= n
  /\ \A k \in 1..Len(t) : t[k] \in S /\ \E m \in 1..n : seq[m] = t[k]
  /\ \A m \in 1..n : seq[m] \in S => \E k \in 1..Len(t) : k <= m /\ t[k] = seq[m]

(* The next element is kept or left out, as it should be.                  *)
LEMMA KeptGoesOn ==
  ASSUME NEW A, NEW seq \in Seq(A), NEW S, NEW n \in 1..Len(seq), NEW t,
         Filtered(t, seq, S, A, n - 1)
  PROVE  Filtered(IF seq[n] \in S THEN Append(t, seq[n]) ELSE t, seq, S, A, n)
<1>1. /\ n \in Nat /\ n - 1 \in Nat /\ seq[n] \in A
      /\ t \in Seq(A) /\ Len(t) \in Nat /\ Len(t) <= n - 1
  BY DEF Filtered
<1>2. CASE seq[n] \notin S
  BY <1>1, <1>2 DEF Filtered
<1>3. CASE seq[n] \in S
  <2> DEFINE u == Append(t, seq[n])
  <2>1. /\ u \in Seq(A) /\ Len(u) = Len(t) + 1 /\ u[Len(t) + 1] = seq[n]
        /\ \A k \in 1..Len(t) : u[k] = t[k]
    BY <1>1
  <2> HIDE DEF u
  <2>2. \A k \in 1..Len(u) : u[k] \in S /\ \E m \in 1..n : seq[m] = u[k]
    <3> TAKE k \in 1..Len(u)
    <3>1. CASE k = Len(t) + 1
      BY <1>1, <1>3, <2>1, <3>1
    <3>2. CASE k \in 1..Len(t)
      BY <1>1, <2>1, <3>2 DEF Filtered
    <3> QED
      BY <1>1, <2>1, <3>1, <3>2
  <2>3. ASSUME NEW m \in 1..n, seq[m] \in S
        PROVE  \E k \in 1..Len(u) : k <= m /\ u[k] = seq[m]
    <3>1. CASE m = n
      <4>1. Len(t) + 1 \in 1..Len(u) /\ Len(t) + 1 <= m /\ u[Len(t) + 1] = seq[m]
        BY <1>1, <2>1, <3>1
      <4> QED
        BY <4>1
    <3>2. CASE m \in 1..(n - 1)
      <4>1. PICK k \in 1..Len(t) : k <= m /\ t[k] = seq[m]
        BY <2>3, <3>2 DEF Filtered
      <4>2. k \in 1..Len(u) /\ u[k] = seq[m]
        BY <1>1, <2>1, <4>1
      <4> QED
        BY <4>1, <4>2
    <3> QED
      BY <1>1, <3>1, <3>2
  <2> QED
    BY <1>1, <1>3, <2>1, <2>2, <2>3 DEF Filtered, u
<1> QED
  BY <1>2, <1>3

(* Where keeps the elements that lie in S, and an element is found no      *)
(* further back than it was.                                               *)
LEMMA WhereKeeps ==
  ASSUME NEW A, NEW seq \in Seq(A), NEW S
  PROVE  /\ Where(seq, S) \in Seq(A) /\ Len(Where(seq, S)) <= Len(seq)
         /\ \A k \in 1..Len(Where(seq, S)) :
              Where(seq, S)[k] \in S /\ \E m \in 1..Len(seq) : seq[m] = Where(seq, S)[k]
         /\ \A m \in 1..Len(seq) : seq[m] \in S =>
              \E k \in 1..Len(Where(seq, S)) : k <= m /\ Where(seq, S)[k] = seq[m]
<1>1. PICK f : Filtering(f, seq, S, Len(seq)) /\ Where(seq, S) = f[Len(seq)]
  BY WhereByRecursion
<1> DEFINE bad == {n \in 0..Len(seq) : ~Filtered(f[n], seq, S, A, n)}
<1>2. bad = {}
  <2> SUFFICES ASSUME bad # {} PROVE FALSE
    OBVIOUS
  <2>1. PICK n \in bad : \A k \in bad : n <= k
    <3>1. bad \in SUBSET Nat
      OBVIOUS
    <3> QED
      BY <3>1, Least
  <2>2. CASE n = 0
    <3>1. f[0] = << >>
      BY <1>1 DEF Filtering
    <3>2. /\ << >> \in Seq(A) /\ Len(<< >>) <= 0 /\ 1..0 = {}
          /\ 1..Len(<< >>) = {}
      OBVIOUS
    <3>3. Filtered(<< >>, seq, S, A, 0)
      BY <3>2, Zenon DEF Filtered
    <3> QED
      BY <2>1, <2>2, <3>1, <3>3
  <2>3. CASE n # 0
    <3>1. n \in 1..Len(seq) /\ n - 1 \in 0..Len(seq) /\ n - 1 \notin bad
      BY <2>1, <2>3
    <3>2. Filtered(f[n - 1], seq, S, A, n - 1)
      BY <3>1
    <3>3. f[n] = IF seq[n] \in S THEN Append(f[n - 1], seq[n]) ELSE f[n - 1]
      BY <1>1, <2>3, <3>1 DEF Filtering
    <3>4. Filtered(f[n], seq, S, A, n)
      BY <3>1, <3>2, <3>3, KeptGoesOn
    <3> QED
      BY <2>1, <3>4
  <2> QED
    BY <2>2, <2>3
<1>3. Filtered(Where(seq, S), seq, S, A, Len(seq))
  BY <1>1, <1>2
<1> QED
  BY <1>3 DEF Filtered

(* The elements kept and those left out make up a beginning, and go on     *)
(* doing so with the next element.                                         *)
Split(s, t, A, n) == s \in Seq(A) /\ t \in Seq(A) /\ Len(s) + Len(t) = n

(* One more element goes to one of the two sides.                          *)
LEMMA SplitGoesOn ==
  ASSUME NEW A, NEW S, NEW e \in A, NEW s, NEW t, NEW n \in Nat, Split(s, t, A, n - 1)
  PROVE  Split(IF e \in S THEN Append(s, e) ELSE s, IF e \in A \ S THEN Append(t, e) ELSE t,
               A, n)
<1>1. s \in Seq(A) /\ t \in Seq(A) /\ Len(s) \in Nat /\ Len(t) \in Nat /\ Len(s) + Len(t) = n - 1
  BY DEF Split
<1>2. CASE e \in S
  BY <1>1, <1>2 DEF Split
<1>3. CASE e \notin S
  BY <1>1, <1>3 DEF Split
<1> QED
  BY <1>2, <1>3

(* What a filter keeps and what its complement keeps are all.              *)
LEMMA WhereSplits ==
  ASSUME NEW A, NEW seq \in Seq(A), NEW S
  PROVE  Len(Where(seq, S)) + Len(Where(seq, A \ S)) = Len(seq)
<1>1. PICK f : Filtering(f, seq, S, Len(seq)) /\ Where(seq, S) = f[Len(seq)]
  BY WhereByRecursion
<1>2. PICK g : Filtering(g, seq, A \ S, Len(seq)) /\ Where(seq, A \ S) = g[Len(seq)]
  BY WhereByRecursion
<1> DEFINE bad == {n \in 0..Len(seq) : ~Split(f[n], g[n], A, n)}
<1>3. bad = {}
  <2> SUFFICES ASSUME bad # {} PROVE FALSE
    OBVIOUS
  <2>1. PICK n \in bad : \A k \in bad : n <= k
    <3>1. bad \in SUBSET Nat
      OBVIOUS
    <3> QED
      BY <3>1, Least
  <2>2. CASE n = 0
    <3>1. f[0] = << >> /\ g[0] = << >>
      BY <1>1, <1>2 DEF Filtering
    <3>2. Split(<< >>, << >>, A, 0)
      BY DEF Split
    <3> QED
      BY <2>1, <2>2, <3>1, <3>2
  <2>3. CASE n # 0
    <3>1. n \in 1..Len(seq) /\ n - 1 \in 0..Len(seq) /\ n - 1 \notin bad /\ seq[n] \in A
      BY <2>1, <2>3
    <3>2. Split(f[n - 1], g[n - 1], A, n - 1)
      BY <3>1
    <3>3. /\ f[n] = IF seq[n] \in S THEN Append(f[n - 1], seq[n]) ELSE f[n - 1]
          /\ g[n] = IF seq[n] \in A \ S THEN Append(g[n - 1], seq[n]) ELSE g[n - 1]
      BY <1>1, <1>2, <2>3, <3>1 DEF Filtering
    <3>4. Split(f[n], g[n], A, n)
      BY <3>1, <3>2, <3>3, SplitGoesOn
    <3> QED
      BY <2>1, <3>4
  <2> QED
    BY <2>2, <2>3
<1>4. Split(f[Len(seq)], g[Len(seq)], A, Len(seq))
  <2>1. Len(seq) \in 0..Len(seq)
    OBVIOUS
  <2> QED
    BY <1>3, <2>1
<1> QED
  BY <1>1, <1>2, <1>4 DEF Split

(* An element inserted behind the last one is appended.                    *)
LEMMA InsertedLast ==
  ASSUME NEW A, NEW seq \in Seq(A), NEW e \in A
  PROVE  InsertAt(seq, Len(seq) + 1, e) = Append(seq, e)
<1>1. Len(seq) \in Nat
  OBVIOUS
<1>2. SubSeq(seq, 1, Len(seq) + 1 - 1) = seq
  BY <1>1
<1>3. SubSeq(seq, Len(seq) + 1, Len(seq)) = << >>
  BY <1>1
<1>4. (seq \o <<e>>) \o << >> = Append(seq, e)
  OBVIOUS
<1> DEFINE i == Len(seq) + 1
<1>5. /\ SubSeq(seq, 1, i - 1) = seq /\ SubSeq(seq, i, Len(seq)) = << >>
  BY <1>2, <1>3
<1> HIDE DEF i
<1>6. InsertAt(seq, i, e) = SubSeq(seq, 1, i - 1) \o <<e>> \o SubSeq(seq, i, Len(seq))
  BY DEF InsertAt
<1>7. InsertAt(seq, i, e) = Append(seq, e)
  BY <1>4, <1>5, <1>6
<1> QED
  BY <1>7 DEF i

(* Of nothing, nothing is kept.                                            *)
LEMMA WhereOfNone == ASSUME NEW S PROVE Where(<< >>, S) = << >>
<1>1. Len(<< >>) = 0
  OBVIOUS
<1>2. PICK h : Filtering(h, << >>, S, 0) /\ Where(<< >>, S) = h[0]
  BY <1>1, WhereByRecursion
<1> QED
  BY <1>2 DEF Filtering

(* Filtering goes on where it was: an element more is kept behind the      *)
(* others, or not.                                                         *)
LEMMA WhereAppended ==
  ASSUME NEW A, NEW seq \in Seq(A), NEW e \in A, NEW S
  PROVE  Where(Append(seq, e), S) = IF e \in S THEN Append(Where(seq, S), e) ELSE Where(seq, S)
<1> DEFINE l == Len(seq)
           longer == Append(seq, e)
<1>0. l \in Nat /\ Len(longer) = l + 1 /\ longer[l + 1] = e
      /\ \A n \in 1..l : longer[n] = seq[n]
  OBVIOUS
<1>1. PICK f : Filtering(f, seq, S, l) /\ Where(seq, S) = f[l]
  BY WhereByRecursion
<1> HIDE DEF l, longer
<1>2. PICK g : Filtering(g, longer, S, l + 1) /\ Where(longer, S) = g[l + 1]
  BY <1>0, WhereByRecursion
<1> DEFINE bad == {n \in 0..l : f[n] # g[n]}
<1>3. bad = {}
  <2> SUFFICES ASSUME bad # {} PROVE FALSE
    OBVIOUS
  <2>1. PICK n \in bad : \A k \in bad : n <= k
    <3>1. bad \in SUBSET Nat
      BY <1>0
    <3> QED
      BY <3>1, Least
  <2>2. CASE n = 0
    BY <1>0, <1>1, <1>2, <2>1, <2>2 DEF Filtering
  <2>3. CASE n # 0
    <3>1. n \in 1..l /\ n - 1 \in 0..l /\ n - 1 \notin bad /\ n \in 0..(l + 1)
      BY <1>0, <2>1, <2>3
    <3>2. /\ f[n] = IF seq[n] \in S THEN Append(f[n - 1], seq[n]) ELSE f[n - 1]
          /\ g[n] = IF longer[n] \in S THEN Append(g[n - 1], longer[n]) ELSE g[n - 1]
      BY <1>1, <1>2, <2>3, <3>1 DEF Filtering
    <3> QED
      BY <1>0, <2>1, <3>1, <3>2
  <2> QED
    BY <2>2, <2>3
<1>4. f[l] = g[l]
  BY <1>0, <1>3
<1>5. g[l + 1] = IF longer[l + 1] \in S THEN Append(g[l], longer[l + 1]) ELSE g[l]
  <2>1. l + 1 \in 0..(l + 1) /\ l + 1 # 0 /\ (l + 1) - 1 = l
    BY <1>0
  <2> QED
    BY <1>2, <2>1 DEF Filtering
<1> QED
  BY <1>0, <1>1, <1>2, <1>4, <1>5 DEF longer

(* A sequence is nothing or another one with an element more.              *)
LEMMA LastElement ==
  ASSUME NEW A, NEW seq \in Seq(A), NEW n \in Nat, Len(seq) = n
  PROVE  /\ n = 0 => seq = << >>
         /\ n # 0 => /\ SubSeq(seq, 1, n - 1) \in Seq(A) /\ Len(SubSeq(seq, 1, n - 1)) = n - 1
                     /\ seq[n] \in A /\ seq = Append(SubSeq(seq, 1, n - 1), seq[n])
<1>1. CASE n = 0
  BY <1>1
<1>2. CASE n # 0
  <2> DEFINE s == SubSeq(seq, 1, n - 1)
  <2>1. n - 1 \in 0..Len(seq) /\ seq[n] \in A
    BY <1>2
  <2>2. s \in Seq(A) /\ Len(s) = n - 1 /\ \A i \in 1..(n - 1) : s[i] = seq[i]
    BY <2>1, Beginning
  <2> HIDE DEF s
  <2>3. Append(s, seq[n]) \in Seq(A) /\ Len(Append(s, seq[n])) = n
        /\ \A i \in 1..n : Append(s, seq[n])[i] = seq[i]
    BY <2>1, <2>2, <1>2
  <2>4. seq = Append(s, seq[n])
    BY <2>3
  <2> QED
    BY <1>2, <2>1, <2>2, <2>4 DEF s
<1> QED
  BY <1>1, <1>2

(* To filter twice is to filter by both.                                   *)
LEMMA WhereTwice ==
  ASSUME NEW A, NEW S, NEW T
  PROVE  \A seq \in Seq(A) : Where(Where(seq, S), T) = Where(seq, S \cap T)
<1> DEFINE Good(seq) == Where(Where(seq, S), T) = Where(seq, S \cap T)
           bad == {n \in Nat : \E seq \in Seq(A) : Len(seq) = n /\ ~Good(seq)}
<1>1. SUFFICES ASSUME bad # {} PROVE FALSE
  <2> SUFFICES ASSUME NEW seq \in Seq(A), ~Good(seq) PROVE bad # {}
    OBVIOUS
  <2>1. Len(seq) \in Nat
    OBVIOUS
  <2> HIDE DEF Good
  <2> QED
    BY <2>1
<1>2. PICK n \in bad : \A k \in bad : n <= k
  <2>1. bad \in SUBSET Nat
    OBVIOUS
  <2> QED
    BY <1>1, <2>1, Least
<1>3. PICK seq \in Seq(A) : Len(seq) = n /\ ~Good(seq)
  OBVIOUS
<1>4. CASE n = 0
  <2>1. seq = << >>
    BY <1>2, <1>3, <1>4, LastElement
  <2> QED
    BY <1>3, <2>1, WhereOfNone
<1>5. CASE n # 0
  <2> DEFINE s == SubSeq(seq, 1, n - 1)
             e == seq[n]
             w == Where(s, S)
  <2>1. s \in Seq(A) /\ Len(s) = n - 1 /\ e \in A /\ seq = Append(s, e)
    BY <1>2, <1>3, <1>5, LastElement
  <2> HIDE DEF s, e
  <2>2. Good(s)
    <3> HIDE DEF Good
    <3>1. n - 1 \in Nat /\ n - 1 \notin bad
      BY <1>2, <1>5
    <3> QED
      BY <2>1, <3>1
  <2>3. w \in Seq(A)
    BY <2>1, WhereKeeps
  <2>4. Where(seq, S) = IF e \in S THEN Append(w, e) ELSE w
    BY <2>1, WhereAppended
  <2> HIDE DEF w
  <2>5. Where(Append(w, e), T) = IF e \in T THEN Append(Where(w, T), e) ELSE Where(w, T)
    BY <2>1, <2>3, WhereAppended
  <2>6. Where(seq, S \cap T) =
          IF e \in S \cap T THEN Append(Where(s, S \cap T), e) ELSE Where(s, S \cap T)
    BY <2>1, WhereAppended
  <2>7. Where(w, T) = Where(s, S \cap T)
    BY <2>2 DEF w
  <2> QED
    BY <1>3, <2>4, <2>5, <2>6, <2>7
<1> QED
  BY <1>4, <1>5

(* Filtering a concatenation filters its parts.                            *)
LEMMA WhereJoins ==
  ASSUME NEW A, NEW S, NEW front \in Seq(A)
  PROVE  \A seq \in Seq(A) :
           Len(Where(front \o seq, S)) = Len(Where(front, S)) + Len(Where(seq, S))
<1> DEFINE Good(seq) == Len(Where(front \o seq, S)) = Len(Where(front, S)) + Len(Where(seq, S))
           bad == {n \in Nat : \E seq \in Seq(A) : Len(seq) = n /\ ~Good(seq)}
<1>1. SUFFICES ASSUME bad # {} PROVE FALSE
  <2> SUFFICES ASSUME NEW seq \in Seq(A), ~Good(seq) PROVE bad # {}
    OBVIOUS
  <2>1. Len(seq) \in Nat
    OBVIOUS
  <2> HIDE DEF Good
  <2> QED
    BY <2>1
<1>2. PICK n \in bad : \A k \in bad : n <= k
  <2>1. bad \in SUBSET Nat
    OBVIOUS
  <2> QED
    BY <1>1, <2>1, Least
<1>3. PICK seq \in Seq(A) : Len(seq) = n /\ ~Good(seq)
  OBVIOUS
<1>l. ASSUME NEW t \in Seq(A) PROVE Where(t, S) \in Seq(A) /\ Len(Where(t, S)) \in Nat
  BY WhereKeeps
<1>4. CASE n = 0
  <2>1. seq = << >> /\ front \o seq = front
    BY <1>2, <1>3, <1>4, LastElement
  <2>2. Len(Where(seq, S)) = 0
    BY <2>1, WhereOfNone
  <2> QED
    BY <1>3, <1>l, <2>1, <2>2
<1>5. CASE n # 0
  <2> DEFINE s == SubSeq(seq, 1, n - 1)
             e == seq[n]
  <2>1. s \in Seq(A) /\ Len(s) = n - 1 /\ e \in A /\ seq = Append(s, e)
    BY <1>2, <1>3, <1>5, LastElement
  <2> HIDE DEF s, e
  <2>2. Good(s)
    <3> HIDE DEF Good
    <3>1. n - 1 \in Nat /\ n - 1 \notin bad
      BY <1>2, <1>5
    <3> QED
      BY <2>1, <3>1
  <2>3. front \o s \in Seq(A) /\ front \o seq = Append(front \o s, e)
    BY <2>1
  <2> DEFINE both == front \o s
  <2>4. Where(seq, S) = IF e \in S THEN Append(Where(s, S), e) ELSE Where(s, S)
    BY <2>1, WhereAppended
  <2>7. Where(front \o seq, S) = IF e \in S THEN Append(Where(both, S), e) ELSE Where(both, S)
    <3> HIDE DEF both
    <3>1. both \in Seq(A) /\ front \o seq = Append(both, e)
      BY <2>3 DEF both
    <3> QED
      BY <2>1, <3>1, WhereAppended
  <2>5. CASE e \in S
    <3>1. /\ Len(Where(front \o seq, S)) = Len(Where(front \o s, S)) + 1
          /\ Len(Where(seq, S)) = Len(Where(s, S)) + 1
      BY <1>l, <2>1, <2>3, <2>4, <2>5, <2>7
    <3> QED
      BY <1>3, <1>l, <2>1, <2>2, <2>3, <3>1
  <2>6. CASE e \notin S
    BY <1>3, <2>2, <2>4, <2>6, <2>7
  <2> QED
    BY <2>5, <2>6
<1> QED
  BY <1>4, <1>5

(* The members of a set of numbers that come after one of them.            *)
AheadOf(S, id) == {b \in S : b > id}

(* Each of what is kept of the numbers from L down to L - n + 1 stands     *)
(* behind those that come after it.                                        *)
InRank(t, S, L, n) ==
  /\ t \in Seq(Nat) /\ Len(t) = Cardinality(AheadOf(S, L - n))
  /\ \A id \in AheadOf(S, L - n) :
       /\ Cardinality(AheadOf(S, id)) + 1 \in 1..Len(t)
       /\ t[Cardinality(AheadOf(S, id)) + 1] = id

(* The next number goes to the end, if it is kept.                         *)
LEMMA RankGoesOn ==
  ASSUME NEW L \in Nat, NEW S \in SUBSET (1..L), NEW n \in 1..L, NEW t, InRank(t, S, L, n - 1)
  PROVE  InRank(IF L + 1 - n \in S THEN Append(t, L + 1 - n) ELSE t, S, L, n)
<1> DEFINE e == L + 1 - n
           u == Append(t, e)
<1>1. e \in Nat /\ L - (n - 1) = e /\ L - n = e - 1
  OBVIOUS
<1> HIDE DEF e
<1>2. /\ t \in Seq(Nat) /\ Len(t) \in Nat /\ Len(t) = Cardinality(AheadOf(S, e))
      /\ \A id \in AheadOf(S, e) :
           /\ Cardinality(AheadOf(S, id)) + 1 \in 1..Len(t)
           /\ t[Cardinality(AheadOf(S, id)) + 1] = id
  BY <1>1 DEF InRank
<1>b. \A b \in S : b \in Nat /\ (b > e - 1 <=> b > e \/ b = e)
  BY <1>1
<1>3. CASE e \notin S
  <2>1. AheadOf(S, e - 1) = AheadOf(S, e)
    BY <1>b, <1>3, Zenon DEF AheadOf
  <2> QED
    BY <1>1, <1>2, <1>3, <2>1 DEF InRank, e
<1>4. CASE e \in S
  <2>1. AheadOf(S, e - 1) = AheadOf(S, e) \cup {e} /\ e \notin AheadOf(S, e)
    <3>1. ~(e > e)
      BY <1>1
    <3>2. AheadOf(S, e - 1) = AheadOf(S, e) \cup {e}
      BY <1>b, <1>4, Zenon DEF AheadOf
    <3> QED
      BY <3>1, <3>2, Zenon DEF AheadOf
  <2>2. IsFiniteSet(AheadOf(S, e))
    <3>1. IsFiniteSet(1..L)
      BY FS_Interval
    <3>2. AheadOf(S, e) \in SUBSET (1..L)
      BY DEF AheadOf
    <3> QED
      BY <3>1, <3>2, FS_Subset
  <2>3. Cardinality(AheadOf(S, e - 1)) = Len(t) + 1
    BY <1>2, <2>1, <2>2, FS_AddElement
  <2>4. /\ u \in Seq(Nat) /\ Len(u) = Len(t) + 1 /\ u[Len(t) + 1] = e
        /\ \A k \in 1..Len(t) : u[k] = t[k]
    BY <1>1, <1>2
  <2> HIDE DEF u
  <2>5. ASSUME NEW id \in AheadOf(S, e - 1)
        PROVE  /\ Cardinality(AheadOf(S, id)) + 1 \in 1..Len(u)
               /\ u[Cardinality(AheadOf(S, id)) + 1] = id
    <3>1. CASE id = e
      BY <1>2, <2>4, <3>1
    <3>2. CASE id \in AheadOf(S, e)
      <4>1. /\ Cardinality(AheadOf(S, id)) + 1 \in 1..Len(t)
            /\ t[Cardinality(AheadOf(S, id)) + 1] = id
        BY <1>2, <3>2
      <4> QED
        BY <1>2, <2>4, <4>1
    <3> QED
      BY <2>1, <3>1, <3>2
  <2>6. InRank(u, S, L, n)
    BY <1>1, <2>3, <2>4, <2>5 DEF InRank
  <2> QED
    BY <1>4, <2>6 DEF u, e
<1> QED
  BY <1>3, <1>4

(* Of the numbers from L down to 1, each one kept stands behind those      *)
(* kept that come after it.                                                *)
LEMMA WhereRanks ==
  ASSUME NEW L \in Nat, NEW S \in SUBSET (1..L), NEW seq \in Seq(Nat), Len(seq) = L,
         \A n \in 1..L : seq[n] = L + 1 - n
  PROVE  /\ Where(seq, S) \in Seq(Nat) /\ Len(Where(seq, S)) \in Nat
         /\ \A id \in S :
              /\ Cardinality(AheadOf(S, id)) \in Nat
              /\ Cardinality(AheadOf(S, id)) + 1 \in 1..Len(Where(seq, S))
              /\ Where(seq, S)[Cardinality(AheadOf(S, id)) + 1] = id
<1>1. PICK f : Filtering(f, seq, S, L) /\ Where(seq, S) = f[L]
  BY WhereByRecursion
<1> DEFINE bad == {n \in 0..L : ~InRank(f[n], S, L, n)}
<1>2. bad = {}
  <2> SUFFICES ASSUME bad # {} PROVE FALSE
    OBVIOUS
  <2>1. PICK n \in bad : \A k \in bad : n <= k
    <3>1. bad \in SUBSET Nat
      OBVIOUS
    <3> QED
      BY <3>1, Least
  <2>2. CASE n = 0
    <3>1. f[0] = << >>
      BY <1>1 DEF Filtering
    <3>2. AheadOf(S, L - 0) = {}
      <4>1. \A b \in S : ~(b > L - 0)
        OBVIOUS
      <4> QED
        BY <4>1, Zenon DEF AheadOf
    <3>3. /\ << >> \in Seq(Nat) /\ Len(<< >>) = 0 /\ 1..Len(<< >>) = {}
          /\ Cardinality(AheadOf(S, L - 0)) = 0
      <4>1. << >> \in Seq(Nat) /\ Len(<< >>) = 0 /\ 1..Len(<< >>) = {}
        OBVIOUS
      <4> QED
        BY <3>2, <4>1, FS_EmptySet, Zenon
    <3>4. InRank(<< >>, S, L, 0)
      BY <3>2, <3>3, Zenon DEF InRank
    <3> QED
      BY <2>1, <2>2, <3>1, <3>4
  <2>3. CASE n # 0
    <3>1. n \in 1..L /\ n - 1 \in 0..L /\ n - 1 \notin bad
      BY <2>1, <2>3
    <3>2. InRank(f[n - 1], S, L, n - 1)
      BY <3>1
    <3>3. f[n] = IF seq[n] \in S THEN Append(f[n - 1], seq[n]) ELSE f[n - 1]
      BY <1>1, <2>3, <3>1 DEF Filtering
    <3>4. InRank(f[n], S, L, n)
      BY <3>1, <3>2, <3>3, RankGoesOn
    <3> QED
      BY <2>1, <3>4
  <2> QED
    BY <2>2, <2>3
<1>3. InRank(Where(seq, S), S, L, L)
  BY <1>1, <1>2
<1>4. AheadOf(S, L - L) = S
  <2>1. \A b \in S : b > L - L
    OBVIOUS
  <2> QED
    BY <2>1, Zenon DEF AheadOf
<1>5. \A id \in S : Cardinality(AheadOf(S, id)) \in Nat
  <2>1. IsFiniteSet(1..L)
    BY FS_Interval
  <2>2. \A id \in S : AheadOf(S, id) \in SUBSET (1..L)
    BY DEF AheadOf
  <2> QED
    BY <2>1, <2>2, FS_Subset, FS_CardinalityType
<1>6. Where(seq, S) \in Seq(Nat) /\ Len(Where(seq, S)) \in Nat
  BY <1>3 DEF InRank
<1> QED
  BY <1>3, <1>4, <1>5, <1>6 DEF InRank

=============================================================================
