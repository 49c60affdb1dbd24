------------------------ MODULE PreviewSocketProofs ------------------------
(***************************************************************************)
(* Proofs about the WebSocket of a previewed page, for any number of       *)
(* messages in either direction.                                           *)
(***************************************************************************)
EXTENDS PreviewSocket, SequenceTheorems, WellFoundedInduction, TLAPS

-----------------------------------------------------------------------------
(* Channels.                                                                *)

\* A set of numbers that is not empty has a least one.
LEMMA Least ==
  ASSUME NEW T \in SUBSET Nat, T # {}
  PROVE  \E n \in T : \A m \in T : n <= m
<1> DEFINE below == {pair \in Nat \X Nat : pair[1] < pair[2]}
<1>1. IsWellFoundedOn(below, Nat)
  BY NatLessThanWellFounded DEF OpToRel
<1>2. PICK n \in T : \A m \in T : ~(<<m, n>> \in below)
  BY <1>1, WFMin
<1>3. \A m \in T : ~(m < n)
  BY <1>2
<1>4. \A m \in T : n <= m
  BY <1>3
<1> QED
  BY <1>2, <1>4

\* What Append and Tail do to the positions of a sequence.
LEMMA Positions ==
  ASSUME NEW s \in Seq(Items), NEW e \in Items
  PROVE  /\ Append(s, e) \in Seq(Items) /\ Len(Append(s, e)) = Len(s) + 1
         /\ \A i \in 1..Len(s) : Append(s, e)[i] = s[i]
         /\ Append(s, e)[Len(s) + 1] = e
         /\ s # <<>> => /\ Tail(s) \in Seq(Items) /\ Len(Tail(s)) = Len(s) - 1
                        /\ \A i \in 1..Len(s) - 1 : Tail(s)[i] = s[i + 1]
                        /\ Head(s) = s[1] /\ Head(s) \in Items /\ Len(s) > 0
OBVIOUS

\* A message behind the others carries the channel one further.
LEMMA AppendCarries ==
  ASSUME NEW s \in Seq(Items), NEW e \in Items, NEW lo \in Nat, NEW hi \in Nat, NEW kind,
         lo <= hi, Carries(s, kind, lo, hi)
  PROVE  /\ e.kind # kind => Carries(Append(s, e), kind, lo, hi)
         /\ e.kind = kind /\ e.n = hi + 1 => Carries(Append(s, e), kind, lo, hi + 1)
<1> DEFINE t == Append(s, e)
<1>1. Len(s) \in Nat /\ Len(t) = Len(s) + 1 /\ t[Len(s) + 1] = e
      /\ \A i \in 1..Len(s) : t[i] = s[i]
  BY Positions
<1> HIDE DEF t
<1>2. /\ \A i \in 1..Len(s) : s[i].kind = kind => s[i].n \in lo + 1..hi
      /\ \A i, j \in 1..Len(s) : i < j /\ s[i].kind = kind /\ s[j].kind = kind => s[i].n < s[j].n
      /\ \A n \in lo + 1..hi : \E i \in 1..Len(s) : s[i].kind = kind /\ s[i].n = n
  BY DEF Carries
<1>3. ASSUME e.kind # kind PROVE Carries(t, kind, lo, hi)
  <2>1. \A i \in 1..Len(t) : t[i].kind = kind => i \in 1..Len(s)
    BY <1>1, <1>3
  <2> QED
    BY <1>1, <1>2, <2>1 DEF Carries
<1>4. ASSUME e.kind = kind, e.n = hi + 1 PROVE Carries(t, kind, lo, hi + 1)
  <2>1. \A i \in 1..Len(t) : i \in 1..Len(s) \/ (t[i] = e /\ i = Len(s) + 1)
    <3>1. \A i \in 1..Len(t) : i \in 1..Len(s) \/ i = Len(s) + 1
      BY <1>1
    <3> QED
      BY <1>1, <3>1
  <2>2. \A i \in 1..Len(t) : t[i].kind = kind => t[i].n \in lo + 1..hi + 1
    BY <1>1, <1>2, <1>4, <2>1
  <2>3. \A i, j \in 1..Len(t) : i < j /\ t[i].kind = kind /\ t[j].kind = kind => t[i].n < t[j].n
    <3> SUFFICES ASSUME NEW i \in 1..Len(t), NEW j \in 1..Len(t), i < j,
                        t[i].kind = kind, t[j].kind = kind
                 PROVE  t[i].n < t[j].n
      OBVIOUS
    <3>1. i \in 1..Len(s) /\ s[i].n \in lo + 1..hi
      BY <1>1, <1>2
    <3>2. CASE j \in 1..Len(s)
      BY <1>1, <1>2, <3>1, <3>2
    <3>3. CASE t[j] = e
      BY <1>1, <1>4, <3>1, <3>3
    <3> QED
      BY <2>1, <3>2, <3>3
  <2>4. \A n \in lo + 1..hi + 1 : \E i \in 1..Len(t) : t[i].kind = kind /\ t[i].n = n
    <3> SUFFICES ASSUME NEW n \in lo + 1..hi + 1
                 PROVE  \E i \in 1..Len(t) : t[i].kind = kind /\ t[i].n = n
      OBVIOUS
    <3>1. CASE n \in lo + 1..hi
      <4>1. PICK i \in 1..Len(s) : s[i].kind = kind /\ s[i].n = n
        BY <1>2, <3>1
      <4> QED
        BY <1>1, <4>1
    <3>2. CASE n = hi + 1
      <4>1. Len(s) + 1 \in 1..Len(t)
        BY <1>1
      <4> QED
        BY <1>1, <1>4, <3>2, <4>1
    <3> QED
      BY <3>1, <3>2
  <2> QED
    BY <2>2, <2>3, <2>4 DEF Carries
<1> QED
  BY <1>3, <1>4 DEF t

\* What is taken from the front is the first of them.
LEMMA TakeCarries ==
  ASSUME NEW s \in Seq(Items), NEW lo \in Nat, NEW hi \in Nat, NEW kind,
         lo <= hi, Carries(s, kind, lo, hi), s # <<>>
  PROVE  /\ Head(s).kind # kind => Carries(Tail(s), kind, lo, hi)
         /\ Head(s).kind = kind =>
              Head(s).n = lo + 1 /\ lo + 1 <= hi /\ Carries(Tail(s), kind, lo + 1, hi)
<1> DEFINE t == Tail(s)
<1>1. /\ Len(s) \in Nat /\ Len(s) > 0 /\ Len(t) = Len(s) - 1 /\ Head(s) = s[1]
      /\ \A i \in 1..Len(s) - 1 : t[i] = s[i + 1]
  BY Positions
<1> HIDE DEF t
<1>2. /\ \A i \in 1..Len(s) : s[i].kind = kind => s[i].n \in lo + 1..hi
      /\ \A i, j \in 1..Len(s) : i < j /\ s[i].kind = kind /\ s[j].kind = kind => s[i].n < s[j].n
      /\ \A n \in lo + 1..hi : \E i \in 1..Len(s) : s[i].kind = kind /\ s[i].n = n
  BY DEF Carries
<1>3. \A i \in 1..Len(t) : i + 1 \in 1..Len(s) /\ t[i] = s[i + 1]
  BY <1>1
<1>4. \A i \in 1..Len(s) : i = 1 \/ (i - 1 \in 1..Len(t) /\ t[i - 1] = s[i])
  <2>1. \A i \in 1..Len(s) : i = 1 \/ (i - 1 \in 1..Len(t) /\ (i - 1) + 1 = i)
    BY <1>1
  <2> QED
    BY <1>3, <2>1
<1>5. \A i, j \in 1..Len(t) : i < j /\ t[i].kind = kind /\ t[j].kind = kind => t[i].n < t[j].n
  <2> SUFFICES ASSUME NEW i \in 1..Len(t), NEW j \in 1..Len(t), i < j,
                      t[i].kind = kind, t[j].kind = kind
               PROVE  t[i].n < t[j].n
    OBVIOUS
  <2>1. /\ i + 1 \in 1..Len(s) /\ s[i + 1].kind = kind /\ s[i + 1] = t[i]
        /\ j + 1 \in 1..Len(s) /\ s[j + 1].kind = kind /\ s[j + 1] = t[j]
    BY <1>3
  <2>2. i + 1 < j + 1
    BY <1>1
  <2>3. s[i + 1].n < s[j + 1].n
    BY <1>2, <2>1, <2>2
  <2> QED
    BY <2>1, <2>3
<1>6. ASSUME s[1].kind # kind PROVE Carries(t, kind, lo, hi)
  <2>1. \A i \in 1..Len(t) : t[i].kind = kind => t[i].n \in lo + 1..hi
    BY <1>2, <1>3
  <2>2. ASSUME NEW n \in lo + 1..hi PROVE \E i \in 1..Len(t) : t[i].kind = kind /\ t[i].n = n
    <3>1. PICK i \in 1..Len(s) : s[i].kind = kind /\ s[i].n = n
      BY <1>2
    <3> QED
      BY <1>4, <1>6, <3>1
  <2> QED
    BY <1>5, <2>1, <2>2 DEF Carries
<1>7. ASSUME s[1].kind = kind
      PROVE  s[1].n = lo + 1 /\ lo + 1 <= hi /\ Carries(t, kind, lo + 1, hi)
  <2>1. 1 \in 1..Len(s) /\ s[1].n \in lo + 1..hi
    BY <1>1, <1>2, <1>7
  <2>2. \A i \in 1..Len(s) : i # 1 /\ s[i].kind = kind => s[1].n < s[i].n
    BY <1>1, <1>2, <1>7, <2>1
  <2>3. s[1].n = lo + 1
    <3>1. PICK i \in 1..Len(s) : s[i].kind = kind /\ s[i].n = lo + 1
      BY <1>2, <2>1
    <3>2. i = 1 \/ s[1].n < lo + 1
      BY <2>2, <3>1
    <3> QED
      BY <2>1, <3>1, <3>2
  <2>4. \A i \in 1..Len(t) : t[i].kind = kind => t[i].n \in (lo + 1) + 1..hi
    <3> SUFFICES ASSUME NEW i \in 1..Len(t), t[i].kind = kind
                 PROVE  t[i].n \in (lo + 1) + 1..hi
      OBVIOUS
    <3>1. i + 1 \in 1..Len(s) /\ i + 1 # 1 /\ s[i + 1].kind = kind /\ t[i] = s[i + 1]
      BY <1>1, <1>3
    <3>2. s[i + 1].n \in lo + 1..hi
      BY <1>2, <3>1
    <3>3. lo + 1 < s[i + 1].n
      BY <2>2, <2>3, <3>1
    <3> QED
      BY <3>1, <3>2, <3>3
  <2>5. ASSUME NEW n \in (lo + 1) + 1..hi
        PROVE  \E i \in 1..Len(t) : t[i].kind = kind /\ t[i].n = n
    <3>1. n \in lo + 1..hi /\ n # lo + 1
      OBVIOUS
    <3>2. PICK i \in 1..Len(s) : s[i].kind = kind /\ s[i].n = n
      BY <1>2, <3>1
    <3>3. i # 1
      BY <2>3, <3>1, <3>2
    <3> QED
      BY <1>4, <3>2, <3>3
  <2> QED
    BY <1>5, <2>1, <2>3, <2>4, <2>5 DEF Carries
<1> QED
  BY <1>1, <1>6, <1>7 DEF t

\* Cut anywhere, it is carried by the two parts.
LEMMA SplitCarries ==
  ASSUME NEW s \in Seq(Items), NEW lo \in Nat, NEW hi \in Nat, NEW kind, NEW m \in 0..Len(s),
         lo <= hi, Carries(s, kind, lo, hi)
  PROVE  \E mid \in lo..hi : /\ Carries(SubSeq(s, 1, m), kind, lo, mid)
                             /\ Carries(SubSeq(s, m + 1, Len(s)), kind, mid, hi)
<1> DEFINE a == SubSeq(s, 1, m)
           b == SubSeq(s, m + 1, Len(s))
           L == Len(s)
<1>1. L \in Nat /\ m \in Nat /\ m <= L
  OBVIOUS
<1>2. Len(a) = m /\ \A i \in 1..m : a[i] = s[i]
  BY <1>1
<1>3. Len(b) = L - m /\ \A i \in 1..L - m : b[i] = s[m + i]
  BY <1>1
<1> HIDE DEF a, b
<1>4. /\ \A i \in 1..L : s[i].kind = kind => s[i].n \in lo + 1..hi
      /\ \A i, j \in 1..L : i < j /\ s[i].kind = kind /\ s[j].kind = kind => s[i].n < s[j].n
      /\ \A n \in lo + 1..hi : \E i \in 1..L : s[i].kind = kind /\ s[i].n = n
  BY DEF Carries
<1> HIDE DEF L
<1> DEFINE Later == {n \in lo + 1..hi : \E j \in m + 1..L : s[j].kind = kind /\ s[j].n = n}
<1>5. PICK x \in Later \cup {hi + 1} : \A y \in Later \cup {hi + 1} : x <= y
  <2>1. Later \cup {hi + 1} \in SUBSET Nat /\ Later \cup {hi + 1} # {}
    OBVIOUS
  <2> QED
    BY <2>1, Least
<1>6. x \in lo + 1..hi + 1 /\ x - 1 \in lo..hi
  OBVIOUS
<1>7. \A i \in 1..m : s[i].kind = kind => s[i].n < x
  <2> SUFFICES ASSUME NEW i \in 1..m, s[i].kind = kind PROVE s[i].n < x
    OBVIOUS
  <2>1. i \in 1..L /\ s[i].n \in lo + 1..hi
    BY <1>1, <1>4
  <2>2. CASE x = hi + 1
    BY <2>1, <2>2
  <2>3. CASE x \in Later
    <3>1. PICK j \in m + 1..L : s[j].kind = kind /\ s[j].n = x
      BY <2>3
    <3>2. i < j /\ j \in 1..L
      BY <1>1
    <3> QED
      BY <1>4, <2>1, <3>1, <3>2
  <2> QED
    BY <2>2, <2>3
<1>8. \A j \in m + 1..L : s[j].kind = kind => s[j].n \in Later /\ x <= s[j].n
  <2> SUFFICES ASSUME NEW j \in m + 1..L, s[j].kind = kind PROVE s[j].n \in Later
    BY <1>5
  <2>1. s[j].n \in lo + 1..hi
    BY <1>1, <1>4
  <2> QED
    BY <2>1
<1> HIDE DEF Later
<1>9. Carries(a, kind, lo, x - 1)
  <2>1. \A i \in 1..m : i \in 1..L
    BY <1>1
  <2>2. \A i \in 1..m : s[i].kind = kind => s[i].n \in lo + 1..x - 1
    <3> SUFFICES ASSUME NEW i \in 1..m, s[i].kind = kind PROVE s[i].n \in lo + 1..x - 1
      OBVIOUS
    <3>1. s[i].n \in lo + 1..hi /\ s[i].n < x
      BY <1>4, <1>7, <2>1
    <3> QED
      BY <1>6, <3>1
  <2>3. ASSUME NEW n \in lo + 1..x - 1 PROVE \E i \in 1..m : s[i].kind = kind /\ s[i].n = n
    <3>1. n \in lo + 1..hi /\ n < x
      BY <1>6
    <3>2. PICK i \in 1..L : s[i].kind = kind /\ s[i].n = n
      BY <1>4, <3>1
    <3>3. i \in 1..m \/ i \in m + 1..L
      BY <1>1
    <3>4. i \notin m + 1..L
      BY <1>6, <1>8, <3>1, <3>2
    <3> QED
      BY <3>2, <3>3, <3>4
  <2> QED
    BY <1>2, <1>4, <2>1, <2>2, <2>3 DEF Carries
<1>10. Carries(b, kind, x - 1, hi)
  <2>1. \A i \in 1..L - m : m + i \in m + 1..L /\ m + i \in 1..L
    BY <1>1
  <2>2. \A i \in 1..L - m : s[m + i].kind = kind => s[m + i].n \in (x - 1) + 1..hi
    <3> SUFFICES ASSUME NEW i \in 1..L - m, s[m + i].kind = kind
                 PROVE  s[m + i].n \in (x - 1) + 1..hi
      OBVIOUS
    <3>1. s[m + i].n \in lo + 1..hi /\ x <= s[m + i].n
      BY <1>4, <1>8, <2>1
    <3> QED
      BY <1>6, <3>1
  <2>3. \A i, j \in 1..L - m : i < j => m + i < m + j
    BY <1>1
  <2>4. ASSUME NEW n \in (x - 1) + 1..hi
        PROVE  \E i \in 1..L - m : s[m + i].kind = kind /\ s[m + i].n = n
    <3>1. n \in lo + 1..hi /\ x <= n
      BY <1>6
    <3>2. PICK i \in 1..L : s[i].kind = kind /\ s[i].n = n
      BY <1>4, <3>1
    <3>3. i \notin 1..m
      BY <1>6, <1>7, <3>1, <3>2
    <3>4. i - m \in 1..L - m /\ m + (i - m) = i
      BY <1>1, <3>3
    <3> QED
      BY <3>2, <3>4
  <2>5. /\ \A i \in 1..Len(b) : b[i] = s[m + i]
        /\ Len(b) = L - m
    BY <1>3
  <2>6. \A i, j \in 1..Len(b) : i < j /\ b[i].kind = kind /\ b[j].kind = kind => b[i].n < b[j].n
    <3> SUFFICES ASSUME NEW i \in 1..L - m, NEW j \in 1..L - m, i < j,
                        s[m + i].kind = kind, s[m + j].kind = kind
                 PROVE  s[m + i].n < s[m + j].n
      BY <2>5
    <3> QED
      BY <1>4, <2>1, <2>3
  <2> QED
    BY <2>2, <2>4, <2>5, <2>6 DEF Carries
<1> QED
  BY <1>6, <1>9, <1>10 DEF a, b

\* An empty channel carries nothing, and one without items of the kind no more.
LEMMA NothingCarried ==
  ASSUME NEW kind, NEW lo \in Nat, NEW hi \in Nat, lo <= hi
  PROVE  /\ Carries(<<>>, kind, lo, lo)
         /\ \A s \in Seq(Items) : Carries(s, kind, lo, hi) /\ ~Has(s, kind) => lo = hi
<1>1. Carries(<<>>, kind, lo, lo)
  BY DEF Carries
<1>2. ASSUME NEW s \in Seq(Items), Carries(s, kind, lo, hi), ~Has(s, kind), lo # hi PROVE FALSE
  <2>1. hi \in lo + 1..hi
    BY <1>2
  <2> QED
    BY <1>2, <2>1 DEF Carries, Has
<1> QED
  BY <1>1, <1>2

\* What a channel has, at its end, at its front and in its parts.
LEMMA HasAppend ==
  ASSUME NEW s \in Seq(Items), NEW e \in Items, NEW kind
  PROVE  Has(Append(s, e), kind) <=> Has(s, kind) \/ e.kind = kind
<1>1. Len(s) \in Nat /\ Len(Append(s, e)) = Len(s) + 1 /\ Append(s, e)[Len(s) + 1] = e
      /\ \A i \in 1..Len(s) : Append(s, e)[i] = s[i]
  BY Positions
<1>2. /\ \A i \in 1..Len(Append(s, e)) : i \in 1..Len(s) \/ i = Len(s) + 1
      /\ \A i \in 1..Len(s) : i \in 1..Len(Append(s, e))
      /\ Len(s) + 1 \in 1..Len(Append(s, e))
  BY <1>1
<1> QED
  BY <1>1, <1>2 DEF Has

\* What a queue holds is its head or in its tail.
LEMMA HasTail ==
  ASSUME NEW s \in Seq(Items), s # <<>>, NEW kind
  PROVE  Has(s, kind) <=> Head(s).kind = kind \/ Has(Tail(s), kind)
<1>1. /\ Len(s) \in Nat /\ Len(s) > 0 /\ Len(Tail(s)) = Len(s) - 1 /\ Head(s) = s[1]
      /\ \A i \in 1..Len(s) - 1 : Tail(s)[i] = s[i + 1]
  BY Positions
<1>2. \A i \in 1..Len(s) : i = 1 \/ (i - 1 \in 1..Len(Tail(s)) /\ Tail(s)[i - 1] = s[i])
  <2>1. \A i \in 1..Len(s) : i = 1 \/ (i - 1 \in 1..Len(Tail(s)) /\ (i - 1) + 1 = i)
    BY <1>1
  <2> QED
    BY <1>1, <2>1
<1>3. \A i \in 1..Len(Tail(s)) : i + 1 \in 1..Len(s) /\ Tail(s)[i] = s[i + 1]
  BY <1>1
<1>4. 1 \in 1..Len(s)
  BY <1>1
<1> QED
  BY <1>1, <1>2, <1>3, <1>4 DEF Has

\* The parts of a channel that is cut.
LEMMA Parts ==
  ASSUME NEW s \in Seq(Items), NEW m \in 0..Len(s)
  PROVE  /\ SubSeq(s, 1, m) \in Seq(Items) /\ SubSeq(s, m + 1, Len(s)) \in Seq(Items)
         /\ Len(SubSeq(s, 1, m)) = m /\ Len(SubSeq(s, m + 1, Len(s))) = Len(s) - m
         /\ \A i \in 1..m : i \in 1..Len(s) /\ SubSeq(s, 1, m)[i] = s[i]
         /\ \A i \in 1..Len(s) - m :
              m + i \in 1..Len(s) /\ SubSeq(s, m + 1, Len(s))[i] = s[m + i]
         /\ \A i \in 1..Len(s) : i \in 1..m \/ (i - m \in 1..Len(s) - m /\ m + (i - m) = i)
         /\ \A i \in 1..Len(s) - m : \A j \in 1..m : j < m + i
OBVIOUS

\* What a queue holds is in one of its two parts.
LEMMA HasParts ==
  ASSUME NEW s \in Seq(Items), NEW m \in 0..Len(s), NEW kind
  PROVE  Has(s, kind) <=> Has(SubSeq(s, 1, m), kind) \/ Has(SubSeq(s, m + 1, Len(s)), kind)
<1> DEFINE a == SubSeq(s, 1, m)
           b == SubSeq(s, m + 1, Len(s))
<1>1. /\ Len(a) = m /\ Len(b) = Len(s) - m
      /\ \A i \in 1..m : i \in 1..Len(s) /\ a[i] = s[i]
      /\ \A i \in 1..Len(s) - m : m + i \in 1..Len(s) /\ b[i] = s[m + i]
      /\ \A i \in 1..Len(s) : i \in 1..m \/ (i - m \in 1..Len(s) - m /\ m + (i - m) = i)
  BY Parts
<1> HIDE DEF a, b
<1>2. ASSUME NEW i \in 1..Len(s), s[i].kind = kind PROVE Has(a, kind) \/ Has(b, kind)
  <2>1. CASE i \in 1..m
    BY <1>1, <1>2, <2>1 DEF Has
  <2>2. CASE i - m \in 1..Len(s) - m /\ m + (i - m) = i
    <3>1. b[i - m] = s[i]
      BY <1>1, <2>2
    <3> QED
      BY <1>1, <1>2, <2>2, <3>1 DEF Has
  <2> QED
    BY <1>1, <2>1, <2>2
<1>3. Has(a, kind) \/ Has(b, kind) => Has(s, kind)
  BY <1>1 DEF Has
<1> QED
  BY <1>2, <1>3 DEF Has, a, b

\* Nothing of one kind behind another: kept by what is put behind and taken
\* from the front, and by the parts of a channel that is cut.
LEMMA NoneAppend ==
  ASSUME NEW s \in Seq(Items), NEW e \in Items, NEW first, NEW other,
         NoneAfter(s, first, other), Has(s, first) => e.kind # other
  PROVE  NoneAfter(Append(s, e), first, other)
<1> DEFINE t == Append(s, e)
<1>1. Len(s) \in Nat /\ Len(t) = Len(s) + 1 /\ t[Len(s) + 1] = e
      /\ \A i \in 1..Len(s) : t[i] = s[i]
  BY Positions
<1> HIDE DEF t
<1>2. ASSUME NEW i \in 1..Len(t), NEW j \in 1..Len(t), i < j, t[i].kind = first
      PROVE  t[j].kind # other
  <2>1. i \in 1..Len(s) /\ (j \in 1..Len(s) \/ j = Len(s) + 1)
    BY <1>1, <1>2
  <2>2. s[i].kind = first
    BY <1>1, <1>2, <2>1
  <2>3. CASE j \in 1..Len(s)
    BY <1>1, <1>2, <2>1, <2>2, <2>3 DEF NoneAfter
  <2>4. CASE j = Len(s) + 1
    BY <1>1, <2>1, <2>2, <2>4 DEF Has
  <2> QED
    BY <2>1, <2>3, <2>4
<1> QED
  BY <1>2 DEF t, NoneAfter

\* An order on a queue holds of its tail.
LEMMA NoneTail ==
  ASSUME NEW s \in Seq(Items), s # <<>>, NEW first, NEW other, NoneAfter(s, first, other)
  PROVE  /\ NoneAfter(Tail(s), first, other)
         /\ Head(s).kind = first => ~Has(Tail(s), other)
<1> DEFINE t == Tail(s)
<1>1. /\ Len(s) \in Nat /\ Len(s) > 0 /\ Len(t) = Len(s) - 1 /\ Head(s) = s[1]
      /\ \A i \in 1..Len(s) - 1 : t[i] = s[i + 1]
  BY Positions
<1> HIDE DEF t
<1>2. \A i \in 1..Len(t) : i + 1 \in 1..Len(s) /\ t[i] = s[i + 1] /\ 1 < i + 1
  BY <1>1
<1>3. \A i, j \in 1..Len(t) : i < j => i + 1 < j + 1
  BY <1>1
<1>4. 1 \in 1..Len(s)
  BY <1>1
<1>5. NoneAfter(t, first, other)
  BY <1>2, <1>3 DEF NoneAfter
<1>6. s[1].kind = first => ~Has(t, other)
  BY <1>2, <1>4 DEF NoneAfter, Has
<1> QED
  BY <1>1, <1>5, <1>6 DEF t

\* An order on a queue holds of both parts and across them.
LEMMA NoneParts ==
  ASSUME NEW s \in Seq(Items), NEW m \in 0..Len(s), NEW first, NEW other,
         NoneAfter(s, first, other)
  PROVE  /\ NoneAfter(SubSeq(s, 1, m), first, other)
         /\ NoneAfter(SubSeq(s, m + 1, Len(s)), first, other)
         /\ Has(SubSeq(s, 1, m), first) => ~Has(SubSeq(s, m + 1, Len(s)), other)
<1> DEFINE a == SubSeq(s, 1, m)
           b == SubSeq(s, m + 1, Len(s))
<1>1. /\ Len(a) = m /\ Len(b) = Len(s) - m
      /\ \A i \in 1..m : i \in 1..Len(s) /\ a[i] = s[i]
      /\ \A i \in 1..Len(s) - m : m + i \in 1..Len(s) /\ b[i] = s[m + i]
      /\ \A i \in 1..Len(s) - m : \A j \in 1..m : j < m + i
  BY Parts
<1> HIDE DEF a, b
<1>2. \A i, j \in 1..Len(b) : i < j => m + i < m + j
  BY <1>1
<1>3. NoneAfter(a, first, other)
  BY <1>1 DEF NoneAfter
<1>4. NoneAfter(b, first, other)
  BY <1>1, <1>2 DEF NoneAfter
<1>5. Has(a, first) => ~Has(b, other)
  BY <1>1 DEF NoneAfter, Has
<1> QED
  BY <1>3, <1>4, <1>5 DEF a, b

-----------------------------------------------------------------------------
(* What one call of the kernel does.                                        *)

\* The shapes of the variables, in full.
Shapes ==
  /\ page \in [state : {"connecting", "open", "closing", "closed"}, queue : Seq(Items),
               outcome : {"none", "clean", "failed", "left"}]
  /\ page.outcome = "none" <=> page.state # "closed"
  /\ up \in Seq(Items) /\ down \in Seq(Items) /\ chunk \in Seq(Items)
  /\ toServer \in Seq(Items) /\ toTunnel \in Seq(Items)
  /\ tunnel \in [state : {"none", "handshake", "open", "closing", "closed"}, timer : BOOLEAN]
  /\ conn \in BOOLEAN /\ serverEnds \in BOOLEAN
  /\ conn => tunnel.state \in {"handshake", "open", "closing"}
  /\ tunnel.timer => tunnel.state = "closing"
  /\ sentUp \in 0..MaxUp /\ frames \in 0..MaxFrames /\ sentDown \in 0..frames
  /\ gotUp \in Seq(Nat) /\ gotDown \in Seq(Nat) /\ stuck \in BOOLEAN

\* A queue that rejects changes nothing but itself: what waits in it stays.
SocketStays ==
  /\ UNCHANGED <<page, sentUp, gotDown, up, down, tunnel, conn, chunk>>
  /\ UNCHANGED <<toServer, toTunnel, server, frames, sentDown, gotUp, serverEnds>>

\* A rejected link and a stutter alike.
LEMMA RejectionIsQuiet ==
  ASSUME FlushFails \/ UNCHANGED vars
  PROVE  SocketStays
BY DEF FlushFails, PageUnchanged, SocketStays, vars, pageVars, kernelVars, serverVars

\* Nothing; a frame for the server; an event for the page; the connection is
\* there; the answer is there; the page wants to close; it is over.
Stays == tunnel' = tunnel /\ conn' = conn
Idles == Stays /\ down' = down /\ toServer' = toServer
Tells(item) == Stays /\ conn /\ down' = down /\ toServer' = Append(toServer, item)
Delivers(n) == /\ Stays /\ tunnel.state = "open"
               /\ down' = Append(down, Item("message", n)) /\ toServer' = toServer
Begins == /\ tunnel' = [tunnel EXCEPT !.state = "handshake"] /\ conn' = TRUE
          /\ down' = down /\ toServer' = Append(toServer, One("get"))
Accepts == /\ tunnel.state = "handshake" /\ conn
           /\ tunnel' = [tunnel EXCEPT !.state = "open"] /\ conn' = conn
           /\ down' = Append(down, One("open")) /\ toServer' = toServer
Closing == /\ tunnel.state = "open"
           /\ tunnel' = [state |-> "closing", timer |-> TRUE] /\ conn' = conn
           /\ down' = down
           /\ toServer' = IF conn THEN Append(toServer, One("close")) ELSE toServer
Ends(how) ==
  /\ tunnel.state # "closed"
  /\ tunnel' = [state |-> "closed", timer |-> FALSE] /\ conn' = FALSE
  /\ down' = Append(down, One(how))
  /\ \/ toServer' = toServer
     \/ toServer' = Append(toServer, One("gone"))
     \/ toServer' = Append(Append(toServer, One("close")), One("gone"))

\* finish, and finish behind a close frame.
LEMMA FinishEffect ==
  ASSUME Shapes, NEW how
  PROVE  /\ tunnel.state = "closed" /\ Becomes(Finish(Now, how)) => Idles
         /\ tunnel.state # "closed" /\ Becomes(Finish(Now, how)) => Ends(how)
         /\ tunnel.state = "closed" /\ Becomes(Finish(Write(Now, "close", 0), how)) => Idles
         /\ tunnel.state # "closed" /\ Becomes(Finish(Write(Now, "close", 0), how)) => Ends(how)
<1>1. /\ tunnel = [state |-> tunnel.state, timer |-> tunnel.timer]
      /\ tunnel.state = "closed" => ~conn
  BY DEF Shapes
<1>2. ASSUME tunnel.state = "closed", Becomes(Finish(Now, how)) PROVE Idles
  BY <1>1, <1>2 DEF Becomes, Finish, Now, Idles, Stays
<1>3. ASSUME tunnel.state # "closed", Becomes(Finish(Now, how)) PROVE Ends(how)
  BY <1>1, <1>3 DEF Becomes, Finish, Now, Ends, Emit, One
<1>4. ASSUME tunnel.state = "closed", Becomes(Finish(Write(Now, "close", 0), how)) PROVE Idles
  BY <1>1, <1>4 DEF Becomes, Finish, Write, Now, Idles, Stays
<1>5. ASSUME tunnel.state # "closed", Becomes(Finish(Write(Now, "close", 0), how)) PROVE Ends(how)
  BY <1>1, <1>5 DEF Becomes, Finish, Write, Now, Ends, Emit, One
<1> QED
  BY <1>2, <1>3, <1>4, <1>5

\* A frame.
FrameDoes(item) ==
  \/ Idles /\ (item.kind = "message" => tunnel.state # "open")
  \/ item.kind = "message" /\ Delivers(item.n)
  \/ item.kind = "ping" /\ Tells(One("pong"))
  \/ item.kind = "close" /\ Ends("clean")
  \/ item.kind \notin {"message", "close"} /\ Ends("failed")

\* What a frame does to the socket and the relay.
LEMMA FrameEffect ==
  ASSUME Shapes, NEW item \in Items, Becomes(Framed(Now, item))
  PROVE  FrameDoes(item)
<1>1. tunnel = [state |-> tunnel.state, timer |-> tunnel.timer]
  BY DEF Shapes
<1>2. CASE item.kind = "message"
  <2>1. CASE tunnel.state = "open"
    BY <1>1, <1>2, <2>1 DEF Becomes, Framed, Emit, Now, Delivers, Stays, FrameDoes, Item
  <2>2. CASE tunnel.state # "open"
    BY <1>1, <1>2, <2>2 DEF Becomes, Framed, Now, Idles, Stays, FrameDoes
  <2> QED
    BY <2>1, <2>2
<1>3. CASE item.kind = "ping"
  BY <1>1, <1>3 DEF Becomes, Framed, Write, Now, Idles, Tells, Stays, FrameDoes, One
<1>4. CASE item.kind = "close"
  <2>1. \/ Becomes(Finish(Now, "clean"))
        \/ tunnel.state = "open" /\ Becomes(Finish(Write(Now, "close", 0), "clean"))
    BY <1>4 DEF Framed, Now
  <2> QED
    BY <1>4, <2>1, FinishEffect DEF FrameDoes
<1>5. CASE item.kind \notin {"message", "ping", "close"}
  <2>1. Becomes(Finish(Write(Now, "close", 0), "failed"))
    BY <1>5 DEF Framed, Fail
  <2> QED
    BY <1>5, <2>1, FinishEffect DEF FrameDoes
<1> QED
  BY <1>2, <1>3, <1>4, <1>5

\* The first item of a chunk, when the tunnel is there to take it.
LEMMA HandledEffect ==
  ASSUME Shapes, NEW item \in Items, Becomes(Handled(Now, item))
  PROVE  \/ ~conn /\ Idles
         \/ conn /\ tunnel.state = "handshake" /\ item.kind = "accept" /\ Accepts
         \/ conn /\ tunnel.state = "handshake" /\ Ends("failed")
         \/ conn /\ item.kind \in {"gone", "eof"} /\ Ends("failed")
         \/ conn /\ tunnel.state # "handshake" /\ FrameDoes(item)
<1>1. /\ tunnel = [state |-> tunnel.state, timer |-> tunnel.timer]
      /\ conn => tunnel.state # "closed"
      /\ Now.conn = conn /\ Now.state = tunnel.state
  BY DEF Shapes, Now
<1>2. CASE ~conn
  BY <1>1, <1>2 DEF Handled, Becomes, Now, Idles, Stays
<1>3. CASE conn /\ item.kind = "gone"
  <2>1. Becomes(Finish([Now EXCEPT !.conn = FALSE], "failed"))
    BY <1>1, <1>3 DEF Handled, Fail
  <2> QED
    BY <1>1, <1>3, <2>1 DEF Becomes, Finish, Now, Ends, Emit, One
<1>4. CASE conn /\ item.kind = "eof"
  <2>1. Becomes(Finish(Now, "failed"))
    BY <1>1, <1>4 DEF Handled, Fail
  <2> QED
    BY <1>1, <1>4, <2>1, FinishEffect
<1>5. CASE conn /\ item.kind \notin {"gone", "eof"} /\ tunnel.state = "handshake"
  <2>1. Becomes(Answered(Now, item))
    BY <1>1, <1>5 DEF Handled
  <2>2. CASE item.kind = "accept"
    <3>1. Becomes(Emit([Now EXCEPT !.state = "open"], "open", 0))
      BY <2>1, <2>2 DEF Answered
    <3>2. /\ tunnel' = [state |-> "open", timer |-> tunnel.timer]
          /\ conn' = conn /\ toServer' = toServer
          /\ down' = Append(down, Item("open", 0))
      BY <3>1 DEF Becomes, Emit, Now
    <3>3. tunnel' = [tunnel EXCEPT !.state = "open"]
      BY <1>1, <3>2
    <3> QED
      BY <1>5, <2>2, <3>2, <3>3 DEF Accepts, One
  <2>3. CASE item.kind # "accept"
    <3>1. Becomes(Finish(Now, "failed"))
      BY <2>1, <2>3 DEF Answered, Fail
    <3> QED
      BY <1>1, <1>5, <3>1, FinishEffect
  <2> QED
    BY <2>2, <2>3
<1>6. CASE conn /\ item.kind \notin {"gone", "eof"} /\ tunnel.state # "handshake"
  <2>1. Becomes(Framed(Now, item))
    BY <1>1, <1>6 DEF Handled
  <2> QED
    BY <1>6, <2>1, FrameEffect
<1> QED
  BY <1>2, <1>3, <1>4, <1>5, <1>6

\* A command of the page.
LEMMA CommandEffect ==
  ASSUME Shapes, Command
  PROVE  LET command == Head(up) IN
         \/ command.kind = "open" /\ Begins
         \/ command.kind = "open" /\ tunnel.state # "closed" /\ Ends("failed")
         \/ command.kind = "open" /\ tunnel.state = "closed" /\ Idles
         \/ command.kind = "send" /\ ~(conn /\ tunnel.state = "open") /\ Idles
         \/ command.kind = "send" /\ tunnel.state = "open" /\ Tells(Item("message", command.n))
         \/ command.kind = "close" /\ tunnel.state \in {"none", "closing", "closed"} /\ Idles
         \/ command.kind = "close" /\ tunnel.state = "handshake" /\ Ends("failed")
         \/ command.kind = "close" /\ Closing
<1> DEFINE command == Head(up)
<1>1. /\ tunnel = [state |-> tunnel.state, timer |-> tunnel.timer]
      /\ Now.conn = conn /\ Now.state = tunnel.state
  BY DEF Shapes, Now
<1>2. \/ command.kind = "open" /\ Becomes(Open(Now, server = "listening"))
      \/ command.kind = "send" /\ Becomes(Forward(Now, command.n))
      \/ command.kind = "close" /\ Becomes(CloseTunnel(Now))
  BY DEF Command
<1> HIDE DEF command
<1>3. CASE command.kind = "open" /\ Becomes(Open(Now, server = "listening"))
  <2>1. CASE server = "listening"
    BY <1>1, <1>3, <2>1 DEF Open, Becomes, Now, Begins, One, command
  <2>2. CASE server # "listening"
    <3>1. Becomes(Finish(Now, "failed"))
      BY <1>3, <2>2 DEF Open, Fail
    <3> QED
      BY <1>3, <3>1, FinishEffect DEF command
  <2> QED
    BY <2>1, <2>2
<1>4. CASE command.kind = "send" /\ Becomes(Forward(Now, command.n))
  BY <1>1, <1>4 DEF Forward, Write, Becomes, Now, Idles, Tells, Stays, command
<1>5. CASE command.kind = "close" /\ Becomes(CloseTunnel(Now))
  <2>1. CASE tunnel.state \in {"none", "closing", "closed"}
    BY <1>1, <1>5, <2>1 DEF CloseTunnel, Becomes, Now, Idles, Stays, command
  <2>2. CASE tunnel.state = "handshake"
    <3>1. Becomes(Finish(Now, "failed"))
      BY <1>1, <1>5, <2>2 DEF CloseTunnel, Fail
    <3> QED
      BY <1>5, <2>2, <3>1, FinishEffect DEF command
  <2>3. CASE tunnel.state = "open"
    BY <1>1, <1>5, <2>3 DEF CloseTunnel, Write, Becomes, Now, Closing, One, command
  <2> QED
    BY <2>1, <2>2, <2>3 DEF Shapes
<1> QED
  BY <1>2, <1>3, <1>4, <1>5

-----------------------------------------------------------------------------
(* Shapes, the opening and the one end.                                     *)

Base == Shapes /\ OpensFirst /\ EventsEndOnce

\* What may be in a channel.
LEMMA ItemsAre ==
  /\ \A kind \in Kinds : One(kind) \in Items
  /\ \A kind \in Kinds : \A n \in 0..MaxUp + MaxFrames : Item(kind, n) \in Items
  /\ \A item \in Items : item.kind \in Kinds /\ item.n \in 0..MaxUp + MaxFrames
                         /\ item = Item(item.kind, item.n)
<1>1. MaxUp \in Nat /\ MaxFrames \in Nat
  BY SocketAssumption
<1>2. 0 \in 0..MaxUp + MaxFrames
  BY <1>1
<1> QED
  BY <1>2 DEF One, Item, Items

\* A command: the first is the one that opens, and only it finds no tunnel.
LEMMA CommandDoes ==
  ASSUME Base, Command
  PROVE  LET command == Head(up) IN
         /\ up # <<>> /\ up' = Tail(up) /\ command \in Items /\ command = up[1] /\ chunk = <<>>
         /\ \/ command.kind = "open" /\ tunnel.state = "none" /\ Begins
            \/ command.kind = "open" /\ tunnel.state = "none" /\ Ends("failed")
            \/ command.kind = "send" /\ tunnel.state # "open" /\ Idles
            \/ command.kind = "send" /\ tunnel.state = "open" /\ Tells(Item("message", command.n))
            \/ command.kind = "close" /\ tunnel.state \in {"none", "closing", "closed"} /\ Idles
            \/ command.kind = "close" /\ tunnel.state = "handshake" /\ Ends("failed")
            \/ command.kind = "close" /\ conn /\ Closing
<1> DEFINE command == Head(up)
<1>1. up \in Seq(Items) /\ up # <<>> /\ up' = Tail(up) /\ chunk = <<>>
  BY DEF Base, Shapes, Command
<1>2. command \in Items /\ command = up[1] /\ 1 \in 1..Len(up)
  BY <1>1, Positions
<1>3. \/ command.kind = "open" /\ Begins
      \/ command.kind = "open" /\ tunnel.state # "closed" /\ Ends("failed")
      \/ command.kind = "open" /\ tunnel.state = "closed" /\ Idles
      \/ command.kind = "send" /\ ~(conn /\ tunnel.state = "open") /\ Idles
      \/ command.kind = "send" /\ tunnel.state = "open" /\ Tells(Item("message", command.n))
      \/ command.kind = "close" /\ tunnel.state \in {"none", "closing", "closed"} /\ Idles
      \/ command.kind = "close" /\ tunnel.state = "handshake" /\ Ends("failed")
      \/ command.kind = "close" /\ Closing
  BY CommandEffect DEF Base
<1> HIDE DEF command
<1>4. command.kind = "open" => tunnel.state = "none"
  BY <1>2 DEF Base, OpensFirst
<1>5. tunnel.state = "open" => conn
  BY DEF Base, OpensFirst
<1>6. Closing => tunnel.state = "open"
  BY DEF Closing
<1> QED
  BY <1>1, <1>2, <1>3, <1>4, <1>5, <1>6 DEF command

\* The first item of a chunk: there is a tunnel, and an answer that it waited for
\* is no longer awaited.
LEMMA NetEventDoes ==
  ASSUME Base, NetEvent
  PROVE  LET item == Head(toTunnel) IN
         /\ toTunnel # <<>> /\ item \in Items /\ chunk = <<>>
         /\ \E n \in 1..Len(toTunnel) :
              /\ n = 1 \/ \A i \in 1..n : toTunnel[i].kind \notin {"gone", "eof"}
              /\ chunk' = SubSeq(toTunnel, 2, n)
              /\ toTunnel' = SubSeq(toTunnel, n + 1, Len(toTunnel))
         /\ \/ tunnel.state = "closed" /\ Idles
            \/ tunnel.state = "handshake" /\ item.kind = "accept" /\ Accepts
            \/ conn /\ Ends("failed")
            \/ tunnel.state \in {"open", "closing"} /\ FrameDoes(item)
<1> DEFINE item == Head(toTunnel)
<1>1. PICK n \in 1..Len(toTunnel) :
        /\ n = 1 \/ \A i \in 1..n : toTunnel[i].kind \notin {"gone", "eof"}
        /\ chunk' = SubSeq(toTunnel, 2, n)
        /\ toTunnel' = SubSeq(toTunnel, n + 1, Len(toTunnel))
  BY DEF NetEvent
<1>2. toTunnel \in Seq(Items) /\ toTunnel # <<>>
  BY <1>1 DEF Base, Shapes
<1>3. item \in Items
  BY <1>2, Positions
<1>4. Becomes(Handled(Now, item)) /\ chunk = <<>>
  BY DEF NetEvent
<1> HIDE DEF item
<1>5. \/ ~conn /\ Idles
      \/ conn /\ tunnel.state = "handshake" /\ item.kind = "accept" /\ Accepts
      \/ conn /\ tunnel.state = "handshake" /\ Ends("failed")
      \/ conn /\ item.kind \in {"gone", "eof"} /\ Ends("failed")
      \/ conn /\ tunnel.state # "handshake" /\ FrameDoes(item)
  BY <1>3, <1>4, HandledEffect DEF Base
<1>6. /\ tunnel.state # "none"
      /\ conn <=> tunnel.state \in {"handshake", "open", "closing"}
      /\ tunnel.state \in {"none", "handshake", "open", "closing", "closed"}
  BY <1>2 DEF Base, Shapes, OpensFirst
<1>7. \/ tunnel.state = "closed" /\ Idles
      \/ tunnel.state = "handshake" /\ item.kind = "accept" /\ Accepts
      \/ conn /\ Ends("failed")
      \/ tunnel.state \in {"open", "closing"} /\ FrameDoes(item)
  BY <1>5, <1>6
<1> QED
  BY <1>1, <1>2, <1>3, <1>4, <1>7 DEF item

\* A frame behind it, and the timer.
LEMMA NextFrameDoes ==
  ASSUME Base, NextFrame
  PROVE  /\ chunk # <<>> /\ chunk' = Tail(chunk) /\ Head(chunk) \in Items
         /\ tunnel.state \in {"open", "closing", "closed"} /\ FrameDoes(Head(chunk))
<1>1. chunk \in Seq(Items) /\ chunk # <<>> /\ chunk' = Tail(chunk)
  BY DEF Base, Shapes, NextFrame
<1>2. Head(chunk) \in Items
  BY <1>1, Positions
<1>3. FrameDoes(Head(chunk))
  BY <1>2, FrameEffect DEF NextFrame, Base
<1>4. tunnel.state \in {"open", "closing", "closed"}
  BY <1>1 DEF Base, Shapes, OpensFirst, Before
<1> QED
  BY <1>1, <1>2, <1>3, <1>4

\* A close that is not answered ends the tunnel.
LEMMA CloseTimeoutDoes ==
  ASSUME Base, CloseTimeout
  PROVE  tunnel.state = "closing" /\ Ends("failed")
<1>1. tunnel.state = "closing" /\ Becomes(Finish(Now, "failed"))
  BY DEF Base, Shapes, CloseTimeout, Fail
<1> QED
  BY <1>1, FinishEffect DEF Base

\* The shapes of what the kernel changes.
LEMMA KernelShapes ==
  ASSUME Shapes,
         \/ Idles \/ (tunnel.state = "none" /\ Begins) \/ Accepts \/ Closing
         \/ Ends("clean") \/ Ends("failed")
         \/ \E item \in Items : Tells(item) \/ FrameDoes(item)
  PROVE  /\ tunnel' \in [state : {"none", "handshake", "open", "closing", "closed"},
                         timer : BOOLEAN]
         /\ conn' \in BOOLEAN /\ down' \in Seq(Items) /\ toServer' \in Seq(Items)
         /\ conn' => tunnel'.state \in {"handshake", "open", "closing"}
         /\ tunnel'.timer => tunnel'.state = "closing"
<1> DEFINE Good ==
      /\ tunnel' \in [state : {"none", "handshake", "open", "closing", "closed"},
                      timer : BOOLEAN]
      /\ conn' \in BOOLEAN /\ down' \in Seq(Items) /\ toServer' \in Seq(Items)
      /\ conn' => tunnel'.state \in {"handshake", "open", "closing"}
      /\ tunnel'.timer => tunnel'.state = "closing"
<1>1. /\ tunnel \in [state : {"none", "handshake", "open", "closing", "closed"},
                     timer : BOOLEAN]
      /\ conn \in BOOLEAN /\ down \in Seq(Items) /\ toServer \in Seq(Items)
      /\ conn => tunnel.state \in {"handshake", "open", "closing"}
      /\ tunnel.timer => tunnel.state = "closing"
  BY DEF Shapes
<1>2. \A kind \in {"open", "clean", "failed", "get", "gone", "close", "pong"} :
        One(kind) \in Items
  BY ItemsAre DEF Kinds
<1>3. \A s \in Seq(Items) : \A item \in Items : Append(s, item) \in Seq(Items)
  OBVIOUS
<1>4. ASSUME Stays, down' \in Seq(Items), toServer' \in Seq(Items) PROVE Good
  BY <1>1, <1>4 DEF Stays
<1>5. ASSUME NEW how \in {"clean", "failed"}, Ends(how) PROVE Good
  <2>1. down' \in Seq(Items)
    <3>1. One(how) \in Items
      BY <1>2
    <3> QED
      BY <1>1, <1>3, <1>5, <3>1 DEF Ends
  <2>2. toServer' \in Seq(Items)
    <3>1. Append(toServer, One("gone")) \in Seq(Items) /\ Append(toServer, One("close")) \in Seq(Items)
      BY <1>1, <1>2, <1>3
    <3>2. Append(Append(toServer, One("close")), One("gone")) \in Seq(Items)
      BY <1>2, <1>3, <3>1
    <3> QED
      BY <1>1, <1>5, <3>1, <3>2 DEF Ends
  <2> QED
    BY <1>5, <2>1, <2>2 DEF Ends
<1>6. ASSUME NEW item \in Items, Tells(item) PROVE Good
  BY <1>1, <1>3, <1>4, <1>6 DEF Tells
<1>7. ASSUME NEW item \in Items, FrameDoes(item) PROVE Good
  <2>1. CASE Idles
    BY <1>1, <1>4, <2>1 DEF Idles
  <2>2. CASE item.kind = "message" /\ Delivers(item.n)
    <3>1. Item("message", item.n) \in Items
      BY ItemsAre DEF Kinds
    <3> QED
      BY <1>1, <1>3, <1>4, <2>2, <3>1 DEF Delivers
  <2>3. CASE Tells(One("pong"))
    <3>1. One("pong") \in Items
      BY <1>2
    <3> QED
      BY <1>6, <2>3, <3>1
  <2>4. CASE Ends("clean") \/ Ends("failed")
    BY <1>5, <2>4
  <2> QED
    BY <1>7, <2>1, <2>2, <2>3, <2>4 DEF FrameDoes
<1>8. CASE Idles
  BY <1>1, <1>4, <1>8 DEF Idles
<1>9. CASE tunnel.state = "none" /\ Begins
  BY <1>1, <1>2, <1>3, <1>9 DEF Begins
<1>10. CASE Accepts
  BY <1>1, <1>2, <1>3, <1>10 DEF Accepts
<1>11. CASE Closing
  <2>1. down' \in Seq(Items) /\ toServer' \in Seq(Items) /\ conn' = conn
    BY <1>1, <1>2, <1>3, <1>11 DEF Closing
  <2> QED
    BY <1>1, <1>11, <2>1 DEF Closing
<1> QED
  BY <1>5, <1>6, <1>7, <1>8, <1>9, <1>10, <1>11

\* What the kernel's actions leave alone, and the shapes of what they change.
LEMMA KernelKeepsShapes ==
  ASSUME Base, Command \/ NetEvent \/ NextFrame \/ CloseTimeout
  PROVE  /\ tunnel' \in [state : {"none", "handshake", "open", "closing", "closed"},
                         timer : BOOLEAN]
         /\ conn' \in BOOLEAN /\ down' \in Seq(Items) /\ toServer' \in Seq(Items)
         /\ conn' => tunnel'.state \in {"handshake", "open", "closing"}
         /\ tunnel'.timer => tunnel'.state = "closing"
         /\ up' \in Seq(Items) /\ chunk' \in Seq(Items) /\ toTunnel' \in Seq(Items)
         /\ UNCHANGED <<pageVars, serverVars>>
<1>1. /\ up \in Seq(Items) /\ chunk \in Seq(Items) /\ toTunnel \in Seq(Items)
      /\ UNCHANGED <<pageVars, serverVars>>
  BY DEF Base, Shapes, Command, NetEvent, NextFrame, CloseTimeout
<1>2. CASE Command
  <2>1. up' \in Seq(Items) /\ chunk' = chunk /\ toTunnel' = toTunnel
    BY <1>1, <1>2 DEF Command
  <2>2. Head(up) \in Items /\ Head(up).kind = "send" => Item("message", Head(up).n) \in Items
    BY <1>2, CommandDoes, ItemsAre DEF Kinds
  <2>3. \/ Idles \/ (tunnel.state = "none" /\ Begins) \/ Accepts \/ Closing
        \/ Ends("clean") \/ Ends("failed")
        \/ \E item \in Items : Tells(item) \/ FrameDoes(item)
    BY <1>2, <2>2, CommandDoes
  <2> QED
    BY <1>1, <2>1, <2>3, KernelShapes DEF Base
<1>3. CASE NetEvent
  <2>1. PICK n \in 1..Len(toTunnel) :
             /\ chunk' = SubSeq(toTunnel, 2, n)
             /\ toTunnel' = SubSeq(toTunnel, n + 1, Len(toTunnel))
    BY <1>3 DEF NetEvent
  <2>2. up' = up /\ chunk' \in Seq(Items) /\ toTunnel' \in Seq(Items)
    BY <1>1, <1>3, <2>1 DEF NetEvent
  <2>3. \/ Idles \/ (tunnel.state = "none" /\ Begins) \/ Accepts \/ Closing
        \/ Ends("clean") \/ Ends("failed")
        \/ \E item \in Items : Tells(item) \/ FrameDoes(item)
    BY <1>3, NetEventDoes
  <2> QED
    BY <1>1, <2>2, <2>3, KernelShapes DEF Base
<1>4. CASE NextFrame
  <2>1. up' = up /\ chunk' \in Seq(Items) /\ toTunnel' = toTunnel
    BY <1>1, <1>4 DEF NextFrame
  <2>2. \E item \in Items : Tells(item) \/ FrameDoes(item)
    BY <1>4, NextFrameDoes
  <2> QED
    BY <1>1, <2>1, <2>2, KernelShapes DEF Base
<1>5. CASE CloseTimeout
  <2>1. up' = up /\ chunk' = chunk /\ toTunnel' = toTunnel
    BY <1>5 DEF CloseTimeout
  <2> QED
    BY <1>1, <1>5, <2>1, CloseTimeoutDoes, KernelShapes DEF Base
<1> QED
  BY <1>2, <1>3, <1>4, <1>5

\* Every step keeps the shapes.
LEMMA ShapesKept ==
  ASSUME Base, [Next]_vars
  PROVE  Shapes'
<1> USE DEF Base
<1>1. /\ MaxUp \in Nat /\ MaxFrames \in Nat
      /\ \A kind \in Kinds : One(kind) \in Items
      /\ \A kind \in Kinds : \A n \in 0..MaxUp + MaxFrames : Item(kind, n) \in Items
      /\ \A item \in Items : item.n \in Nat
      /\ \A s \in Seq(Items) : \A item \in Items : Append(s, item) \in Seq(Items)
      /\ \A s \in Seq(Items) : s # <<>> => Tail(s) \in Seq(Items) /\ Head(s) \in Items
  BY ItemsAre, SocketAssumption
<1>2. CASE Send
  <2>0. sentUp' \in 0..MaxUp /\ sentUp' \in 0..MaxUp + MaxFrames
    BY <1>1, <1>2 DEF Send, Shapes
  <2>1. sentUp' \in 0..MaxUp /\ Item("send", sentUp') \in Items
    BY <1>1, <2>0 DEF Kinds
  <2>2. Append(page.queue, Item("send", sentUp')) \in Seq(Items)
    BY <1>1, <2>1 DEF Shapes
  <2> QED
    BY <1>2, <2>1, <2>2
    DEF Send, Shapes, PageUnchanged, kernelVars, serverVars
<1>3. CASE Close
  <2>1. Append(page.queue, One("close")) \in Seq(Items)
    BY <1>1 DEF Shapes, Kinds
  <2> QED
    BY <1>3, <2>1 DEF Close, Shapes, PageUnchanged, kernelVars, serverVars
<1>4. CASE Flush
  <2>1. Tail(page.queue) \in Seq(Items) /\ up' \in Seq(Items)
    BY <1>1, <1>4 DEF Flush, Shapes
  <2> QED
    BY <1>4, <2>1 DEF Flush, Shapes, PageUnchanged, kernelVars, serverVars
<1>5. CASE Abandon
  <2>1. up' \in Seq(Items)
    BY <1>1, <1>5 DEF Abandon, Shapes, Kinds
  <2> QED
    BY <1>5, <2>1 DEF Abandon, Shapes, PageUnchanged, kernelVars, serverVars
<1>6. CASE Receive
  <2>1. down' \in Seq(Items) /\ Head(down).n \in Nat
    BY <1>1, <1>6 DEF Receive, Shapes
  <2>2. gotDown' \in Seq(Nat)
    <3>1. gotDown' = gotDown \/ gotDown' = Append(gotDown, Head(down).n)
      BY <1>6 DEF Receive
    <3>2. gotDown \in Seq(Nat) /\ \A n \in Nat : Append(gotDown, n) \in Seq(Nat)
      BY DEF Shapes
    <3> QED
      BY <2>1, <3>1, <3>2
  <2>3. /\ page' \in [state : {"connecting", "open", "closing", "closed"}, queue : Seq(Items),
                      outcome : {"none", "clean", "failed", "left"}]
        /\ page'.outcome = "none" <=> page'.state # "closed"
    BY <1>6 DEF Receive, Shapes
  <2> QED
    BY <1>6, <2>1, <2>2, <2>3 DEF Receive, Shapes, PageUnchanged, kernelVars, serverVars
<1>7. CASE Command \/ NetEvent \/ NextFrame \/ CloseTimeout
  BY <1>7, KernelKeepsShapes DEF Shapes, pageVars, serverVars
<1>8. CASE ServerTakes
  <2>1. toServer' \in Seq(Items) /\ gotUp' \in Seq(Nat)
    BY <1>1, <1>8 DEF ServerTakes, Shapes
  <2> QED
    BY <1>8, <2>1 DEF ServerTakes, Shapes, ServerUnchanged, pageVars, kernelVars
<1>9. CASE ServerAnswers \/ ServerEchoes \/ ServerLeaves
  <2>1. \E kind \in {"accept", "refuse", "close", "eof", "gone"} :
             toTunnel' = Append(toTunnel, One(kind))
    BY <1>9 DEF ServerAnswers, ServerEchoes, ServerLeaves
  <2>2. \A kind \in {"accept", "refuse", "close", "eof", "gone"} : One(kind) \in Items
    BY <1>1 DEF Kinds
  <2>3. toTunnel' \in Seq(Items)
    BY <1>1, <2>1, <2>2 DEF Shapes
  <2>4. UNCHANGED <<pageVars, up, down, kernelVars, toServer, frames, sentDown, gotUp, serverEnds>>
    BY <1>9 DEF ServerAnswers, ServerEchoes, ServerLeaves, ServerUnchanged
  <2> QED
    BY <2>3, <2>4 DEF Shapes, pageVars, kernelVars
<1>10. CASE ServerWrites
  <2>1. frames' = frames + 1 /\ frames' \in 0..MaxFrames /\ sentDown \in 0..frames'
        /\ sentDown + 1 \in 0..frames' /\ sentDown + 1 \in 0..MaxUp + MaxFrames
    BY <1>1, <1>10 DEF ServerWrites, Shapes
  <2>2. Item("message", sentDown + 1) \in Items
    BY <1>1, <2>1 DEF Kinds
  <2>3. \A kind \in {"ping", "bad", "close"} : One(kind) \in Items
    BY <1>1 DEF Kinds
  <2>4. toTunnel' \in Seq(Items) /\ sentDown' \in 0..frames' /\ serverEnds' \in BOOLEAN
    <3>1. CASE /\ sentDown' = sentDown + 1
               /\ toTunnel' = Append(toTunnel, Item("message", sentDown'))
               /\ UNCHANGED serverEnds
      BY <1>1, <2>1, <2>2, <3>1 DEF Shapes
    <3>2. CASE \E kind \in {"ping", "bad", "close"} :
                 /\ toTunnel' = Append(toTunnel, One(kind))
                 /\ serverEnds' = (kind = "close")
                 /\ UNCHANGED sentDown
      BY <1>1, <2>1, <2>3, <3>2 DEF Shapes
    <3> QED
      BY <1>10, <3>1, <3>2 DEF ServerWrites
  <2> QED
    BY <1>10, <2>1, <2>4 DEF ServerWrites, Shapes, ServerUnchanged, pageVars, kernelVars
<1>11. CASE ServerDies
  <2>1. One("gone") \in Items
    BY <1>1 DEF Kinds
  <2>2. toTunnel' \in Seq(Items)
    <3>1. PICK k \in 0..Len(toTunnel) :
               toTunnel' = IF conn THEN Append(SubSeq(toTunnel, 1, k), One("gone")) ELSE <<>>
      BY <1>11 DEF ServerDies
    <3>2. SubSeq(toTunnel, 1, k) \in Seq(Items)
      BY DEF Shapes
    <3> QED
      BY <1>1, <2>1, <3>1, <3>2
  <2> QED
    BY <1>11, <2>2 DEF ServerDies, Shapes, ServerUnchanged, pageVars, kernelVars
<1>12. CASE FlushFails \/ UNCHANGED vars
  <2>1. stuck' \in BOOLEAN
    BY <1>12 DEF FlushFails, vars, pageVars, Shapes
  <2> QED
    BY <1>12, <2>1, RejectionIsQuiet DEF SocketStays, Shapes
<1> QED
  BY <1>2, <1>3, <1>4, <1>5, <1>6, <1>7, <1>8, <1>9, <1>10, <1>11, <1>12 DEF Next

\* What the kernel's actions tell the page, and the state they leave.
LEMMA KernelTells ==
  ASSUME Base, Command \/ NetEvent \/ NextFrame \/ CloseTimeout
  PROVE  \/ down' = down /\ (tunnel.state = "closed" => tunnel'.state = "closed")
            /\ (~Before => ~Before')
            /\ (Before => /\ Command
                          /\ \/ tunnel'.state = tunnel.state /\ toServer' = toServer
                             \/ tunnel'.state = "handshake")
            /\ (tunnel.state # "none" => tunnel'.state # "none" /\ conn' = conn)
         \/ /\ tunnel.state # "closed" /\ tunnel'.state = "open" /\ tunnel.state # "none"
            /\ \E item \in Items : item.kind \in {"open", "message"} /\ down' = Append(down, item)
                                   /\ (Before => item.kind = "open")
         \/ /\ tunnel.state # "closed" /\ tunnel'.state = "closed"
            /\ \E item \in Items : item.kind \in {"clean", "failed"} /\ down' = Append(down, item)
                                   /\ (Before => item.kind = "failed")
<1> DEFINE Quiet ==
      /\ down' = down /\ (tunnel.state = "closed" => tunnel'.state = "closed")
      /\ (~Before => ~Before')
      /\ (Before => /\ Command
                    /\ \/ tunnel'.state = tunnel.state /\ toServer' = toServer
                       \/ tunnel'.state = "handshake")
      /\ (tunnel.state # "none" => tunnel'.state # "none" /\ conn' = conn)
           Opened ==
      /\ tunnel.state # "closed" /\ tunnel'.state = "open" /\ tunnel.state # "none"
      /\ \E item \in Items : item.kind \in {"open", "message"} /\ down' = Append(down, item)
                             /\ (Before => item.kind = "open")
           Ended ==
      /\ tunnel.state # "closed" /\ tunnel'.state = "closed"
      /\ \E item \in Items : item.kind \in {"clean", "failed"} /\ down' = Append(down, item)
                             /\ (Before => item.kind = "failed")
<1>1. /\ \A kind \in {"open", "clean", "failed"} : One(kind) \in Items /\ One(kind).kind = kind
      /\ \A n \in 0..MaxUp + MaxFrames :
           Item("message", n) \in Items /\ Item("message", n).kind = "message"
      /\ \A item \in Items : item.n \in 0..MaxUp + MaxFrames
  BY ItemsAre DEF Kinds, One, Item
<1>2. /\ tunnel \in [state : {"none", "handshake", "open", "closing", "closed"}, timer : BOOLEAN]
      /\ conn <=> tunnel.state \in {"handshake", "open", "closing"}
  BY DEF Base, Shapes, OpensFirst
<1>3. ASSUME NEW how \in {"clean", "failed"}, Ends(how), Before => how = "failed" PROVE Ended
  <2>1. One(how) \in Items /\ One(how).kind = how
    BY <1>1
  <2> QED
    BY <1>3, <2>1 DEF Ends
<1>4. ASSUME ~Before, NEW item \in Items, FrameDoes(item) PROVE Quiet \/ Opened \/ Ended
  <2>1. CASE Idles \/ Tells(One("pong"))
    BY <1>4, <2>1 DEF Idles, Tells, Stays, Before
  <2>2. CASE Delivers(item.n)
    BY <1>1, <1>4, <2>2 DEF Delivers, Stays, Before
  <2>3. CASE Ends("clean") \/ Ends("failed")
    BY <1>3, <1>4, <2>3
  <2> QED
    BY <1>4, <2>1, <2>2, <2>3 DEF FrameDoes
<1>5. CASE Command
  <2>1. CASE tunnel.state = "none" /\ Begins
    BY <1>2, <1>5, <2>1 DEF Begins, Before
  <2>2. CASE Ends("failed")
    BY <1>3, <2>2
  <2>3. CASE Idles
    BY <1>5, <2>3 DEF Idles, Stays, Before
  <2>4. CASE tunnel.state = "open" /\ Tells(Item("message", Head(up).n))
    BY <1>2, <2>4 DEF Tells, Stays, Before
  <2>5. CASE Closing
    BY <1>2, <2>5 DEF Closing, Before
  <2> QED
    BY <1>5, <2>1, <2>2, <2>3, <2>4, <2>5, CommandDoes
<1>6. CASE NetEvent
  <2>1. CASE tunnel.state = "closed" /\ Idles
    BY <2>1 DEF Idles, Stays, Before
  <2>2. CASE Accepts
    BY <1>1, <1>2, <2>2 DEF Accepts
  <2>3. CASE Ends("failed")
    BY <1>3, <2>3
  <2>4. CASE tunnel.state \in {"open", "closing"} /\ FrameDoes(Head(toTunnel))
    <3>1. Head(toTunnel) \in Items
      BY <1>6, NetEventDoes
    <3> QED
      BY <1>4, <2>4, <3>1 DEF Before
  <2> QED
    BY <1>6, <2>1, <2>2, <2>3, <2>4, NetEventDoes
<1>7. CASE NextFrame
  <2>1. ~Before
    BY <1>7, NextFrameDoes DEF Before
  <2> QED
    BY <1>4, <1>7, <2>1, NextFrameDoes
<1>8. CASE CloseTimeout
  <2>1. Ends("failed")
    BY <1>8, CloseTimeoutDoes
  <2> QED
    BY <1>3, <2>1
<1> QED
  BY <1>5, <1>6, <1>7, <1>8

\* One end, and nothing behind it.
LEMMA EventsEndKept ==
  ASSUME Base, [Next]_vars
  PROVE  EventsEndOnce'
<1>1. /\ down \in Seq(Items)
      /\ \A i \in 1..Len(down) : down[i].kind \in {"clean", "failed"} =>
           i = Len(down) /\ tunnel.state = "closed" /\ page.outcome \notin {"clean", "failed"}
      /\ page.outcome \in {"clean", "failed"} => tunnel.state = "closed"
  BY DEF Base, Shapes, EventsEndOnce, OpensFirst
<1>2. CASE Receive
  <2>1. /\ down # <<>> /\ down' = Tail(down) /\ tunnel' = tunnel
        /\ page'.outcome = page.outcome \/ page'.outcome = Head(down).kind
    BY <1>2 DEF Receive, PageUnchanged, kernelVars, Base, Shapes
  <2>2. /\ Len(down) \in Nat /\ Len(down) > 0 /\ Len(down') = Len(down) - 1 /\ Head(down) = down[1]
        /\ \A i \in 1..Len(down) - 1 : down'[i] = down[i + 1]
    BY <1>1, <2>1, Positions
  <2> SUFFICES ASSUME NEW i \in 1..Len(down'), down'[i].kind \in {"clean", "failed"}
               PROVE  i = Len(down') /\ tunnel'.state = "closed"
                      /\ page'.outcome \notin {"clean", "failed"}
    BY DEF EventsEndOnce
  <2>3. i + 1 \in 1..Len(down) /\ down[i + 1] = down'[i] /\ 1 \in 1..Len(down) /\ 1 # Len(down)
    BY <2>2
  <2>4. /\ i + 1 = Len(down) /\ tunnel.state = "closed" /\ page.outcome \notin {"clean", "failed"}
        /\ Head(down).kind \notin {"clean", "failed"}
    BY <1>1, <2>2, <2>3
  <2>5. i = Len(down')
    BY <2>2, <2>4
  <2>6. tunnel'.state = "closed" /\ page'.outcome \notin {"clean", "failed"}
    BY <2>1, <2>4
  <2> QED
    BY <2>5, <2>6
<1>3. CASE Command \/ NetEvent \/ NextFrame \/ CloseTimeout
  <2>1. page' = page
    BY <1>3, KernelKeepsShapes DEF pageVars
  <2>2. CASE down' = down /\ (tunnel.state = "closed" => tunnel'.state = "closed")
    BY <1>1, <2>1, <2>2 DEF EventsEndOnce
  <2>3. ASSUME tunnel.state # "closed", NEW item \in Items, down' = Append(down, item),
               item.kind \in {"clean", "failed"} => tunnel'.state = "closed"
        PROVE  EventsEndOnce'
    <3>1. /\ Len(down) \in Nat /\ Len(down') = Len(down) + 1 /\ down'[Len(down) + 1] = item
          /\ \A i \in 1..Len(down) : down'[i] = down[i]
      BY <1>1, <2>3, Positions
    <3> SUFFICES ASSUME NEW i \in 1..Len(down'), down'[i].kind \in {"clean", "failed"}
                 PROVE  i = Len(down') /\ tunnel'.state = "closed"
                        /\ page'.outcome \notin {"clean", "failed"}
      BY DEF EventsEndOnce
    <3>2. i \notin 1..Len(down)
      BY <1>1, <2>3, <3>1
    <3>3. i = Len(down')
      BY <3>1, <3>2
    <3>4. page.outcome \notin {"clean", "failed"} /\ tunnel'.state = "closed"
      BY <1>1, <2>3, <3>1, <3>3
    <3> QED
      BY <2>1, <3>3, <3>4
  <2> QED
    BY <1>3, <2>2, <2>3, KernelTells
<1>4. CASE UNCHANGED <<down, tunnel, page>>
  BY <1>1, <1>4 DEF EventsEndOnce
<1>5. CASE Send \/ Close \/ Flush
  <2>1. UNCHANGED <<down, tunnel>> /\ page'.outcome = page.outcome
    BY <1>5 DEF Send, Close, Flush, PageUnchanged, kernelVars, Base, Shapes
  <2> QED
    BY <1>1, <2>1 DEF EventsEndOnce
<1>6. CASE Abandon
  <2>1. UNCHANGED <<down, tunnel>> /\ page'.outcome = "left"
    BY <1>6 DEF Abandon, PageUnchanged, kernelVars, Base, Shapes
  <2> QED
    BY <1>1, <2>1 DEF EventsEndOnce
<1>7. ServerTakes \/ ServerAnswers \/ ServerWrites \/ ServerEchoes \/ ServerLeaves \/ ServerDies
        \/ UNCHANGED vars => UNCHANGED <<down, tunnel, page>>
  BY DEF ServerTakes, ServerAnswers, ServerWrites, ServerEchoes, ServerLeaves, ServerDies,
         ServerUnchanged, vars, pageVars, kernelVars
<1>8. FlushFails => UNCHANGED <<down, tunnel, page>>
  BY RejectionIsQuiet DEF SocketStays
<1> QED
  BY <1>2, <1>3, <1>4, <1>5, <1>6, <1>7, <1>8 DEF Next

\* The connection is there as long as the tunnel is in use.
LEMMA KernelConnects ==
  ASSUME Base, Command \/ NetEvent \/ NextFrame \/ CloseTimeout
  PROVE  conn' <=> tunnel'.state \in {"handshake", "open", "closing"}
<1> DEFINE Good == conn' <=> tunnel'.state \in {"handshake", "open", "closing"}
<1>1. /\ conn <=> tunnel.state \in {"handshake", "open", "closing"}
      /\ tunnel \in [state : {"none", "handshake", "open", "closing", "closed"}, timer : BOOLEAN]
  BY DEF Base, OpensFirst, Shapes
<1>2. Stays => Good
  BY <1>1 DEF Stays
<1>3. Idles \/ (\E item : Tells(item)) \/ (\E n : Delivers(n)) => Good
  BY <1>2 DEF Idles, Tells, Delivers
<1>4. Ends("clean") \/ Ends("failed") => Good
  BY DEF Ends
<1>5. Begins \/ Accepts \/ (conn /\ Closing) => Good
  BY <1>1 DEF Begins, Accepts, Closing
<1>6. \A item : FrameDoes(item) => Good
  BY <1>3, <1>4 DEF FrameDoes
<1> QED
  BY <1>3, <1>4, <1>5, <1>6, CommandDoes, NetEventDoes, NextFrameDoes, CloseTimeoutDoes

\* The front of a channel.
LEMMA Fronts ==
  ASSUME NEW s \in Seq(Items), NEW e \in Items
  PROVE  /\ Append(s, e) # <<>>
         /\ s # <<>> => Head(Append(s, e)) = Head(s)
         /\ s = <<>> => Head(Append(s, e)) = e
OBVIOUS

\* The opening is kept by the page,
LEMMA OpensKeptByPage ==
  ASSUME Base, Send \/ Close \/ Flush \/ Abandon \/ Receive
  PROVE  OpensFirst'
<1>1. /\ page.queue \in Seq(Items) /\ up \in Seq(Items) /\ down \in Seq(Items)
      /\ page \in [state : {"connecting", "open", "closing", "closed"}, queue : Seq(Items),
                   outcome : {"none", "clean", "failed", "left"}]
      /\ page.outcome = "none" <=> page.state # "closed"
      /\ EventsEndOnce
  BY DEF Base, Shapes
<1>2. /\ \A i \in 1..Len(page.queue) : page.queue[i].kind \in {"send", "close"}
      /\ \A i \in 1..Len(up) : up[i].kind = "open" => i = 1 /\ tunnel.state = "none"
      /\ tunnel.state = "none" =>
           toTunnel = <<>> /\ toServer = <<>> /\ server \in {"listening", "gone"}
      /\ Before => chunk = <<>> /\ down = <<>>
      /\ conn <=> tunnel.state \in {"handshake", "open", "closing"}
      /\ page.state = "connecting" /\ ~Before =>
           down # <<>> /\ Head(down).kind \in {"open", "failed"}
      /\ page.outcome \in {"clean", "failed"} => tunnel.state = "closed"
  BY DEF Base, OpensFirst
<1>3. UNCHANGED <<tunnel, conn, chunk, toServer, toTunnel, server>> /\ (Before' <=> Before)
  BY DEF Send, Close, Flush, Abandon, Receive, PageUnchanged, kernelVars, serverVars, Before
<1>4. ASSUME NEW e \in Items, e.kind \in {"send", "close"}, up' = Append(up, e)
      PROVE  \A i \in 1..Len(up') : up'[i].kind = "open" => i = 1 /\ tunnel'.state = "none"
  <2>1. /\ Len(up) \in Nat /\ Len(up') = Len(up) + 1 /\ up'[Len(up) + 1] = e
        /\ \A i \in 1..Len(up) : up'[i] = up[i]
    BY <1>1, <1>4, Positions
  <2>2. \A i \in 1..Len(up') : i \in 1..Len(up) \/ up'[i] = e
    BY <2>1
  <2> QED
    BY <1>2, <1>3, <1>4, <2>1, <2>2
<1>5. ASSUME NEW e \in Items, e.kind \in {"send", "close"}, page'.queue = Append(page.queue, e)
      PROVE  \A i \in 1..Len(page'.queue) : page'.queue[i].kind \in {"send", "close"}
  <2>1. /\ Len(page.queue) \in Nat /\ Len(page'.queue) = Len(page.queue) + 1
        /\ page'.queue[Len(page.queue) + 1] = e
        /\ \A i \in 1..Len(page.queue) : page'.queue[i] = page.queue[i]
    BY <1>1, <1>5, Positions
  <2>2. \A i \in 1..Len(page'.queue) : i \in 1..Len(page.queue) \/ page'.queue[i] = e
    BY <2>1
  <2> QED
    BY <1>2, <1>5, <2>1, <2>2
<1>6. One("close") \in Items /\ One("close").kind = "close"
  BY ItemsAre DEF Kinds, One, Item
<1>7. CASE Send
  <2>1. page' = [page EXCEPT !.queue = Append(@, Item("send", sentUp'))] /\ UNCHANGED <<up, down>>
    BY <1>7 DEF Send
  <2>2. Item("send", sentUp') \in Items
    <3>1. sentUp' \in 0..MaxUp + MaxFrames
      BY <1>7, SocketAssumption DEF Send, Base, Shapes
    <3> QED
      BY <3>1, ItemsAre DEF Kinds
  <2>3. /\ page'.queue = Append(page.queue, Item("send", sentUp')) /\ page'.state = page.state
        /\ page'.outcome = page.outcome /\ Item("send", sentUp').kind = "send"
    BY <1>1, <2>1 DEF Item
  <2>4. \A i \in 1..Len(page'.queue) : page'.queue[i].kind \in {"send", "close"}
    BY <1>5, <2>2, <2>3
  <2> QED
    BY <1>2, <1>3, <2>1, <2>3, <2>4 DEF OpensFirst
<1>8. CASE Close
  <2>1. UNCHANGED <<up, down>> /\ page' = [page EXCEPT !.state = "closing",
                                                      !.queue = Append(@, One("close"))]
    BY <1>8 DEF Close
  <2>2. /\ page'.queue = Append(page.queue, One("close")) /\ page'.state = "closing"
        /\ page'.outcome = page.outcome
    BY <1>1, <2>1
  <2>3. \A i \in 1..Len(page'.queue) : page'.queue[i].kind \in {"send", "close"}
    BY <1>5, <1>6, <2>2
  <2> QED
    BY <1>2, <1>3, <2>1, <2>2, <2>3 DEF OpensFirst
<1>9. CASE Flush
  <2>1. /\ page.queue # <<>> /\ page' = [page EXCEPT !.queue = Tail(@)] /\ UNCHANGED down
        /\ up' = up \/ up' = Append(up, Head(page.queue))
    BY <1>9 DEF Flush
  <2>2. /\ page'.queue = Tail(page.queue) /\ page'.state = page.state
        /\ page'.outcome = page.outcome
    BY <1>1, <2>1
  <2>3. /\ Len(page.queue) \in Nat /\ Len(page.queue) > 0
        /\ Len(page'.queue) = Len(page.queue) - 1 /\ Head(page.queue) = page.queue[1]
        /\ \A i \in 1..Len(page.queue) - 1 : page'.queue[i] = page.queue[i + 1]
        /\ Head(page.queue) \in Items
    BY <1>1, <2>1, <2>2, Positions
  <2>4. \A i \in 1..Len(page'.queue) : i + 1 \in 1..Len(page.queue)
                                       /\ page'.queue[i] = page.queue[i + 1]
    BY <2>3
  <2>5. 1 \in 1..Len(page.queue)
    BY <2>3
  <2>6. \A i \in 1..Len(page'.queue) : page'.queue[i].kind \in {"send", "close"}
    BY <1>2, <2>4
  <2>7. Head(page.queue).kind \in {"send", "close"}
    BY <1>2, <2>3, <2>5
  <2>8. \A i \in 1..Len(up') : up'[i].kind = "open" => i = 1 /\ tunnel'.state = "none"
    BY <1>2, <1>3, <1>4, <2>1, <2>3, <2>7
  <2> QED
    BY <1>2, <1>3, <2>1, <2>2, <2>6, <2>8 DEF OpensFirst
<1>10. CASE Abandon
  <2>1. /\ page' = [page EXCEPT !.state = "closed", !.outcome = "left"] /\ UNCHANGED down
        /\ up' = Append(up, One("close"))
    BY <1>10 DEF Abandon
  <2>2. page'.queue = page.queue /\ page'.state = "closed" /\ page'.outcome = "left"
    BY <1>1, <2>1
  <2>3. \A i \in 1..Len(up') : up'[i].kind = "open" => i = 1 /\ tunnel'.state = "none"
    BY <1>4, <1>6, <2>1
  <2> QED
    BY <1>2, <1>3, <2>1, <2>2, <2>3 DEF OpensFirst
<1>11. CASE Receive
  <2>1. down # <<>> /\ down' = Tail(down) /\ up' = up
    BY <1>11 DEF Receive
  <2>2. page'.queue = page.queue
    BY <1>1, <1>11 DEF Receive
  <2>3. page'.state # "connecting"
    BY <1>1, <1>2, <1>11 DEF Receive
  <2>4. page'.outcome \in {"clean", "failed"} => tunnel.state = "closed"
    <3>1. Head(down) = down[1] /\ 1 \in 1..Len(down)
      BY <1>1, <2>1
    <3>2. Head(down).kind \in {"clean", "failed"} => tunnel.state = "closed"
      BY <1>1, <3>1 DEF EventsEndOnce
    <3>3. page'.outcome = page.outcome \/ page'.outcome = Head(down).kind
      BY <1>1, <1>11 DEF Receive
    <3> QED
      BY <1>2, <3>2, <3>3
  <2> QED
    BY <1>2, <1>3, <2>1, <2>2, <2>3, <2>4 DEF OpensFirst
<1> QED
  BY <1>7, <1>8, <1>9, <1>10, <1>11

\* by the kernel,
LEMMA OpensKeptByKernel ==
  ASSUME Base, Command \/ NetEvent \/ NextFrame \/ CloseTimeout
  PROVE  OpensFirst'
<1>1. up \in Seq(Items) /\ down \in Seq(Items) /\ toServer \in Seq(Items) /\ toTunnel \in Seq(Items)
  BY DEF Base, Shapes
<1>2. /\ \A i \in 1..Len(page.queue) : page.queue[i].kind \in {"send", "close"}
      /\ \A i \in 1..Len(up) : up[i].kind = "open" => i = 1 /\ tunnel.state = "none"
      /\ tunnel.state = "none" =>
           toTunnel = <<>> /\ toServer = <<>> /\ server \in {"listening", "gone"}
      /\ Before => chunk = <<>> /\ down = <<>>
      /\ page.state = "connecting" /\ ~Before =>
           down # <<>> /\ Head(down).kind \in {"open", "failed"}
      /\ page.outcome \in {"clean", "failed"} => tunnel.state = "closed"
  BY DEF Base, OpensFirst
<1>3. page' = page /\ server' = server
  BY KernelKeepsShapes DEF pageVars, serverVars
<1>4. conn' <=> tunnel'.state \in {"handshake", "open", "closing"}
  BY KernelConnects
<1>5. Command => up # <<>> /\ up' = Tail(up) /\ chunk' = chunk /\ toTunnel' = toTunnel
  BY DEF Command
<1>6. ~Command => up' = up /\ tunnel.state # "none"
  BY <1>2, NetEventDoes, NextFrameDoes, CloseTimeoutDoes DEF NetEvent, NextFrame, CloseTimeout
<1>7. \A i \in 1..Len(up') : up'[i].kind = "open" => i = 1 /\ tunnel'.state = "none"
  <2>1. CASE Command
    <3>1. /\ Len(up) \in Nat /\ Len(up') = Len(up) - 1
          /\ \A i \in 1..Len(up) - 1 : up'[i] = up[i + 1]
      BY <1>1, <1>5, <2>1, Positions
    <3>2. \A i \in 1..Len(up') : i + 1 \in 1..Len(up) /\ i + 1 # 1 /\ up'[i] = up[i + 1]
      BY <3>1
    <3> QED
      BY <1>2, <3>2
  <2>2. CASE ~Command
    BY <1>2, <1>6, <2>2
  <2> QED
    BY <2>1, <2>2
<1>8. CASE /\ down' = down /\ (tunnel.state = "closed" => tunnel'.state = "closed")
           /\ (~Before => ~Before')
           /\ (Before => /\ Command
                         /\ \/ tunnel'.state = tunnel.state /\ toServer' = toServer
                            \/ tunnel'.state = "handshake")
           /\ (tunnel.state # "none" => tunnel'.state # "none" /\ conn' = conn)
  <2>1. tunnel'.state = "none" => tunnel.state = "none" /\ toServer' = toServer /\ toTunnel' = toTunnel
    BY <1>5, <1>8 DEF Before
  <2>2. Before' => Before /\ chunk' = chunk
    BY <1>5, <1>8
  <2>3. Before => Before'
    BY <1>8 DEF Before
  <2> QED
    BY <1>2, <1>3, <1>4, <1>7, <1>8, <2>1, <2>2, <2>3 DEF OpensFirst
<1>9. ASSUME ~Before', tunnel'.state # "none", tunnel.state # "closed",
             NEW item \in Items, down' = Append(down, item),
             Before => item.kind \in {"open", "failed"}
      PROVE  OpensFirst'
  <2>1. down' # <<>> /\ (Before => Head(down') = item) /\ (down # <<>> => Head(down') = Head(down))
    BY <1>1, <1>2, <1>9, Fronts
  <2>2. page'.state = "connecting" => down' # <<>> /\ Head(down').kind \in {"open", "failed"}
    BY <1>2, <1>3, <1>9, <2>1
  <2> QED
    BY <1>2, <1>3, <1>4, <1>7, <1>9, <2>2 DEF OpensFirst
<1>10. tunnel'.state \in {"open", "closed"} => ~Before' /\ tunnel'.state # "none"
  BY DEF Before
<1> QED
  BY <1>8, <1>9, <1>10, KernelTells

\* and by the server, which has nothing to say before it is asked.
LEMMA OpensKeptByServer ==
  ASSUME Base, \/ ServerTakes \/ ServerAnswers \/ ServerWrites \/ ServerEchoes
               \/ ServerLeaves \/ ServerDies
  PROVE  OpensFirst'
<1>1. UNCHANGED <<page, up, down, tunnel, conn, chunk>> /\ (Before' <=> Before)
  BY DEF ServerTakes, ServerAnswers, ServerWrites, ServerEchoes, ServerLeaves, ServerDies,
         ServerUnchanged, pageVars, kernelVars, Before
<1>2. tunnel.state = "none" => ~conn /\ toTunnel = <<>> /\ toServer = <<>>
                               /\ server \in {"listening", "gone"}
  BY DEF Base, OpensFirst
<1>3. tunnel'.state = "none" => toTunnel' = <<>> /\ toServer' = <<>>
                                /\ server' \in {"listening", "gone"}
  BY <1>1, <1>2
  DEF ServerTakes, ServerAnswers, ServerWrites, ServerEchoes, ServerLeaves, ServerDies
<1> QED
  BY <1>1, <1>3 DEF Base, OpensFirst

\* So the base holds throughout.
LEMMA BaseHolds == Spec => []Base
<1>1. Init => Base
  <2> SUFFICES ASSUME Init PROVE Base
    OBVIOUS
  <2>1. One("open") \in Items /\ <<>> \in Seq(Items) /\ <<>> \in Seq(Nat) /\ 0 \in 0..0
        /\ 0 \in 0..MaxUp /\ 0 \in 0..MaxFrames /\ One("open").kind = "open"
    BY ItemsAre, SocketAssumption DEF Kinds, One, Item
  <2>2. up \in Seq(Items) /\ Len(up) = 1 /\ up[1] = One("open")
    BY <2>1 DEF Init
  <2>3. Shapes
    BY <2>1, <2>2 DEF Init, Shapes
  <2>4. OpensFirst
    <3>1. \A i \in 1..Len(up) : i = 1
      BY <2>2
    <3>2. tunnel.state = "none" /\ page.state = "connecting" /\ page.outcome = "none"
          /\ page.queue = <<>> /\ down = <<>> /\ chunk = <<>> /\ ~conn
          /\ toTunnel = <<>> /\ toServer = <<>> /\ server = "listening"
      BY DEF Init
    <3>3. Len(page.queue) = 0
      BY <3>2
    <3> QED
      BY <3>1, <3>2, <3>3 DEF OpensFirst, Before
  <2>5. EventsEndOnce
    BY DEF Init, EventsEndOnce
  <2> QED
    BY <2>3, <2>4, <2>5 DEF Base
<1>2. Base /\ [Next]_vars => Base'
  <2> SUFFICES ASSUME Base, [Next]_vars PROVE Base'
    OBVIOUS
  <2>1. OpensFirst'
    <3>1. CASE FlushFails \/ UNCHANGED vars
      BY <3>1, RejectionIsQuiet DEF SocketStays, Base, OpensFirst, Before
    <3> QED
      BY <3>1, OpensKeptByPage, OpensKeptByKernel, OpensKeptByServer DEF Next
  <2> QED
    BY <2>1, ShapesKept, EventsEndKept DEF Base
<1> QED
  BY <1>1, <1>2, PTL DEF Spec

\* The shapes of a socket, its host's channels and its tunnel: a connection
\* belongs to a tunnel in use, and the close timer to its closing.
THEOREM SocketTypeCorrect == Spec => []TypeOK
<1>1. Base => TypeOK
  <2> SUFFICES ASSUME Base PROVE TypeOK
    OBVIOUS
  <2>1. sentDown \in 0..MaxFrames
    BY SocketAssumption DEF Base, Shapes
  <2> QED
    BY <2>1 DEF Base, Shapes, TypeOK
<1> QED
  BY <1>1, BaseHolds, PTL

\* The kernel emits one close event per socket and nothing after it, whichever
\* of the page, the server, the timer and a broken frame ends it (finish).
THEOREM SocketEndsOnce == Spec => []EventsEndOnce
<1>1. Base => EventsEndOnce
  BY DEF Base
<1> QED
  BY <1>1, BaseHolds, PTL

-----------------------------------------------------------------------------
(* Messages in order, and what a clean close says.                          *)

\* One item or two of these kinds are put behind the others, or none.
Behind(s, t, kinds) ==
  \/ t = s
  \/ \E a \in Items : a.kind \in kinds /\ t = Append(s, a)
  \/ \E a \in Items, b \in Items : a.kind \in kinds /\ b.kind \in kinds /\ t = Append(Append(s, a), b)

\* Items of other kinds behind a channel change nothing in what it carries.
LEMMA BehindCarries ==
  ASSUME NEW s \in Seq(Items), NEW t, NEW kinds, Behind(s, t, kinds), NEW kind, kind \notin kinds,
         NEW lo \in Nat, NEW hi \in Nat, lo <= hi, Carries(s, kind, lo, hi)
  PROVE  Carries(t, kind, lo, hi)
<1>1. ASSUME NEW r \in Seq(Items), Carries(r, kind, lo, hi), NEW a \in Items, a.kind \in kinds
      PROVE  Append(r, a) \in Seq(Items) /\ Carries(Append(r, a), kind, lo, hi)
  BY <1>1, AppendCarries
<1>2. CASE \E a \in Items : a.kind \in kinds /\ t = Append(s, a)
  BY <1>1, <1>2
<1>3. CASE \E a \in Items, b \in Items :
             a.kind \in kinds /\ b.kind \in kinds /\ t = Append(Append(s, a), b)
  <2>1. PICK a \in Items, b \in Items :
             a.kind \in kinds /\ b.kind \in kinds /\ t = Append(Append(s, a), b)
    BY <1>3
  <2>2. Append(s, a) \in Seq(Items) /\ Carries(Append(s, a), kind, lo, hi)
    BY <1>1, <2>1
  <2> QED
    BY <1>1, <2>1, <2>2
<1> QED
  BY <1>2, <1>3 DEF Behind

\* Items put behind a queue are the only new ones.
LEMMA BehindHas ==
  ASSUME NEW s \in Seq(Items), NEW t, NEW kinds, Behind(s, t, kinds), NEW kind, kind \notin kinds
  PROVE  Has(t, kind) <=> Has(s, kind)
<1>1. ASSUME NEW r \in Seq(Items), NEW a \in Items, a.kind \in kinds
      PROVE  Append(r, a) \in Seq(Items) /\ (Has(Append(r, a), kind) <=> Has(r, kind))
  BY <1>1, HasAppend
<1>2. CASE \E a \in Items : a.kind \in kinds /\ t = Append(s, a)
  BY <1>1, <1>2
<1>3. CASE \E a \in Items, b \in Items :
             a.kind \in kinds /\ b.kind \in kinds /\ t = Append(Append(s, a), b)
  <2>1. PICK a \in Items, b \in Items :
             a.kind \in kinds /\ b.kind \in kinds /\ t = Append(Append(s, a), b)
    BY <1>3
  <2>2. Append(s, a) \in Seq(Items) /\ (Has(Append(s, a), kind) <=> Has(s, kind))
    BY <1>1, <2>1
  <2> QED
    BY <1>1, <2>1, <2>2
<1> QED
  BY <1>2, <1>3 DEF Behind

\* Items put behind a queue leave the order of the others.
LEMMA BehindNone ==
  ASSUME NEW s \in Seq(Items), NEW t, NEW kinds, Behind(s, t, kinds), NEW first, NEW other,
         first \notin kinds, other \notin kinds, NoneAfter(s, first, other)
  PROVE  NoneAfter(t, first, other)
<1>1. ASSUME NEW r \in Seq(Items), NoneAfter(r, first, other), NEW a \in Items, a.kind \in kinds
      PROVE  Append(r, a) \in Seq(Items) /\ NoneAfter(Append(r, a), first, other)
  BY <1>1, NoneAppend
<1>2. CASE \E a \in Items : a.kind \in kinds /\ t = Append(s, a)
  BY <1>1, <1>2
<1>3. CASE \E a \in Items, b \in Items :
             a.kind \in kinds /\ b.kind \in kinds /\ t = Append(Append(s, a), b)
  <2>1. PICK a \in Items, b \in Items :
             a.kind \in kinds /\ b.kind \in kinds /\ t = Append(Append(s, a), b)
    BY <1>3
  <2>2. Append(s, a) \in Seq(Items) /\ NoneAfter(Append(s, a), first, other)
    BY <1>1, <2>1
  <2> QED
    BY <1>1, <2>1, <2>2
<1> QED
  BY <1>2, <1>3 DEF Behind

\* A chunk and what is left: the channel behind its first item, cut.
LEMMA ChunkIs ==
  ASSUME Base, NetEvent
  PROVE  /\ Tail(toTunnel) \in Seq(Items)
         /\ \E m \in 0..Len(Tail(toTunnel)) :
              /\ chunk' = SubSeq(Tail(toTunnel), 1, m)
              /\ toTunnel' = SubSeq(Tail(toTunnel), m + 1, Len(Tail(toTunnel)))
<1>1. toTunnel \in Seq(Items) /\ toTunnel # <<>>
  BY NetEventDoes DEF Base, Shapes
<1>2. PICK n \in 1..Len(toTunnel) :
             /\ chunk' = SubSeq(toTunnel, 2, n)
             /\ toTunnel' = SubSeq(toTunnel, n + 1, Len(toTunnel))
  BY NetEventDoes
<1>3. Len(toTunnel) \in Nat /\ Len(toTunnel) > 0 /\ n \in Nat /\ 1 <= n /\ n <= Len(toTunnel)
  BY <1>1
<1>4. Tail(toTunnel) \in Seq(Items) /\ Len(Tail(toTunnel)) = Len(toTunnel) - 1
  BY <1>1
<1>5. n - 1 \in 0..Len(Tail(toTunnel))
  BY <1>3, <1>4
<1>6. SubSeq(toTunnel, 2, n) = SubSeq(Tail(toTunnel), 1, n - 1)
  BY <1>1, <1>3
<1>7. SubSeq(toTunnel, n + 1, Len(toTunnel))
        = SubSeq(Tail(toTunnel), (n - 1) + 1, Len(Tail(toTunnel)))
  BY <1>1, <1>3, <1>4
<1> QED
  BY <1>2, <1>4, <1>5, <1>6, <1>7

\* What the kernel's other actions tell the server, and what is left to read.
LEMMA KernelServes ==
  ASSUME Base, NetEvent \/ NextFrame \/ CloseTimeout
  PROVE  /\ UNCHANGED <<pageVars, up, serverVars>>
         /\ \/ Telling' /\ Telling /\ Behind(toServer, toServer', {"pong"})
               /\ (Before' => Before)
            \/ tunnel'.state = "closing" /\ tunnel.state = "closing"
               /\ Behind(toServer, toServer', {"pong"})
            \/ tunnel'.state = "closed" /\ Behind(toServer, toServer', {"pong", "gone", "close"})
         /\ \A kind : Has(chunk', kind) \/ Has(toTunnel', kind) => Has(chunk, kind) \/ Has(toTunnel, kind)
<1> DEFINE Serves ==
      \/ Telling' /\ Telling /\ Behind(toServer, toServer', {"pong"})
         /\ (Before' => Before)
      \/ tunnel'.state = "closing" /\ tunnel.state = "closing"
         /\ Behind(toServer, toServer', {"pong"})
      \/ tunnel'.state = "closed" /\ Behind(toServer, toServer', {"pong", "gone", "close"})
<1>1. UNCHANGED <<pageVars, up, serverVars>>
  BY DEF NetEvent, NextFrame, CloseTimeout
<1>2. /\ tunnel \in [state : {"none", "handshake", "open", "closing", "closed"}, timer : BOOLEAN]
      /\ toTunnel \in Seq(Items) /\ chunk \in Seq(Items)
      /\ \A kind \in {"pong", "gone", "close"} : One(kind) \in Items /\ One(kind).kind = kind
  BY ItemsAre DEF Base, Shapes, Kinds, One, Item
<1>3. ASSUME Stays, Behind(toServer, toServer', {"pong"}) PROVE Serves
  <2>1. Behind(toServer, toServer', {"pong", "gone", "close"})
    BY <1>3 DEF Behind
  <2> QED
    BY <1>2, <1>3, <2>1 DEF Stays, Telling, Before
<1>4. ASSUME NEW how \in {"clean", "failed"}, Ends(how) PROVE Serves
  <2>1. Behind(toServer, toServer', {"pong", "gone", "close"})
    <3>1. CASE toServer' = toServer
      BY <3>1 DEF Behind
    <3>2. CASE toServer' = Append(toServer, One("gone"))
      BY <1>2, <3>2 DEF Behind
    <3>3. CASE toServer' = Append(Append(toServer, One("close")), One("gone"))
      <4>1. /\ One("close") \in Items /\ One("gone") \in Items
            /\ One("close").kind = "close" /\ One("gone").kind = "gone"
        BY <1>2
      <4> QED
        BY <3>3, <4>1 DEF Behind
    <3> QED
      BY <1>4, <3>1, <3>2, <3>3 DEF Ends
  <2> QED
    BY <1>4, <2>1 DEF Ends
<1>5. ASSUME NEW item \in Items, FrameDoes(item) PROVE Serves
  <2>1. CASE Idles
    BY <1>3, <2>1 DEF Idles, Behind
  <2>2. CASE Delivers(item.n)
    BY <1>3, <2>2 DEF Delivers, Behind
  <2>3. CASE Tells(One("pong"))
    <3>1. Behind(toServer, toServer', {"pong"})
      BY <1>2, <2>3 DEF Tells, Behind
    <3> QED
      BY <1>3, <2>3, <3>1 DEF Tells
  <2>4. CASE Ends("clean") \/ Ends("failed")
    BY <1>4, <2>4
  <2> QED
    BY <1>5, <2>1, <2>2, <2>3, <2>4 DEF FrameDoes
<1>6. CASE NetEvent
  <2>1. Serves
    <3>1. CASE Idles
      BY <1>3, <3>1 DEF Idles, Behind
    <3>2. CASE Accepts
      BY <3>2 DEF Accepts, Behind, Telling, Before
    <3>3. CASE Ends("failed")
      BY <1>4, <3>3
    <3>4. CASE FrameDoes(Head(toTunnel))
      BY <1>5, <1>6, <3>4, NetEventDoes
    <3> QED
      BY <1>6, <3>1, <3>2, <3>3, <3>4, NetEventDoes
  <2>2. PICK m \in 0..Len(Tail(toTunnel)) :
               /\ chunk' = SubSeq(Tail(toTunnel), 1, m)
               /\ toTunnel' = SubSeq(Tail(toTunnel), m + 1, Len(Tail(toTunnel)))
    BY <1>6, ChunkIs
  <2>3. Tail(toTunnel) \in Seq(Items) /\ toTunnel # <<>>
    BY <1>6, ChunkIs, NetEventDoes
  <2>4. ASSUME NEW kind, Has(chunk', kind) \/ Has(toTunnel', kind)
        PROVE  Has(chunk, kind) \/ Has(toTunnel, kind)
    <3>1. Has(Tail(toTunnel), kind)
      BY <2>2, <2>3, <2>4, HasParts
    <3> QED
      BY <1>2, <2>3, <3>1, HasTail
  <2> QED
    BY <1>1, <2>1, <2>4
<1>7. CASE NextFrame
  <2>1. Serves
    BY <1>5, <1>7, NextFrameDoes
  <2>2. chunk # <<>> /\ chunk' = Tail(chunk) /\ toTunnel' = toTunnel
    BY <1>7 DEF NextFrame
  <2>3. ASSUME NEW kind, Has(chunk', kind) PROVE Has(chunk, kind)
    BY <1>2, <2>2, <2>3, HasTail
  <2> QED
    BY <1>1, <2>1, <2>2, <2>3
<1>8. CASE CloseTimeout
  <2>1. Serves
    BY <1>4, <1>8, CloseTimeoutDoes
  <2>2. UNCHANGED <<chunk, toTunnel>>
    BY <1>8 DEF CloseTimeout
  <2> QED
    BY <1>1, <2>1, <2>2
<1> QED
  BY <1>6, <1>7, <1>8

\* The order of the messages up is kept by the page,
LEMMA UpKeptByPage ==
  ASSUME Base, UpInOrder, Send \/ Close \/ Flush \/ Abandon \/ Receive
  PROVE  UpInOrder'
<1>1. /\ page \in [state : {"connecting", "open", "closing", "closed"}, queue : Seq(Items),
                   outcome : {"none", "clean", "failed", "left"}]
      /\ up \in Seq(Items) /\ toServer \in Seq(Items) /\ down \in Seq(Items)
      /\ Len(gotUp) \in Nat /\ sentUp \in Nat
      /\ page.outcome \in {"clean", "failed"} => tunnel.state = "closed"
      /\ Before => down = <<>>
  BY SocketAssumption DEF Base, Shapes, OpensFirst
<1>2. Before => sentUp = 0 /\ page.state # "open"
  BY DEF UpInOrder
<1>3. PICK f \in Len(gotUp)..sentUp :
             /\ Carries(toServer, "message", Len(gotUp), f)
             /\ Telling => \E g \in f..sentUp :
                  Carries(up, "send", f, g) /\ Carries(page.queue, "send", g, sentUp)
  BY DEF UpInOrder
<1>4. /\ UNCHANGED <<toServer, gotUp>> /\ (Before' <=> Before) /\ (Telling' <=> Telling)
  BY DEF Send, Close, Flush, Abandon, Receive, PageUnchanged, kernelVars, serverVars, Before, Telling
<1>5. One("close") \in Items /\ One("close").kind # "send"
  BY ItemsAre DEF Kinds, One, Item
<1>6. CASE Send
  <2>1. /\ sentUp' = sentUp + 1 /\ up' = up /\ page.state = "open"
        /\ page' = [page EXCEPT !.queue = Append(@, Item("send", sentUp + 1))]
        /\ sentUp + 1 \in 0..MaxUp + MaxFrames
    BY <1>1, <1>6, SocketAssumption DEF Send
  <2>2. page'.queue = Append(page.queue, Item("send", sentUp + 1))
    BY <1>1, <2>1
  <2>3. Item("send", sentUp + 1) \in Items /\ Item("send", sentUp + 1).kind = "send"
        /\ Item("send", sentUp + 1).n = sentUp + 1
    BY <2>1, ItemsAre DEF Kinds, Item
  <2>4. ASSUME NEW g \in f..sentUp, Carries(page.queue, "send", g, sentUp)
        PROVE  g \in f..sentUp' /\ Carries(page'.queue, "send", g, sentUp')
    <3>1. g \in Nat /\ g <= sentUp /\ page.queue \in Seq(Items)
      BY <1>1
    <3>2. Carries(Append(page.queue, Item("send", sentUp + 1)), "send", g, sentUp + 1)
      BY <1>1, <2>3, <2>4, <3>1, AppendCarries
    <3> QED
      BY <1>1, <2>1, <2>2, <3>1, <3>2
  <2>5. f \in Len(gotUp)..sentUp' /\ ~Before
    BY <1>1, <1>2, <2>1
  <2> QED
    BY <1>3, <1>4, <2>1, <2>4, <2>5 DEF UpInOrder
<1>7. CASE Close
  <2>1. /\ UNCHANGED <<sentUp, up>>
        /\ page' = [page EXCEPT !.state = "closing", !.queue = Append(@, One("close"))]
    BY <1>7 DEF Close
  <2>2. page'.queue = Append(page.queue, One("close")) /\ page'.state = "closing"
    BY <1>1, <2>1
  <2>3. ASSUME NEW g \in f..sentUp, Carries(page.queue, "send", g, sentUp)
        PROVE  Carries(page'.queue, "send", g, sentUp)
    <3>1. g \in Nat /\ g <= sentUp /\ page.queue \in Seq(Items)
      BY <1>1
    <3> QED
      BY <1>1, <1>5, <2>2, <2>3, <3>1, AppendCarries
  <2> QED
    BY <1>2, <1>3, <1>4, <2>1, <2>2, <2>3 DEF UpInOrder
<1>8. CASE Flush
  <2>1. /\ page.queue # <<>> /\ sentUp' = sentUp
        /\ page' = [page EXCEPT !.queue = Tail(@)]
        /\ page.outcome \notin {"clean", "failed"} => up' = Append(up, Head(page.queue))
    BY <1>8 DEF Flush
  <2>2. page'.queue = Tail(page.queue) /\ page'.state = page.state
    BY <1>1, <2>1
  <2>3. CASE ~Telling
    BY <1>2, <1>3, <1>4, <2>1, <2>2, <2>3 DEF UpInOrder
  <2>4. CASE Telling
    <3>1. PICK g \in f..sentUp :
                 Carries(up, "send", f, g) /\ Carries(page.queue, "send", g, sentUp)
      BY <1>3, <2>4
    <3>2. f \in Nat /\ g \in Nat /\ f <= g /\ g <= sentUp /\ page.queue \in Seq(Items)
          /\ Head(page.queue) \in Items
      BY <1>1, <2>1
    <3>3. up' = Append(up, Head(page.queue))
      BY <1>1, <2>1, <2>4 DEF Telling
    <3>4. CASE Head(page.queue).kind # "send"
      <4>1. Carries(up', "send", f, g)
        BY <1>1, <3>1, <3>2, <3>3, <3>4, AppendCarries
      <4>2. Carries(page'.queue, "send", g, sentUp)
        BY <1>1, <2>1, <2>2, <3>1, <3>2, <3>4, TakeCarries
      <4> QED
        BY <1>2, <1>3, <1>4, <2>1, <2>2, <4>1, <4>2 DEF UpInOrder
    <3>5. CASE Head(page.queue).kind = "send"
      <4>1. Head(page.queue).n = g + 1 /\ g + 1 <= sentUp
            /\ Carries(page'.queue, "send", g + 1, sentUp)
        BY <1>1, <2>1, <2>2, <3>1, <3>2, <3>5, TakeCarries
      <4>2. Carries(up', "send", f, g + 1)
        BY <1>1, <3>1, <3>2, <3>3, <3>5, <4>1, AppendCarries
      <4>3. g + 1 \in f..sentUp
        BY <1>1, <3>2, <4>1
      <4> QED
        BY <1>2, <1>3, <1>4, <2>1, <2>2, <4>1, <4>2, <4>3 DEF UpInOrder
    <3> QED
      BY <3>4, <3>5
  <2> QED
    BY <2>3, <2>4
<1>9. CASE Abandon
  <2>1. /\ sentUp' = sentUp /\ up' = Append(up, One("close"))
        /\ page' = [page EXCEPT !.state = "closed", !.outcome = "left"]
    BY <1>9 DEF Abandon
  <2>2. page'.queue = page.queue /\ page'.state = "closed"
    BY <1>1, <2>1
  <2>3. ASSUME NEW g \in f..sentUp, Carries(up, "send", f, g)
        PROVE  Carries(up', "send", f, g)
    <3>1. f \in Nat /\ g \in Nat /\ f <= g
      BY <1>1
    <3> QED
      BY <1>1, <1>5, <2>1, <2>3, <3>1, AppendCarries
  <2> QED
    BY <1>2, <1>3, <1>4, <2>1, <2>2, <2>3 DEF UpInOrder
<1>10. CASE Receive
  <2>1. UNCHANGED <<sentUp, up>> /\ page'.queue = page.queue /\ down # <<>>
    BY <1>1, <1>10 DEF Receive
  <2>2. ~Before
    BY <1>1, <2>1
  <2> QED
    BY <1>3, <1>4, <2>1, <2>2 DEF UpInOrder
<1> QED
  BY <1>6, <1>7, <1>8, <1>9, <1>10

\* by the kernel,
LEMMA UpKeptByKernel ==
  ASSUME Base, UpInOrder, Command \/ NetEvent \/ NextFrame \/ CloseTimeout
  PROVE  UpInOrder'
<1>1. /\ up \in Seq(Items) /\ toServer \in Seq(Items) /\ Len(gotUp) \in Nat /\ sentUp \in Nat
      /\ tunnel \in [state : {"none", "handshake", "open", "closing", "closed"}, timer : BOOLEAN]
  BY SocketAssumption DEF Base, Shapes
<1>2. Before => sentUp = 0 /\ page.state # "open"
  BY DEF UpInOrder
<1>3. PICK f \in Len(gotUp)..sentUp :
             /\ Carries(toServer, "message", Len(gotUp), f)
             /\ Telling => \E g \in f..sentUp :
                  Carries(up, "send", f, g) /\ Carries(page.queue, "send", g, sentUp)
  BY DEF UpInOrder
<1>4. UNCHANGED <<page, sentUp, gotUp>> /\ f \in Nat /\ Len(gotUp) <= f
  BY <1>1, KernelKeepsShapes DEF pageVars, serverVars
<1>5. ASSUME NEW kinds, Behind(toServer, toServer', kinds), "message" \notin kinds
      PROVE  Carries(toServer', "message", Len(gotUp), f)
  BY <1>1, <1>3, <1>4, <1>5, BehindCarries
<1>6. CASE NetEvent \/ NextFrame \/ CloseTimeout
  <2>1. /\ up' = up
        /\ Behind(toServer, toServer', {"pong", "gone", "close"}) \/ Behind(toServer, toServer', {"pong"})
        /\ Telling' => Telling
        /\ Before' => Before
    BY <1>6, KernelServes DEF Telling, Before
  <2>2. Carries(toServer', "message", Len(gotUp), f)
    BY <1>5, <2>1
  <2> QED
    BY <1>2, <1>3, <1>4, <2>1, <2>2 DEF UpInOrder
<1>7. CASE Command
  <2> DEFINE command == Head(up)
  <2>1. /\ up # <<>> /\ up' = Tail(up) /\ command \in Items
        /\ \/ command.kind = "open" /\ tunnel.state = "none" /\ Begins
           \/ command.kind = "open" /\ tunnel.state = "none" /\ Ends("failed")
           \/ command.kind = "send" /\ tunnel.state # "open" /\ Idles
           \/ command.kind = "send" /\ tunnel.state = "open" /\ Tells(Item("message", command.n))
           \/ command.kind = "close" /\ tunnel.state \in {"none", "closing", "closed"} /\ Idles
           \/ command.kind = "close" /\ tunnel.state = "handshake" /\ Ends("failed")
           \/ command.kind = "close" /\ conn /\ Closing
    BY <1>7, CommandDoes
  <2> DEFINE Rest(g) == Carries(up', "send", f, g) /\ Carries(page.queue, "send", g, sentUp)
  <2>2. ASSUME Telling PROVE /\ command.kind # "send" => \E g \in f..sentUp : Rest(g)
                             /\ command.kind = "send" =>
                                  /\ command.n = f + 1 /\ f + 1 <= sentUp
                                  /\ \E g \in f + 1..sentUp :
                                       /\ Carries(up', "send", f + 1, g)
                                       /\ Carries(page.queue, "send", g, sentUp)
    <3>1. PICK g \in f..sentUp :
                 Carries(up, "send", f, g) /\ Carries(page.queue, "send", g, sentUp)
      BY <1>3, <2>2
    <3>2. g \in Nat /\ f <= g /\ g <= sentUp
      BY <1>1, <1>4
    <3>3. command.kind # "send" => Carries(up', "send", f, g)
      BY <1>1, <1>4, <2>1, <3>1, <3>2, TakeCarries
    <3>4. command.kind = "send" =>
            command.n = f + 1 /\ f + 1 <= g /\ Carries(up', "send", f + 1, g)
      BY <1>1, <1>4, <2>1, <3>1, <3>2, TakeCarries
    <3>5. f + 1 <= g => g \in f + 1..sentUp /\ f + 1 <= sentUp
      BY <1>1, <1>4, <3>2
    <3> QED
      BY <3>1, <3>3, <3>4, <3>5
  <2> HIDE DEF command
  <2>3. /\ \A kind \in {"get", "close", "gone"} : One(kind) \in Items /\ One(kind).kind = kind
        /\ command.n \in 0..MaxUp + MaxFrames /\ Item("message", command.n) \in Items
        /\ Item("message", command.n).kind = "message" /\ Item("message", command.n).n = command.n
    BY <2>1, ItemsAre DEF Kinds, One, Item
  <2>4. CASE command.kind = "open" /\ tunnel.state = "none" /\ Begins
    <3>1. Behind(toServer, toServer', {"get"}) /\ Telling
      BY <2>3, <2>4 DEF Begins, Behind, Telling
    <3>2. Carries(toServer', "message", Len(gotUp), f) /\ Before
      BY <1>5, <2>4, <3>1 DEF Before
    <3> QED
      BY <1>2, <1>3, <1>4, <2>2, <2>4, <3>1, <3>2 DEF UpInOrder
  <2>5. CASE Ends("failed")
    <3>1. Behind(toServer, toServer', {"gone", "close"})
      <4>1. CASE toServer' = toServer
        BY <4>1 DEF Behind
      <4>2. CASE toServer' = Append(toServer, One("gone"))
        BY <2>3, <4>2 DEF Behind
      <4>3. CASE toServer' = Append(Append(toServer, One("close")), One("gone"))
        <5>1. /\ One("close") \in Items /\ One("gone") \in Items
              /\ One("close").kind = "close" /\ One("gone").kind = "gone"
          BY <2>3
        <5> QED
          BY <4>3, <5>1 DEF Behind
      <4> QED
        BY <2>5, <4>1, <4>2, <4>3 DEF Ends
    <3>2. Carries(toServer', "message", Len(gotUp), f) /\ ~Telling' /\ ~Before'
      BY <1>5, <2>5, <3>1 DEF Ends, Telling, Before
    <3> QED
      BY <1>3, <1>4, <3>2 DEF UpInOrder
  <2>6. CASE command.kind = "send" /\ tunnel.state # "open" /\ Idles
    <3>1. toServer' = toServer /\ tunnel' = tunnel
      BY <2>6 DEF Idles, Stays
    <3>2. ~Telling
      BY <1>1, <1>2, <1>4, <2>2, <2>6 DEF Telling, Before
    <3> QED
      BY <1>3, <1>4, <3>1, <3>2 DEF UpInOrder, Telling, Before
  <2>7. CASE command.kind = "send" /\ tunnel.state = "open" /\ Tells(Item("message", command.n))
    <3>1. Telling /\ ~Before' /\ toServer' = Append(toServer, Item("message", command.n))
      BY <2>7 DEF Telling, Before, Tells, Stays
    <3>2. command.n = f + 1 /\ f + 1 <= sentUp
      BY <2>2, <2>7, <3>1
    <3>3. PICK g \in f + 1..sentUp : /\ Carries(up', "send", f + 1, g)
                                     /\ Carries(page.queue, "send", g, sentUp)
      BY <2>2, <2>7, <3>1
    <3>4. Carries(toServer', "message", Len(gotUp), f + 1)
      BY <1>1, <1>3, <1>4, <2>3, <3>1, <3>2, AppendCarries
    <3>5. f + 1 \in Len(gotUp)..sentUp
      BY <1>1, <1>4, <3>2
    <3> QED
      BY <1>4, <3>1, <3>3, <3>4, <3>5 DEF UpInOrder
  <2>8. CASE command.kind = "close" /\ Idles
    <3>1. toServer' = toServer /\ tunnel' = tunnel
      BY <2>8 DEF Idles, Stays
    <3>2. Telling' => \E g \in f..sentUp : Rest(g)
      BY <2>2, <2>8, <3>1 DEF Telling
    <3> QED
      BY <1>2, <1>3, <1>4, <3>1, <3>2 DEF UpInOrder, Before
  <2>9. CASE conn /\ Closing
    <3>1. Behind(toServer, toServer', {"close"}) /\ ~Telling' /\ ~Before'
      BY <2>3, <2>9 DEF Closing, Behind, Telling, Before
    <3>2. Carries(toServer', "message", Len(gotUp), f)
      BY <1>5, <3>1
    <3> QED
      BY <1>3, <1>4, <3>1, <3>2 DEF UpInOrder
  <2> QED
    BY <2>1, <2>4, <2>5, <2>6, <2>7, <2>8, <2>9
<1> QED
  BY <1>6, <1>7

\* and by the server; what it is given is the next message.
LEMMA ServerTakesNext ==
  ASSUME Base, UpInOrder, ServerTakes
  PROVE  /\ UpInOrder'
         /\ \/ gotUp' = gotUp
            \/ gotUp' = Append(gotUp, Len(gotUp) + 1) /\ Len(gotUp) < sentUp
<1>1. /\ toServer \in Seq(Items) /\ Len(gotUp) \in Nat /\ sentUp \in Nat /\ gotUp \in Seq(Nat)
  BY SocketAssumption DEF Base, Shapes
<1>2. Before => sentUp = 0 /\ page.state # "open"
  BY DEF UpInOrder
<1>3. PICK f \in Len(gotUp)..sentUp :
             /\ Carries(toServer, "message", Len(gotUp), f)
             /\ Telling => \E g \in f..sentUp :
                  Carries(up, "send", f, g) /\ Carries(page.queue, "send", g, sentUp)
  BY DEF UpInOrder
<1>4. /\ UNCHANGED <<page, sentUp, up, tunnel>>
      /\ toServer # <<>> /\ toServer' = Tail(toServer)
      /\ gotUp' = IF Head(toServer).kind = "message" THEN Append(gotUp, Head(toServer).n) ELSE gotUp
      /\ f \in Nat /\ Len(gotUp) <= f /\ f <= sentUp
      /\ (Before' <=> Before) /\ (Telling' <=> Telling)
  BY <1>1 DEF ServerTakes, ServerUnchanged, pageVars, kernelVars, Before, Telling
<1>5. CASE Head(toServer).kind # "message"
  <2>1. Carries(toServer', "message", Len(gotUp), f) /\ gotUp' = gotUp
    BY <1>1, <1>3, <1>4, <1>5, TakeCarries
  <2>2. UpInOrder'
    BY <1>2, <1>3, <1>4, <2>1 DEF UpInOrder
  <2> QED
    BY <2>1, <2>2
<1>6. CASE Head(toServer).kind = "message"
  <2>1. /\ Head(toServer).n = Len(gotUp) + 1 /\ Len(gotUp) + 1 <= f
        /\ Carries(toServer', "message", Len(gotUp) + 1, f)
    BY <1>1, <1>3, <1>4, <1>6, TakeCarries
  <2>2. gotUp' = Append(gotUp, Len(gotUp) + 1) /\ Len(gotUp') = Len(gotUp) + 1
    BY <1>1, <1>4, <1>6, <2>1
  <2>3. f \in Len(gotUp')..sentUp' /\ Len(gotUp) < sentUp
    BY <1>1, <1>4, <2>1, <2>2
  <2>4. Carries(toServer', "message", Len(gotUp'), f)
    BY <2>1, <2>2
  <2>5. UpInOrder'
    BY <1>2, <1>3, <1>4, <2>3, <2>4 DEF UpInOrder
  <2> QED
    BY <2>2, <2>3, <2>5
<1> QED
  BY <1>5, <1>6

\* No step loses, repeats or reorders a message to the server.
LEMMA UpKept ==
  ASSUME Base, UpInOrder, [Next]_vars
  PROVE  UpInOrder'
<1>1. CASE ServerAnswers \/ ServerWrites \/ ServerEchoes \/ ServerLeaves \/ ServerDies
           \/ FlushFails \/ UNCHANGED vars
  <2>1. UNCHANGED <<page, sentUp, up, tunnel, toServer, gotUp>>
    BY <1>1, RejectionIsQuiet DEF SocketStays, ServerAnswers, ServerWrites, ServerEchoes, ServerLeaves, ServerDies,
                ServerUnchanged, vars, pageVars, kernelVars, serverVars
  <2> QED
    BY <2>1 DEF UpInOrder, Before, Telling
<1> QED
  BY <1>1, UpKeptByPage, UpKeptByKernel, ServerTakesNext DEF Next

\* Nothing is behind what is not there.
LEMMA NoneWithout ==
  ASSUME NEW s, NEW first, NEW other, ~Has(s, first)
  PROVE  NoneAfter(s, first, other)
BY DEF Has, NoneAfter

\* That a close is behind the messages is kept by the page,
LEMMA CloseKeptByPage ==
  ASSUME Base, CloseIsBehind, Send \/ Close \/ Flush \/ Abandon \/ Receive
  PROVE  CloseIsBehind'
<1>1. /\ page \in [state : {"connecting", "open", "closing", "closed"}, queue : Seq(Items),
                   outcome : {"none", "clean", "failed", "left"}]
      /\ page.outcome = "none" <=> page.state # "closed"
      /\ up \in Seq(Items) /\ page.queue \in Seq(Items)
  BY DEF Base, Shapes
<1>2. /\ page.state \in {"connecting", "open"} => Telling \/ tunnel.state = "closed"
      /\ page.state \in {"connecting", "open"} => ~Has(up, "close") /\ ~Has(page.queue, "close")
      /\ page.state = "closing" /\ Telling =>
           /\ NoneAfter(up, "close", "send") /\ NoneAfter(page.queue, "close", "send")
           /\ Has(up, "close") => ~Has(page.queue, "send")
      /\ Telling => /\ ~Has(toServer, "close") /\ server # "closing"
                    /\ Answering => serverEnds
      /\ page.state = "closing" /\ tunnel.state = "closing" =>
           /\ Carries(toServer, "message", Len(gotUp), sentUp)
           /\ NoneAfter(toServer, "close", "message")
           /\ server = "closing" \/ (Answering /\ ~serverEnds) => Len(gotUp) = sentUp
  BY DEF CloseIsBehind
<1>3. /\ UNCHANGED <<tunnel, chunk, toServer, toTunnel, server, gotUp, serverEnds>>
      /\ (Telling' <=> Telling) /\ (Answering' <=> Answering)
  BY DEF Send, Close, Flush, Abandon, Receive, PageUnchanged, kernelVars, serverVars, Telling,
         Answering
<1>4. One("close") \in Items /\ One("close").kind = "close"
  BY ItemsAre DEF Kinds, One, Item
<1>5. Telling => tunnel.state # "closing" /\ tunnel.state # "closed"
  BY DEF Telling
<1>6. CASE Send
  <2>1. /\ page.state = "open" /\ up' = up
        /\ page' = [page EXCEPT !.queue = Append(@, Item("send", sentUp'))]
    BY <1>6 DEF Send
  <2>2. Item("send", sentUp') \in Items /\ Item("send", sentUp').kind = "send"
    <3>1. sentUp' \in 0..MaxUp + MaxFrames
      BY <1>6, SocketAssumption DEF Send, Base, Shapes
    <3> QED
      BY <3>1, ItemsAre DEF Kinds, Item
  <2>3. page'.queue = Append(page.queue, Item("send", sentUp')) /\ page'.state = "open"
    BY <1>1, <2>1
  <2>4. ~Has(page'.queue, "close")
    BY <1>1, <1>2, <2>1, <2>2, <2>3, HasAppend
  <2> QED
    BY <1>2, <1>3, <2>1, <2>3, <2>4 DEF CloseIsBehind
<1>7. CASE Close
  <2>1. /\ page.state \in {"connecting", "open"} /\ up' = up
        /\ page' = [page EXCEPT !.state = "closing", !.queue = Append(@, One("close"))]
    BY <1>7 DEF Close
  <2>2. page'.queue = Append(page.queue, One("close")) /\ page'.state = "closing"
    BY <1>1, <2>1
  <2>3. NoneAfter(page.queue, "close", "send") /\ NoneAfter(up, "close", "send")
    BY <1>2, <2>1, NoneWithout
  <2>4. NoneAfter(page'.queue, "close", "send")
    BY <1>1, <1>4, <2>2, <2>3, NoneAppend
  <2>5. ~Has(up', "close") /\ tunnel'.state # "closing"
    BY <1>2, <1>3, <1>5, <2>1
  <2> QED
    BY <1>2, <1>3, <2>1, <2>2, <2>3, <2>4, <2>5 DEF CloseIsBehind
<1>8. CASE Flush
  <2>1. /\ page.queue # <<>> /\ UNCHANGED sentUp
        /\ page' = [page EXCEPT !.queue = Tail(@)]
        /\ page.state # "closed" => up' = Append(up, Head(page.queue))
    BY <1>1, <1>8 DEF Flush
  <2>2. page'.queue = Tail(page.queue) /\ page'.state = page.state
    BY <1>1, <2>1
  <2>3. Head(page.queue) \in Items /\ Head(page.queue).kind \in {"send", "close"}
    <3>1. Head(page.queue) \in Items /\ Head(page.queue) = page.queue[1] /\ 1 \in 1..Len(page.queue)
      BY <1>1, <2>1
    <3> QED
      BY <3>1 DEF Base, OpensFirst
  <2>4. \A kind : Has(page.queue, kind) <=> Head(page.queue).kind = kind \/ Has(page'.queue, kind)
    BY <1>1, <2>1, <2>2, HasTail
  <2>5. page.state # "closed" =>
          \A kind : Has(up', kind) <=> Has(up, kind) \/ Head(page.queue).kind = kind
    BY <1>1, <2>1, <2>3, HasAppend
  <2>6. page.state \in {"connecting", "open"} => ~Has(up', "close") /\ ~Has(page'.queue, "close")
    BY <1>2, <2>4, <2>5
  <2>7. page.state = "closing" /\ Telling =>
           /\ NoneAfter(up', "close", "send") /\ NoneAfter(page'.queue, "close", "send")
           /\ Has(up', "close") => ~Has(page'.queue, "send")
    <3> SUFFICES ASSUME page.state = "closing", Telling
                 PROVE  /\ NoneAfter(up', "close", "send")
                        /\ NoneAfter(page'.queue, "close", "send")
                        /\ Has(up', "close") => ~Has(page'.queue, "send")
      OBVIOUS
    <3>1. /\ NoneAfter(up, "close", "send") /\ NoneAfter(page.queue, "close", "send")
          /\ Has(up, "close") => ~Has(page.queue, "send")
      BY <1>2
    <3>2. /\ NoneAfter(page'.queue, "close", "send")
          /\ Head(page.queue).kind = "close" => ~Has(page'.queue, "send")
      BY <1>1, <2>1, <2>2, <3>1, NoneTail
    <3>3. Has(up, "close") => Head(page.queue).kind # "send"
      BY <2>4, <3>1
    <3>4. NoneAfter(up', "close", "send")
      <4>1. up' = Append(up, Head(page.queue))
        BY <2>1
      <4>2. NoneAfter(Append(up, Head(page.queue)), "close", "send")
        BY <1>1, <2>3, <3>1, <3>3, NoneAppend
      <4> QED
        BY <4>1, <4>2
    <3> QED
      BY <2>4, <2>5, <3>1, <3>2, <3>4
  <2> QED
    BY <1>2, <1>3, <2>1, <2>2, <2>6, <2>7 DEF CloseIsBehind
<1>9. CASE Abandon
  <2>1. page'.state = "closed"
    BY <1>1, <1>9 DEF Abandon
  <2> QED
    BY <1>2, <1>3, <2>1 DEF CloseIsBehind
<1>10. CASE Receive
  <2>1. /\ UNCHANGED <<sentUp, up>> /\ page'.queue = page.queue
        /\ page'.state \in {"connecting", "open"} => page.state \in {"connecting", "open"}
        /\ page'.state = "closing" => page.state = "closing"
    BY <1>1, <1>10 DEF Receive
  <2> QED
    BY <1>2, <1>3, <2>1 DEF CloseIsBehind
<1> QED
  BY <1>6, <1>7, <1>8, <1>9, <1>10

\* by the kernel, whose own close frame goes out behind all of them,
LEMMA CloseKeptByKernel ==
  ASSUME Base, UpInOrder, CloseIsBehind, Command \/ NetEvent \/ NextFrame \/ CloseTimeout
  PROVE  CloseIsBehind'
<1>1. /\ up \in Seq(Items) /\ page.queue \in Seq(Items) /\ toServer \in Seq(Items)
      /\ Len(gotUp) \in Nat /\ sentUp \in Nat
      /\ page.state \in {"connecting", "open", "closing", "closed"}
      /\ tunnel \in [state : {"none", "handshake", "open", "closing", "closed"}, timer : BOOLEAN]
      /\ \A kind \in {"get", "close"} : One(kind) \in Items /\ One(kind).kind = kind
  BY SocketAssumption, ItemsAre DEF Base, Shapes, Kinds, One, Item
<1>2. /\ page.state \in {"connecting", "open"} => Telling \/ tunnel.state = "closed"
      /\ page.state \in {"connecting", "open"} => ~Has(up, "close") /\ ~Has(page.queue, "close")
      /\ page.state = "closing" /\ Telling =>
           /\ NoneAfter(up, "close", "send") /\ NoneAfter(page.queue, "close", "send")
           /\ Has(up, "close") => ~Has(page.queue, "send")
      /\ Telling => /\ ~Has(toServer, "close") /\ server # "closing"
                    /\ Answering => serverEnds
      /\ page.state = "closing" /\ tunnel.state = "closing" =>
           /\ Carries(toServer, "message", Len(gotUp), sentUp)
           /\ NoneAfter(toServer, "close", "message")
           /\ server = "closing" \/ (Answering /\ ~serverEnds) => Len(gotUp) = sentUp
  BY DEF CloseIsBehind
<1>3. UNCHANGED <<page, sentUp, server, gotUp, serverEnds>>
  BY KernelKeepsShapes DEF pageVars, serverVars
<1>4. Telling => tunnel.state # "closing" /\ tunnel.state # "closed"
  BY DEF Telling
<1>5. CASE NetEvent \/ NextFrame \/ CloseTimeout
  <2>1. up' = up /\ (Answering' => Answering)
    BY <1>5, KernelServes DEF Answering
  <2>2. CASE Telling' /\ Telling /\ Behind(toServer, toServer', {"pong"})
    <3>1. Has(toServer', "close") <=> Has(toServer, "close")
      BY <1>1, <2>2, BehindHas
    <3>2. tunnel'.state # "closing"
      BY <2>2 DEF Telling
    <3> QED
      BY <1>2, <1>3, <2>1, <2>2, <3>1, <3>2 DEF CloseIsBehind
  <2>3. CASE /\ tunnel'.state = "closing" /\ tunnel.state = "closing"
             /\ Behind(toServer, toServer', {"pong"})
    <3>1. ~Telling /\ ~Telling'
      BY <2>3 DEF Telling
    <3>2. page.state \notin {"connecting", "open"}
      BY <1>2, <2>3, <3>1
    <3>3. ASSUME page.state = "closing"
          PROVE  /\ Carries(toServer', "message", Len(gotUp), sentUp)
                 /\ NoneAfter(toServer', "close", "message")
      <4>1. /\ Carries(toServer, "message", Len(gotUp), sentUp)
            /\ NoneAfter(toServer, "close", "message")
        BY <1>2, <2>3, <3>3
      <4>2. NoneAfter(toServer', "close", "message")
        BY <1>1, <2>3, <4>1, BehindNone
      <4>3. Len(gotUp) <= sentUp
        BY <1>1 DEF UpInOrder
      <4>4. Carries(toServer', "message", Len(gotUp), sentUp)
        <5>1. ASSUME NEW kinds, "message" \notin kinds, Behind(toServer, toServer', kinds)
              PROVE  Carries(toServer', "message", Len(gotUp), sentUp)
          BY <1>1, <4>1, <4>3, <5>1, BehindCarries
        <5> QED
          BY <2>3, <5>1
      <4> QED
        BY <4>2, <4>4
    <3> QED
      BY <1>2, <1>3, <2>1, <2>3, <3>1, <3>2, <3>3 DEF CloseIsBehind
  <2>4. CASE tunnel'.state = "closed"
    <3>1. ~Telling'
      BY <2>4 DEF Telling
    <3> QED
      BY <1>2, <1>3, <2>1, <2>4, <3>1 DEF CloseIsBehind
  <2> QED
    BY <1>5, <2>2, <2>3, <2>4, KernelServes
<1>6. CASE Command
  <2> DEFINE command == Head(up)
  <2>1. /\ up # <<>> /\ up' = Tail(up) /\ command \in Items
        /\ \/ command.kind = "open" /\ tunnel.state = "none" /\ Begins
           \/ Ends("failed")
           \/ tunnel.state # "open" /\ Idles
           \/ tunnel.state = "open" /\ Tells(Item("message", command.n))
           \/ command.kind = "close" /\ conn /\ Closing
    BY <1>6, CommandDoes
  <2>2. UNCHANGED <<chunk, toTunnel>> /\ (Answering' <=> Answering)
    BY <1>6 DEF Command, Answering
  <2>3. \A kind : Has(up, kind) <=> command.kind = kind \/ Has(up', kind)
    BY <1>1, <2>1, HasTail
  <2>4. page.state = "closing" /\ Telling =>
           /\ NoneAfter(up', "close", "send")
           /\ command.kind = "close" => ~Has(up', "send") /\ ~Has(page.queue, "send")
    BY <1>1, <1>2, <2>1, <2>3, NoneTail
  <2>5. Item("message", command.n) \in Items /\ Item("message", command.n).kind = "message"
    BY <2>1, ItemsAre DEF Kinds, Item
  <2> HIDE DEF command
  <2>6. ASSUME Telling, Telling', toServer' = toServer \/ \E item \in Items :
                   item.kind # "close" /\ toServer' = Append(toServer, item)
        PROVE  CloseIsBehind'
    <3>1. ~Has(toServer', "close")
      <4>1. CASE toServer' = toServer
        BY <1>2, <2>6, <4>1
      <4>2. CASE \E item \in Items : item.kind # "close" /\ toServer' = Append(toServer, item)
        BY <1>1, <1>2, <2>6, <4>2, HasAppend
      <4> QED
        BY <2>6, <4>1, <4>2
    <3>2. tunnel'.state # "closing"
      BY <2>6 DEF Telling
    <3> QED
      BY <1>2, <1>3, <2>2, <2>3, <2>4, <2>6, <3>1, <3>2 DEF CloseIsBehind
  <2>7. CASE tunnel.state = "none" /\ Begins
    <3>1. Telling /\ Telling' /\ toServer' = Append(toServer, One("get"))
      BY <1>1, <2>7 DEF Begins, Telling
    <3> QED
      BY <1>1, <2>6, <3>1
  <2>8. CASE Ends("failed")
    <3>1. tunnel'.state = "closed" /\ ~Telling'
      BY <2>8 DEF Ends, Telling
    <3> QED
      BY <1>2, <1>3, <2>2, <2>3, <3>1 DEF CloseIsBehind
  <2>9. CASE Idles
    <3>1. toServer' = toServer /\ tunnel' = tunnel /\ (Telling' <=> Telling)
      BY <2>9 DEF Idles, Stays, Telling
    <3>2. CASE Telling
      BY <2>6, <3>1, <3>2
    <3>3. CASE ~Telling
      BY <1>2, <1>3, <2>2, <2>3, <3>1, <3>3 DEF CloseIsBehind
    <3> QED
      BY <3>2, <3>3
  <2>10. CASE tunnel.state = "open" /\ Tells(Item("message", command.n))
    <3>1. Telling /\ Telling' /\ toServer' = Append(toServer, Item("message", command.n))
      BY <2>10 DEF Tells, Stays, Telling
    <3> QED
      BY <2>5, <2>6, <3>1
  <2>11. CASE command.kind = "close" /\ conn /\ Closing
    <3>1. /\ Telling /\ ~Telling' /\ tunnel'.state = "closing"
          /\ toServer' = Append(toServer, One("close"))
      BY <2>11 DEF Closing, Telling
    <3>2. page.state \notin {"connecting", "open"}
      BY <1>2, <2>3, <2>11
    <3>3. ~Answering \/ serverEnds
      BY <1>2, <3>1
    <3>4. ASSUME page.state = "closing"
          PROVE  /\ Carries(toServer', "message", Len(gotUp), sentUp)
                 /\ NoneAfter(toServer', "close", "message")
      <4>1. ~Has(up', "send") /\ ~Has(page.queue, "send")
        BY <2>4, <2>11, <3>1, <3>4
      <4>2. PICK f \in Len(gotUp)..sentUp :
                   /\ Carries(toServer, "message", Len(gotUp), f)
                   /\ \E g \in f..sentUp :
                        Carries(up, "send", f, g) /\ Carries(page.queue, "send", g, sentUp)
        BY <3>1 DEF UpInOrder
      <4>3. PICK g \in f..sentUp :
                   Carries(up, "send", f, g) /\ Carries(page.queue, "send", g, sentUp)
        BY <4>2
      <4>4. f \in Nat /\ g \in Nat /\ Len(gotUp) <= f /\ f <= g /\ g <= sentUp
        BY <1>1
      <4>5. Carries(up', "send", f, g)
        BY <1>1, <2>1, <2>11, <4>3, <4>4, TakeCarries DEF command
      <4>6. f = g /\ g = sentUp
        <5>1. up' \in Seq(Items)
          BY <1>1, <2>1
        <5> QED
          BY <1>1, <4>1, <4>3, <4>4, <4>5, <5>1, NothingCarried
      <4>7. Carries(toServer, "message", Len(gotUp), sentUp)
        BY <4>2, <4>6
      <4>8. Carries(toServer', "message", Len(gotUp), sentUp)
        <5>1. One("close") \in Items /\ One("close").kind # "message" /\ Len(gotUp) <= sentUp
          BY <1>1, <4>4
        <5>2. Carries(Append(toServer, One("close")), "message", Len(gotUp), sentUp)
          BY <1>1, <4>7, <5>1, AppendCarries
        <5> QED
          BY <3>1, <5>2
      <4>9. NoneAfter(toServer', "close", "message")
        <5>1. NoneAfter(toServer, "close", "message")
          BY <1>2, <3>1, NoneWithout
        <5>2. One("close") \in Items /\ One("close").kind # "message"
          BY <1>1
        <5> QED
          BY <1>1, <3>1, <5>1, <5>2, NoneAppend
      <4> QED
        BY <4>8, <4>9
    <3> QED
      BY <1>2, <1>3, <2>2, <3>1, <3>2, <3>3, <3>4 DEF CloseIsBehind
  <2> QED
    BY <2>1, <2>7, <2>8, <2>9, <2>10, <2>11
<1> QED
  BY <1>5, <1>6

\* and by the server: when it reads the close frame there is nothing behind it.
LEMMA CloseKeptByServer ==
  ASSUME Base, UpInOrder, CloseIsBehind,
         \/ ServerTakes \/ ServerAnswers \/ ServerWrites \/ ServerEchoes
         \/ ServerLeaves \/ ServerDies
  PROVE  CloseIsBehind'
<1>1. /\ toServer \in Seq(Items) /\ toTunnel \in Seq(Items)
      /\ Len(gotUp) \in Nat /\ sentUp \in Nat /\ serverEnds \in BOOLEAN
      /\ Len(gotUp) <= sentUp
  BY SocketAssumption DEF Base, Shapes, UpInOrder
<1>2. /\ page.state \in {"connecting", "open"} => Telling \/ tunnel.state = "closed"
      /\ page.state \in {"connecting", "open"} => ~Has(up, "close") /\ ~Has(page.queue, "close")
      /\ page.state = "closing" /\ Telling =>
           /\ NoneAfter(up, "close", "send") /\ NoneAfter(page.queue, "close", "send")
           /\ Has(up, "close") => ~Has(page.queue, "send")
      /\ Telling => /\ ~Has(toServer, "close") /\ server # "closing"
                    /\ Answering => serverEnds
      /\ page.state = "closing" /\ tunnel.state = "closing" =>
           /\ Carries(toServer, "message", Len(gotUp), sentUp)
           /\ NoneAfter(toServer, "close", "message")
           /\ server = "closing" \/ (Answering /\ ~serverEnds) => Len(gotUp) = sentUp
  BY DEF CloseIsBehind
<1>3. /\ UNCHANGED <<page, up, tunnel, chunk, sentUp>> /\ (Telling' <=> Telling)
  BY DEF ServerTakes, ServerAnswers, ServerWrites, ServerEchoes, ServerLeaves, ServerDies,
         ServerUnchanged, pageVars, kernelVars, Telling
<1>4. Telling => tunnel.state # "closing"
  BY DEF Telling
<1>5. ASSUME UNCHANGED <<toServer, gotUp>>, server' # "closing", serverEnds => serverEnds',
             \/ Answering' => Answering
             \/ serverEnds'
             \/ server = "closing"
      PROVE  CloseIsBehind'
  BY <1>2, <1>3, <1>5 DEF CloseIsBehind
<1>6. ASSUME NEW e \in Items, toTunnel' = Append(toTunnel, e)
      PROVE  Answering' <=> Answering \/ e.kind = "close"
  <2>1. Has(toTunnel', "close") <=> Has(toTunnel, "close") \/ e.kind = "close"
    BY <1>1, <1>6, HasAppend
  <2> QED
    BY <1>3, <2>1 DEF Answering
<1>7. \A kind \in Kinds : One(kind) \in Items /\ One(kind).kind = kind
  BY ItemsAre DEF One, Item
<1>8. CASE ServerAnswers \/ ServerLeaves
  <2>1. /\ UNCHANGED <<toServer, gotUp, serverEnds>> /\ server' # "closing"
        /\ \E kind \in {"accept", "refuse", "eof", "gone"} : toTunnel' = Append(toTunnel, One(kind))
    BY <1>8 DEF ServerAnswers, ServerLeaves
  <2>2. \A kind \in {"accept", "refuse", "eof", "gone"} :
          One(kind) \in Items /\ One(kind).kind # "close"
    BY <1>7 DEF Kinds
  <2>3. Answering' => Answering
    BY <1>6, <2>1, <2>2
  <2> QED
    BY <1>5, <2>1, <2>3
<1>9. CASE ServerWrites
  <2>1. UNCHANGED <<toServer, gotUp>> /\ server' = "open" /\ ~serverEnds
    BY <1>9 DEF ServerWrites
  <2>2. CASE serverEnds'
    BY <1>5, <2>1, <2>2
  <2>3. CASE /\ sentDown' = sentDown + 1
             /\ toTunnel' = Append(toTunnel, Item("message", sentDown'))
    <3>1. sentDown + 1 \in 0..MaxUp + MaxFrames
      BY <1>9, SocketAssumption DEF ServerWrites, Base, Shapes
    <3>2. Item("message", sentDown') \in Items /\ Item("message", sentDown').kind # "close"
      BY <2>3, <3>1, ItemsAre DEF Kinds, Item
    <3>3. Answering' => Answering
      BY <1>6, <2>3, <3>2
    <3> QED
      BY <1>5, <2>1, <3>3
  <2>4. CASE \E kind \in {"ping", "bad"} : toTunnel' = Append(toTunnel, One(kind))
    <3>1. \A kind \in {"ping", "bad"} : One(kind) \in Items /\ One(kind).kind # "close"
      BY <1>7 DEF Kinds
    <3>2. Answering' => Answering
      BY <1>6, <2>4, <3>1
    <3> QED
      BY <1>5, <2>1, <3>2
  <2> QED
    BY <1>9, <2>2, <2>3, <2>4 DEF ServerWrites
<1>10. CASE ServerEchoes
  BY <1>5, <1>10 DEF ServerEchoes
<1>11. CASE ServerDies
  <2>1. UNCHANGED <<toServer, gotUp, serverEnds>> /\ server' = "gone"
    BY <1>11 DEF ServerDies
  <2>2. PICK k \in 0..Len(toTunnel) :
               toTunnel' = IF conn THEN Append(SubSeq(toTunnel, 1, k), One("gone")) ELSE <<>>
    BY <1>11 DEF ServerDies
  <2>3. Has(toTunnel', "close") => Has(toTunnel, "close")
    <3>1. CASE conn
      <4>1. SubSeq(toTunnel, 1, k) \in Seq(Items)
        BY <1>1, Parts
      <4>2. One("gone") \in Items /\ One("gone").kind # "close"
        BY <1>7 DEF Kinds
      <4>3. Has(toTunnel', "close") => Has(SubSeq(toTunnel, 1, k), "close")
        BY <2>2, <3>1, <4>1, <4>2, HasAppend
      <4> QED
        BY <1>1, <4>3, HasParts
    <3>2. CASE ~conn
      BY <2>2, <3>2 DEF Has
    <3> QED
      BY <3>1, <3>2
  <2>4. Answering' => Answering
    BY <1>3, <2>3 DEF Answering
  <2> QED
    BY <1>5, <2>1, <2>4
<1>12. CASE ServerTakes
  <2>1. /\ toServer # <<>> /\ toServer' = Tail(toServer) /\ UNCHANGED <<toTunnel, serverEnds>>
        /\ gotUp' = gotUp \/ gotUp' = Append(gotUp, Head(toServer).n)
        /\ Head(toServer).kind # "message" => gotUp' = gotUp
        /\ server' = "closing" => server = "closing" \/ Head(toServer).kind = "close"
    BY <1>12 DEF ServerTakes
  <2>2. Answering' <=> Answering
    BY <1>3, <2>1 DEF Answering
  <2>3. Has(toServer, "close") <=> Head(toServer).kind = "close" \/ Has(toServer', "close")
    BY <1>1, <2>1, HasTail
  <2>4. ASSUME page.state = "closing", tunnel.state = "closing"
        PROVE  /\ Carries(toServer', "message", Len(gotUp'), sentUp)
               /\ NoneAfter(toServer', "close", "message")
               /\ server' = "closing" \/ (Answering /\ ~serverEnds) => Len(gotUp') = sentUp
    <3>1. /\ Carries(toServer, "message", Len(gotUp), sentUp)
          /\ NoneAfter(toServer, "close", "message")
          /\ server = "closing" \/ (Answering /\ ~serverEnds) => Len(gotUp) = sentUp
      BY <1>2, <2>4
    <3>2. /\ NoneAfter(toServer', "close", "message")
          /\ Head(toServer).kind = "close" => ~Has(toServer', "message")
      BY <1>1, <2>1, <3>1, NoneTail
    <3>3. CASE Head(toServer).kind = "message"
      <4>1. /\ Head(toServer).n = Len(gotUp) + 1 /\ Len(gotUp) + 1 <= sentUp
            /\ Carries(toServer', "message", Len(gotUp) + 1, sentUp)
        BY <1>1, <2>1, <3>1, <3>3, TakeCarries
      <4>2. Len(gotUp') = Len(gotUp) + 1
        <5>1. gotUp' = Append(gotUp, Head(toServer).n)
          BY <1>12, <3>3 DEF ServerTakes
        <5>2. gotUp \in Seq(Nat) /\ Head(toServer).n \in Nat
          BY <1>1, <4>1 DEF Base, Shapes
        <5> QED
          BY <5>1, <5>2
      <4>3. ~(server = "closing" \/ (Answering /\ ~serverEnds)) /\ server' # "closing"
        BY <1>1, <2>1, <3>1, <3>3, <4>1
      <4> QED
        BY <3>2, <4>1, <4>2, <4>3
    <3>4. CASE Head(toServer).kind # "message"
      <4>1. gotUp' = gotUp /\ Carries(toServer', "message", Len(gotUp), sentUp)
        BY <1>1, <2>1, <3>1, <3>4, TakeCarries
      <4>2. Head(toServer).kind = "close" => Len(gotUp) = sentUp
        <5>1. toServer' \in Seq(Items)
          BY <1>1, <2>1
        <5> QED
          BY <1>1, <3>2, <4>1, <5>1, NothingCarried
      <4> QED
        BY <2>1, <3>1, <3>2, <4>1, <4>2
    <3> QED
      BY <3>3, <3>4
  <2>5. Telling => server' # "closing" /\ ~Has(toServer', "close")
    BY <1>2, <2>1, <2>3
  <2> QED
    BY <1>2, <1>3, <2>1, <2>2, <2>4, <2>5 DEF CloseIsBehind
<1> QED
  BY <1>8, <1>9, <1>10, <1>11, <1>12

\* No step lets a message follow a close to the server.
LEMMA CloseKept ==
  ASSUME Base, UpInOrder, CloseIsBehind, [Next]_vars
  PROVE  CloseIsBehind'
<1>1. CASE FlushFails \/ UNCHANGED vars
  BY <1>1, RejectionIsQuiet DEF SocketStays, CloseIsBehind, Telling, Answering
<1> QED
  BY <1>1, CloseKeptByPage, CloseKeptByKernel, CloseKeptByServer DEF Next

\* What the page has been told of an end, the tunnel has come to.
LEMMA CleanIsClosed ==
  ASSUME Base, Has(down, "clean")
  PROVE  tunnel.state = "closed" /\ ~Telling
<1>1. PICK i \in 1..Len(down) : down[i].kind = "clean"
  BY DEF Has
<1>2. tunnel.state = "closed"
  BY <1>1 DEF Base, EventsEndOnce
<1> QED
  BY <1>2 DEF Telling

\* The order of the messages down is kept by the page, and what it is given is
\* the next; a clean close comes to it when whoever began has been heard.
LEMMA PageTakesNext ==
  ASSUME Base, UpInOrder, DownInOrder, Receive
  PROVE  /\ DownInOrder'
         /\ \/ gotDown' = gotDown
            \/ /\ page.state = "open" /\ page' = page
               /\ gotDown' = Append(gotDown, Len(gotDown) + 1) /\ Len(gotDown) < sentDown
         /\ page'.outcome = "clean" /\ page.outcome # "clean" =>
              \/ page.state = "closing" /\ Len(gotUp) = sentUp
              \/ serverEnds /\ (page.state = "closing" \/ Len(gotDown) = sentDown)
<1>1. /\ page \in [state : {"connecting", "open", "closing", "closed"}, queue : Seq(Items),
                   outcome : {"none", "clean", "failed", "left"}]
      /\ down \in Seq(Items) /\ gotDown \in Seq(Nat) /\ Len(gotDown) \in Nat /\ sentDown \in Nat
      /\ page.outcome = "none" <=> page.state # "closed"
  BY SocketAssumption DEF Base, Shapes
<1>2. /\ down # <<>> /\ down' = Tail(down)
      /\ UNCHANGED <<tunnel, chunk, toTunnel, server, serverEnds, sentDown, sentUp, gotUp>>
      /\ (Telling' <=> Telling) /\ (Answering' <=> Answering)
  BY DEF Receive, PageUnchanged, kernelVars, serverVars, Telling, Answering
<1>3. Head(down) \in Items /\ Head(down) = down[1] /\ 1 \in 1..Len(down)
  BY <1>1, <1>2
<1>4. ~Before
  BY <1>2 DEF Base, OpensFirst
<1>5. \A kind : Has(down, kind) <=> Head(down).kind = kind \/ Has(down', kind)
  BY <1>1, <1>2, HasTail
<1>6. page.state = "connecting" => Head(down).kind \in {"open", "failed"}
  BY <1>4 DEF Base, OpensFirst
<1>7. /\ Telling => /\ NoneAfter(chunk, "close", "message")
                    /\ NoneAfter(toTunnel, "close", "message")
                    /\ Has(chunk, "close") => ~Has(toTunnel, "message")
      /\ page.state = "closing" /\ Has(down, "clean") => serverEnds \/ Len(gotUp) = sentUp
  BY DEF DownInOrder
<1>8. CASE page.state \in {"connecting", "open"}
  <2>1. PICK f \in Len(gotDown)..sentDown :
         /\ Carries(down, "message", Len(gotDown), f)
         /\ Telling =>
              \E g \in f..sentDown : \E h \in g..sentDown :
                /\ Carries(chunk, "message", f, g) /\ Carries(toTunnel, "message", g, h)
                /\ server # "gone" \/ Answering => h = sentDown
         /\ Has(down, "clean") => f = sentDown /\ serverEnds
    BY <1>8 DEF DownInOrder
  <2>2. f \in Nat /\ Len(gotDown) <= f /\ f <= sentDown
    BY <1>1
  <2>3. CASE Head(down).kind = "message"
    <3>1. page.state = "open" /\ page' = page /\ gotDown' = Append(gotDown, Head(down).n)
      BY <1>6, <1>8, <2>3 DEF Receive
    <3>2. /\ Head(down).n = Len(gotDown) + 1 /\ Len(gotDown) + 1 <= f
          /\ Carries(down', "message", Len(gotDown) + 1, f)
      BY <1>1, <1>2, <2>1, <2>2, <2>3, TakeCarries
    <3>3. Len(gotDown') = Len(gotDown) + 1 /\ f \in Len(gotDown')..sentDown /\ Len(gotDown) < sentDown
      <4>1. Len(gotDown') = Len(gotDown) + 1
        BY <1>1, <3>1, <3>2
      <4> QED
        BY <1>1, <2>2, <3>2, <4>1
    <3>4. Carries(down', "message", Len(gotDown'), f)
      BY <3>2, <3>3
    <3>5. Has(down', "clean") => f = sentDown /\ serverEnds
      BY <1>5, <2>1
    <3>6. \E x \in Len(gotDown')..sentDown :
         /\ Carries(down', "message", Len(gotDown'), x)
         /\ Telling =>
              \E g \in x..sentDown : \E h \in g..sentDown :
                /\ Carries(chunk, "message", x, g) /\ Carries(toTunnel, "message", g, h)
                /\ server # "gone" \/ Answering => h = sentDown
         /\ Has(down', "clean") => x = sentDown /\ serverEnds
      BY <2>1, <3>3, <3>4, <3>5
    <3>7. DownInOrder'
      BY <1>2, <1>7, <1>8, <3>1, <3>6 DEF DownInOrder
    <3> QED
      BY <3>1, <3>2, <3>3, <3>7
  <2>4. CASE Head(down).kind # "message"
    <3>1. gotDown' = gotDown
      BY <2>4 DEF Receive
    <3>2. Carries(down', "message", Len(gotDown), f)
      BY <1>1, <1>2, <2>1, <2>2, <2>4, TakeCarries
    <3>3. Has(down', "clean") => f = sentDown /\ serverEnds
      BY <1>5, <2>1
    <3>4. \E x \in Len(gotDown)..sentDown :
         /\ Carries(down', "message", Len(gotDown), x)
         /\ Telling =>
              \E g \in x..sentDown : \E h \in g..sentDown :
                /\ Carries(chunk, "message", x, g) /\ Carries(toTunnel, "message", g, h)
                /\ server # "gone" \/ Answering => h = sentDown
         /\ Has(down', "clean") => x = sentDown /\ serverEnds
      BY <2>1, <3>2, <3>3
    <3>5. page'.state # "closing"
      BY <1>1, <1>8 DEF Receive
    <3>6. DownInOrder'
      BY <1>2, <1>7, <3>1, <3>4, <3>5 DEF DownInOrder
    <3>7. ASSUME page'.outcome = "clean", page.outcome # "clean"
          PROVE  serverEnds /\ Len(gotDown) = sentDown
      <4>1. Head(down).kind = "clean"
        BY <1>1, <3>7 DEF Receive
      <4>2. f = sentDown /\ serverEnds
        BY <1>5, <2>1, <4>1
      <4>3. 1 = Len(down)
        BY <1>3, <4>1 DEF Base, EventsEndOnce
      <4>4. down' = <<>> /\ down' \in Seq(Items)
        BY <1>1, <1>2, <4>3
      <4>5. ~Has(down', "message")
        BY <4>4 DEF Has
      <4>6. Len(gotDown) = f
        BY <1>1, <2>2, <3>2, <4>4, <4>5, NothingCarried
      <4> QED
        BY <4>2, <4>6
    <3> QED
      BY <3>1, <3>6, <3>7
  <2> QED
    BY <2>3, <2>4
<1>9. CASE page.state \in {"closing", "closed"}
  <2>1. gotDown' = gotDown
    BY <1>9 DEF Receive
  <2>2. page'.state \in {"closing", "closed"} /\ (page'.state = "closing" => page.state = "closing")
    BY <1>1, <1>9 DEF Receive
  <2>3. DownInOrder'
    BY <1>2, <1>5, <1>7, <2>1, <2>2 DEF DownInOrder
  <2>4. ASSUME page'.outcome = "clean", page.outcome # "clean"
        PROVE  page.state = "closing" /\ Head(down).kind = "clean"
    BY <1>1, <1>9, <2>4 DEF Receive
  <2>5. page'.outcome = "clean" /\ page.outcome # "clean" =>
          page.state = "closing" /\ (serverEnds \/ Len(gotUp) = sentUp)
    BY <1>5, <1>7, <2>4
  <2> QED
    BY <2>1, <2>3, <2>5
<1> QED
  BY <1>1, <1>8, <1>9

\* The page loses nothing of what comes from the server.
LEMMA DownKeptByPage ==
  ASSUME Base, DownInOrder, Send \/ Close \/ Flush \/ Abandon
  PROVE  DownInOrder'
<1>1. page \in [state : {"connecting", "open", "closing", "closed"}, queue : Seq(Items),
                outcome : {"none", "clean", "failed", "left"}]
  BY DEF Base, Shapes
<1>2. /\ UNCHANGED <<down, gotDown, tunnel, chunk, toTunnel, server, serverEnds, sentDown, gotUp>>
      /\ (Telling' <=> Telling) /\ (Answering' <=> Answering)
  BY DEF Send, Close, Flush, Abandon, PageUnchanged, kernelVars, serverVars, Telling, Answering
<1>3. CASE page'.state \in {"connecting", "open"}
  <2>1. page'.state = page.state
    BY <1>1, <1>3 DEF Send, Close, Flush, Abandon
  <2> QED
    BY <1>2, <1>3, <2>1 DEF DownInOrder
<1>4. CASE page'.state \notin {"connecting", "open"}
  <2>1. /\ page'.state = "closing" =>
             page.state \in {"connecting", "open"} \/ (page.state = "closing" /\ sentUp' = sentUp)
    BY <1>1, <1>4 DEF Send, Close, Flush, Abandon
  <2> QED
    BY <1>2, <1>4, <2>1 DEF DownInOrder
<1> QED
  BY <1>3, <1>4

\* What a frame that is read makes of the messages down.
LEMMA FrameDown ==
  ASSUME Base, Telling, NEW item \in Items, NEW f \in Nat, Len(gotDown) <= f,
         Carries(down, "message", Len(gotDown), f),
         \/ item.kind = "accept" /\ Accepts
         \/ Ends("failed")
         \/ tunnel.state = "open" /\ FrameDoes(item),
         item.kind = "message" => item.n = f + 1
  PROVE  /\ item.kind # "message" \/ ~Telling' => Carries(down', "message", Len(gotDown), f)
         /\ item.kind = "message" /\ Telling' => Carries(down', "message", Len(gotDown), f + 1)
         /\ Has(down', "clean") => item.kind = "close" /\ ~Telling'
<1>1. /\ down \in Seq(Items) /\ Len(gotDown) \in Nat
      /\ \A kind \in {"open", "clean", "failed"} : One(kind) \in Items /\ One(kind).kind = kind
      /\ \A n \in 0..MaxUp + MaxFrames :
           /\ Item("message", n) \in Items /\ Item("message", n).kind = "message"
           /\ Item("message", n).n = n
      /\ item.n \in 0..MaxUp + MaxFrames
  BY ItemsAre DEF Base, Shapes, Kinds, One, Item
<1>2. ~Has(down, "clean")
  BY CleanIsClosed
<1>3. ASSUME NEW kind \in {"open", "clean", "failed"}, down' = Append(down, One(kind))
      PROVE  /\ Carries(down', "message", Len(gotDown), f)
             /\ Has(down', "clean") <=> kind = "clean"
  <2>1. One(kind) \in Items /\ One(kind).kind = kind /\ kind # "message"
    BY <1>1
  <2>2. Carries(Append(down, One(kind)), "message", Len(gotDown), f)
    BY <1>1, <2>1, AppendCarries
  <2>3. Has(Append(down, One(kind)), "clean") <=> kind = "clean"
    BY <1>1, <1>2, <2>1, HasAppend
  <2> QED
    BY <1>3, <2>2, <2>3
<1>4. CASE item.kind = "accept" /\ Accepts
  BY <1>3, <1>4 DEF Accepts
<1>5. CASE Ends("failed")
  BY <1>3, <1>5 DEF Ends, Telling
<1>6. CASE tunnel.state = "open" /\ FrameDoes(item)
  <2>1. CASE Idles /\ item.kind # "message"
    BY <1>2, <2>1 DEF Idles
  <2>2. CASE item.kind = "message" /\ Delivers(item.n)
    <3>1. /\ down' = Append(down, Item("message", f + 1)) /\ Telling'
          /\ Item("message", f + 1) \in Items /\ Item("message", f + 1).kind = "message"
          /\ Item("message", f + 1).n = f + 1
      BY <1>1, <2>2 DEF Delivers, Stays, Telling
    <3>2. Carries(Append(down, Item("message", f + 1)), "message", Len(gotDown), f + 1)
      BY <1>1, <3>1, AppendCarries
    <3>3. ~Has(Append(down, Item("message", f + 1)), "clean")
      BY <1>1, <1>2, <3>1, HasAppend
    <3> QED
      BY <2>2, <3>1, <3>2, <3>3
  <2>3. CASE item.kind = "ping" /\ Tells(One("pong"))
    BY <1>2, <2>3 DEF Tells
  <2>4. CASE item.kind = "close" /\ Ends("clean")
    BY <1>3, <2>4 DEF Ends, Telling
  <2>5. CASE Ends("failed")
    BY <1>5, <2>5
  <2> QED
    BY <1>6, <2>1, <2>2, <2>3, <2>4, <2>5 DEF FrameDoes
<1> QED
  BY <1>4, <1>5, <1>6

\* A clean close comes of a close frame that was there to be read.
LEMMA CleanIsRead ==
  ASSUME Base, Command \/ NetEvent \/ NextFrame \/ CloseTimeout, Has(down', "clean")
  PROVE  \/ Has(down, "clean")
         \/ Answering /\ tunnel.state \in {"open", "closing"}
<1>1. /\ down \in Seq(Items) /\ chunk \in Seq(Items) /\ toTunnel \in Seq(Items)
      /\ tunnel.state \in {"none", "handshake", "open", "closing", "closed"}
      /\ \A kind \in {"open", "failed"} : One(kind) \in Items /\ One(kind).kind # "clean"
      /\ \A n \in 0..MaxUp + MaxFrames :
           Item("message", n) \in Items /\ Item("message", n).kind # "clean"
      /\ \A item \in Items : item.n \in 0..MaxUp + MaxFrames
  BY ItemsAre DEF Base, Shapes, Kinds, One, Item
<1>2. ASSUME NEW e \in Items, down' = Append(down, e), e.kind # "clean" PROVE Has(down, "clean")
  BY <1>1, <1>2, HasAppend
<1>3. Idles \/ (\E item : Tells(item)) \/ Begins \/ Closing => Has(down, "clean")
  BY DEF Idles, Tells, Begins, Closing
<1>4. Accepts \/ Ends("failed") => Has(down, "clean")
  BY <1>1, <1>2 DEF Accepts, Ends
<1>5. ASSUME NEW item \in Items, FrameDoes(item), item.kind # "close" PROVE Has(down, "clean")
  <2>1. Delivers(item.n) => Has(down, "clean")
    BY <1>1, <1>2 DEF Delivers
  <2> QED
    BY <1>3, <1>4, <1>5, <2>1 DEF FrameDoes
<1>6. CASE Command
  BY <1>3, <1>4, <1>6, CommandDoes
<1>7. CASE CloseTimeout
  BY <1>4, <1>7, CloseTimeoutDoes
<1>8. CASE NetEvent
  <2>1. Head(toTunnel) \in Items /\ toTunnel # <<>>
    BY <1>8, NetEventDoes
  <2>2. Head(toTunnel).kind = "close" => Answering
    BY <1>1, <2>1, HasTail DEF Answering
  <2>3. CASE tunnel.state \in {"open", "closing"} /\ FrameDoes(Head(toTunnel))
    BY <1>5, <2>1, <2>2, <2>3
  <2> QED
    BY <1>3, <1>4, <1>8, <2>3, NetEventDoes
<1>9. CASE NextFrame
  <2>1. Head(chunk) \in Items /\ chunk # <<>> /\ FrameDoes(Head(chunk))
        /\ tunnel.state \in {"open", "closing", "closed"}
    BY <1>9, NextFrameDoes
  <2>2. Head(chunk).kind = "close" => Answering
    BY <1>1, <2>1, HasTail DEF Answering
  <2>3. CASE tunnel.state = "closed"
    <3>1. ~Ends("clean") /\ ~Ends("failed") /\ ~Delivers(Head(chunk).n)
      BY <2>3 DEF Ends, Delivers
    <3> QED
      BY <1>3, <2>1, <3>1 DEF FrameDoes
  <2> QED
    BY <1>5, <2>1, <2>2, <2>3
<1> QED
  BY <1>6, <1>7, <1>8, <1>9

\* The order is kept by the kernel's frames: the first of a chunk,
LEMMA DownKeptByChunk ==
  ASSUME Base, CloseIsBehind, DownInOrder, NetEvent, page.state \in {"connecting", "open"}
  PROVE  /\ Telling' => /\ NoneAfter(chunk', "close", "message")
                        /\ NoneAfter(toTunnel', "close", "message")
                        /\ Has(chunk', "close") => ~Has(toTunnel', "message")
         /\ \E f \in Len(gotDown)..sentDown :
              /\ Carries(down', "message", Len(gotDown), f)
              /\ Telling' =>
                   \E g \in f..sentDown : \E h \in g..sentDown :
                     /\ Carries(chunk', "message", f, g) /\ Carries(toTunnel', "message", g, h)
                     /\ server # "gone" \/ Answering => h = sentDown
              /\ Has(down', "clean") => f = sentDown /\ serverEnds
<1>1. /\ down \in Seq(Items) /\ chunk \in Seq(Items) /\ toTunnel \in Seq(Items)
      /\ Len(gotDown) \in Nat /\ sentDown \in Nat
      /\ tunnel.state \in {"none", "handshake", "open", "closing", "closed"}
  BY SocketAssumption DEF Base, Shapes
<1>2. PICK f \in Len(gotDown)..sentDown :
         /\ Carries(down, "message", Len(gotDown), f)
         /\ Telling =>
              \E g \in f..sentDown : \E h \in g..sentDown :
                /\ Carries(chunk, "message", f, g) /\ Carries(toTunnel, "message", g, h)
                /\ server # "gone" \/ Answering => h = sentDown
         /\ Has(down, "clean") => f = sentDown /\ serverEnds
  BY DEF DownInOrder
<1>3. f \in Nat /\ Len(gotDown) <= f /\ f <= sentDown
  BY <1>1
<1> DEFINE item == Head(toTunnel)
           rest == Tail(toTunnel)
<1>4. /\ toTunnel # <<>> /\ item \in Items /\ chunk = <<>> /\ rest \in Seq(Items)
  BY <1>1, NetEventDoes
<1>5. \/ tunnel.state = "closed" /\ Idles
      \/ tunnel.state = "handshake" /\ item.kind = "accept" /\ Accepts
      \/ conn /\ Ends("failed")
      \/ tunnel.state \in {"open", "closing"} /\ FrameDoes(item)
  BY NetEventDoes
<1>6. PICK m \in 0..Len(rest) : /\ chunk' = SubSeq(rest, 1, m)
                                /\ toTunnel' = SubSeq(rest, m + 1, Len(rest))
  BY ChunkIs
<1>7. Has(toTunnel, "close") <=> item.kind = "close" \/ Has(rest, "close")
  BY <1>1, <1>4, HasTail
<1>8. NoneAfter(toTunnel, "close", "message") =>
        /\ NoneAfter(rest, "close", "message")
        /\ item.kind = "close" => ~Has(rest, "message")
  BY <1>1, <1>4, NoneTail
<1>9. /\ item.kind # "message" => \A g \in Nat : \A h \in Nat :
           g <= h /\ Carries(toTunnel, "message", g, h) => Carries(rest, "message", g, h)
      /\ item.kind = "message" => \A g \in Nat : \A h \in Nat :
           g <= h /\ Carries(toTunnel, "message", g, h) =>
             item.n = g + 1 /\ g + 1 <= h /\ Carries(rest, "message", g + 1, h)
  BY <1>1, <1>4, TakeCarries
<1> HIDE DEF item, rest
<1>10. CASE ~Telling
  <2>1. tunnel.state = "closed"
    BY <1>10 DEF CloseIsBehind
  <2>2. Idles /\ ~Telling'
    BY <1>5, <2>1 DEF Ends, Idles, Stays, Telling
  <2>3. down' = down
    BY <2>2 DEF Idles
  <2> QED
    BY <1>2, <2>2, <2>3
<1>11. CASE Telling
  <2>0. PICK g \in f..sentDown : \E h \in g..sentDown :
              /\ Carries(chunk, "message", f, g) /\ Carries(toTunnel, "message", g, h)
              /\ server # "gone" \/ Answering => h = sentDown
    BY <1>2, <1>11
  <2>1. PICK h \in g..sentDown :
              /\ Carries(chunk, "message", f, g) /\ Carries(toTunnel, "message", g, h)
              /\ server # "gone" \/ Answering => h = sentDown
    BY <2>0
  <2>2. f = g
    <3>1. ~Has(chunk, "message") /\ g \in Nat /\ f <= g
      BY <1>1, <1>3, <1>4 DEF Has
    <3> QED
      BY <1>1, <1>3, <2>1, <3>1, NothingCarried
  <2>3. h \in Nat /\ f <= h /\ h <= sentDown /\ Carries(toTunnel, "message", f, h)
    BY <1>1, <1>3, <2>1, <2>2
  <2>4. NoneAfter(toTunnel, "close", "message")
    BY <1>11 DEF DownInOrder
  <2>5. item.kind = "message" => item.n = f + 1 /\ f + 1 <= h /\ Carries(rest, "message", f + 1, h)
    BY <1>3, <1>9, <2>3
  <2>6. item.kind # "message" => Carries(rest, "message", f, h)
    BY <1>3, <1>9, <2>3
  <2>7. \/ item.kind = "accept" /\ Accepts
        \/ Ends("failed")
        \/ tunnel.state = "open" /\ FrameDoes(item)
    BY <1>5, <1>11 DEF Telling
  <2>8. /\ item.kind # "message" \/ ~Telling' => Carries(down', "message", Len(gotDown), f)
        /\ item.kind = "message" /\ Telling' => Carries(down', "message", Len(gotDown), f + 1)
        /\ Has(down', "clean") => item.kind = "close" /\ ~Telling'
    BY <1>2, <1>3, <1>4, <1>11, <2>5, <2>7, FrameDown
  <2>9. item.kind = "close" => f = sentDown /\ serverEnds
    <3> SUFFICES ASSUME item.kind = "close" PROVE f = sentDown /\ serverEnds
      OBVIOUS
    <3>1. Answering /\ serverEnds
      BY <1>7, <1>11 DEF Answering, CloseIsBehind
    <3>2. ~Has(rest, "message")
      BY <1>8, <2>4
    <3>3. f = h
      BY <1>3, <1>4, <2>3, <2>6, <3>2, NothingCarried
    <3> QED
      BY <2>1, <3>1, <3>3
  <2>10. /\ NoneAfter(chunk', "close", "message")
         /\ NoneAfter(toTunnel', "close", "message")
         /\ Has(chunk', "close") => ~Has(toTunnel', "message")
    <3>1. NoneAfter(rest, "close", "message")
      BY <1>8, <2>4
    <3> QED
      BY <1>4, <1>6, <3>1, NoneParts
  <2>11. ASSUME NEW x \in Nat, x <= h, Carries(rest, "message", x, h)
         PROVE  \E k \in x..h : /\ Carries(chunk', "message", x, k)
                                /\ Carries(toTunnel', "message", k, h)
    BY <1>4, <1>6, <2>3, <2>11, SplitCarries
  <2>12. ASSUME NEW x \in Nat, f <= x, x <= h, Carries(rest, "message", x, h),
                Carries(down', "message", Len(gotDown), x),
                Has(down', "clean") => x = sentDown /\ serverEnds
         PROVE  \E y \in Len(gotDown)..sentDown :
                  /\ Carries(down', "message", Len(gotDown), y)
                  /\ Telling' =>
                       \E k \in y..sentDown : \E z \in k..sentDown :
                         /\ Carries(chunk', "message", y, k) /\ Carries(toTunnel', "message", k, z)
                         /\ server # "gone" \/ Answering => z = sentDown
                  /\ Has(down', "clean") => y = sentDown /\ serverEnds
    <3>1. PICK k \in x..h : /\ Carries(chunk', "message", x, k)
                            /\ Carries(toTunnel', "message", k, h)
      BY <2>11, <2>12
    <3>2. x \in Len(gotDown)..sentDown /\ k \in x..sentDown /\ h \in k..sentDown
      BY <1>1, <1>3, <2>3, <2>12
    <3> QED
      BY <2>1, <2>12, <3>1, <3>2
  <2>13. CASE item.kind = "message" /\ Telling'
    <3>1. f + 1 \in Nat /\ f <= f + 1 /\ f + 1 <= h
      BY <1>3, <2>5, <2>13
    <3>2. /\ Carries(rest, "message", f + 1, h) /\ Carries(down', "message", Len(gotDown), f + 1)
          /\ ~Has(down', "clean")
      BY <2>5, <2>8, <2>13
    <3> QED
      BY <2>10, <2>12, <3>1, <3>2
  <2>14. CASE item.kind = "message" /\ ~Telling'
    <3>1. Carries(down', "message", Len(gotDown), f) /\ ~Has(down', "clean")
      BY <2>8, <2>14
    <3> QED
      BY <2>14, <3>1
  <2>15. CASE item.kind # "message"
    <3>1. /\ Carries(down', "message", Len(gotDown), f)
          /\ Has(down', "clean") => f = sentDown /\ serverEnds
      BY <2>8, <2>9, <2>15
    <3> QED
      BY <1>3, <2>3, <2>6, <2>10, <2>12, <2>15, <3>1
  <2> QED
    BY <2>13, <2>14, <2>15
<1> QED
  BY <1>10, <1>11

\* and those behind it;
LEMMA DownKeptByFrame ==
  ASSUME Base, CloseIsBehind, DownInOrder, NextFrame, page.state \in {"connecting", "open"}
  PROVE  /\ Telling' => /\ NoneAfter(chunk', "close", "message")
                        /\ Has(chunk', "close") => ~Has(toTunnel, "message")
         /\ \E f \in Len(gotDown)..sentDown :
              /\ Carries(down', "message", Len(gotDown), f)
              /\ Telling' =>
                   \E g \in f..sentDown : \E h \in g..sentDown :
                     /\ Carries(chunk', "message", f, g) /\ Carries(toTunnel, "message", g, h)
                     /\ server # "gone" \/ Answering => h = sentDown
              /\ Has(down', "clean") => f = sentDown /\ serverEnds
<1>1. /\ down \in Seq(Items) /\ chunk \in Seq(Items) /\ toTunnel \in Seq(Items)
      /\ Len(gotDown) \in Nat /\ sentDown \in Nat
      /\ tunnel.state \in {"none", "handshake", "open", "closing", "closed"}
  BY SocketAssumption DEF Base, Shapes
<1>2. PICK f \in Len(gotDown)..sentDown :
         /\ Carries(down, "message", Len(gotDown), f)
         /\ Telling =>
              \E g \in f..sentDown : \E h \in g..sentDown :
                /\ Carries(chunk, "message", f, g) /\ Carries(toTunnel, "message", g, h)
                /\ server # "gone" \/ Answering => h = sentDown
         /\ Has(down, "clean") => f = sentDown /\ serverEnds
  BY DEF DownInOrder
<1>3. f \in Nat /\ Len(gotDown) <= f /\ f <= sentDown
  BY <1>1
<1> DEFINE item == Head(chunk)
           rest == Tail(chunk)
<1>4. /\ chunk # <<>> /\ item \in Items /\ chunk' = rest /\ rest \in Seq(Items)
      /\ tunnel.state \in {"open", "closing", "closed"} /\ FrameDoes(item)
  BY <1>1, NextFrameDoes
<1>5. Has(chunk, "close") <=> item.kind = "close" \/ Has(rest, "close")
  BY <1>1, <1>4, HasTail
<1>6. NoneAfter(chunk, "close", "message") =>
        /\ NoneAfter(rest, "close", "message")
        /\ item.kind = "close" => ~Has(rest, "message")
  BY <1>1, <1>4, NoneTail
<1>7. /\ item.kind # "message" => \A g \in Nat :
           f <= g /\ Carries(chunk, "message", f, g) => Carries(rest, "message", f, g)
      /\ item.kind = "message" => \A g \in Nat :
           f <= g /\ Carries(chunk, "message", f, g) =>
             item.n = f + 1 /\ f + 1 <= g /\ Carries(rest, "message", f + 1, g)
  BY <1>1, <1>3, <1>4, TakeCarries
<1> HIDE DEF item, rest
<1>8. CASE ~Telling
  <2>1. tunnel.state = "closed"
    BY <1>8 DEF CloseIsBehind
  <2>2. ~Telling' /\ down' = down
    <3>1. Idles \/ Tells(One("pong"))
      BY <1>4, <2>1 DEF FrameDoes, Delivers, Ends
    <3> QED
      BY <1>8, <3>1 DEF Idles, Tells, Stays, Telling
  <2> QED
    BY <1>2, <2>2
<1>9. CASE Telling
  <2>0. PICK g \in f..sentDown : \E h \in g..sentDown :
              /\ Carries(chunk, "message", f, g) /\ Carries(toTunnel, "message", g, h)
              /\ server # "gone" \/ Answering => h = sentDown
    BY <1>2, <1>9
  <2>1. PICK h \in g..sentDown :
              /\ Carries(chunk, "message", f, g) /\ Carries(toTunnel, "message", g, h)
              /\ server # "gone" \/ Answering => h = sentDown
    BY <2>0
  <2>2. g \in Nat /\ h \in Nat /\ f <= g /\ g <= h /\ h <= sentDown
    BY <1>1, <1>3
  <2>3. /\ NoneAfter(chunk, "close", "message")
        /\ Has(chunk, "close") => ~Has(toTunnel, "message")
    BY <1>9 DEF DownInOrder
  <2>4. item.kind = "message" => item.n = f + 1 /\ f + 1 <= g /\ Carries(rest, "message", f + 1, g)
    BY <1>7, <2>1, <2>2
  <2>5. item.kind # "message" => Carries(rest, "message", f, g)
    BY <1>7, <2>1, <2>2
  <2>6. tunnel.state = "open" /\ FrameDoes(item)
    BY <1>4, <1>9 DEF Telling
  <2>7. /\ item.kind # "message" \/ ~Telling' => Carries(down', "message", Len(gotDown), f)
        /\ item.kind = "message" /\ Telling' => Carries(down', "message", Len(gotDown), f + 1)
        /\ Has(down', "clean") => item.kind = "close" /\ ~Telling'
    BY <1>2, <1>3, <1>4, <1>9, <2>4, <2>6, FrameDown
  <2>8. item.kind = "close" => f = sentDown /\ serverEnds
    <3> SUFFICES ASSUME item.kind = "close" PROVE f = sentDown /\ serverEnds
      OBVIOUS
    <3>1. Answering /\ serverEnds
      BY <1>5, <1>9 DEF Answering, CloseIsBehind
    <3>2. ~Has(rest, "message") /\ ~Has(toTunnel, "message")
      BY <1>5, <1>6, <2>3
    <3>3. f = g
      BY <1>3, <1>4, <2>2, <2>5, <3>2, NothingCarried
    <3>4. g = h
      BY <1>1, <2>1, <2>2, <3>2, NothingCarried
    <3> QED
      BY <2>1, <3>1, <3>3, <3>4
  <2>9. /\ NoneAfter(chunk', "close", "message")
        /\ Has(chunk', "close") => ~Has(toTunnel, "message")
    BY <1>4, <1>5, <1>6, <2>3
  <2>10. ASSUME NEW x \in Nat, f <= x, x <= g, Carries(rest, "message", x, g),
                Carries(down', "message", Len(gotDown), x),
                Has(down', "clean") => x = sentDown /\ serverEnds
         PROVE  \E y \in Len(gotDown)..sentDown :
                  /\ Carries(down', "message", Len(gotDown), y)
                  /\ Telling' =>
                       \E k \in y..sentDown : \E z \in k..sentDown :
                         /\ Carries(chunk', "message", y, k) /\ Carries(toTunnel, "message", k, z)
                         /\ server # "gone" \/ Answering => z = sentDown
                  /\ Has(down', "clean") => y = sentDown /\ serverEnds
    <3>1. x \in Len(gotDown)..sentDown /\ g \in x..sentDown
      BY <1>1, <1>3, <2>2, <2>10
    <3> QED
      BY <1>4, <2>1, <2>10, <3>1
  <2>11. CASE item.kind = "message" /\ Telling'
    <3>1. f + 1 \in Nat /\ f <= f + 1 /\ f + 1 <= g
      BY <1>3, <2>4, <2>11
    <3>2. /\ Carries(rest, "message", f + 1, g) /\ Carries(down', "message", Len(gotDown), f + 1)
          /\ ~Has(down', "clean")
      BY <2>4, <2>7, <2>11
    <3> QED
      BY <2>9, <2>10, <3>1, <3>2
  <2>12. CASE item.kind = "message" /\ ~Telling'
    <3>1. Carries(down', "message", Len(gotDown), f) /\ ~Has(down', "clean")
      BY <2>7, <2>12
    <3> QED
      BY <2>12, <3>1
  <2>13. CASE item.kind # "message"
    <3>1. /\ Carries(down', "message", Len(gotDown), f)
          /\ Has(down', "clean") => f = sentDown /\ serverEnds
      BY <2>7, <2>8, <2>13
    <3> QED
      BY <1>3, <2>2, <2>5, <2>9, <2>10, <2>13, <3>1
  <2> QED
    BY <2>11, <2>12, <2>13
<1> QED
  BY <1>8, <1>9

\* so by the kernel,
LEMMA DownKeptByKernel ==
  ASSUME Base, CloseIsBehind, DownInOrder, Command \/ NetEvent \/ NextFrame \/ CloseTimeout
  PROVE  DownInOrder'
<1>1. /\ down \in Seq(Items) /\ chunk \in Seq(Items) /\ toTunnel \in Seq(Items)
      /\ Len(gotDown) \in Nat /\ sentDown \in Nat
      /\ \A kind \in {"open", "failed"} : One(kind) \in Items /\ One(kind).kind = kind
  BY SocketAssumption, ItemsAre DEF Base, Shapes, Kinds, One, Item
<1>2. UNCHANGED <<page, gotDown, server, sentDown, sentUp, gotUp, serverEnds>>
  BY KernelKeepsShapes DEF pageVars, serverVars
<1>3. page.state = "closing" /\ Has(down', "clean") => serverEnds \/ Len(gotUp) = sentUp
  <2> SUFFICES ASSUME page.state = "closing", Has(down', "clean")
               PROVE  serverEnds \/ Len(gotUp) = sentUp
    OBVIOUS
  <2>1. CASE Has(down, "clean")
    BY <2>1 DEF DownInOrder
  <2>2. CASE Answering /\ tunnel.state \in {"open", "closing"}
    BY <2>2 DEF CloseIsBehind, Telling
  <2> QED
    BY <2>1, <2>2, CleanIsRead
<1>4. /\ Telling => /\ NoneAfter(chunk, "close", "message")
                    /\ NoneAfter(toTunnel, "close", "message")
                    /\ Has(chunk, "close") => ~Has(toTunnel, "message")
      /\ page.state \in {"connecting", "open"} =>
           \E f \in Len(gotDown)..sentDown :
             /\ Carries(down, "message", Len(gotDown), f)
             /\ Telling =>
                  \E g \in f..sentDown : \E h \in g..sentDown :
                    /\ Carries(chunk, "message", f, g) /\ Carries(toTunnel, "message", g, h)
                    /\ server # "gone" \/ Answering => h = sentDown
             /\ Has(down, "clean") => f = sentDown /\ serverEnds
  BY DEF DownInOrder
<1>5. CASE NetEvent
  <2>1. Telling' => /\ NoneAfter(chunk', "close", "message")
                    /\ NoneAfter(toTunnel', "close", "message")
                    /\ Has(chunk', "close") => ~Has(toTunnel', "message")
    <3> SUFFICES ASSUME Telling'
                 PROVE  /\ NoneAfter(chunk', "close", "message")
                        /\ NoneAfter(toTunnel', "close", "message")
                        /\ Has(chunk', "close") => ~Has(toTunnel', "message")
      OBVIOUS
    <3>1. Telling
      BY <1>5, KernelServes DEF Telling
    <3>2. toTunnel # <<>> /\ Tail(toTunnel) \in Seq(Items)
      BY <1>5, NetEventDoes, ChunkIs
    <3>3. NoneAfter(Tail(toTunnel), "close", "message")
      BY <1>1, <1>4, <3>1, <3>2, NoneTail
    <3>4. PICK m \in 0..Len(Tail(toTunnel)) :
                 /\ chunk' = SubSeq(Tail(toTunnel), 1, m)
                 /\ toTunnel' = SubSeq(Tail(toTunnel), m + 1, Len(Tail(toTunnel)))
      BY <1>5, ChunkIs
    <3> QED
      BY <3>2, <3>3, <3>4, NoneParts
  <2>2. Answering' => Answering
    BY <1>5, KernelServes DEF Answering
  <2>3. ASSUME page.state \in {"connecting", "open"}
        PROVE  \E f \in Len(gotDown)..sentDown :
                 /\ Carries(down', "message", Len(gotDown), f)
                 /\ Telling' =>
                      \E g \in f..sentDown : \E h \in g..sentDown :
                        /\ Carries(chunk', "message", f, g) /\ Carries(toTunnel', "message", g, h)
                        /\ server # "gone" \/ Answering => h = sentDown
                 /\ Has(down', "clean") => f = sentDown /\ serverEnds
    BY <1>5, <2>3, DownKeptByChunk
  <2>4. ASSUME page.state \in {"connecting", "open"}
        PROVE  \E f \in Len(gotDown)..sentDown :
                 /\ Carries(down', "message", Len(gotDown), f)
                 /\ Telling' =>
                      \E g \in f..sentDown : \E h \in g..sentDown :
                        /\ Carries(chunk', "message", f, g) /\ Carries(toTunnel', "message", g, h)
                        /\ server # "gone" \/ Answering' => h = sentDown
                 /\ Has(down', "clean") => f = sentDown /\ serverEnds
    BY <2>2, <2>3, <2>4
  <2> QED
    BY <1>2, <1>3, <2>1, <2>4 DEF DownInOrder
<1>6. CASE NextFrame
  <2>1. toTunnel' = toTunnel /\ (Answering' => Answering) /\ (Telling' => Telling)
        /\ chunk # <<>> /\ chunk' = Tail(chunk)
    BY <1>6, KernelServes DEF Answering, Telling, NextFrame
  <2>2. Telling' => /\ NoneAfter(chunk', "close", "message")
                    /\ NoneAfter(toTunnel', "close", "message")
                    /\ Has(chunk', "close") => ~Has(toTunnel', "message")
    BY <1>1, <1>4, <2>1, NoneTail, HasTail
  <2>3. ASSUME page.state \in {"connecting", "open"}
        PROVE  \E f \in Len(gotDown)..sentDown :
                 /\ Carries(down', "message", Len(gotDown), f)
                 /\ Telling' =>
                      \E g \in f..sentDown : \E h \in g..sentDown :
                        /\ Carries(chunk', "message", f, g) /\ Carries(toTunnel, "message", g, h)
                        /\ server # "gone" \/ Answering => h = sentDown
                 /\ Has(down', "clean") => f = sentDown /\ serverEnds
    BY <1>6, <2>3, DownKeptByFrame
  <2>4. ASSUME page.state \in {"connecting", "open"}
        PROVE  \E f \in Len(gotDown)..sentDown :
                 /\ Carries(down', "message", Len(gotDown), f)
                 /\ Telling' =>
                      \E g \in f..sentDown : \E h \in g..sentDown :
                        /\ Carries(chunk', "message", f, g) /\ Carries(toTunnel', "message", g, h)
                        /\ server # "gone" \/ Answering' => h = sentDown
                 /\ Has(down', "clean") => f = sentDown /\ serverEnds
    BY <2>1, <2>3, <2>4
  <2> QED
    BY <1>2, <1>3, <2>2, <2>4 DEF DownInOrder
<1>7. CASE Command \/ CloseTimeout
  <2>1. UNCHANGED <<chunk, toTunnel>> /\ (Answering' <=> Answering)
    BY <1>7 DEF Command, CloseTimeout, Answering
  <2>2. /\ Telling' => Telling
        /\ down' = down \/ down' = Append(down, One("failed"))
    <3>1. Ends("failed") => ~Telling' /\ down' = Append(down, One("failed"))
      BY DEF Ends, Telling
    <3>2. Idles \/ (\E item : Tells(item)) => (Telling' <=> Telling) /\ down' = down
      BY DEF Idles, Tells, Stays, Telling
    <3>3. Closing \/ (tunnel.state = "none" /\ Begins) => (Telling' => Telling) /\ down' = down
      BY DEF Closing, Begins, Telling
    <3> QED
      BY <1>7, <3>1, <3>2, <3>3, CommandDoes, CloseTimeoutDoes
  <2>3. Has(down', "clean") => Has(down, "clean")
    <3>1. One("failed") \in Items /\ One("failed").kind # "clean"
      BY <1>1
    <3>2. Has(Append(down, One("failed")), "clean") <=> Has(down, "clean")
      BY <1>1, <3>1, HasAppend
    <3> QED
      BY <2>2, <3>2
  <2>4. ASSUME NEW f \in Len(gotDown)..sentDown, Carries(down, "message", Len(gotDown), f)
        PROVE  Carries(down', "message", Len(gotDown), f)
    <3>1. f \in Nat /\ Len(gotDown) <= f
      BY <1>1
    <3>2. Carries(Append(down, One("failed")), "message", Len(gotDown), f)
      BY <1>1, <2>4, <3>1, AppendCarries
    <3> QED
      BY <2>2, <2>4, <3>2
  <2>5. ASSUME page.state \in {"connecting", "open"}
        PROVE  \E f \in Len(gotDown)..sentDown :
                 /\ Carries(down', "message", Len(gotDown), f)
                 /\ Telling' =>
                      \E g \in f..sentDown : \E h \in g..sentDown :
                        /\ Carries(chunk, "message", f, g) /\ Carries(toTunnel, "message", g, h)
                        /\ server # "gone" \/ Answering => h = sentDown
                 /\ Has(down', "clean") => f = sentDown /\ serverEnds
    BY <1>4, <2>2, <2>3, <2>4, <2>5
  <2> QED
    BY <1>2, <1>3, <1>4, <2>1, <2>2, <2>5 DEF DownInOrder
<1> QED
  BY <1>5, <1>6, <1>7

\* and by the server, whatever becomes of it.
LEMMA DownKeptByServer ==
  ASSUME Base, UpInOrder, CloseIsBehind, DownInOrder,
         \/ ServerTakes \/ ServerAnswers \/ ServerWrites \/ ServerEchoes
         \/ ServerLeaves \/ ServerDies
  PROVE  DownInOrder'
<1>1. /\ toTunnel \in Seq(Items) /\ Len(gotDown) \in Nat /\ sentDown \in Nat
      /\ \A kind \in Kinds : One(kind) \in Items /\ One(kind).kind = kind
      /\ Len(gotUp) \in Nat /\ sentUp \in Nat
  BY SocketAssumption, ItemsAre DEF Base, Shapes, One, Item
<1>2. /\ UNCHANGED <<page, gotDown, up, down, tunnel, chunk, sentUp>> /\ (Telling' <=> Telling)
  BY DEF ServerTakes, ServerAnswers, ServerWrites, ServerEchoes, ServerLeaves, ServerDies,
         ServerUnchanged, pageVars, kernelVars, Telling
<1>3. /\ Telling => /\ NoneAfter(chunk, "close", "message")
                    /\ NoneAfter(toTunnel, "close", "message")
                    /\ Has(chunk, "close") => ~Has(toTunnel, "message")
      /\ page.state \in {"connecting", "open"} =>
           \E f \in Len(gotDown)..sentDown :
             /\ Carries(down, "message", Len(gotDown), f)
             /\ Telling =>
                  \E g \in f..sentDown : \E h \in g..sentDown :
                    /\ Carries(chunk, "message", f, g) /\ Carries(toTunnel, "message", g, h)
                    /\ server # "gone" \/ Answering => h = sentDown
             /\ Has(down, "clean") => f = sentDown /\ serverEnds
      /\ page.state = "closing" /\ Has(down, "clean") => serverEnds \/ Len(gotUp) = sentUp
  BY DEF DownInOrder
<1>4. Telling => server # "closing" /\ (Answering => serverEnds)
  BY DEF CloseIsBehind
<1>5. server # "gone"
  BY DEF ServerTakes, ServerAnswers, ServerWrites, ServerEchoes, ServerLeaves, ServerDies
<1>6. page.state = "closing" /\ Has(down, "clean") => serverEnds' \/ Len(gotUp') = sentUp
  <2>1. CASE ServerTakes
    <3>1. serverEnds' = serverEnds
      BY <2>1 DEF ServerTakes
    <3>2. \/ gotUp' = gotUp
          \/ gotUp' = Append(gotUp, Len(gotUp) + 1) /\ Len(gotUp) < sentUp
      BY <2>1, ServerTakesNext
    <3>3. Len(gotUp) = sentUp => gotUp' = gotUp
      BY <1>1, <3>2
    <3> QED
      BY <1>3, <3>1, <3>3
  <2>2. CASE ServerAnswers \/ ServerWrites \/ ServerEchoes \/ ServerLeaves \/ ServerDies
    <3>1. gotUp' = gotUp /\ (serverEnds => serverEnds')
      BY <2>2 DEF ServerAnswers, ServerWrites, ServerEchoes, ServerLeaves, ServerDies
    <3> QED
      BY <1>3, <3>1
  <2> QED
    BY <2>1, <2>2
<1>7. ASSUME Telling
      PROVE  /\ NoneAfter(toTunnel', "close", "message")
             /\ Has(chunk, "close") => ~Has(toTunnel', "message")
  <2>1. /\ NoneAfter(toTunnel, "close", "message")
        /\ Has(chunk, "close") => ~Has(toTunnel, "message")
    BY <1>3, <1>7
  <2>2. ASSUME NEW s \in Seq(Items), NEW e \in Items, e.kind # "message",
               NoneAfter(s, "close", "message"), Has(chunk, "close") => ~Has(s, "message")
        PROVE  /\ NoneAfter(Append(s, e), "close", "message")
               /\ Has(chunk, "close") => ~Has(Append(s, e), "message")
    BY <2>2, NoneAppend, HasAppend
  <2>3. CASE \E kind \in {"accept", "refuse", "eof", "gone", "ping", "bad", "close"} :
               toTunnel' = Append(toTunnel, One(kind))
    <3>1. \A kind \in {"accept", "refuse", "eof", "gone", "ping", "bad", "close"} :
            One(kind) \in Items /\ One(kind).kind # "message"
      BY <1>1 DEF Kinds
    <3> QED
      BY <1>1, <2>1, <2>2, <2>3, <3>1
  <2>4. CASE ServerWrites /\ toTunnel' = Append(toTunnel, Item("message", sentDown + 1))
    <3>1. ~Has(toTunnel, "close") /\ ~Has(chunk, "close")
      BY <1>4, <1>7, <2>4 DEF ServerWrites, Answering
    <3>2. sentDown + 1 \in 0..MaxUp + MaxFrames
      BY <2>4, SocketAssumption DEF ServerWrites, Base, Shapes
    <3>3. Item("message", sentDown + 1) \in Items
      BY <3>2, ItemsAre DEF Kinds
    <3>4. NoneAfter(toTunnel', "close", "message")
      BY <1>1, <2>1, <2>4, <3>1, <3>3, NoneAppend
    <3> QED
      BY <3>1, <3>4
  <2>5. CASE toTunnel' = toTunnel
    BY <2>1, <2>5
  <2>6. CASE ServerDies
    <3>1. PICK k \in 0..Len(toTunnel) :
                 toTunnel' = IF conn THEN Append(SubSeq(toTunnel, 1, k), One("gone")) ELSE <<>>
      BY <2>6 DEF ServerDies
    <3>2. CASE conn
      <4>1. /\ SubSeq(toTunnel, 1, k) \in Seq(Items)
            /\ NoneAfter(SubSeq(toTunnel, 1, k), "close", "message")
        BY <1>1, <2>1, Parts, NoneParts
      <4>2. Has(chunk, "close") => ~Has(SubSeq(toTunnel, 1, k), "message")
        BY <1>1, <2>1, HasParts
      <4>3. One("gone") \in Items /\ One("gone").kind # "message"
        BY <1>1 DEF Kinds
      <4> QED
        BY <2>2, <3>1, <3>2, <4>1, <4>2, <4>3
    <3>3. CASE ~conn
      BY <3>1, <3>3 DEF NoneAfter, Has
    <3> QED
      BY <3>2, <3>3
  <2>7. ServerTakes => toTunnel' = toTunnel
    BY DEF ServerTakes
  <2>8. ServerAnswers \/ ServerEchoes \/ ServerLeaves =>
          \E kind \in {"accept", "refuse", "eof", "gone", "ping", "bad", "close"} :
            toTunnel' = Append(toTunnel, One(kind))
    BY DEF ServerAnswers, ServerEchoes, ServerLeaves
  <2>9. ServerWrites => \/ toTunnel' = Append(toTunnel, Item("message", sentDown + 1))
                        \/ \E kind \in {"accept", "refuse", "eof", "gone", "ping", "bad", "close"} :
                             toTunnel' = Append(toTunnel, One(kind))
    BY DEF ServerWrites
  <2> QED
    BY <2>3, <2>4, <2>5, <2>6, <2>7, <2>8, <2>9
<1>8. Has(down, "clean") => ~ServerWrites \/ ~(page.state \in {"connecting", "open"})
  BY <1>3 DEF ServerWrites
<1>9. ASSUME Telling, NEW g \in Nat, g <= sentDown, Carries(toTunnel, "message", g, sentDown)
      PROVE  \E h \in g..sentDown' : /\ Carries(toTunnel', "message", g, h)
                                     /\ server' # "gone" \/ Answering' => h = sentDown'
  <2>1. ASSUME NEW e \in Items, e.kind # "message", toTunnel' = Append(toTunnel, e),
               sentDown' = sentDown
        PROVE  \E h \in g..sentDown' : /\ Carries(toTunnel', "message", g, h)
                                       /\ server' # "gone" \/ Answering' => h = sentDown'
    <3>1. Carries(toTunnel', "message", g, sentDown) /\ sentDown \in g..sentDown
      BY <1>1, <1>9, <2>1, AppendCarries
    <3> QED
      BY <2>1, <3>1
  <2>2. CASE \E kind \in {"accept", "refuse", "eof", "gone", "ping", "bad", "close"} :
               toTunnel' = Append(toTunnel, One(kind)) /\ sentDown' = sentDown
    <3>1. \A kind \in {"accept", "refuse", "eof", "gone", "ping", "bad", "close"} :
            One(kind) \in Items /\ One(kind).kind # "message"
      BY <1>1 DEF Kinds
    <3> QED
      BY <2>1, <2>2, <3>1
  <2>3. CASE /\ ServerWrites /\ sentDown' = sentDown + 1
             /\ toTunnel' = Append(toTunnel, Item("message", sentDown + 1))
    <3>1. sentDown + 1 \in 0..MaxUp + MaxFrames
      BY <2>3, SocketAssumption DEF ServerWrites, Base, Shapes
    <3>2. /\ Item("message", sentDown + 1) \in Items /\ Item("message", sentDown + 1).kind = "message"
          /\ Item("message", sentDown + 1).n = sentDown + 1
      BY <3>1, ItemsAre DEF Kinds, Item
    <3>3. Carries(toTunnel', "message", g, sentDown + 1) /\ sentDown + 1 \in g..sentDown + 1
      BY <1>1, <1>9, <2>3, <3>2, AppendCarries
    <3> QED
      BY <2>3, <3>3
  <2>4. CASE toTunnel' = toTunnel /\ sentDown' = sentDown
    <3>1. sentDown \in g..sentDown
      BY <1>1, <1>9
    <3> QED
      BY <1>9, <2>4, <3>1
  <2>5. CASE ServerDies
    <3>1. sentDown' = sentDown /\ \E k \in 0..Len(toTunnel) :
            toTunnel' = IF conn THEN Append(SubSeq(toTunnel, 1, k), One("gone")) ELSE <<>>
      BY <2>5 DEF ServerDies
    <3>2. PICK k \in 0..Len(toTunnel) :
                 toTunnel' = IF conn THEN Append(SubSeq(toTunnel, 1, k), One("gone")) ELSE <<>>
      BY <3>1
    <3>3. CASE conn
      <4> DEFINE kept == SubSeq(toTunnel, 1, k)
                 lost == SubSeq(toTunnel, k + 1, Len(toTunnel))
      <4>1. kept \in Seq(Items) /\ lost \in Seq(Items)
        BY <1>1, Parts
      <4>2. PICK h \in g..sentDown : Carries(kept, "message", g, h)
                                     /\ Carries(lost, "message", h, sentDown)
        BY <1>1, <1>9, SplitCarries
      <4>3. h \in Nat /\ g <= h /\ h <= sentDown
        BY <1>1, <1>9
      <4>4. One("gone") \in Items /\ One("gone").kind # "message" /\ One("gone").kind # "close"
        BY <1>1 DEF Kinds
      <4>5. Has(kept, "close") => ~Has(lost, "message")
        BY <1>1, <1>3, <1>9, NoneParts
      <4>6. Has(chunk, "close") => ~Has(lost, "message")
        BY <1>1, <1>3, <1>9, HasParts
      <4>7. toTunnel' = Append(kept, One("gone"))
        BY <3>2, <3>3
      <4> HIDE DEF kept, lost
      <4>8. Carries(Append(kept, One("gone")), "message", g, h)
        BY <1>9, <4>1, <4>2, <4>3, <4>4, AppendCarries
      <4>9. Has(Append(kept, One("gone")), "close") <=> Has(kept, "close")
        BY <4>1, <4>4, HasAppend
      <4>10. Answering' => ~Has(lost, "message")
        BY <1>2, <4>5, <4>6, <4>7, <4>9 DEF Answering
      <4>11. ~Has(lost, "message") => h = sentDown
        BY <1>1, <4>1, <4>2, <4>3, NothingCarried
      <4>12. server' = "gone"
        BY <2>5 DEF ServerDies
      <4> QED
        BY <3>1, <4>2, <4>7, <4>8, <4>10, <4>11, <4>12
    <3>4. CASE ~conn
      <4>1. toTunnel = <<>>
        BY <1>9, <3>4 DEF Base, OpensFirst, Telling
      <4>2. toTunnel' = toTunnel
        BY <3>2, <3>4, <4>1
      <4> QED
        BY <2>4, <3>1, <4>2
    <3> QED
      BY <3>3, <3>4
  <2>6. ServerTakes => toTunnel' = toTunnel /\ sentDown' = sentDown
    BY DEF ServerTakes
  <2>7. ServerAnswers \/ ServerEchoes \/ ServerLeaves =>
          \E kind \in {"accept", "refuse", "eof", "gone", "ping", "bad", "close"} :
            toTunnel' = Append(toTunnel, One(kind)) /\ sentDown' = sentDown
    BY DEF ServerAnswers, ServerEchoes, ServerLeaves
  <2>8. ServerWrites =>
          \/ sentDown' = sentDown + 1 /\ toTunnel' = Append(toTunnel, Item("message", sentDown + 1))
          \/ \E kind \in {"accept", "refuse", "eof", "gone", "ping", "bad", "close"} :
               toTunnel' = Append(toTunnel, One(kind)) /\ sentDown' = sentDown
    BY DEF ServerWrites
  <2> QED
    BY <2>2, <2>3, <2>4, <2>5, <2>6, <2>7, <2>8
<1>10. sentDown' \in Nat /\ sentDown <= sentDown' /\ (serverEnds => serverEnds')
       /\ (~ServerWrites => sentDown' = sentDown)
  BY <1>1 DEF ServerTakes, ServerAnswers, ServerWrites, ServerEchoes, ServerLeaves, ServerDies
<1>11. ASSUME page.state \in {"connecting", "open"}
       PROVE  \E f \in Len(gotDown)..sentDown' :
                /\ Carries(down, "message", Len(gotDown), f)
                /\ Telling =>
                     \E g \in f..sentDown' : \E h \in g..sentDown' :
                       /\ Carries(chunk, "message", f, g) /\ Carries(toTunnel', "message", g, h)
                       /\ server' # "gone" \/ Answering' => h = sentDown'
                /\ Has(down, "clean") => f = sentDown' /\ serverEnds'
  <2>1. PICK f \in Len(gotDown)..sentDown :
             /\ Carries(down, "message", Len(gotDown), f)
             /\ Telling =>
                  \E g \in f..sentDown : \E h \in g..sentDown :
                    /\ Carries(chunk, "message", f, g) /\ Carries(toTunnel, "message", g, h)
                    /\ server # "gone" \/ Answering => h = sentDown
             /\ Has(down, "clean") => f = sentDown /\ serverEnds
    BY <1>3, <1>11
  <2>2. f \in Nat /\ f \in Len(gotDown)..sentDown'
    BY <1>1, <1>10
  <2>3. Has(down, "clean") => f = sentDown' /\ serverEnds'
    BY <1>8, <1>10, <1>11, <2>1
  <2>4. ASSUME Telling
        PROVE  \E g \in f..sentDown' : \E h \in g..sentDown' :
                 /\ Carries(chunk, "message", f, g) /\ Carries(toTunnel', "message", g, h)
                 /\ server' # "gone" \/ Answering' => h = sentDown'
    <3>1. PICK g \in f..sentDown : /\ Carries(chunk, "message", f, g)
                                   /\ Carries(toTunnel, "message", g, sentDown)
      BY <1>5, <2>1, <2>4
    <3>2. g \in Nat /\ g <= sentDown /\ g \in f..sentDown'
      BY <1>1, <1>10, <2>2
    <3> QED
      BY <1>9, <2>4, <3>1, <3>2
  <2> QED
    BY <2>1, <2>2, <2>3, <2>4
<1> QED
  BY <1>2, <1>3, <1>6, <1>7, <1>11 DEF DownInOrder

\* No step loses, repeats or reorders a message to the page.
LEMMA DownKept ==
  ASSUME Base, UpInOrder, CloseIsBehind, DownInOrder, [Next]_vars
  PROVE  DownInOrder'
<1>1. CASE FlushFails \/ UNCHANGED vars
  BY <1>1, RejectionIsQuiet DEF SocketStays, DownInOrder, Telling, Answering
<1> QED
  BY <1>1, DownKeptByPage, PageTakesNext, DownKeptByKernel, DownKeptByServer DEF Next

\* Both directions hold throughout.
LEMMA OrderHolds == Spec => [](Base /\ UpInOrder /\ CloseIsBehind /\ DownInOrder)
<1>1. Init => UpInOrder /\ CloseIsBehind /\ DownInOrder
  <2> SUFFICES ASSUME Init PROVE UpInOrder /\ CloseIsBehind /\ DownInOrder
    OBVIOUS
  <2>1. /\ page.state = "connecting" /\ page.queue = <<>> /\ sentUp = 0 /\ gotDown = <<>>
        /\ up = <<One("open")>> /\ down = <<>> /\ tunnel.state = "none"
        /\ chunk = <<>> /\ toServer = <<>> /\ toTunnel = <<>> /\ server = "listening"
        /\ sentDown = 0 /\ gotUp = <<>> /\ serverEnds = FALSE
    BY DEF Init
  <2>2. \A kind : Carries(<<>>, kind, 0, 0) /\ ~Has(<<>>, kind)
    BY NothingCarried DEF Has
  <2>3. /\ <<>> \in Seq(Items) /\ One("open") \in Items /\ One("open").kind = "open"
        /\ up = Append(<<>>, One("open"))
    BY <2>1, ItemsAre DEF Kinds, One, Item
  <2>4. Carries(up, "send", 0, 0) /\ ~Has(up, "close")
    <3>1. "open" # "send" /\ "open" # "close" /\ Carries(<<>>, "send", 0, 0) /\ ~Has(<<>>, "close")
      BY <2>2
    <3>2. Carries(Append(<<>>, One("open")), "send", 0, 0)
      <4>1. ASSUME NEW s \in Seq(Items), Carries(s, "send", 0, 0), NEW e \in Items, e.kind # "send"
            PROVE  Carries(Append(s, e), "send", 0, 0)
        BY <4>1, AppendCarries
      <4> QED
        BY <2>3, <3>1, <4>1
    <3>3. ~Has(Append(<<>>, One("open")), "close")
      BY <2>3, <3>1, HasAppend
    <3> QED
      BY <2>3, <3>2, <3>3
  <2>5. Len(gotUp) = 0 /\ Len(gotDown) = 0 /\ 0 \in 0..0
    BY <2>1
  <2>6. UpInOrder
    BY <2>1, <2>2, <2>4, <2>5 DEF UpInOrder
  <2>7. CloseIsBehind
    BY <2>1, <2>2, <2>4 DEF CloseIsBehind, Telling, Answering
  <2>8. DownInOrder
    <3>1. \A first, other : NoneAfter(<<>>, first, other)
      BY <2>2, NoneWithout
    <3> QED
      BY <2>1, <2>2, <2>5, <3>1 DEF DownInOrder
  <2> QED
    BY <2>6, <2>7, <2>8
<1>2. Base /\ UpInOrder /\ CloseIsBehind /\ DownInOrder /\ [Next]_vars
        => UpInOrder' /\ CloseIsBehind' /\ DownInOrder'
  BY UpKept, CloseKept, DownKept
<1> QED
  BY <1>1, <1>2, BaseHolds, PTL DEF Spec

\* Every step is a step of the abstract socket's, or one it does not see.
LEMMA StepsAreSeen ==
  ASSUME Base, UpInOrder, DownInOrder, [Next]_vars
  PROVE  [Socket!Next]_Socket!vars
<1> USE DEF Socket!vars, Socket!up, Socket!down
<1>1. /\ page \in [state : {"connecting", "open", "closing", "closed"}, queue : Seq(Items),
                   outcome : {"none", "clean", "failed", "left"}]
      /\ page.outcome = "none" <=> page.state # "closed"
  BY DEF Base, Shapes
<1>2. CASE Send
  <2>1. /\ page.state = "open" /\ sentUp' = sentUp + 1 /\ UNCHANGED gotDown
        /\ page'.state = page.state /\ page'.outcome = page.outcome
        /\ UNCHANGED <<gotUp, sentDown, serverEnds>>
    BY <1>1, <1>2 DEF Send, PageUnchanged, serverVars
  <2> QED
    BY <2>1 DEF Socket!Next, Socket!PageSends
<1>3. CASE Close
  <2>1. /\ page.state \in {"connecting", "open"} /\ UNCHANGED <<sentUp, gotDown>>
        /\ page'.state = "closing" /\ page'.outcome = page.outcome
        /\ UNCHANGED <<gotUp, sentDown, serverEnds>>
    BY <1>1, <1>3 DEF Close, PageUnchanged, serverVars
  <2> QED
    BY <2>1 DEF Socket!Next, Socket!PageCloses
<1>4. CASE Flush
  <2>1. /\ UNCHANGED <<sentUp, gotDown>> /\ page'.state = page.state
        /\ page'.outcome = page.outcome /\ UNCHANGED <<gotUp, sentDown, serverEnds>>
    BY <1>1, <1>4 DEF Flush, PageUnchanged, serverVars
  <2> QED
    BY <2>1
<1>5. CASE Abandon
  <2>1. /\ page.state # "closed" /\ page'.state = "closed" /\ page'.outcome = "left"
        /\ UNCHANGED <<sentUp, gotDown>> /\ UNCHANGED <<gotUp, sentDown, serverEnds>>
    BY <1>1, <1>5 DEF Abandon, PageUnchanged, serverVars
  <2> QED
    BY <2>1 DEF Socket!Next, Socket!PageLeaves, Socket!Closes
<1>6. CASE Receive
  <2>1. UNCHANGED <<sentUp, gotUp, sentDown, serverEnds>>
    BY <1>6 DEF Receive, PageUnchanged, serverVars
  <2>2. CASE page.state = "connecting" /\ page' = [page EXCEPT !.state = "open"] /\ UNCHANGED gotDown
    <3>1. page'.state = "open" /\ page'.outcome = page.outcome
      BY <1>1, <2>2
    <3> QED
      BY <2>1, <2>2, <3>1 DEF Socket!Next, Socket!Opens
  <2>3. CASE /\ page.state = "open" /\ page' = page
             /\ gotDown' = Append(gotDown, Len(gotDown) + 1) /\ Len(gotDown) < sentDown
    BY <2>1, <2>3 DEF Socket!Next, Socket!PageGets
  <2>4. CASE UNCHANGED <<page, gotDown>>
    BY <2>1, <2>4
  <2>5. CASE /\ page.state # "closed" /\ Head(down).kind = "failed" /\ UNCHANGED gotDown
             /\ page' = [page EXCEPT !.state = "closed", !.outcome = Head(down).kind]
    <3>1. page'.state = "closed" /\ page'.outcome = "failed"
      BY <1>1, <2>5
    <3> QED
      BY <2>1, <2>5, <3>1 DEF Socket!Next, Socket!Fails, Socket!Closes
  <2>6. CASE /\ page.state # "closed" /\ Head(down).kind = "clean" /\ UNCHANGED gotDown
             /\ page' = [page EXCEPT !.state = "closed", !.outcome = Head(down).kind]
    <3>1. page'.state = "closed" /\ page'.outcome = "clean" /\ page.outcome # "clean"
      BY <1>1, <2>6
    <3>2. \/ page.state = "closing" /\ Len(gotUp) = sentUp
          \/ serverEnds /\ (page.state = "closing" \/ Len(gotDown) = sentDown)
      BY <1>6, <3>1, PageTakesNext
    <3> QED
      BY <2>1, <2>6, <3>1, <3>2 DEF Socket!Next, Socket!ClosesCleanly, Socket!Closes
  <2>7. \/ gotDown' = gotDown
        \/ /\ page.state = "open" /\ page' = page
           /\ gotDown' = Append(gotDown, Len(gotDown) + 1) /\ Len(gotDown) < sentDown
    BY <1>6, PageTakesNext
  <2>8. \/ page.state = "connecting" /\ page' = [page EXCEPT !.state = "open"] /\ UNCHANGED gotDown
        \/ page' = page
        \/ /\ page.state # "closed" /\ Head(down).kind \in {"clean", "failed"} /\ UNCHANGED gotDown
           /\ page' = [page EXCEPT !.state = "closed", !.outcome = Head(down).kind]
    BY <1>6 DEF Receive
  <2> QED
    BY <2>2, <2>3, <2>4, <2>5, <2>6, <2>7, <2>8
<1>7. CASE Command \/ NetEvent \/ NextFrame \/ CloseTimeout
  <2>1. UNCHANGED <<page, sentUp, gotDown, gotUp, sentDown, serverEnds>>
    BY <1>7, KernelKeepsShapes DEF pageVars, serverVars
  <2> QED
    BY <2>1
<1>8. CASE ServerTakes
  <2>1. UNCHANGED <<page, sentUp, gotDown, sentDown, serverEnds>>
    BY <1>8 DEF ServerTakes, ServerUnchanged, pageVars
  <2>2. \/ gotUp' = gotUp
        \/ gotUp' = Append(gotUp, Len(gotUp) + 1) /\ Len(gotUp) < sentUp
    BY <1>8, ServerTakesNext
  <2>3. CASE gotUp' = gotUp
    BY <2>1, <2>3
  <2>4. CASE gotUp' = Append(gotUp, Len(gotUp) + 1) /\ Len(gotUp) < sentUp
    BY <2>1, <2>4 DEF Socket!Next, Socket!ServerGets
  <2> QED
    BY <2>2, <2>3, <2>4
<1>9. CASE ServerWrites
  <2>1. UNCHANGED <<page, sentUp, gotDown, gotUp>> /\ ~serverEnds /\ serverEnds \in BOOLEAN
    BY <1>9 DEF ServerWrites, ServerUnchanged, pageVars, Base, Shapes
  <2>2. CASE sentDown' = sentDown + 1 /\ UNCHANGED serverEnds
    BY <2>1, <2>2 DEF Socket!Next, Socket!ServerSends
  <2>3. CASE serverEnds' = TRUE /\ UNCHANGED sentDown
    BY <2>1, <2>3 DEF Socket!Next, Socket!ServerBeginsToClose
  <2>4. CASE serverEnds' = FALSE /\ UNCHANGED sentDown
    BY <2>1, <2>4
  <2> QED
    BY <1>9, <2>2, <2>3, <2>4 DEF ServerWrites
<1>10. CASE ServerAnswers \/ ServerEchoes \/ ServerLeaves \/ ServerDies \/ FlushFails
            \/ UNCHANGED vars
  <2>1. UNCHANGED <<page, sentUp, gotDown, gotUp, sentDown, serverEnds>>
    BY <1>10, RejectionIsQuiet DEF SocketStays, ServerAnswers, ServerEchoes, ServerLeaves, ServerDies,
                                   ServerUnchanged, pageVars
  <2> QED
    BY <2>1
<1> QED
  BY <1>2, <1>3, <1>4, <1>5, <1>6, <1>7, <1>8, <1>9, <1>10 DEF Next

\* The page sees a WebSocket: messages in order and once, nothing lost by a
\* clean close, whatever the server does, whenever its process dies and however
\* the two closes cross.
THEOREM SocketImplements == Spec => ImplementsWebSocket
<1>1. Init => Socket!Init
  BY DEF Init, Socket!Init
<1>2. Base /\ UpInOrder /\ DownInOrder /\ [Next]_vars => [Socket!Next]_Socket!vars
  BY StepsAreSeen
<1> QED
  BY <1>1, <1>2, OrderHolds, PTL DEF Spec, ImplementsWebSocket, Socket!Spec
=============================================================================
