------------------------------- MODULE SeqLemmas -------------------------------
(***************************************************************************)
(* What the proofs need to know of sequences: the elements RemoveAt, Tail, *)
(* Append and \o leave, the stretches of a sequence, the principle of      *)
(* induction for sets of numbers; and of StringUtils: what the loop of     *)
(* split collects, for any text, and that it undoes what Join writes.      *)
(***************************************************************************)
EXTENDS StringUtils, Integers, Sequences, SequencesExt, SequenceTheorems, WellFoundedInduction, TLAPS

(* Every element of RemoveAt(s, i) comes from a place of s other than i.   *)
LEMMA RemoveAtProps ==
  ASSUME NEW S, NEW s \in Seq(S), NEW i \in DOMAIN s
  PROVE  /\ RemoveAt(s, i) \in Seq(S)
         /\ Len(RemoveAt(s, i)) = Len(s) - 1
         /\ \A j \in DOMAIN RemoveAt(s, i) :
              \/ j < i /\ j \in DOMAIN s /\ RemoveAt(s, i)[j] = s[j]
              \/ j >= i /\ j + 1 \in DOMAIN s /\ RemoveAt(s, i)[j] = s[j + 1]
<1> DEFINE a == SubSeq(s, 1, i - 1)
           b == SubSeq(s, i + 1, Len(s))
           r == a \o b
<1>1. i \in 1 .. Len(s) /\ Len(s) \in Nat /\ DOMAIN s = 1 .. Len(s)
  BY LenProperties
<1>2. a \in Seq(S) /\ Len(a) = i - 1 /\ \A j \in 1 .. i - 1 : a[j] = s[j]
  <2>1. \A j \in 1 .. i - 1 : s[j] \in S
    BY <1>1, ElementOfSeq
  <2>2. QED
    BY <1>1, <2>1, SubSeqProperties
<1>3. b \in Seq(S) /\ Len(b) = Len(s) - i /\ \A j \in 1 .. Len(s) - i : b[j] = s[i + j]
  <2>1. \A j \in i + 1 .. Len(s) : s[j] \in S
    BY <1>1, ElementOfSeq
  <2>2. /\ b \in Seq(S)
        /\ Len(b) = IF i + 1 <= Len(s) THEN Len(s) - (i + 1) + 1 ELSE 0
        /\ \A j \in 1 .. Len(s) - (i + 1) + 1 : b[j] = s[(i + 1) + j - 1]
    BY <1>1, <2>1, SubSeqProperties
  <2>3. QED
    BY <1>1, <2>2
<1>4. RemoveAt(s, i) = r
  BY DEF RemoveAt
<1> HIDE DEF a, b
<1>5. /\ r \in Seq(S)
      /\ Len(r) = Len(a) + Len(b)
      /\ \A j \in 1 .. Len(a) + Len(b) :
           r[j] = IF j <= Len(a) THEN a[j] ELSE b[j - Len(a)]
  BY <1>2, <1>3, ConcatProperties
<1> HIDE DEF r
<1>6. Len(a) + Len(b) = Len(s) - 1
  BY <1>1, <1>2, <1>3
<1>7. Len(r) = Len(s) - 1 /\ DOMAIN r = 1 .. Len(s) - 1
  BY <1>5, <1>6, LenProperties
<1>8. ASSUME NEW j \in 1 .. Len(s) - 1
      PROVE  \/ j < i /\ j \in DOMAIN s /\ r[j] = s[j]
             \/ j >= i /\ j + 1 \in DOMAIN s /\ r[j] = s[j + 1]
  <2>1. r[j] = IF j <= i - 1 THEN a[j] ELSE b[j - (i - 1)]
    BY <1>2, <1>5, <1>6
  <2>2. CASE j < i
    BY <1>1, <1>2, <2>1, <2>2
  <2>3. CASE j >= i
    <3>1. j - (i - 1) \in 1 .. Len(s) - i /\ i + (j - (i - 1)) = j + 1
      BY <1>1, <2>3
    <3>2. b[j - (i - 1)] = s[j + 1]
      BY <1>3, <3>1
    <3>3. r[j] = b[j - (i - 1)]
      BY <1>1, <2>1, <2>3
    <3>4. QED
      BY <1>1, <2>3, <3>2, <3>3
  <2>4. j < i \/ j >= i
    BY <1>1
  <2>5. QED
    BY <2>2, <2>3, <2>4
<1>9. QED
  BY <1>4, <1>5, <1>7, <1>8

(* The first element of a sequence, and the elements after it. *)
LEMMA TailProps ==
  ASSUME NEW S, NEW s \in Seq(S), s # <<>>
  PROVE  /\ Head(s) \in S
         /\ 1 \in DOMAIN s
         /\ Head(s) = s[1]
         /\ Tail(s) \in Seq(S)
         /\ Len(Tail(s)) = Len(s) - 1
         /\ \A j \in DOMAIN Tail(s) : j + 1 \in DOMAIN s /\ Tail(s)[j] = s[j + 1]
  BY HeadTailProperties, LenProperties, EmptySeq

(* The elements of a sequence an element was appended to. *)
LEMMA AppendProps ==
  ASSUME NEW S, NEW s \in Seq(S), NEW x \in S
  PROVE  /\ Append(s, x) \in Seq(S)
         /\ Len(Append(s, x)) = Len(s) + 1
         /\ \A j \in DOMAIN Append(s, x) :
              \/ j \in DOMAIN s /\ Append(s, x)[j] = s[j]
              \/ j = Len(s) + 1 /\ Append(s, x)[j] = x
  BY AppendProperties, LenProperties

(* The elements of two sequences one after the other. *)
LEMMA ConcatParts ==
  ASSUME NEW S, NEW a \in Seq(S), NEW b \in Seq(S)
  PROVE  /\ a \o b \in Seq(S)
         /\ Len(a \o b) = Len(a) + Len(b)
         /\ \A j \in 1 .. Len(a) : (a \o b)[j] = a[j]
         /\ \A j \in 1 .. Len(b) : (a \o b)[Len(a) + j] = b[j]
<1>1. Len(a) \in Nat /\ Len(b) \in Nat
  OBVIOUS
<1>2. /\ a \o b \in Seq(S) /\ Len(a \o b) = Len(a) + Len(b)
      /\ \A j \in 1 .. Len(a) + Len(b) :
           (a \o b)[j] = IF j <= Len(a) THEN a[j] ELSE b[j - Len(a)]
  BY ConcatProperties
<1>3. \A j \in 1 .. Len(a) : j \in 1 .. Len(a) + Len(b) /\ j <= Len(a)
  BY <1>1
<1>4. \A j \in 1 .. Len(b) : /\ Len(a) + j \in 1 .. Len(a) + Len(b)
                            /\ ~(Len(a) + j <= Len(a)) /\ (Len(a) + j) - Len(a) = j
  BY <1>1
<1>5. QED
  BY <1>2, <1>3, <1>4
-------------------------------------------------------------------------------
(* Every set of natural numbers that is not empty has a least element.     *)
LEMMA LeastNatural ==
  ASSUME NEW T \in SUBSET Nat, T # {}
  PROVE  \E x \in T : \A y \in T : x <= y
<1>1. PICK x \in T : \A y \in T : ~(<<y, x>> \in OpToRel(<, Nat))
  BY NatLessThanWellFounded, WFMin
<1>2. \A y \in T : ~(y < x)
  BY <1>1 DEF OpToRel
<1>3. QED
  BY <1>2

(* What holds of 0, and of n + 1 if of n, holds of all numbers. *)
LEMMA NatSetInduction ==
  ASSUME NEW T \in SUBSET Nat, 0 \in T, \A n \in T : n + 1 \in T
  PROVE  T = Nat
<1>1. SUFFICES ASSUME Nat \ T # {} PROVE FALSE
  OBVIOUS
<1>2. PICK x \in Nat \ T : \A y \in Nat \ T : x <= y
  BY <1>1, LeastNatural
<1>3. x # 0 /\ x - 1 \in Nat /\ ~(x <= x - 1) /\ (x - 1) + 1 = x
  BY <1>2
<1>4. x - 1 \in T
  BY <1>2, <1>3
<1>5. QED
  BY <1>2, <1>3, <1>4
-------------------------------------------------------------------------------
(***************************************************************************)
(* Sequences one after the other                                           *)
(***************************************************************************)
(* Concatenation, as a name the provers need not look behind. *)
Cat(a, b) == a \o b

(* The elements of a concatenation. *)
LEMMA CatProps ==
  ASSUME NEW S, NEW a \in Seq(S), NEW b \in Seq(S)
  PROVE  /\ Cat(a, b) \in Seq(S)
         /\ Len(Cat(a, b)) = Len(a) + Len(b)
         /\ \A j \in 1 .. Len(a) : Cat(a, b)[j] = a[j]
         /\ \A j \in 1 .. Len(b) : Cat(a, b)[Len(a) + j] = b[j]
  BY ConcatParts DEF Cat

(* Two sequences of the same elements are one. *)
LEMMA SameSequence ==
  ASSUME NEW S, NEW a \in Seq(S), NEW b \in Seq(S), Len(a) = Len(b),
         \A j \in 1 .. Len(a) : a[j] = b[j]
  PROVE  a = b
<1>1. a = [j \in 1 .. Len(a) |-> a[j]] /\ b = [j \in 1 .. Len(b) |-> b[j]]
  OBVIOUS
<1>2. QED
  BY <1>1

(* A function over 1 .. n is a sequence of that length. *)
LEMMA TupleIsSequence ==
  ASSUME NEW S, NEW n \in Nat, NEW f, f = [j \in 1 .. n |-> f[j]], \A j \in 1 .. n : f[j] \in S
  PROVE  f \in Seq(S) /\ Len(f) = n
<1>1. f \in [1 .. n -> S]
  OBVIOUS
<1>2. f \in Seq(S)
  BY <1>1
<1>3. QED
  BY <1>1, <1>2

(* What is appended to nothing, or nothing is appended to, stays as it     *)
(* is.                                                                     *)
LEMMA CatEmpty ==
  ASSUME NEW S, NEW a \in Seq(S)
  PROVE  Cat(a, <<>>) = a /\ Cat(<<>>, a) = a
<1> DEFINE e == <<>>
<1>1. e \in Seq(S) /\ Len(e) = 0 /\ Len(a) \in Nat
  OBVIOUS
<1> HIDE DEF e
<1>2. Len(a) + 0 = Len(a) /\ 0 + Len(a) = Len(a) /\ \A j \in 1 .. Len(a) : 0 + j = j
  BY <1>1
<1>3. /\ Cat(a, e) \in Seq(S) /\ Len(Cat(a, e)) = Len(a) + Len(e)
      /\ \A j \in 1 .. Len(a) : Cat(a, e)[j] = a[j]
  <2>1. e \in Seq(S)
    BY <1>1
  <2>2. Cat(a, e) \in Seq(S)
    BY <2>1, CatProps
  <2>3. Len(Cat(a, e)) = Len(a) + Len(e)
    BY <2>1, CatProps
  <2>4. \A j \in 1 .. Len(a) : Cat(a, e)[j] = a[j]
    BY <2>1, CatProps
  <2>5. QED
    BY <2>2, <2>3, <2>4
<1>4. /\ Cat(e, a) \in Seq(S) /\ Len(Cat(e, a)) = Len(e) + Len(a)
      /\ \A j \in 1 .. Len(a) : Cat(e, a)[Len(e) + j] = a[j]
  <2>1. e \in Seq(S)
    BY <1>1
  <2>2. Cat(e, a) \in Seq(S)
    BY <2>1, CatProps
  <2>3. Len(Cat(e, a)) = Len(e) + Len(a)
    BY <2>1, CatProps
  <2>4. \A j \in 1 .. Len(a) : Cat(e, a)[Len(e) + j] = a[j]
    BY <2>1, CatProps
  <2>5. QED
    BY <2>2, <2>3, <2>4
<1>5. Cat(a, e) = a
  BY <1>1, <1>2, <1>3, SameSequence
<1>6. Cat(e, a) = a
  BY <1>1, <1>2, <1>4, SameSequence
<1>7. QED
  BY <1>5, <1>6 DEF e

(* Reads may be collected in any grouping. *)
LEMMA CatAssociative ==
  ASSUME NEW S, NEW a \in Seq(S), NEW b \in Seq(S), NEW c \in Seq(S)
  PROVE  Cat(Cat(a, b), c) = Cat(a, Cat(b, c))
  BY ConcatAssociative DEF Cat

(* push_back of one element is the append of a string of one. *)
LEMMA AppendIsCat ==
  ASSUME NEW S, NEW a \in Seq(S), NEW x \in S
  PROVE  Append(a, x) = Cat(a, <<x>>)
  BY AppendIsConcat DEF Cat

(* An element behind the second part is behind both. *)
LEMMA CatOfAppend ==
  ASSUME NEW S, NEW a \in Seq(S), NEW b \in Seq(S), NEW x \in S
  PROVE  Cat(a, Append(b, x)) = Append(Cat(a, b), x)
<1> DEFINE e == <<x>>
<1>1. e \in Seq(S)
  OBVIOUS
<1>2. Append(b, x) = Cat(b, e) /\ Cat(a, b) \in Seq(S)
  BY AppendIsCat, CatProps
<1>3. Append(Cat(a, b), x) = Cat(Cat(a, b), e)
  BY <1>2, AppendIsCat
<1> HIDE DEF e
<1>4. Cat(Cat(a, b), e) = Cat(a, Cat(b, e))
  BY <1>1, CatAssociative
<1>5. QED
  BY <1>2, <1>3, <1>4

(* The first n elements of a sequence. *)
LEMMA FirstOnes ==
  ASSUME NEW S, NEW s \in Seq(S), NEW n \in Nat, n <= Len(s)
  PROVE  /\ SubSeq(s, 1, n) \in Seq(S) /\ Len(SubSeq(s, 1, n)) = n
         /\ \A j \in 1 .. n : SubSeq(s, 1, n)[j] = s[j]
<1>1. Len(s) \in Nat /\ n - 1 + 1 = n /\ \A j \in 1 .. n : 1 + j - 1 = j /\ j \in 1 .. Len(s)
  OBVIOUS
<1>2. \A j \in 1 .. Len(s) : s[j] \in S
  OBVIOUS
<1>3. /\ SubSeq(s, 1, n) \in Seq(S)
      /\ Len(SubSeq(s, 1, n)) = IF 1 <= n THEN n - 1 + 1 ELSE 0
      /\ \A j \in 1 .. n - 1 + 1 : SubSeq(s, 1, n)[j] = s[1 + j - 1]
  BY <1>1, <1>2, SubSeqProperties
<1>4. Len(SubSeq(s, 1, n)) = n
  BY <1>1, <1>3
<1>5. QED
  BY <1>1, <1>3, <1>4

(* The first n + 1 are the first n and the next. *)
LEMMA FirstAndNext ==
  ASSUME NEW S, NEW s \in Seq(S), NEW n \in Nat, n + 1 <= Len(s)
  PROVE  SubSeq(s, 1, n + 1) = Append(SubSeq(s, 1, n), s[n + 1])
<1>1. n + 1 \in Nat /\ n <= Len(s) /\ n + 1 \in 1 .. Len(s)
  OBVIOUS
<1>2. /\ SubSeq(s, 1, n) \in Seq(S) /\ Len(SubSeq(s, 1, n)) = n
      /\ \A j \in 1 .. n : SubSeq(s, 1, n)[j] = s[j]
  BY <1>1, FirstOnes
<1>3. /\ SubSeq(s, 1, n + 1) \in Seq(S) /\ Len(SubSeq(s, 1, n + 1)) = n + 1
      /\ \A j \in 1 .. n + 1 : SubSeq(s, 1, n + 1)[j] = s[j]
  BY <1>1, FirstOnes
<1> DEFINE a == SubSeq(s, 1, n)
           b == SubSeq(s, 1, n + 1)
<1> HIDE DEF a, b
<1>4. s[n + 1] \in S
  BY <1>1
<1>5. /\ Append(a, s[n + 1]) \in Seq(S) /\ Len(Append(a, s[n + 1])) = n + 1
      /\ \A j \in 1 .. n + 1 : Append(a, s[n + 1])[j] = s[j]
  BY <1>2, <1>4 DEF a
<1>6. b = Append(a, s[n + 1])
  BY <1>3, <1>5, SameSequence DEF b
<1>7. QED
  BY <1>6 DEF a, b

(***************************************************************************)
(* Parts of a sequence                                                     *)
(***************************************************************************)
LEMMA MiddleOnes ==
  ASSUME NEW S, NEW s \in Seq(S), NEW n \in Nat, NEW m \in Nat, n <= m, m <= Len(s)
  PROVE  /\ SubSeq(s, n + 1, m) \in Seq(S) /\ Len(SubSeq(s, n + 1, m)) = m - n
         /\ \A j \in 1 .. m - n : SubSeq(s, n + 1, m)[j] = s[n + j]
<1> DEFINE t == SubSeq(s, n + 1, m)
<1>1. /\ Len(s) \in Nat /\ n + 1 \in Int /\ m \in Int /\ m - (n + 1) + 1 = m - n
      /\ \A j \in 1 .. m - n : (n + 1) + j - 1 = n + j
      /\ \A j \in n + 1 .. m : j \in 1 .. Len(s)
  OBVIOUS
<1>2. \A j \in n + 1 .. m : s[j] \in S
  BY <1>1
<1>3. /\ t \in Seq(S) /\ Len(t) = IF n + 1 <= m THEN m - (n + 1) + 1 ELSE 0
      /\ \A j \in 1 .. m - (n + 1) + 1 : t[j] = s[(n + 1) + j - 1]
  BY <1>1, <1>2, SubSeqProperties
<1> HIDE DEF t
<1>4. Len(t) = m - n
  BY <1>1, <1>3
<1>5. ASSUME NEW j \in 1 .. m - n PROVE t[j] = s[n + j]
  <2>1. t[j] = s[(n + 1) + j - 1]
    BY <1>1, <1>3
  <2>2. QED
    BY <1>1, <2>1
<1>6. QED
  BY <1>3, <1>4, <1>5 DEF t

(* Two adjacent stretches of a sequence are one: where a read ends, the    *)
(* next begins.                                                            *)
LEMMA MiddleOfMiddle ==
  ASSUME NEW S, NEW s \in Seq(S), NEW n \in Nat, NEW m \in Nat, NEW k \in Nat,
         n <= m, m <= k, k <= Len(s)
  PROVE  Cat(SubSeq(s, n + 1, m), SubSeq(s, m + 1, k)) = SubSeq(s, n + 1, k)
<1> DEFINE a == SubSeq(s, n + 1, m)
           b == SubSeq(s, m + 1, k)
           c == SubSeq(s, n + 1, k)
<1>1. n <= k /\ m <= Len(s)
  OBVIOUS
<1>2. a \in Seq(S) /\ Len(a) = m - n /\ \A j \in 1 .. m - n : a[j] = s[n + j]
  BY <1>1, MiddleOnes
<1>3. b \in Seq(S) /\ Len(b) = k - m /\ \A j \in 1 .. k - m : b[j] = s[m + j]
  BY MiddleOnes
<1>4. c \in Seq(S) /\ Len(c) = k - n /\ \A j \in 1 .. k - n : c[j] = s[n + j]
  BY <1>1, MiddleOnes
<1> HIDE DEF a, b, c
<1>5. Cat(a, b) \in Seq(S)
  BY <1>2, <1>3, CatProps
<1>6. Len(Cat(a, b)) = Len(a) + Len(b)
  BY <1>2, <1>3, CatProps
<1>7. \A j \in 1 .. Len(a) : Cat(a, b)[j] = a[j]
  BY <1>2, <1>3, CatProps, SMTT(30)
<1>8. \A j \in 1 .. Len(b) : Cat(a, b)[Len(a) + j] = b[j]
  <2>1. a \in Seq(S) /\ b \in Seq(S)
    BY <1>2, <1>3
  <2>2. QED
    BY <2>1, CatProps
<1>9. Len(Cat(a, b)) = Len(c)
  BY <1>2, <1>3, <1>4, <1>6
<1>10. ASSUME NEW j \in 1 .. Len(c) PROVE Cat(a, b)[j] = c[j]
  <2>1. j \in 1 .. k - n /\ c[j] = s[n + j]
    BY <1>4
  <2>2. CASE j <= m - n
    <3>1. j \in 1 .. m - n
      BY <2>1, <2>2
    <3>2. QED
      BY <1>2, <1>7, <2>1, <3>1
  <2>3. CASE ~(j <= m - n)
    <3>1. j - (m - n) \in 1 .. k - m /\ (m - n) + (j - (m - n)) = j /\ m + (j - (m - n)) = n + j
      BY <2>1, <2>3
    <3>2. b[j - (m - n)] = s[n + j]
      BY <1>3, <3>1
    <3>3. Cat(a, b)[j] = b[j - (m - n)]
      BY <1>2, <1>3, <1>8, <3>1
    <3>4. QED
      BY <2>1, <3>2, <3>3
  <2>4. QED
    BY <2>2, <2>3
<1>11. Cat(a, b) = c
  BY <1>4, <1>5, <1>9, <1>10, SameSequence
<1>12. QED
  BY <1>11 DEF a, b, c

(* A sequence that is not empty is one shorter and its last element. *)
LEMMA FrontAndLast ==
  ASSUME NEW S, NEW s \in Seq(S), s # <<>>
  PROVE  /\ Front(s) \in Seq(S) /\ Last(s) \in S
         /\ Len(s) \in Nat \ {0} /\ Len(Front(s)) = Len(s) - 1
         /\ s = Append(Front(s), Last(s))
         /\ Last(s) = s[Len(s)]
         /\ \A j \in 1 .. Len(s) - 1 : Front(s)[j] = s[j]
<1>1. Len(s) \in Nat \ {0}
  BY EmptySeq
<1>2. Last(s) = s[Len(s)] /\ Last(s) \in S
  BY <1>1 DEF Last
<1>3. Front(s) = SubSeq(s, 1, Len(s) - 1)
  BY DEF Front
<1>4. /\ Front(s) \in Seq(S) /\ Len(Front(s)) = Len(s) - 1
      /\ \A j \in 1 .. Len(s) - 1 : Front(s)[j] = s[j]
  <2> DEFINE n == Len(s) - 1
  <2>1. n \in Nat /\ n <= Len(s)
    BY <1>1
  <2> HIDE DEF n
  <2>2. /\ SubSeq(s, 1, n) \in Seq(S) /\ Len(SubSeq(s, 1, n)) = n
        /\ \A j \in 1 .. n : SubSeq(s, 1, n)[j] = s[j]
    BY <2>1, FirstOnes
  <2>3. QED
    BY <1>3, <2>2 DEF n
<1>5. s = Append(Front(s), Last(s))
  <2>1. Append(Front(s), Last(s)) \in Seq(S) /\ Len(Append(Front(s), Last(s))) = Len(s)
        /\ \A j \in 1 .. Len(s) : Append(Front(s), Last(s))[j] = s[j]
    BY <1>1, <1>2, <1>4
  <2>2. QED
    BY <2>1, SameSequence
<1>6. QED
  BY <1>1, <1>2, <1>4, <1>5

(* Erasing the last character undoes its append. *)
LEMMA AppendFront ==
  ASSUME NEW S, NEW s \in Seq(S), NEW x \in S
  PROVE  /\ Append(s, x) # <<>>
         /\ Front(Append(s, x)) = s
         /\ Last(Append(s, x)) = x
<1>1. Append(s, x) \in Seq(S) /\ Len(Append(s, x)) = Len(s) + 1 /\ Len(s) \in Nat
      /\ Append(s, x)[Len(s) + 1] = x /\ \A j \in 1 .. Len(s) : Append(s, x)[j] = s[j]
  OBVIOUS
<1>2. Append(s, x) # <<>>
  BY <1>1
<1>3. Last(Append(s, x)) = x
  BY <1>1 DEF Last
<1>4. Front(Append(s, x)) \in Seq(S) /\ Len(Front(Append(s, x))) = Len(s)
      /\ \A j \in 1 .. Len(s) : Front(Append(s, x))[j] = s[j]
  <2> DEFINE t == Append(s, x)
  <2>1. t \in Seq(S) /\ t # <<>> /\ Len(t) = Len(s) + 1 /\ \A j \in 1 .. Len(s) : t[j] = s[j]
    BY <1>1, <1>2
  <2> HIDE DEF t
  <2>2. Front(t) \in Seq(S) /\ Len(Front(t)) = Len(t) - 1 /\ \A j \in 1 .. Len(t) - 1 : Front(t)[j] = t[j]
    BY <2>1, FrontAndLast
  <2>3. Len(t) - 1 = Len(s)
    BY <1>1, <2>1
  <2>4. QED
    BY <2>1, <2>2, <2>3 DEF t
<1>5. QED
  BY <1>2, <1>3, <1>4, SameSequence
-------------------------------------------------------------------------------
(***************************************************************************)
(* Concats, by induction over sets of numbers                              *)
(***************************************************************************)
BeginsConcats(f, parts, n) ==
  f = [k \in 0 .. n |-> IF k = 0 THEN <<>> ELSE f[k - 1] \o parts[k]]

(* A recursion over the numbers below a bound has a function. *)
LEMMA ConcatsBegin ==
  ASSUME NEW parts
  PROVE  \A n \in Nat : \E f : BeginsConcats(f, parts, n)
<1> DEFINE T == {n \in Nat : \E f : BeginsConcats(f, parts, n)}
<1>1. 0 \in T
  <2> DEFINE f == [k \in 0 .. 0 |-> <<>>]
  <2>1. BeginsConcats(f, parts, 0)
    BY DEF BeginsConcats
  <2>2. QED
    BY <2>1
<1>2. ASSUME NEW n \in T PROVE n + 1 \in T
  <2>1. PICK f : BeginsConcats(f, parts, n)
    OBVIOUS
  <2> DEFINE g == [k \in 0 .. n + 1 |-> IF k = n + 1 THEN f[n] \o parts[n + 1] ELSE f[k]]
  <2>2. \A k \in 0 .. n + 1 : g[k] = IF k = 0 THEN <<>> ELSE g[k - 1] \o parts[k]
    <3>1. \A k \in 0 .. n : f[k] = IF k = 0 THEN <<>> ELSE f[k - 1] \o parts[k]
      BY <2>1 DEF BeginsConcats
    <3>2. \A k \in 0 .. n : g[k] = f[k]
      OBVIOUS
    <3>3. g[n + 1] = f[n] \o parts[n + 1]
      OBVIOUS
    <3> HIDE DEF g
    <3>4. ASSUME NEW k \in 0 .. n + 1
          PROVE  g[k] = IF k = 0 THEN <<>> ELSE g[k - 1] \o parts[k]
      <4>1. n \in Nat /\ (n + 1) - 1 = n /\ n \in 0 .. n /\ n + 1 # 0
        OBVIOUS
      <4>2. CASE k = n + 1
        BY <3>2, <3>3, <4>1, <4>2
      <4>3. CASE k # n + 1
        <5>1. k \in 0 .. n /\ (k # 0 => k - 1 \in 0 .. n)
          BY <4>1, <4>3
        <5>2. QED
          BY <3>1, <3>2, <5>1
      <4>4. QED
        BY <4>2, <4>3
    <3>5. QED
      BY <3>4
  <2>3. g = [k \in 0 .. n + 1 |-> g[k]]
    OBVIOUS
  <2> HIDE DEF g
  <2>4. BeginsConcats(g, parts, n + 1)
    BY <2>2, <2>3 DEF BeginsConcats
  <2>5. QED
    BY <2>4
<1> HIDE DEF T
<1>3. T \in SUBSET Nat
  BY DEF T
<1>4. T = Nat
  BY <1>1, <1>2, <1>3, NatSetInduction
<1>5. QED
  BY <1>4 DEF T

(* The parts one after the other, step by step. *)
LEMMA ConcatsSteps ==
  ASSUME NEW parts, Len(parts) \in Nat
  PROVE  /\ Concats(parts)[0] = <<>>
         /\ \A n \in 1 .. Len(parts) : Concats(parts)[n] = Cat(Concats(parts)[n - 1], parts[n])
<1> DEFINE t == Concats(parts)
           N == Len(parts)
<1>1. N \in Nat
  OBVIOUS
<1>2. BeginsConcats(t, parts, N)
  <2>1. \E f : BeginsConcats(f, parts, N)
    BY ConcatsBegin
  <2>2. QED
    BY <2>1 DEF BeginsConcats, Concats
<1> HIDE DEF t, N
<1>3. \A n \in 0 .. N : t[n] = IF n = 0 THEN <<>> ELSE t[n - 1] \o parts[n]
  BY <1>2 DEF BeginsConcats
<1>4. 0 \in 0 .. N /\ \A n \in 1 .. N : n \in 0 .. N /\ n # 0
  BY <1>1
<1>5. t[0] = <<>> /\ \A n \in 1 .. N : t[n] = t[n - 1] \o parts[n]
  BY <1>3, <1>4, Zenon
<1>6. QED
  BY <1>5 DEF t, N, Cat

(* They are sequences. *)
LEMMA ConcatsType ==
  ASSUME NEW S, NEW parts \in Seq(Seq(S))
  PROVE  \A n \in 0 .. Len(parts) : Concats(parts)[n] \in Seq(S) /\ Len(Concats(parts)[n]) \in Nat
<1> DEFINE t == Concats(parts)
           N == Len(parts)
           T == {n \in Nat : n <= N => t[n] \in Seq(S)}
<1>1. N \in Nat /\ \A n \in 1 .. N : parts[n] \in Seq(S)
  OBVIOUS
<1>2. t[0] = <<>> /\ \A n \in 1 .. N : t[n] = Cat(t[n - 1], parts[n])
  BY <1>1, ConcatsSteps
<1> HIDE DEF t, N
<1>3. 0 \in T
  <2>1. <<>> \in Seq(S)
    OBVIOUS
  <2>2. QED
    BY <1>2, <2>1
<1>4. ASSUME NEW n \in T PROVE n + 1 \in T
  <2>1. SUFFICES ASSUME n + 1 <= N PROVE t[n + 1] \in Seq(S)
    OBVIOUS
  <2>2. n + 1 \in 1 .. N /\ (n + 1) - 1 = n /\ t[n] \in Seq(S)
    BY <1>1, <2>1
  <2>3. t[n + 1] = Cat(t[n], parts[n + 1]) /\ parts[n + 1] \in Seq(S)
    BY <1>1, <1>2, <2>2
  <2>4. \A a, b \in Seq(S) : Cat(a, b) \in Seq(S)
    BY CatProps
  <2>5. QED
    BY <2>2, <2>3, <2>4
<1> HIDE DEF T
<1>5. T = Nat
  <2>1. T \in SUBSET Nat
    BY DEF T
  <2>2. QED
    BY <1>3, <1>4, <2>1, NatSetInduction
<1>6. \A n \in 0 .. N : t[n] \in Seq(S)
  BY <1>1, <1>5 DEF T
<1>7. \A n \in 0 .. N : Len(t[n]) \in Nat
  BY <1>6
<1>8. QED
  BY <1>6, <1>7 DEF t, N

(* The first n + k parts are the first n, and then k more. *)
ContinuesAt(more, parts, n) ==
  n + Len(more) <= Len(parts) /\ \A i \in 1 .. Len(more) : more[i] = parts[n + i]

(* When `more` continues the parts behind the first n, so does its         *)
(* concatenation.                                                          *)
LEMMA ConcatsShift ==
  ASSUME NEW S, NEW parts \in Seq(Seq(S)), NEW more \in Seq(Seq(S)),
         NEW n \in Nat, ContinuesAt(more, parts, n)
  PROVE  \A k \in 0 .. Len(more) :
           Concats(parts)[n + k] = Cat(Concats(parts)[n], Concats(more)[k])
<1> DEFINE t == Concats(parts)
           u == Concats(more)
           N == Len(parts)
           M == Len(more)
           T == {k \in Nat : k <= M => t[n + k] = Cat(t[n], u[k])}
<1>1. /\ N \in Nat /\ M \in Nat /\ n + M <= N /\ n \in 0 .. N /\ 0 \in 0 .. M
      /\ \A k \in 1 .. M : more[k] \in Seq(S) /\ more[k] = parts[n + k]
  <2>1. N \in Nat /\ M \in Nat
    OBVIOUS
  <2>2. n + M <= N /\ \A k \in 1 .. M : more[k] = parts[n + k]
    BY DEF ContinuesAt
  <2>3. \A k \in 1 .. M : more[k] \in Seq(S)
    OBVIOUS
  <2> HIDE DEF N, M
  <2>4. n \in 0 .. N /\ 0 \in 0 .. M
    BY <2>1, <2>2
  <2>5. QED
    BY <2>1, <2>2, <2>3, <2>4
<1>2. t[0] = <<>> /\ \A k \in 1 .. N : t[k] = Cat(t[k - 1], parts[k])
  BY <1>1, ConcatsSteps
<1>3. u[0] = <<>> /\ \A k \in 1 .. M : u[k] = Cat(u[k - 1], more[k])
  BY <1>1, ConcatsSteps
<1>4. \A k \in 0 .. N : t[k] \in Seq(S)
  BY ConcatsType
<1>5. \A k \in 0 .. M : u[k] \in Seq(S)
  BY ConcatsType
<1> HIDE DEF t, u, N, M
<1>6. 0 \in T
  <2>1. n + 0 = n /\ t[n] \in Seq(S)
    BY <1>1, <1>4
  <2>2. Cat(t[n], <<>>) = t[n]
    BY <2>1, CatEmpty
  <2>3. QED
    BY <1>3, <2>1, <2>2
<1>7. ASSUME NEW k \in T PROVE k + 1 \in T
  <2>1. SUFFICES ASSUME k + 1 <= M PROVE t[n + (k + 1)] = Cat(t[n], u[k + 1])
    OBVIOUS
  <2>2. /\ k + 1 \in 1 .. M /\ (k + 1) - 1 = k /\ k \in 0 .. M
        /\ n + (k + 1) \in 1 .. N /\ (n + (k + 1)) - 1 = n + k
    BY <1>1, <2>1
  <2>3. t[n + k] = Cat(t[n], u[k])
    BY <2>2
  <2>4. t[n + (k + 1)] = Cat(t[n + k], more[k + 1])
    BY <1>1, <1>2, <2>2
  <2>5. u[k + 1] = Cat(u[k], more[k + 1])
    BY <1>3, <2>2
  <2>6. t[n] \in Seq(S) /\ u[k] \in Seq(S) /\ more[k + 1] \in Seq(S)
    BY <1>1, <1>4, <1>5, <2>2
  <2>7. Cat(Cat(t[n], u[k]), more[k + 1]) = Cat(t[n], Cat(u[k], more[k + 1]))
    BY <2>6, CatAssociative
  <2>8. QED
    BY <2>3, <2>4, <2>5, <2>7
<1> HIDE DEF T
<1>8. T = Nat
  <2>1. T \in SUBSET Nat
    BY DEF T
  <2>2. QED
    BY <1>6, <1>7, <2>1, NatSetInduction
<1>9. ASSUME NEW k \in 0 .. M PROVE t[n + k] = Cat(t[n], u[k])
  <2>1. k \in Nat /\ k <= M
    BY <1>1
  <2>2. k \in T
    BY <1>8, <2>1
  <2>3. QED
    BY <2>1, <2>2 DEF T
<1>10. QED
  BY <1>9 DEF t, u, M

(* What is as long as another and has the same parts up to n. *)
LEMMA ConcatsAgree ==
  ASSUME NEW S, NEW parts \in Seq(Seq(S)), NEW first \in Seq(Seq(S)),
         Len(first) <= Len(parts), \A i \in 1 .. Len(first) : first[i] = parts[i]
  PROVE  \A k \in 0 .. Len(first) : Concats(first)[k] = Concats(parts)[k]
<1>1. /\ Len(parts) \in Nat /\ Len(first) \in Nat /\ 0 + Len(first) <= Len(parts)
      /\ \A k \in 0 .. Len(first) : 0 + k = k
      /\ \A i \in 1 .. Len(first) : first[i] = parts[0 + i]
      /\ ContinuesAt(first, parts, 0) /\ 0 \in Nat
  BY DEF ContinuesAt
<1>2. \A k \in 0 .. Len(first) :
        Concats(parts)[0 + k] = Cat(Concats(parts)[0], Concats(first)[k])
  BY <1>1, ConcatsShift
<1>3. Concats(parts)[0] = <<>>
  BY <1>1, ConcatsSteps
<1>4. ASSUME NEW k \in 0 .. Len(first) PROVE Concats(first)[k] = Concats(parts)[k]
  <2>1. Concats(first)[k] \in Seq(S)
    BY ConcatsType
  <2>2. Cat(<<>>, Concats(first)[k]) = Concats(first)[k]
    BY <2>1, CatEmpty
  <2>3. QED
    BY <1>1, <1>2, <1>3, <2>2
<1>5. QED
  BY <1>4

(***************************************************************************)
(* Splitting                                                               *)
(***************************************************************************)
NothingCut == [strings |-> <<>>, buf |-> <<>>]

Cuts(S, d) == [strings : Seq(Seq(S \ {d})), buf : Seq(S \ {d})]

(* One turn of the loop of split: a delimiter ends the string collected,   *)
(* another character is added to it.                                       *)
LEMMA CutByProps ==
  ASSUME NEW S, NEW d, NEW c \in Cuts(S, d), NEW x \in S
  PROVE  /\ CutBy(c, x, d) \in Cuts(S, d)
         /\ x = d => CutBy(c, x, d) = [strings |-> Append(c.strings, c.buf), buf |-> <<>>]
         /\ x # d => CutBy(c, x, d) = [strings |-> c.strings, buf |-> Append(c.buf, x)]
<1>1. /\ c.strings \in Seq(Seq(S \ {d})) /\ c.buf \in Seq(S \ {d})
      /\ c = [strings |-> c.strings, buf |-> c.buf]
  BY DEF Cuts
<1>2. CASE x = d
  <2>1. CutBy(c, x, d) = [strings |-> Append(c.strings, c.buf), buf |-> <<>>]
    BY <1>2 DEF CutBy
  <2>2. Append(c.strings, c.buf) \in Seq(Seq(S \ {d})) /\ <<>> \in Seq(S \ {d})
    BY <1>1
  <2>3. QED
    BY <1>2, <2>1, <2>2 DEF Cuts
<1>3. CASE x # d
  <2>1. CutBy(c, x, d) = [strings |-> c.strings, buf |-> Append(c.buf, x)]
    BY <1>1, <1>3 DEF CutBy
  <2>2. Append(c.buf, x) \in Seq(S \ {d})
    BY <1>1, <1>3
  <2>3. QED
    BY <1>1, <1>3, <2>1, <2>2 DEF Cuts
<1>4. QED
  BY <1>2, <1>3

BeginsCut(f, text, d, n) ==
  f = [k \in 0 .. n |-> IF k = 0 THEN NothingCut ELSE CutBy(f[k - 1], text[k], d)]

(* The recursion that stands for the loop of split has a solution for      *)
(* every number of turns.                                                  *)
LEMMA CutsBegin ==
  ASSUME NEW text, NEW d
  PROVE  \A n \in Nat : \E f : BeginsCut(f, text, d, n)
<1> DEFINE T == {n \in Nat : \E f : BeginsCut(f, text, d, n)}
<1>1. 0 \in T
  <2> DEFINE f == [k \in 0 .. 0 |-> NothingCut]
  <2>1. BeginsCut(f, text, d, 0)
    BY DEF BeginsCut
  <2>2. QED
    BY <2>1
<1>2. ASSUME NEW n \in T PROVE n + 1 \in T
  <2>1. PICK f : BeginsCut(f, text, d, n)
    OBVIOUS
  <2> DEFINE g == [k \in 0 .. n + 1 |-> IF k = n + 1 THEN CutBy(f[n], text[n + 1], d) ELSE f[k]]
  <2>2. \A k \in 0 .. n + 1 : g[k] = IF k = 0 THEN NothingCut ELSE CutBy(g[k - 1], text[k], d)
    <3>1. \A k \in 0 .. n : f[k] = IF k = 0 THEN NothingCut ELSE CutBy(f[k - 1], text[k], d)
      BY <2>1 DEF BeginsCut
    <3>2. \A k \in 0 .. n : g[k] = f[k]
      OBVIOUS
    <3>3. g[n + 1] = CutBy(f[n], text[n + 1], d)
      OBVIOUS
    <3> HIDE DEF g
    <3>4. ASSUME NEW k \in 0 .. n + 1
          PROVE  g[k] = IF k = 0 THEN NothingCut ELSE CutBy(g[k - 1], text[k], d)
      <4>1. n \in Nat /\ (n + 1) - 1 = n /\ n \in 0 .. n /\ n + 1 # 0
        OBVIOUS
      <4>2. CASE k = n + 1
        BY <3>2, <3>3, <4>1, <4>2
      <4>3. CASE k # n + 1
        <5>1. k \in 0 .. n /\ (k # 0 => k - 1 \in 0 .. n)
          BY <4>1, <4>3
        <5>2. QED
          BY <3>1, <3>2, <5>1
      <4>4. QED
        BY <4>2, <4>3
    <3>5. QED
      BY <3>4
  <2>3. g = [k \in 0 .. n + 1 |-> g[k]]
    OBVIOUS
  <2> HIDE DEF g
  <2>4. BeginsCut(g, text, d, n + 1)
    BY <2>2, <2>3 DEF BeginsCut
  <2>5. QED
    BY <2>4
<1> HIDE DEF T
<1>3. T \in SUBSET Nat
  BY DEF T
<1>4. T = Nat
  BY <1>1, <1>2, <1>3, NatSetInduction
<1>5. QED
  BY <1>4 DEF T

(* What the loop of split has collected after each turn. *)
LEMMA CollectedSteps ==
  ASSUME NEW text, NEW d, Len(text) \in Nat
  PROVE  /\ Collected(text, d)[0] = NothingCut
         /\ \A n \in 1 .. Len(text) :
              Collected(text, d)[n] = CutBy(Collected(text, d)[n - 1], text[n], d)
<1> DEFINE t == Collected(text, d)
           N == Len(text)
<1>1. N \in Nat
  OBVIOUS
<1>2. BeginsCut(t, text, d, N)
  <2>1. \E f : BeginsCut(f, text, d, N)
    BY CutsBegin
  <2>2. QED
    BY <2>1 DEF BeginsCut, Collected, NothingCut
<1> HIDE DEF t, N
<1>3. \A n \in 0 .. N : t[n] = IF n = 0 THEN NothingCut ELSE CutBy(t[n - 1], text[n], d)
  BY <1>2 DEF BeginsCut
<1>4. 0 \in 0 .. N /\ \A n \in 1 .. N : n \in 0 .. N /\ n # 0
  BY <1>1
<1>5. t[0] = NothingCut /\ \A n \in 1 .. N : t[n] = CutBy(t[n - 1], text[n], d)
  BY <1>3, <1>4, Zenon
<1>6. QED
  BY <1>5 DEF t, N

(* The strings collected hold no delimiter. *)
LEMMA CollectedType ==
  ASSUME NEW S, NEW d, NEW text \in Seq(S)
  PROVE  \A n \in 0 .. Len(text) : Collected(text, d)[n] \in Cuts(S, d)
<1> DEFINE t == Collected(text, d)
           N == Len(text)
           T == {n \in Nat : n <= N => t[n] \in Cuts(S, d)}
<1>1. N \in Nat /\ \A n \in 1 .. N : text[n] \in S
  OBVIOUS
<1>2. t[0] = NothingCut /\ \A n \in 1 .. N : t[n] = CutBy(t[n - 1], text[n], d)
  BY <1>1, CollectedSteps
<1> HIDE DEF t, N
<1>3. 0 \in T
  <2>1. NothingCut \in Cuts(S, d)
    BY DEF NothingCut, Cuts
  <2>2. QED
    BY <1>2, <2>1
<1>4. ASSUME NEW n \in T PROVE n + 1 \in T
  <2>1. SUFFICES ASSUME n + 1 <= N PROVE t[n + 1] \in Cuts(S, d)
    OBVIOUS
  <2>2. n + 1 \in 1 .. N /\ (n + 1) - 1 = n /\ t[n] \in Cuts(S, d)
    BY <1>1, <2>1
  <2>3. t[n + 1] = CutBy(t[n], text[n + 1], d) /\ text[n + 1] \in S
    BY <1>1, <1>2, <2>2
  <2>4. QED
    BY <2>2, <2>3, CutByProps
<1> HIDE DEF T
<1>5. T = Nat
  <2>1. T \in SUBSET Nat
    BY DEF T
  <2>2. QED
    BY <1>3, <1>4, <2>1, NatSetInduction
<1>6. \A n \in 0 .. N : t[n] \in Cuts(S, d)
  BY <1>1, <1>5 DEF T
<1>7. QED
  BY <1>6 DEF t, N

(* What was collected of a text is what is collected of its beginning. *)
LEMMA CollectedAgree ==
  ASSUME NEW S, NEW d, NEW text \in Seq(S), NEW longer \in Seq(S),
         Len(text) <= Len(longer), \A j \in 1 .. Len(text) : longer[j] = text[j]
  PROVE  \A n \in 0 .. Len(text) : Collected(text, d)[n] = Collected(longer, d)[n]
<1> DEFINE t == Collected(text, d)
           u == Collected(longer, d)
           N == Len(text)
           M == Len(longer)
           T == {n \in Nat : n <= N => t[n] = u[n]}
<1>1. N \in Nat /\ M \in Nat /\ N <= M /\ \A j \in 1 .. N : longer[j] = text[j]
  OBVIOUS
<1>2. t[0] = NothingCut /\ \A n \in 1 .. N : t[n] = CutBy(t[n - 1], text[n], d)
  BY <1>1, CollectedSteps
<1>3. u[0] = NothingCut /\ \A n \in 1 .. M : u[n] = CutBy(u[n - 1], longer[n], d)
  BY <1>1, CollectedSteps
<1> HIDE DEF t, u, N, M
<1>4. 0 \in T
  BY <1>2, <1>3
<1>5. ASSUME NEW n \in T PROVE n + 1 \in T
  <2>1. SUFFICES ASSUME n + 1 <= N PROVE t[n + 1] = u[n + 1]
    OBVIOUS
  <2>2. n + 1 \in 1 .. N /\ n + 1 \in 1 .. M /\ (n + 1) - 1 = n /\ t[n] = u[n]
    BY <1>1, <2>1
  <2>3. t[n + 1] = CutBy(t[n], text[n + 1], d) /\ u[n + 1] = CutBy(u[n], longer[n + 1], d)
    BY <1>2, <1>3, <2>2
  <2>4. QED
    BY <1>1, <2>2, <2>3
<1> HIDE DEF T
<1>6. T = Nat
  <2>1. T \in SUBSET Nat
    BY DEF T
  <2>2. QED
    BY <1>4, <1>5, <2>1, NatSetInduction
<1>7. \A n \in 0 .. N : t[n] = u[n]
  BY <1>1, <1>6 DEF T
<1>8. QED
  BY <1>7 DEF t, u, N

(* What split collects from a text, by the last of its characters. *)
LEMMA CutProps ==
  ASSUME NEW S, NEW d, NEW text \in Seq(S)
  PROVE  /\ Cut(text, d) \in Cuts(S, d)
         /\ text = <<>> => Cut(text, d) = NothingCut
         /\ \A x \in S : Cut(Append(text, x), d) = CutBy(Cut(text, d), x, d)
<1> DEFINE N == Len(text)
<1>1. N \in Nat /\ N \in 0 .. N
  OBVIOUS
<1>2. Cut(text, d) \in Cuts(S, d)
  BY <1>1, CollectedType DEF Cut
<1>3. ASSUME text = <<>> PROVE Cut(text, d) = NothingCut
  <2>1. N = 0
    BY <1>3
  <2>2. QED
    BY <1>1, <2>1, CollectedSteps DEF Cut
<1>4. ASSUME NEW x \in S PROVE Cut(Append(text, x), d) = CutBy(Cut(text, d), x, d)
  <2> DEFINE longer == Append(text, x)
  <2>1. /\ longer \in Seq(S) /\ Len(longer) = N + 1 /\ longer[N + 1] = x
        /\ \A j \in 1 .. N : longer[j] = text[j]
    OBVIOUS
  <2> HIDE DEF longer, N
  <2>2. N <= Len(longer) /\ N + 1 \in 1 .. Len(longer) /\ (N + 1) - 1 = N /\ Len(longer) \in Nat
    BY <1>1, <2>1
  <2>3. Collected(text, d)[N] = Collected(longer, d)[N]
    BY <1>1, <2>1, <2>2, CollectedAgree DEF N
  <2>4. Collected(longer, d)[N + 1] = CutBy(Collected(longer, d)[N], longer[N + 1], d)
    <3>1. \A n \in 1 .. Len(longer) :
            Collected(longer, d)[n] = CutBy(Collected(longer, d)[n - 1], longer[n], d)
      BY <2>2, CollectedSteps
    <3>2. QED
      BY <2>2, <3>1
  <2>5. Cut(longer, d) = Collected(longer, d)[N + 1] /\ Cut(text, d) = Collected(text, d)[N]
    BY <2>1 DEF Cut, N
  <2>6. QED
    BY <2>1, <2>3, <2>4, <2>5 DEF longer
<1>5. QED
  BY <1>2, <1>3, <1>4

(* What has no delimiter goes to the buffer. *)
LEMMA CutOfCat ==
  ASSUME NEW S, NEW d, NEW text \in Seq(S), NEW more \in Seq(S \ {d})
  PROVE  /\ Cut(Cat(text, more), d).strings = Cut(text, d).strings
         /\ Cut(Cat(text, more), d).buf = Cat(Cut(text, d).buf, more)
<1> DEFINE c == Cut(text, d)
           Holds(m) == Cut(Cat(text, m), d) = [strings |-> c.strings, buf |-> Cat(c.buf, m)]
           T == {n \in Nat : \A m \in Seq(S \ {d}) : Len(m) = n => Holds(m)}
<1>1. c \in Cuts(S, d) /\ c.strings \in Seq(Seq(S \ {d})) /\ c.buf \in Seq(S \ {d})
      /\ c = [strings |-> c.strings, buf |-> c.buf]
  BY CutProps DEF Cuts
<1>2. \A m \in Seq(S \ {d}) : m \in Seq(S) /\ Len(m) \in Nat
  OBVIOUS
<1>3. 0 \in T
  <2>1. ASSUME NEW m \in Seq(S \ {d}), Len(m) = 0 PROVE Holds(m)
    <3>1. m = <<>>
      BY <2>1, EmptySeq
    <3>2. Cat(text, m) = text
      BY <3>1, CatEmpty
    <3>3. Cat(c.buf, m) = c.buf
      BY <1>1, <3>1, CatEmpty
    <3>4. QED
      BY <1>1, <3>2, <3>3
  <2>2. QED
    BY <2>1
<1> HIDE DEF c
<1>4. ASSUME NEW n \in T PROVE n + 1 \in T
  <2>1. ASSUME NEW m \in Seq(S \ {d}), Len(m) = n + 1 PROVE Holds(m)
    <3> DEFINE f == Front(m)
               x == Last(m)
    <3>1. m # <<>> /\ n \in Nat
      BY <2>1
    <3>2. /\ f \in Seq(S \ {d}) /\ x \in S \ {d} /\ m = Append(f, x) /\ Len(f) = Len(m) - 1
      BY <3>1, FrontAndLast
    <3>3. Len(f) = n
      BY <2>1, <3>1, <3>2
    <3> HIDE DEF f, x
    <3>4. Cut(Cat(text, f), d) = [strings |-> c.strings, buf |-> Cat(c.buf, f)]
      BY <3>2, <3>3
    <3>5. f \in Seq(S) /\ x \in S /\ Cat(text, f) \in Seq(S)
      BY <1>2, <3>2, CatProps
    <3>6. Cat(text, m) = Append(Cat(text, f), x)
      BY <3>2, <3>5, CatOfAppend
    <3>7. Cut(Cat(text, m), d) = CutBy(Cut(Cat(text, f), d), x, d)
      BY <3>5, <3>6, CutProps
    <3>8. Cut(Cat(text, f), d) \in Cuts(S, d)
      BY <3>5, CutProps
    <3>9. CutBy(Cut(Cat(text, f), d), x, d)
            = [strings |-> Cut(Cat(text, f), d).strings, buf |-> Append(Cut(Cat(text, f), d).buf, x)]
      BY <3>2, <3>5, <3>8, CutByProps
    <3>10. Append(Cat(c.buf, f), x) = Cat(c.buf, m)
      BY <1>1, <3>2, CatOfAppend, SMTT(30)
    <3>11. Cut(Cat(text, f), d).strings = c.strings /\ Cut(Cat(text, f), d).buf = Cat(c.buf, f)
      BY <3>4
    <3>12. Cut(Cat(text, m), d) = [strings |-> c.strings, buf |-> Append(Cat(c.buf, f), x)]
      BY <3>7, <3>9, <3>11
    <3>13. QED
      BY <3>10, <3>12
  <2>2. QED
    BY <2>1
<1> HIDE DEF T
<1>5. T = Nat
  <2>1. T \in SUBSET Nat
    BY DEF T
  <2>2. QED
    BY <1>3, <1>4, <2>1, NatSetInduction
<1>6. Len(more) \in T
  BY <1>2, <1>5
<1>7. Holds(more)
  BY <1>6 DEF T
<1>8. QED
  BY <1>7 DEF c

(* Parts with delimiters behind them. *)
LEMMA EndedProps ==
  ASSUME NEW S, NEW d \in S, NEW parts \in Seq(Seq(S \ {d}))
  PROVE  /\ Ended(parts, d) \in Seq(Seq(S)) /\ Len(Ended(parts, d)) = Len(parts)
         /\ \A i \in 1 .. Len(parts) :
              /\ Ended(parts, d)[i] = Append(parts[i], d)
              /\ parts[i] \in Seq(S \ {d}) /\ parts[i] \in Seq(S)
<1>1. Len(parts) \in Nat /\ DOMAIN parts = 1 .. Len(parts)
  OBVIOUS
<1>2. \A i \in 1 .. Len(parts) : parts[i] \in Seq(S \ {d})
  BY <1>1
<1>3. \A s \in Seq(S \ {d}) : s \in Seq(S)
  OBVIOUS
<1>4. Ended(parts, d) = [i \in 1 .. Len(parts) |-> Append(parts[i], d)]
  BY <1>1 DEF Ended
<1>5. \A i \in 1 .. Len(parts) : Append(parts[i], d) \in Seq(S)
  BY <1>2, <1>3
<1>6. QED
  BY <1>1, <1>2, <1>3, <1>4, <1>5

(* Cut returns the parts that were given a delimiter. *)
LEMMA CutOfEnded ==
  ASSUME NEW S, NEW d \in S, NEW parts \in Seq(Seq(S \ {d}))
  PROVE  \A n \in 0 .. Len(parts) :
           Cut(Concats(Ended(parts, d))[n], d) = [strings |-> SubSeq(parts, 1, n), buf |-> <<>>]
<1> DEFINE e == Ended(parts, d)
           t == Concats(e)
           N == Len(parts)
           T == {n \in Nat : n <= N =>
                   Cut(t[n], d) = [strings |-> SubSeq(parts, 1, n), buf |-> <<>>]}
<1>1. N \in Nat
  OBVIOUS
<1>2. /\ e \in Seq(Seq(S)) /\ Len(e) = N
      /\ \A i \in 1 .. N : /\ e[i] = Append(parts[i], d)
                           /\ parts[i] \in Seq(S \ {d}) /\ parts[i] \in Seq(S)
  BY EndedProps
<1> HIDE DEF e
<1>3. t[0] = <<>> /\ \A n \in 1 .. N : t[n] = Cat(t[n - 1], e[n])
  BY <1>1, <1>2, ConcatsSteps
<1>4. \A n \in 0 .. N : t[n] \in Seq(S)
  BY <1>2, ConcatsType
<1> HIDE DEF t
<1>5. 0 \in T
  <2>1. <<>> \in Seq(S) /\ SubSeq(parts, 1, 0) = <<>>
    BY SubSeqEmpty
  <2>2. Cut(<<>>, d) = NothingCut
    BY <2>1, CutProps
  <2>3. QED
    BY <1>3, <2>1, <2>2 DEF NothingCut
<1>6. ASSUME NEW n \in T PROVE n + 1 \in T
  <2>1. SUFFICES ASSUME n + 1 <= N
                 PROVE  Cut(t[n + 1], d) = [strings |-> SubSeq(parts, 1, n + 1), buf |-> <<>>]
    OBVIOUS
  <2>2. /\ n + 1 \in 1 .. N /\ (n + 1) - 1 = n /\ n \in 0 .. N /\ n \in Nat
        /\ Cut(t[n], d) = [strings |-> SubSeq(parts, 1, n), buf |-> <<>>]
    BY <1>1, <2>1
  <2> DEFINE p == parts[n + 1]
             w == Cat(t[n], p)
  <2>3. p \in Seq(S \ {d}) /\ p \in Seq(S) /\ e[n + 1] = Append(p, d)
    BY <1>2, <2>2
  <2>4. t[n + 1] = Cat(t[n], e[n + 1]) /\ t[n] \in Seq(S)
    BY <1>3, <1>4, <2>2
  <2>5. SubSeq(parts, 1, n + 1) = Append(SubSeq(parts, 1, n), p)
    BY <2>1, <2>2, FirstAndNext
  <2> HIDE DEF p
  <2> DEFINE before == t[n]
  <2>6. t[n + 1] = Append(w, d) /\ w \in Seq(S)
    <3>1. before \in Seq(S) /\ w = Cat(before, p) /\ t[n + 1] = Cat(before, Append(p, d))
      BY <2>3, <2>4
    <3> HIDE DEF before, w
    <3>2. Cat(before, Append(p, d)) = Append(Cat(before, p), d)
      BY <2>3, <3>1, CatOfAppend, SMTT(30)
    <3>3. Cat(before, p) \in Seq(S)
      BY <2>3, <3>1, CatProps
    <3>4. QED
      BY <3>1, <3>2, <3>3
  <2>7. Cut(w, d).strings = SubSeq(parts, 1, n) /\ Cut(w, d).buf = Cat(<<>>, p)
    <3>1. before \in Seq(S) /\ w = Cat(before, p)
          /\ Cut(before, d).strings = SubSeq(parts, 1, n) /\ Cut(before, d).buf = <<>>
      BY <2>2, <2>4
    <3> HIDE DEF before, w
    <3>2. p \in Seq(S \ {d}) /\ before \in Seq(S)
      BY <2>3, <3>1
    <3>3. Cut(Cat(before, p), d).strings = Cut(before, d).strings
      BY <3>2, CutOfCat
    <3>4. Cut(Cat(before, p), d).buf = Cat(Cut(before, d).buf, p)
      BY <3>2, CutOfCat
    <3>5. QED
      BY <3>1, <3>3, <3>4
  <2>8. Cat(<<>>, p) = p
    BY <2>3, CatEmpty
  <2> HIDE DEF w
  <2>9. Cut(t[n + 1], d) = CutBy(Cut(w, d), d, d) /\ Cut(w, d) \in Cuts(S, d)
    BY <2>6, CutProps
  <2>10. CutBy(Cut(w, d), d, d) = [strings |-> Append(Cut(w, d).strings, Cut(w, d).buf), buf |-> <<>>]
    BY <2>9, CutByProps
  <2>11. Append(Cut(w, d).strings, Cut(w, d).buf) = SubSeq(parts, 1, n + 1)
    BY <2>5, <2>7, <2>8
  <2>12. QED
    BY <2>9, <2>10, <2>11
<1> HIDE DEF T
<1>7. T = Nat
  <2>1. T \in SUBSET Nat
    BY DEF T
  <2>2. QED
    BY <1>5, <1>6, <2>1, NatSetInduction
<1>8. ASSUME NEW n \in 0 .. N
      PROVE  Cut(t[n], d) = [strings |-> SubSeq(parts, 1, n), buf |-> <<>>]
  <2>1. n \in Nat /\ n <= N /\ n \in T
    BY <1>1, <1>7
  <2>2. QED
    BY <2>1 DEF T
<1>9. QED
  BY <1>8 DEF t, e, N

(* One part more. *)
LEMMA EndedOfAppend ==
  ASSUME NEW S, NEW d \in S, NEW parts \in Seq(Seq(S \ {d})), NEW p \in Seq(S \ {d})
  PROVE  /\ Concat(Ended(parts, d)) \in Seq(S)
         /\ Concat(Ended(Append(parts, p), d)) = Append(Cat(Concat(Ended(parts, d)), p), d)
<1> DEFINE more == Append(parts, p)
           e == Ended(parts, d)
           f == Ended(more, d)
           N == Len(parts)
<1>1. N \in Nat /\ N \in 0 .. N /\ N + 1 \in 1 .. N + 1 /\ (N + 1) - 1 = N /\ N <= N + 1
      /\ \A i \in 1 .. N : i \in 1 .. N + 1
  OBVIOUS
<1>2. /\ more \in Seq(Seq(S \ {d})) /\ Len(more) = N + 1 /\ more[N + 1] = p
      /\ \A i \in 1 .. N : more[i] = parts[i]
  OBVIOUS
<1>3. /\ e \in Seq(Seq(S)) /\ Len(e) = N /\ \A i \in 1 .. N : e[i] = Append(parts[i], d)
  <2>1. e \in Seq(Seq(S))
    BY EndedProps
  <2>2. Len(e) = N
    BY EndedProps
  <2>3. \A i \in 1 .. N : e[i] = Append(parts[i], d)
    BY EndedProps
  <2>4. QED
    BY <2>1, <2>2, <2>3
<1> HIDE DEF more
<1>4. /\ f \in Seq(Seq(S)) /\ Len(f) = N + 1 /\ \A i \in 1 .. N + 1 : f[i] = Append(more[i], d)
  <2>1. more \in Seq(Seq(S \ {d}))
    BY <1>2
  <2>2. /\ f \in Seq(Seq(S)) /\ Len(f) = Len(more)
        /\ \A i \in 1 .. Len(more) : f[i] = Append(more[i], d)
    <3>1. f \in Seq(Seq(S))
      BY <2>1, EndedProps
    <3>2. Len(f) = Len(more)
      BY <2>1, EndedProps
    <3>3. \A i \in 1 .. Len(more) : f[i] = Append(more[i], d)
      BY <2>1, EndedProps
    <3>4. QED
      BY <3>1, <3>2, <3>3
  <2> HIDE DEF f
  <2>3. QED
    BY <1>2, <2>2
<1> HIDE DEF e, f, N
<1>5. \A i \in 1 .. N : f[i] = e[i]
  BY <1>1, <1>2, <1>3, <1>4
<1>6. Concats(e)[N] = Concats(f)[N]
  <2>1. Len(e) <= Len(f) /\ \A i \in 1 .. Len(e) : e[i] = f[i]
    BY <1>1, <1>3, <1>4, <1>5
  <2>2. \A k \in 0 .. Len(e) : Concats(e)[k] = Concats(f)[k]
    BY <1>3, <1>4, <2>1, ConcatsAgree
  <2>3. QED
    BY <1>1, <1>3, <2>2
<1>7. Concats(f)[N + 1] = Cat(Concats(f)[N], f[N + 1])
  <2>1. Len(f) \in Nat /\ N + 1 \in 1 .. Len(f)
    BY <1>1, <1>4
  <2>2. \A n \in 1 .. Len(f) : Concats(f)[n] = Cat(Concats(f)[n - 1], f[n])
    BY <2>1, ConcatsSteps
  <2>3. Concats(f)[N + 1] = Cat(Concats(f)[(N + 1) - 1], f[N + 1])
    BY <2>1, <2>2
  <2>4. QED
    BY <1>1, <2>3
<1>8. f[N + 1] = Append(p, d) /\ p \in Seq(S)
  <2>1. \A s \in Seq(S \ {d}) : s \in Seq(S)
    OBVIOUS
  <2>2. QED
    BY <1>1, <1>2, <1>4, <2>1
<1>9. Concat(e) \in Seq(S) /\ Concat(e) = Concats(e)[N]
  BY <1>1, <1>3, ConcatsType DEF Concat
<1>10. Cat(Concat(e), Append(p, d)) = Append(Cat(Concat(e), p), d)
  BY <1>8, <1>9, CatOfAppend, SMTT(30)
<1>11. Concat(f) = Concats(f)[N + 1]
  BY <1>4 DEF Concat
<1>12. QED
  BY <1>6, <1>7, <1>8, <1>9, <1>10, <1>11 DEF e, f, more

(* Parts with a delimiter behind each are the joined parts with one        *)
(* behind.                                                                 *)
LEMMA JoinProps ==
  ASSUME NEW S, NEW d \in S, NEW parts \in Seq(Seq(S \ {d})), parts # <<>>
  PROVE  /\ Join(parts, d) \in Seq(S)
         /\ Concat(Ended(parts, d)) = Append(Join(parts, d), d)
<1> DEFINE f == Front(parts)
           p == Last(parts)
           w == Cat(Concat(Ended(f, d)), p)
<1>1. f \in Seq(Seq(S \ {d})) /\ p \in Seq(S \ {d}) /\ parts = Append(f, p)
  BY FrontAndLast
<1> HIDE DEF f, p
<1>2. Concat(Ended(f, d)) \in Seq(S) /\ Concat(Ended(parts, d)) = Append(w, d)
  BY <1>1, EndedOfAppend
<1>3. w \in Seq(S)
  <2>1. p \in Seq(S)
    BY <1>1
  <2>2. QED
    BY <1>2, <2>1, CatProps
<1> HIDE DEF w
<1>4. Join(parts, d) = w
  BY <1>2, <1>3, AppendFront DEF Join
<1>5. QED
  BY <1>2, <1>3, <1>4

(* Splitting returns the parts, but for a last one that is empty. *)
LEMMA SplitOfJoin ==
  ASSUME NEW S, NEW d \in S, NEW parts \in Seq(Seq(S \ {d})), parts # <<>>
  PROVE  Split(Join(parts, d), d) = IF Last(parts) = <<>> THEN Front(parts) ELSE parts
<1> DEFINE j == Join(parts, d)
           c == Cut(j, d)
           N == Len(parts)
<1>1. j \in Seq(S) /\ Concat(Ended(parts, d)) = Append(j, d)
  BY JoinProps
<1> HIDE DEF j
<1>2. N \in Nat /\ N \in 0 .. N /\ Len(Ended(parts, d)) = N
  BY EndedProps
<1>3. SubSeq(parts, 1, N) = parts
  <2>1. /\ SubSeq(parts, 1, N) \in Seq(Seq(S \ {d})) /\ Len(SubSeq(parts, 1, N)) = N
        /\ \A i \in 1 .. N : SubSeq(parts, 1, N)[i] = parts[i]
    BY <1>2, FirstOnes
  <2>2. QED
    BY <2>1, SameSequence
<1>4. Cut(Append(j, d), d) = [strings |-> parts, buf |-> <<>>]
  <2>1. Concats(Ended(parts, d))[N] = Append(j, d)
    BY <1>1, <1>2 DEF Concat
  <2>2. Cut(Concats(Ended(parts, d))[N], d) = [strings |-> SubSeq(parts, 1, N), buf |-> <<>>]
    BY <1>2, CutOfEnded
  <2>3. QED
    BY <1>3, <2>1, <2>2
<1>5. /\ c \in Cuts(S, d) /\ Cut(Append(j, d), d) = CutBy(c, d, d)
      /\ CutBy(c, d, d) = [strings |-> Append(c.strings, c.buf), buf |-> <<>>]
  <2>1. c \in Cuts(S, d) /\ Cut(Append(j, d), d) = CutBy(c, d, d)
    BY <1>1, CutProps
  <2> HIDE DEF c
  <2>2. CutBy(c, d, d) = [strings |-> Append(c.strings, c.buf), buf |-> <<>>]
    BY <2>1, CutByProps
  <2>3. QED
    BY <2>1, <2>2
<1>6. c.strings \in Seq(Seq(S \ {d})) /\ c.buf \in Seq(S \ {d})
  BY <1>5 DEF Cuts
<1> HIDE DEF c
<1>7. parts = Append(c.strings, c.buf)
  BY <1>4, <1>5
<1>8. Last(parts) = c.buf /\ Front(parts) = c.strings
  BY <1>6, <1>7, AppendFront
<1>9. Split(j, d) = IF c.buf = <<>> THEN c.strings ELSE Append(c.strings, c.buf)
  BY DEF Split, c
<1>10. QED
  BY <1>7, <1>8, <1>9 DEF j

(* split returns strings without a delimiter, and none for the empty       *)
(* text.                                                                   *)
LEMMA SplitType ==
  ASSUME NEW S, NEW d, NEW text \in Seq(S)
  PROVE  /\ Split(text, d) \in Seq(Seq(S \ {d}))
         /\ text = <<>> => Split(text, d) = <<>>
<1> DEFINE c == Cut(text, d)
<1>1. c \in Cuts(S, d) /\ (text = <<>> => c = NothingCut)
  BY CutProps
<1>2. Split(text, d) = IF c.buf = <<>> THEN c.strings ELSE Append(c.strings, c.buf)
  BY DEF Split
<1> HIDE DEF c
<1>3. c.strings \in Seq(Seq(S \ {d})) /\ c.buf \in Seq(S \ {d})
  BY <1>1 DEF Cuts
<1>4. QED
  BY <1>1, <1>2, <1>3 DEF NothingCut

(* What was cut is the text. *)
LEMMA CutRestores ==
  ASSUME NEW S, NEW d \in S, NEW text \in Seq(S)
  PROVE  Cat(Concat(Ended(Cut(text, d).strings, d)), Cut(text, d).buf) = text
<1> DEFINE Whole(c) == Cat(Concat(Ended(c.strings, d)), c.buf)
           T == {n \in Nat : \A s \in Seq(S) : Len(s) = n => Whole(Cut(s, d)) = s}
<1>1. 0 \in T
  <2>1. ASSUME NEW s \in Seq(S), Len(s) = 0 PROVE Whole(Cut(s, d)) = s
    <3> DEFINE e == Ended(<<>>, d)
    <3>1. s = <<>>
      BY <2>1, EmptySeq
    <3>2. Cut(s, d).strings = <<>> /\ Cut(s, d).buf = <<>>
      <4>1. Cut(s, d) = NothingCut
        BY <3>1, CutProps
      <4>2. QED
        BY <4>1 DEF NothingCut
    <3>3. Len(e) = 0
      BY DEF Ended
    <3> HIDE DEF e
    <3>4. Concat(e) = <<>>
      BY <3>3, ConcatsSteps DEF Concat
    <3>5. Cat(<<>>, s) = s
      BY CatEmpty
    <3>6. QED
      BY <3>1, <3>2, <3>4, <3>5 DEF e
  <2>2. QED
    BY <2>1
<1>2. ASSUME NEW n \in T PROVE n + 1 \in T
  <2>1. ASSUME NEW s \in Seq(S), Len(s) = n + 1 PROVE Whole(Cut(s, d)) = s
    <3> DEFINE f == Front(s)
               x == Last(s)
               c == Cut(f, d)
               e == Concat(Ended(c.strings, d))
    <3>1. s # <<>> /\ n \in Nat
      BY <2>1
    <3>2. f \in Seq(S) /\ x \in S /\ s = Append(f, x) /\ Len(f) = Len(s) - 1
      BY <3>1, FrontAndLast
    <3>3. Len(f) = n
      BY <2>1, <3>1, <3>2
    <3> HIDE DEF f, x
    <3>4. Cat(e, c.buf) = f
      BY <3>2, <3>3
    <3>5. c \in Cuts(S, d) /\ Cut(s, d) = CutBy(c, x, d)
      BY <3>2, CutProps
    <3> HIDE DEF c
    <3>6. c.strings \in Seq(Seq(S \ {d})) /\ c.buf \in Seq(S \ {d})
      BY <3>5 DEF Cuts
    <3>7. c.buf \in Seq(S)
      BY <3>6
    <3>8. e \in Seq(S) /\ Concat(Ended(Append(c.strings, c.buf), d)) = Append(Cat(e, c.buf), d)
      BY <3>6, EndedOfAppend
    <3>9. CASE x = d
      <4>1. Cut(s, d) = [strings |-> Append(c.strings, c.buf), buf |-> <<>>]
        BY <3>2, <3>5, <3>9, CutByProps
      <4>2. Whole(Cut(s, d)) = Cat(Concat(Ended(Append(c.strings, c.buf), d)), <<>>)
        BY <4>1
      <4>3. Whole(Cut(s, d)) = Cat(s, <<>>)
        BY <3>2, <3>4, <3>8, <3>9, <4>2
      <4>4. QED
        BY <4>3, CatEmpty
    <3>10. CASE x # d
      <4>1. Cut(s, d) = [strings |-> c.strings, buf |-> Append(c.buf, x)]
        BY <3>2, <3>5, <3>10, CutByProps
      <4>2. Whole(Cut(s, d)) = Cat(e, Append(c.buf, x))
        BY <4>1
      <4> HIDE DEF e
      <4>3. Cat(e, Append(c.buf, x)) = Append(Cat(e, c.buf), x)
        BY <3>2, <3>7, <3>8, CatOfAppend, SMTT(30)
      <4>4. QED
        BY <3>2, <3>4, <4>2, <4>3
    <3>11. QED
      BY <3>9, <3>10
  <2>2. QED
    BY <2>1
<1> HIDE DEF T
<1>3. T = Nat
  <2>1. T \in SUBSET Nat
    BY DEF T
  <2>2. QED
    BY <1>1, <1>2, <2>1, NatSetInduction
<1>4. Len(text) \in T
  BY <1>3
<1>5. QED
  BY <1>4 DEF T

(* Joining what was split returns the text, but for a delimiter at its end.*)
LEMMA JoinOfSplit ==
  ASSUME NEW S, NEW d \in S, NEW text \in Seq(S)
  PROVE  Join(Split(text, d), d)
           = IF text # <<>> /\ Last(text) = d THEN Front(text) ELSE text
<1> DEFINE c == Cut(text, d)
           e == Concat(Ended(c.strings, d))
<1>1. c \in Cuts(S, d) /\ Cat(e, c.buf) = text
  BY CutProps, CutRestores
<1>2. Split(text, d) = IF c.buf = <<>> THEN c.strings ELSE Append(c.strings, c.buf)
  BY DEF Split
<1> HIDE DEF c
<1>3. c.strings \in Seq(Seq(S \ {d})) /\ c.buf \in Seq(S \ {d}) /\ c.buf \in Seq(S)
  BY <1>1 DEF Cuts
<1>4. e \in Seq(S) /\ Concat(Ended(Append(c.strings, c.buf), d)) = Append(Cat(e, c.buf), d)
  BY <1>3, EndedOfAppend
<1>5. CASE c.buf = <<>> /\ c.strings = <<>>
  <2> DEFINE g == Ended(<<>>, d)
  <2>1. Len(g) = 0
    BY DEF Ended
  <2> HIDE DEF g
  <2>2. Concat(g) = <<>>
    BY <2>1, ConcatsSteps DEF Concat
  <2>3. e = <<>>
    BY <1>5, <2>2 DEF g
  <2>4. text = <<>>
    BY <1>1, <1>4, <1>5, <2>3, CatEmpty
  <2>5. Front(<<>>) = <<>>
    BY SubSeqEmpty DEF Front
  <2>6. Join(<<>>, d) = <<>>
    BY <2>2, <2>5 DEF Join, g
  <2>7. QED
    BY <1>2, <1>5, <2>4, <2>6
<1>6. CASE c.buf = <<>> /\ c.strings # <<>>
  <2>1. Cat(e, <<>>) = e
    BY <1>4, CatEmpty
  <2>2. Join(c.strings, d) \in Seq(S) /\ e = Append(Join(c.strings, d), d)
    BY <1>3, <1>6, JoinProps
  <2>3. text = Append(Join(c.strings, d), d)
    BY <1>1, <1>6, <2>1, <2>2
  <2>4. text # <<>> /\ Last(text) = d /\ Front(text) = Join(c.strings, d)
    BY <2>2, <2>3, AppendFront
  <2>5. QED
    BY <1>2, <1>6, <2>4
<1>7. CASE c.buf # <<>>
  <2> DEFINE b == c.buf
  <2>1. b \in Seq(S \ {d}) /\ b \in Seq(S) /\ b # <<>> /\ Len(b) \in Nat \ {0} /\ b[Len(b)] # d
    BY <1>3, <1>7, FrontAndLast
  <2> HIDE DEF b, e
  <2>2. Cat(e, b) \in Seq(S) /\ Len(Cat(e, b)) = Len(e) + Len(b)
        /\ \A j \in 1 .. Len(b) : Cat(e, b)[Len(e) + j] = b[j]
    BY <1>4, <2>1, CatProps
  <2>3. Cat(e, b)[Len(Cat(e, b))] = b[Len(b)]
    BY <2>1, <2>2
  <2>4. text = Cat(e, b)
    BY <1>1 DEF b
  <2>5. Last(text) # d
    BY <2>1, <2>3, <2>4 DEF Last
  <2>6. Split(text, d) = Append(c.strings, c.buf)
    BY <1>2, <1>7
  <2>7. Join(Split(text, d), d) = Front(Append(text, d))
    BY <1>1, <1>4, <2>6 DEF Join, e
  <2>8. Front(Append(text, d)) = text
    BY AppendFront
  <2>9. QED
    BY <2>5, <2>7, <2>8
<1>8. QED
  BY <1>5, <1>6, <1>7

(* The first m parts are the first n and those between. *)
LEMMA ConcatsBetween ==
  ASSUME NEW S, NEW parts \in Seq(Seq(S)), NEW n \in Nat, NEW m \in Nat,
         n <= m, m <= Len(parts)
  PROVE  /\ Concat(SubSeq(parts, n + 1, m)) \in Seq(S)
         /\ Concats(parts)[m] = Cat(Concats(parts)[n], Concat(SubSeq(parts, n + 1, m)))
<1> DEFINE more == SubSeq(parts, n + 1, m)
<1>1. /\ more \in Seq(Seq(S)) /\ Len(more) = m - n
      /\ \A j \in 1 .. m - n : more[j] = parts[n + j]
  BY MiddleOnes
<1> HIDE DEF more
<1>2. Len(parts) \in Nat
  OBVIOUS
<1>3. more \in Seq(Seq(S)) /\ Len(more) = m - n /\ Len(more) \in Nat
  BY <1>1
<1>4. n + Len(more) = m
  BY <1>3
<1>5. n + Len(more) <= Len(parts)
  BY <1>4
<1>6. \A i \in 1 .. Len(more) : more[i] = parts[n + i]
  BY <1>1, <1>3
<1>7. more \in Seq(Seq(S)) /\ ContinuesAt(more, parts, n)
  BY <1>3, <1>5, <1>6 DEF ContinuesAt
<1>8. \A k \in 0 .. Len(more) : Concats(parts)[n + k] = Cat(Concats(parts)[n], Concats(more)[k])
  BY <1>7, ConcatsShift
<1>9. Len(more) \in 0 .. Len(more)
  BY <1>3
<1>10. Concat(more) \in Seq(S)
  BY <1>7, <1>9, ConcatsType DEF Concat
<1>11. Concats(parts)[n + Len(more)] = Cat(Concats(parts)[n], Concat(more))
  BY <1>8, <1>9 DEF Concat
<1>12. QED
  BY <1>4, <1>10, <1>11 DEF more

(* The first n parts are the beginning of the first m. *)
LEMMA ConcatsPrefix ==
  ASSUME NEW S, NEW parts \in Seq(Seq(S)), NEW n \in Nat, NEW m \in Nat,
         n <= m, m <= Len(parts)
  PROVE  /\ Len(Concats(parts)[n]) <= Len(Concats(parts)[m])
         /\ \A j \in 1 .. Len(Concats(parts)[n]) : Concats(parts)[m][j] = Concats(parts)[n][j]
<1> DEFINE a == Concats(parts)[n]
           b == Concat(SubSeq(parts, n + 1, m))
<1>1. b \in Seq(S) /\ Concats(parts)[m] = Cat(a, b)
  BY ConcatsBetween
<1>2. a \in Seq(S)
  <2>1. n \in 0 .. Len(parts)
    OBVIOUS
  <2>2. QED
    BY <2>1, ConcatsType
<1> HIDE DEF a, b
<1>3. Len(Cat(a, b)) = Len(a) + Len(b) /\ \A j \in 1 .. Len(a) : Cat(a, b)[j] = a[j]
  BY <1>1, <1>2, CatProps
<1>4. Len(a) \in Nat /\ Len(b) \in Nat
  BY <1>1, <1>2
<1>5. Len(a) <= Len(Cat(a, b))
  BY <1>3, <1>4
<1>6. QED
  BY <1>1, <1>3, <1>5 DEF a

(* What is in the first n parts one after the other is in one of them. *)
EachIsFrom(s, parts, n) ==
  \A i \in 1 .. Len(s) : \E j \in 1 .. n : \E k \in DOMAIN parts[j] : s[i] = parts[j][k]

(* Every element of the first n parts in a row comes from one of them. *)
LEMMA ConcatsElements ==
  ASSUME NEW S, NEW parts \in Seq(Seq(S))
  PROVE  \A n \in 0 .. Len(parts) : EachIsFrom(Concats(parts)[n], parts, n)
<1> DEFINE t == Concats(parts)
           N == Len(parts)
           From(n, x) == \E j \in 1 .. n : \E k \in DOMAIN parts[j] : x = parts[j][k]
           T == {n \in Nat : n <= N => \A i \in 1 .. Len(t[n]) : From(n, t[n][i])}
<1>1. N \in Nat /\ \A n \in 1 .. N : parts[n] \in Seq(S)
  OBVIOUS
<1>2. t[0] = <<>> /\ \A n \in 1 .. N : t[n] = Cat(t[n - 1], parts[n])
  BY <1>1, ConcatsSteps
<1>3. \A n \in 0 .. N : t[n] \in Seq(S) /\ Len(t[n]) \in Nat
  BY ConcatsType
<1> HIDE DEF t, N
<1>4. 0 \in T
  <2>1. Len(t[0]) = 0
    BY <1>2
  <2>2. QED
    BY <2>1
<1>5. ASSUME NEW n \in T PROVE n + 1 \in T
  <2>1. ASSUME n + 1 <= N, NEW i \in 1 .. Len(t[n + 1])
        PROVE  From(n + 1, t[n + 1][i])
    <3> DEFINE a == t[n]
               p == parts[n + 1]
               w == t[n + 1]
    <3>0. n \in Nat /\ n + 1 <= N
      BY <2>1
    <3>1. n \in Nat /\ n + 1 \in 1 .. N /\ (n + 1) - 1 = n /\ n \in 0 .. N /\ n <= N
      BY <1>1, <3>0
    <3>2. n + 1 \in 1 .. n + 1 /\ \A j \in 1 .. n : j \in 1 .. n + 1
      BY <3>1
    <3>3. \A j \in 1 .. Len(a) : From(n, a[j])
      BY <3>1
    <3>4. a \in Seq(S) /\ p \in Seq(S)
      BY <1>1, <1>3, <3>1
    <3>5. w = Cat(a, p)
      BY <1>2, <3>1
    <3>6. Len(a) \in Nat /\ Len(p) \in Nat /\ DOMAIN p = 1 .. Len(p)
      BY <3>4
    <3>7. i \in 1 .. Len(w)
      BY <2>1
    <3> HIDE DEF a, p, w, From
    <3>8. Len(w) = Len(a) + Len(p)
      BY <3>4, <3>5, CatProps
    <3>9. \A j \in 1 .. Len(a) : w[j] = a[j]
      BY <3>4, <3>5, CatProps
    <3>10. \A j \in 1 .. Len(p) : w[Len(a) + j] = p[j]
      <4>1. \A j \in 1 .. Len(p) : Cat(a, p)[Len(a) + j] = p[j]
        BY <3>4, CatProps
      <4>2. QED
        BY <3>5, <4>1
    <3>11. CASE i <= Len(a)
      <4>1. i \in 1 .. Len(a)
        BY <3>6, <3>7, <3>11
      <4>2. w[i] = a[i] /\ From(n, a[i])
        BY <3>3, <3>9, <4>1
      <4>3. From(n, w[i])
        BY <4>2
      <4>4. QED
        BY <3>2, <4>3 DEF From, w
    <3>12. CASE ~(i <= Len(a))
      <4>1. i - Len(a) \in 1 .. Len(p) /\ Len(a) + (i - Len(a)) = i
        BY <3>6, <3>7, <3>8, <3>12
      <4>2. w[i] = p[i - Len(a)] /\ i - Len(a) \in DOMAIN p
        BY <3>6, <3>10, <4>1
      <4>3. From(n + 1, w[i])
        BY <3>2, <4>2 DEF From, p
      <4>4. QED
        BY <4>3 DEF w
    <3>13. QED
      BY <3>11, <3>12
  <2>2. n + 1 \in Nat
    OBVIOUS
  <2> HIDE DEF From
  <2>3. QED
    BY <2>1, <2>2
<1> HIDE DEF T
<1>6. T = Nat
  <2>1. T \in SUBSET Nat
    BY DEF T
  <2>2. QED
    BY <1>4, <1>5, <2>1, NatSetInduction
<1>7. ASSUME NEW n \in 0 .. N PROVE \A i \in 1 .. Len(t[n]) : From(n, t[n][i])
  <2>1. n \in Nat /\ n <= N /\ n \in T
    BY <1>1, <1>6
  <2>2. QED
    BY <2>1 DEF T
<1>8. QED
  BY <1>7 DEF t, N, EachIsFrom

(* Adding the delimiters and taking a stretch of the parts commute. *)
LEMMA EndedBetween ==
  ASSUME NEW S, NEW d \in S, NEW parts \in Seq(Seq(S \ {d})), NEW n \in Nat, NEW m \in Nat,
         n <= m, m <= Len(parts)
  PROVE  SubSeq(Ended(parts, d), n + 1, m) = Ended(SubSeq(parts, n + 1, m), d)
<1> DEFINE e == Ended(parts, d)
           a == SubSeq(e, n + 1, m)
           p == SubSeq(parts, n + 1, m)
           b == Ended(p, d)
<1>0. Len(parts) \in Nat
  OBVIOUS
<1>1. /\ e \in Seq(Seq(S)) /\ Len(e) = Len(parts)
      /\ \A i \in 1 .. Len(parts) : e[i] = Append(parts[i], d)
  <2>1. e \in Seq(Seq(S))
    BY EndedProps
  <2>2. Len(e) = Len(parts)
    BY EndedProps
  <2>3. \A i \in 1 .. Len(parts) : e[i] = Append(parts[i], d)
    BY EndedProps
  <2>4. QED
    BY <2>1, <2>2, <2>3
<1>2. p \in Seq(Seq(S \ {d})) /\ Len(p) = m - n /\ \A j \in 1 .. m - n : p[j] = parts[n + j]
  BY MiddleOnes
<1>3. p \in Seq(Seq(S \ {d}))
  BY <1>2
<1> HIDE DEF p, e
<1>4. b \in Seq(Seq(S)) /\ Len(b) = Len(p) /\ \A i \in 1 .. Len(p) : b[i] = Append(p[i], d)
  <2>1. b \in Seq(Seq(S))
    BY <1>3, EndedProps
  <2>2. Len(b) = Len(p)
    BY <1>3, EndedProps
  <2>3. \A i \in 1 .. Len(p) : b[i] = Append(p[i], d)
    BY <1>3, EndedProps
  <2>4. QED
    BY <2>1, <2>2, <2>3
<1>5. e \in Seq(Seq(S)) /\ m <= Len(e)
  BY <1>1
<1>6. a \in Seq(Seq(S)) /\ Len(a) = m - n /\ \A j \in 1 .. m - n : a[j] = e[n + j]
  BY <1>5, MiddleOnes
<1> HIDE DEF a, b
<1>7. ASSUME NEW j \in 1 .. Len(a) PROVE a[j] = b[j]
  <2>1. j \in 1 .. m - n /\ n + j \in 1 .. Len(parts)
    <3>1. Len(a) = m - n
      BY <1>6
    <3>2. j \in 1 .. m - n
      BY <3>1
    <3>3. QED
      BY <1>0, <3>2
  <2>2. a[j] = Append(parts[n + j], d) /\ b[j] = Append(p[j], d)
    BY <1>1, <1>2, <1>4, <1>6, <2>1
  <2>3. QED
    BY <1>2, <2>1, <2>2
<1>8. Len(a) = Len(b) /\ a \in Seq(Seq(S)) /\ b \in Seq(Seq(S))
  BY <1>2, <1>4, <1>6
<1>9. a = b
  BY <1>7, <1>8, SameSequence
<1>10. QED
  BY <1>9 DEF a, b, e, p

(* Parts that are as long and related one by one make sequences that are.  *)
LEMMA ConcatsRelated ==
  ASSUME NEW S, NEW T, NEW a \in Seq(Seq(S)), NEW b \in Seq(Seq(T)), NEW Rel, Len(a) = Len(b),
         \A j \in 1 .. Len(a) :
           /\ Len(a[j]) = Len(b[j])
           /\ \A k \in 1 .. Len(a[j]) : <<a[j][k], b[j][k]>> \in Rel
  PROVE  \A n \in 0 .. Len(a) :
           /\ Len(Concats(a)[n]) = Len(Concats(b)[n])
           /\ \A i \in 1 .. Len(Concats(a)[n]) : <<Concats(a)[n][i], Concats(b)[n][i]>> \in Rel
<1> DEFINE x == Concats(a)
           y == Concats(b)
           N == Len(a)
           Holds(u, v) == Len(u) = Len(v) /\ \A i \in 1 .. Len(u) : <<u[i], v[i]>> \in Rel
           I == {n \in Nat : n <= N => Holds(x[n], y[n])}
<1>1. /\ N \in Nat /\ N = Len(b)
      /\ \A j \in 1 .. N : a[j] \in Seq(S) /\ b[j] \in Seq(T) /\ Holds(a[j], b[j])
  <2>1. N \in Nat /\ N = Len(b)
    OBVIOUS
  <2>2. \A j \in 1 .. N : Holds(a[j], b[j])
    OBVIOUS
  <2>3. \A j \in 1 .. N : a[j] \in Seq(S)
    OBVIOUS
  <2>4. \A j \in 1 .. Len(b) : b[j] \in Seq(T)
    OBVIOUS
  <2> HIDE DEF N, Holds
  <2>5. QED
    BY <2>1, <2>2, <2>3, <2>4
<1>2. x[0] = <<>> /\ \A n \in 1 .. N : x[n] = Cat(x[n - 1], a[n])
  BY <1>1, ConcatsSteps
<1>3. y[0] = <<>> /\ \A n \in 1 .. N : y[n] = Cat(y[n - 1], b[n])
  BY <1>1, ConcatsSteps
<1>4. \A n \in 0 .. N : x[n] \in Seq(S)
  BY ConcatsType
<1>5. \A n \in 0 .. N : y[n] \in Seq(T)
  BY <1>1, ConcatsType

(* Two related pairs make a related one. *)
<1>6. ASSUME NEW u \in Seq(S), NEW v \in Seq(T), Holds(u, v),
             NEW p \in Seq(S), NEW q \in Seq(T), Holds(p, q)
      PROVE  Holds(Cat(u, p), Cat(v, q))
  <2>1. Len(Cat(u, p)) = Len(u) + Len(p)
    BY CatProps
  <2>2. Len(Cat(v, q)) = Len(v) + Len(q)
    BY CatProps
  <2>3. \A j \in 1 .. Len(u) : Cat(u, p)[j] = u[j]
    BY CatProps
  <2>4. \A j \in 1 .. Len(p) : Cat(u, p)[Len(u) + j] = p[j]
    BY CatProps
  <2>5. \A j \in 1 .. Len(v) : Cat(v, q)[j] = v[j]
    BY CatProps
  <2>6. \A j \in 1 .. Len(q) : Cat(v, q)[Len(v) + j] = q[j]
    BY CatProps
  <2>7. Len(u) = Len(v) /\ Len(p) = Len(q) /\ Len(u) \in Nat /\ Len(p) \in Nat
    BY <1>6
  <2>8. ASSUME NEW i \in 1 .. Len(u) + Len(p) PROVE <<Cat(u, p)[i], Cat(v, q)[i]>> \in Rel
    <3>1. CASE i <= Len(u)
      <4>1. i \in 1 .. Len(u) /\ i \in 1 .. Len(v)
        BY <2>7, <2>8, <3>1
      <4>2. Cat(u, p)[i] = u[i] /\ Cat(v, q)[i] = v[i]
        BY <2>3, <2>5, <4>1
      <4>3. <<u[i], v[i]>> \in Rel
        BY <1>6, <4>1
      <4>4. QED
        BY <4>2, <4>3
    <3>2. CASE ~(i <= Len(u))
      <4> DEFINE j == i - Len(u)
      <4>1. j \in 1 .. Len(p) /\ j \in 1 .. Len(q) /\ Len(u) + j = i /\ Len(v) + j = i
        BY <2>7, <2>8, <3>2
      <4> HIDE DEF j
      <4>2. Cat(u, p)[i] = p[j] /\ Cat(v, q)[i] = q[j]
        BY <2>4, <2>6, <4>1
      <4>3. <<p[j], q[j]>> \in Rel
        BY <1>6, <4>1
      <4>4. QED
        BY <4>2, <4>3
    <3>3. QED
      BY <3>1, <3>2
  <2>9. QED
    BY <2>1, <2>2, <2>7, <2>8
<1>7. Holds(<<>>, <<>>)
  OBVIOUS
<1> HIDE DEF x, y, N, Holds
<1>8. 0 \in I
  BY <1>2, <1>3, <1>7
<1>9. ASSUME NEW n \in I PROVE n + 1 \in I
  <2>1. ASSUME n + 1 <= N PROVE Holds(x[n + 1], y[n + 1])
    <3>0. N \in Nat /\ n \in Nat /\ n + 1 <= N
      BY <1>1, <2>1
    <3>1. n \in Nat /\ n + 1 \in 1 .. N /\ (n + 1) - 1 = n /\ n \in 0 .. N /\ n <= N
      BY <3>0
    <3>2. Holds(x[n], y[n]) /\ x[n] \in Seq(S) /\ y[n] \in Seq(T)
      BY <1>4, <1>5, <3>1
    <3>3. Holds(a[n + 1], b[n + 1]) /\ a[n + 1] \in Seq(S) /\ b[n + 1] \in Seq(T)
      BY <1>1, <3>1
    <3>4. Holds(Cat(x[n], a[n + 1]), Cat(y[n], b[n + 1]))
      BY <1>6, <3>2, <3>3
    <3>5. x[n + 1] = Cat(x[n], a[n + 1]) /\ y[n + 1] = Cat(y[n], b[n + 1])
      BY <1>2, <1>3, <3>1
    <3>6. QED
      BY <3>4, <3>5
  <2>2. n + 1 \in Nat
    OBVIOUS
  <2>3. QED
    BY <2>1, <2>2
<1> HIDE DEF I
<1>10. I = Nat
  <2>1. I \in SUBSET Nat
    BY DEF I
  <2>2. QED
    BY <1>8, <1>9, <2>1, NatSetInduction
<1>11. ASSUME NEW n \in 0 .. N PROVE Holds(x[n], y[n])
  <2>1. n \in Nat /\ n <= N /\ n \in I
    BY <1>1, <1>10
  <2>2. QED
    BY <2>1 DEF I
<1>12. QED
  BY <1>11 DEF Holds, x, y, N

(* A delimiter stands at the end of a part only. *)
LEMMA DelimiterEnds ==
  ASSUME NEW S, NEW d \in S, NEW parts \in Seq(Seq(S \ {d}))
  PROVE  \A n \in 0 .. Len(parts) : \A i \in 1 .. Len(Concats(Ended(parts, d))[n]) :
           Concats(Ended(parts, d))[n][i] = d
             => \E m \in 1 .. n : i = Len(Concats(Ended(parts, d))[m])
<1> DEFINE e == Ended(parts, d)
           t == Concats(e)
           N == Len(parts)
           Ends(n, i) == \E m \in 1 .. n : i = Len(t[m])
           T == {n \in Nat : n <= N => \A i \in 1 .. Len(t[n]) : t[n][i] = d => Ends(n, i)}
<1>1. N \in Nat
  OBVIOUS
<1>2. /\ e \in Seq(Seq(S)) /\ Len(e) = N
      /\ \A i \in 1 .. N : /\ e[i] = Append(parts[i], d)
                           /\ parts[i] \in Seq(S \ {d}) /\ parts[i] \in Seq(S)
  BY EndedProps
<1> HIDE DEF e
<1>3. t[0] = <<>> /\ \A n \in 1 .. N : t[n] = Cat(t[n - 1], e[n])
  BY <1>1, <1>2, ConcatsSteps
<1>4. \A n \in 0 .. N : t[n] \in Seq(S) /\ Len(t[n]) \in Nat
  BY <1>2, ConcatsType
<1> HIDE DEF t, N
<1>5. 0 \in T
  <2>1. Len(t[0]) = 0
    BY <1>3
  <2>2. QED
    BY <2>1
<1>6. ASSUME NEW n \in T PROVE n + 1 \in T
  <2>1. ASSUME n + 1 <= N, NEW i \in 1 .. Len(t[n + 1]), t[n + 1][i] = d
        PROVE  Ends(n + 1, i)
    <3> DEFINE a == t[n]
               p == parts[n + 1]
               w == Cat(a, p)
               u == t[n + 1]
    <3>0. n \in Nat /\ n + 1 <= N
      BY <2>1
    <3>1. n \in Nat /\ n + 1 \in 1 .. N /\ (n + 1) - 1 = n /\ n \in 0 .. N /\ n <= N
      BY <1>1, <3>0
    <3>2. n + 1 \in 1 .. n + 1 /\ \A j \in 1 .. n : j \in 1 .. n + 1
      BY <3>1
    <3>3. \A j \in 1 .. Len(a) : a[j] = d => Ends(n, j)
      BY <3>1
    <3>4. a \in Seq(S) /\ p \in Seq(S)
      BY <1>2, <1>4, <3>1
    <3>5. p \in Seq(S \ {d})
      BY <1>2, <3>1
    <3>6. u = Cat(a, Append(p, d))
      BY <1>2, <1>3, <3>1
    <3>7. i \in 1 .. Len(u) /\ u[i] = d
      BY <2>1
    <3>8. Ends(n + 1, Len(u)) /\ \A j : Ends(n, j) => Ends(n + 1, j)
      BY <3>2
    <3>9. Len(a) \in Nat /\ Len(p) \in Nat
      BY <3>4
    <3>10. \A j \in 1 .. Len(p) : p[j] # d
      BY <3>5
    <3> HIDE DEF a, p, u, Ends
    <3>11. u = Append(w, d)
      BY <3>4, <3>6, CatOfAppend
    <3>12. w \in Seq(S)
      BY <3>4, CatProps
    <3>13. Len(w) = Len(a) + Len(p)
      BY <3>4, CatProps
    <3>14. \A j \in 1 .. Len(a) : w[j] = a[j]
      BY <3>4, CatProps
    <3>15. \A j \in 1 .. Len(p) : w[Len(a) + j] = p[j]
      BY <3>4, CatProps
    <3> HIDE DEF w
    <3>16. Len(u) = Len(w) + 1 /\ \A j \in 1 .. Len(w) : u[j] = w[j]
      BY <3>11, <3>12
    <3>17. CASE i <= Len(a)
      <4>1. i \in 1 .. Len(a) /\ i \in 1 .. Len(w)
        BY <3>7, <3>9, <3>13, <3>17
      <4>2. a[i] = d
        BY <3>7, <3>14, <3>16, <4>1
      <4>3. QED
        BY <3>3, <3>8, <4>1, <4>2
    <3>18. CASE ~(i <= Len(a)) /\ i <= Len(w)
      <4>1. i - Len(a) \in 1 .. Len(p) /\ Len(a) + (i - Len(a)) = i /\ i \in 1 .. Len(w)
        BY <3>7, <3>9, <3>13, <3>18
      <4>2. u[i] = p[i - Len(a)]
        BY <3>15, <3>16, <4>1
      <4>3. QED
        BY <3>7, <3>10, <4>1, <4>2
    <3>19. CASE ~(i <= Len(w))
      <4>1. i = Len(u)
        <5>1. Len(w) \in Nat /\ Len(u) = Len(w) + 1 /\ i \in 1 .. Len(u)
          BY <3>7, <3>12, <3>16
        <5>2. QED
          BY <3>19, <5>1
      <4>2. QED
        BY <3>8, <4>1
    <3>20. QED
      BY <3>17, <3>18, <3>19
  <2>2. n + 1 \in Nat
    OBVIOUS
  <2> HIDE DEF Ends
  <2>3. QED
    BY <2>1, <2>2
<1> HIDE DEF T
<1>7. T = Nat
  <2>1. T \in SUBSET Nat
    BY DEF T
  <2>2. QED
    BY <1>5, <1>6, <2>1, NatSetInduction
<1>8. ASSUME NEW n \in 0 .. N PROVE \A i \in 1 .. Len(t[n]) : t[n][i] = d => Ends(n, i)
  <2>1. n \in Nat /\ n <= N /\ n \in T
    BY <1>1, <1>7
  <2>2. QED
    BY <2>1 DEF T
<1>9. QED
  BY <1>8 DEF t, e, N
===============================================================================
