---------------------------- MODULE PublisherProofs ----------------------------
(***************************************************************************)
(* Proofs about PublisherHandler, for any messages, cut into reads of any  *)
(* length: what is parsed is what was written, and it is batched in order. *)
(***************************************************************************)
EXTENDS PublisherHandler, BufferProofs

(***************************************************************************)
(* The text written                                                        *)
(***************************************************************************)
(* f is the first n texts of the definition of TextOf. *)
BeginsText(f, messages, n) ==
  f = [k \in 0 .. n |-> IF k = 0 THEN <<>> ELSE f[k - 1] \o Written(messages[k])]

(* TextOf exists: a recursion over numbers below a bound does. *)
LEMMA TextBegins ==
  ASSUME NEW messages
  PROVE  \A n \in Nat : \E f : BeginsText(f, messages, n)
<1> DEFINE T == {n \in Nat : \E f : BeginsText(f, messages, n)}
<1>1. 0 \in T
  <2> DEFINE f == [k \in 0 .. 0 |-> <<>>]
  <2>1. BeginsText(f, messages, 0)
    BY DEF BeginsText
  <2>2. QED
    BY <2>1
<1>2. ASSUME NEW n \in T PROVE n + 1 \in T
  <2>1. PICK f : BeginsText(f, messages, n)
    OBVIOUS
  <2> DEFINE g == [k \in 0 .. n + 1 |->
                     IF k = n + 1 THEN f[n] \o Written(messages[n + 1]) ELSE f[k]]
  <2>2. \A k \in 0 .. n + 1 :
          g[k] = IF k = 0 THEN <<>> ELSE g[k - 1] \o Written(messages[k])
    <3>1. \A k \in 0 .. n : f[k] = IF k = 0 THEN <<>> ELSE f[k - 1] \o Written(messages[k])
      BY <2>1 DEF BeginsText
    <3>2. \A k \in 0 .. n : g[k] = f[k]
      OBVIOUS
    <3>3. g[n + 1] = f[n] \o Written(messages[n + 1])
      OBVIOUS
    <3> HIDE DEF g
    <3>4. ASSUME NEW k \in 0 .. n + 1
          PROVE  g[k] = IF k = 0 THEN <<>> ELSE g[k - 1] \o Written(messages[k])
      <4>1. n \in Nat /\ (n + 1) - 1 = n /\ n \in 0 .. n /\ n + 1 # 0
        OBVIOUS
      <4>2. CASE k = n + 1
        BY <3>2, <3>3, <4>1, <4>2
      <4>3. CASE k # n + 1
        <5>1. k \in 0 .. n /\ (k # 0 => k - 1 \in 0 .. n)
          BY <4>1, <4>3
        <5>2. QED
          BY <3>1, <3>2, <5>1
      <4>4. QED
        BY <4>2, <4>3
    <3>5. QED
      BY <3>4
  <2>3. g = [k \in 0 .. n + 1 |-> g[k]]
    OBVIOUS
  <2> HIDE DEF g
  <2>4. BeginsText(g, messages, n + 1)
    BY <2>2, <2>3 DEF BeginsText
  <2>5. QED
    BY <2>4
<1> HIDE DEF T
<1>3. T \in SUBSET Nat
  BY DEF T
<1>4. T = Nat
  BY <1>1, <1>2, <1>3, NatSetInduction
<1>5. QED
  BY <1>4 DEF T

(* The text of the messages is the one the recursion makes. *)
LEMMA TextIsRecursive ==
  ASSUME NEW messages, Len(messages) \in Nat
  PROVE  BeginsText(TextOf(messages), messages, Len(messages))
<1>1. \E f : BeginsText(f, messages, Len(messages))
  BY TextBegins
<1>2. QED
  BY <1>1 DEF BeginsText, TextOf

(* c is the text a and then the text b. *)
Joined(a, b, c) ==
  /\ c \in Text /\ Len(a) \in Nat /\ Len(b) \in Nat
  /\ Len(c) = Len(a) + Len(b)
  /\ \A j \in 1 .. Len(a) : c[j] = a[j]
  /\ \A j \in 1 .. Len(b) : c[Len(a) + j] = b[j]

(* The characters of two texts one after the other. *)
LEMMA TextConcat ==
  ASSUME NEW a \in Text, NEW b \in Text
  PROVE  Joined(a, b, a \o b)
<1>1. a \in Seq(Characters) /\ b \in Seq(Characters)
  BY DEF Text
<1>2. Len(a) \in Nat /\ Len(b) \in Nat
  BY <1>1
<1>3. QED
  BY <1>1, <1>2, ConcatParts DEF Text, Joined

(* c is the text a and then the character x. *)
Extended(a, x, c) ==
  /\ c \in Text /\ Len(a) \in Nat
  /\ Len(c) = Len(a) + 1
  /\ \A j \in 1 .. Len(a) : c[j] = a[j]
  /\ c[Len(a) + 1] = x

(* The characters of a text a character was appended to. *)
LEMMA TextAppend ==
  ASSUME NEW a \in Text, NEW x \in Characters
  PROVE  Extended(a, x, a \o <<x>>) /\ Extended(a, x, Append(a, x))
<1>1. a \in Seq(Characters)
  BY DEF Text
<1>2. a \o <<x>> = Append(a, x)
  BY <1>1
<1>3. Extended(a, x, Append(a, x))
  BY <1>1 DEF Text, Extended
<1>4. QED
  BY <1>2, <1>3

(* A message, and the characters of its text. *)
LEMMA MessageParts ==
  ASSUME NEW m \in WellFormed
  PROVE  /\ m[1] \in Types /\ m[1] \in Seq(Characters \ {Bar}) /\ m[1] \in Text
         /\ m[2] \in Seq(Characters \ {Bar}) /\ m[2] \in Text
         /\ m[3] \in Text
         /\ StoUL(m[2]) = Len(m[3])
<1>1. m \in Types \X Numerals \X Contents /\ StoUL(m[2]) = Len(m[3])
  BY DEF WellFormed
<1>2. m[1] \in Types /\ m[2] \in Numerals /\ m[3] \in Contents
  BY <1>1
<1>3. /\ m[1] \in Seq(Characters \ {Bar}) /\ m[3] \in Text /\ m[2] \in Seq(0 .. Base - 1)
      /\ 0 .. Base - 1 \subseteq Characters \ {Bar}
  BY <1>2, PublisherAssumption
<1>4. \A A, B : \A s \in Seq(A) : A \subseteq B => s \in Seq(B)
  OBVIOUS
<1>5. m[2] \in Seq(Characters \ {Bar})
  BY <1>3, <1>4
<1>6. m[1] \in Text /\ m[2] \in Text
  BY <1>3, <1>4, <1>5 DEF Text
<1>7. QED
  BY <1>1, <1>2, <1>3, <1>5, <1>6

(* Where the type, the length and the content of a written message lie. *)
LEMMA WrittenProps ==
  ASSUME NEW m \in WellFormed
  PROVE  /\ Written(m) \in Text
         /\ Len(Written(m)) = Len(m[1]) + Len(m[2]) + 2 + Len(m[3])
         /\ \A j \in 1 .. Len(m[1]) : Written(m)[j] = m[1][j]
         /\ Written(m)[Len(m[1]) + 1] = Bar
         /\ \A j \in 1 .. Len(m[2]) : Written(m)[Len(m[1]) + 1 + j] = m[2][j]
         /\ Written(m)[Len(m[1]) + Len(m[2]) + 2] = Bar
         /\ \A j \in 1 .. Len(m[3]) : Written(m)[Len(m[1]) + Len(m[2]) + 2 + j] = m[3][j]
<1> DEFINE a == m[1]
           b == m[2]
           c == m[3]
           ax == a \o <<Bar>>
           ab == ax \o b
           abb == ab \o <<Bar>>
           abc == abb \o c
<1>1. a \in Text /\ b \in Text /\ c \in Text /\ Bar \in Characters
  BY MessageParts, PublisherAssumption
<1>2. Written(m) = abc
  BY DEF Written, MessageText
<1> HIDE DEF a, b, c
<1>3. Extended(a, Bar, ax)
  BY <1>1, TextAppend
<1> HIDE DEF ax
<1>4. Joined(ax, b, ab)
  BY <1>1, <1>3, TextConcat DEF Extended
<1> HIDE DEF ab
<1>5. Extended(ab, Bar, abb)
  BY <1>1, <1>4, TextAppend DEF Joined
<1> HIDE DEF abb
<1>6. Joined(abb, c, abc)
  BY <1>1, <1>5, TextConcat DEF Extended
<1> HIDE DEF abc
<1> USE DEF Joined, Extended
<1>7. Len(a) \in Nat /\ Len(b) \in Nat /\ Len(c) \in Nat
  BY <1>3, <1>4, <1>6
<1>8. Len(abb) = Len(a) + Len(b) + 2 /\ Len(ab) + 1 = Len(a) + Len(b) + 2
  BY <1>3, <1>4, <1>5, <1>7
<1>9. \A j \in 1 .. Len(a) : abc[j] = a[j]
  <2>1. \A j \in 1 .. Len(a) : j \in 1 .. Len(abb) /\ j \in 1 .. Len(ab) /\ j \in 1 .. Len(a) + 1
    BY <1>3, <1>4, <1>7, <1>8
  <2>2. QED
    BY <2>1, <1>3, <1>4, <1>5, <1>6
<1>10. abc[Len(a) + 1] = Bar
  <2>1. Len(a) + 1 \in 1 .. Len(abb) /\ Len(a) + 1 \in 1 .. Len(ab) /\ Len(a) + 1 \in 1 .. Len(a) + 1
    BY <1>3, <1>4, <1>7, <1>8
  <2>2. QED
    BY <2>1, <1>3, <1>4, <1>5, <1>6
<1>11. \A j \in 1 .. Len(b) : abc[Len(a) + 1 + j] = b[j]
  <2>1. \A j \in 1 .. Len(b) : Len(a) + 1 + j \in 1 .. Len(abb) /\ Len(a) + 1 + j \in 1 .. Len(ab)
    BY <1>3, <1>4, <1>7, <1>8
  <2>2. Len(ax) = Len(a) + 1 /\ \A j \in 1 .. Len(b) : ab[Len(a) + 1 + j] = b[j]
    BY <1>3, <1>4
  <2>3. QED
    BY <2>1, <2>2, <1>5, <1>6
<1>12. abc[Len(a) + Len(b) + 2] = Bar
  <2>1. Len(a) + Len(b) + 2 \in 1 .. Len(abb)
    BY <1>7, <1>8
  <2>2. QED
    BY <2>1, <1>5, <1>6, <1>8
<1>13. /\ Len(abc) = Len(a) + Len(b) + 2 + Len(c)
       /\ \A j \in 1 .. Len(c) : abc[Len(a) + Len(b) + 2 + j] = c[j]
  BY <1>6, <1>8
<1>14. QED
  BY <1>2, <1>6, <1>9, <1>10, <1>11, <1>12, <1>13 DEF a, b, c

(* A written message has a type and is not empty. *)
LEMMA WrittenSize ==
  ASSUME NEW m \in WellFormed
  PROVE  m[1] \in Types /\ Len(Written(m)) \in Nat \ {0}
<1> DEFINE l1 == Len(m[1])
           l2 == Len(m[2])
           l3 == Len(m[3])
<1>1. m[1] \in Types /\ l1 \in Nat /\ l2 \in Nat /\ l3 \in Nat
  BY MessageParts DEF Text
<1>2. Len(Written(m)) = l1 + l2 + 2 + l3
  BY WrittenProps
<1> HIDE DEF l1, l2, l3
<1>3. QED
  BY <1>1, <1>2

(* The texts of the first messages, one after the other. *)
LEMMA TextSteps ==
  ASSUME NEW messages \in Seq(WellFormed)
  PROVE  /\ TextOf(messages)[0] = <<>>
         /\ \A n \in 0 .. Len(messages) : TextOf(messages)[n] \in Text
         /\ \A n \in 1 .. Len(messages) :
              TextOf(messages)[n] = TextOf(messages)[n - 1] \o Written(messages[n])
<1> DEFINE t == TextOf(messages)
           N == Len(messages)
<1>1. N \in Nat
  OBVIOUS
<1>2. t = [k \in 0 .. N |-> IF k = 0 THEN <<>> ELSE t[k - 1] \o Written(messages[k])]
  BY <1>1, TextIsRecursive DEF BeginsText
<1> HIDE DEF t, N
<1>3. \A n \in 0 .. N : t[n] = IF n = 0 THEN <<>> ELSE t[n - 1] \o Written(messages[n])
  BY <1>2
<1>4. t[0] = <<>> /\ \A n \in 1 .. N : t[n] = t[n - 1] \o Written(messages[n])
  <2>1. 0 \in 0 .. N /\ \A n \in 1 .. N : n \in 0 .. N /\ n # 0
    BY <1>1
  <2>2. QED
    BY <1>3, <2>1, Zenon
<1> DEFINE T == {n \in Nat : n <= N => t[n] \in Text}
<1>5. 0 \in T
  <2>1. <<>> \in Text
    BY DEF Text
  <2>2. QED
    BY <1>4, <2>1
<1>6. ASSUME NEW n \in T PROVE n + 1 \in T
  <2>1. SUFFICES ASSUME n + 1 <= N PROVE t[n + 1] \in Text
    OBVIOUS
  <2>2. t[n] \in Text /\ n + 1 \in 1 .. N /\ (n + 1) - 1 = n
    BY <1>1, <2>1
  <2>3. messages[n + 1] \in WellFormed
    BY <2>2 DEF N
  <2>4. Written(messages[n + 1]) \in Text
    BY <2>3, WrittenProps
  <2>5. t[n + 1] = t[n] \o Written(messages[n + 1])
    BY <1>4, <2>2
  <2>6. QED
    BY <2>2, <2>4, <2>5 DEF Text
<1> HIDE DEF T
<1>7. T = Nat
  <2>1. T \in SUBSET Nat
    BY DEF T
  <2>2. QED
    BY <1>5, <1>6, <2>1, NatSetInduction
<1>8. \A n \in 0 .. N : t[n] \in Text
  BY <1>1, <1>7 DEF T
<1>9. QED
  BY <1>4, <1>8 DEF t, N

(* A shorter text is the beginning of a longer one. *)
LEMMA TextBefore ==
  ASSUME NEW messages \in Seq(WellFormed)
  PROVE  \A k \in 0 .. Len(messages) : \A n \in 0 .. k :
           /\ Len(TextOf(messages)[n]) <= Len(TextOf(messages)[k])
           /\ \A j \in 1 .. Len(TextOf(messages)[n]) :
                TextOf(messages)[k][j] = TextOf(messages)[n][j]
<1> DEFINE t == TextOf(messages)
           N == Len(messages)
           In(n, k) == /\ Len(t[n]) <= Len(t[k])
                       /\ \A j \in 1 .. Len(t[n]) : t[k][j] = t[n][j]
           T == {k \in Nat : k <= N => \A n \in 0 .. k : In(n, k)}
<1>1. N \in Nat
  OBVIOUS
<1>2. /\ \A n \in 0 .. N : t[n] \in Text
      /\ \A n \in 1 .. N : t[n] = t[n - 1] \o Written(messages[n])
  BY TextSteps
<1> HIDE DEF t
<1>3. \A n \in 0 .. N : Len(t[n]) \in Nat
  BY <1>2 DEF Text
<1>4. \A n \in 0 .. N : In(n, n)
  BY <1>3
<1>5. 0 \in T
  BY <1>1, <1>4
<1>6. ASSUME NEW k \in T PROVE k + 1 \in T
  <2>1. SUFFICES ASSUME k + 1 <= N, NEW n \in 0 .. k + 1 PROVE In(n, k + 1)
    OBVIOUS
  <2>2. k \in 0 .. N /\ k + 1 \in 1 .. N /\ k + 1 \in 0 .. N /\ (k + 1) - 1 = k /\ k <= N
    BY <1>1, <2>1
  <2>3. CASE n = k + 1
    BY <1>4, <2>2, <2>3
  <2>4. CASE n # k + 1
    <3>1. n \in 0 .. k /\ n \in 0 .. N
      BY <2>2, <2>4
    <3>2. In(n, k)
      BY <2>2, <3>1
    <3>3. messages[k + 1] \in WellFormed
      BY <2>2 DEF N
    <3>4. Written(messages[k + 1]) \in Text
      BY <3>3, WrittenProps
    <3>5. t[k] \in Text /\ t[k + 1] = t[k] \o Written(messages[k + 1])
      BY <1>2, <2>2
    <3>6. /\ Len(t[k + 1]) = Len(t[k]) + Len(Written(messages[k + 1]))
          /\ \A j \in 1 .. Len(t[k]) : t[k + 1][j] = t[k][j]
      <4>1. Joined(t[k], Written(messages[k + 1]), t[k + 1])
        BY <3>4, <3>5, TextConcat
      <4>2. QED
        BY <4>1 DEF Joined
    <3>7. Len(Written(messages[k + 1])) \in Nat
      BY <3>4 DEF Text
    <3>8. Len(t[n]) \in Nat /\ Len(t[k]) \in Nat
      BY <1>3, <2>2, <3>1
    <3>9. \A j \in 1 .. Len(t[n]) : j \in 1 .. Len(t[k])
      BY <3>2, <3>8
    <3>10. Len(t[n]) <= Len(t[k + 1])
      <4>1. Len(t[n]) <= Len(t[k]) /\ Len(t[k + 1]) = Len(t[k]) + Len(Written(messages[k + 1]))
        BY <3>2, <3>6
      <4> DEFINE p == Len(t[n])
                 q == Len(t[k])
                 r == Len(t[k + 1])
                 w == Len(Written(messages[k + 1]))
      <4>2. p \in Nat /\ q \in Nat /\ w \in Nat /\ p <= q /\ r = q + w
        BY <4>1, <3>7, <3>8
      <4> HIDE DEF p, q, r, w
      <4>3. p <= r
        BY <4>2
      <4>4. QED
        BY <4>3 DEF p, r
    <3>11. \A j \in 1 .. Len(t[n]) : t[k + 1][j] = t[n][j]
      BY <3>2, <3>6, <3>9
    <3>12. QED
      BY <3>10, <3>11
  <2>5. QED
    BY <2>3, <2>4
<1> HIDE DEF T
<1>7. T = Nat
  <2>1. T \in SUBSET Nat
    BY DEF T
  <2>2. QED
    BY <1>5, <1>6, <2>1, NatSetInduction
<1>8. \A k \in 0 .. N : \A n \in 0 .. k : In(n, k)
  BY <1>1, <1>7 DEF T
<1>9. QED
  BY <1>8 DEF t, N

(* Where message n + 1 is in the text of all messages. *)
LEMMA Layout ==
  ASSUME NEW messages \in Seq(WellFormed), NEW n \in 0 .. Len(messages)
  PROVE  LET whole == TextOf(messages)[Len(messages)]
             start == Len(TextOf(messages)[n])
             text  == Written(messages[n + 1])
         IN  /\ whole \in Text /\ Len(whole) \in Nat
             /\ start \in Nat /\ start <= Len(whole)
             /\ n < Len(messages) =>
                  /\ Len(TextOf(messages)[n + 1]) = start + Len(text)
                  /\ start + Len(text) <= Len(whole)
                  /\ \A j \in 1 .. Len(text) : whole[start + j] = text[j]
<1> DEFINE t == TextOf(messages)
           N == Len(messages)
           text == Written(messages[n + 1])
<1>1. N \in Nat /\ N \in 0 .. N /\ n \in 0 .. N
  OBVIOUS
<1>2. /\ \A k \in 0 .. N : t[k] \in Text
      /\ \A k \in 1 .. N : t[k] = t[k - 1] \o Written(messages[k])
  BY TextSteps
<1>3. \A k \in 0 .. N : /\ Len(t[k]) <= Len(t[N])
                        /\ \A j \in 1 .. Len(t[k]) : t[N][j] = t[k][j]
  BY <1>1, TextBefore
<1> HIDE DEF t
<1>4. \A k \in 0 .. N : Len(t[k]) \in Nat
  BY <1>2 DEF Text
<1>5. ASSUME n < N
      PROVE  /\ Len(t[n + 1]) = Len(t[n]) + Len(text)
             /\ Len(t[n]) + Len(text) <= Len(t[N])
             /\ \A j \in 1 .. Len(text) : t[N][Len(t[n]) + j] = text[j]
  <2>1. n + 1 \in 1 .. N /\ n + 1 \in 0 .. N /\ (n + 1) - 1 = n
    BY <1>1, <1>5
  <2>2. messages[n + 1] \in WellFormed
    BY <2>1 DEF N
  <2>3. text \in Text /\ Len(text) \in Nat
    <3>1. text \in Text
      BY <2>2, WrittenProps
    <3>2. QED
      BY <3>1 DEF Text
  <2>4. t[n + 1] = t[n] \o text /\ t[n] \in Text
    BY <1>1, <1>2, <2>1
  <2> HIDE DEF text
  <2>5. /\ Len(t[n + 1]) = Len(t[n]) + Len(text)
        /\ \A j \in 1 .. Len(text) : t[n + 1][Len(t[n]) + j] = text[j]
    <3>1. Joined(t[n], text, t[n + 1])
      BY <2>3, <2>4, TextConcat
    <3>2. QED
      BY <3>1 DEF Joined
  <2>6. Len(t[n]) \in Nat
    BY <1>1, <1>4
  <2>7. \A j \in 1 .. Len(text) : Len(t[n]) + j \in 1 .. Len(t[n + 1])
    BY <2>3, <2>5, <2>6
  <2>8. /\ Len(t[n + 1]) <= Len(t[N])
        /\ \A j \in 1 .. Len(t[n + 1]) : t[N][j] = t[n + 1][j]
    BY <1>3, <2>1
  <2>9. QED
    BY <2>5, <2>7, <2>8
<1>6. /\ t[N] \in Text /\ Len(t[N]) \in Nat /\ Len(t[n]) \in Nat /\ Len(t[n]) <= Len(t[N])
  BY <1>1, <1>2, <1>3, <1>4
<1>7. QED
  BY <1>5, <1>6 DEF t, N, text
-------------------------------------------------------------------------------
(***************************************************************************)
(* Reading and parsing                                                     *)
(***************************************************************************)
(* The beginning of a text, and how it grows. *)
LEMMA Beginning ==
  ASSUME NEW t \in Text, NEW n \in 0 .. Len(t)
  PROVE  /\ SubSeq(t, 1, n) \in Text /\ Len(SubSeq(t, 1, n)) = n
         /\ \A j \in 1 .. n : SubSeq(t, 1, n)[j] = t[j]
         /\ SubSeq(t, 1, 0) = <<>>
         /\ SubSeq(t, 1, Len(t)) = t
BY DEF Text

(* Two texts of the same characters are one. *)
LEMMA SameText ==
  ASSUME NEW a \in Text, NEW b \in Text, Len(a) = Len(b), \A j \in 1 .. Len(a) : a[j] = b[j]
  PROVE  a = b
BY DEF Text

(* The first n + 1 characters are the first n and the next. *)
LEMMA BeginningGrows ==
  ASSUME NEW t \in Text, NEW n \in 0 .. Len(t), n < Len(t)
  PROVE  Append(SubSeq(t, 1, n), t[n + 1]) = SubSeq(t, 1, n + 1)
<1> DEFINE a == Append(SubSeq(t, 1, n), t[n + 1])
           b == SubSeq(t, 1, n + 1)
           c == SubSeq(t, 1, n)
<1>1. Len(t) \in Nat /\ n + 1 \in 0 .. Len(t) /\ n + 1 \in 1 .. Len(t) /\ t[n + 1] \in Characters
  BY DEF Text
<1>2. /\ b \in Text /\ Len(b) = n + 1 /\ \A j \in 1 .. n + 1 : b[j] = t[j]
      /\ c \in Text /\ Len(c) = n /\ \A j \in 1 .. n : c[j] = t[j]
  BY <1>1, Beginning
<1>3. Extended(c, t[n + 1], a)
  BY <1>1, <1>2, TextAppend
<1> HIDE DEF a, b, c
<1>4. a \in Text /\ Len(a) = n + 1 /\ a[n + 1] = t[n + 1] /\ \A j \in 1 .. n : a[j] = t[j]
  BY <1>2, <1>3 DEF Extended
<1>5. ASSUME NEW j \in 1 .. n + 1 PROVE a[j] = b[j]
  <2>1. j = n + 1 \/ j \in 1 .. n
    OBVIOUS
  <2>2. QED
    BY <1>2, <1>4, <2>1
<1>6. a = b
  BY <1>2, <1>4, <1>5, SameText
<1>7. QED
  BY <1>6 DEF a, b

(* In bulk: the next n characters of t are those of s behind position p. *)
GrowsBy(t, k, n, s, p) ==
  SubSeq(t, 1, k) \o SubSeq(s, p + 1, p + n) = SubSeq(t, 1, k + n)

(* The same for as many characters as one memcpy takes. *)
LEMMA BeginningGrowsBy ==
  ASSUME NEW t \in Text, NEW k \in Nat, NEW n \in Nat, k + n <= Len(t),
         NEW s \in Text, NEW p \in Nat, p + n <= Len(s),
         \A j \in 1 .. n : s[p + j] = t[k + j]
  PROVE  GrowsBy(t, k, n, s, p)
<1> DEFINE a == SubSeq(t, 1, k)
           b == SubSeq(s, p + 1, p + n)
           c == a \o b
           d == SubSeq(t, 1, k + n)
<1>1. Len(t) \in Nat /\ Len(s) \in Nat /\ k \in 0 .. Len(t) /\ k + n \in 0 .. Len(t)
  BY DEF Text
<1>2. /\ a \in Text /\ Len(a) = k /\ \A j \in 1 .. k : a[j] = t[j]
      /\ d \in Text /\ Len(d) = k + n /\ \A j \in 1 .. k + n : d[j] = t[j]
  BY <1>1, Beginning
<1>3. b \in Text /\ Len(b) = n /\ \A j \in 1 .. n : b[j] = s[p + j]
  <2>1. \A j \in p + 1 .. p + n : s[j] \in Characters
    BY <1>1 DEF Text
  <2>2. /\ b \in Seq(Characters)
        /\ Len(b) = IF p + 1 <= p + n THEN (p + n) - (p + 1) + 1 ELSE 0
        /\ \A j \in 1 .. (p + n) - (p + 1) + 1 : b[j] = s[(p + 1) + j - 1]
    BY <1>1, <2>1, SubSeqProperties DEF Text
  <2>3. (p + n) - (p + 1) + 1 = n /\ \A j \in 1 .. n : (p + 1) + j - 1 = p + j
    OBVIOUS
  <2>4. Len(b) = n
    BY <2>2
  <2>5. QED
    BY <2>2, <2>3, <2>4 DEF Text
<1>4. Joined(a, b, c)
  BY <1>2, <1>3, TextConcat
<1> HIDE DEF a, b, c, d
<1>5. c \in Text /\ Len(c) = k + n
  BY <1>2, <1>3, <1>4 DEF Joined
<1>6. ASSUME NEW j \in 1 .. k + n PROVE c[j] = d[j]
  <2>1. CASE j <= k
    <3>1. j \in 1 .. k
      BY <2>1
    <3>2. QED
      BY <1>2, <1>4, <3>1 DEF Joined
  <2>2. CASE ~(j <= k)
    <3>1. j - k \in 1 .. n /\ k + (j - k) = j
      BY <2>2
    <3>2. c[j] = b[j - k]
      BY <1>2, <1>3, <1>4, <3>1 DEF Joined
    <3>3. b[j - k] = t[j]
      BY <1>3, <3>1
    <3>4. QED
      BY <1>2, <3>2, <3>3
  <2>3. QED
    BY <2>1, <2>2
<1>7. c = d
  BY <1>2, <1>5, <1>6, SameText
<1>8. QED
  BY <1>7 DEF a, b, c, d, GrowsBy

(* The numbers of the text. *)
LEMMA Positions ==
  ASSUME ReadInv, ParserInv
  PROVE  /\ Len(sent) \in Nat /\ parsed \in 0 .. Len(sent) /\ parsed \in Nat
         /\ Whole \in Text /\ Len(Whole) \in Nat
         /\ Len(stream) \in Nat /\ Len(chunk) \in Nat /\ i \in Nat /\ i <= Len(chunk)
         /\ NbRead \in Nat /\ NbRead = Len(Whole) - Len(stream) /\ Len(chunk) <= NbRead
         /\ Position \in Nat /\ Position = NbRead - Len(chunk) + i /\ Position <= Len(Whole)
         /\ Start(parsed) \in Nat
         /\ parsed = Len(sent) => Start(parsed) = Len(Whole)
         /\ parsed < Len(sent) => sent[parsed + 1] \in WellFormed
<1>1. sent \in Seq(WellFormed) /\ parsed \in 0 .. Len(sent)
  BY DEF ParserInv
<1>2. Len(sent) \in Nat /\ parsed \in Nat
  BY <1>1
<1>3. Whole \in Text /\ Len(Whole) \in Nat /\ Start(parsed) \in Nat
  BY <1>1, Layout DEF Whole, Start
<1>4. /\ Len(stream) \in Nat /\ Len(chunk) \in Nat /\ i \in Nat /\ i <= Len(chunk)
      /\ Len(chunk) <= NbRead
  BY DEF ReadInv, Text
<1>5. NbRead = Len(Whole) - Len(stream) /\ Position = NbRead - Len(chunk) + i
  BY DEF NbRead, Position
<1>6. NbRead \in Nat /\ Position \in Nat /\ Position <= Len(Whole)
  BY <1>3, <1>4, <1>5
<1>7. parsed = Len(sent) => Start(parsed) = Len(Whole)
  BY DEF Whole, Start
<1>8. parsed < Len(sent) => sent[parsed + 1] \in WellFormed
  BY <1>1, <1>2
<1>9. QED
  BY <1>1, <1>2, <1>3, <1>4, <1>5, <1>6, <1>7, <1>8

(* While characters are left to parse, there is a message they belong to,  *)
(* and they are its next ones.                                             *)
LEMMA NextCharacters ==
  ASSUME ReadInv, ParserInv, i < Len(chunk)
  PROVE  /\ parsed < Len(sent)
         /\ \A j \in 1 .. Len(chunk) - i :
              /\ chunk[i + j] \in Characters
              /\ Position - Start(parsed) + j \in 1 .. Len(Written(sent[parsed + 1]))
                   => chunk[i + j] = Written(sent[parsed + 1])[Position - Start(parsed) + j]
<1> DEFINE m == sent[parsed + 1]
           s == Start(parsed)
           p == Position
<1>1. /\ Len(sent) \in Nat /\ parsed \in 0 .. Len(sent) /\ parsed \in Nat
      /\ Len(Whole) \in Nat /\ Len(chunk) \in Nat /\ i \in Nat
      /\ NbRead \in Nat /\ Len(chunk) <= NbRead /\ NbRead <= Len(Whole)
      /\ p \in Nat /\ p = NbRead - Len(chunk) + i /\ s \in Nat
      /\ parsed = Len(sent) => s = Len(Whole)
  BY Positions DEF ReadInv
<1>2. parsed < Len(sent)
  <2>1. SUFFICES ASSUME parsed = Len(sent) PROVE FALSE
    BY <1>1
  <2>2. p = s
    BY <2>1 DEF ParserInv, BetweenMessages
  <2>3. p < NbRead
    BY <1>1
  <2>4. QED
    BY <1>1, <2>1, <2>2, <2>3
<1>3. ASSUME NEW j \in 1 .. Len(chunk) - i
      PROVE  chunk[i + j] \in Characters /\ chunk[i + j] = Whole[p + j]
  <2>1. i + j \in 1 .. Len(chunk) /\ NbRead - Len(chunk) + (i + j) = p + j
    BY <1>1
  <2>2. chunk[i + j] = Whole[NbRead - Len(chunk) + (i + j)]
    BY <2>1 DEF ReadInv
  <2>3. chunk[i + j] \in Characters
    BY <2>1 DEF ReadInv, Text
  <2>4. QED
    BY <2>1, <2>2, <2>3
<1>4. \A k \in 1 .. Len(Written(m)) : Whole[s + k] = Written(m)[k]
  BY <1>1, <1>2, Layout DEF ParserInv, Whole, Start
<1> HIDE DEF m, s, p
<1>5. ASSUME NEW j \in 1 .. Len(chunk) - i, p - s + j \in 1 .. Len(Written(m))
      PROVE  chunk[i + j] = Written(m)[p - s + j]
  <2>1. s + (p - s + j) = p + j
    BY <1>1
  <2>2. QED
    BY <1>3, <1>4, <1>5, <2>1
<1>6. QED
  BY <1>2, <1>3, <1>5 DEF m, s, p

(* What was read stays, but i. *)
LEMMA ParsingReads ==
  ASSUME ReadInv, ParserInv, event = "Parse", UNCHANGED readVars, i' \in 0 .. Len(chunk)
  PROVE  ReadInv' /\ Position' = Position + (i' - i) /\ Whole' = Whole
<1>1. event' = event /\ sent' = sent /\ stream' = stream /\ chunk' = chunk
  BY DEF readVars
<1>2. Whole' = Whole /\ NbRead' = NbRead
  BY <1>1 DEF Whole, NbRead
<1>3. ReadInv'
  BY <1>1, <1>2 DEF ReadInv
<1>4. Position' = NbRead - Len(chunk) + i'
  BY <1>1, <1>2 DEF Position
<1>5. QED
  BY <1>2, <1>3, <1>4, Positions

(* A character of the type, or the bar behind it. *)
LEMMA TypeStep ==
  ASSUME ReadInv, ParserInv, event = "Parse", i < Len(chunk), UNCHANGED readVars,
         ParseMessageType
  PROVE  ReadInv' /\ ParserInv' /\ HeldInv'
<1>0. parsed < Len(sent) /\ sent[parsed + 1] \in WellFormed
  BY Positions, NextCharacters
<1>m. PICK m \in WellFormed : m = sent[parsed + 1]
  BY <1>0
<1> DEFINE c == Len(messageType)
           x == chunk[i + 1]
           s == Start(parsed)
           p == Position
           l1 == Len(m[1])
           l2 == Len(m[2])
           l3 == Len(m[3])
<1>1. /\ parsed < Len(sent) /\ parsed \in 0 .. Len(sent) /\ Len(sent) \in Nat
      /\ Len(chunk) \in Nat /\ i \in Nat /\ p \in Nat /\ s \in Nat
  BY Positions, NextCharacters
<1>2. /\ i' = i + 1 /\ sent' = sent /\ parsed' = parsed /\ event' = event /\ chunk' = chunk
      /\ messageLengthBuffer' = messageLengthBuffer /\ messageContent' = messageContent
      /\ messageContentLength' = messageContentLength
      /\ nbContentBytesRead' = nbContentBytesRead
      /\ IF x = Bar THEN parseState' = "messageContentLength" /\ messageType' = messageType
         ELSE messageType' = Append(messageType, x) /\ parseState' = parseState
  BY DEF ParseMessageType, readVars, bufferVars
<1>3. i' \in 0 .. Len(chunk) /\ i' - i = 1
  BY <1>1, <1>2
<1>4. ReadInv' /\ Position' = p + 1
  BY <1>2, <1>3, ParsingReads
<1>5. Start(parsed)' = s
  BY <1>2 DEF Start
<1>6. InType(m)
  BY <1>1, <1>m DEF ParserInv, ParseMessageType
<1>7. /\ m[1] \in Text /\ m[1] \in Seq(Characters \ {Bar}) /\ m[2] \in Text
      /\ l1 \in Nat /\ l2 \in Nat /\ l3 \in Nat
  BY <1>1, MessageParts DEF Text
<1>8. /\ messageType \in Text /\ c \in Nat /\ c <= l1 /\ c \in 0 .. l1
      /\ messageType = SubSeq(m[1], 1, c) /\ p = s + c
      /\ messageLengthBuffer = <<>> /\ NoContentYet
  BY <1>6, <1>7 DEF ParserInv, InType, Text
<1>9. /\ Len(Written(m)) = l1 + l2 + 2 + l3
      /\ \A j \in 1 .. l1 : Written(m)[j] = m[1][j]
      /\ Written(m)[l1 + 1] = Bar
  BY <1>1, WrittenProps
<1> HIDE DEF s, p, c, x, l1, l2, l3
<1>10. x \in Characters /\ x = Written(m)[c + 1]
  <2>1. 1 \in 1 .. Len(chunk) - i /\ p - s + 1 = c + 1 /\ c + 1 \in 1 .. Len(Written(m))
    BY <1>1, <1>7, <1>8, <1>9
  <2>2. QED
    BY <1>m, <2>1, NextCharacters DEF x, s, p
<1>x. sent'[parsed' + 1] = m /\ parsed' < Len(sent') /\ sent' \in Seq(WellFormed) /\ Len(sent') <= MaxMessages
  BY <1>1, <1>2, <1>m DEF ParserInv
<1>11. NoContentYet'
  BY <1>2, <1>8 DEF NoContentYet
<1>12. ASSUME c < l1
       PROVE  ParserInv' /\ HeldInv'
  <2>1. c + 1 \in 1 .. l1
    BY <1>7, <1>8, <1>12
  <2>2. x = m[1][c + 1] /\ m[1][c + 1] \in Characters \ {Bar}
    <3>1. m[1][c + 1] \in Characters \ {Bar}
      BY <1>7, <2>1 DEF l1
    <3>2. QED
      BY <1>9, <1>10, <2>1, <3>1
  <2>3. messageType' = Append(messageType, m[1][c + 1]) /\ parseState' = parseState
    BY <1>2, <2>2
  <2>4. messageType' = SubSeq(m[1], 1, c + 1)
    BY <1>7, <1>8, <1>12, <2>3, BeginningGrows DEF l1, l2, l3
  <2>5. c + 1 \in 0 .. l1
    BY <2>1, <1>7
  <2>6. messageType' \in Text /\ Len(messageType') = c + 1
    BY <1>7, <2>4, <2>5, Beginning DEF l1, l2, l3
  <2>7. messageType' # <<>>
    BY <1>8, <2>6
  <2>8. HeldInv'
    BY <2>7 DEF HeldInv
  <2>9. Position' = s + Len(messageType') /\ Len(messageType') <= l1
    BY <1>1, <1>4, <1>7, <1>8, <2>1, <2>6
  <2>10. parseState' = "messageType"
    BY <2>3 DEF ParseMessageType
  <2>11. QED
    BY <1>x, <1>1, <1>2, <1>5, <1>8, <1>11, <2>4, <2>6, <2>8, <2>9, <2>10 DEF ParserInv, InType, s, l1
<1>13. ASSUME c = l1
       PROVE  ParserInv' /\ HeldInv'
  <2>1. x = Bar
    BY <1>9, <1>10, <1>13
  <2>2. parseState' = "messageContentLength" /\ messageType' = messageType
    BY <1>2, <2>1
  <2>3. messageType' = m[1]
    BY <1>7, <1>8, <1>13, <2>2, Beginning DEF l1, l2, l3
  <2>4. /\ messageLengthBuffer' = <<>> /\ Len(messageLengthBuffer') = 0
        /\ SubSeq(m[2], 1, 0) = <<>> /\ messageLengthBuffer' \in Text /\ 0 <= l2
    <3>1. 0 \in 0 .. l2
      BY <1>7
    <3>2. QED
      BY <1>2, <1>7, <1>8, <3>1, Beginning DEF Text, l1, l2, l3
  <2>5. Position' = s + l1 + 1 + Len(messageLengthBuffer')
    BY <1>1, <1>4, <1>7, <1>8, <1>13, <2>4
  <2>6. HeldInv'
    BY <2>2 DEF HeldInv
  <2>7. InLength(m)'
    BY <1>2, <1>5, <1>11, <2>3, <2>4, <2>5 DEF InLength, s, l1, l2
  <2>8. QED
    BY <1>x, <1>1, <1>2, <1>7, <1>8, <2>2, <2>3, <2>4, <2>6, <2>7 DEF ParserInv
<1>14. QED
  BY <1>4, <1>7, <1>8, <1>12, <1>13

(* A digit of the length, or the bar behind it. *)
LEMMA LengthStep ==
  ASSUME ReadInv, ParserInv, event = "Parse", i < Len(chunk), UNCHANGED readVars,
         ParseContentLength
  PROVE  ReadInv' /\ ParserInv' /\ HeldInv'
<1>0. parsed < Len(sent) /\ sent[parsed + 1] \in WellFormed
  BY Positions, NextCharacters
<1>m. PICK m \in WellFormed : m = sent[parsed + 1]
  BY <1>0
<1> DEFINE c == Len(messageLengthBuffer)
           x == chunk[i + 1]
           s == Start(parsed)
           p == Position
           l1 == Len(m[1])
           l2 == Len(m[2])
           l3 == Len(m[3])
<1>1. /\ parsed < Len(sent) /\ parsed \in 0 .. Len(sent) /\ Len(sent) \in Nat
      /\ Len(chunk) \in Nat /\ i \in Nat /\ p \in Nat /\ s \in Nat
  BY Positions, NextCharacters
<1>2. /\ i' = i + 1 /\ sent' = sent /\ parsed' = parsed /\ event' = event /\ chunk' = chunk
      /\ messageType' = messageType /\ messageContent' = messageContent
      /\ nbContentBytesRead' = nbContentBytesRead
      /\ IF x = Bar
         THEN /\ messageContentLength' = StoUL(messageLengthBuffer)
              /\ parseState' = "messageContent"
              /\ messageLengthBuffer' = messageLengthBuffer
         ELSE /\ messageLengthBuffer' = Append(messageLengthBuffer, x)
              /\ messageContentLength' = messageContentLength
              /\ parseState' = parseState
  BY DEF ParseContentLength, readVars, bufferVars
<1>3. i' \in 0 .. Len(chunk) /\ i' - i = 1
  BY <1>1, <1>2
<1>4. ReadInv' /\ Position' = p + 1
  BY <1>2, <1>3, ParsingReads
<1>5. Start(parsed)' = s
  BY <1>2 DEF Start
<1>6. InLength(m) /\ parseState = "messageContentLength"
  BY <1>1, <1>m DEF ParserInv, ParseContentLength
<1>7. /\ m[1] \in Text /\ m[2] \in Text /\ m[2] \in Seq(Characters \ {Bar}) /\ m[3] \in Text
      /\ l1 \in Nat /\ l2 \in Nat /\ l3 \in Nat /\ StoUL(m[2]) = l3
  BY <1>1, MessageParts DEF Text
<1>8. /\ messageLengthBuffer \in Text /\ c \in Nat /\ c <= l2 /\ c \in 0 .. l2
      /\ messageLengthBuffer = SubSeq(m[2], 1, c) /\ p = s + l1 + 1 + c
      /\ messageType = m[1] /\ NoContentYet
  BY <1>6, <1>7 DEF ParserInv, InLength, Text
<1>9. /\ Len(Written(m)) = l1 + l2 + 2 + l3
      /\ \A j \in 1 .. l2 : Written(m)[l1 + 1 + j] = m[2][j]
      /\ Written(m)[l1 + l2 + 2] = Bar
  BY <1>1, WrittenProps
<1> HIDE DEF s, p, c, x, l1, l2, l3
<1>10. x \in Characters /\ x = Written(m)[l1 + 1 + (c + 1)]
  <2>1. /\ 1 \in 1 .. Len(chunk) - i /\ p - s + 1 = l1 + 1 + (c + 1)
        /\ l1 + 1 + (c + 1) \in 1 .. Len(Written(m))
    BY <1>1, <1>7, <1>8, <1>9
  <2>2. QED
    BY <1>m, <2>1, NextCharacters DEF x, s, p
<1>x. sent'[parsed' + 1] = m /\ parsed' < Len(sent') /\ sent' \in Seq(WellFormed) /\ Len(sent') <= MaxMessages
  BY <1>1, <1>2, <1>m DEF ParserInv
<1>11. HeldInv'
  BY <1>2, <1>6 DEF HeldInv
<1>12. ASSUME c < l2
       PROVE  ParserInv'
  <2>1. c + 1 \in 1 .. l2
    BY <1>7, <1>8, <1>12
  <2>2. x = m[2][c + 1] /\ m[2][c + 1] \in Characters \ {Bar}
    <3>1. m[2][c + 1] \in Characters \ {Bar}
      BY <1>7, <2>1 DEF l2
    <3>2. QED
      BY <1>9, <1>10, <2>1, <3>1
  <2>3. /\ messageLengthBuffer' = Append(messageLengthBuffer, m[2][c + 1])
        /\ parseState' = "messageContentLength" /\ messageContentLength' = messageContentLength
    BY <1>2, <1>6, <2>2
  <2>4. messageLengthBuffer' = SubSeq(m[2], 1, c + 1)
    BY <1>7, <1>8, <1>12, <2>3, BeginningGrows DEF l1, l2, l3
  <2>5. c + 1 \in 0 .. l2
    BY <2>1, <1>7
  <2>6. messageLengthBuffer' \in Text /\ Len(messageLengthBuffer') = c + 1
    BY <1>7, <2>4, <2>5, Beginning DEF l1, l2, l3
  <2>7. /\ Position' = s + l1 + 1 + Len(messageLengthBuffer')
        /\ Len(messageLengthBuffer') <= l2
    BY <1>1, <1>4, <1>7, <1>8, <2>1, <2>6
  <2>8. NoContentYet'
    BY <1>2, <1>8, <2>3 DEF NoContentYet
  <2>9. InLength(m)'
    BY <1>2, <1>5, <1>8, <2>4, <2>6, <2>7, <2>8 DEF InLength, s, l1, l2
  <2>10. QED
    BY <1>x, <1>1, <1>2, <2>3, <2>6, <2>9 DEF ParserInv
<1>13. ASSUME c = l2
       PROVE  ParserInv'
  <2>1. x = Bar
    <3>1. l1 + 1 + (c + 1) = l1 + l2 + 2
      BY <1>7, <1>13
    <3>2. QED
      BY <1>9, <1>10, <3>1
  <2>2. /\ messageContentLength' = StoUL(messageLengthBuffer)
        /\ parseState' = "messageContent" /\ messageLengthBuffer' = messageLengthBuffer
    BY <1>2, <2>1
  <2>3. messageLengthBuffer' = m[2] /\ messageLengthBuffer = m[2]
    BY <1>7, <1>8, <1>13, <2>2, Beginning DEF l1, l2, l3
  <2>4. messageContentLength' = l3
    BY <1>7, <2>2, <2>3
  <2>5. /\ nbContentBytesRead' = 0 /\ messageContent' = <<>> /\ SubSeq(m[3], 1, 0) = <<>>
        /\ nbContentBytesRead' \in 0 .. l3
    <3>1. 0 \in 0 .. l3
      BY <1>7
    <3>2. QED
      BY <1>2, <1>7, <1>8, <3>1, Beginning DEF NoContentYet, l1, l2, l3
  <2>6. nbContentBytesRead' = l3 => m[3] = <<>>
    BY <1>7, <2>5 DEF Text, l3
  <2>7. Position' = s + l1 + l2 + 2 + nbContentBytesRead'
    BY <1>1, <1>4, <1>7, <1>8, <1>13, <2>5
  <2>8. InContent(m)'
    BY <1>2, <1>5, <1>8, <2>3, <2>4, <2>5, <2>6, <2>7 DEF InContent, s, l1, l2, l3
  <2>9. QED
    BY <1>x, <1>1, <1>2, <1>7, <2>2, <2>3, <2>5, <2>8 DEF ParserInv
<1>14. QED
  BY <1>4, <1>7, <1>8, <1>11, <1>12, <1>13

(* How much ParseContent takes of a content. *)
Taken == IF i + NbCharsNeeded <= Len(chunk) THEN NbCharsNeeded ELSE Len(chunk) - i
ContentSoFar == messageContent \o SubSeq(chunk, i + 1, i + Taken)

(* The content goes on or is complete with the characters taken. *)
LEMMA ParseContentCases ==
  ASSUME ParseContent
  PROVE  /\ parseState = "messageContent" /\ i' = i + Taken
         /\ \/ /\ nbContentBytesRead + Taken = messageContentLength
               /\ CompleteMessage(ContentSoFar, EndsChunk(Taken))
            \/ /\ nbContentBytesRead + Taken # messageContentLength
               /\ messageContent' = ContentSoFar
               /\ nbContentBytesRead' = nbContentBytesRead + Taken
               /\ UNCHANGED <<parseState, messageType, messageLengthBuffer,
                              messageContentLength, texts, bufferVars>>
BY DEF ParseContent, Taken, ContentSoFar

(* What is taken is the next part of the content of the message. *)
LEMMA ContentTaken ==
  ASSUME ReadInv, ParserInv, i < Len(chunk), parseState = "messageContent",
         NEW m \in WellFormed, m = sent[parsed + 1]
  PROVE  /\ InContent(m)
         /\ Taken \in Nat /\ i + Taken <= Len(chunk)
         /\ nbContentBytesRead \in Nat /\ nbContentBytesRead + Taken <= Len(m[3])
         /\ ContentSoFar = SubSeq(m[3], 1, nbContentBytesRead + Taken)
<1> DEFINE s == Start(parsed)
           p == Position
           l1 == Len(m[1])
           l2 == Len(m[2])
           l3 == Len(m[3])
           nb == nbContentBytesRead
           n == Taken
<1>1. /\ parsed < Len(sent) /\ parsed \in 0 .. Len(sent) /\ Len(sent) \in Nat
      /\ Len(chunk) \in Nat /\ i \in Nat /\ p \in Nat /\ s \in Nat /\ chunk \in Text
  BY Positions, NextCharacters DEF ReadInv
<1>2. InContent(m)
  BY <1>1 DEF ParserInv
<1>3. /\ m[3] \in Text /\ l1 \in Nat /\ l2 \in Nat /\ l3 \in Nat
  BY MessageParts, SMTT(30) DEF Text
<1>4. /\ nb \in Nat /\ nb <= l3 /\ messageContentLength = l3
      /\ messageContent = SubSeq(m[3], 1, nb) /\ p = s + l1 + l2 + 2 + nb
  BY <1>2, <1>3 DEF InContent
<1>5. /\ Len(Written(m)) = l1 + l2 + 2 + l3
      /\ \A j \in 1 .. l3 : Written(m)[l1 + l2 + 2 + j] = m[3][j]
  BY WrittenProps
<1>6. n = IF i + (l3 - nb) <= Len(chunk) THEN l3 - nb ELSE Len(chunk) - i
  BY <1>4 DEF Taken, NbCharsNeeded
<1> HIDE DEF s, p, l1, l2, l3, nb, n
<1>7. n \in Nat /\ i + n <= Len(chunk) /\ nb + n <= l3
  BY <1>1, <1>3, <1>4, <1>6
<1>8. ASSUME NEW j \in 1 .. n PROVE chunk[i + j] = m[3][nb + j]
  <2>1. /\ j \in 1 .. Len(chunk) - i /\ nb + j \in 1 .. l3
        /\ p - s + j = l1 + l2 + 2 + (nb + j)
        /\ l1 + l2 + 2 + (nb + j) \in 1 .. Len(Written(m))
    BY <1>1, <1>3, <1>4, <1>5, <1>7
  <2>2. chunk[i + j] = Written(m)[p - s + j]
    BY <2>1, NextCharacters DEF s, p
  <2>3. QED
    BY <1>5, <2>1, <2>2
<1>9. SubSeq(m[3], 1, nb) \o SubSeq(chunk, i + 1, i + n) = SubSeq(m[3], 1, nb + n)
  <2> DEFINE t == m[3]
  <2>1. /\ t \in Text /\ nb \in Nat /\ n \in Nat /\ nb + n <= Len(t)
        /\ chunk \in Text /\ i \in Nat /\ i + n <= Len(chunk)
    BY <1>1, <1>3, <1>4, <1>7 DEF l3
  <2>2. \A j \in 1 .. n : chunk[i + j] = t[nb + j]
    BY <1>8
  <2> HIDE DEF t
  <2>3. GrowsBy(t, nb, n, chunk, i)
    BY <2>1, <2>2, BeginningGrowsBy
  <2>4. QED
    BY <2>3 DEF t, GrowsBy
<1>10. QED
  BY <1>2, <1>4, <1>7, <1>9 DEF ContentSoFar, nb, n, l3

(* Part of a content. *)
LEMMA PartStep ==
  ASSUME ReadInv, ParserInv, event = "Parse", i < Len(chunk), UNCHANGED readVars,
         ParseContent, nbContentBytesRead + Taken # messageContentLength
  PROVE  ReadInv' /\ ParserInv' /\ HeldInv' /\ UNCHANGED <<texts, bufferVars>>
<1>1. /\ parsed < Len(sent) /\ parsed \in 0 .. Len(sent) /\ Len(sent) \in Nat
      /\ Len(chunk) \in Nat /\ i \in Nat /\ Position \in Nat /\ Start(parsed) \in Nat
  BY Positions, NextCharacters
<1>2. PICK m \in WellFormed : m = sent[parsed + 1]
  BY <1>1, Positions
<1>3. /\ parseState = "messageContent" /\ i' = i + Taken
      /\ messageContent' = ContentSoFar
      /\ nbContentBytesRead' = nbContentBytesRead + Taken
      /\ parseState' = parseState /\ messageType' = messageType
      /\ messageLengthBuffer' = messageLengthBuffer
      /\ messageContentLength' = messageContentLength
      /\ UNCHANGED <<texts, bufferVars>> /\ parsed' = parsed
      /\ sent' = sent /\ event' = event /\ chunk' = chunk
  BY ParseContentCases DEF CompleteMessage, readVars, bufferVars
<1>4. /\ InContent(m)
      /\ Taken \in Nat /\ i + Taken <= Len(chunk)
      /\ nbContentBytesRead \in Nat /\ nbContentBytesRead + Taken <= Len(m[3])
      /\ ContentSoFar = SubSeq(m[3], 1, nbContentBytesRead + Taken)
  BY <1>1, <1>2, <1>3, ContentTaken
<1>5. i' \in 0 .. Len(chunk) /\ i' - i = Taken
  BY <1>1, <1>3, <1>4
<1>6. ReadInv' /\ Position' = Position + Taken
  BY <1>3, <1>5, ParsingReads
<1>7. Start(parsed)' = Start(parsed)
  BY <1>3 DEF Start
<1>8. m[3] \in Text /\ Len(m[1]) \in Nat /\ Len(m[2]) \in Nat /\ Len(m[3]) \in Nat
  BY MessageParts DEF Text
<1>9. /\ nbContentBytesRead' \in 0 .. Len(m[3]) /\ nbContentBytesRead' # Len(m[3])
      /\ messageContent' = SubSeq(m[3], 1, nbContentBytesRead') /\ messageContent' \in Text
  <2>1. nbContentBytesRead' \in 0 .. Len(m[3])
    BY <1>3, <1>4, <1>8
  <2>2. SubSeq(m[3], 1, nbContentBytesRead') \in Text
    BY <1>8, <2>1, Beginning
  <2>3. nbContentBytesRead' # Len(m[3])
    BY <1>3, <1>4 DEF InContent
  <2>4. QED
    BY <1>3, <1>4, <2>1, <2>2, <2>3
<1>10. Position' = Start(parsed) + Len(m[1]) + Len(m[2]) + 2 + nbContentBytesRead'
  <2> DEFINE l1 == Len(m[1])
             l2 == Len(m[2])
             s  == Start(parsed)
             p  == Position
             n  == Taken
             nb == nbContentBytesRead
  <2>1. /\ p = s + l1 + l2 + 2 + nb
        /\ l1 \in Nat /\ l2 \in Nat /\ s \in Nat /\ n \in Nat /\ nb \in Nat
    BY <1>1, <1>4, <1>8 DEF InContent
  <2>2. Position' = p + n /\ nbContentBytesRead' = nb + n
    BY <1>3, <1>6
  <2> HIDE DEF l1, l2, s, p, n, nb
  <2>3. p + n = s + l1 + l2 + 2 + (nb + n)
    BY <2>1
  <2>4. Position' = s + l1 + l2 + 2 + nbContentBytesRead'
    BY <2>2, <2>3
  <2>5. QED
    BY <2>4 DEF l1, l2, s
<1>11. InContent(m)'
  BY <1>3, <1>4, <1>7, <1>9, <1>10 DEF InContent
<1>12. HeldInv'
  BY <1>3 DEF HeldInv
<1>13. ParserInv'
  BY <1>1, <1>2, <1>3, <1>9, <1>11 DEF ParserInv
<1>14. QED
  BY <1>3, <1>6, <1>12, <1>13

(* The end of a message: the parser starts again, behind it. *)
LEMMA CompleteStep ==
  ASSUME ReadInv, ParserInv, ParsedAsWritten, event = "Parse", i < Len(chunk),
         UNCHANGED readVars,
         ParseContent, nbContentBytesRead + Taken = messageContentLength
  PROVE  /\ ReadInv' /\ ParserInv' /\ ParsedAsWritten' /\ HeldInv'
         /\ parsed < Len(sent) /\ sent[parsed + 1] \in WellFormed
         /\ \E endsChunk \in BOOLEAN :
              CollectMessage(sent[parsed + 1][1], Len(Written(sent[parsed + 1])), endsChunk)
<1>1. /\ parsed < Len(sent) /\ parsed \in 0 .. Len(sent) /\ parsed \in Nat /\ Len(sent) \in Nat
      /\ Len(chunk) \in Nat /\ i \in Nat /\ Position \in Nat /\ Start(parsed) \in Nat
  BY Positions, NextCharacters
<1>2. PICK m \in WellFormed : m = sent[parsed + 1]
  BY <1>1, Positions
<1>3. /\ parseState = "messageContent" /\ i' = i + Taken
      /\ CompleteMessage(ContentSoFar, EndsChunk(Taken))
      /\ sent' = sent /\ event' = event /\ chunk' = chunk
  BY ParseContentCases DEF readVars
<1>4. /\ InContent(m)
      /\ Taken \in Nat /\ i + Taken <= Len(chunk)
      /\ nbContentBytesRead \in Nat /\ nbContentBytesRead + Taken <= Len(m[3])
      /\ ContentSoFar = SubSeq(m[3], 1, nbContentBytesRead + Taken)
  BY <1>1, <1>2, <1>3, ContentTaken
<1>5. i' \in 0 .. Len(chunk) /\ i' - i = Taken
  BY <1>1, <1>3, <1>4
<1>6. ReadInv' /\ Position' = Position + Taken
  BY <1>3, <1>5, ParsingReads
<1>7. /\ m[1] \in Text /\ m[2] \in Text /\ m[3] \in Text
      /\ Len(m[1]) \in Nat /\ Len(m[2]) \in Nat /\ Len(m[3]) \in Nat
  BY MessageParts DEF Text
<1>8. /\ messageType = m[1] /\ messageLengthBuffer = m[2]
      /\ nbContentBytesRead + Taken = Len(m[3])
      /\ Position = Start(parsed) + Len(m[1]) + Len(m[2]) + 2 + nbContentBytesRead
  BY <1>4 DEF InContent
<1>9. ContentSoFar = m[3]
  <2>1. Len(m[3]) \in 0 .. Len(m[3])
    BY <1>7
  <2>2. QED
    BY <1>4, <1>7, <1>8, <2>1, Beginning
<1>10. MessageText(messageType, messageLengthBuffer, ContentSoFar) = Written(m)
  BY <1>8, <1>9 DEF Written
<1>11. /\ texts' = Append(texts, Written(m)) /\ ResetParser
       /\ CollectMessage(m[1], Len(Written(m)), EndsChunk(Taken))
       /\ parsed' = parsed + 1
  BY <1>3, <1>8, <1>10 DEF CompleteMessage, CollectMessage
<1>12. ParsedAsWritten'
  <2>1. texts = [k \in 1 .. parsed |-> Written(sent[k])]
    BY DEF ParsedAsWritten
  <2>2. Append(texts, Written(m)) = [k \in 1 .. parsed + 1 |-> Written(sent[k])]
    <3> DEFINE w(k) == Written(sent[k])
    <3>1. w(parsed + 1) = Written(m)
      BY <1>2
    <3>2. texts = [k \in 1 .. parsed |-> w(k)]
      BY <2>1
    <3> HIDE DEF w
    <3>3. Append(texts, w(parsed + 1)) = [k \in 1 .. parsed + 1 |-> w(k)]
      BY <1>1, <3>2
    <3>4. QED
      BY <3>1, <3>3 DEF w
  <2>3. QED
    BY <1>3, <1>11, <2>2 DEF ParsedAsWritten
<1>13. Position' = Start(parsed + 1)
  <2> DEFINE l1 == Len(m[1])
             l2 == Len(m[2])
             l3 == Len(m[3])
             s  == Start(parsed)
             p  == Position
             n  == Taken
             nb == nbContentBytesRead
  <2>1. Start(parsed + 1) = s + Len(Written(m))
    BY <1>1, <1>2, Layout DEF ParserInv, Start
  <2>2. Len(Written(m)) = l1 + l2 + 2 + l3
    BY WrittenProps
  <2>3. /\ p = s + l1 + l2 + 2 + nb /\ nb + n = l3 /\ Position' = p + n
        /\ l1 \in Nat /\ l2 \in Nat /\ l3 \in Nat /\ s \in Nat /\ n \in Nat /\ nb \in Nat
    BY <1>1, <1>4, <1>6, <1>7, <1>8
  <2> HIDE DEF l1, l2, l3, s, p, n, nb
  <2>4. p + n = s + (l1 + l2 + 2 + l3)
    BY <2>3
  <2>5. QED
    BY <2>1, <2>2, <2>3, <2>4
<1>14. Start(parsed)' = Start(parsed + 1)
  BY <1>3, <1>11 DEF Start
<1>15. BetweenMessages'
  BY <1>11, <1>13, <1>14 DEF BetweenMessages, ResetParser, NoContentYet
<1>16. ParserInv'
  <2>1. /\ sent' \in Seq(WellFormed) /\ Len(sent') <= MaxMessages /\ parsed' \in 0 .. Len(sent')
        /\ messageType' = <<>> /\ messageLengthBuffer' = <<>> /\ messageContent' = <<>>
        /\ <<>> \in Text
    BY <1>1, <1>3, <1>11, <1>15 DEF ParserInv, BetweenMessages, NoContentYet, Text
  <2>2. CASE parsed' = Len(sent')
    BY <1>15, <2>1, <2>2 DEF ParserInv
  <2>3. CASE parsed' # Len(sent')
    <3>1. PICK q \in WellFormed : q = sent'[parsed' + 1]
      BY <1>1, <2>1, <2>3
    <3>2. q[1] \in Text /\ 0 \in 0 .. Len(q[1])
      BY MessageParts DEF Text
    <3>3. Len(messageType') = 0 /\ 0 <= Len(q[1]) /\ SubSeq(q[1], 1, 0) = <<>>
      BY <2>1, <3>2, Beginning
    <3>4. Position' = Start(parsed)' + Len(messageType')
      BY <1>6, <1>1, <1>4, <1>13, <1>14, <3>3, SMTT(30)
    <3>5. InType(q)'
      BY <1>15, <2>1, <3>3, <3>4 DEF InType, BetweenMessages
    <3>6. QED
      BY <1>15, <2>1, <2>3, <3>1, <3>5 DEF ParserInv, BetweenMessages
  <2>4. QED
    BY <2>2, <2>3
<1>17. HeldInv'
  <2>1. SUFFICES ASSUME i' = Len(chunk') PROVE currentBatch'.messages = <<>>
    BY DEF HeldInv
  <2>2. EndsChunk(Taken)
    BY <1>3, <2>1 DEF EndsChunk
  <2>3. currentBatch' = ClearForNextMessage(Moved)
    BY <1>11, <2>2 DEF CollectMessage
  <2>4. QED
    BY <2>3 DEF ClearForNextMessage, Moved
<1>18. EndsChunk(Taken) \in BOOLEAN
  BY DEF EndsChunk
<1>19. QED
  BY <1>1, <1>2, <1>6, <1>11, <1>12, <1>16, <1>17, <1>18
-------------------------------------------------------------------------------
(***************************************************************************)
(* Batching                                                                *)
(***************************************************************************)
(* What append adds to the messages of a batch, if it adds anything. *)
LEMMA MessagesAppended ==
  ASSUME NEW b \in Buffer, NEW x \in Message
  PROVE  AppendTo(b, x).messages \in {b.messages, Append(b.messages, x)}
<1>1. CASE Refuses(b)
  BY <1>1 DEF AppendTo
<1>2. CASE ~Refuses(b)
  <2> DEFINE g == Grow(b, x.size, x.size)
  <2>1. g.messages = b.messages /\ g = [g EXCEPT !.messages = b.messages]
    BY DEF Grow, Buffer
  <2>2. AppendTo(b, x) = [g EXCEPT !.bufferLength = g.bufferLength + x.size,
                                   !.messages = Append(b.messages, x)]
    BY <1>2, <2>1 DEF AppendTo
  <2>3. DOMAIN g = {"messageType", "messages", "allocated", "maxLength",
                    "bufferLength", "bufferPosition"}
    BY DEF Grow, Buffer
  <2> HIDE DEF g
  <2>4. AppendTo(b, x).messages = Append(b.messages, x)
    BY <2>2, <2>3
  <2>5. QED
    BY <2>4
<1>3. QED
  BY <1>1, <1>2

(* What CollectMessage does to the batches: those before place n are as    *)
(* they were, the one at n has perhaps the message x at its end, and there *)
(* are no messages behind it.                                              *)
CollectedInto(old, new, n, x) ==
  /\ n \in 1 .. Len(old) + 1 /\ n >= Len(old) /\ n \in DOMAIN new
  /\ \A k \in 1 .. n - 1 : k \in DOMAIN old /\ new[k] = old[k]
  /\ \/ n = Len(old) + 1 /\ new[n].messages \in {<<x>>, <<>>}
     \/ n = Len(old) /\ new[n].messages \in {old[n].messages, Append(old[n].messages, x)}
  /\ \A k \in DOMAIN new : k > n => new[k].messages = <<>>

(* collectMessage puts the message at the end of what is held and queued,  *)
(* in one or two batches.                                                  *)
LEMMA CollectedBatches ==
  ASSUME BufferInv, NEW t \in Types, NEW size \in Nat \ {0}, NEW endsChunk \in BOOLEAN,
         CollectMessage(t, size, endsChunk)
  PROVE  /\ Batches \in Seq(Buffer) /\ Len(Batches) = Len(queue) + 1
         /\ Batches' \in Seq(Buffer)
         /\ \E n \in Nat : CollectedInto(Batches, Batches', n,
                                     [id |-> parsed + 1, type |-> t, size |-> size])
         /\ Len(queue') <= Len(queue) + 2
<1> DEFINE x       == [id |-> parsed + 1, type |-> t, size |-> size]
           ends    == EndsBatch(t)
           flushed == IF ends THEN Append(queue, currentBatch) ELSE queue
           start   == SetMessageType(BatchFor(t), t)
           batch   == AppendTo(start, x)
           empty   == ClearForNextMessage(Moved)
           N       == Len(queue)
<1>1. /\ parsed \in Nat /\ queue \in Seq(Buffer) /\ currentBatch \in Buffer /\ N \in Nat
      /\ Batches = Append(queue, currentBatch)
  BY DEF BufferInv, Unread, Good, Batches
<1>2. x \in Message
  BY <1>1 DEF Message
<1>3. /\ queue' = IF endsChunk THEN Append(flushed, batch) ELSE flushed
      /\ currentBatch' = IF endsChunk THEN empty ELSE batch
  BY DEF CollectMessage
<1>4. empty \in Buffer /\ empty.messages = <<>>
  BY NewBuffers DEF Unread, Good, ClearForNextMessage, Moved
<1>5. /\ start \in Buffer
      /\ start.messages = IF ends THEN <<>> ELSE currentBatch.messages
  <2>1. BatchFor(t) \in Buffer /\ BatchFor(t).messages = IF ends THEN <<>> ELSE currentBatch.messages
    BY <1>1, <1>4 DEF BatchFor
  <2>2. QED
    BY <2>1 DEF SetMessageType, Buffer
<1>6. batch \in Buffer
  <2>1. BufferInv'
    BY CollectStep
  <2>2. CASE endsChunk
    <3>1. flushed \in Seq(Buffer)
      BY <1>1
    <3> HIDE DEF flushed, batch
    <3>2. Append(flushed, batch) \in Seq(Buffer)
      BY <1>3, <2>1, <2>2 DEF BufferInv
    <3>3. Len(flushed) + 1 \in DOMAIN Append(flushed, batch) /\ Append(flushed, batch)[Len(flushed) + 1] = batch
      BY <3>1
    <3>4. QED
      BY <3>2, <3>3
  <2>3. CASE ~endsChunk
    BY <1>3, <2>1, <2>3 DEF BufferInv, Unread, Good
  <2>4. QED
    BY <2>2, <2>3
<1>7. batch.messages \in {start.messages, Append(start.messages, x)}
  BY <1>2, <1>5, MessagesAppended
<1> HIDE DEF x, ends, start, batch, empty
<1>8. /\ flushed \in Seq(Buffer) /\ Len(flushed) = IF ends THEN N + 1 ELSE N
      /\ \A k \in 1 .. N : flushed[k] = queue[k]
      /\ ends => flushed[N + 1] = currentBatch
  BY <1>1
<1>9. /\ Batches \in Seq(Buffer) /\ Len(Batches) = N + 1
      /\ \A k \in 1 .. N : Batches[k] = queue[k]
      /\ Batches[N + 1] = currentBatch
  BY <1>1
<1> DEFINE n == Len(flushed) + 1
<1> HIDE DEF flushed
<1>10. Len(flushed) \in Nat
  BY <1>8
<1>11. /\ Batches' \in Seq(Buffer) /\ n \in 1 .. Len(Batches')
       /\ \A k \in 1 .. n - 1 : Batches'[k] = flushed[k]
       /\ Batches'[n] = batch
       /\ \A k \in 1 .. Len(Batches') : k > n => Batches'[k] = empty
       /\ Len(queue') <= Len(flushed) + 1
  <2>1. CASE endsChunk
    <3> DEFINE q == Append(flushed, batch)
    <3>1. /\ q \in Seq(Buffer) /\ Len(q) = n /\ q[n] = batch
          /\ \A k \in 1 .. n - 1 : q[k] = flushed[k]
      BY <1>6, <1>8
    <3>2. queue' = q /\ Batches' = Append(q, empty)
      BY <1>3, <2>1 DEF Batches
    <3> HIDE DEF q
    <3>3. /\ Batches' \in Seq(Buffer) /\ Len(Batches') = n + 1 /\ Batches'[n + 1] = empty
          /\ \A k \in 1 .. n : Batches'[k] = q[k]
      BY <1>4, <3>1, <3>2
    <3>4. \A k \in 1 .. n + 1 : k > n => k = n + 1
      BY <1>10
    <3>5. n \in 1 .. n /\ n \in 1 .. n + 1 /\ n <= Len(flushed) + 1 /\ \A k \in 1 .. n - 1 : k \in 1 .. n
      BY <1>10
    <3> HIDE DEF n
    <3>6. Len(queue') <= Len(flushed) + 1
      BY <3>1, <3>2, <3>5
    <3>7. QED
      BY <3>1, <3>3, <3>4, <3>5, <3>6
  <2>2. CASE ~endsChunk
    <3>1. queue' = flushed /\ Batches' = Append(flushed, batch)
      BY <1>3, <2>2 DEF Batches
    <3>2. /\ Batches' \in Seq(Buffer) /\ Len(Batches') = n /\ Batches'[n] = batch
          /\ \A k \in 1 .. n - 1 : Batches'[k] = flushed[k]
      BY <1>6, <1>8, <3>1
    <3>3. n \in 1 .. n /\ Len(queue') <= Len(flushed) + 1 /\ \A k \in 1 .. n : ~(k > n)
      BY <1>10, <3>1
    <3>4. QED
      BY <3>2, <3>3
  <2>3. QED
    BY <2>1, <2>2
<1>12. CollectedInto(Batches, Batches', n, x)
  <2> DEFINE new == Batches'
             old == Batches
  <2>1. old \in Seq(Buffer) /\ Len(old) = N + 1 /\ new \in Seq(Buffer) /\ DOMAIN new = 1 .. Len(new)
        /\ DOMAIN old = 1 .. N + 1
    BY <1>9, <1>11
  <2> HIDE DEF new, old
  <2>2. CASE ends
    <3>1. n = N + 2 /\ n \in 1 .. Len(old) + 1 /\ n >= Len(old) /\ n = Len(old) + 1
      BY <1>1, <1>8, <2>1, <2>2
    <3>2. new[n].messages \in {<<x>>, <<>>}
      BY <1>5, <1>7, <1>11, <2>2 DEF new
    <3>3. \A k \in 1 .. n - 1 : k \in DOMAIN old /\ new[k] = old[k]
      <4>1. \A k \in 1 .. n - 1 : k \in 1 .. N + 1 /\ (k \in 1 .. N \/ k = N + 1)
        BY <1>1, <3>1
      <4>2. \A k \in 1 .. N + 1 : (k \in 1 .. N \/ k = N + 1) => flushed[k] = old[k]
        BY <1>8, <1>9, <2>2 DEF old
      <4>3. QED
        BY <1>11, <2>1, <4>1, <4>2 DEF new
    <3> HIDE DEF n
    <3>4. QED
      BY <1>4, <1>11, <2>1, <3>1, <3>2, <3>3 DEF CollectedInto, new, old
  <2>3. CASE ~ends
    <3>1. n = N + 1 /\ n \in 1 .. Len(old) + 1 /\ n >= Len(old) /\ n = Len(old)
      BY <1>1, <1>8, <2>1, <2>3
    <3>2. new[n].messages \in {old[n].messages, Append(old[n].messages, x)}
      BY <1>5, <1>7, <1>9, <1>11, <2>3, <3>1 DEF new, old
    <3>3. \A k \in 1 .. n - 1 : k \in DOMAIN old /\ new[k] = old[k]
      <4>1. \A k \in 1 .. n - 1 : k \in 1 .. N + 1 /\ k \in 1 .. N
        BY <1>1, <3>1
      <4>2. \A k \in 1 .. N : flushed[k] = old[k]
        BY <1>8, <1>9 DEF old
      <4>3. QED
        BY <1>11, <2>1, <4>1, <4>2 DEF new
    <3> HIDE DEF n
    <3>4. QED
      BY <1>4, <1>11, <2>1, <3>1, <3>2, <3>3 DEF CollectedInto, new, old
  <2>4. QED
    BY <2>2, <2>3
<1>13. n \in Nat /\ Len(queue') <= N + 2
  <2>1. Len(flushed) <= N + 1
    BY <1>1, <1>8
  <2>2. Len(queue') \in Nat
    <3>1. BufferInv'
      BY CollectStep
    <3>2. queue' \in Seq(Buffer)
      BY <3>1 DEF BufferInv
    <3>3. QED
      BY <3>2
  <2>3. QED
    BY <1>1, <1>10, <1>11, <2>1, <2>2
<1>14. QED
  BY <1>9, <1>11, <1>12, <1>13 DEF x

(* Batches keep the order of the messages when one more is collected. *)
LEMMA CollectOrder ==
  ASSUME BufferInv, BatchedInOrder, parsed \in Nat, sent' = sent, NEW endsChunk \in BOOLEAN,
         sent[parsed + 1][1] \in Types, Len(Written(sent[parsed + 1])) \in Nat \ {0},
         CollectMessage(sent[parsed + 1][1], Len(Written(sent[parsed + 1])), endsChunk)
  PROVE  BatchedInOrder'
<1> DEFINE x   == [id |-> parsed + 1, type |-> sent[parsed + 1][1],
                   size |-> Len(Written(sent[parsed + 1]))]
           old == Batches
           new == Batches'
<1>1. /\ old \in Seq(Buffer) /\ new \in Seq(Buffer)
      /\ \E n \in Nat : CollectedInto(old, new, n, x)
  BY CollectedBatches
<1>2. PICK n \in Nat : CollectedInto(old, new, n, x)
  BY <1>1
<1>3. parsed' = parsed + 1 /\ x.id = parsed + 1 /\ x \in Message
  BY DEF CollectMessage, Message
<1> DEFINE Right(y, top) == /\ y.id \in 1 .. top
                            /\ y.type = sent[y.id][1] /\ y.size = Len(Written(sent[y.id]))
<1>4. Right(x, parsed + 1)
  BY <1>3
<1>5. \A k, l \in DOMAIN old : \A a \in DOMAIN old[k].messages, b \in DOMAIN old[l].messages :
        /\ Right(old[k].messages[a], parsed)
        /\ k < l \/ (k = l /\ a < b) => old[k].messages[a].id < old[l].messages[b].id
  BY DEF BatchedInOrder
<1> HIDE DEF x, old, new
<1>6. \A k \in DOMAIN old : old[k].messages \in Seq(Message)
  BY <1>1, BufferFields
(* A message of the batches is an old one at its place, or x and the last. *)
<1> DEFINE IsOld(k, a) == /\ k \in DOMAIN old /\ a \in DOMAIN old[k].messages
                          /\ new[k].messages[a] = old[k].messages[a]
           IsLast(k, a) == /\ new[k].messages[a] = x /\ k = n
                           /\ DOMAIN new[k].messages = 1 .. a
<1>7. ASSUME NEW k \in DOMAIN new, NEW a \in DOMAIN new[k].messages
      PROVE  k <= n /\ k \in Nat /\ a \in Nat /\ (IsOld(k, a) \/ IsLast(k, a))
  <2>1. k \in Nat /\ a \in Nat /\ k \in 1 .. Len(new) /\ new[k].messages \in Seq(Message)
    <3>1. k \in Nat /\ k \in 1 .. Len(new) /\ new[k] \in Buffer
      BY <1>1
    <3>2. new[k].messages \in Seq(Message)
      BY <3>1, BufferFields
    <3>3. QED
      BY <3>1, <3>2
  <2>2. k <= n
    <3>1. SUFFICES ASSUME k > n PROVE FALSE
      BY <2>1
    <3>2. new[k].messages = <<>>
      BY <1>2, <3>1 DEF CollectedInto
    <3>3. QED
      BY <3>2
  <2>3. CASE k < n
    <3>1. k \in 1 .. n - 1
      BY <2>1, <2>3
    <3>2. k \in DOMAIN old /\ new[k] = old[k]
      BY <1>2, <3>1 DEF CollectedInto
    <3>3. QED
      BY <2>1, <2>2, <3>2
  <2>4. CASE k = n /\ n = Len(old) + 1 /\ new[n].messages \in {<<x>>, <<>>}
    <3>1. new[k].messages = <<x>>
      BY <2>4
    <3>2. DOMAIN new[k].messages = 1 .. 1 /\ a = 1 /\ new[k].messages[1] = x
      BY <3>1
    <3>3. QED
      BY <2>1, <2>2, <2>4, <3>2
  <2>5. CASE /\ k = n /\ n = Len(old)
             /\ new[n].messages \in {old[n].messages, Append(old[n].messages, x)}
    <3>1. k \in DOMAIN old /\ old[k].messages \in Seq(Message)
      <4>1. k \in DOMAIN old
        BY <1>1, <2>1, <2>5
      <4>2. QED
        BY <1>6, <4>1
    <3>2. CASE new[k].messages = old[k].messages
      BY <2>1, <2>2, <3>1, <3>2
    <3>3. CASE new[k].messages = Append(old[k].messages, x)
      <4> DEFINE s == old[k].messages
                 r == Append(s, x)
      <4>1. s \in Seq(Message) /\ DOMAIN r = 1 .. Len(s) + 1 /\ Len(s) \in Nat
            /\ r[Len(s) + 1] = x /\ DOMAIN s = 1 .. Len(s)
            /\ \A j \in 1 .. Len(s) : r[j] = s[j]
        BY <1>3, <3>1
      <4> HIDE DEF s, r
      <4>2. new[k].messages = r
        BY <3>3 DEF r, s
      <4>3. a \in 1 .. Len(s) \/ a = Len(s) + 1
        BY <4>1, <4>2
      <4>4. CASE a \in 1 .. Len(s)
        <5>1. IsOld(k, a)
          BY <3>1, <4>1, <4>2, <4>4 DEF s
        <5>2. QED
          BY <2>1, <2>2, <5>1
      <4>5. CASE a = Len(s) + 1
        <5>1. IsLast(k, a)
          BY <2>5, <4>1, <4>2, <4>5
        <5>2. QED
          BY <2>1, <2>2, <5>1
      <4>6. QED
        BY <4>3, <4>4, <4>5
    <3>4. QED
      BY <2>5, <3>2, <3>3
  <2>6. QED
    BY <1>2, <2>1, <2>2, <2>3, <2>4, <2>5 DEF CollectedInto
<1>8. ASSUME NEW k \in DOMAIN new, NEW a \in DOMAIN new[k].messages
      PROVE  Right(new[k].messages[a], parsed + 1)
  <2>1. CASE IsOld(k, a)
    <3>1. Right(old[k].messages[a], parsed)
      BY <1>5, <2>1
    <3>2. \A y : Right(y, parsed) => Right(y, parsed + 1)
      OBVIOUS
    <3> HIDE DEF Right
    <3>3. QED
      BY <2>1, <3>1, <3>2
  <2>2. CASE IsLast(k, a)
    BY <1>4, <2>2
  <2>3. QED
    BY <1>7, <2>1, <2>2
<1>9. ASSUME NEW k \in DOMAIN new, NEW l \in DOMAIN new,
             NEW a \in DOMAIN new[k].messages, NEW b \in DOMAIN new[l].messages,
             k < l \/ (k = l /\ a < b)
      PROVE  new[k].messages[a].id < new[l].messages[b].id
  <2>1. /\ k \in Nat /\ l \in Nat /\ a \in Nat /\ b \in Nat /\ k <= n /\ l <= n
        /\ IsOld(k, a) \/ IsLast(k, a)
        /\ IsOld(l, b) \/ IsLast(l, b)
    BY <1>7
  <2>2. ~IsLast(k, a)
    <3>1. SUFFICES ASSUME IsLast(k, a) PROVE FALSE
      OBVIOUS
    <3>2. k = l /\ a < b
      BY <1>9, <2>1, <3>1
    <3>3. b \in 1 .. a
      BY <3>1, <3>2
    <3>4. QED
      BY <2>1, <3>2, <3>3
  <2>3. IsOld(k, a)
    BY <2>1, <2>2
  <2>4. CASE IsOld(l, b)
    <3>1. old[k].messages[a].id < old[l].messages[b].id
      BY <1>5, <1>9, <2>3, <2>4
    <3>2. QED
      BY <2>3, <2>4, <3>1
  <2>5. CASE IsLast(l, b)
    <3>1. old[k].messages[a].id \in 1 .. parsed
      BY <1>5, <2>3
    <3>2. QED
      BY <1>3, <2>3, <2>5, <3>1
  <2>6. QED
    BY <2>1, <2>4, <2>5
<1>10. QED
  BY <1>3, <1>8, <1>9 DEF BatchedInOrder, new
-------------------------------------------------------------------------------
(***************************************************************************)
(* The invariant                                                           *)
(***************************************************************************)
LEMMA InitPublisherInv == PublisherInit => PublisherInv
<1> SUFFICES ASSUME PublisherInit PROVE PublisherInv
  OBVIOUS
<1>1. sent \in Seq(WellFormed) /\ Len(sent) <= MaxMessages /\ Len(sent) \in Nat
  <2>1. sent \in SeqOf(WellFormed, MaxMessages) /\ MaxMessages \in Nat
    BY PublisherAssumption DEF PublisherInit
  <2>2. PICK n \in 0 .. MaxMessages : sent \in [1 .. n -> WellFormed]
    BY <2>1 DEF SeqOf
  <2>3. QED
    BY <2>1, <2>2
<1>2. /\ event = "ReceivePublisherData" /\ chunk = <<>> /\ i = 0 /\ stream = Whole
      /\ parseState = "messageType" /\ messageType = <<>> /\ messageLengthBuffer = <<>>
      /\ messageContent = <<>> /\ messageContentLength = 0 /\ nbContentBytesRead = 0
      /\ texts = <<>> /\ BufferInit
  BY DEF PublisherInit, Whole
<1>3. /\ currentBatch = Constructed /\ queue = <<>> /\ parsed = 0
  BY <1>2 DEF BufferInit
<1>4. Whole \in Text /\ Len(Whole) \in Nat
  <2>1. 0 \in 0 .. Len(sent)
    BY <1>1
  <2>2. QED
    BY <1>1, <2>1, Layout DEF Whole
<1>5. NbRead = 0 /\ Position = 0 /\ Len(chunk) = 0 /\ <<>> \in Text
  <2>1. Len(chunk) = 0 /\ <<>> \in Text /\ NbRead = Len(Whole) - Len(Whole)
    BY <1>2 DEF NbRead, Text
  <2>2. NbRead = 0
    BY <1>4, <2>1
  <2>3. Position = 0 - 0 + 0
    BY <1>2, <2>1, <2>2 DEF Position
  <2>4. QED
    BY <2>1, <2>2, <2>3
<1>6. Start(parsed) = 0
  <2>1. TextOf(sent)[0] = <<>>
    BY <1>1, TextSteps
  <2>2. QED
    BY <1>3, <2>1 DEF Start
<1>7. ReadInv
  BY <1>2, <1>4, <1>5 DEF ReadInv
<1>8. BetweenMessages
  BY <1>2, <1>5, <1>6 DEF BetweenMessages, NoContentYet
<1>9. ParserInv
  <2>1. CASE parsed = Len(sent)
    BY <1>1, <1>2, <1>3, <1>5, <1>8, <2>1 DEF ParserInv
  <2>2. CASE parsed # Len(sent)
    <3>1. PICK m \in WellFormed : m = sent[parsed + 1]
      BY <1>1, <1>3, <2>2
    <3>2. m[1] \in Text /\ 0 \in 0 .. Len(m[1])
      BY MessageParts DEF Text
    <3>3. Len(messageType) = 0 /\ 0 <= Len(m[1]) /\ SubSeq(m[1], 1, 0) = <<>>
      BY <1>2, <3>2, Beginning
    <3>4. InType(m)
      BY <1>2, <1>5, <1>6, <1>8, <3>3 DEF InType, BetweenMessages
    <3>5. QED
      BY <1>1, <1>2, <1>3, <1>5, <2>2, <3>1, <3>4 DEF ParserInv
  <2>3. QED
    BY <2>1, <2>2
<1>10. HeldInv
  BY <1>3 DEF HeldInv, Constructed
<1>11. BufferInv
  BY <1>2, InitBufferInv
<1>12. ParsedAsWritten
  BY <1>2, <1>3 DEF ParsedAsWritten
<1>13. BatchedInOrder
  <2>1. Batches = <<Constructed>>
    BY <1>3 DEF Batches
  <2>2. \A k \in DOMAIN Batches : Batches[k].messages = <<>>
    BY <2>1 DEF Constructed
  <2>3. QED
    BY <2>2 DEF BatchedInOrder
<1>14. QED
  BY <1>3, <1>7, <1>9, <1>10, <1>11, <1>12, <1>13 DEF PublisherInv

(* A step that leaves the parser and the buffers as they are. *)
LEMMA QuietStep ==
  ASSUME PublisherInv, ReadInv', UNCHANGED <<sent, parserVars, bufferVars>>,
         Position' = Position
  PROVE  /\ ParserInv' /\ ParsedAsWritten' /\ BufferInv' /\ BatchedInOrder'
         /\ Len(queue') <= 2 * parsed'
<1>1. /\ sent' = sent /\ parsed' = parsed /\ queue' = queue /\ currentBatch' = currentBatch
      /\ parseState' = parseState /\ messageType' = messageType
      /\ messageLengthBuffer' = messageLengthBuffer /\ messageContent' = messageContent
      /\ messageContentLength' = messageContentLength
      /\ nbContentBytesRead' = nbContentBytesRead /\ texts' = texts
  BY DEF parserVars, bufferVars
<1>2. Start(parsed)' = Start(parsed)
  BY <1>1 DEF Start
<1>3. ParserInv'
  BY <1>1, <1>2 DEF PublisherInv, ParserInv, BetweenMessages, NoContentYet, InType, InLength, InContent
<1>4. BufferInv'
  BY DEF PublisherInv, BufferInv, bufferVars, Unread, Good, Fits, OfItsType, Bounded, HasContent
<1>5. ParsedAsWritten' /\ BatchedInOrder'
  <2>1. /\ ParsedAsWritten /\ BatchedInOrder
        /\ texts' = texts /\ parsed' = parsed /\ sent' = sent
        /\ queue' = queue /\ currentBatch' = currentBatch
    BY <1>1 DEF PublisherInv
  <2>2. ParsedAsWritten'
    BY <2>1 DEF ParsedAsWritten
  <2>3. BatchedInOrder'
    <3>1. Batches' = Batches
      BY <2>1 DEF Batches
    <3>2. QED
      BY <2>1, <3>1 DEF BatchedInOrder
  <2>4. QED
    BY <2>2, <2>3
<1>6. QED
  BY <1>1, <1>3, <1>4, <1>5 DEF PublisherInv

(* A read of any length puts the next characters of the text into the      *)
(* buffer.                                                                 *)
LEMMA ReadStep ==
  ASSUME PublisherInv, NEW n \in 1 .. Len(stream), OnReceiveData(n)
  PROVE  PublisherInv'
<1>1. /\ event = "ReceivePublisherData" /\ event' = "Parse" /\ i' = i /\ sent' = sent
      /\ chunk' = SubSeq(stream, 1, n) /\ stream' = SubSeq(stream, n + 1, Len(stream))
      /\ UNCHANGED <<sent, parserVars, bufferVars>>
  BY DEF OnReceiveData
<1>2. ReadInv /\ ParserInv
  BY DEF PublisherInv
<1>3. chunk = <<>> /\ i = 0 /\ Len(chunk) = 0
  BY <1>1, <1>2 DEF ReadInv
<1>4. /\ stream \in Text /\ Len(stream) \in Nat /\ n \in Nat /\ n <= Len(stream) /\ n > 0
      /\ NbRead \in Nat /\ Len(Whole) \in Nat /\ NbRead = Len(Whole) - Len(stream)
      /\ Position = NbRead
      /\ \A j \in 1 .. Len(stream) : stream[j] = Whole[NbRead + j]
  BY <1>2, <1>3, Positions DEF ReadInv
<1>5. chunk' \in Text /\ Len(chunk') = n /\ \A j \in 1 .. n : chunk'[j] = stream[j]
  <2>1. n \in 0 .. Len(stream)
    BY <1>4
  <2>2. QED
    BY <1>1, <1>4, <2>1, Beginning
<1>6. /\ stream' \in Text /\ Len(stream') = Len(stream) - n
      /\ \A j \in 1 .. Len(stream) - n : stream'[j] = stream[n + j]
  <2>1. \A j \in n + 1 .. Len(stream) : stream[j] \in Characters
    BY <1>4 DEF Text
  <2>2. /\ stream' \in Seq(Characters)
        /\ Len(stream') = IF n + 1 <= Len(stream) THEN Len(stream) - (n + 1) + 1 ELSE 0
        /\ \A j \in 1 .. Len(stream) - (n + 1) + 1 : stream'[j] = stream[(n + 1) + j - 1]
    BY <1>1, <1>4, <2>1, SubSeqProperties DEF Text
  <2>3. Len(stream) - (n + 1) + 1 = Len(stream) - n
    BY <1>4
  <2>4. Len(stream') = Len(stream) - n
    BY <1>4, <2>2
  <2>5. ASSUME NEW j \in 1 .. Len(stream) - n PROVE stream'[j] = stream[n + j]
    <3>1. stream'[j] = stream[(n + 1) + j - 1]
      BY <2>2, <2>3
    <3>2. (n + 1) + j - 1 = n + j
      BY <1>4
    <3>3. QED
      BY <3>1, <3>2
  <2>6. QED
    BY <2>2, <2>4, <2>5 DEF Text
<1>7. Whole' = Whole
  BY <1>1 DEF Whole
<1>8. NbRead' = NbRead + n
  <2>1. NbRead' = Len(Whole) - (Len(stream) - n)
    BY <1>6, <1>7 DEF NbRead
  <2> DEFINE w == Len(Whole)
             l == Len(stream)
             nb == NbRead
             next == NbRead'
  <2>2. w \in Nat /\ l \in Nat /\ n \in Nat /\ nb = w - l /\ next = w - (l - n)
    BY <1>4, <2>1
  <2> HIDE DEF w, l, nb, next
  <2>3. next = nb + n
    BY <2>2
  <2>4. QED
    BY <2>3 DEF nb, next
<1>9. Position' = Position
  <2>1. Position' = NbRead' - Len(chunk') + i'
    BY DEF Position
  <2>2. QED
    BY <1>1, <1>3, <1>4, <1>5, <1>8, <2>1
<1>10. ReadInv'
  <2>1. Len(chunk') <= NbRead' /\ i' \in 0 .. Len(chunk')
    BY <1>1, <1>3, <1>4, <1>5, <1>8
  <2>2. ASSUME NEW j \in 1 .. Len(chunk')
        PROVE  chunk'[j] = Whole'[NbRead' - Len(chunk') + j]
    <3>1. NbRead' - Len(chunk') + j = NbRead + j /\ j \in 1 .. n /\ j \in 1 .. Len(stream)
      BY <1>4, <1>5, <1>8
    <3>2. QED
      BY <1>4, <1>5, <1>7, <3>1
  <2>3. ASSUME NEW j \in 1 .. Len(stream')
        PROVE  stream'[j] = Whole'[NbRead' + j]
    <3>1. NbRead' + j = NbRead + (n + j) /\ j \in 1 .. Len(stream) - n /\ n + j \in 1 .. Len(stream)
      BY <1>4, <1>6, <1>8
    <3>2. QED
      BY <1>4, <1>6, <1>7, <3>1
  <2>4. QED
    BY <1>1, <1>5, <1>6, <2>1, <2>2, <2>3 DEF ReadInv
<1>11. HeldInv'
  BY <1>1, <1>3, <1>4, <1>5 DEF HeldInv
<1>12. QED
  BY <1>1, <1>9, <1>10, <1>11, QuietStep DEF PublisherInv

(* A read that fails, or the next one requested, parses nothing. *)
LEMMA EndReadStep ==
  ASSUME PublisherInv, OnReceiveFailed \/ BeginReceiveData
  PROVE  PublisherInv'
<1>1. UNCHANGED <<sent, stream, parserVars, bufferVars>>
  BY DEF OnReceiveFailed, BeginReceiveData
<1>2. ReadInv /\ ParserInv
  BY DEF PublisherInv
<1>3. /\ event' \in {"ReceivePublisherData", "Disconnected"}
      /\ chunk' = <<>> /\ i' = 0 /\ i = Len(chunk)
  <2>1. CASE OnReceiveFailed
    <3>1. chunk = <<>>
      BY <1>2, <2>1 DEF OnReceiveFailed, ReadInv
    <3>2. i \in 0 .. Len(chunk) /\ Len(chunk) = 0
      BY <1>2, <3>1 DEF ReadInv
    <3>3. QED
      BY <2>1, <3>1, <3>2 DEF OnReceiveFailed
  <2>2. CASE BeginReceiveData
    BY <2>2 DEF BeginReceiveData
  <2>3. QED
    BY <2>1, <2>2
<1>4. Whole' = Whole /\ NbRead' = NbRead
  BY <1>1 DEF Whole, NbRead
<1>5. Position' = Position
  <2>1. Position' = NbRead - Len(<<>>) + 0
    BY <1>3, <1>4 DEF Position
  <2>2. Position = NbRead
    BY <1>2, <1>3, Positions
  <2>3. QED
    BY <1>2, <2>1, <2>2, Positions
<1>6. ReadInv'
  <2>1. chunk' \in Text /\ Len(chunk') = 0 /\ NbRead \in Nat
    BY <1>2, <1>3, Positions DEF Text
  <2>2. QED
    BY <1>1, <1>2, <1>3, <1>4, <2>1 DEF ReadInv
<1>7. HeldInv'
  BY <1>1, <1>3 DEF PublisherInv, HeldInv, parserVars, bufferVars
<1>8. QED
  BY <1>1, <1>5, <1>6, <1>7, QuietStep DEF PublisherInv

(* A step of parseMessage, in any state of the parser. *)
LEMMA ParseStep ==
  ASSUME PublisherInv, ForwardMessage
  PROVE  PublisherInv'
<1>1. /\ event = "Parse" /\ i < Len(chunk) /\ UNCHANGED readVars /\ sent' = sent
      /\ ReadInv /\ ParserInv /\ ParsedAsWritten /\ BufferInv /\ BatchedInOrder
      /\ Len(queue) <= 2 * parsed
  BY DEF ForwardMessage, PublisherInv, readVars
<1>2. ASSUME ReadInv', ParserInv', HeldInv', UNCHANGED <<texts, bufferVars>>
      PROVE  PublisherInv'
  <2>1. queue' = queue /\ currentBatch' = currentBatch /\ parsed' = parsed /\ texts' = texts
    BY <1>2 DEF bufferVars
  <2>2. BufferInv'
    BY <1>1, <1>2 DEF BufferInv, bufferVars, Unread, Good, Fits, OfItsType, Bounded, HasContent
  <2>3. ParsedAsWritten' /\ BatchedInOrder'
    <3>1. ParsedAsWritten /\ BatchedInOrder /\ sent' = sent
      BY <1>1
    <3>2. ParsedAsWritten'
      BY <2>1, <3>1 DEF ParsedAsWritten
    <3>3. BatchedInOrder'
      <4>1. Batches' = Batches
        BY <2>1 DEF Batches
      <4>2. QED
        BY <2>1, <3>1, <4>1 DEF BatchedInOrder
    <3>4. QED
      BY <3>2, <3>3
  <2>4. QED
    BY <1>1, <1>2, <2>1, <2>2, <2>3 DEF PublisherInv
<1>3. CASE ParseMessageType
  <2>1. ReadInv' /\ ParserInv' /\ HeldInv'
    BY <1>1, <1>3, TypeStep
  <2>2. UNCHANGED <<texts, bufferVars>>
    BY <1>3 DEF ParseMessageType
  <2>3. QED
    BY <1>2, <2>1, <2>2
<1>4. CASE ParseContentLength
  <2>1. ReadInv' /\ ParserInv' /\ HeldInv'
    BY <1>1, <1>4, LengthStep
  <2>2. UNCHANGED <<texts, bufferVars>>
    BY <1>4 DEF ParseContentLength
  <2>3. QED
    BY <1>2, <2>1, <2>2
<1>5. CASE ParseContent /\ nbContentBytesRead + Taken # messageContentLength
  BY <1>1, <1>2, <1>5, PartStep
<1>6. CASE ParseContent /\ nbContentBytesRead + Taken = messageContentLength
  <2>1. /\ ReadInv' /\ ParserInv' /\ ParsedAsWritten' /\ HeldInv'
        /\ parsed < Len(sent) /\ sent[parsed + 1] \in WellFormed
        /\ \E endsChunk \in BOOLEAN :
             CollectMessage(sent[parsed + 1][1], Len(Written(sent[parsed + 1])), endsChunk)
    BY <1>1, <1>6, CompleteStep
  <2>2. PICK endsChunk \in BOOLEAN :
             CollectMessage(sent[parsed + 1][1], Len(Written(sent[parsed + 1])), endsChunk)
    BY <2>1
  <2>3. sent[parsed + 1][1] \in Types /\ Len(Written(sent[parsed + 1])) \in Nat \ {0}
    BY <2>1, WrittenSize
  <2>4. BufferInv'
    BY <1>1, <2>2, <2>3, CollectStep
  <2>5. parsed \in Nat
    BY <1>1 DEF BufferInv
  <2>6. BatchedInOrder'
    BY <1>1, <2>2, <2>3, <2>5, CollectOrder
  <2>7. Len(queue') <= Len(queue) + 2 /\ parsed' = parsed + 1
    BY <1>1, <2>2, <2>3, CollectedBatches DEF CollectMessage
  <2>8. Len(queue') <= 2 * parsed'
    <3>1. Len(queue) \in Nat /\ Len(queue') \in Nat
      BY <1>1, <2>4 DEF BufferInv
    <3>2. QED
      BY <1>1, <2>5, <2>7, <3>1
  <2>9. QED
    BY <2>1, <2>4, <2>6, <2>8 DEF PublisherInv
<1>7. QED
  BY <1>3, <1>4, <1>5, <1>6 DEF ForwardMessage

(* Wherever the reads end, the parser stands in the message it stands in   *)
(* with what was read of it, and the batches hold those before.            *)
THEOREM PublisherInvariant == PublisherSpec => []PublisherInv
<1>1. ASSUME PublisherInv, PublisherNext PROVE PublisherInv'
  <2>1. CASE \E n \in 1 .. Len(stream) : n <= MaxReadBuf /\ OnReceiveData(n)
    BY <1>1, <2>1, ReadStep
  <2>2. CASE OnReceiveFailed \/ BeginReceiveData
    BY <1>1, <2>2, EndReadStep
  <2>3. CASE ForwardMessage
    BY <1>1, <2>3, ParseStep
  <2>4. QED
    BY <1>1, <2>1, <2>2, <2>3 DEF PublisherNext
<1>2. ASSUME PublisherInv, UNCHANGED publisherVars PROVE PublisherInv'
  <2>1. /\ UNCHANGED <<sent, parserVars, bufferVars>> /\ UNCHANGED <<event, stream, chunk, i>>
    BY <1>2 DEF publisherVars, readVars
  <2>2. Whole' = Whole /\ NbRead' = NbRead /\ Position' = Position
    BY <2>1 DEF Whole, NbRead, Position
  <2>3. ReadInv' /\ HeldInv'
    BY <1>2, <2>1, <2>2 DEF PublisherInv, ReadInv, HeldInv, parserVars, bufferVars
  <2>4. QED
    BY <1>2, <2>1, <2>2, <2>3, QuietStep DEF PublisherInv
<1>3. PublisherInv /\ [PublisherNext]_publisherVars => PublisherInv'
  BY <1>1, <1>2
<1>4. QED
  BY <1>3, InitPublisherInv, PTL DEF PublisherSpec

(* However the reads cut the text, the messages parsed are those written.  *)
THEOREM MessagesAreParsedAsWritten == PublisherSpec => []ParsedAsWritten
<1>1. PublisherInv => ParsedAsWritten
  BY DEF PublisherInv
<1>2. QED
  BY <1>1, PublisherInvariant, PTL

(* A batch is kept only while part of the next message has been read.      *)
THEOREM BatchesAreNotHeldBack == PublisherSpec => []HeldOnlyInsideMessage
<1>1. PublisherInv => HeldOnlyInsideMessage
  <2> SUFFICES ASSUME PublisherInv, event = "ReceivePublisherData"
               PROVE  i = Len(chunk)
    BY DEF PublisherInv, HeldInv, HeldOnlyInsideMessage
  <2>1. chunk = <<>> /\ i \in 0 .. Len(chunk)
    BY DEF PublisherInv, ReadInv
  <2>2. QED
    BY <2>1
<1>2. QED
  BY <1>1, PublisherInvariant, PTL

(* Batches hold the messages in order, none twice, whole.                  *)
THEOREM MessagesAreBatchedInOrder == PublisherSpec => []BatchedInOrder
<1>1. PublisherInv => BatchedInOrder
  BY DEF PublisherInv
<1>2. QED
  BY <1>1, PublisherInvariant, PTL

(* What was read is parsed, but a last message without content waits.      *)
THEOREM ReadsAreParsed == PublisherSpec => []ReadIsParsed
<1>1. PublisherInv => ReadIsParsed
  <2> SUFFICES ASSUME PublisherInv, event = "ReceivePublisherData", stream = <<>>,
                      parsed # Len(sent)
               PROVE  parsed = Len(sent) - 1 /\ sent[Len(sent)][3] = <<>>
    BY DEF ReadIsParsed
  <2>1. ReadInv /\ ParserInv
    BY DEF PublisherInv
  <2>2. /\ Len(sent) \in Nat /\ parsed \in Nat /\ parsed < Len(sent)
        /\ Start(parsed) \in Nat /\ Len(Whole) \in Nat
    BY <2>1, Positions
  <2>3. Position = Len(Whole)
    <3>1. chunk = <<>> /\ i \in 0 .. Len(chunk)
      BY <2>1 DEF ReadInv
    <3>2. Len(chunk) = 0 /\ i = 0 /\ Len(stream) = 0
      BY <3>1
    <3>3. QED
      BY <2>1, <3>2, Positions
  <2>4. PICK m \in WellFormed : m = sent[parsed + 1]
    BY <2>1, <2>2, Positions
  <2> DEFINE l1 == Len(m[1])
             l2 == Len(m[2])
             l3 == Len(m[3])
             s  == Start(parsed)
  <2>5. /\ l1 \in Nat /\ l2 \in Nat /\ l3 \in Nat
    BY MessageParts DEF Text
  <2>6. /\ Start(parsed + 1) = s + (l1 + l2 + 2 + l3)
        /\ s + (l1 + l2 + 2 + l3) <= Len(Whole)
    BY <2>1, <2>2, <2>4, Layout, WrittenProps DEF ParserInv, Start, Whole
  <2>7. InContent(m) /\ nbContentBytesRead = l3 /\ Len(Whole) = s + (l1 + l2 + 2 + l3)
    <3> DEFINE w  == Len(Whole)
               t  == Len(messageType)
               b  == Len(messageLengthBuffer)
               c  == nbContentBytesRead
    <3>1. s \in Nat /\ w \in Nat /\ s + (l1 + l2 + 2 + l3) <= w
      BY <2>2, <2>6
    <3>2. t \in Nat /\ b \in Nat
      BY <2>1 DEF ParserInv, Text
    <3>3. CASE InType(m)
      <4>1. Position = s + t /\ t <= l1
        BY <3>3 DEF InType
      <4>2. w = s + t
        BY <2>3, <4>1
      <4> HIDE DEF l1, l2, l3, s, w, t, b, c
      <4>3. FALSE
        BY <2>5, <3>1, <3>2, <4>1, <4>2
      <4>4. QED
        BY <4>3
    <3>4. CASE InLength(m)
      <4>1. Position = s + l1 + 1 + b /\ b <= l2
        BY <3>4 DEF InLength
      <4>2. w = s + l1 + 1 + b
        BY <2>3, <4>1
      <4> HIDE DEF l1, l2, l3, s, w, t, b, c
      <4>3. FALSE
        BY <2>5, <3>1, <3>2, <4>1, <4>2
      <4>4. QED
        BY <4>3
    <3>5. CASE InContent(m)
      <4>1. Position = s + l1 + l2 + 2 + c /\ c \in 0 .. l3
        BY <3>5 DEF InContent
      <4>2. w = s + l1 + l2 + 2 + c
        BY <2>3, <4>1
      <4>3. c = l3 /\ w = s + (l1 + l2 + 2 + l3)
        <5> HIDE DEF l1, l2, l3, s, w, t, b, c
        <5>1. QED
          BY <2>5, <3>1, <4>1, <4>2
      <4>4. QED
        BY <3>5, <4>3
    <3>6. QED
      BY <2>1, <2>2, <2>4, <3>3, <3>4, <3>5 DEF ParserInv
  <2>8. m[3] = <<>>
    BY <2>7 DEF InContent
  <2>9. parsed + 1 = Len(sent)
    <3>1. SUFFICES ASSUME parsed + 1 < Len(sent) PROVE FALSE
      BY <2>2
    <3>2. PICK q \in WellFormed : q = sent[(parsed + 1) + 1]
      BY <2>1, <2>2, <3>1 DEF ParserInv
    <3>3. parsed + 1 \in 0 .. Len(sent)
      BY <2>2, <3>1
    <3>4. Start(parsed + 1) + Len(Written(q)) <= Len(Whole)
      BY <2>1, <3>1, <3>2, <3>3, Layout DEF ParserInv, Start, Whole
    <3>5. Len(Written(q)) \in Nat \ {0}
      BY WrittenSize
    <3> HIDE DEF l1, l2, l3, s
    <3>6. QED
      BY <2>2, <2>6, <2>7, <3>4, <3>5
  <2>10. QED
    BY <2>2, <2>4, <2>8, <2>9
<1>2. QED
  BY <1>1, PublisherInvariant, PTL

(***************************************************************************)
(* A publisher fills the buffers as BatchBuffers says                      *)
(***************************************************************************)
(* BatchBuffers has bounds, on messages, on the queue and on sizes, that   *)
(* let a publisher push all it writes: a message pushes two batches.       *)
WithinBounds ==
  /\ MaxMessages <= MaxParsed
  /\ 2 * MaxMessages <= MaxQueued
  /\ \A m \in WellFormed : Len(Written(m)) \in Sizes

(* A step of the handler is a step of the buffers, or leaves them alone. *)
LEMMA PublisherCollects ==
  ASSUME WithinBounds, PublisherInv, [PublisherNext]_publisherVars
  PROVE  [BufferNext]_bufferVars
<1>1. CASE UNCHANGED bufferVars
  BY <1>1
<1>2. CASE ForwardMessage /\ ParseContent /\ nbContentBytesRead + Taken = messageContentLength
  <2>1. /\ event = "Parse" /\ i < Len(chunk) /\ UNCHANGED readVars
        /\ ReadInv /\ ParserInv /\ ParsedAsWritten
    BY <1>2 DEF ForwardMessage, PublisherInv
  <2>2. /\ parsed < Len(sent) /\ sent[parsed + 1] \in WellFormed
        /\ \E endsChunk \in BOOLEAN :
             CollectMessage(sent[parsed + 1][1], Len(Written(sent[parsed + 1])), endsChunk)
    BY <1>2, <2>1, CompleteStep
  <2>3. sent[parsed + 1][1] \in Types /\ Len(Written(sent[parsed + 1])) \in Sizes
    BY <2>2, MessageParts DEF WithinBounds
  <2>4. parsed < MaxParsed /\ Len(queue) < MaxQueued
    <3>1. /\ parsed \in Nat /\ Len(sent) \in Nat /\ Len(sent) <= MaxMessages
          /\ Len(queue) \in Nat /\ Len(queue) <= 2 * parsed
      BY <2>1, Positions DEF PublisherInv, BufferInv, ParserInv
    <3>2. QED
      BY <2>2, <3>1, PublisherAssumption, SizesAssumption DEF WithinBounds
  <2>5. Collects
    BY <2>2, <2>3, <2>4 DEF Collects
  <2>6. QED
    BY <2>5 DEF BufferNext
<1>3. CASE ForwardMessage /\ ParseContent /\ nbContentBytesRead + Taken # messageContentLength
  BY <1>1, <1>3, ParseContentCases
<1>4. CASE ForwardMessage /\ ~ParseContent
  <2>1. UNCHANGED bufferVars
    BY <1>4 DEF ForwardMessage, ParseMessageType, ParseContentLength
  <2>2. QED
    BY <2>1
<1>5. CASE UNCHANGED publisherVars
  <2>1. UNCHANGED bufferVars
    BY <1>5 DEF publisherVars
  <2>2. QED
    BY <2>1
<1>6. CASE PublisherNext /\ ~ForwardMessage
  <2>1. UNCHANGED bufferVars
    BY <1>6 DEF PublisherNext, OnReceiveData, OnReceiveFailed, BeginReceiveData
  <2>2. QED
    BY <2>1
<1>7. QED
  BY <1>2, <1>3, <1>4, <1>5, <1>6

(* What forwardMessage does to the batches is what BatchBuffers allows, so *)
(* that its theorems hold of the batches a publisher fills.                *)
THEOREM PublisherFillsBuffers == WithinBounds /\ PublisherSpec => BufferSpec
<1> SUFFICES ASSUME WithinBounds PROVE PublisherSpec => BufferSpec
  OBVIOUS
<1>1. PublisherInit => BufferInit
  BY DEF PublisherInit
<1>2. PublisherInv /\ [PublisherNext]_publisherVars => [BufferNext]_bufferVars
  BY PublisherCollects
<1>3. QED
  BY <1>1, <1>2, PublisherInvariant, PTL DEF PublisherSpec, BufferSpec
===============================================================================
