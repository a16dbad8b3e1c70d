--------------------------- MODULE SequenceFacts ---------------------------
(***************************************************************************)
(* Facts that several proof modules share.  About sequences of rows, for   *)
(* the telemetry and the executor: joining, cutting, appending, the set of *)
(* the rows, and their order; a row is a number.  About positions, for the *)
(* functions: that there is a first one; that a property of the first that *)
(* every step keeps is one of all (UpTo); and that a recursive function    *)
(* exists and is what its equation says (Follows, RecursionExists).        *)
(***************************************************************************)
EXTENDS Integers, Sequences, Functions, SequenceTheorems, WellFoundedInduction, TLAPS

\* A set of positions that is not empty has a first one.
LEMMA FirstExists ==
  ASSUME NEW T, T \subseteq Nat, T # {}
  PROVE  \E i \in T : \A j \in T : i <= j
  <1>1. PICK x \in T : \A y \in T : ~(<<y, x>> \in OpToRel(<, Nat))
    BY NatLessThanWellFounded, WFMin
  <1>2. ASSUME NEW y \in T, y < x PROVE <<y, x>> \in OpToRel(<, Nat)
    <2>1. <<y, x>> \in Nat \X Nat
      OBVIOUS
    <2>2. <<y, x>>[1] < <<y, x>>[2]
      BY <1>2
    <2> QED
      BY <2>1, <2>2, Zenon DEF OpToRel
  <1>3. \A y \in T : ~(y < x)
    BY <1>1, <1>2
  <1> QED
    BY <1>3

\* Two sequences joined, row by row.
LEMMA Joined ==
  ASSUME NEW a \in Seq(Nat), NEW b \in Seq(Nat)
  PROVE  /\ a \o b \in Seq(Nat) /\ Len(a) \in Nat /\ Len(b) \in Nat
         /\ Len(a \o b) = Len(a) + Len(b)
         /\ \A i \in 1..Len(a) : (a \o b)[i] = a[i]
         /\ \A i \in 1..Len(b) : (a \o b)[Len(a) + i] = b[i]
         /\ \A i \in 1..Len(a \o b) :
               i \in 1..Len(a) \/ (i - Len(a) \in 1..Len(b) /\ (a \o b)[i] = b[i - Len(a)])
  <1>1. /\ a \o b \in Seq(Nat) /\ Len(a \o b) = Len(a) + Len(b)
        /\ \A i \in 1..(Len(a) + Len(b)) :
              (a \o b)[i] = IF i <= Len(a) THEN a[i] ELSE b[i - Len(a)]
    BY ConcatProperties, Zenon
  <1>2. Len(a) \in Nat /\ Len(b) \in Nat
    OBVIOUS
  <1> DEFINE c == a \o b
  <1> HIDE DEF c
  <1>3. /\ Len(c) = Len(a) + Len(b)
        /\ \A i \in 1..(Len(a) + Len(b)) : c[i] = IF i <= Len(a) THEN a[i] ELSE b[i - Len(a)]
    BY <1>1 DEF c
  <1>4. \A i \in 1..Len(a) : c[i] = a[i]
    BY <1>2, <1>3
  <1>5. ASSUME NEW i \in 1..Len(b) PROVE c[Len(a) + i] = b[i]
    <2>1. /\ Len(a) + i \in 1..(Len(a) + Len(b)) /\ ~(Len(a) + i <= Len(a))
          /\ (Len(a) + i) - Len(a) = i
      BY <1>2
    <2> QED
      BY <1>3, <2>1
  <1>6. \A i \in 1..Len(c) :
           i \in 1..Len(a) \/ (i - Len(a) \in 1..Len(b) /\ c[i] = b[i - Len(a)])
    BY <1>2, <1>3
  <1> QED
    BY <1>1, <1>2, <1>4, <1>5, <1>6 DEF c

\* The part of a sequence from m to n.
LEMMA Part ==
  ASSUME NEW s \in Seq(Nat), NEW m \in 1..(Len(s) + 1), NEW n \in (m - 1)..Len(s)
  PROVE  /\ SubSeq(s, m, n) \in Seq(Nat) /\ Len(SubSeq(s, m, n)) = (n - m) + 1
         /\ \A i \in 1..((n - m) + 1) : SubSeq(s, m, n)[i] = s[(m + i) - 1]
  <1>1. m \in Int /\ n \in Int /\ Len(s) \in Nat /\ \A i \in m..n : s[i] \in Nat
    OBVIOUS
  <1>2. /\ SubSeq(s, m, n) \in Seq(Nat)
        /\ Len(SubSeq(s, m, n)) = IF m <= n THEN n - m + 1 ELSE 0
        /\ \A i \in 1..(n - m + 1) : SubSeq(s, m, n)[i] = s[m + i - 1]
    BY <1>1, SubSeqProperties
  <1>3. (IF m <= n THEN n - m + 1 ELSE 0) = (n - m) + 1
    BY <1>1
  <1> QED
    BY <1>2, <1>3

\* Appending is joining one row.
LEMMA AppendJoins ==
  ASSUME NEW s \in Seq(Nat), NEW r \in Nat
  PROVE  Append(s, r) = s \o <<r>>
  <1> DEFINE o == <<r>>
             a == Append(s, r)
             b == s \o o
  <1>1. o \in Seq(Nat) /\ Len(o) = 1 /\ o[1] = r
    OBVIOUS
  <1>2. a \in Seq(Nat) /\ Len(a) = Len(s) + 1 /\ a[Len(s) + 1] = r /\ \A i \in 1..Len(s) : a[i] = s[i]
    BY AppendProperties
  <1> HIDE DEF o, a
  <1>3. /\ b \in Seq(Nat) /\ Len(s) \in Nat /\ Len(b) = Len(s) + Len(o)
        /\ \A i \in 1..Len(s) : b[i] = s[i]
        /\ \A i \in 1..Len(o) : b[Len(s) + i] = o[i]
    BY <1>1, Joined, Zenon
  <1> HIDE DEF b
  <1>4. ASSUME NEW i \in 1..Len(a) PROVE a[i] = b[i]
    <2>1. CASE i \in 1..Len(s)
      BY <1>2, <1>3, <2>1
    <2>2. CASE i = Len(s) + 1
      BY <1>1, <1>2, <1>3, <2>2
    <2> QED
      BY <1>2, <1>3, <2>1, <2>2
  <1>5. a = b
    BY <1>1, <1>2, <1>3, <1>4, SeqEqual
  <1> QED
    BY <1>5 DEF a, b, o

\* Joining three sequences.
LEMMA JoinThree ==
  ASSUME NEW a \in Seq(Nat), NEW b \in Seq(Nat), NEW c \in Seq(Nat)
  PROVE  (a \o b) \o c = a \o (b \o c)
  BY ConcatAssociative, SMT

\* A row pushed on the queue is the last of all.
LEMMA PushJoined ==
  ASSUME NEW u \in Seq(Nat), NEW q \in Seq(Nat), NEW r \in Nat
  PROVE  u \o Append(q, r) = Append(u \o q, r)
  <1>1. <<r>> \in Seq(Nat) /\ u \o q \in Seq(Nat)
    BY Joined
  <1>2. Append(q, r) = q \o <<r>> /\ Append(u \o q, r) = (u \o q) \o <<r>>
    BY <1>1, AppendJoins, Zenon
  <1>3. (u \o q) \o <<r>> = u \o (q \o <<r>>)
    BY <1>1, JoinThree, Zenon
  <1> QED
    BY <1>2, <1>3, Zenon

\* A row popped from the queue into the batch stays in its place.
LEMMA PopJoined ==
  ASSUME NEW u \in Seq(Nat), NEW q \in Seq(Nat), q # << >>
  PROVE  Append(u, Head(q)) \o Tail(q) = u \o q
  <1>1. Head(q) \in Nat /\ Tail(q) \in Seq(Nat) /\ <<Head(q)>> \in Seq(Nat)
    OBVIOUS
  <1>2. Append(u, Head(q)) = u \o <<Head(q)>>
    BY <1>1, AppendJoins, Zenon
  <1>3. (u \o <<Head(q)>>) \o Tail(q) = u \o (<<Head(q)>> \o Tail(q))
    BY <1>1, JoinThree, Zenon
  <1>4. <<Head(q)>> \o Tail(q) = q
    <2> DEFINE h == <<Head(q)>>
               t == Tail(q)
               c == h \o t
    <2>1. /\ h \in Seq(Nat) /\ t \in Seq(Nat) /\ Len(h) = 1 /\ h[1] = q[1]
          /\ Len(q) \in Nat /\ Len(q) >= 1 /\ Len(t) = Len(q) - 1
          /\ \A i \in 1..Len(t) : t[i] = q[i + 1]
      BY HeadTailProperties
    <2> HIDE DEF h, t
    <2>2. c \in Seq(Nat) /\ Len(c) = Len(q)
      <3>1. c \in Seq(Nat) /\ Len(c) = Len(h) + Len(t)
        BY <2>1, Joined, Zenon
      <3> QED
        BY <2>1, <3>1
    <2>3. ASSUME NEW i \in 1..Len(c) PROVE c[i] = q[i]
      <3>1. CASE i = 1
        <4>1. 1 \in 1..Len(h)
          BY <2>1
        <4> QED
          BY <2>1, <3>1, <4>1, Joined, ZenonT(30)
      <3>2. CASE i # 1
        <4>1. i - 1 \in 1..Len(t) /\ (i - 1) + 1 = i /\ Len(h) + (i - 1) = i
          BY <2>1, <2>2, <3>2
        <4>2. c[Len(h) + (i - 1)] = t[i - 1]
          BY <2>1, <4>1, Joined, ZenonT(30)
        <4> QED
          BY <2>1, <4>1, <4>2
      <3> QED
        BY <3>1, <3>2
    <2> HIDE DEF c
    <2>4. c = q
      BY <2>2, <2>3, SeqEqual
    <2> QED
      BY <2>4 DEF c, h, t
  <1> QED
    BY <1>2, <1>3, <1>4, Zenon

\* What is in front and what is behind.
LEMMA SplitJoined ==
  ASSUME NEW u \in Seq(Nat), NEW q \in Seq(Nat)
  PROVE  /\ SubSeq(u \o q, 1, Len(u)) = u
         /\ SubSeq(u \o q, Len(u) + 1, Len(u \o q)) = q
  <1> DEFINE c == u \o q
             a == SubSeq(c, 1, Len(u))
             b == SubSeq(c, Len(u) + 1, Len(c))
  <1>1. /\ c \in Seq(Nat) /\ Len(u) \in Nat /\ Len(q) \in Nat /\ Len(c) = Len(u) + Len(q)
        /\ \A i \in 1..Len(u) : c[i] = u[i]
        /\ \A i \in 1..Len(q) : c[Len(u) + i] = q[i]
    BY Joined
  <1> HIDE DEF c
  <1>2. /\ 1 \in 1..(Len(c) + 1) /\ Len(u) \in (1 - 1)..Len(c) /\ (Len(u) - 1) + 1 = Len(u)
        /\ Len(u) + 1 \in 1..(Len(c) + 1) /\ Len(c) \in ((Len(u) + 1) - 1)..Len(c)
        /\ (Len(c) - (Len(u) + 1)) + 1 = Len(q)
    BY <1>1
  <1>3. a \in Seq(Nat) /\ Len(a) = Len(u) /\ \A i \in 1..Len(u) : a[i] = c[(1 + i) - 1]
    BY <1>1, <1>2, Part
  <1>4. b \in Seq(Nat) /\ Len(b) = Len(q) /\ \A i \in 1..Len(q) : b[i] = c[((Len(u) + 1) + i) - 1]
    BY <1>1, <1>2, Part, SMTT(30)
  <1> HIDE DEF a, b
  <1>5. a = u
    <2>1. ASSUME NEW i \in 1..Len(u) PROVE a[i] = u[i]
      <3>1. (1 + i) - 1 = i
        OBVIOUS
      <3> QED
        BY <1>1, <1>3, <3>1
    <2> QED
      BY <1>3, <2>1, SeqEqual
  <1>6. b = q
    <2>1. ASSUME NEW i \in 1..Len(q) PROVE b[i] = q[i]
      <3>1. ((Len(u) + 1) + i) - 1 = Len(u) + i
        BY <1>1
      <3> QED
        BY <1>1, <1>4, <3>1
    <2> QED
      BY <1>4, <2>1, SeqEqual
  <1> QED
    BY <1>5, <1>6 DEF a, b, c

\* The rows of a batch from the i-th on: the i-th and the others.
LEMMA FirstLeft ==
  ASSUME NEW b \in Seq(Nat), NEW i \in 1..Len(b)
  PROVE  /\ SubSeq(b, i, Len(b)) = <<b[i]>> \o SubSeq(b, i + 1, Len(b))
         /\ SubSeq(b, i, Len(b)) \in Seq(Nat) /\ SubSeq(b, i + 1, Len(b)) \in Seq(Nat)
         /\ Len(SubSeq(b, i, Len(b))) = (Len(b) - i) + 1 /\ b[i] \in Nat
         /\ i = Len(b) => SubSeq(b, i + 1, Len(b)) = << >>
  <1>1. Len(b) \in Nat /\ i \in 1..(Len(b) + 1) /\ Len(b) \in (i - 1)..Len(b)
        /\ i + 1 \in 1..(Len(b) + 1) /\ Len(b) \in ((i + 1) - 1)..Len(b) /\ b[i] \in Nat
        /\ Len(b) \in i..Len(b)
    OBVIOUS
  <1>2. SubSeq(b, i, Len(b)) \in Seq(Nat) /\ Len(SubSeq(b, i, Len(b))) = (Len(b) - i) + 1
    BY <1>1, Part
  <1>3. SubSeq(b, i + 1, Len(b)) \in Seq(Nat) /\ Len(SubSeq(b, i + 1, Len(b))) = (Len(b) - (i + 1)) + 1
    BY <1>1, Part
  <1>4. SubSeq(b, i, Len(b)) = <<b[i]>> \o SubSeq(b, i + 1, Len(b))
    BY <1>1, SubSeqRecursiveFirst, Zenon
  <1>5. i = Len(b) => SubSeq(b, i + 1, Len(b)) = << >>
    BY <1>1, SubSeqEmpty
  <1> QED
    BY <1>1, <1>2, <1>3, <1>4, <1>5

\* The first of a joined sequence, and the others.
LEMMA FirstJoined ==
  ASSUME NEW x \in Nat, NEW w \in Seq(Nat)
  PROVE  LET p == <<x>> \o w IN
         /\ p \in Seq(Nat) /\ p # << >> /\ Len(p) = Len(w) + 1
         /\ Head(p) = x /\ Tail(p) = w
         /\ SubSeq(p, 1, 1) = <<x>> /\ SubSeq(p, 2, Len(p)) = w
  <1> DEFINE o == <<x>>
             p == o \o w
             t == Tail(p)
  <1>1. o \in Seq(Nat) /\ Len(o) = 1 /\ o[1] = x /\ 1 \in 1..Len(o)
    OBVIOUS
  <1> HIDE DEF o
  <1>2. /\ p \in Seq(Nat) /\ Len(w) \in Nat /\ Len(p) = Len(o) + Len(w)
        /\ \A i \in 1..Len(o) : p[i] = o[i] /\ \A j \in 1..Len(w) : p[Len(o) + j] = w[j]
    BY <1>1, Joined
  <1>3. SubSeq(p, 1, Len(o)) = o /\ SubSeq(p, Len(o) + 1, Len(p)) = w
    BY <1>1, SplitJoined
  <1> HIDE DEF p
  <1>4. p # << >> /\ p[1] = x /\ Head(p) = p[1]
    BY <1>1, <1>2
  <1>5. t \in Seq(Nat) /\ Len(t) = Len(w) /\ \A i \in 1..Len(t) : t[i] = p[i + 1]
    BY <1>1, <1>2, <1>4, HeadTailProperties
  <1> HIDE DEF t
  <1>6. ASSUME NEW i \in 1..Len(w) PROVE t[i] = w[i]
    <2>1. Len(o) + i = i + 1
      BY <1>1, <1>2
    <2> QED
      BY <1>1, <1>2, <1>5, <2>1
  <1>7. t = w
    BY <1>5, <1>6, SeqEqual
  <1>8. SubSeq(p, 1, 1) = o /\ SubSeq(p, 2, Len(p)) = w
    BY <1>1, <1>3
  <1>9. p = <<x>> \o w /\ o = <<x>>
    BY DEF p, o
  <1>10. Tail(p) = w /\ Len(p) = Len(w) + 1
    BY <1>1, <1>2, <1>7 DEF t
  <1> QED
    BY <1>2, <1>4, <1>8, <1>9, <1>10, Zenon

\* A sequence cut in two.
LEMMA CutAt ==
  ASSUME NEW p \in Seq(Nat), NEW n \in 0..Len(p)
  PROVE  /\ SubSeq(p, 1, n) \in Seq(Nat) /\ SubSeq(p, n + 1, Len(p)) \in Seq(Nat)
         /\ Len(SubSeq(p, 1, n)) = n
         /\ p = SubSeq(p, 1, n) \o SubSeq(p, n + 1, Len(p))
  <1>1. /\ Len(p) \in Nat /\ 1 \in 1..(Len(p) + 1) /\ n \in (1 - 1)..Len(p) /\ (n - 1) + 1 = n
        /\ n + 1 \in 1..(Len(p) + 1) /\ Len(p) \in ((n + 1) - 1)..Len(p)
        /\ Len(p) \in n..Len(p)
    OBVIOUS
  <1>2. /\ SubSeq(p, 1, n) \in Seq(Nat) /\ Len(SubSeq(p, 1, n)) = (n - 1) + 1
    BY <1>1, Part
  <1>3. SubSeq(p, n + 1, Len(p)) \in Seq(Nat)
    BY <1>1, Part
  <1>4. SubSeq(p, 1, n) \o SubSeq(p, n + 1, Len(p)) = SubSeq(p, 1, Len(p))
    BY <1>1, ConcatAdjacentSubSeq
  <1>5. SubSeq(p, 1, Len(p)) = p
    BY SubSeqFull
  <1> QED
    BY <1>1, <1>2, <1>3, <1>4, <1>5

\* The first of a sequence cut off.
LEMMA CutFirst ==
  ASSUME NEW p \in Seq(Nat), p # << >>
  PROVE  Head(p) \in Nat /\ Tail(p) \in Seq(Nat) /\ p = <<Head(p)>> \o Tail(p)
  <1>1. /\ Head(p) \in Nat /\ Tail(p) \in Seq(Nat) /\ Len(p) \in Nat \ {0} /\ Head(p) = p[1]
        /\ 1 \in 1..Len(p) /\ Len(p) \in 1..Len(p)
    BY HeadTailProperties, EmptySeq
  <1>2. SubSeq(p, 1, Len(p)) = <<p[1]>> \o SubSeq(p, 1 + 1, Len(p))
    BY <1>1, SubSeqRecursiveFirst, Zenon
  <1>3. SubSeq(p, 1, Len(p)) = p /\ Tail(p) = SubSeq(p, 2, Len(p)) /\ 1 + 1 = 2
    BY SubSeqFull, TailIsSubSeq
  <1> QED
    BY <1>1, <1>2, <1>3

\* The rows of a sequence, as a set.
LEMMA Ranges ==
  ASSUME NEW a \in Seq(Nat), NEW b \in Seq(Nat), NEW r \in Nat
  PROVE  /\ Range(a \o b) = Range(a) \cup Range(b)
         /\ Range(Append(a, r)) = Range(a) \cup {r}
         /\ Range(<<r>>) = {r} /\ Range(<< >>) = {}
         /\ Range(a) = {a[i] : i \in 1..Len(a)} /\ Range(a) \subseteq Nat
  <1>1. \A s, t \in Seq(Nat) : Range(s \o t) = Range(s) \cup Range(t)
    BY RangeConcatenation
  <1>2. \A s \in Seq(Nat) : Range(s) = {s[i] : i \in 1..Len(s)} /\ Range(s) \subseteq Nat
    BY RangeEquality, RangeOfSeq
  <1>3. <<r>> \in Seq(Nat) /\ << >> \in Seq(Nat) /\ 1..0 = {} /\ 1..1 = {1}
    OBVIOUS
  <1>4. Range(<<r>>) = {r}
    <2> DEFINE o == <<r>>
    <2>1. o \in Seq(Nat) /\ Len(o) = 1 /\ o[1] = r
      OBVIOUS
    <2> HIDE DEF o
    <2>2. Range(o) = {o[i] : i \in 1..1}
      BY <1>2, <2>1
    <2>3. Range(o) = {r}
      BY <1>3, <2>1, <2>2
    <2> QED
      BY <2>3 DEF o
  <1>5. Range(<< >>) = {}
    <2>1. \A x \in Range(<< >>) : FALSE
      BY DEF Range
    <2> QED
      BY <2>1
  <1>6. Append(a, r) = a \o <<r>>
    BY AppendJoins
  <1>7. Range(a \o <<r>>) = Range(a) \cup Range(<<r>>)
    BY <1>1, <1>3, Zenon
  <1> QED
    BY <1>1, <1>2, <1>4, <1>5, <1>6, <1>7

\* The sequence follows the order R.
SortedBy(R, s) == \A i, j \in 1..Len(s) : i < j => <<s[i], s[j]>> \in R

\* Two sequences joined are sorted when each is, and all of the first comes before all of
\* the second.
LEMMA SortedJoined ==
  ASSUME NEW a \in Seq(Nat), NEW b \in Seq(Nat), NEW R
  PROVE  SortedBy(R, a \o b) <=>
            /\ SortedBy(R, a) /\ SortedBy(R, b)
            /\ \A x \in Range(a), y \in Range(b) : <<x, y>> \in R
  <1> DEFINE c == a \o b
  <1>1. /\ Len(a) \in Nat /\ Len(b) \in Nat /\ Len(c) = Len(a) + Len(b)
        /\ \A i \in 1..Len(a) : c[i] = a[i]
        /\ \A i \in 1..Len(b) : c[Len(a) + i] = b[i]
        /\ \A i \in 1..Len(c) :
               i \in 1..Len(a) \/ (i - Len(a) \in 1..Len(b) /\ c[i] = b[i - Len(a)])
    BY Joined
  <1>2. Range(a) = {a[i] : i \in 1..Len(a)} /\ Range(b) = {b[i] : i \in 1..Len(b)}
    BY RangeEquality
  <1> HIDE DEF c
  <1>3. ASSUME SortedBy(R, c)
        PROVE  SortedBy(R, a) /\ SortedBy(R, b) /\ \A x \in Range(a), y \in Range(b) : <<x, y>> \in R
    <2>1. \A i, j \in 1..Len(c) : i < j => <<c[i], c[j]>> \in R
      BY <1>3 DEF SortedBy
    <2>2. ASSUME NEW i \in 1..Len(a), NEW j \in 1..Len(a), i < j PROVE <<a[i], a[j]>> \in R
      <3>1. i \in 1..Len(c) /\ j \in 1..Len(c)
        BY <1>1
      <3> QED
        BY <1>1, <2>1, <2>2, <3>1
    <2>3. ASSUME NEW i \in 1..Len(b), NEW j \in 1..Len(b), i < j PROVE <<b[i], b[j]>> \in R
      <3>1. Len(a) + i \in 1..Len(c) /\ Len(a) + j \in 1..Len(c) /\ Len(a) + i < Len(a) + j
        BY <1>1, <2>3
      <3>2. <<c[Len(a) + i], c[Len(a) + j]>> \in R
        BY <2>1, <3>1
      <3> QED
        BY <1>1, <3>2
    <2>4. ASSUME NEW i \in 1..Len(a), NEW j \in 1..Len(b) PROVE <<a[i], b[j]>> \in R
      <3>1. i \in 1..Len(c) /\ Len(a) + j \in 1..Len(c) /\ i < Len(a) + j
        BY <1>1
      <3>2. <<c[i], c[Len(a) + j]>> \in R
        BY <2>1, <3>1
      <3> QED
        BY <1>1, <3>2
    <2> QED
      BY <1>2, <2>2, <2>3, <2>4 DEF SortedBy
  <1>4. ASSUME SortedBy(R, a), SortedBy(R, b), \A x \in Range(a), y \in Range(b) : <<x, y>> \in R
        PROVE  SortedBy(R, c)
    <2> SUFFICES ASSUME NEW i \in 1..Len(c), NEW j \in 1..Len(c), i < j PROVE <<c[i], c[j]>> \in R
      BY DEF SortedBy
    <2>1. CASE i \in 1..Len(a) /\ j \in 1..Len(a)
      BY <1>1, <1>4, <2>1 DEF SortedBy
    <2>2. CASE i \in 1..Len(a) /\ ~(j \in 1..Len(a))
      <3>1. j - Len(a) \in 1..Len(b) /\ c[j] = b[j - Len(a)] /\ c[i] = a[i]
        BY <1>1, <2>2
      <3>2. b[j - Len(a)] \in Range(b) /\ a[i] \in Range(a)
        BY <1>2, <2>2, <3>1
      <3> QED
        BY <1>4, <3>1, <3>2
    <2>3. CASE ~(i \in 1..Len(a))
      <3>1. ~(j \in 1..Len(a))
        BY <1>1, <2>3
      <3>2. /\ i - Len(a) \in 1..Len(b) /\ c[i] = b[i - Len(a)]
            /\ j - Len(a) \in 1..Len(b) /\ c[j] = b[j - Len(a)]
        BY <1>1, <2>3, <3>1
      <3>3. i - Len(a) < j - Len(a)
        BY <1>1
      <3>4. <<b[i - Len(a)], b[j - Len(a)]>> \in R
        BY <1>4, <3>2, <3>3 DEF SortedBy
      <3> QED
        BY <3>2, <3>4
    <2> QED
      BY <2>1, <2>2, <2>3
  <1> QED
    BY <1>3, <1>4 DEF c

-----------------------------------------------------------------------------
(* Induction and recursion up to a bound.                                  *)

\* What holds at 0 and goes on from each number to the next holds up to n.
LEMMA UpTo ==
  ASSUME NEW T, NEW n \in Nat, 0 \in T, \A k \in 1..n : k - 1 \in T => k \in T
  PROVE  \A k \in 0..n : k \in T
  <1> DEFINE Out == {k \in 0..n : k \notin T}
  <1> SUFFICES ASSUME Out # {} PROVE FALSE
    OBVIOUS
  <1>0. Out \subseteq Nat
    OBVIOUS
  <1>1. PICK k \in Out : \A j \in Out : k <= j
    <2> HIDE DEF Out
    <2> QED
      BY <1>0, FirstExists
  <1>2. k \in 1..n /\ k - 1 \in 0..n /\ ~(k <= k - 1)
    BY <1>1
  <1>3. k - 1 \notin Out
    BY <1>1, <1>2
  <1>4. k - 1 \in T
    BY <1>2, <1>3
  <1> QED
    BY <1>1, <1>2, <1>4

\* A function can be defined from 0 up to n by its first value and its steps.
Follows(f, n, S, a, g) ==
    f \in [0..n -> S] /\ f[0] = a /\ \A k \in 1..n : f[k] = g[k][f[k - 1]]

LEMMA RecursionExists ==
  ASSUME NEW S, NEW a \in S, NEW n \in Nat, NEW g \in [1..n -> [S -> S]]
  PROVE  \E f : Follows(f, n, S, a, g)
  <1> DEFINE Good(m) == \E f \in [0..m -> S] : f[0] = a /\ \A k \in 1..m : f[k] = g[k][f[k - 1]]
             T == {m \in 0..n : Good(m)}
  <1>1. 0 \in T
    <2> DEFINE f == [k \in 0..0 |-> a]
    <2>1. f \in [0..0 -> S] /\ f[0] = a /\ \A k \in 1..0 : f[k] = g[k][f[k - 1]]
      OBVIOUS
    <2> HIDE DEF f
    <2>2. Good(0)
      BY <2>1
    <2> QED
      BY <2>2
  <1>2. ASSUME NEW m \in 1..n, m - 1 \in T PROVE m \in T
    <2>1. PICK f \in [0..(m - 1) -> S] :
             f[0] = a /\ \A k \in 1..(m - 1) : f[k] = g[k][f[k - 1]]
      BY <1>2
    <2>2. m \in Nat /\ m - 1 \in 0..(m - 1) /\ g[m] \in [S -> S] /\ f[m - 1] \in S
      BY <2>1
    <2> DEFINE h == [k \in 0..m |-> IF k = m THEN g[m][f[m - 1]] ELSE f[k]]
    <2>3. h \in [0..m -> S]
      BY <2>1, <2>2
    <2>4. h[0] = a
      BY <2>1, <2>2
    <2>5. ASSUME NEW k \in 1..m PROVE h[k] = g[k][h[k - 1]]
      <3>1. k \in 0..m /\ k - 1 \in 0..m /\ k - 1 # m /\ h[k - 1] = f[k - 1]
        BY <2>2
      <3>2. CASE k = m
        BY <3>1, <3>2
      <3>3. CASE k # m
        <4>1. k \in 1..(m - 1) /\ h[k] = f[k]
          BY <2>2, <3>1, <3>3
        <4> QED
          BY <2>1, <3>1, <4>1
      <3> QED
        BY <3>2, <3>3
    <2> HIDE DEF h
    <2>6. Good(m)
      BY <2>3, <2>4, <2>5
    <2> HIDE DEF Good
    <2> QED
      BY <2>6
  <1> HIDE DEF T
  <1>3. \A k \in 0..n : k \in T
    BY <1>1, <1>2, UpTo
  <1>4. n \in T
    BY <1>3
  <1> QED
    BY <1>4 DEF T, Follows

=============================================================================
