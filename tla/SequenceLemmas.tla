--------------------------- MODULE SequenceLemmas ---------------------------
(***************************************************************************)
(* What the proofs about byte streams need of numbers and sequences:       *)
(* induction, with the property to be proved given as a set, and that      *)
(* recursive functions obey their definitions.                             *)
(***************************************************************************)
EXTENDS Integers, SequencesExt, SequenceTheorems, WellFoundedInduction, TLAPS

\* Every non-empty set of naturals has a least element.
LEMMA LeastElement ==
  ASSUME NEW T \in SUBSET Nat, T # {}
  PROVE  \E n \in T : \A m \in T : n <= m
<1> DEFINE R == {ss \in Nat \X Nat : ss[1] < ss[2]}
<1>1. IsWellFoundedOn(R, Nat)
  BY NatLessThanWellFounded DEF OpToRel
<1>2. \A x, y \in Nat : x < y => <<x, y>> \in R
  OBVIOUS
<1> HIDE DEF R
<1>3. PICK n \in T : \A m \in T : <<m, n>> \notin R
  BY <1>1, WFMin
<1>4. ASSUME NEW m \in T PROVE n <= m
  <2>1. m \in Nat /\ n \in Nat
    OBVIOUS
  <2>2. <<m, n>> \notin R
    BY <1>3
  <2>3. ~(m < n)
    BY <1>2, <2>1, <2>2
  <2> QED
    BY <2>1, <2>3
<1> QED
  BY <1>4

\* Induction over the naturals.
LEMMA CountingUp ==
  ASSUME NEW S, 0 \in S, \A n \in Nat : n \in S => n + 1 \in S
  PROVE  Nat \subseteq S
<1> SUFFICES ASSUME Nat \ S # {} PROVE FALSE
  OBVIOUS
<1>1. PICK n \in Nat \ S : \A m \in Nat \ S : n <= m
  BY LeastElement
<1>2. n # 0 /\ n - 1 \in Nat
  BY <1>1
<1>3. n - 1 \in S
  BY <1>1, <1>2
<1> QED
  BY <1>1, <1>2, <1>3

\* Induction over the sequences, which grow at their ends.
LEMMA GrowingAtTheEnd ==
  ASSUME NEW A, NEW S, <<>> \in S,
         \A s \in Seq(A), a \in A : s \in S => Append(s, a) \in S
  PROVE  Seq(A) \subseteq S
<1> DEFINE N == {n \in Nat : \A s \in Seq(A) : Len(s) = n => s \in S}
<1>1. 0 \in N
  BY EmptySeq
<1>2. ASSUME NEW n \in Nat, n \in N PROVE n + 1 \in N
  <2> SUFFICES ASSUME NEW s \in Seq(A), Len(s) = n + 1 PROVE s \in S
    OBVIOUS
  <2>1. PICK t \in Seq(A), a \in A : s = Append(t, a)
    BY SequenceEmptyOrAppend, SMTT(30)
  <2>2. Len(t) = n
    BY <2>1
  <2> QED
    BY <1>2, <2>1, <2>2
<1> HIDE DEF N
<1>3. Nat \subseteq N
  BY <1>1, <1>2, CountingUp
<1> QED
  BY <1>3 DEF N

LEMMA ConcatAppend ==
  ASSUME NEW A, NEW s \in Seq(A), NEW t \in Seq(A), NEW a \in A
  PROVE  s \o Append(t, a) = Append(s \o t, a)
OBVIOUS

LEMMA FrontLastOfAppend ==
  ASSUME NEW A, NEW s \in Seq(A), NEW a \in A
  PROVE  Front(Append(s, a)) = s /\ Last(Append(s, a)) = a
<1> DEFINE t == Append(s, a)
<1>1. Len(t) = Len(s) + 1 /\ t[Len(t)] = a
  OBVIOUS
<1>2. SubSeq(t, 1, Len(t) - 1) = s
  OBVIOUS
<1> QED
  BY <1>1, <1>2 DEF Front, Last

LEMMA FrontLast ==
  ASSUME NEW A, NEW s \in Seq(A), s # <<>>
  PROVE  /\ Front(s) \in Seq(A) /\ Last(s) \in A
         /\ s = Append(Front(s), Last(s))
         /\ Len(s) \in Nat \ {0} /\ Len(Front(s)) = Len(s) - 1
<1>1. PICK t \in Seq(A), a \in A : s = Append(t, a)
  BY SequenceEmptyOrAppend, SMTT(30)
<1>2. Front(s) = t /\ Last(s) = a
  BY <1>1, FrontLastOfAppend
<1>3. Len(s) = Len(t) + 1 /\ Len(t) \in Nat
  BY <1>1
<1> QED
  BY <1>1, <1>2, <1>3

LEMMA ConcatClosed == \A A : \A x, y \in Seq(A) : x \o y \in Seq(A)
BY ConcatProperties

\* A sequence cut in two.
LEMMA CutInTwo ==
  ASSUME NEW A, NEW s \in Seq(A), NEW n \in 0..Len(s)
  PROVE  /\ SubSeq(s, 1, n) \in Seq(A) /\ Len(SubSeq(s, 1, n)) = n
         /\ SubSeq(s, n + 1, Len(s)) \in Seq(A)
         /\ Len(SubSeq(s, n + 1, Len(s))) = Len(s) - n
         /\ s = SubSeq(s, 1, n) \o SubSeq(s, n + 1, Len(s))
<1>1. Len(s) \in Nat /\ n \in Int /\ Len(s) \in Int /\ 1 \in Int /\ n + 1 \in Int
  BY LenProperties
<1>2. \A i \in 1..Len(s) : s[i] \in A
  BY ElementOfSeq
<1>3. SubSeq(s, 1, n) \in Seq(A) /\ Len(SubSeq(s, 1, n)) = IF 1 <= n THEN n - 1 + 1 ELSE 0
  BY <1>1, <1>2, SubSeqProperties
<1>4. /\ SubSeq(s, n + 1, Len(s)) \in Seq(A)
      /\ Len(SubSeq(s, n + 1, Len(s))) =
           IF n + 1 <= Len(s) THEN Len(s) - (n + 1) + 1 ELSE 0
  BY <1>1, <1>2, SubSeqProperties
<1>5. SubSeq(s, 1, n) \o SubSeq(s, n + 1, Len(s)) = SubSeq(s, 1, Len(s))
  <2>1. 1 \in 1..(Len(s) + 1) /\ n \in (1 - 1)..Len(s) /\ Len(s) \in n..Len(s)
    BY <1>1
  <2> QED
    BY <2>1, ConcatAdjacentSubSeq
<1>6. SubSeq(s, 1, Len(s)) = s
  BY SubSeqFull
<1>7. (IF 1 <= n THEN n - 1 + 1 ELSE 0) = n
  BY <1>1
<1>8. (IF n + 1 <= Len(s) THEN Len(s) - (n + 1) + 1 ELSE 0) = Len(s) - n
  BY <1>1
<1> DEFINE a == SubSeq(s, 1, n)
           b == SubSeq(s, n + 1, Len(s))
<1>9. a \in Seq(A) /\ Len(a) = n /\ b \in Seq(A) /\ Len(b) = Len(s) - n
  BY <1>3, <1>4, <1>7, <1>8
<1>10. s = a \o b
  BY <1>5, <1>6, Zenon
<1> HIDE DEF a, b
<1>11. a \in Seq(A) /\ Len(a) = n /\ b \in Seq(A) /\ Len(b) = Len(s) - n /\ s = a \o b
  BY <1>9, <1>10
<1> QED
  BY <1>11, Zenon DEF a, b

\* The parts of a concatenation.
LEMMA PartsOfConcat ==
  ASSUME NEW A, NEW s \in Seq(A), NEW t \in Seq(A)
  PROVE  /\ Len(s \o t) = Len(s) + Len(t) /\ Len(s) \in 0..Len(s \o t)
         /\ SubSeq(s \o t, 1, Len(s)) = s
         /\ SubSeq(s \o t, Len(s) + 1, Len(s \o t)) = t
<1> DEFINE u == s \o t
           a == SubSeq(u, 1, Len(s))
           b == SubSeq(u, Len(s) + 1, Len(u))
<1>1. u \in Seq(A) /\ Len(u) = Len(s) + Len(t) /\ Len(s) \in Nat /\ Len(t) \in Nat
  BY ConcatProperties, LenProperties
<1>2. \A i \in 1..(Len(s) + Len(t)) : u[i] = IF i <= Len(s) THEN s[i] ELSE t[i - Len(s)]
  BY ConcatProperties
<1>3. Len(s) \in 0..Len(u)
  BY <1>1
<1> HIDE DEF u
<1>4. a \in Seq(A) /\ Len(a) = Len(s) /\ b \in Seq(A) /\ Len(b) = Len(t)
  BY <1>1, <1>3, CutInTwo
<1>5. ASSUME NEW i \in 1..Len(s) PROVE a[i] = s[i]
  BY <1>1, <1>2, <1>4
<1>6. ASSUME NEW i \in 1..Len(t) PROVE b[i] = t[i]
  <2>1. b[i] = u[Len(s) + i]
    BY <1>1, <1>4
  <2> QED
    BY <1>1, <1>2, <2>1
<1>7. a = s
  <2> HIDE DEF a
  <2> QED
    BY <1>4, <1>5, SeqEqual
<1>8. b = t
  <2> HIDE DEF b
  <2> QED
    BY <1>4, <1>6, SeqEqual
<1> QED
  BY <1>1, <1>3, <1>7, <1>8 DEF u

LEMMA FirstTwo ==
  ASSUME NEW A, NEW s \in Seq(A), Len(s) >= 2
  PROVE  SubSeq(s, 1, 2) = <<s[1], s[2]>>
<1>1. 2 \in 0..Len(s) /\ 1 \in 1..Len(s) /\ 2 \in 1..Len(s)
  BY LenProperties
<1>2. SubSeq(s, 1, 2) \in Seq(A) /\ Len(SubSeq(s, 1, 2)) = 2
  BY <1>1, CutInTwo
<1>3. \A i \in 1..2 : SubSeq(s, 1, 2)[i] = s[i]
  <2>1. \A i \in 1..2 : s[i] \in A
    BY <1>1, ElementOfSeq
  <2>2. \A i \in 1..(2 - 1 + 1) : SubSeq(s, 1, 2)[i] = s[1 + i - 1]
    BY <2>1, SubSeqProperties
  <2> QED
    BY <2>2
<1>4. <<s[1], s[2]>> \in Seq(A) /\ Len(<<s[1], s[2]>>) = 2
  BY <1>1
<1>5. \A i \in 1..2 : SubSeq(s, 1, 2)[i] = <<s[1], s[2]>>[i]
  BY <1>3
<1> DEFINE a == SubSeq(s, 1, 2)
           b == <<s[1], s[2]>>
<1>6. a \in Seq(A) /\ b \in Seq(A) /\ Len(a) = Len(b) /\ \A i \in 1..Len(a) : a[i] = b[i]
  BY <1>2, <1>4, <1>5
<1> HIDE DEF a, b
<1>7. a = b
  BY <1>6, SeqEqual
<1> QED
  BY <1>7 DEF a, b

\* An element more.
LEMMA OneMore ==
  ASSUME NEW A, NEW s \in Seq(A), NEW a \in A, NEW t, t = Append(s, a)
  PROVE  Len(t) = Len(s) + 1 /\ SubSeq(t, 1, Len(s)) = s /\ t[Len(t)] \in A
<1>1. Len(t) = Len(s) + 1 /\ t[Len(t)] = a
  BY AppendProperties
<1>2. t = s \o <<a>> /\ <<a>> \in Seq(A)
  BY AppendIsConcat
<1>3. SubSeq(t, 1, Len(s)) = s
  BY <1>2, PartsOfConcat
<1> QED
  BY <1>1, <1>3

\* A longer beginning of a sequence.
LEMMA LongerBeginning ==
  ASSUME NEW A, NEW s \in Seq(A), NEW h \in Seq(A), NEW more \in Seq(A), h # <<>>
  PROVE  \E n \in 1..(Len((s \o h) \o more) - Len(s)) :
           s \o h = SubSeq((s \o h) \o more, 1, Len(s) + n)
<1> DEFINE p == s \o h
           c == p \o more
<1>1. p \in Seq(A) /\ Len(p) = Len(s) + Len(h)
  BY ConcatProperties
<1>2. Len(s) \in Nat /\ Len(h) \in Nat /\ Len(h) # 0 /\ Len(more) \in Nat
  BY EmptySeq, LenProperties
<1> HIDE DEF p
<1>3. c = p \o more
  OBVIOUS
<1> HIDE DEF c
<1>4. Len(c) = Len(p) + Len(more) /\ SubSeq(c, 1, Len(p)) = p
  <2>1. Len(p \o more) = Len(p) + Len(more) /\ SubSeq(p \o more, 1, Len(p)) = p
    BY <1>1, PartsOfConcat
  <2> QED
    BY <1>3, <2>1, Zenon
<1>5. Len(h) \in 1..(Len(c) - Len(s)) /\ SubSeq(c, 1, Len(s) + Len(h)) = p
  BY <1>1, <1>2, <1>4
<1>6. \E n \in 1..(Len(c) - Len(s)) : p = SubSeq(c, 1, Len(s) + n)
  BY <1>5
<1> QED
  BY <1>6, Zenon DEF p, c

\* f starts with v and goes on with step.
Runs(f, V, v, step) ==
  f \in [Nat -> V] /\ f[0] = v /\ \A n \in Nat : f[n + 1] = step[n][f[n]]

\* There is such a function.
LEMMA Recursion ==
  ASSUME NEW V, NEW v \in V, NEW step \in [Nat -> [V -> V]]
  PROVE  \E f : Runs(f, V, v, step)
<1> DEFINE Good(n, g) == /\ g \in [0..n -> V] /\ g[0] = v
                         /\ \A i \in 0..(n-1) : g[i + 1] = step[i][g[i]]
           S == {n \in Nat : \E g : Good(n, g)}
<1>1. 0 \in S
  <2>1. Good(0, [i \in 0..0 |-> v])
    OBVIOUS
  <2> QED BY <2>1
<1>2. ASSUME NEW n \in Nat, n \in S PROVE n + 1 \in S
  <2>1. PICK g : Good(n, g)
    BY <1>2
  <2> DEFINE h == [i \in 0..(n+1) |-> IF i = n + 1 THEN step[n][g[n]] ELSE g[i]]
  <2>2. g[n] \in V /\ step[n][g[n]] \in V
    BY <2>1
  <2>3. h \in [0..(n+1) -> V] /\ h[0] = v
    BY <2>1, <2>2
  <2>4. ASSUME NEW i \in 0..n PROVE h[i+1] = step[i][h[i]]
    <3>1. CASE i = n
      BY <3>1
    <3>2. CASE i # n
      <4>1. i \in 0..(n-1) /\ i + 1 \in 0..(n+1) /\ i \in 0..(n+1)
        BY <3>2
      <4>2. g[i+1] = step[i][g[i]]
        BY <2>1, <4>1
      <4>3. h[i+1] = g[i+1] /\ h[i] = g[i]
        BY <3>2, <4>1
      <4> QED
        BY <4>2, <4>3
    <3> QED BY <3>1, <3>2
  <2>5. Good(n + 1, h)
    <3> HIDE DEF h
    <3>1. \A i \in 0..((n + 1) - 1) : h[i + 1] = step[i][h[i]]
      BY <2>4
    <3> QED
      BY <2>3, <3>1
  <2>6. \E w : Good(n + 1, w)
    <3> HIDE DEF h, Good
    <3> QED BY <2>5
  <2> QED BY <2>6
<1>3. \A n \in Nat : \E g : Good(n, g)
  <2> HIDE DEF S
  <2>1. Nat \subseteq S
    BY <1>1, <1>2, CountingUp
  <2> QED BY <2>1 DEF S
<1>4. ASSUME NEW m \in Nat, NEW n \in Nat, NEW g, NEW h, Good(m, g), Good(n, h), m <= n
      PROVE  \A i \in 0..m : g[i] = h[i]
  <2> DEFINE U == {i \in Nat : i <= m => g[i] = h[i]}
  <2>1. 0 \in U
    BY <1>4
  <2>2. ASSUME NEW i \in Nat, i \in U PROVE i + 1 \in U
    <3> SUFFICES ASSUME i + 1 <= m PROVE g[i+1] = h[i+1]
      OBVIOUS
    <3>1. i \in 0..(m-1) /\ i \in 0..(n-1) /\ i <= m
      BY <1>4
    <3> QED BY <1>4, <2>2, <3>1
  <2> HIDE DEF U
  <2>3. Nat \subseteq U
    BY <2>1, <2>2, CountingUp
  <2> QED BY <2>3 DEF U
<1> DEFINE G(n) == CHOOSE g : Good(n, g)
           f == [n \in Nat |-> G(n)[n]]
<1>5. ASSUME NEW n \in Nat PROVE Good(n, G(n))
  <2> HIDE DEF Good
  <2> QED BY <1>3, Zenon
<1> HIDE DEF G
<1>6. f \in [Nat -> V]
  BY <1>5
<1>7. f[0] = v
  BY <1>5
<1>8. ASSUME NEW n \in Nat PROVE f[n+1] = step[n][f[n]]
  <2>1. G(n+1)[n+1] = step[n][G(n+1)[n]]
    <3>1. n \in 0..((n+1) - 1)
      OBVIOUS
    <3> QED BY <1>5, <3>1
  <2>2. G(n)[n] = G(n+1)[n]
    <3>1. n <= n + 1 /\ n \in 0..n
      OBVIOUS
    <3> HIDE DEF Good
    <3> QED BY <1>4, <1>5, <3>1
  <2> QED BY <2>1, <2>2
<1>9. Runs(f, V, v, step)
  BY <1>6, <1>7, <1>8 DEF Runs
<1> HIDE DEF f
<1> QED BY <1>9

\* The same up to N, as a recursive function is written.
RunsUpTo(f, N, V, v, step) ==
  /\ f \in [0..N -> V]
  /\ f = [n \in 0..N |-> IF n = 0 THEN v ELSE step[n][f[n - 1]]]

LEMMA RecursionUpTo ==
  ASSUME NEW N \in Nat, NEW V, NEW v \in V, NEW step \in [Nat -> [V -> V]]
  PROVE  \E f : RunsUpTo(f, N, V, v, step)
<1> DEFINE next == [n \in Nat |-> step[n + 1]]
<1>1. next \in [Nat -> [V -> V]]
  OBVIOUS
<1> HIDE DEF next
<1>2. PICK g : Runs(g, V, v, next)
  BY <1>1, Recursion
<1> DEFINE f == [n \in 0..N |-> g[n]]
<1>3. ASSUME NEW n \in 0..N, n # 0 PROVE f[n] = step[n][f[n - 1]]
  <2>1. n - 1 \in Nat /\ n - 1 \in 0..N /\ (n - 1) + 1 = n
    BY <1>3
  <2>2. g[(n - 1) + 1] = next[n - 1][g[n - 1]]
    BY <1>2, <2>1 DEF Runs
  <2>3. next[n - 1] = step[(n - 1) + 1]
    BY <2>1 DEF next
  <2> QED
    BY <2>1, <2>2, <2>3
<1>4. f \in [0..N -> V] /\ f[0] = v
  BY <1>2 DEF Runs
<1>5. f = [n \in 0..N |-> f[n]]
  OBVIOUS
<1> HIDE DEF f
<1>6. f = [n \in 0..N |-> IF n = 0 THEN v ELSE step[n][f[n - 1]]]
  BY <1>3, <1>4, <1>5
<1> QED
  BY <1>4, <1>6 DEF RunsUpTo

\* Two functions that start alike and go on alike are alike.
LEMMA SameRecursion ==
  ASSUME NEW M \in Nat, NEW f, NEW g, f[0] = g[0],
         \A n \in Nat : n < M /\ f[n] = g[n] => f[n + 1] = g[n + 1]
  PROVE  f[M] = g[M]
<1> DEFINE U == {i \in Nat : i <= M => f[i] = g[i]}
<1>1. 0 \in U
  OBVIOUS
<1>2. ASSUME NEW i \in Nat, i \in U PROVE i + 1 \in U
  BY <1>2
<1> HIDE DEF U
<1>3. Nat \subseteq U
  BY <1>1, <1>2, CountingUp
<1> QED
  BY <1>3 DEF U

-----------------------------------------------------------------------------
(* FlattenSeq.                                                             *)

\* f[n] is the concatenation of the first n elements of ss.
Flattens(f, A, ss) ==
  /\ f \in [0..Len(ss) -> Seq(A)]
  /\ f[0] = <<>>
  /\ \A n \in 1..Len(ss) : f[n] = f[n - 1] \o ss[n]
  /\ FlattenSeq(ss) = f[Len(ss)]

LEMMA FlattenUnfolds ==
  ASSUME NEW A, NEW ss \in Seq(Seq(A))
  PROVE  \E f : Flattens(f, A, ss)
<1> DEFINE N == Len(ss)
           step == [n \in Nat |-> [x \in Seq(A) |-> IF n \in 1..N THEN x \o ss[n] ELSE x]]
<1>1. step \in [Nat -> [Seq(A) -> Seq(A)]]
  OBVIOUS
<1>2. N \in Nat /\ <<>> \in Seq(A)
  OBVIOUS
<1> HIDE DEF step
<1>3. PICK f : RunsUpTo(f, N, Seq(A), <<>>, step)
  BY <1>1, <1>2, RecursionUpTo
<1>4. f \in [0..N -> Seq(A)] /\ f[0] = <<>>
  BY <1>2, <1>3 DEF RunsUpTo
<1>5. ASSUME NEW n \in 1..N PROVE f[n] = f[n - 1] \o ss[n]
  <2>1. n \in 0..N /\ n # 0 /\ n \in Nat /\ n - 1 \in 0..N
    BY <1>2
  <2>2. f[n] = step[n][f[n - 1]]
    BY <1>3, <2>1 DEF RunsUpTo
  <2>3. f[n - 1] \in Seq(A)
    BY <1>4, <2>1
  <2> QED
    BY <2>1, <2>2, <2>3 DEF step
<1>6. ASSUME N # 0 PROVE f[1] = f[0] \o ss[1] /\ ss[1] \in Seq(A)
  <2>1. 1 \in 1..N /\ 1 - 1 = 0
    BY <1>2, <1>6
  <2>2. f[1] = f[1 - 1] \o ss[1]
    BY <1>5, <2>1
  <2> QED
    BY <2>1, <2>2
<1>7. CASE N = 0
  <2>1. ss = <<>>
    BY <1>7
  <2> QED
    BY <1>4, <1>5, <1>7, <2>1 DEF FlattenSeq, Flattens
<1>8. CASE N # 0
  <2> DEFINE Body(g) == [i \in 1..Len(ss) |-> IF i = 1 THEN ss[i] ELSE g[i - 1] \o ss[i]]
             flatten == CHOOSE g : g = Body(g)
             h == [i \in 1..Len(ss) |-> f[i]]
  <2>1. FlattenSeq(ss) = flatten[Len(ss)]
    BY <1>8 DEF FlattenSeq
  <2>2. h = Body(h)
    <3>1. ASSUME NEW i \in 1..Len(ss) PROVE h[i] = IF i = 1 THEN ss[i] ELSE h[i - 1] \o ss[i]
      <4>1. CASE i = 1
        <5>1. f[1] = f[0] \o ss[1] /\ ss[1] \in Seq(A)
          BY <1>6, <1>8
        <5> QED
          BY <1>4, <4>1, <5>1
      <4>2. CASE i # 1
        <5>1. i - 1 \in 1..Len(ss)
          BY <4>2
        <5> QED
          BY <1>5, <4>2, <5>1
      <4> QED
        BY <4>1, <4>2
    <3> QED
      BY <3>1
  <2>3. flatten = Body(flatten)
    <3> HIDE DEF h, Body
    <3> QED
      BY <2>2, Zenon
  <2> HIDE DEF flatten
  <2>4. f[1] = flatten[1]
    <3>1. f[1] = f[0] \o ss[1] /\ ss[1] \in Seq(A)
      BY <1>6, <1>8
    <3> QED
      BY <1>4, <1>8, <2>3, <3>1
  <2> DEFINE F == [i \in 0..(N - 1) |-> f[i + 1]]
             G == [i \in 0..(N - 1) |-> flatten[i + 1]]
  <2>5. N - 1 \in Nat
    BY <1>2, <1>8
  <2>6. F[0] = G[0]
    BY <2>4, <2>5
  <2>7. ASSUME NEW n \in Nat, n < N - 1, F[n] = G[n] PROVE F[n + 1] = G[n + 1]
    <3>1. (n + 2) \in 1..N /\ (n + 2) - 1 = n + 1 /\ n + 2 # 1
      BY <1>2, <2>7
    <3>2. f[n + 2] = f[n + 1] \o ss[n + 2]
      BY <1>5, <3>1
    <3>3. flatten[n + 2] = flatten[n + 1] \o ss[n + 2]
      BY <2>3, <3>1
    <3>4. n \in 0..(N - 1) /\ n + 1 \in 0..(N - 1) /\ (n + 1) + 1 = n + 2
      BY <1>2, <2>7
    <3> QED
      BY <2>7, <3>2, <3>3, <3>4
  <2>8. F[N - 1] = G[N - 1]
    <3> HIDE DEF F, G, N
    <3> QED
      BY <2>5, <2>6, <2>7, SameRecursion
  <2>9. f[Len(ss)] = flatten[Len(ss)]
    <3>1. N - 1 \in 0..(N - 1) /\ (N - 1) + 1 = Len(ss)
      BY <2>5
    <3> QED
      BY <2>8, <3>1
  <2> QED
    BY <1>4, <1>5, <2>1, <2>9 DEF Flattens
<1> QED
  BY <1>7, <1>8

LEMMA FlattenEmpty == FlattenSeq(<<>>) = <<>>
BY DEF FlattenSeq

LEMMA FlattenType ==
  ASSUME NEW A, NEW ss \in Seq(Seq(A))
  PROVE  FlattenSeq(ss) \in Seq(A)
<1>1. PICK f : Flattens(f, A, ss)
  BY FlattenUnfolds
<1>2. Len(ss) \in 0..Len(ss)
  OBVIOUS
<1> QED
  BY <1>1, <1>2 DEF Flattens

LEMMA FlattenAppend ==
  ASSUME NEW A, NEW ss \in Seq(Seq(A)), NEW s \in Seq(A)
  PROVE  FlattenSeq(Append(ss, s)) = FlattenSeq(ss) \o s
<1> DEFINE tt == Append(ss, s)
           N == Len(ss)
<1>1. /\ tt \in Seq(Seq(A)) /\ Len(tt) = N + 1 /\ tt[N + 1] = s
      /\ N \in Nat /\ \A n \in 1..N : tt[n] = ss[n]
  BY AppendProperties
<1>2. PICK f : Flattens(f, A, ss)
  BY FlattenUnfolds
<1> HIDE DEF tt
<1>3. PICK g : Flattens(g, A, tt)
  BY <1>1, FlattenUnfolds
<1>4. ASSUME NEW n \in Nat, n < N, f[n] = g[n] PROVE f[n + 1] = g[n + 1]
  <2>1. n + 1 \in 1..N /\ n + 1 \in 1..(N + 1) /\ (n + 1) - 1 = n
    BY <1>1, <1>4
  <2>2. f[n + 1] = f[n] \o ss[n + 1] /\ g[n + 1] = g[n] \o tt[n + 1]
    BY <1>1, <1>2, <1>3, <2>1 DEF Flattens
  <2> QED
    BY <1>1, <1>4, <2>1, <2>2
<1>5. f[N] = g[N]
  <2>1. f[0] = g[0]
    BY <1>2, <1>3 DEF Flattens
  <2> HIDE DEF N
  <2> QED
    BY <1>1, <1>4, <2>1, SameRecursion
<1>6. g[N + 1] = g[N] \o s
  <2>1. N + 1 \in 1..(N + 1) /\ (N + 1) - 1 = N
    BY <1>1
  <2> QED
    BY <1>1, <1>3, <2>1 DEF Flattens
<1>7. FlattenSeq(tt) = g[N + 1] /\ FlattenSeq(ss) = f[N]
  BY <1>1, <1>2, <1>3 DEF Flattens
<1> QED
  BY <1>5, <1>6, <1>7 DEF tt

LEMMA FlattenConcat ==
  ASSUME NEW A, NEW ss \in Seq(Seq(A)), NEW tt \in Seq(Seq(A))
  PROVE  FlattenSeq(ss \o tt) = FlattenSeq(ss) \o FlattenSeq(tt)
<1> DEFINE S == {t \in Seq(Seq(A)) : FlattenSeq(ss \o t) = FlattenSeq(ss) \o FlattenSeq(t)}
<1>1. <<>> \in S
  <2>1. ss \o <<>> = ss /\ <<>> \in Seq(Seq(A))
    OBVIOUS
  <2>2. FlattenSeq(ss) \o <<>> = FlattenSeq(ss)
    BY FlattenType, ConcatEmptySeq
  <2> QED
    BY <2>1, <2>2, FlattenEmpty
<1>2. ASSUME NEW t \in Seq(Seq(A)), NEW s \in Seq(A), t \in S PROVE Append(t, s) \in S
  <2>1. ss \o t \in Seq(Seq(A)) /\ Append(t, s) \in Seq(Seq(A))
    OBVIOUS
  <2>2. ss \o Append(t, s) = Append(ss \o t, s)
    OBVIOUS
  <2>3. FlattenSeq(ss \o Append(t, s)) = (FlattenSeq(ss) \o FlattenSeq(t)) \o s
    BY <1>2, <2>1, <2>2, FlattenAppend
  <2>4. FlattenSeq(Append(t, s)) = FlattenSeq(t) \o s
    BY FlattenAppend
  <2>5. FlattenSeq(ss) \in Seq(A) /\ FlattenSeq(t) \in Seq(A)
    BY FlattenType
  <2>6. (FlattenSeq(ss) \o FlattenSeq(t)) \o s = FlattenSeq(ss) \o (FlattenSeq(t) \o s)
    BY <2>5, ConcatAssociative
  <2> QED
    BY <2>1, <2>3, <2>4, <2>6
<1> HIDE DEF S
<1>3. Seq(Seq(A)) \subseteq S
  BY <1>1, <1>2, GrowingAtTheEnd
<1> QED
  BY <1>3 DEF S

=============================================================================
