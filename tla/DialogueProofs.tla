--------------------------- MODULE DialogueProofs ---------------------------
(***************************************************************************)
(* Proofs about LineFraming and Dialogue, for any number of bytes, any     *)
(* limit of recv and any number of notices.                                *)
(***************************************************************************)
EXTENDS Dialogue, SequenceLemmas

-----------------------------------------------------------------------------
(* Only.                                                                   *)

\* f[n] is what is in S of the first n elements of s.
Selects(f, A, s, S) ==
  /\ f \in [0..Len(s) -> Seq(A)]
  /\ f[0] = <<>>
  /\ \A n \in 1..Len(s) :
       f[n] = IF s[n] \in S THEN Append(f[n - 1], s[n]) ELSE f[n - 1]
  /\ Only(s, S) = f[Len(s)]

LEMMA OnlyUnfolds ==
  ASSUME NEW A, NEW s \in Seq(A), NEW S
  PROVE  \E f : Selects(f, A, s, S)
<1> DEFINE N == Len(s)
           step == [n \in Nat |-> [x \in Seq(A) |->
                      IF n \in 1..N /\ s[n] \in S THEN Append(x, s[n]) ELSE x]]
           Body(g) == [n \in 0..Len(s) |->
                         IF n = 0 THEN <<>>
                         ELSE IF s[n] \in S THEN Append(g[n - 1], s[n]) ELSE g[n - 1]]
           only == CHOOSE g : g = Body(g)
<1>1. step \in [Nat -> [Seq(A) -> Seq(A)]]
  OBVIOUS
<1>2. N \in Nat /\ <<>> \in Seq(A)
  OBVIOUS
<1> HIDE DEF step
<1>3. PICK f : RunsUpTo(f, N, Seq(A), <<>>, step)
  BY <1>1, <1>2, RecursionUpTo
<1>4. f \in [0..N -> Seq(A)] /\ f[0] = <<>>
  BY <1>2, <1>3 DEF RunsUpTo
<1>5. ASSUME NEW n \in 1..N
      PROVE  f[n] = IF s[n] \in S THEN Append(f[n - 1], s[n]) ELSE f[n - 1]
  <2>1. n \in 0..N /\ n # 0 /\ n \in Nat /\ n - 1 \in 0..N
    BY <1>2
  <2>2. f[n] = step[n][f[n - 1]]
    BY <1>3, <2>1 DEF RunsUpTo
  <2>3. f[n - 1] \in Seq(A)
    BY <1>4, <2>1
  <2> QED
    BY <2>1, <2>2, <2>3 DEF step
<1>6. f = Body(f)
  <2>1. ASSUME NEW n \in 0..N PROVE f[n] = Body(f)[n]
    <3>1. CASE n = 0
      BY <1>2, <1>4, <3>1
    <3>2. CASE n # 0
      <4>1. n \in 1..N
        BY <1>2, <3>2
      <4> QED
        BY <1>5, <3>2, <4>1
    <3> QED
      BY <3>1, <3>2
  <2>2. f = [n \in 0..N |-> f[n]] /\ Body(f) = [n \in 0..N |-> Body(f)[n]]
    BY <1>4
  <2> QED
    BY <2>1, <2>2
<1>7. only = Body(only)
  <2> HIDE DEF Body
  <2> QED
    BY <1>6, Zenon
<1>8. Only(s, S) = only[N]
  BY DEF Only
<1> HIDE DEF only
<1>9. f[N] = only[N]
  <2>1. f[0] = only[0]
    BY <1>2, <1>4, <1>7
  <2>2. ASSUME NEW n \in Nat, n < N, f[n] = only[n] PROVE f[n + 1] = only[n + 1]
    <3>1. n + 1 \in 0..N /\ n + 1 \in 1..N /\ n + 1 # 0 /\ (n + 1) - 1 = n
      BY <1>2, <2>2
    <3>2. f[n + 1] = IF s[n + 1] \in S THEN Append(f[n], s[n + 1]) ELSE f[n]
      BY <1>5, <3>1
    <3>3. only[n + 1] = IF s[n + 1] \in S THEN Append(only[n], s[n + 1]) ELSE only[n]
      BY <1>7, <3>1
    <3> QED
      BY <2>2, <3>2, <3>3
  <2> HIDE DEF N
  <2> QED
    BY <1>2, <2>1, <2>2, SameRecursion
<1> QED
  BY <1>4, <1>5, <1>8, <1>9 DEF Selects

LEMMA OnlyIsSeq ==
  ASSUME NEW A, NEW s \in Seq(A), NEW S
  PROVE  Only(s, S) \in Seq(A)
<1>1. PICK f : Selects(f, A, s, S)
  BY OnlyUnfolds
<1>2. Len(s) \in 0..Len(s)
  OBVIOUS
<1> QED
  BY <1>1, <1>2 DEF Selects

LEMMA OnlyEmpty == \A S : Only(<<>>, S) = <<>>
<1> TAKE S
<1>1. <<>> \in Seq({}) /\ Len(<<>>) = 0
  OBVIOUS
<1>2. PICK f : Selects(f, {}, <<>>, S)
  BY <1>1, OnlyUnfolds
<1> QED
  BY <1>1, <1>2 DEF Selects

LEMMA OnlyAppend ==
  ASSUME NEW A, NEW s \in Seq(A), NEW a \in A, NEW S
  PROVE  Only(Append(s, a), S) = IF a \in S THEN Append(Only(s, S), a) ELSE Only(s, S)
<1> DEFINE t == Append(s, a)
           N == Len(s)
<1>1. /\ t \in Seq(A) /\ Len(t) = N + 1 /\ t[N + 1] = a
      /\ N \in Nat /\ \A n \in 1..N : t[n] = s[n]
  BY AppendProperties
<1>2. PICK f : Selects(f, A, s, S)
  BY OnlyUnfolds
<1> HIDE DEF t
<1>3. PICK g : Selects(g, A, t, S)
  BY <1>1, OnlyUnfolds
<1>4. ASSUME NEW n \in Nat, n < N, f[n] = g[n] PROVE f[n + 1] = g[n + 1]
  <2>1. n + 1 \in 1..N /\ n + 1 \in 1..(N + 1) /\ (n + 1) - 1 = n
    BY <1>1, <1>4
  <2>2. /\ f[n + 1] = IF s[n + 1] \in S THEN Append(f[n], s[n + 1]) ELSE f[n]
        /\ g[n + 1] = IF t[n + 1] \in S THEN Append(g[n], t[n + 1]) ELSE g[n]
    BY <1>1, <1>2, <1>3, <2>1 DEF Selects
  <2> QED
    BY <1>1, <1>4, <2>1, <2>2
<1>5. f[N] = g[N]
  <2>1. f[0] = g[0]
    BY <1>2, <1>3 DEF Selects
  <2> HIDE DEF N
  <2> QED
    BY <1>1, <1>4, <2>1, SameRecursion
<1>6. g[N + 1] = IF a \in S THEN Append(g[N], a) ELSE g[N]
  <2>1. N + 1 \in 1..(N + 1) /\ (N + 1) - 1 = N
    BY <1>1
  <2> QED
    BY <1>1, <1>3, <2>1 DEF Selects
<1>7. Only(t, S) = g[N + 1] /\ Only(s, S) = f[N]
  BY <1>1, <1>2, <1>3 DEF Selects
<1> QED
  BY <1>5, <1>6, <1>7 DEF t

LEMMA OnlyType ==
  ASSUME NEW A, NEW s \in Seq(A), NEW S
  PROVE  Only(s, S) \in Seq(A \cap S)
<1> DEFINE U == {t \in Seq(A) : Only(t, S) \in Seq(A \cap S)}
<1>1. <<>> \in U
  <2>1. <<>> \in Seq(A) /\ <<>> \in Seq(A \cap S)
    BY EmptySeq
  <2> QED
    BY <2>1, OnlyEmpty
<1>2. ASSUME NEW t \in Seq(A), NEW a \in A, t \in U PROVE Append(t, a) \in U
  <2>1. Append(t, a) \in Seq(A)
    OBVIOUS
  <2>2. CASE a \in S
    <3>1. Only(Append(t, a), S) = Append(Only(t, S), a)
      BY <2>2, OnlyAppend
    <3>2. a \in A \cap S /\ Only(t, S) \in Seq(A \cap S)
      BY <1>2, <2>2
    <3>3. Append(Only(t, S), a) \in Seq(A \cap S)
      BY <3>2, AppendProperties
    <3> QED
      BY <2>1, <3>1, <3>3
  <2>3. CASE a \notin S
    <3>1. Only(Append(t, a), S) = Only(t, S)
      BY <2>3, OnlyAppend
    <3> QED
      BY <1>2, <2>1, <3>1
  <2> QED
    BY <2>2, <2>3
<1> HIDE DEF U
<1>3. Seq(A) \subseteq U
  BY <1>1, <1>2, GrowingAtTheEnd
<1> QED
  BY <1>3 DEF U

LEMMA OnlyConcat ==
  ASSUME NEW A, NEW s \in Seq(A), NEW t \in Seq(A), NEW S
  PROVE  Only(s \o t, S) = Only(s, S) \o Only(t, S)
<1> DEFINE U == {u \in Seq(A) : Only(s \o u, S) = Only(s, S) \o Only(u, S)}
<1>1. <<>> \in U
  <2>1. s \o <<>> = s /\ <<>> \in Seq(A)
    OBVIOUS
  <2>2. Only(s, S) \o <<>> = Only(s, S)
    BY OnlyType, ConcatEmptySeq
  <2> QED
    BY <2>1, <2>2, OnlyEmpty
<1>2. ASSUME NEW u \in Seq(A), NEW a \in A, u \in U PROVE Append(u, a) \in U
  <2>1. s \o u \in Seq(A) /\ Append(u, a) \in Seq(A)
    OBVIOUS
  <2>2. s \o Append(u, a) = Append(s \o u, a)
    OBVIOUS
  <2>3. Only(s, S) \in Seq(A) /\ Only(u, S) \in Seq(A)
    BY OnlyIsSeq
  <2>4. CASE a \in S
    <3>1. Only(s \o Append(u, a), S) = Append(Only(s, S) \o Only(u, S), a)
      BY <1>2, <2>1, <2>2, <2>4, OnlyAppend
    <3>2. Only(Append(u, a), S) = Append(Only(u, S), a)
      BY <2>4, OnlyAppend
    <3>3. Append(Only(s, S) \o Only(u, S), a) = Only(s, S) \o Append(Only(u, S), a)
      <4>1. \A x, y \in Seq(A), b \in A : x \o Append(y, b) = Append(x \o y, b)
        BY ConcatAppend
      <4> HIDE DEF U
      <4>2. Only(s, S) \o Append(Only(u, S), a) = Append(Only(s, S) \o Only(u, S), a)
        BY <2>3, <4>1
      <4> QED
        BY <4>2
    <3> QED
      BY <2>1, <3>1, <3>2, <3>3
  <2>5. CASE a \notin S
    <3>1. Only(s \o Append(u, a), S) = Only(s \o u, S)
      BY <2>1, <2>2, <2>5, OnlyAppend
    <3>2. Only(Append(u, a), S) = Only(u, S)
      BY <2>5, OnlyAppend
    <3> QED
      BY <1>2, <2>1, <3>1, <3>2
  <2> QED
    BY <2>4, <2>5
<1> HIDE DEF U
<1>3. Seq(A) \subseteq U
  BY <1>1, <1>2, GrowingAtTheEnd
<1> QED
  BY <1>3 DEF U

LEMMA OnlySame ==
  ASSUME NEW A, NEW s \in Seq(A), NEW S, NEW T, \A a \in A : a \in S <=> a \in T
  PROVE  Only(s, S) = Only(s, T)
<1> DEFINE U == {u \in Seq(A) : Only(u, S) = Only(u, T)}
<1>1. <<>> \in U
  BY OnlyEmpty
<1>2. ASSUME NEW u \in Seq(A), NEW a \in A, u \in U PROVE Append(u, a) \in U
  <2>1. Append(u, a) \in Seq(A) /\ (a \in S <=> a \in T)
    OBVIOUS
  <2>2. /\ Only(Append(u, a), S) = IF a \in S THEN Append(Only(u, S), a) ELSE Only(u, S)
        /\ Only(Append(u, a), T) = IF a \in T THEN Append(Only(u, T), a) ELSE Only(u, T)
    BY OnlyAppend
  <2> QED
    BY <1>2, <2>1, <2>2
<1> HIDE DEF U
<1>3. Seq(A) \subseteq U
  BY <1>1, <1>2, GrowingAtTheEnd
<1> QED
  BY <1>3 DEF U

LEMMA OnlyAll ==
  ASSUME NEW A, NEW s \in Seq(A), NEW S, A \subseteq S
  PROVE  Only(s, S) = s
<1> DEFINE U == {u \in Seq(A) : Only(u, S) = u}
<1>1. <<>> \in U
  BY OnlyEmpty
<1>2. ASSUME NEW u \in Seq(A), NEW a \in A, u \in U PROVE Append(u, a) \in U
  BY <1>2, OnlyAppend
<1> HIDE DEF U
<1>3. Seq(A) \subseteq U
  BY <1>1, <1>2, GrowingAtTheEnd
<1> QED
  BY <1>3 DEF U

-----------------------------------------------------------------------------
(* Cutting and Split.                                                      *)

NoLF == Byte \ {LF}
Cuts == [pieces : Seq(Seq(NoLF)), rest : Seq(NoLF)]
NoCuts == [pieces |-> <<>>, rest |-> <<>>]

LEMMA CutType ==
  ASSUME NEW acc \in Cuts, NEW b \in Byte
  PROVE  Cut(acc, b) \in Cuts
<1>1. acc.pieces \in Seq(Seq(NoLF)) /\ acc.rest \in Seq(NoLF)
  BY DEF Cuts
<1>2. CASE b = LF
  <2>1. Append(acc.pieces, acc.rest) \in Seq(Seq(NoLF)) /\ <<>> \in Seq(NoLF)
    BY <1>1
  <2> QED
    BY <1>2, <2>1 DEF Cut, Cuts
<1>3. CASE b # LF
  <2>1. b \in NoLF
    BY <1>3 DEF NoLF
  <2>2. Append(acc.rest, b) \in Seq(NoLF)
    BY <1>1, <2>1
  <2> QED
    BY <1>1, <1>3, <2>2 DEF Cut, Cuts
<1> QED
  BY <1>2, <1>3

LEMMA NoCutsType == NoCuts \in Cuts
BY EmptySeq DEF NoCuts, Cuts

\* The recursive function Cutting obeys its definition.
LEMMA CuttingUnfolds ==
  /\ Cutting \in [Seq(Byte) -> Cuts]
  /\ Cutting[<<>>] = NoCuts
  /\ \A s \in Seq(Byte), b \in Byte : Cutting[Append(s, b)] = Cut(Cutting[s], b)
<1> DEFINE V == [Seq(Byte) -> Cuts]
           start == [s \in Seq(Byte) |-> NoCuts]
           once(h) == [s \in Seq(Byte) |->
                         IF s = <<>> THEN NoCuts ELSE Cut(h[Front(s)], Last(s))]
           step == [n \in Nat |-> [h \in V |-> once(h)]]
<1>1. ASSUME NEW s \in Seq(Byte), s # <<>>
      PROVE  Front(s) \in Seq(Byte) /\ Last(s) \in Byte /\ Len(Front(s)) = Len(s) - 1
  BY <1>1, FrontLast
<1>2. start \in V
  BY NoCutsType
<1>3. ASSUME NEW h \in V PROVE once(h) \in V
  <2>1. ASSUME NEW s \in Seq(Byte), s # <<>> PROVE Cut(h[Front(s)], Last(s)) \in Cuts
    BY <1>1, <2>1, CutType
  <2> QED
    BY <2>1, NoCutsType
<1>4. step \in [Nat -> [V -> V]]
  <2> HIDE DEF once, V
  <2> QED
    BY <1>3
<1>5. PICK H : Runs(H, V, start, step)
  <2> HIDE DEF step, V, start
  <2> QED
    BY <1>2, <1>4, Recursion
<1>6. H \in [Nat -> V] /\ H[0] = start
  BY <1>5 DEF Runs
<1>7. ASSUME NEW n \in Nat PROVE H[n + 1] = once(H[n])
  <2> HIDE DEF V, once
  <2>1. H[n + 1] = step[n][H[n]] /\ H[n] \in V
    BY <1>5, <1>6 DEF Runs
  <2> QED
    BY <2>1
<1> DEFINE F == [s \in Seq(Byte) |-> H[Len(s)][s]]
<1>8. F \in V
  BY <1>6
<1>9. ASSUME NEW s \in Seq(Byte)
      PROVE  F[s] = IF s = <<>> THEN NoCuts ELSE Cut(F[Front(s)], Last(s))
  <2>1. CASE s = <<>>
    BY <1>6, <2>1
  <2>2. CASE s # <<>>
    <3>1. Len(s) - 1 \in Nat /\ (Len(s) - 1) + 1 = Len(s)
      BY <2>2, LenProperties
    <3>2. H[Len(s)] = once(H[Len(s) - 1])
      <4> HIDE DEF once
      <4> QED
        BY <1>7, <3>1
    <3>3. once(H[Len(s) - 1])[s] = Cut(H[Len(s) - 1][Front(s)], Last(s))
      BY <2>2
    <3> QED
      BY <1>1, <2>2, <3>2, <3>3
  <2> QED
    BY <2>1, <2>2
<1> DEFINE Body(g) == [s \in Seq(Byte) |->
                         IF s = <<>> THEN [pieces |-> <<>>, rest |-> <<>>]
                         ELSE Cut(g[Front(s)], Last(s))]
<1>10. F = Body(F)
  <2> HIDE DEF F
  <2> QED
    BY <1>8, <1>9 DEF NoCuts
<1>11. Cutting = CHOOSE g : g = Body(g)
  BY DEF Cutting
<1>12. Cutting = Body(Cutting)
  <2> HIDE DEF Body
  <2> QED
    BY <1>10, <1>11, Zenon
<1>13. ASSUME NEW s \in Seq(Byte)
       PROVE  Cutting[s] = IF s = <<>> THEN NoCuts ELSE Cut(Cutting[Front(s)], Last(s))
  BY <1>12 DEF NoCuts
<1> HIDE DEF Body
<1>14. Cutting[<<>>] = NoCuts
  <2>1. <<>> \in Seq(Byte)
    BY EmptySeq
  <2> QED
    BY <1>13, <2>1
<1>15. ASSUME NEW s \in Seq(Byte), NEW b \in Byte
       PROVE  Cutting[Append(s, b)] = Cut(Cutting[s], b)
  <2> DEFINE t == Append(s, b)
  <2>1. t \in Seq(Byte) /\ t # <<>> /\ Front(t) = s /\ Last(t) = b
    BY AppendProperties, FrontLastOfAppend
  <2> HIDE DEF t
  <2>2. Cutting[t] = Cut(Cutting[s], b)
    BY <1>13, <2>1
  <2> QED
    BY <2>2 DEF t
<1>16. \A s \in Seq(Byte) : Cutting[s] \in Cuts
  <2> DEFINE U == {s \in Seq(Byte) : Cutting[s] \in Cuts}
  <2>1. <<>> \in U
    BY <1>14, NoCutsType
  <2>2. ASSUME NEW s \in Seq(Byte), NEW b \in Byte, s \in U PROVE Append(s, b) \in U
    BY <1>15, <2>2, CutType
  <2> HIDE DEF U
  <2>3. Seq(Byte) \subseteq U
    BY <2>1, <2>2, GrowingAtTheEnd
  <2> QED
    BY <2>3 DEF U
<1>17. Cutting \in [Seq(Byte) -> Cuts]
  <2>1. Cutting = [s \in Seq(Byte) |-> Cutting[s]]
    BY <1>12 DEF Body
  <2> QED
    BY <1>16, <2>1
<1> QED
  BY <1>14, <1>15, <1>17

LEMMA CuttingType ==
  ASSUME NEW s \in Seq(Byte)
  PROVE  /\ Cutting[s].pieces \in Seq(Seq(NoLF)) /\ Cutting[s].rest \in Seq(NoLF)
         /\ Cutting[s].pieces \in Seq(Seq(Byte)) /\ Cutting[s].rest \in Seq(Byte)
<1>1. Cutting[s] \in Cuts
  BY CuttingUnfolds
<1>2. Cutting[s].pieces \in Seq(Seq(NoLF)) /\ Cutting[s].rest \in Seq(NoLF)
  BY <1>1 DEF Cuts
<1>3. NoLF \subseteq Byte
  BY DEF NoLF
<1>4. Seq(NoLF) \subseteq Seq(Byte)
  BY <1>3, SeqMonotonic
<1>5. Cutting[s].pieces \in Seq(Seq(Byte))
  BY <1>2, <1>4, SeqMonotonic
<1> QED
  BY <1>2, <1>4, <1>5

\* Without a LF nothing is cut off.
LEMMA CuttingOfRest ==
  ASSUME NEW r \in Seq(NoLF)
  PROVE  Cutting[r] = [pieces |-> <<>>, rest |-> r]
<1> DEFINE U == {t \in Seq(NoLF) : Cutting[t] = [pieces |-> <<>>, rest |-> t]}
<1>1. <<>> \in U
  BY EmptySeq, CuttingUnfolds DEF NoCuts
<1>2. ASSUME NEW t \in Seq(NoLF), NEW b \in NoLF, t \in U PROVE Append(t, b) \in U
  <2>1. b \in Byte /\ b # LF /\ NoLF \subseteq Byte
    BY DEF NoLF
  <2>2. t \in Seq(Byte)
    BY <2>1, SeqMonotonic
  <2>3. Cutting[Append(t, b)] = Cut(Cutting[t], b)
    BY <2>1, <2>2, CuttingUnfolds
  <2>4. Cut(Cutting[t], b) = [pieces |-> <<>>, rest |-> Append(t, b)]
    <3>1. Cutting[t] = [pieces |-> <<>>, rest |-> t]
      BY <1>2
    <3> QED
      BY <2>1, <3>1 DEF Cut
  <2>5. Append(t, b) \in Seq(NoLF)
    OBVIOUS
  <2> QED
    BY <2>3, <2>4, <2>5
<1> HIDE DEF U
<1>3. Seq(NoLF) \subseteq U
  BY <1>1, <1>2, GrowingAtTheEnd
<1> QED
  BY <1>3 DEF U

\* Bytes that arrive in two parts are cut as if they had arrived at once: what
\* the first part has left over goes before the second.
LEMMA CuttingConcat ==
  ASSUME NEW s \in Seq(Byte), NEW t \in Seq(Byte)
  PROVE  LET later == Cutting[Cutting[s].rest \o t]
         IN  Cutting[s \o t] = [pieces |-> Cutting[s].pieces \o later.pieces,
                                rest   |-> later.rest]
<1> DEFINE p == Cutting[s].pieces
           r == Cutting[s].rest
           later(u) == Cutting[r \o u]
           U == {u \in Seq(Byte) : Cutting[s \o u] = [pieces |-> p \o later(u).pieces,
                                                      rest   |-> later(u).rest]}
<1>1. p \in Seq(Seq(Byte)) /\ r \in Seq(Byte) /\ r \in Seq(NoLF)
  BY CuttingType, SMTT(30)
<1> HIDE DEF p, r
<1>2. <<>> \in U
  <2>1. s \o <<>> = s /\ r \o <<>> = r /\ p \o <<>> = p /\ <<>> \in Seq(Byte)
    BY <1>1, ConcatEmptySeq, EmptySeq
  <2>2. later(<<>>) = [pieces |-> <<>>, rest |-> r]
    BY <1>1, <2>1, CuttingOfRest
  <2>3. Cutting[s] \in Cuts
    BY CuttingUnfolds
  <2>4. Cutting[s] = [pieces |-> p, rest |-> r]
    BY <2>3 DEF Cuts, p, r
  <2>5. later(<<>>).pieces = <<>> /\ later(<<>>).rest = r
    BY <2>2
  <2> HIDE DEF later
  <2> QED
    BY <2>1, <2>4, <2>5
<1>3. ASSUME NEW u \in Seq(Byte), NEW b \in Byte, u \in U PROVE Append(u, b) \in U
  <2> DEFINE d == later(u)
  <2>1. r \o u \in Seq(Byte) /\ s \o u \in Seq(Byte) /\ Append(u, b) \in Seq(Byte)
    BY <1>1
  <2>2. d.pieces \in Seq(Seq(Byte)) /\ d.rest \in Seq(Byte)
    BY <2>1, CuttingType
  <2>3. later(Append(u, b)) = Cut(d, b)
    <3>1. r \o Append(u, b) = Append(r \o u, b)
      BY <1>1, ConcatAppend
    <3> QED
      BY <2>1, <3>1, CuttingUnfolds
  <2>4. Cutting[s \o u] = [pieces |-> p \o d.pieces, rest |-> d.rest]
    BY <1>3
  <2>5. Cutting[s \o Append(u, b)] = Cut(Cutting[s \o u], b)
    <3>1. s \o Append(u, b) = Append(s \o u, b)
      BY ConcatAppend
    <3> QED
      BY <2>1, <3>1, CuttingUnfolds
  <2> HIDE DEF d
  <2>6. Cut(Cutting[s \o u], b) = [pieces |-> p \o Cut(d, b).pieces, rest |-> Cut(d, b).rest]
    <3>1. CASE b = LF
      <4>1. Append(p \o d.pieces, d.rest) = p \o Append(d.pieces, d.rest)
        <5>1. \A x, y \in Seq(Seq(Byte)), z \in Seq(Byte) : x \o Append(y, z) = Append(x \o y, z)
          BY ConcatAppend
        <5> QED
          BY <1>1, <2>2, <5>1
      <4>2. Cut(Cutting[s \o u], b) = [pieces |-> Append(p \o d.pieces, d.rest), rest |-> <<>>]
        BY <2>4, <3>1 DEF Cut
      <4>3. Cut(d, b) = [pieces |-> Append(d.pieces, d.rest), rest |-> <<>>]
        BY <3>1 DEF Cut
      <4> QED
        BY <4>1, <4>2, <4>3
    <3>2. CASE b # LF
      BY <2>4, <3>2 DEF Cut
    <3> QED
      BY <3>1, <3>2
  <2> HIDE DEF later
  <2> QED
    BY <2>1, <2>3, <2>5, <2>6
<1> HIDE DEF U
<1>4. Seq(Byte) \subseteq U
  BY <1>2, <1>3, GrowingAtTheEnd
<1> QED
  BY <1>4 DEF U, p, r

\* Nothing but the LFs is lost, nothing is moved.
LEMMA CuttingContent ==
  ASSUME NEW s \in Seq(Byte)
  PROVE  FlattenSeq(Cutting[s].pieces) \o Cutting[s].rest = WithoutLF(s)
<1> DEFINE U == {t \in Seq(Byte) :
                   FlattenSeq(Cutting[t].pieces) \o Cutting[t].rest = WithoutLF(t)}
<1>1. <<>> \in U
  <2>1. <<>> \in Seq(Byte) /\ <<>> \o <<>> = <<>>
    BY EmptySeq
  <2>2. Cutting[<<>>].pieces = <<>> /\ Cutting[<<>>].rest = <<>>
    BY CuttingUnfolds DEF NoCuts
  <2>3. WithoutLF(<<>>) = <<>>
    BY OnlyEmpty DEF WithoutLF
  <2> QED
    BY <2>1, <2>2, <2>3, FlattenEmpty
<1>2. ASSUME NEW t \in Seq(Byte), NEW b \in Byte, t \in U PROVE Append(t, b) \in U
  <2> DEFINE p == Cutting[t].pieces
             r == Cutting[t].rest
  <2>1. p \in Seq(Seq(Byte)) /\ r \in Seq(Byte)
    BY CuttingType, SMTT(30)
  <2>2. FlattenSeq(p) \in Seq(Byte)
    BY <2>1, FlattenType
  <2>3. Cutting[Append(t, b)] = Cut(Cutting[t], b)
    BY CuttingUnfolds
  <2>4. FlattenSeq(p) \o r = WithoutLF(t)
    BY <1>2
  <2>5. Append(t, b) \in Seq(Byte)
    OBVIOUS
  <2>6. CASE b = LF
    <3>1. WithoutLF(Append(t, b)) = WithoutLF(t)
      BY <2>6, OnlyAppend DEF WithoutLF
    <3>2. Cut(Cutting[t], b) = [pieces |-> Append(p, r), rest |-> <<>>]
      BY <2>6 DEF Cut
    <3>3. FlattenSeq(Append(p, r)) = FlattenSeq(p) \o r
      BY <2>1, FlattenAppend
    <3>4. (FlattenSeq(p) \o r) \o <<>> = FlattenSeq(p) \o r
      BY <2>1, <2>2
    <3>5. Cutting[Append(t, b)].pieces = Append(p, r) /\ Cutting[Append(t, b)].rest = <<>>
      BY <2>3, <3>2
    <3> HIDE DEF p, r
    <3> QED
      BY <2>4, <2>5, <3>1, <3>3, <3>4, <3>5
  <2>7. CASE b # LF
    <3>1. WithoutLF(Append(t, b)) = Append(WithoutLF(t), b)
      <4>1. b \in NoLF
        BY <2>7 DEF NoLF
      <4>2. \A x : WithoutLF(x) = Only(x, NoLF)
        BY DEF WithoutLF, NoLF
      <4>3. Only(Append(t, b), NoLF) = Append(Only(t, NoLF), b)
        BY <4>1, OnlyAppend
      <4> QED
        BY <4>2, <4>3
    <3>2. Cut(Cutting[t], b) = [pieces |-> p, rest |-> Append(r, b)]
      BY <2>7 DEF Cut
    <3>3. FlattenSeq(p) \o Append(r, b) = Append(FlattenSeq(p) \o r, b)
      <4>1. \A x, y \in Seq(Byte) : x \o Append(y, b) = Append(x \o y, b)
        BY ConcatAppend
      <4> QED
        BY <2>1, <2>2, <4>1
    <3>4. Cutting[Append(t, b)].pieces = p /\ Cutting[Append(t, b)].rest = Append(r, b)
      BY <2>3, <3>2
    <3> HIDE DEF p, r
    <3> QED
      BY <2>4, <2>5, <3>1, <3>3, <3>4
  <2> QED
    BY <2>6, <2>7
<1> HIDE DEF U
<1>3. Seq(Byte) \subseteq U
  BY <1>1, <1>2, GrowingAtTheEnd
<1> QED
  BY <1>3 DEF U

LEMMA SplitFacts ==
  ASSUME NEW bytes \in Seq(Byte), bytes # <<>>
  PROVE  /\ Split(bytes) \in Seq(Seq(NoLF)) /\ Split(bytes) # <<>>
         /\ FlattenSeq(Split(bytes)) = WithoutLF(bytes)
<1> DEFINE p == Cutting[bytes].pieces
           r == Cutting[bytes].rest
<1>1. p \in Seq(Seq(NoLF)) /\ r \in Seq(NoLF)
  BY CuttingType, SMTT(30)
<1>2. FlattenSeq(p) \o r = WithoutLF(bytes)
  BY CuttingContent
<1>3. p # <<>> \/ r # <<>>
  <2>1. PICK t \in Seq(Byte), b \in Byte : bytes = Append(t, b)
    BY SequenceEmptyOrAppend, SMTT(30)
  <2>2. Cutting[bytes] = Cut(Cutting[t], b)
    BY <2>1, CuttingUnfolds, SMTT(30)
  <2>3. Cutting[t].pieces \in Seq(Seq(Byte)) /\ Cutting[t].rest \in Seq(Byte)
    BY CuttingType, SMTT(30)
  <2>4. CASE b = LF
    <3>1. p = Append(Cutting[t].pieces, Cutting[t].rest)
      BY <2>2, <2>4 DEF Cut
    <3>2. Append(Cutting[t].pieces, Cutting[t].rest) # <<>>
      BY <2>3, AppendProperties
    <3> QED
      BY <3>1, <3>2
  <2>5. CASE b # LF
    <3>1. r = Append(Cutting[t].rest, b)
      BY <2>2, <2>5 DEF Cut
    <3>2. Append(Cutting[t].rest, b) # <<>>
      BY <2>3, AppendProperties
    <3> QED
      BY <3>1, <3>2
  <2> QED
    BY <2>4, <2>5
<1>4. Split(bytes) = IF r = <<>> THEN p ELSE Append(p, r)
  BY DEF Split
<1> HIDE DEF p, r
<1>5. CASE r = <<>>
  <2>1. FlattenSeq(p) \o <<>> = FlattenSeq(p)
    BY <1>1, FlattenType, ConcatEmptySeq
  <2> QED
    BY <1>1, <1>2, <1>3, <1>4, <1>5, <2>1
<1>6. CASE r # <<>>
  <2>1. Append(p, r) \in Seq(Seq(NoLF)) /\ Append(p, r) # <<>>
    BY <1>1, AppendProperties
  <2>2. FlattenSeq(Append(p, r)) = FlattenSeq(p) \o r
    BY <1>1, FlattenAppend
  <2> QED
    BY <1>2, <1>4, <1>6, <2>1, <2>2
<1> QED
  BY <1>5, <1>6

\* What parse_recieved does to the joined text: lines and the part kept back.
LEMMA LinesAndKept ==
  ASSUME buffer \in Seq(Byte), NEW segment \in Seq(Byte), segment # <<>>
  PROVE  /\ Lines(segment) \in Seq(Seq(NoLF)) /\ Kept(segment) \in Seq(NoLF)
         /\ FlattenSeq(Lines(segment)) \o Kept(segment) = WithoutLF(buffer \o segment)
<1> DEFINE all == Split(buffer \o segment)
<1>1. buffer \o segment \in Seq(Byte) /\ buffer \o segment # <<>>
  BY ConcatProperties, ConcatEqualIffEmpty
<1>2. /\ all \in Seq(Seq(NoLF)) /\ all # <<>>
      /\ FlattenSeq(all) = WithoutLF(buffer \o segment)
  BY <1>1, SplitFacts
<1>3. /\ Lines(segment) = IF EndsLine(segment) THEN all ELSE Front(all)
      /\ Kept(segment) = IF EndsLine(segment) THEN <<>> ELSE Last(all)
  BY DEF Lines, Kept
<1> HIDE DEF all
<1>4. CASE EndsLine(segment)
  <2>1. FlattenSeq(all) \o <<>> = FlattenSeq(all)
    BY <1>2, FlattenType, ConcatEmptySeq
  <2> QED
    BY <1>2, <1>3, <1>4, <2>1, EmptySeq
<1>5. CASE ~EndsLine(segment)
  <2>1. /\ Front(all) \in Seq(Seq(NoLF)) /\ Last(all) \in Seq(NoLF)
        /\ all = Append(Front(all), Last(all))
    BY <1>2, FrontLast
  <2>2. FlattenSeq(Append(Front(all), Last(all))) = FlattenSeq(Front(all)) \o Last(all)
    BY <2>1, FlattenAppend
  <2> QED
    BY <1>2, <1>3, <1>5, <2>1, <2>2
<1> QED
  BY <1>4, <1>5

\* The lines handed to a Parser are a beginning of those there are, and all of
\* them unless one has no word.
LEMMA HandledPrefix ==
  ASSUME NEW A, NEW lines \in Seq(Seq(A))
  PROVE  /\ \E k \in 0..Len(lines) : Handled(lines) = SubSeq(lines, 1, k)
         /\ ~Fatal(lines) => Handled(lines) = lines
<1>1. CASE ~Fatal(lines)
  <2>1. Handled(lines) = lines /\ Len(lines) \in 0..Len(lines)
    BY <1>1 DEF Handled
  <2> QED
    BY <2>1, SubSeqFull
<1>2. CASE Fatal(lines)
  <2> DEFINE S == {i \in DOMAIN lines : Words(lines[i]) = 0}
  <2>1. S \in SUBSET Nat /\ S # {} /\ S \subseteq 1..Len(lines)
    <3>1. PICK line \in Range(lines) : Words(line) = 0
      BY <1>2 DEF Fatal
    <3>2. PICK i \in DOMAIN lines : line = lines[i]
      BY <3>1 DEF Range
    <3>3. i \in S
      BY <3>1, <3>2
    <3> QED
      BY <3>3
  <2>2. Handled(lines) = SubSeq(lines, 1, Min(S))
    BY <1>2 DEF Handled
  <2> HIDE DEF S
  <2>3. \E x \in S : \A y \in S : x <= y
    BY <2>1, LeastElement
  <2>4. Min(S) \in S
    BY <2>3 DEF Min
  <2>5. Min(S) \in 0..Len(lines)
    <3>1. Min(S) \in 1..Len(lines)
      BY <2>1, <2>4
    <3>2. 1..Len(lines) \subseteq 0..Len(lines)
      OBVIOUS
    <3> QED
      BY <3>1, <3>2
  <2> QED
    BY <1>2, <2>2, <2>5
<1> QED
  BY <1>1, <1>2

\* A step of read_client_data takes a segment off the wire.
LEMMA ReceiveCases ==
  ASSUME TypeOK, Receive
  PROVE  \E segment \in Seq(Byte) :
           /\ running /\ wire' \in Seq(Byte) /\ wire = segment \o wire'
           /\ \/ /\ Len(segment) >= 2
                 /\ buffer' = Kept(segment)
                 /\ served' = served \o Handled(Lines(segment))
                 /\ running' = ~Fatal(Lines(segment))
              \/ /\ Len(segment) = 1
                 /\ running' = FALSE
                 /\ UNCHANGED <<buffer, served>>
           /\ UNCHANGED <<proper, sent>>
<1> DEFINE n == IF Len(wire) < RecvMax THEN Len(wire) ELSE RecvMax
           segment == SubSeq(wire, 1, n)
<1>1. wire \in Seq(Byte) /\ wire # <<>>
  BY DEF TypeOK, Receive
<1>2. n \in 0..Len(wire)
  BY <1>1, LenProperties, FramingAssumption
<1>3. /\ segment \in Seq(Byte) /\ Len(segment) = n
      /\ SubSeq(wire, n + 1, Len(wire)) \in Seq(Byte)
      /\ wire = segment \o SubSeq(wire, n + 1, Len(wire))
  <2> HIDE DEF n
  <2> QED
    BY <1>1, <1>2, CutInTwo
<1>4. /\ running /\ UNCHANGED <<proper, sent>>
      /\ wire' = SubSeq(wire, n + 1, Len(wire))
      /\ \/ /\ n >= 2
            /\ buffer' = Kept(segment)
            /\ served' = served \o Handled(Lines(segment))
            /\ running' = ~Fatal(Lines(segment))
         \/ /\ n = 1
            /\ running' = FALSE
            /\ UNCHANGED <<buffer, served>>
  BY DEF Receive
<1> HIDE DEF n, segment
<1> QED
  BY <1>3, <1>4

LEMMA NoLFSequences == Seq(NoLF) \subseteq Seq(Byte) /\ Seq(Seq(NoLF)) \subseteq Seq(Seq(Byte))
<1>1. NoLF \subseteq Byte
  BY DEF NoLF
<1>2. Seq(NoLF) \subseteq Seq(Byte)
  BY <1>1, SeqMonotonic
<1> QED
  BY <1>2, SeqMonotonic

\* read_client_data keeps the lines it has served and adds to them.
LEMMA ReceiveExtends ==
  ASSUME TypeOK, Receive
  PROVE  /\ TypeOK'
         /\ \E more \in Seq(Seq(NoLF)) : served' = served \o more
         /\ buffer \in Seq(NoLF) => buffer' \in Seq(NoLF)
<1>1. PICK segment \in Seq(Byte) :
           /\ running /\ wire' \in Seq(Byte) /\ wire = segment \o wire'
           /\ \/ /\ Len(segment) >= 2
                 /\ buffer' = Kept(segment)
                 /\ served' = served \o Handled(Lines(segment))
                 /\ running' = ~Fatal(Lines(segment))
              \/ /\ Len(segment) = 1
                 /\ running' = FALSE
                 /\ UNCHANGED <<buffer, served>>
           /\ UNCHANGED <<proper, sent>>
  BY ReceiveCases
<1>2. buffer \in Seq(Byte) /\ served \in Seq(Seq(Byte)) /\ proper \in BOOLEAN /\ sent \in Seq(Byte)
  BY DEF TypeOK
<1>3. CASE Len(segment) >= 2
  <2>1. segment # <<>>
    BY <1>3, EmptySeq
  <2>2. Lines(segment) \in Seq(Seq(NoLF)) /\ Kept(segment) \in Seq(NoLF)
    BY <1>2, <2>1, LinesAndKept
  <2>3. Handled(Lines(segment)) \in Seq(Seq(NoLF))
    <3>1. PICK k \in 0..Len(Lines(segment)) : Handled(Lines(segment)) = SubSeq(Lines(segment), 1, k)
      BY <2>2, HandledPrefix
    <3> QED
      BY <2>2, <3>1, CutInTwo
  <2>4. Kept(segment) \in Seq(Byte) /\ Handled(Lines(segment)) \in Seq(Seq(Byte))
    BY <2>2, <2>3, NoLFSequences
  <2>5. served \o Handled(Lines(segment)) \in Seq(Seq(Byte))
    BY <1>2, <2>4, ConcatProperties
  <2>6. /\ buffer' = Kept(segment)
        /\ served' = served \o Handled(Lines(segment))
        /\ running' = ~Fatal(Lines(segment))
    BY <1>1, <1>3
  <2>7. running' \in BOOLEAN
    BY <2>6 DEF Fatal
  <2>8. TypeOK'
    BY <1>1, <1>2, <2>4, <2>5, <2>6, <2>7 DEF TypeOK
  <2> QED
    BY <2>2, <2>3, <2>6, <2>8
<1>4. CASE Len(segment) = 1
  <2>1. running' = FALSE /\ buffer' = buffer /\ served' = served
    BY <1>1, <1>4
  <2>2. served = served \o <<>> /\ <<>> \in Seq(Seq(NoLF))
    BY <1>2, ConcatEmptySeq, EmptySeq
  <2>3. TypeOK'
    BY <1>1, <1>2, <2>1 DEF TypeOK
  <2> QED
    BY <2>1, <2>2, <2>3
<1> QED
  BY <1>1, <1>3, <1>4

-----------------------------------------------------------------------------
(* Pieces and answers.                                                     *)

LEMMA PiecesFacts ==
  ASSUME NEW a \in Nat \ {0}, NEW b \in Nat, a <= b + 1
  PROVE  /\ Pieces(a, b) \in Seq(Piece) /\ Len(Pieces(a, b)) = 2 * (b - a + 1)
         /\ \A k \in 1..Len(Pieces(a, b)) :
              Pieces(a, b)[k] = <<a + ((k - 1) \div 2), 1 + ((k - 1) % 2)>>
<1> DEFINE N == 2 * (b - a + 1)
<1>1. N \in Nat
  OBVIOUS
<1>2. ASSUME NEW k \in 1..N
      PROVE  <<a + ((k - 1) \div 2), 1 + ((k - 1) % 2)>> \in Piece
  BY DEF Piece
<1>3. Pieces(a, b) = [k \in 1..N |-> <<a + ((k - 1) \div 2), 1 + ((k - 1) % 2)>>]
  BY DEF Pieces
<1> HIDE DEF N
<1>4. Pieces(a, b) \in [1..N -> Piece]
  BY <1>2, <1>3
<1>5. Pieces(a, b) \in Seq(Piece) /\ Len(Pieces(a, b)) = N
  BY <1>1, <1>4
<1> QED
  BY <1>3, <1>5 DEF N

LEMMA AnsweredFromType ==
  ASSUME NEW n \in Nat \ {0}, NEW lines \in Seq(Seq(Byte)), n <= Len(lines) + 1
  PROVE  AnsweredFrom(n, lines) \in Seq(n..Len(lines))
<1> DEFINE L == Len(lines)
           numbers == [k \in 1..(L - n + 1) |-> n + k - 1]
<1>1. L \in Nat /\ L - n + 1 \in Nat
  BY LenProperties
<1>2. numbers \in [1..(L - n + 1) -> n..L]
  BY <1>1
<1>3. numbers \in Seq(n..L)
  <2> HIDE DEF numbers, L
  <2> QED
    BY <1>1, <1>2
<1>4. AnsweredFrom(n, lines) = Only(numbers, {j \in DOMAIN lines : Answered(lines[j])})
  BY DEF AnsweredFrom
<1> HIDE DEF numbers, L
<1>5. \A T : Only(numbers, T) \in Seq(n..L)
  BY <1>3, OnlyIsSeq
<1> QED
  BY <1>4, <1>5 DEF L

LEMMA QueueType ==
  ASSUME sendBuffer \in Seq(Piece), NEW M, messages \in Seq(M), NEW new \in Seq(M)
  PROVE  /\ Appended(new) \in Seq(Piece)
         /\ messages \o new \in Seq(M)
         /\ Len(messages \o new) = Len(messages) + Len(new)
<1>1. Len(messages) \in Nat /\ Len(new) \in Nat
  BY LenProperties
<1>2. /\ Len(messages) + 1 \in Nat \ {0} /\ Len(messages) + Len(new) \in Nat
      /\ Len(messages) + 1 <= (Len(messages) + Len(new)) + 1
  BY <1>1
<1>3. Pieces(Len(messages) + 1, Len(messages) + Len(new)) \in Seq(Piece)
  BY <1>2, PiecesFacts
<1> QED
  BY <1>3, ConcatProperties DEF Appended

-----------------------------------------------------------------------------
(* Types.                                                                  *)

\* The lines answered in a step, and those answered before.
LEMMA AnswersDueType ==
  ASSUME served \in Seq(Seq(Byte)), NEW more \in Seq(Seq(Byte)), served' = served \o more
  PROVE  /\ AnswersDue \in Seq((Len(served) + 1)..Len(served'))
         /\ AnswersDue \in Seq(0..Len(served'))
         /\ Seq(0..Len(served)) \subseteq Seq(0..Len(served'))
<1>1. /\ Len(served) \in Nat /\ Len(more) \in Nat /\ Len(served') = Len(served) + Len(more)
      /\ served' \in Seq(Seq(Byte))
  BY ConcatProperties, LenProperties
<1>2. Len(served) + 1 \in Nat \ {0} /\ Len(served) + 1 <= Len(served') + 1
  BY <1>1
<1>3. AnswersDue \in Seq((Len(served) + 1)..Len(served'))
  BY <1>1, <1>2, AnsweredFromType DEF AnswersDue
<1>4. /\ (Len(served) + 1)..Len(served') \subseteq 0..Len(served')
      /\ 0..Len(served) \subseteq 0..Len(served')
  BY <1>1
<1> QED
  BY <1>3, <1>4, SeqMonotonic

LEMMA SendByteType ==
  ASSUME TypeOK, NEW b \in Byte, SendByte(b)
  PROVE  TypeOK'
<1>1. Append(sent, b) \in Seq(Byte) /\ Append(wire, b) \in Seq(Byte)
  BY AppendProperties DEF TypeOK
<1> QED
  BY <1>1 DEF TypeOK, SendByte

\* What leaves the send buffer: a beginning of it.
LEMMA SendMessageTakes ==
  ASSUME DialogueTypeOK, SendMessage
  PROVE  /\ running
         /\ \E n \in 0..Len(sendBuffer) :
              /\ heard' = heard \o SubSeq(sendBuffer, 1, n)
              /\ SubSeq(sendBuffer, 1, n) \in Seq(Piece)
              /\ roomy => n = Len(sendBuffer)
         /\ sendBuffer' = <<>> /\ report' = "none"
         /\ UNCHANGED <<vars, roomy, messages>>
<1>1. sendBuffer \in Seq(Piece) /\ heard \in Seq(Piece)
  BY DEF DialogueTypeOK
<1>2. running /\ report' = "none" /\ UNCHANGED <<vars, roomy, messages>>
  BY DEF SendMessage
<1>3. CASE sendBuffer = <<>> /\ UNCHANGED <<sendBuffer, heard>>
  <2>1. 0 \in 0..Len(sendBuffer) /\ Len(sendBuffer) = 0
    BY <1>3, EmptySeq
  <2>2. SubSeq(sendBuffer, 1, 0) = <<>>
    BY SubSeqEmpty
  <2>3. heard' = heard \o <<>> /\ <<>> \in Seq(Piece)
    BY <1>1, <1>3, ConcatEmptySeq, EmptySeq
  <2> QED
    BY <1>2, <1>3, <2>1, <2>2, <2>3
<1>4. CASE \E n \in 1..Len(sendBuffer) :
             /\ roomy => n = Len(sendBuffer)
             /\ heard' = heard \o SubSeq(sendBuffer, 1, n)
             /\ sendBuffer' = Emptied(n)
  <2>1. PICK n \in 1..Len(sendBuffer) :
             /\ roomy => n = Len(sendBuffer)
             /\ heard' = heard \o SubSeq(sendBuffer, 1, n)
             /\ sendBuffer' = Emptied(n)
    BY <1>4
  <2>2. n \in 0..Len(sendBuffer)
    OBVIOUS
  <2>3. SubSeq(sendBuffer, 1, n) \in Seq(Piece)
    BY <1>1, <2>2, CutInTwo
  <2> QED
    BY <1>2, <2>1, <2>2, <2>3 DEF Emptied
<1> QED
  BY <1>3, <1>4 DEF SendMessage

LEMMA DialogueTypeStep ==
  ASSUME DialogueTypeOK, [DialogueNext]_dialogueVars
  PROVE  DialogueTypeOK'
<1> USE DEF DialogueTypeOK
<1>1. ASSUME NEW b \in Byte, ClientSends(b) PROVE DialogueTypeOK'
  BY <1>1, SendByteType DEF ClientSends, outVars, SendByte
<1>2. CASE OthersNotify
  <2>1. 0 \in 0..Len(served) /\ <<0>> \in Seq(0..Len(served))
    BY LenProperties DEF TypeOK
  <2>2. Appended(<<0>>) \in Seq(Piece) /\ messages \o <<0>> \in Seq(0..Len(served))
    BY <2>1, QueueType
  <2> QED
    BY <1>2, <2>2 DEF OthersNotify, Queue, vars, TypeOK
<1>3. CASE Poll
  BY <1>3 DEF Poll, vars, TypeOK
<1>4. CASE ReadClientData
  <2>1. Receive /\ Queue(AnswersDue) /\ report' = "none" /\ UNCHANGED <<roomy, heard>>
    BY <1>4 DEF ReadClientData
  <2>2. TypeOK' /\ \E more \in Seq(Seq(NoLF)) : served' = served \o more
    BY <2>1, ReceiveExtends
  <2>3. PICK more \in Seq(Seq(Byte)) : served' = served \o more
    BY <2>2, NoLFSequences
  <2>4. served \in Seq(Seq(Byte))
    BY DEF TypeOK
  <2>5. AnswersDue \in Seq(0..Len(served')) /\ messages \in Seq(0..Len(served'))
    BY <2>3, <2>4, AnswersDueType
  <2>6. Appended(AnswersDue) \in Seq(Piece) /\ messages \o AnswersDue \in Seq(0..Len(served'))
    BY <2>5, QueueType
  <2> QED
    BY <2>1, <2>2, <2>6 DEF Queue
<1>5. CASE SendMessage
  <2>1. PICK n \in 0..Len(sendBuffer) :
          heard' = heard \o SubSeq(sendBuffer, 1, n) /\ SubSeq(sendBuffer, 1, n) \in Seq(Piece)
    BY <1>5, SendMessageTakes
  <2>2. heard' \in Seq(Piece) /\ <<>> \in Seq(Piece)
    BY <2>1, ConcatProperties, EmptySeq
  <2>3. sendBuffer' = <<>> /\ report' = "none" /\ UNCHANGED <<vars, roomy, messages>>
    BY <1>5, SendMessageTakes
  <2> QED
    BY <2>2, <2>3 DEF vars, TypeOK
<1>6. CASE UNCHANGED dialogueVars
  BY <1>6 DEF dialogueVars, vars, outVars, TypeOK
<1> QED
  BY <1>1, <1>2, <1>3, <1>4, <1>5, <1>6 DEF DialogueNext, ServerStep

LEMMA DialogueTypeInit ==
  ASSUME DialogueInit
  PROVE  DialogueTypeOK
<1>1. <<>> \in Seq(Byte) /\ <<>> \in Seq(Seq(Byte)) /\ <<>> \in Seq(Piece)
      /\ <<>> \in Seq(0..Len(served))
  BY EmptySeq
<1> QED
  BY <1>1 DEF DialogueInit, Init, DialogueTypeOK, TypeOK

\* The variables of a connection keep their types: every message queued answers
\* a line that has been served, or none (a notice of another client).
THEOREM DialogueTyped == DialogueSpec => []DialogueTypeOK
<1>1. DialogueInit => DialogueTypeOK
  BY DialogueTypeInit
<1>2. DialogueTypeOK /\ [DialogueNext]_dialogueVars => DialogueTypeOK'
  BY DialogueTypeStep
<1> QED
  BY <1>1, <1>2, PTL DEF DialogueSpec

-----------------------------------------------------------------------------
(* Any client: the content is kept.                                        *)

FramingInv ==
  /\ buffer \in Seq(NoLF)
  /\ served \in Seq(Seq(NoLF))
  /\ ContentIsKept

LEMMA WithoutLFFacts ==
  /\ \A s \in Seq(Byte) : WithoutLF(s) \in Seq(Byte)
  /\ \A s \in Seq(NoLF) : WithoutLF(s) = s
  /\ \A s, t \in Seq(Byte) : WithoutLF(s \o t) = WithoutLF(s) \o WithoutLF(t)
<1>1. \A s : WithoutLF(s) = Only(s, NoLF)
  BY DEF WithoutLF, NoLF
<1>2. \A s \in Seq(Byte) : Only(s, NoLF) \in Seq(Byte)
  BY OnlyIsSeq
<1>3. \A s \in Seq(NoLF) : Only(s, NoLF) = s
  BY OnlyAll
<1>4. \A s, t \in Seq(Byte) : Only(s \o t, NoLF) = Only(s, NoLF) \o Only(t, NoLF)
  BY OnlyConcat
<1> QED
  BY <1>1, <1>2, <1>3, <1>4

\* The content of the lines served, which have no LF.
LEMMA ServedContent ==
  ASSUME NEW lines \in Seq(Seq(NoLF))
  PROVE  FlattenSeq(lines) \in Seq(Byte) /\ WithoutLF(FlattenSeq(lines)) = FlattenSeq(lines)
<1>1. FlattenSeq(lines) \in Seq(NoLF)
  BY FlattenType
<1> QED
  BY <1>1, NoLFSequences, WithoutLFFacts

LEMMA FramingSend ==
  ASSUME TypeOK, FramingInv, NEW b \in Byte, SendByte(b)
  PROVE  FramingInv'
<1>1. /\ sent \in Seq(Byte) /\ wire \in Seq(Byte) /\ buffer \in Seq(Byte)
      /\ FlattenSeq(served) \in Seq(Byte) /\ WithoutLF(FlattenSeq(served)) = FlattenSeq(served)
  BY ServedContent DEF TypeOK, FramingInv
<1>2. sent' = sent \o <<b>> /\ wire' = wire \o <<b>> /\ <<b>> \in Seq(Byte)
  BY <1>1, AppendIsConcat DEF SendByte
<1>3. UNCHANGED <<buffer, served, running>>
  BY DEF SendByte
<1>4. ASSUME running
      PROVE  WithoutLF(sent') = (FlattenSeq(served) \o buffer) \o WithoutLF(wire')
  <2> DEFINE x == FlattenSeq(served) \o buffer
  <2>1. WithoutLF(sent) = x \o WithoutLF(wire) /\ x \in Seq(Byte)
    BY <1>1, <1>4, ConcatProperties DEF FramingInv, ContentIsKept
  <2>2. WithoutLF(sent') = WithoutLF(sent) \o WithoutLF(<<b>>)
    BY <1>1, <1>2, WithoutLFFacts
  <2>3. WithoutLF(wire') = WithoutLF(wire) \o WithoutLF(<<b>>)
    BY <1>1, <1>2, WithoutLFFacts
  <2>4. WithoutLF(wire) \in Seq(Byte) /\ WithoutLF(<<b>>) \in Seq(Byte)
    BY <1>1, <1>2, WithoutLFFacts
  <2> HIDE DEF x
  <2>5. (x \o WithoutLF(wire)) \o WithoutLF(<<b>>) = x \o (WithoutLF(wire) \o WithoutLF(<<b>>))
    BY <2>1, <2>4, ConcatAssociative
  <2> QED
    BY <2>1, <2>2, <2>3, <2>5 DEF x
<1> QED
  BY <1>1, <1>3, <1>4 DEF FramingInv, ContentIsKept

LEMMA FramingReceive ==
  ASSUME TypeOK, FramingInv, Receive
  PROVE  FramingInv'
<1>1. PICK segment \in Seq(Byte) :
           /\ running /\ wire' \in Seq(Byte) /\ wire = segment \o wire'
           /\ \/ /\ Len(segment) >= 2
                 /\ buffer' = Kept(segment)
                 /\ served' = served \o Handled(Lines(segment))
                 /\ running' = ~Fatal(Lines(segment))
              \/ /\ Len(segment) = 1
                 /\ running' = FALSE
                 /\ UNCHANGED <<buffer, served>>
           /\ UNCHANGED <<proper, sent>>
  BY ReceiveCases
<1>2. /\ buffer \in Seq(Byte) /\ served \in Seq(Seq(NoLF)) /\ wire \in Seq(Byte)
      /\ buffer \in Seq(NoLF)
  BY DEF TypeOK, FramingInv
<1>3. buffer' \in Seq(NoLF) /\ served' \in Seq(Seq(NoLF))
  BY <1>2, ReceiveExtends, ConcatProperties
<1>4. ASSUME running' PROVE ContentIsKept'
  <2>1. /\ Len(segment) >= 2
        /\ buffer' = Kept(segment)
        /\ served' = served \o Handled(Lines(segment))
        /\ ~Fatal(Lines(segment))
    BY <1>1, <1>4
  <2> DEFINE lines == Lines(segment)
             x == FlattenSeq(served)
             y == FlattenSeq(lines)
  <2>2. segment # <<>>
    BY <2>1, EmptySeq
  <2>3. /\ lines \in Seq(Seq(NoLF)) /\ Kept(segment) \in Seq(NoLF)
        /\ y \o Kept(segment) = WithoutLF(buffer \o segment)
    BY <1>2, <2>2, LinesAndKept
  <2>4. served' = served \o lines
    BY <2>1, <2>3, HandledPrefix
  <2>5. /\ x \in Seq(Byte) /\ y \in Seq(Byte) /\ Kept(segment) \in Seq(Byte)
        /\ WithoutLF(x) = x
    BY <1>2, <2>3, ServedContent, NoLFSequences
  <2>6. FlattenSeq(served') = x \o y
    BY <1>2, <2>3, <2>4, FlattenConcat
  <2>7. WithoutLF(FlattenSeq(served')) = FlattenSeq(served')
    BY <1>3, ServedContent
  <2>8. WithoutLF(sent) = (x \o buffer) \o WithoutLF(wire)
    BY <1>1, <2>5 DEF FramingInv, ContentIsKept
  <2>9. WithoutLF(wire) = WithoutLF(segment) \o WithoutLF(wire')
    BY <1>1, WithoutLFFacts
  <2>10. WithoutLF(buffer \o segment) = buffer \o WithoutLF(segment)
    BY <1>2, WithoutLFFacts
  <2>11. WithoutLF(segment) \in Seq(Byte) /\ WithoutLF(wire') \in Seq(Byte)
    BY <1>1, WithoutLFFacts
  <2> HIDE DEF x, y, lines
  <2> DEFINE k == Kept(segment)
             u == WithoutLF(segment)
             v == WithoutLF(wire')
  <2>12. y \o k = buffer \o u /\ k \in Seq(Byte) /\ u \in Seq(Byte) /\ v \in Seq(Byte)
    BY <2>3, <2>5, <2>10, <2>11
  <2>13. WithoutLF(sent) = (x \o buffer) \o (u \o v)
    BY <2>8, <2>9
  <2> HIDE DEF k, u, v
  <2>14. buffer \in Seq(Byte) /\ x \in Seq(Byte) /\ y \in Seq(Byte)
    BY <1>2, <2>5
  <2>15. (x \o buffer) \o (u \o v) = ((x \o y) \o k) \o v
    <3>1. \A p, q, r \in Seq(Byte) : (p \o q) \o r = p \o (q \o r)
      BY ConcatAssociative, SMTT(30)
    <3>2. k \in Seq(Byte) /\ u \in Seq(Byte) /\ v \in Seq(Byte) /\ x \o buffer \in Seq(Byte)
      BY <2>12, <2>14, ConcatClosed
    <3>3. ((x \o buffer) \o u) \o v = (x \o buffer) \o (u \o v)
      <4> DEFINE xb == x \o buffer
      <4>1. xb \in Seq(Byte)
        BY <3>2
      <4> HIDE DEF xb
      <4>2. (xb \o u) \o v = xb \o (u \o v)
        BY <3>1, <3>2, <4>1, ZenonT(30)
      <4> QED
        BY <4>2 DEF xb
    <3>4. (x \o buffer) \o u = x \o (buffer \o u)
      BY <2>14, <3>1, <3>2, ZenonT(60)
    <3>5. (x \o y) \o k = x \o (y \o k)
      BY <2>14, <3>1, <3>2, ZenonT(60)
    <3>6. y \o k = buffer \o u
      BY <2>12
    <3> QED
      BY <3>3, <3>4, <3>5, <3>6, Zenon
  <2>16. WithoutLF(sent) = ((x \o y) \o k) \o v
    BY <2>13, <2>15
  <2>17. WithoutLF(sent') = (WithoutLF(FlattenSeq(served')) \o buffer') \o WithoutLF(wire')
    BY <1>1, <2>1, <2>6, <2>7, <2>16 DEF k, v
  <2> QED
    BY <2>17 DEF ContentIsKept
<1> QED
  BY <1>3, <1>4 DEF FramingInv, ContentIsKept

\* What the other steps do to the bytes and lines: nothing, or they receive.
LEMMA FramingSteps ==
  ASSUME [DialogueNext]_dialogueVars
  PROVE  \/ \E b \in Byte : SendByte(b) /\ UNCHANGED outVars
         \/ Receive /\ ReadClientData
         \/ UNCHANGED vars
BY DEF DialogueNext, ServerStep, ClientSends, OthersNotify, Poll, ReadClientData,
       SendMessage, dialogueVars

LEMMA FramingStep ==
  ASSUME DialogueTypeOK, FramingInv, [DialogueNext]_dialogueVars
  PROVE  FramingInv'
<1>1. TypeOK
  BY DEF DialogueTypeOK
<1>2. CASE \E b \in Byte : SendByte(b)
  BY <1>1, <1>2, FramingSend
<1>3. CASE Receive
  BY <1>1, <1>3, FramingReceive
<1>4. CASE UNCHANGED vars
  BY <1>4 DEF vars, FramingInv, ContentIsKept
<1> QED
  BY <1>2, <1>3, <1>4, FramingSteps

LEMMA FramingInit ==
  ASSUME DialogueInit
  PROVE  FramingInv
<1>1. /\ sent = <<>> /\ wire = <<>> /\ buffer = <<>> /\ served = <<>>
  BY DEF DialogueInit, Init
<1>2. WithoutLF(<<>>) = <<>> /\ FlattenSeq(<<>>) = <<>> /\ <<>> \o <<>> = <<>>
  BY OnlyEmpty, FlattenEmpty, EmptySeq, ConcatEmptySeq DEF WithoutLF
<1>3. <<>> \in Seq(NoLF) /\ <<>> \in Seq(Seq(NoLF))
  BY EmptySeq
<1> QED
  BY <1>1, <1>2, <1>3 DEF FramingInv, ContentIsKept

\* However a client ends its lines and however its bytes are cut into segments,
\* parse_recieved hands them on in order and each once, but for the LFs.
THEOREM ContentKept == DialogueSpec => []ContentIsKept
<1>1. DialogueInit => DialogueTypeOK /\ FramingInv
  BY DialogueTypeInit, FramingInit
<1>2. DialogueTypeOK /\ FramingInv /\ [DialogueNext]_dialogueVars => (DialogueTypeOK /\ FramingInv)'
  BY DialogueTypeStep, FramingStep
<1>3. FramingInv => ContentIsKept
  BY DEF FramingInv
<1> QED
  BY <1>1, <1>2, <1>3, PTL DEF DialogueSpec

-----------------------------------------------------------------------------
(* What send() takes: pieces in order, ends only after their beginnings.   *)

InOrder(out) == \A i \in 1..(Len(out) - 1) : Before(out[i], out[i + 1])
Begun(out) == \A i \in DOMAIN out : out[i][2] = 2 => i > 1 /\ out[i - 1] = <<out[i][1], 1>>
UpTo(out, n) == \A i \in DOMAIN out : out[i][1] <= n

\* The pieces sent and to be sent are those of messages that were queued.
TornInv ==
  LET out == heard \o sendBuffer
  IN InOrder(out) /\ Begun(out) /\ UpTo(out, Len(messages))

LEMMA TornPrefix ==
  ASSUME NEW p \in Seq(Piece), NEW q \in Seq(Piece), NEW n,
         InOrder(p \o q), Begun(p \o q), UpTo(p \o q, n)
  PROVE  InOrder(p) /\ Begun(p) /\ UpTo(p, n)
<1> DEFINE out == p \o q
<1>1. /\ Len(p) \in Nat /\ Len(q) \in Nat /\ Len(out) = Len(p) + Len(q) /\ out \in Seq(Piece)
      /\ DOMAIN p = 1..Len(p) /\ DOMAIN out = 1..Len(out)
  BY ConcatProperties, LenProperties
<1>2. \A i \in 1..Len(p) : out[i] = p[i]
  BY <1>1, ConcatProperties
<1>3. InOrder(out) /\ Begun(out) /\ UpTo(out, n)
  OBVIOUS
<1> HIDE DEF out
<1>4. ASSUME NEW i \in 1..(Len(p) - 1) PROVE Before(p[i], p[i + 1])
  <2>1. i \in 1..(Len(out) - 1) /\ i \in 1..Len(p) /\ i + 1 \in 1..Len(p)
    BY <1>1
  <2> QED
    BY <1>2, <1>3, <2>1 DEF InOrder
<1>5. ASSUME NEW i \in 1..Len(p), p[i][2] = 2 PROVE i > 1 /\ p[i - 1] = <<p[i][1], 1>>
  <2>1. i \in DOMAIN out /\ out[i] = p[i]
    BY <1>1, <1>2
  <2>2. i > 1 /\ out[i - 1] = <<out[i][1], 1>>
    BY <1>3, <1>5, <2>1 DEF Begun
  <2>3. i - 1 \in 1..Len(p)
    BY <1>1, <2>2
  <2> QED
    BY <1>2, <2>1, <2>2, <2>3
<1>6. ASSUME NEW i \in 1..Len(p) PROVE p[i][1] <= n
  <2>1. i \in DOMAIN out /\ out[i] = p[i]
    BY <1>1, <1>2
  <2> QED
    BY <1>3, <2>1 DEF UpTo
<1> QED
  BY <1>1, <1>4, <1>5, <1>6 DEF InOrder, Begun, UpTo

LEMMA TornAppend ==
  ASSUME NEW out \in Seq(Piece), NEW L \in Nat, NEW M \in Nat, L <= M,
         InOrder(out), Begun(out), UpTo(out, L)
  PROVE  LET all == out \o Pieces(L + 1, M)
         IN InOrder(all) /\ Begun(all) /\ UpTo(all, M)
<1> DEFINE P == Pieces(L + 1, M)
           all == out \o P
           N == Len(out)
<1>1. /\ P \in Seq(Piece) /\ Len(P) = 2 * (M - L)
      /\ \A k \in 1..Len(P) : P[k] = <<L + 1 + ((k - 1) \div 2), 1 + ((k - 1) % 2)>>
  <2>1. L + 1 \in Nat \ {0} /\ L + 1 <= M + 1 /\ M - (L + 1) + 1 = M - L
    OBVIOUS
  <2> QED
    BY <2>1, PiecesFacts
<1> HIDE DEF P
<1>2. /\ N \in Nat /\ Len(P) \in Nat /\ Len(all) = N + Len(P)
      /\ DOMAIN out = 1..N /\ DOMAIN all = 1..(N + Len(P))
      /\ \A i \in 1..N : all[i] = out[i]
      /\ \A k \in 1..Len(P) : all[N + k] = P[k]
  <2>1. N \in Nat /\ Len(P) \in Nat /\ DOMAIN out = 1..N
    BY <1>1, LenProperties
  <2>2. /\ all \in Seq(Piece) /\ Len(all) = N + Len(P)
        /\ \A i \in 1..(N + Len(P)) : all[i] = IF i <= N THEN out[i] ELSE P[i - N]
    BY <1>1, ConcatProperties
  <2>3. DOMAIN all = 1..(N + Len(P))
    BY <2>2, LenProperties
  <2> HIDE DEF all, N
  <2>4. ASSUME NEW k \in 1..Len(P) PROVE all[N + k] = P[k]
    <3>1. N + k \in 1..(N + Len(P)) /\ ~(N + k <= N) /\ (N + k) - N = k
      BY <2>1
    <3> QED
      BY <2>2, <3>1
  <2>5. ASSUME NEW i \in 1..N PROVE all[i] = out[i]
    <3>1. i \in 1..(N + Len(P)) /\ i <= N
      BY <2>1
    <3> QED
      BY <2>2, <3>1
  <2> QED
    BY <2>1, <2>2, <2>3, <2>4, <2>5
<1>3. \A i \in 1..N : out[i] \in Piece /\ out[i][1] \in Nat /\ out[i][1] <= L
  BY <1>2, ElementOfSeq DEF UpTo, Piece
<1> HIDE DEF all
<1>4. ASSUME NEW i \in 1..(Len(all) - 1) PROVE Before(all[i], all[i + 1])
  <2>1. CASE i < N
    <3>1. i \in 1..(N - 1) /\ i \in 1..N /\ i + 1 \in 1..N
      BY <1>2, <2>1
    <3> QED
      BY <1>2, <3>1 DEF InOrder
  <2>2. CASE i = N
    <3>1. i \in 1..N /\ 1 \in 1..Len(P)
      BY <1>2, <2>2
    <3>2. all[i] = out[i] /\ all[i + 1] = P[1]
      BY <1>2, <2>2, <3>1
    <3>3. P[1][1] = L + 1
      BY <1>1, <3>1
    <3>4. out[i][1] < P[1][1]
      BY <1>3, <3>1, <3>3
    <3> QED
      BY <3>2, <3>4 DEF Before
  <2>3. CASE i > N
    <3>1. PICK k \in 1..Len(P) : i = N + k /\ k + 1 \in 1..Len(P)
      <4>1. i - N \in 1..Len(P) /\ i = N + (i - N) /\ (i - N) + 1 \in 1..Len(P)
        BY <1>2, <2>3
      <4> QED
        BY <4>1
    <3>2. all[i] = P[k] /\ all[i + 1] = P[k + 1]
      <4>1. i + 1 = N + (k + 1)
        BY <1>2, <3>1
      <4> QED
        BY <1>2, <3>1, <4>1
    <3>3. /\ P[k][1] = L + 1 + ((k - 1) \div 2) /\ P[k][2] = 1 + ((k - 1) % 2)
          /\ P[k + 1][1] = L + 1 + (k \div 2) /\ P[k + 1][2] = 1 + (k % 2)
      <4>1. P[k] = <<L + 1 + ((k - 1) \div 2), 1 + ((k - 1) % 2)>>
        BY <1>1
      <4>2. P[k + 1] = <<L + 1 + (((k + 1) - 1) \div 2), 1 + (((k + 1) - 1) % 2)>>
        BY <1>1, <3>1
      <4>3. (k + 1) - 1 = k
        OBVIOUS
      <4> QED
        BY <4>1, <4>2, <4>3
    <3>4. \/ (k - 1) \div 2 < k \div 2
          \/ (k - 1) \div 2 = k \div 2 /\ (k - 1) % 2 < k % 2
      OBVIOUS
    <3>5. /\ (k - 1) \div 2 \in Nat /\ k \div 2 \in Nat
          /\ (k - 1) % 2 \in Nat /\ k % 2 \in Nat
      OBVIOUS
    <3>6. P[k][1] < P[k + 1][1] \/ (P[k][1] = P[k + 1][1] /\ P[k][2] < P[k + 1][2])
      BY <3>3, <3>4, <3>5
    <3> QED
      BY <3>2, <3>6 DEF Before
  <2> QED
    BY <1>2, <2>1, <2>2, <2>3
<1>5. ASSUME NEW i \in DOMAIN all PROVE all[i][1] <= M
  <2>1. CASE i <= N
    BY <1>2, <1>3, <2>1
  <2>2. CASE i > N
    <3>1. PICK k \in 1..Len(P) : i = N + k
      <4>1. i - N \in 1..Len(P) /\ i = N + (i - N)
        BY <1>2, <2>2
      <4> QED
        BY <4>1
    <3>2. all[i] = P[k] /\ P[k] = <<L + 1 + ((k - 1) \div 2), 1 + ((k - 1) % 2)>>
      BY <1>1, <1>2, <3>1
    <3>3. \A j \in 1..(2 * (M - L)) : L + 1 + ((j - 1) \div 2) <= M
      OBVIOUS
    <3> QED
      BY <1>1, <3>1, <3>2, <3>3
  <2> QED
    BY <1>2, <2>1, <2>2
<1>6. ASSUME NEW i \in DOMAIN all, all[i][2] = 2
      PROVE  i > 1 /\ all[i - 1] = <<all[i][1], 1>>
  <2>1. CASE i <= N
    <3>1. i \in 1..N
      BY <1>2, <2>1
    <3>2. all[i] = out[i]
      BY <1>2, <3>1
    <3>3. i > 1 /\ out[i - 1] = <<out[i][1], 1>>
      BY <1>2, <1>6, <3>1, <3>2 DEF Begun
    <3>4. i - 1 \in 1..N
      BY <1>2, <3>1, <3>3
    <3> QED
      BY <1>2, <3>2, <3>3, <3>4
  <2>2. CASE i > N
    <3>1. PICK k \in 1..Len(P) : i = N + k
      <4>1. i - N \in 1..Len(P) /\ i = N + (i - N)
        BY <1>2, <2>2
      <4> QED
        BY <4>1
    <3>2. all[i] = P[k]
      BY <1>2, <3>1
    <3>3. P[k] = <<L + 1 + ((k - 1) \div 2), 1 + ((k - 1) % 2)>>
      BY <1>1, <3>1
    <3>4. (k - 1) % 2 = 1
      BY <1>6, <3>2, <3>3
    <3>5. k - 1 \in 1..Len(P) /\ (k - 2) \div 2 = (k - 1) \div 2 /\ (k - 2) % 2 = 0
      BY <1>2, <3>4
    <3>6. P[k - 1] = <<L + 1 + (((k - 1) - 1) \div 2), 1 + (((k - 1) - 1) % 2)>>
      BY <1>1, <3>5
    <3>7. (k - 1) - 1 = k - 2
      OBVIOUS
    <3>8. P[k - 1] = <<P[k][1], 1>>
      BY <3>3, <3>5, <3>6, <3>7
    <3>9. i - 1 = N + (k - 1) /\ i > 1
      BY <1>2, <3>1, <3>5
    <3> QED
      BY <1>2, <3>2, <3>5, <3>8, <3>9
  <2> QED
    BY <1>2, <2>1, <2>2
<1>7. InOrder(all)
  BY <1>4 DEF InOrder
<1>8. Begun(all) /\ UpTo(all, M)
  BY <1>5, <1>6 DEF Begun, UpTo
<1> QED
  BY <1>7, <1>8 DEF all, P

\* Queueing appends the pieces of the new messages to what goes out.
LEMMA TornQueue ==
  ASSUME sendBuffer \in Seq(Piece), heard \in Seq(Piece), NEW D, messages \in Seq(D),
         NEW new \in Seq(D), TornInv, Queue(new), UNCHANGED heard
  PROVE  TornInv'
<1> DEFINE out == heard \o sendBuffer
           P == Pieces(Len(messages) + 1, Len(messages) + Len(new))
<1>1. /\ Len(messages) \in Nat /\ Len(new) \in Nat
      /\ Len(messages') = Len(messages) + Len(new)
  BY LenProperties, ConcatProperties DEF Queue
<1>2. out \in Seq(Piece)
  BY ConcatProperties
<1>3. P \in Seq(Piece)
  <2>1. /\ Len(messages) + 1 \in Nat \ {0} /\ Len(messages) + Len(new) \in Nat
        /\ Len(messages) + 1 <= (Len(messages) + Len(new)) + 1
    BY <1>1
  <2> QED
    BY <2>1, PiecesFacts
<1>4. InOrder(out) /\ Begun(out) /\ UpTo(out, Len(messages))
  BY DEF TornInv
<1>5. InOrder(out \o P) /\ Begun(out \o P) /\ UpTo(out \o P, Len(messages) + Len(new))
  <2>1. Len(messages) + Len(new) \in Nat /\ Len(messages) <= Len(messages) + Len(new)
    BY <1>1
  <2> HIDE DEF out
  <2> QED
    BY <1>1, <1>2, <1>4, <2>1, TornAppend
<1>6. heard' \o sendBuffer' = out \o P
  <2>1. sendBuffer' = sendBuffer \o P /\ heard' = heard
    BY DEF Queue, Appended
  <2>2. \A p, q, r \in Seq(Piece) : (p \o q) \o r = p \o (q \o r)
    BY ConcatAssociative, SMTT(30)
  <2> HIDE DEF P
  <2>3. (heard \o sendBuffer) \o P = heard \o (sendBuffer \o P)
    BY <1>3, <2>2, Zenon
  <2> QED
    BY <2>1, <2>3
<1> HIDE DEF P, out
<1> QED
  BY <1>1, <1>5, <1>6 DEF TornInv

LEMMA TornStep ==
  ASSUME DialogueTypeOK, TornInv, [DialogueNext]_dialogueVars
  PROVE  TornInv'
<1>1. /\ sendBuffer \in Seq(Piece) /\ heard \in Seq(Piece) /\ messages \in Seq(0..Len(served))
      /\ served \in Seq(Seq(Byte))
  BY DEF DialogueTypeOK, TypeOK
<1>2. ASSUME NEW b \in Byte, ClientSends(b) PROVE TornInv'
  BY <1>2 DEF ClientSends, outVars, TornInv
<1>3. CASE OthersNotify
  <2>1. <<0>> \in Seq(0..Len(served))
    BY <1>1, LenProperties
  <2> QED
    BY <1>1, <1>3, <2>1, TornQueue DEF OthersNotify
<1>4. CASE Poll
  BY <1>4 DEF Poll, TornInv
<1>5. CASE ReadClientData
  <2>1. Receive /\ Queue(AnswersDue) /\ UNCHANGED heard
    BY <1>5 DEF ReadClientData
  <2>2. PICK more \in Seq(Seq(Byte)) : served' = served \o more
    BY <2>1, ReceiveExtends, NoLFSequences DEF DialogueTypeOK
  <2>3. AnswersDue \in Seq(0..Len(served')) /\ messages \in Seq(0..Len(served'))
    BY <1>1, <2>2, AnswersDueType
  <2> QED
    BY <1>1, <2>1, <2>3, TornQueue
<1>6. CASE SendMessage
  <2>1. PICK n \in 0..Len(sendBuffer) : heard' = heard \o SubSeq(sendBuffer, 1, n)
    BY <1>6, SendMessageTakes
  <2> DEFINE a == SubSeq(sendBuffer, 1, n)
             b == SubSeq(sendBuffer, n + 1, Len(sendBuffer))
  <2>2. a \in Seq(Piece) /\ b \in Seq(Piece) /\ sendBuffer = a \o b
    BY <1>1, CutInTwo
  <2>3. sendBuffer' = <<>> /\ UNCHANGED messages
    BY <1>6, SendMessageTakes
  <2> HIDE DEF a, b
  <2>4. heard \o a \in Seq(Piece)
    BY <1>1, <2>2, ConcatClosed
  <2>5. heard \o sendBuffer = (heard \o a) \o b
    <3>1. \A p, q, r \in Seq(Piece) : (p \o q) \o r = p \o (q \o r)
      BY ConcatAssociative, SMTT(30)
    <3>2. (heard \o a) \o b = heard \o (a \o b)
      BY <1>1, <2>2, <3>1, Zenon
    <3> QED
      BY <2>2, <3>2
  <2> DEFINE h == heard \o a
  <2>6. InOrder(h \o b) /\ Begun(h \o b) /\ UpTo(h \o b, Len(messages))
    BY <2>5 DEF TornInv
  <2>7. heard' \o sendBuffer' = h
    <3>1. heard' = h
      BY <2>1 DEF a
    <3>2. h \o <<>> = h
      BY <2>4, ConcatEmptySeq
    <3> QED
      BY <2>3, <3>1, <3>2
  <2>8. h \in Seq(Piece)
    BY <2>4
  <2> HIDE DEF h
  <2>9. InOrder(h) /\ Begun(h) /\ UpTo(h, Len(messages))
    BY <2>2, <2>6, <2>8, TornPrefix
  <2> QED
    BY <2>3, <2>7, <2>9 DEF TornInv
<1>7. CASE UNCHANGED dialogueVars
  BY <1>7 DEF dialogueVars, outVars, TornInv
<1> QED
  BY <1>2, <1>3, <1>4, <1>5, <1>6, <1>7 DEF DialogueNext, ServerStep

LEMMA TornInit ==
  ASSUME DialogueInit
  PROVE  TornInv
<1>1. heard = <<>> /\ sendBuffer = <<>> /\ messages = <<>>
  BY DEF DialogueInit
<1>2. <<>> \o <<>> = <<>> /\ Len(<<>>) = 0 /\ DOMAIN <<>> = {}
  OBVIOUS
<1> QED
  BY <1>1, <1>2 DEF TornInv, InOrder, Begun, UpTo

\* Whatever send() takes of the buffer that get_send_buffer_and_flush has emptied:
\* no piece twice, none before an earlier one, no end without its beginning.
THEOREM NotTornInside == DialogueSpec => []TornOnlyAtTheEnd
<1>1. DialogueInit => DialogueTypeOK /\ TornInv
  BY DialogueTypeInit, TornInit
<1>2. DialogueTypeOK /\ TornInv /\ [DialogueNext]_dialogueVars => (DialogueTypeOK /\ TornInv)'
  BY DialogueTypeStep, TornStep
<1>3. TornInv => TornOnlyAtTheEnd
  BY DEF TornInv, TornOnlyAtTheEnd, InOrder, Begun
<1> QED
  BY <1>1, <1>2, <1>3, PTL DEF DialogueSpec

-----------------------------------------------------------------------------
(* A client that sends LF only after CR: its lines are served as sent.     *)

EndsInCR(bytes) == \A i \in DOMAIN bytes : bytes[i] = LF => i > 1 /\ bytes[i - 1] = CR

\* What has been received has been cut into the lines served and the buffer; what
\* has been served, a beginning of the complete lines.
ServedInv ==
  proper =>
    /\ EndsInCR(sent)
    /\ running => \E got \in Seq(Byte) :
         /\ sent = got \o wire
         /\ Cutting[got] = [pieces |-> served, rest |-> buffer]
    /\ \E more \in Seq(Seq(Byte)) : Complete(sent) = served \o more

LEMMA EndsLineFacts ==
  ASSUME NEW segment \in Seq(Byte), Len(segment) >= 2
  PROVE  EndsLine(segment) <=>
           segment[Len(segment) - 1] = CR /\ segment[Len(segment)] = LF
<1> DEFINE N == Len(segment)
           crlf == <<CR, LF>>
<1>1. N \in Nat /\ N >= 2 /\ Len(crlf) = 2 /\ crlf[1] = CR /\ crlf[2] = LF
  BY LenProperties
<1>2. /\ Reverse(segment) \in Seq(Byte) /\ Len(Reverse(segment)) = N
      /\ \A i \in 1..N : Reverse(segment)[i] = segment[N - i + 1]
  BY <1>1 DEF Reverse
<1>3. /\ Reverse(crlf) \in Seq(Byte) /\ Len(Reverse(crlf)) = 2
      /\ Reverse(crlf)[1] = LF /\ Reverse(crlf)[2] = CR
  BY <1>1 DEF Reverse, Byte
<1>4. SubSeq(Reverse(segment), 1, 2) = <<segment[N], segment[N - 1]>>
  <2>1. Reverse(segment)[1] = segment[N] /\ Reverse(segment)[2] = segment[N - 1]
    <3>1. 1 \in 1..N /\ 2 \in 1..N /\ N - 1 + 1 = N /\ N - 2 + 1 = N - 1
      BY <1>1
    <3> QED
      BY <1>2, <3>1
  <2>2. SubSeq(Reverse(segment), 1, 2) = <<Reverse(segment)[1], Reverse(segment)[2]>>
    BY <1>1, <1>2, FirstTwo
  <2> QED
    BY <2>1, <2>2
<1>5. SubSeq(Reverse(crlf), 1, 2) = <<LF, CR>>
  <2>1. SubSeq(Reverse(crlf), 1, 2) = <<Reverse(crlf)[1], Reverse(crlf)[2]>>
    BY <1>3, FirstTwo
  <2> QED
    BY <1>3, <2>1
<1>6. EndsLine(segment) <=>
        /\ Len(Reverse(crlf)) <= Len(Reverse(segment))
        /\ SubSeq(Reverse(crlf), 1, Len(Reverse(crlf))) =
           SubSeq(Reverse(segment), 1, Len(Reverse(crlf)))
  BY DEF EndsLine, IsSuffix, IsPrefix
<1>7. EndsLine(segment) <=> <<LF, CR>> = <<segment[N], segment[N - 1]>>
  BY <1>1, <1>2, <1>3, <1>4, <1>5, <1>6
<1> QED
  BY <1>7

LEMMA CuttingLast ==
  ASSUME NEW bytes \in Seq(Byte), bytes # <<>>
  PROVE  Cutting[bytes].rest = <<>> <=> bytes[Len(bytes)] = LF
<1>1. PICK t \in Seq(Byte), b \in Byte : bytes = Append(t, b)
  BY SequenceEmptyOrAppend, SMTT(30)
<1>2. bytes[Len(bytes)] = b
  BY <1>1, AppendProperties, SMTT(30)
<1>3. Cutting[bytes] = Cut(Cutting[t], b)
  BY <1>1, CuttingUnfolds, SMTT(30)
<1>4. Append(Cutting[t].rest, b) # <<>>
  <2>1. Cutting[t].rest \in Seq(Byte)
    BY CuttingType, SMTT(30)
  <2> HIDE DEF Cutting
  <2> QED
    BY <2>1, AppendProperties
<1> QED
  BY <1>2, <1>3, <1>4 DEF Cut

LEMMA LinesRegroup == \A a, b, c \in Seq(Seq(Byte)) : (a \o b) \o c = a \o (b \o c)
<1> DEFINE A == Seq(Byte)
<1> HIDE DEF A
<1>1. \A a, b, c \in Seq(A) : (a \o b) \o c = a \o (b \o c)
  BY ConcatAssociative, SMTT(30)
<1> QED
  BY <1>1 DEF A

LEMMA CompleteType == \A s \in Seq(Byte) : Complete(s) \in Seq(Seq(Byte))
BY CuttingType DEF Complete

\* A byte more completes a line, or none.
LEMMA CompleteAppend ==
  ASSUME NEW s \in Seq(Byte), NEW b \in Byte
  PROVE  \/ Complete(Append(s, b)) = Complete(s)
         \/ \E line \in Seq(Byte) : Complete(Append(s, b)) = Append(Complete(s), line)
<1>1. Cutting[Append(s, b)] = Cut(Cutting[s], b)
  BY CuttingUnfolds
<1>2. Cutting[s].rest \in Seq(Byte)
  BY CuttingType, SMTT(30)
<1>3. CASE b = LF
  <2>1. Cutting[Append(s, b)].pieces = Append(Cutting[s].pieces, Cutting[s].rest)
    BY <1>1, <1>3 DEF Cut
  <2> QED
    BY <1>2, <2>1 DEF Complete
<1>4. CASE b # LF
  <2>1. Cutting[Append(s, b)].pieces = Cutting[s].pieces
    BY <1>1, <1>4 DEF Cut
  <2> QED
    BY <2>1 DEF Complete
<1> QED
  BY <1>3, <1>4

\* Bytes more complete no line before those that are complete.
LEMMA CompleteConcat ==
  ASSUME NEW s \in Seq(Byte), NEW t \in Seq(Byte)
  PROVE  \E extra \in Seq(Seq(Byte)) : Complete(s \o t) = Complete(s) \o extra
<1> DEFINE later == Cutting[Cutting[s].rest \o t]
<1>1. Cutting[s].rest \o t \in Seq(Byte)
  BY CuttingType, ConcatClosed
<1>2. later.pieces \in Seq(Seq(Byte))
  BY <1>1, CuttingType
<1>3. Cutting[s \o t] = [pieces |-> Cutting[s].pieces \o later.pieces, rest |-> later.rest]
  BY CuttingConcat
<1> HIDE DEF later
<1>4. Cutting[s \o t].pieces = Cutting[s].pieces \o later.pieces
  <2> DEFINE x == Cutting[s].pieces \o later.pieces
  <2>1. Cutting[s \o t] = [pieces |-> x, rest |-> later.rest]
    BY <1>3
  <2> HIDE DEF x
  <2>2. Cutting[s \o t].pieces = x
    BY <2>1
  <2> QED
    BY <2>2 DEF x
<1>5. Complete(s \o t) = Complete(s) \o later.pieces
  BY <1>4, Zenon DEF Complete
<1> QED
  BY <1>2, <1>5

\* Where each LF follows a CR, a segment of at least two bytes gives the complete
\* lines of the joined text, and keeps what comes after them.
LEMMA ProperLines ==
  ASSUME buffer \in Seq(Byte), NEW segment \in Seq(Byte), Len(segment) >= 2,
         segment[Len(segment)] = LF => segment[Len(segment) - 1] = CR
  PROVE  /\ Lines(segment) = Cutting[buffer \o segment].pieces
         /\ Kept(segment) = Cutting[buffer \o segment].rest
<1> DEFINE text == buffer \o segment
           p == Cutting[text].pieces
           r == Cutting[text].rest
<1>1. /\ text \in Seq(Byte) /\ Len(text) = Len(buffer) + Len(segment)
      /\ Len(buffer) \in Nat /\ Len(segment) \in Nat
  BY ConcatProperties, LenProperties
<1>2. text # <<>> /\ text[Len(text)] = segment[Len(segment)]
  <2>1. /\ Len(text) \in 1..(Len(buffer) + Len(segment)) /\ ~(Len(text) <= Len(buffer))
        /\ Len(text) - Len(buffer) = Len(segment) /\ Len(text) # 0
    BY <1>1
  <2>2. \A i \in 1..(Len(buffer) + Len(segment)) :
          text[i] = IF i <= Len(buffer) THEN buffer[i] ELSE segment[i - Len(buffer)]
    BY ConcatProperties
  <2> HIDE DEF text
  <2> QED
    BY <1>1, <2>1, <2>2, EmptySeq
<1> HIDE DEF text
<1>3. p \in Seq(Seq(Byte)) /\ r \in Seq(Byte)
  BY <1>1, CuttingType
<1>4. r = <<>> <=> segment[Len(segment)] = LF
  BY <1>1, <1>2, CuttingLast
<1>5. EndsLine(segment) <=> r = <<>>
  BY <1>4, EndsLineFacts
<1>6. Split(text) = IF r = <<>> THEN p ELSE Append(p, r)
  BY DEF Split
<1>7. /\ Lines(segment) = IF EndsLine(segment) THEN Split(text) ELSE Front(Split(text))
      /\ Kept(segment) = IF EndsLine(segment) THEN <<>> ELSE Last(Split(text))
  BY DEF Lines, Kept, text
<1> HIDE DEF p, r
<1>8. Front(Append(p, r)) = p /\ Last(Append(p, r)) = r
  BY <1>3, FrontLastOfAppend
<1>9. Lines(segment) = p /\ Kept(segment) = r
  BY <1>5, <1>6, <1>7, <1>8
<1> QED
  BY <1>9 DEF p, r, text

LEMMA ServedSend ==
  ASSUME TypeOK, ServedInv, NEW b \in Byte, SendByte(b)
  PROVE  ServedInv'
<1> SUFFICES ASSUME proper PROVE ServedInv'
  BY DEF ServedInv, SendByte
<1>1. /\ sent \in Seq(Byte) /\ wire \in Seq(Byte) /\ served \in Seq(Seq(Byte))
      /\ sent' = Append(sent, b) /\ wire' = Append(wire, b)
      /\ b = LF => sent # <<>> /\ Last(sent) = CR
      /\ UNCHANGED <<proper, buffer, served, running>>
  BY DEF TypeOK, SendByte
<1>2. EndsInCR(sent')
  <2>1. /\ Len(sent) \in Nat /\ Len(sent') = Len(sent) + 1 /\ DOMAIN sent' = 1..(Len(sent) + 1)
        /\ DOMAIN sent = 1..Len(sent)
        /\ \A i \in 1..Len(sent) : sent'[i] = sent[i]
        /\ sent'[Len(sent) + 1] = b
    BY <1>1, AppendProperties, LenProperties
  <2>2. ASSUME NEW i \in 1..(Len(sent) + 1), sent'[i] = LF PROVE i > 1 /\ sent'[i - 1] = CR
    <3>1. CASE i \in 1..Len(sent)
      <4>1. sent[i] = LF
        BY <2>1, <2>2, <3>1
      <4>2. i > 1 /\ sent[i - 1] = CR
        BY <2>1, <3>1, <4>1 DEF ServedInv, EndsInCR
      <4>3. i - 1 \in 1..Len(sent)
        BY <3>1, <4>2
      <4> QED
        BY <2>1, <4>2, <4>3
    <3>2. CASE i = Len(sent) + 1
      <4>1. sent # <<>> /\ sent[Len(sent)] = CR
        BY <1>1, <2>1, <2>2, <3>2 DEF Last
      <4>2. Len(sent) \in 1..Len(sent) /\ i - 1 = Len(sent) /\ i > 1
        BY <1>1, <2>1, <3>2, <4>1, EmptySeq
      <4> QED
        BY <2>1, <4>1, <4>2
    <3> QED
      BY <2>1, <3>1, <3>2
  <2> QED
    BY <2>1, <2>2 DEF EndsInCR
<1>3. running => \E got \in Seq(Byte) :
        sent' = got \o wire' /\ Cutting[got] = [pieces |-> served, rest |-> buffer]
  <2> SUFFICES ASSUME running
               PROVE  \E got \in Seq(Byte) :
                 sent' = got \o wire' /\ Cutting[got] = [pieces |-> served, rest |-> buffer]
    OBVIOUS
  <2>1. PICK got \in Seq(Byte) :
          sent = got \o wire /\ Cutting[got] = [pieces |-> served, rest |-> buffer]
    BY DEF ServedInv
  <2>2. got \o Append(wire, b) = Append(got \o wire, b)
    BY <1>1, ConcatAppend
  <2> QED
    BY <1>1, <2>1, <2>2
<1>4. \E more \in Seq(Seq(Byte)) : Complete(sent') = served \o more
  <2>1. PICK more \in Seq(Seq(Byte)) : Complete(sent) = served \o more
    BY DEF ServedInv
  <2>2. CASE Complete(sent') = Complete(sent)
    BY <2>1, <2>2
  <2>3. CASE \E line \in Seq(Byte) : Complete(sent') = Append(Complete(sent), line)
    <3>1. PICK line \in Seq(Byte) : Complete(sent') = Append(Complete(sent), line)
      BY <2>3
    <3>2. served \o Append(more, line) = Append(served \o more, line)
      BY <1>1, ConcatAppend
    <3>3. Append(more, line) \in Seq(Seq(Byte))
      BY AppendProperties
    <3> QED
      BY <2>1, <3>1, <3>2, <3>3
  <2> QED
    BY <1>1, <2>2, <2>3, CompleteAppend
<1> QED
  BY <1>1, <1>2, <1>3, <1>4 DEF ServedInv, Complete

LEMMA ServedReceive ==
  ASSUME TypeOK, ServedInv, Receive, proper
  PROVE  /\ ServedInv' /\ UNCHANGED <<proper, sent>>
         /\ \E h, more \in Seq(Seq(Byte)) :
              served' = served \o h /\ Complete(sent) = served' \o more
<1>1. PICK segment \in Seq(Byte) :
           /\ running /\ wire' \in Seq(Byte) /\ wire = segment \o wire'
           /\ \/ /\ Len(segment) >= 2
                 /\ buffer' = Kept(segment)
                 /\ served' = served \o Handled(Lines(segment))
                 /\ running' = ~Fatal(Lines(segment))
              \/ /\ Len(segment) = 1
                 /\ running' = FALSE
                 /\ UNCHANGED <<buffer, served>>
           /\ UNCHANGED <<proper, sent>>
  BY ReceiveCases
<1>2. /\ buffer \in Seq(Byte) /\ served \in Seq(Seq(Byte)) /\ wire \in Seq(Byte)
      /\ sent \in Seq(Byte)
  BY DEF TypeOK
<1>3. PICK got \in Seq(Byte) :
        sent = got \o wire /\ Cutting[got] = [pieces |-> served, rest |-> buffer]
  BY <1>1 DEF ServedInv
<1>4. EndsInCR(sent)
  BY Zenon DEF ServedInv
<1> DEFINE now == got \o segment
<1>5. now \in Seq(Byte) /\ sent = now \o wire'
  <2>1. \A p, q, r \in Seq(Byte) : (p \o q) \o r = p \o (q \o r)
    BY ConcatAssociative, SMTT(30)
  <2>2. (got \o segment) \o wire' = got \o (segment \o wire')
    BY <1>1, <2>1, Zenon
  <2>3. now \in Seq(Byte)
    BY ConcatClosed
  <2> QED
    BY <1>1, <1>3, <2>2, <2>3
<1>6. CASE Len(segment) >= 2
  <2> DEFINE p == Cutting[buffer \o segment].pieces
             r == Cutting[buffer \o segment].rest
  <2>1. /\ buffer' = Kept(segment)
        /\ served' = served \o Handled(Lines(segment))
        /\ running' = ~Fatal(Lines(segment))
    BY <1>1, <1>6
  <2>2. buffer \o segment \in Seq(Byte)
    BY <1>2, ConcatClosed
  <2>3. p \in Seq(Seq(Byte)) /\ r \in Seq(Byte)
    BY <2>2, CuttingType
  <2>4. segment[Len(segment)] = LF => segment[Len(segment) - 1] = CR
    <3> DEFINE N == Len(segment)
               G == Len(got)
    <3>1. /\ G \in Nat /\ N \in Nat /\ N >= 2 /\ Len(now) = G + N /\ Len(wire') \in Nat
          /\ Len(sent) = Len(now) + Len(wire') /\ DOMAIN sent = 1..Len(sent)
      BY <1>1, <1>2, <1>5, <1>6, ConcatProperties, LenProperties
    <3>2. now[G + N] = segment[N] /\ now[(G + N) - 1] = segment[N - 1]
      <4>1. \A i \in 1..(Len(got) + Len(segment)) :
              now[i] = IF i <= Len(got) THEN got[i] ELSE segment[i - Len(got)]
        BY ConcatProperties
      <4>2. /\ G + N \in 1..(G + N) /\ (G + N) - 1 \in 1..(G + N)
            /\ ~(G + N <= G) /\ ~((G + N) - 1 <= G)
            /\ (G + N) - G = N /\ ((G + N) - 1) - G = N - 1
        BY <3>1
      <4> HIDE DEF now
      <4> QED
        BY <4>1, <4>2
    <3>3. sent[G + N] = now[G + N] /\ sent[(G + N) - 1] = now[(G + N) - 1]
      <4>1. \A i \in 1..(Len(now) + Len(wire')) :
              (now \o wire')[i] = IF i <= Len(now) THEN now[i] ELSE wire'[i - Len(now)]
        <5> HIDE DEF now
        <5> QED
          BY <1>1, <1>5, ConcatProperties
      <4>2. /\ G + N \in 1..(Len(now) + Len(wire')) /\ (G + N) - 1 \in 1..(Len(now) + Len(wire'))
            /\ G + N <= Len(now) /\ (G + N) - 1 <= Len(now)
        BY <3>1
      <4> HIDE DEF now, G, N
      <4> QED
        BY <1>5, <4>1, <4>2
    <3>4. G + N \in DOMAIN sent
      BY <3>1
    <3>5. sent[G + N] = LF => sent[(G + N) - 1] = CR
      BY <1>4, <3>4 DEF EndsInCR
    <3> QED
      BY <3>2, <3>3, <3>5
  <2>5. Lines(segment) = p /\ Kept(segment) = r
    BY <1>2, <1>6, <2>4, ProperLines
  <2>6. Cutting[now] = [pieces |-> served \o p, rest |-> r]
    <3>1. Cutting[got].pieces = served /\ Cutting[got].rest = buffer
      BY <1>3
    <3>2. Cutting[got \o segment] =
            [pieces |-> Cutting[got].pieces \o Cutting[Cutting[got].rest \o segment].pieces,
             rest   |-> Cutting[Cutting[got].rest \o segment].rest]
      BY CuttingConcat
    <3> QED
      BY <3>1, <3>2
  <2> HIDE DEF now, p, r
  <2>7. PICK k \in 0..Len(p) : Handled(p) = SubSeq(p, 1, k)
    BY <2>3, HandledPrefix
  <2> DEFINE h == SubSeq(p, 1, k)
             left == SubSeq(p, k + 1, Len(p))
  <2>8. h \in Seq(Seq(Byte)) /\ left \in Seq(Seq(Byte)) /\ p = h \o left
    BY <2>3, CutInTwo
  <2>9. served' = served \o h
    BY <2>1, <2>5, <2>7
  <2> HIDE DEF h, left
  <2>10. PICK extra \in Seq(Seq(Byte)) : Complete(sent) = (served \o p) \o extra
    <3>1. PICK extra \in Seq(Seq(Byte)) : Complete(now \o wire') = Complete(now) \o extra
      BY <1>1, <1>5, CompleteConcat
    <3>2. Complete(now) = served \o p
      BY <2>6 DEF Complete
    <3>3. Complete(sent) = Complete(now) \o extra
      BY <1>5, <3>1
    <3> QED
      BY <3>2, <3>3
  <2>11. Complete(sent) = served' \o (left \o extra) /\ left \o extra \in Seq(Seq(Byte))
    <3>1. \A a, b, c \in Seq(Seq(Byte)) : (a \o b) \o c = a \o (b \o c)
      BY LinesRegroup, Zenon
    <3>2. served \o h \in Seq(Seq(Byte)) /\ left \o extra \in Seq(Seq(Byte))
      BY <1>2, <2>8, ConcatClosed
    <3>3. (served \o h) \o left = served \o (h \o left)
      BY <1>2, <2>8, <3>1, Zenon
    <3>4. ((served \o h) \o left) \o extra = (served \o h) \o (left \o extra)
      BY <2>8, <3>1, <3>2, Zenon
    <3> QED
      BY <2>8, <2>9, <2>10, <3>2, <3>3, <3>4, Zenon
  <2>12. running' => served' = served \o p /\ buffer' = r
    <3>1. running' => Handled(p) = p
      BY <2>1, <2>3, <2>5, HandledPrefix
    <3> QED
      BY <2>1, <2>5, <3>1
  <2>13. running' => \E g \in Seq(Byte) :
           sent' = g \o wire' /\ Cutting[g] = [pieces |-> served', rest |-> buffer']
    BY <1>1, <1>5, <2>6, <2>12
  <2>14. Complete(sent') = Complete(sent) /\ EndsInCR(sent')
    BY <1>1, <1>4
  <2>15. \E more \in Seq(Seq(Byte)) : Complete(sent') = served' \o more
    BY <2>11, <2>14
  <2>16. ServedInv'
    BY <2>13, <2>14, <2>15 DEF ServedInv, Complete
  <2> QED
    BY <1>1, <2>8, <2>9, <2>11, <2>16
<1>7. CASE Len(segment) = 1
  <2>1. ~running' /\ buffer' = buffer /\ served' = served
    BY <1>1, <1>7
  <2>2. PICK more \in Seq(Seq(Byte)) : Complete(sent) = served \o more
    BY DEF ServedInv
  <2>3. served = served \o <<>> /\ <<>> \in Seq(Seq(Byte))
    BY <1>2, ConcatEmptySeq, EmptySeq
  <2>4. Complete(sent') = Complete(sent) /\ EndsInCR(sent')
    BY <1>1, <1>4
  <2>5. Complete(sent') = served' \o more
    BY <2>1, <2>2, <2>4
  <2>6. ServedInv'
    BY <2>1, <2>4, <2>5 DEF ServedInv, Complete
  <2> QED
    BY <1>1, <2>1, <2>2, <2>3, <2>6
<1> QED
  BY <1>1, <1>6, <1>7

LEMMA ServedInit ==
  ASSUME DialogueInit
  PROVE  ServedInv
<1>1. /\ sent = <<>> /\ wire = <<>> /\ buffer = <<>> /\ served = <<>>
  BY DEF DialogueInit, Init
<1>2. EndsInCR(<<>>)
  BY DEF EndsInCR
<1>3. <<>> \in Seq(Byte) /\ <<>> \in Seq(Seq(Byte)) /\ <<>> \o <<>> = <<>>
  BY EmptySeq
<1>4. Cutting[<<>>] = [pieces |-> <<>>, rest |-> <<>>]
  BY CuttingUnfolds DEF NoCuts
<1>5. Complete(<<>>) = <<>>
  BY <1>4 DEF Complete
<1>6. \E got \in Seq(Byte) :
        sent = got \o wire /\ Cutting[got] = [pieces |-> served, rest |-> buffer]
  BY <1>1, <1>3, <1>4
<1>7. \E more \in Seq(Seq(Byte)) : Complete(sent) = served \o more
  BY <1>1, <1>3, <1>5
<1> QED
  BY <1>1, <1>2, <1>6, <1>7 DEF ServedInv

LEMMA ServedStep ==
  ASSUME DialogueTypeOK, ServedInv, [DialogueNext]_dialogueVars
  PROVE  ServedInv'
<1>1. TypeOK
  BY DEF DialogueTypeOK
<1>2. ASSUME NEW b \in Byte, SendByte(b) PROVE ServedInv'
  BY <1>1, <1>2, ServedSend
<1>3. CASE Receive
  <2>1. CASE proper
    BY <1>1, <1>3, <2>1, ServedReceive
  <2>2. CASE ~proper
    BY <1>3, <2>2 DEF Receive, ServedInv
  <2> QED
    BY <2>1, <2>2
<1>4. CASE UNCHANGED vars
  BY <1>4 DEF vars, ServedInv, Complete
<1> QED
  BY <1>2, <1>3, <1>4, FramingSteps

\* Each step of the connection is one of the line stream, or none.
LEMMA StreamStep ==
  ASSUME DialogueTypeOK, ServedInv, [DialogueNext]_dialogueVars
  PROVE  [Stream!Send \/ Stream!Serve]_<<IF proper THEN Complete(sent) ELSE <<>>,
                                        IF proper THEN served ELSE <<>>>>
<1>1. TypeOK /\ served \in Seq(Seq(Byte)) /\ sent \in Seq(Byte)
  BY DEF DialogueTypeOK, TypeOK
<1>2. proper' = proper
  BY FramingSteps DEF SendByte, Receive, vars
<1>3. CASE ~proper
  BY <1>2, <1>3
<1>4. ASSUME proper, NEW b \in Byte, SendByte(b)
      PROVE  Stream!Send \/ (Complete(sent') = Complete(sent) /\ served' = served)
  <2>1. sent' = Append(sent, b) /\ served' = served
    BY <1>4 DEF SendByte
  <2>2. CASE Complete(Append(sent, b)) = Complete(sent)
    BY <2>1, <2>2
  <2>3. ASSUME NEW line \in Seq(Byte), Complete(Append(sent, b)) = Append(Complete(sent), line)
        PROVE  Stream!Send
    <3> DEFINE t == Complete(sent')
    <3>1. t = Append(Complete(sent), line)
      BY <2>1, <2>3
    <3>2. Complete(sent) \in Seq(Seq(Byte))
      BY <1>1, CompleteType
    <3> HIDE DEF t
    <3>3. /\ Len(t) = Len(Complete(sent)) + 1
          /\ SubSeq(t, 1, Len(Complete(sent))) = Complete(sent)
          /\ t[Len(t)] \in Seq(Byte)
      BY <3>1, <3>2, OneMore
    <3> QED
      BY <1>2, <1>4, <2>1, <3>3 DEF Stream!Send, t
  <2> QED
    BY <1>1, <2>2, <2>3, CompleteAppend
<1>5. ASSUME proper, Receive
      PROVE  Stream!Serve \/ (Complete(sent') = Complete(sent) /\ served' = served)
  <2>1. PICK h \in Seq(Seq(Byte)), more \in Seq(Seq(Byte)) :
          served' = served \o h /\ Complete(sent) = served' \o more
    BY <1>1, <1>5, ServedReceive
  <2>2. sent' = sent
    BY <1>5 DEF Receive
  <2>3. CASE h = <<>>
    <3>1. served' = served
      BY <1>1, <2>1, <2>3, ConcatEmptySeq
    <3> QED
      BY <2>2, <3>1
  <2>4. CASE h # <<>>
    <3> DEFINE c == Complete(sent)
               A == Seq(Byte)
    <3>1. c = (served \o h) \o more
      BY <2>1
    <3>2. served \in Seq(A) /\ h \in Seq(A) /\ more \in Seq(A)
      BY <1>1, <2>1
    <3> HIDE DEF c, A
    <3>3. \E n \in 1..(Len(c) - Len(served)) : served \o h = SubSeq(c, 1, Len(served) + n)
      <4>1. \A x, y, z \in Seq(A) : y # <<>> =>
              \E n \in 1..(Len((x \o y) \o z) - Len(x)) :
                x \o y = SubSeq((x \o y) \o z, 1, Len(x) + n)
        BY LongerBeginning, Zenon
      <4> QED
        BY <2>4, <3>1, <3>2, <4>1, Zenon
    <3> QED
      BY <1>2, <1>5, <2>1, <2>2, <3>3 DEF Stream!Serve, c
  <2> QED
    BY <2>3, <2>4
<1>6. ASSUME UNCHANGED vars
      PROVE  Complete(sent') = Complete(sent) /\ served' = served
  BY <1>6 DEF vars
<1>7. CASE proper
  BY <1>2, <1>4, <1>5, <1>6, <1>7, FramingSteps
<1> QED
  BY <1>3, <1>7

\* However the bytes of a client that ends its lines properly are cut into
\* segments: read_client_data serves its complete lines as they were sent, in
\* their order, none twice and none in pieces.
THEOREM LinesServedAsSent == DialogueSpec => ImplementsLineStream
<1>1. DialogueInit => DialogueTypeOK /\ ServedInv
  BY DialogueTypeInit, ServedInit
<1>2. DialogueTypeOK /\ ServedInv /\ [DialogueNext]_dialogueVars => (DialogueTypeOK /\ ServedInv)'
  BY DialogueTypeStep, ServedStep
<1>3. DialogueInit => Stream!Init
  <2> SUFFICES ASSUME DialogueInit PROVE Stream!Init
    OBVIOUS
  <2>1. sent = <<>> /\ served = <<>>
    BY DEF DialogueInit, Init
  <2>2. Complete(<<>>) = <<>>
    BY CuttingUnfolds DEF Complete, NoCuts
  <2> QED
    BY <2>1, <2>2 DEF Stream!Init
<1>4. DialogueTypeOK /\ ServedInv /\ [DialogueNext]_dialogueVars
        => [Stream!Send \/ Stream!Serve]_<<IF proper THEN Complete(sent) ELSE <<>>,
                                          IF proper THEN served ELSE <<>>>>
  BY StreamStep
<1> QED
  BY <1>1, <1>2, <1>3, <1>4, PTL DEF DialogueSpec, ImplementsLineStream, Stream!Spec

-----------------------------------------------------------------------------
(* ... and they are answered.                                              *)

\* The numbers from the a-th to the b-th.
Numbers(a, b) == [k \in 1..(b - a + 1) |-> a + k - 1]
AnsweredIn(lines) == {j \in DOMAIN lines : Answered(lines[j])}

LEMMA NumbersFacts ==
  ASSUME NEW a \in Nat \ {0}, NEW b \in Nat, a <= b + 1
  PROVE  /\ Numbers(a, b) \in Seq(a..b) /\ Numbers(a, b) \in Seq(Nat)
         /\ Len(Numbers(a, b)) = b - a + 1
         /\ \A k \in 1..(b - a + 1) : Numbers(a, b)[k] = a + k - 1
<1> DEFINE N == b - a + 1
           s == Numbers(a, b)
<1>1. N \in Nat /\ a..b \subseteq Nat
  OBVIOUS
<1>2. s = [k \in 1..N |-> a + k - 1]
  BY DEF Numbers
<1>3. \A k \in 1..N : a + k - 1 \in a..b
  OBVIOUS
<1> HIDE DEF N, s
<1>4. s \in [1..N -> a..b]
  BY <1>2, <1>3
<1>5. s \in Seq(a..b) /\ Len(s) = N
  BY <1>1, <1>4
<1>6. s \in Seq(Nat)
  BY <1>1, <1>5, SeqMonotonic
<1> QED
  BY <1>2, <1>5, <1>6 DEF s, N

LEMMA NumbersConcat ==
  ASSUME NEW b \in Nat, NEW c \in Nat, b <= c
  PROVE  Numbers(1, b) \o Numbers(b + 1, c) = Numbers(1, c)
<1> DEFINE p == Numbers(1, b)
           q == Numbers(b + 1, c)
           r == Numbers(1, c)
<1>1. /\ p \in Seq(Nat) /\ Len(p) = b /\ \A k \in 1..b : p[k] = k
  <2>1. 1 \in Nat \ {0} /\ 1 <= b + 1 /\ b - 1 + 1 = b /\ \A k \in 1..b : 1 + k - 1 = k
    OBVIOUS
  <2> QED
    BY <2>1, NumbersFacts
<1>2. /\ r \in Seq(Nat) /\ Len(r) = c /\ \A k \in 1..c : r[k] = k
  <2>1. 1 \in Nat \ {0} /\ 1 <= c + 1 /\ c - 1 + 1 = c /\ \A k \in 1..c : 1 + k - 1 = k
    OBVIOUS
  <2> QED
    BY <2>1, NumbersFacts
<1>3. /\ q \in Seq(Nat) /\ Len(q) = c - b /\ \A k \in 1..(c - b) : q[k] = b + k
  <2>1. /\ b + 1 \in Nat \ {0} /\ b + 1 <= c + 1 /\ c - (b + 1) + 1 = c - b
        /\ \A k \in 1..(c - b) : (b + 1) + k - 1 = b + k
    OBVIOUS
  <2> QED
    BY <2>1, NumbersFacts
<1> HIDE DEF p, q, r
<1>4. /\ p \o q \in Seq(Nat) /\ Len(p \o q) = Len(p) + Len(q)
      /\ \A i \in 1..(Len(p) + Len(q)) :
           (p \o q)[i] = IF i <= Len(p) THEN p[i] ELSE q[i - Len(p)]
  BY <1>1, <1>3, ConcatProperties
<1>5. Len(p \o q) = c
  BY <1>1, <1>3, <1>4
<1>6. ASSUME NEW i \in 1..c PROVE (p \o q)[i] = r[i]
  <2>1. (p \o q)[i] = IF i <= b THEN p[i] ELSE q[i - b]
    <3>1. i \in 1..(Len(p) + Len(q)) /\ Len(p) = b
      BY <1>1, <1>3
    <3> QED
      BY <1>4, <3>1
  <2>2. CASE i <= b
    BY <1>1, <1>2, <2>1, <2>2
  <2>3. CASE ~(i <= b)
    <3>1. i - b \in 1..(c - b) /\ b + (i - b) = i
      BY <2>3
    <3> QED
      BY <1>2, <1>3, <2>1, <2>3, <3>1
  <2> QED
    BY <2>2, <2>3
<1> DEFINE pq == p \o q
<1>7. pq \in Seq(Nat) /\ Len(pq) = Len(r) /\ \A i \in 1..Len(pq) : pq[i] = r[i]
  BY <1>2, <1>4, <1>5, <1>6
<1> HIDE DEF pq
<1>8. pq = r
  BY <1>2, <1>7, SeqEqual
<1> QED
  BY <1>8 DEF pq, p, q, r

\* More lines do not change which of the earlier ones are answered.
LEMMA AnsweredConcat ==
  ASSUME NEW lines \in Seq(Seq(Byte)), NEW more \in Seq(Seq(Byte))
  PROVE  /\ AnsweredFrom(1, lines \o more) =
              AnsweredFrom(1, lines) \o AnsweredFrom(Len(lines) + 1, lines \o more)
         /\ AnsweredFrom(1, lines) \in Seq(Nat \ {0})
         /\ AnsweredFrom(Len(lines) + 1, lines \o more) \in Seq(Nat \ {0})
<1> DEFINE L == Len(lines)
           all == lines \o more
           M == Len(all)
<1>1. /\ L \in Nat /\ M \in Nat /\ L <= M /\ all \in Seq(Seq(Byte)) /\ M = L + Len(more)
      /\ Len(more) \in Nat
  BY ConcatProperties, LenProperties
<1>2. \A i \in 1..L : all[i] = lines[i]
  BY <1>1, ConcatProperties
<1>3. DOMAIN lines = 1..L /\ DOMAIN all = 1..M
  BY <1>1, LenProperties
<1>4. /\ AnsweredFrom(1, all) = Only(Numbers(1, M), AnsweredIn(all))
      /\ AnsweredFrom(1, lines) = Only(Numbers(1, L), AnsweredIn(lines))
      /\ AnsweredFrom(L + 1, all) = Only(Numbers(L + 1, M), AnsweredIn(all))
  BY DEF AnsweredFrom, Numbers, AnsweredIn
<1> HIDE DEF L, all, M
<1>5. /\ Numbers(1, L) \in Seq(Nat) /\ Numbers(1, L) \in Seq(1..L)
      /\ Numbers(L + 1, M) \in Seq(Nat) /\ Numbers(L + 1, M) \in Seq((L + 1)..M)
  <2>1. 1 \in Nat \ {0} /\ 1 <= L + 1 /\ L + 1 \in Nat \ {0} /\ L + 1 <= M + 1
    BY <1>1
  <2> QED
    BY <1>1, <2>1, NumbersFacts
<1>6. Numbers(1, L) \o Numbers(L + 1, M) = Numbers(1, M)
  BY <1>1, NumbersConcat
<1>7. Only(Numbers(1, M), AnsweredIn(all)) =
        Only(Numbers(1, L), AnsweredIn(all)) \o Only(Numbers(L + 1, M), AnsweredIn(all))
  <2>1. Only(Numbers(1, L) \o Numbers(L + 1, M), AnsweredIn(all)) =
          Only(Numbers(1, L), AnsweredIn(all)) \o Only(Numbers(L + 1, M), AnsweredIn(all))
    <3>1. \A S : \A s, t \in Seq(Nat) : Only(s \o t, S) = Only(s, S) \o Only(t, S)
      BY OnlyConcat
    <3> QED
      BY <1>5, <3>1, Zenon
  <2> QED
    BY <1>6, <2>1, Zenon
<1>8. Only(Numbers(1, L), AnsweredIn(all)) = Only(Numbers(1, L), AnsweredIn(lines))
  <2>1. \A j \in 1..L : j \in AnsweredIn(all) <=> j \in AnsweredIn(lines)
    BY <1>1, <1>2, <1>3 DEF AnsweredIn
  <2> DEFINE S == AnsweredIn(all)
             T == AnsweredIn(lines)
             A == 1..L
             s == Numbers(1, L)
  <2>2. s \in Seq(A) /\ \A j \in A : j \in S <=> j \in T
    BY <1>5, <2>1
  <2> HIDE DEF S, T, A, s
  <2>3. Only(s, S) = Only(s, T)
    BY <2>2, OnlySame
  <2> QED
    BY <2>3 DEF S, T, s
<1>9. \A S : Only(Numbers(1, L), S) \in Seq(1..L) /\ Only(Numbers(L + 1, M), S) \in Seq((L + 1)..M)
  BY <1>5, OnlyIsSeq
<1>10. 1..L \subseteq Nat \ {0} /\ (L + 1)..M \subseteq Nat \ {0}
  BY <1>1
<1>11. Seq(1..L) \subseteq Seq(Nat \ {0}) /\ Seq((L + 1)..M) \subseteq Seq(Nat \ {0})
  BY <1>10, SeqMonotonic
<1>12. /\ AnsweredFrom(1, all) = AnsweredFrom(1, lines) \o AnsweredFrom(L + 1, all)
       /\ AnsweredFrom(1, lines) \in Seq(Nat \ {0})
       /\ AnsweredFrom(L + 1, all) \in Seq(Nat \ {0})
  BY <1>4, <1>7, <1>8, <1>9, <1>11
<1> QED
  BY <1>12 DEF L, all

\* Of one line more there is one answer, or none.
LEMMA AnsweredAppend ==
  ASSUME NEW lines \in Seq(Seq(Byte)), NEW line \in Seq(Byte)
  PROVE  LET was == AnsweredFrom(1, lines)
             now == AnsweredFrom(1, Append(lines, line))
         IN  was \in Seq(Nat) /\ (now = was \/ \E n \in Nat : now = Append(was, n))
<1> DEFINE L == Len(lines)
           was == AnsweredFrom(1, lines)
           all == Append(lines, line)
           one == AnsweredFrom(L + 1, all)
<1>1. all = lines \o <<line>> /\ <<line>> \in Seq(Seq(Byte)) /\ Len(all) = L + 1 /\ L \in Nat
  BY AppendIsConcat, AppendProperties, LenProperties
<1>2. /\ AnsweredFrom(1, all) = was \o one /\ was \in Seq(Nat \ {0})
  BY <1>1, AnsweredConcat
<1>3. was \in Seq(Nat)
  <2>1. Nat \ {0} \subseteq Nat
    OBVIOUS
  <2> QED
    BY <1>2, <2>1, SeqMonotonic
<1>4. one = Only(Numbers(L + 1, L + 1), AnsweredIn(all))
  BY <1>1 DEF AnsweredFrom, Numbers, AnsweredIn
<1>5. Numbers(L + 1, L + 1) = Append(<<>>, L + 1)
  <2> DEFINE s == Numbers(L + 1, L + 1)
             t == Append(<<>>, L + 1)
  <2>1. L + 1 \in Nat \ {0} /\ L + 1 \in Nat /\ L + 1 <= (L + 1) + 1
        /\ (L + 1) - (L + 1) + 1 = 1 /\ (L + 1) + 1 - 1 = L + 1 /\ 1 \in 1..1
    BY <1>1
  <2>2. s \in Seq(Nat) /\ Len(s) = 1 /\ s[1] = L + 1
    BY <2>1, NumbersFacts
  <2>3. t \in Seq(Nat) /\ Len(t) = 1 /\ t[1] = L + 1
    BY <2>1
  <2>4. \A i \in 1..Len(s) : s[i] = t[i]
    BY <2>2, <2>3
  <2> HIDE DEF s, t
  <2>5. s = t
    BY <2>2, <2>3, <2>4, SeqEqual
  <2> QED
    BY <2>5 DEF s, t
<1>6. one = <<>> \/ one = Append(<<>>, L + 1)
  <2>1. <<>> \in Seq(Nat) /\ L + 1 \in Nat
    BY <1>1, EmptySeq
  <2>2. \A S : Only(Append(<<>>, L + 1), S) =
                IF L + 1 \in S THEN Append(Only(<<>>, S), L + 1) ELSE Only(<<>>, S)
    BY <2>1, OnlyAppend
  <2> HIDE DEF one, all
  <2> QED
    BY <1>4, <1>5, <2>2, OnlyEmpty
<1> HIDE DEF was, one
<1>7. CASE one = <<>>
  <2>1. was \o <<>> = was
    BY <1>3, ConcatEmptySeq
  <2> QED
    BY <1>2, <1>3, <1>7, <2>1 DEF was
<1>8. CASE one = Append(<<>>, L + 1)
  <2>1. L + 1 \in Nat /\ <<>> \in Seq(Nat) /\ was \o <<>> = was
    BY <1>1, <1>3, ConcatEmptySeq, EmptySeq
  <2>2. \A x, y \in Seq(Nat), a \in Nat : x \o Append(y, a) = Append(x \o y, a)
    BY ConcatAppend
  <2>3. was \o Append(<<>>, L + 1) = Append(was \o <<>>, L + 1)
    BY <1>3, <2>1, <2>2, Zenon
  <2>4. AnsweredFrom(1, all) = Append(was, L + 1)
    BY <1>2, <1>8, <2>1, <2>3
  <2> QED
    BY <1>3, <2>1, <2>4 DEF was
<1> QED
  BY <1>6, <1>7, <1>8

LEMMA PiecesConcat ==
  ASSUME NEW a \in Nat \ {0}, NEW b \in Nat, NEW c \in Nat, a <= b + 1, b <= c
  PROVE  Pieces(a, b) \o Pieces(b + 1, c) = Pieces(a, c)
<1> DEFINE p == Pieces(a, b)
           q == Pieces(b + 1, c)
           r == Pieces(a, c)
           P == 2 * (b - a + 1)
           Q == 2 * (c - b)
           R == 2 * (c - a + 1)
<1>1. /\ p \in Seq(Piece) /\ Len(p) = P
      /\ \A k \in 1..P : p[k] = <<a + ((k - 1) \div 2), 1 + ((k - 1) % 2)>>
  BY PiecesFacts
<1>2. /\ r \in Seq(Piece) /\ Len(r) = R
      /\ \A k \in 1..R : r[k] = <<a + ((k - 1) \div 2), 1 + ((k - 1) % 2)>>
  <2>1. a <= c + 1
    OBVIOUS
  <2> QED
    BY <2>1, PiecesFacts
<1>3. /\ q \in Seq(Piece) /\ Len(q) = Q
      /\ \A k \in 1..Q : q[k] = <<(b + 1) + ((k - 1) \div 2), 1 + ((k - 1) % 2)>>
  <2>1. b + 1 \in Nat \ {0} /\ b + 1 <= c + 1 /\ 2 * (c - (b + 1) + 1) = Q
    OBVIOUS
  <2> QED
    BY <2>1, PiecesFacts
<1> HIDE DEF p, q, r
<1>4. /\ p \o q \in Seq(Piece) /\ Len(p \o q) = Len(p) + Len(q)
      /\ \A i \in 1..(Len(p) + Len(q)) :
           (p \o q)[i] = IF i <= Len(p) THEN p[i] ELSE q[i - Len(p)]
  BY <1>1, <1>3, ConcatProperties
<1>5. P + Q = R /\ P \in Nat /\ Q \in Nat
  OBVIOUS
<1>6. ASSUME NEW i \in 1..R PROVE (p \o q)[i] = r[i]
  <2>1. (p \o q)[i] = IF i <= P THEN p[i] ELSE q[i - P]
    BY <1>1, <1>3, <1>4, <1>5
  <2>2. CASE i <= P
    <3>1. i \in 1..P
      BY <1>5, <2>2
    <3> HIDE DEF P, Q, R
    <3> QED
      BY <1>1, <1>2, <2>1, <2>2, <3>1
  <2>3. CASE ~(i <= P)
    <3>1. i - P \in 1..Q
      BY <1>5, <2>3
    <3>2. /\ (b + 1) + (((i - P) - 1) \div 2) = a + ((i - 1) \div 2)
          /\ ((i - P) - 1) % 2 = (i - 1) % 2
      <4>1. (i - P) - 1 = (i - 1) - 2 * (b - a + 1) /\ i - 1 \in Nat /\ (i - P) - 1 \in Nat
        BY <1>5, <2>3
      <4>2. \A x \in Nat, y \in Nat : x - 2 * y \in Nat =>
              /\ (x - 2 * y) \div 2 = (x \div 2) - y
              /\ (x - 2 * y) % 2 = x % 2
        OBVIOUS
      <4>3. b - a + 1 \in Nat
        OBVIOUS
      <4>4. /\ ((i - 1) - 2 * (b - a + 1)) \div 2 = ((i - 1) \div 2) - (b - a + 1)
            /\ ((i - 1) - 2 * (b - a + 1)) % 2 = (i - 1) % 2
        BY <4>1, <4>2, <4>3
      <4>5. (i - 1) \div 2 \in Nat
        OBVIOUS
      <4> QED
        BY <4>1, <4>4, <4>5
    <3> HIDE DEF P, Q, R
    <3> QED
      BY <1>2, <1>3, <2>1, <2>3, <3>1, <3>2
  <2> QED
    BY <2>2, <2>3
<1> DEFINE pq == p \o q
<1>7. pq \in Seq(Piece) /\ Len(pq) = Len(r) /\ \A i \in 1..Len(pq) : pq[i] = r[i]
  BY <1>1, <1>2, <1>3, <1>4, <1>5, <1>6
<1> HIDE DEF pq
<1>8. pq = r
  BY <1>2, <1>7, SeqEqual
<1> QED
  BY <1>8 DEF pq, p, q, r

\* The pieces of one message more.
LEMMA PiecesAppend ==
  ASSUME NEW n \in Nat
  PROVE  /\ Pieces(1, 0) = <<>>
         /\ Pieces(1, n + 1) = Append(Append(Pieces(1, n), <<n + 1, 1>>), <<n + 1, 2>>)
<1>1. Pieces(1, 0) = <<>>
  <2>1. 1 \in Nat \ {0} /\ 0 \in Nat /\ 1 <= 0 + 1 /\ 2 * (0 - 1 + 1) = 0
    OBVIOUS
  <2>2. Pieces(1, 0) \in Seq(Piece) /\ Len(Pieces(1, 0)) = 0
    BY <2>1, PiecesFacts
  <2> QED
    BY <2>2, EmptySeq
<1> DEFINE p == Pieces(1, n)
           q == Pieces(n + 1, n + 1)
           one == Append(Append(<<>>, <<n + 1, 1>>), <<n + 1, 2>>)
<1>2. p \in Seq(Piece)
  <2>1. 1 \in Nat \ {0} /\ 1 <= n + 1
    OBVIOUS
  <2> QED
    BY <2>1, PiecesFacts
<1>3. q \in Seq(Piece) /\ Len(q) = 2 /\ q[1] = <<n + 1, 1>> /\ q[2] = <<n + 1, 2>>
  <2>1. n + 1 \in Nat \ {0} /\ n + 1 <= (n + 1) + 1 /\ 2 * ((n + 1) - (n + 1) + 1) = 2
    OBVIOUS
  <2>2. /\ q \in Seq(Piece) /\ Len(q) = 2
        /\ \A k \in 1..2 : q[k] = <<(n + 1) + ((k - 1) \div 2), 1 + ((k - 1) % 2)>>
    BY <2>1, PiecesFacts
  <2> HIDE DEF q
  <2>3. q[1] = <<(n + 1) + ((1 - 1) \div 2), 1 + ((1 - 1) % 2)>>
    BY <2>2
  <2>4. q[2] = <<(n + 1) + ((2 - 1) \div 2), 1 + ((2 - 1) % 2)>>
    BY <2>2
  <2>5. /\ (1 - 1) \div 2 = 0 /\ (1 - 1) % 2 = 0 /\ (2 - 1) \div 2 = 0 /\ (2 - 1) % 2 = 1
        /\ (n + 1) + 0 = n + 1 /\ 1 + 0 = 1 /\ 1 + 1 = 2
    OBVIOUS
  <2> QED
    BY <2>2, <2>3, <2>4, <2>5
<1>4. <<n + 1, 1>> \in Piece /\ <<n + 1, 2>> \in Piece /\ <<>> \in Seq(Piece)
  BY EmptySeq DEF Piece
<1>5. one \in Seq(Piece) /\ Len(one) = 2 /\ one[1] = <<n + 1, 1>> /\ one[2] = <<n + 1, 2>>
  <2> DEFINE x == <<n + 1, 1>>
             y == <<n + 1, 2>>
  <2>1. x \in Piece /\ y \in Piece
    BY <1>4
  <2> HIDE DEF x, y
  <2>2. Append(<<>>, x) \in Seq(Piece) /\ Len(Append(<<>>, x)) = 1 /\ Append(<<>>, x)[1] = x
    BY <1>4, <2>1
  <2>3. LET o == Append(Append(<<>>, x), y)
        IN  o \in Seq(Piece) /\ Len(o) = 2 /\ o[1] = x /\ o[2] = y
    BY <2>1, <2>2, AppendProperties
  <2> QED
    BY <2>3 DEF x, y
<1> HIDE DEF p, q, one
<1>6. q = one
  <2>1. q[1] = one[1] /\ q[2] = one[2]
    BY <1>3, <1>5, Zenon
  <2>2. ASSUME NEW i \in 1..Len(q) PROVE q[i] = one[i]
    <3>1. i = 1 \/ i = 2
      BY <1>3
    <3> QED
      BY <2>1, <3>1, Zenon
  <2> QED
    BY <1>3, <1>5, <2>2, SeqEqual
<1>7. p \o q = Pieces(1, n + 1)
  <2>1. 1 \in Nat \ {0} /\ 1 <= n + 1 /\ n <= n + 1 /\ n + 1 \in Nat
    OBVIOUS
  <2> QED
    BY <2>1, PiecesConcat DEF p, q
<1>8. p \o one = Append(Append(p, <<n + 1, 1>>), <<n + 1, 2>>)
  <2> DEFINE x == <<n + 1, 1>>
             y == <<n + 1, 2>>
  <2>1. x \in Piece /\ y \in Piece
    BY <1>4
  <2> HIDE DEF x, y
  <2>2. \A s, t \in Seq(Piece), a \in Piece : s \o Append(t, a) = Append(s \o t, a)
    BY ConcatAppend
  <2>3. Append(<<>>, x) \in Seq(Piece) /\ p \o <<>> = p
    BY <1>2, <1>4, <2>1, ConcatEmptySeq
  <2>4. p \o Append(<<>>, x) = Append(p \o <<>>, x)
    BY <1>2, <1>4, <2>1, <2>2, Zenon
  <2>5. p \o Append(Append(<<>>, x), y) = Append(p \o Append(<<>>, x), y)
    BY <1>2, <2>1, <2>2, <2>3, Zenon
  <2> QED
    BY <2>3, <2>4, <2>5 DEF one, x, y
<1> QED
  BY <1>1, <1>6, <1>7, <1>8 DEF p

\* The lines answered by the messages whose ends are in out.
Ends(out, ms) == Only(out, {j \in DOMAIN ms : ms[j] # 0} \X {2})
AnswersIn(out, ms) ==
  [k \in DOMAIN Ends(out, ms) |-> ms[Ends(out, ms)[k][1]]]

LEMMA HeardAnswersIn == AnswersHeard = AnswersIn(heard, messages)
BY DEF AnswersHeard, AnswersIn, Ends

\* Where out has all the pieces of the first messages: the answers among these.
LEMMA AnswersOfPieces ==
  ASSUME NEW ms \in Seq(Nat), NEW m \in 0..Len(ms)
  PROVE  AnswersIn(Pieces(1, m), ms) = Only(SubSeq(ms, 1, m), Nat \ {0})
<1> DEFINE Z == {j \in DOMAIN ms : ms[j] # 0}
           S == Z \X {2}
           N == Len(ms)
           E(n) == Only(Pieces(1, n), S)
           Image(e) == [k \in DOMAIN e |-> ms[e[k][1]]]
           Good == {n \in Nat : n <= N => Image(E(n)) = Only(SubSeq(ms, 1, n), Nat \ {0})}
<1>1. N \in Nat /\ DOMAIN ms = 1..N /\ \A i \in 1..N : ms[i] \in Nat
  BY LenProperties, ElementOfSeq
<1>2. 0 \in Good
  <2>1. E(0) = <<>>
    BY PiecesAppend, OnlyEmpty
  <2>2. SubSeq(ms, 1, 0) = <<>>
    BY SubSeqEmpty
  <2>3. Image(<<>>) = <<>>
    OBVIOUS
  <2> HIDE DEF E, Image
  <2> QED
    BY <2>1, <2>2, <2>3, OnlyEmpty
<1>3. ASSUME NEW n \in Nat, n \in Good PROVE n + 1 \in Good
  <2> SUFFICES ASSUME n + 1 <= N
               PROVE  Image(E(n + 1)) = Only(SubSeq(ms, 1, n + 1), Nat \ {0})
    OBVIOUS
  <2>1. n <= N /\ n + 1 \in 1..N /\ n \in 0..N /\ n + 1 \in 0..N
    BY <1>1
  <2>2. Image(E(n)) = Only(SubSeq(ms, 1, n), Nat \ {0})
    BY <1>3, <2>1
  <2>3. SubSeq(ms, 1, n + 1) = Append(SubSeq(ms, 1, n), ms[n + 1])
    <3> DEFINE a == SubSeq(ms, 1, n)
               b == SubSeq(ms, 1, n + 1)
               c == Append(a, ms[n + 1])
    <3>1. a \in Seq(Nat) /\ Len(a) = n /\ b \in Seq(Nat) /\ Len(b) = n + 1
      BY <2>1, CutInTwo
    <3>2. ms[n + 1] \in Nat
      BY <1>1, <2>1
    <3>3. /\ \A i \in 1..n : a[i] = ms[i]
          /\ \A i \in 1..(n + 1) : b[i] = ms[i]
      BY <1>1, <2>1, <3>1
    <3> HIDE DEF a, b
    <3>4. c \in Seq(Nat) /\ Len(c) = n + 1 /\ \A i \in 1..(n + 1) : c[i] = ms[i]
      BY <3>1, <3>2, <3>3, AppendProperties
    <3> HIDE DEF c
    <3>5. b = c
      BY <3>1, <3>3, <3>4, SeqEqual
    <3> QED
      BY <3>5 DEF a, b, c
  <2>4. SubSeq(ms, 1, n) \in Seq(Nat) /\ ms[n + 1] \in Nat
    BY <1>1, <2>1, CutInTwo
  <2> DEFINE p == Pieces(1, n)
             x == <<n + 1, 1>>
             y == <<n + 1, 2>>
  <2>5. p \in Seq(Piece) /\ x \in Piece /\ y \in Piece /\ Append(p, x) \in Seq(Piece)
    <3>1. 1 \in Nat \ {0} /\ 1 <= n + 1
      OBVIOUS
    <3>2. p \in Seq(Piece)
      BY <3>1, PiecesFacts
    <3>3. x \in Piece /\ y \in Piece
      BY DEF Piece
    <3> HIDE DEF p, x, y
    <3> QED
      BY <3>2, <3>3, AppendProperties
  <2>6. x \notin S /\ (y \in S <=> ms[n + 1] # 0)
    BY <1>1, <2>1
  <2>7. E(n + 1) = IF ms[n + 1] # 0 THEN Append(E(n), y) ELSE E(n)
    <3>1. Pieces(1, n + 1) = Append(Append(p, x), y)
      BY PiecesAppend
    <3>2. /\ Only(Append(Append(p, x), y), S) =
                IF y \in S THEN Append(Only(Append(p, x), S), y) ELSE Only(Append(p, x), S)
          /\ Only(Append(p, x), S) = IF x \in S THEN Append(Only(p, S), x) ELSE Only(p, S)
      <4> HIDE DEF p, x, y, S
      <4> QED
        BY <2>5, OnlyAppend
    <3>3. E(n) = Only(p, S) /\ E(n + 1) = Only(Append(Append(p, x), y), S)
      BY <3>1
    <3> HIDE DEF p, x, y, S, E
    <3> QED
      BY <2>6, <3>2, <3>3
  <2>8. E(n) \in Seq(Piece)
    BY <2>5, OnlyIsSeq
  <2>9. CASE ms[n + 1] # 0
    <3>1. E(n + 1) = Append(E(n), y)
      BY <2>7, <2>9
    <3>2. Image(Append(E(n), y)) = Append(Image(E(n)), ms[n + 1])
      <4> DEFINE e == E(n)
                 K == Len(e)
                 f == Append(e, y)
      <4>1. e \in Seq(Piece) /\ K \in Nat /\ DOMAIN e = 1..K
        BY <2>8, LenProperties
      <4> HIDE DEF E, e
      <4>2. /\ Len(f) = K + 1 /\ DOMAIN f = 1..(K + 1) /\ f[K + 1] = y
            /\ \A i \in 1..K : f[i] = e[i]
        <5> HIDE DEF y
        <5> QED
          BY <2>5, <4>1, AppendProperties, LenProperties
      <4> HIDE DEF f, K
      <4> DEFINE a == Image(e)
                 b == Append(a, ms[n + 1])
                 c == Image(f)
                 V == {ms[i] : i \in Nat}
      <4>3. \A i \in 1..K : e[i] \in Piece /\ e[i][1] \in Nat
        BY <4>1, ElementOfSeq DEF Piece, K
      <4>4. a \in [1..K -> V]
        BY <4>1, <4>3
      <4>5. a \in Seq(V) /\ Len(a) = K
        <5> HIDE DEF a, V
        <5> QED
          BY <4>1, <4>4
      <4>6. ms[n + 1] \in V /\ y[1] = n + 1
        OBVIOUS
      <4>7. b \in Seq(V) /\ Len(b) = K + 1 /\ b[K + 1] = ms[n + 1] /\ \A i \in 1..K : b[i] = a[i]
        <5> HIDE DEF a, V
        <5> QED
          BY <4>5, <4>6, AppendProperties
      <4>8. c \in [1..(K + 1) -> V]
        <5>1. \A i \in 1..(K + 1) : f[i][1] \in Nat
          BY <4>1, <4>2, <4>3, <4>6
        <5> QED
          BY <4>2, <5>1
      <4>9. c \in Seq(V) /\ Len(c) = K + 1
        <5>1. K + 1 \in Nat
          BY <4>1
        <5> HIDE DEF c, V
        <5> QED
          BY <4>8, <5>1
      <4>10. ASSUME NEW i \in 1..(K + 1) PROVE c[i] = b[i]
        <5>1. c[i] = ms[f[i][1]]
          BY <4>2
        <5>2. CASE i \in 1..K
          BY <4>1, <4>2, <4>7, <5>1, <5>2
        <5>3. CASE i = K + 1
          BY <4>2, <4>6, <4>7, <5>1, <5>3
        <5> QED
          BY <4>1, <5>2, <5>3
      <4> HIDE DEF a, b, c, V
      <4>11. c = b
        BY <4>7, <4>9, <4>10, SeqEqual
      <4> QED
        BY <4>11 DEF c, b, a, e, f
    <3>3. Only(Append(SubSeq(ms, 1, n), ms[n + 1]), Nat \ {0}) =
            Append(Only(SubSeq(ms, 1, n), Nat \ {0}), ms[n + 1])
      <4> DEFINE t == SubSeq(ms, 1, n)
                 a == ms[n + 1]
                 NZ == Nat \ {0}
      <4>1. t \in Seq(Nat) /\ a \in Nat /\ a \in NZ
        BY <2>4, <2>9
      <4> HIDE DEF t, a, NZ
      <4>2. Only(Append(t, a), NZ) = IF a \in NZ THEN Append(Only(t, NZ), a) ELSE Only(t, NZ)
        <5>1. \A A, T : \A u \in Seq(A), b \in A :
                Only(Append(u, b), T) = IF b \in T THEN Append(Only(u, T), b) ELSE Only(u, T)
          BY OnlyAppend
        <5> QED
          BY <4>1, <5>1, Zenon
      <4>3. Only(Append(t, a), NZ) = Append(Only(t, NZ), a)
        BY <4>1, <4>2
      <4> QED
        BY <4>3 DEF t, a, NZ
    <3> HIDE DEF E, Image, y
    <3> QED
      BY <2>2, <2>3, <3>1, <3>2, <3>3
  <2>10. CASE ms[n + 1] = 0
    <3>1. E(n + 1) = E(n)
      BY <2>7, <2>10
    <3>2. Only(Append(SubSeq(ms, 1, n), ms[n + 1]), Nat \ {0}) =
            Only(SubSeq(ms, 1, n), Nat \ {0})
      <4>1. ms[n + 1] \notin Nat \ {0}
        BY <2>10
      <4> QED
        BY <2>4, <4>1, OnlyAppend
    <3> HIDE DEF E, Image, y
    <3> QED
      BY <2>2, <2>3, <3>1, <3>2
  <2> QED
    BY <2>9, <2>10
<1>4. Nat \subseteq Good
  <2> HIDE DEF Good
  <2> QED
    BY <1>2, <1>3, CountingUp
<1>5. m \in Nat /\ m <= N
  BY <1>1
<1>6. AnswersIn(Pieces(1, m), ms) = Image(E(m))
  BY DEF AnswersIn, Ends
<1> HIDE DEF E, Image
<1> QED
  BY <1>4, <1>5, <1>6

\* What has been queued answers the lines served; while the socket takes all it is
\* given, the client has got the first of it, the rest being in the send buffer.
AnswersInv ==
  /\ Only(messages, Nat \ {0}) = AnsweredFrom(1, served)
  /\ roomy => \E m \in 0..Len(messages) :
       /\ heard = Pieces(1, m)
       /\ sendBuffer = Pieces(m + 1, Len(messages))

LEMMA AnswersTypes ==
  ASSUME DialogueTypeOK
  PROVE  /\ messages \in Seq(Nat) /\ served \in Seq(Seq(Byte)) /\ sent \in Seq(Byte)
         /\ sendBuffer \in Seq(Piece) /\ heard \in Seq(Piece)
<1>1. messages \in Seq(0..Len(served)) /\ served \in Seq(Seq(Byte))
  BY DEF DialogueTypeOK, TypeOK
<1>2. 0..Len(served) \subseteq Nat
  BY <1>1, LenProperties
<1>3. messages \in Seq(Nat)
  BY <1>1, <1>2, SeqMonotonic
<1> QED
  BY <1>1, <1>3 DEF DialogueTypeOK, TypeOK

\* Queueing leaves alone what the client has got.
LEMMA AnswersQueue ==
  ASSUME DialogueTypeOK, AnswersInv, NEW new \in Seq(Nat), Queue(new),
         UNCHANGED <<roomy, heard>>
  PROVE  /\ messages' = messages \o new
         /\ roomy' => \E m \in 0..Len(messages') :
              /\ heard' = Pieces(1, m)
              /\ sendBuffer' = Pieces(m + 1, Len(messages'))
         /\ roomy => AnswersHeard' = AnswersHeard
<1>1. messages \in Seq(Nat)
  BY AnswersTypes
<1>2. /\ messages' = messages \o new
      /\ sendBuffer' = sendBuffer \o Pieces(Len(messages) + 1, Len(messages) + Len(new))
  BY DEF Queue, Appended
<1>3. /\ Len(messages) \in Nat /\ Len(new) \in Nat /\ messages' \in Seq(Nat)
      /\ Len(messages') = Len(messages) + Len(new)
  BY <1>1, <1>2, ConcatProperties, LenProperties
<1>4. CASE ~roomy
  BY <1>2, <1>4
<1>5. CASE roomy
  <2>1. PICK m \in 0..Len(messages) :
          heard = Pieces(1, m) /\ sendBuffer = Pieces(m + 1, Len(messages))
    BY <1>5 DEF AnswersInv
  <2>2. /\ m \in 0..Len(messages') /\ m + 1 \in Nat \ {0} /\ m \in Nat
        /\ m + 1 <= Len(messages) + 1 /\ Len(messages) <= Len(messages')
        /\ Len(messages') \in Nat
    BY <1>3
  <2>3. sendBuffer' = Pieces(m + 1, Len(messages'))
    <3>1. sendBuffer' = Pieces(m + 1, Len(messages)) \o Pieces(Len(messages) + 1, Len(messages'))
      BY <1>2, <1>3, <2>1
    <3>2. Pieces(m + 1, Len(messages)) \o Pieces(Len(messages) + 1, Len(messages'))
            = Pieces(m + 1, Len(messages'))
      BY <1>3, <2>2, PiecesConcat
    <3> QED
      BY <3>1, <3>2, Zenon
  <2>4. heard' = Pieces(1, m)
    BY <2>1
  <2>5. SubSeq(messages', 1, m) = SubSeq(messages, 1, m)
    <3> DEFINE a == SubSeq(messages, 1, m)
               b == SubSeq(messages', 1, m)
    <3>1. a \in Seq(Nat) /\ Len(a) = m /\ b \in Seq(Nat) /\ Len(b) = m
      BY <1>1, <1>3, <2>2, CutInTwo
    <3>2. \A i \in 1..m : a[i] = messages[i] /\ b[i] = messages'[i]
      BY <1>1, <1>3, <2>2, <3>1
    <3>3. \A i \in 1..m : messages'[i] = messages[i]
      <4>1. \A i \in 1..(Len(messages) + Len(new)) :
              (messages \o new)[i] =
                IF i <= Len(messages) THEN messages[i] ELSE new[i - Len(messages)]
        BY <1>1, ConcatProperties
      <4>2. ASSUME NEW i \in 1..m PROVE (messages \o new)[i] = messages[i]
        <5>1. i \in 1..(Len(messages) + Len(new)) /\ i <= Len(messages)
          BY <1>3
        <5> QED
          BY <4>1, <5>1
      <4> QED
        BY <1>2, <4>2
    <3> HIDE DEF a, b
    <3>4. \A i \in 1..Len(b) : b[i] = a[i]
      BY <3>1, <3>2, <3>3
    <3>5. b = a
      BY <3>1, <3>4, SeqEqual
    <3> QED
      BY <3>5 DEF a, b
  <2>6. AnswersHeard = Only(SubSeq(messages, 1, m), Nat \ {0})
    BY <1>1, <2>1, AnswersOfPieces, HeardAnswersIn
  <2>7. AnswersHeard' = Only(SubSeq(messages', 1, m), Nat \ {0})
    <3>1. AnswersHeard' = AnswersIn(heard', messages')
      BY DEF AnswersHeard, AnswersIn, Ends
    <3>2. AnswersIn(Pieces(1, m), messages') = Only(SubSeq(messages', 1, m), Nat \ {0})
      <4> DEFINE ms == messages'
      <4>1. ms \in Seq(Nat) /\ m \in 0..Len(ms)
        BY <1>3, <2>2
      <4> HIDE DEF ms
      <4>2. AnswersIn(Pieces(1, m), ms) = Only(SubSeq(ms, 1, m), Nat \ {0})
        BY <4>1, AnswersOfPieces
      <4> QED
        BY <4>2 DEF ms
    <3> QED
      BY <2>4, <3>1, <3>2
  <2>8. AnswersHeard' = AnswersHeard
    BY <2>5, <2>6, <2>7, Zenon
  <2> QED
    BY <1>2, <2>2, <2>3, <2>4, <2>8
<1> QED
  BY <1>4, <1>5

\* send_message with room: the client gets all that was in the send buffer.
LEMMA AnswersSend ==
  ASSUME DialogueTypeOK, AnswersInv, SendMessage
  PROVE  /\ AnswersInv'
         /\ roomy => \E new \in Seq(Nat) :
              /\ AnswersHeard' = AnswersHeard \o new
              /\ AnswersHeard' = AnsweredFrom(1, served)
              /\ AnswersHeard \in Seq(Nat)
<1>1. messages \in Seq(Nat) /\ sendBuffer \in Seq(Piece) /\ Len(messages) \in Nat
  BY AnswersTypes, LenProperties
<1>2. PICK n \in 0..Len(sendBuffer) :
        heard' = heard \o SubSeq(sendBuffer, 1, n) /\ (roomy => n = Len(sendBuffer))
  BY SendMessageTakes
<1>3. sendBuffer' = <<>> /\ UNCHANGED <<served, messages, roomy>>
  BY SendMessageTakes DEF vars
<1>4. CASE ~roomy
  BY <1>3, <1>4 DEF AnswersInv
<1>5. CASE roomy
  <2> DEFINE L == Len(messages)
             NZ == Nat \ {0}
  <2>1. PICK m \in 0..L : heard = Pieces(1, m) /\ sendBuffer = Pieces(m + 1, L)
    BY <1>5 DEF AnswersInv
  <2>2. heard' = Pieces(1, L)
    <3>1. SubSeq(sendBuffer, 1, Len(sendBuffer)) = sendBuffer
      BY <1>1, SubSeqFull
    <3>2. heard' = Pieces(1, m) \o Pieces(m + 1, L)
      BY <1>2, <1>5, <2>1, <3>1
    <3>3. 1 \in Nat \ {0} /\ m \in Nat /\ L \in Nat /\ 1 <= m + 1 /\ m <= L
      BY <1>1
    <3> HIDE DEF L
    <3>4. Pieces(1, m) \o Pieces(m + 1, L) = Pieces(1, L)
      BY <3>3, PiecesConcat
    <3> QED
      BY <3>2, <3>4, Zenon
  <2>3. Pieces(L + 1, L) = <<>>
    <3>1. L + 1 \in Nat \ {0} /\ L \in Nat /\ L + 1 <= L + 1 /\ 2 * (L - (L + 1) + 1) = 0
      BY <1>1
    <3> HIDE DEF L
    <3>2. Pieces(L + 1, L) \in Seq(Piece) /\ Len(Pieces(L + 1, L)) = 0
      BY <3>1, PiecesFacts
    <3> QED
      BY <3>2, EmptySeq
  <2>4. AnswersInv'
    <3>1. L \in 0..Len(messages') /\ Len(messages') = L
      BY <1>1, <1>3
    <3> HIDE DEF L
    <3>2. heard' = Pieces(1, L) /\ sendBuffer' = Pieces(L + 1, Len(messages'))
      BY <1>3, <2>2, <2>3, <3>1
    <3>3. \E k \in 0..Len(messages') :
            heard' = Pieces(1, k) /\ sendBuffer' = Pieces(k + 1, Len(messages'))
      BY <3>1, <3>2
    <3>4. Only(messages', Nat \ {0}) = AnsweredFrom(1, served')
      BY <1>3 DEF AnswersInv
    <3> QED
      BY <3>3, <3>4 DEF AnswersInv
  <2> DEFINE a == SubSeq(messages, 1, m)
             b == SubSeq(messages, m + 1, L)
  <2>5. a \in Seq(Nat) /\ b \in Seq(Nat) /\ messages = a \o b
    BY <1>1, CutInTwo
  <2>6. AnswersHeard = Only(a, NZ)
    BY <1>1, <2>1, AnswersOfPieces, HeardAnswersIn
  <2>7. AnswersHeard' = Only(messages, NZ)
    <3>1. AnswersHeard' = AnswersIn(heard', messages')
      BY DEF AnswersHeard, AnswersIn, Ends
    <3>2. AnswersIn(Pieces(1, L), messages) = Only(SubSeq(messages, 1, L), NZ)
      <4>1. L \in 0..Len(messages)
        BY <1>1
      <4> HIDE DEF L
      <4> QED
        BY <1>1, <4>1, AnswersOfPieces
    <3>3. SubSeq(messages, 1, L) = messages
      BY <1>1, SubSeqFull
    <3> HIDE DEF L, NZ
    <3> QED
      BY <1>3, <2>2, <3>1, <3>2, <3>3
  <2>8. AnswersHeard' = AnsweredFrom(1, served)
    BY <2>7 DEF AnswersInv
  <2> HIDE DEF a, b, NZ
  <2>9. Only(messages, NZ) = Only(a, NZ) \o Only(b, NZ)
    <3>1. Only(a \o b, NZ) = Only(a, NZ) \o Only(b, NZ)
      BY <2>5, OnlyConcat
    <3> QED
      BY <2>5, <3>1
  <2>10. Only(a, NZ) \in Seq(Nat) /\ Only(b, NZ) \in Seq(Nat)
    BY <2>5, OnlyIsSeq
  <2>11. AnswersHeard' = AnswersHeard \o Only(b, NZ) /\ AnswersHeard \in Seq(Nat)
    BY <2>6, <2>7, <2>9, <2>10
  <2> QED
    BY <2>4, <2>8, <2>10, <2>11
<1> QED
  BY <1>4, <1>5

\* read_client_data queues the answers to the lines it has served.
LEMMA AnswersDueFacts ==
  ASSUME DialogueTypeOK, AnswersInv, ReadClientData
  PROVE  /\ AnswersDue \in Seq(Nat) /\ AnswersDue \in Seq(Nat \ {0})
         /\ AnsweredFrom(1, served') = AnsweredFrom(1, served) \o AnswersDue
<1>1. served \in Seq(Seq(Byte))
  BY AnswersTypes
<1>2. PICK more \in Seq(Seq(Byte)) : served' = served \o more
  BY ReceiveExtends, NoLFSequences DEF DialogueTypeOK, ReadClientData
<1>3. AnswersDue = AnsweredFrom(Len(served) + 1, served')
  BY DEF AnswersDue
<1>4. /\ AnsweredFrom(1, served') = AnsweredFrom(1, served) \o AnsweredFrom(Len(served) + 1, served')
      /\ AnsweredFrom(Len(served) + 1, served') \in Seq(Nat \ {0})
  BY <1>1, <1>2, AnsweredConcat
<1>5. Seq(Nat \ {0}) \subseteq Seq(Nat)
  <2>1. Nat \ {0} \subseteq Nat
    OBVIOUS
  <2> QED
    BY <2>1, SeqMonotonic
<1> QED
  BY <1>3, <1>4, <1>5

LEMMA NoticeFacts ==
  ASSUME messages \in Seq(Nat)
  PROVE  <<0>> \in Seq(Nat) /\ Only(messages \o <<0>>, Nat \ {0}) = Only(messages, Nat \ {0})
<1>1. messages \o <<0>> = Append(messages, 0) /\ <<0>> \in Seq(Nat)
  BY AppendIsConcat
<1>2. 0 \in Nat /\ 0 \notin Nat \ {0}
  OBVIOUS
<1>3. Only(Append(messages, 0), Nat \ {0}) = Only(messages, Nat \ {0})
  BY <1>2, OnlyAppend
<1> QED
  BY <1>1, <1>3

LEMMA AnswersStep ==
  ASSUME DialogueTypeOK, AnswersInv, [DialogueNext]_dialogueVars
  PROVE  AnswersInv'
<1>1. messages \in Seq(Nat)
  BY AnswersTypes
<1>2. ASSUME NEW b \in Byte, ClientSends(b) PROVE AnswersInv'
  BY <1>2 DEF ClientSends, SendByte, outVars, AnswersInv
<1>3. CASE OthersNotify
  <2>1. Queue(<<0>>) /\ UNCHANGED <<served, roomy, heard>>
    BY <1>3 DEF OthersNotify, vars
  <2>2. <<0>> \in Seq(Nat)
    BY <1>1, NoticeFacts
  <2>3. /\ messages' = messages \o <<0>>
        /\ roomy' => \E m \in 0..Len(messages') :
             heard' = Pieces(1, m) /\ sendBuffer' = Pieces(m + 1, Len(messages'))
    BY <2>1, <2>2, AnswersQueue
  <2>4. Only(messages', Nat \ {0}) = AnsweredFrom(1, served')
    BY <1>1, <2>1, <2>3, NoticeFacts DEF AnswersInv
  <2> QED
    BY <2>3, <2>4 DEF AnswersInv
<1>4. CASE Poll
  BY <1>4 DEF Poll, vars, AnswersInv
<1>5. CASE ReadClientData
  <2>1. Queue(AnswersDue) /\ UNCHANGED <<roomy, heard>>
    BY <1>5 DEF ReadClientData
  <2>2. /\ AnswersDue \in Seq(Nat) /\ AnswersDue \in Seq(Nat \ {0})
        /\ AnsweredFrom(1, served') = AnsweredFrom(1, served) \o AnswersDue
    BY <1>5, AnswersDueFacts
  <2> DEFINE due == AnswersDue
             NZ == Nat \ {0}
  <2> HIDE DEF due, NZ
  <2>3. due \in Seq(Nat) /\ due \in Seq(NZ) /\ Queue(due)
    BY <2>1, <2>2 DEF due, NZ
  <2>4. /\ messages' = messages \o due
        /\ roomy' => \E m \in 0..Len(messages') :
             heard' = Pieces(1, m) /\ sendBuffer' = Pieces(m + 1, Len(messages'))
    BY <2>1, <2>3, AnswersQueue
  <2>5. Only(messages \o due, NZ) = Only(messages, NZ) \o Only(due, NZ)
    BY <1>1, <2>3, OnlyConcat
  <2>6. Only(due, NZ) = due
    BY <2>3, OnlyAll
  <2>7. Only(messages', NZ) = AnsweredFrom(1, served')
    BY <2>2, <2>4, <2>5, <2>6 DEF AnswersInv, due, NZ
  <2> QED
    BY <2>4, <2>7 DEF AnswersInv, NZ
<1>6. CASE SendMessage
  BY <1>6, AnswersSend
<1>7. CASE UNCHANGED dialogueVars
  BY <1>7 DEF dialogueVars, vars, outVars, AnswersInv
<1> QED
  BY <1>2, <1>3, <1>4, <1>5, <1>6, <1>7 DEF DialogueNext, ServerStep

LEMMA AnswersInit ==
  ASSUME DialogueInit
  PROVE  AnswersInv /\ AnswersExpected = <<>> /\ AnswersHeard = <<>>
<1>1. /\ sent = <<>> /\ served = <<>> /\ messages = <<>> /\ heard = <<>> /\ sendBuffer = <<>>
  BY DEF DialogueInit, Init
<1>2. AnsweredFrom(1, <<>>) = <<>>
  <2>1. /\ 1 \in Nat \ {0} /\ <<>> \in Seq(Seq(Byte)) /\ Len(<<>>) = 0 /\ 1 <= Len(<<>>) + 1
    BY EmptySeq
  <2>2. AnsweredFrom(1, <<>>) \in Seq(1..0)
    <3>1. AnsweredFrom(1, <<>>) \in Seq(1..Len(<<>>))
      BY <2>1, AnsweredFromType
    <3> QED
      BY <2>1, <3>1
  <2>3. 1..0 = {}
    OBVIOUS
  <2> QED
    BY <2>2, <2>3
<1>3. Pieces(1, 0) = <<>>
  BY PiecesAppend
<1>4. AnswersInv
  <2>1. Only(messages, Nat \ {0}) = AnsweredFrom(1, served)
    BY <1>1, <1>2, OnlyEmpty
  <2>2. /\ 0 \in 0..Len(messages) /\ heard = Pieces(1, 0)
        /\ sendBuffer = Pieces(0 + 1, Len(messages))
    BY <1>1, <1>3
  <2>3. \E m \in 0..Len(messages) : heard = Pieces(1, m) /\ sendBuffer = Pieces(m + 1, Len(messages))
    BY <2>2
  <2> QED
    BY <2>1, <2>3 DEF AnswersInv
<1>5. Complete(<<>>) = <<>>
  BY CuttingUnfolds DEF Complete, NoCuts
<1>6. AnswersExpected = <<>>
  BY <1>1, <1>2, <1>5 DEF AnswersExpected
<1>7. AnswersHeard = <<>>
  <2>1. Ends(heard, messages) = <<>>
    BY <1>1, OnlyEmpty DEF Ends
  <2>2. AnswersIn(heard, messages) = <<>>
    BY <2>1 DEF AnswersIn
  <2> QED
    BY <2>2, HeardAnswersIn
<1> QED
  BY <1>4, <1>6, <1>7

\* Each step of the connection is one of the conversation, or none.
LEMMA ConversationStep ==
  ASSUME DialogueTypeOK, ServedInv, AnswersInv, [DialogueNext]_dialogueVars
  PROVE  [Conversation!Send \/ Conversation!Serve]_
           <<IF proper /\ roomy THEN AnswersExpected ELSE <<>>,
             IF proper /\ roomy THEN AnswersHeard ELSE <<>>>>
<1> DEFINE Same == AnswersExpected' = AnswersExpected /\ AnswersHeard' = AnswersHeard
<1>1. /\ sent \in Seq(Byte) /\ served \in Seq(Seq(Byte)) /\ messages \in Seq(Nat)
      /\ Complete(sent) \in Seq(Seq(Byte))
  BY AnswersTypes, CompleteType
<1>2. proper' = proper /\ roomy' = roomy
  BY DEF DialogueNext, ServerStep, ClientSends, SendByte, OthersNotify, Poll, ReadClientData,
         Receive, SendMessage, dialogueVars, vars, outVars
<1>3. sent' = sent => AnswersExpected' = AnswersExpected
  BY DEF AnswersExpected, Complete
<1>4. UNCHANGED <<messages, heard>> => AnswersHeard' = AnswersHeard
  BY DEF AnswersHeard
<1>5. ASSUME proper, roomy, NEW b \in Byte, ClientSends(b)
      PROVE  Conversation!Send \/ Same
  <2>1. sent' = Append(sent, b) /\ UNCHANGED <<messages, heard>>
    BY <1>5 DEF ClientSends, SendByte, outVars
  <2>2. CASE Complete(sent') = Complete(sent)
    BY <1>4, <2>1, <2>2 DEF AnswersExpected
  <2>3. ASSUME NEW line \in Seq(Byte), Complete(sent') = Append(Complete(sent), line)
        PROVE  Conversation!Send \/ Same
    <3> DEFINE was == AnsweredFrom(1, Complete(sent))
               now == AnsweredFrom(1, Append(Complete(sent), line))
    <3>1. was \in Seq(Nat) /\ (now = was \/ \E n \in Nat : now = Append(was, n))
      BY <1>1, AnsweredAppend
    <3>2. AnswersExpected = was /\ AnswersExpected' = now
      BY <2>3 DEF AnswersExpected
    <3> HIDE DEF was, now
    <3>3. CASE now = was
      BY <1>4, <2>1, <3>2, <3>3
    <3>4. ASSUME NEW n \in Nat, now = Append(was, n) PROVE Conversation!Send
      <4>1. Len(now) = Len(was) + 1 /\ SubSeq(now, 1, Len(was)) = was /\ now[Len(now)] \in Nat
        BY <3>1, <3>4, OneMore
      <4> QED
        BY <1>2, <1>4, <1>5, <2>1, <3>2, <4>1 DEF Conversation!Send
    <3> QED
      BY <3>1, <3>3, <3>4
  <2> QED
    BY <1>1, <2>1, <2>2, <2>3, CompleteAppend
<1>6. ASSUME roomy, OthersNotify PROVE Same
  <2>1. Queue(<<0>>) /\ UNCHANGED <<sent, roomy, heard>> /\ <<0>> \in Seq(Nat)
    BY <1>1, <1>6, NoticeFacts DEF OthersNotify, vars
  <2>2. AnswersHeard' = AnswersHeard
    BY <1>6, <2>1, AnswersQueue
  <2> QED
    BY <1>3, <2>1, <2>2
<1>7. ASSUME Poll PROVE Same
  BY <1>3, <1>4, <1>7 DEF Poll, vars
<1>8. ASSUME roomy, ReadClientData PROVE Same
  <2>1. Queue(AnswersDue) /\ UNCHANGED <<sent, roomy, heard>> /\ AnswersDue \in Seq(Nat)
    BY <1>8, AnswersDueFacts DEF ReadClientData, Receive
  <2>2. AnswersHeard' = AnswersHeard
    <3> DEFINE due == AnswersDue
    <3>1. Queue(due) /\ UNCHANGED <<roomy, heard>> /\ due \in Seq(Nat)
      BY <2>1
    <3> HIDE DEF due
    <3> QED
      BY <1>8, <3>1, AnswersQueue
  <2> QED
    BY <1>3, <2>1, <2>2
<1>9. ASSUME proper, roomy, SendMessage
      PROVE  Conversation!Serve \/ Same
  <2>1. UNCHANGED <<sent, served>>
    BY <1>9, SendMessageTakes DEF vars
  <2>2. PICK new \in Seq(Nat) :
          /\ AnswersHeard' = AnswersHeard \o new
          /\ AnswersHeard' = AnsweredFrom(1, served)
          /\ AnswersHeard \in Seq(Nat)
    BY <1>9, AnswersSend
  <2>3. PICK more \in Seq(Seq(Byte)) : Complete(sent) = served \o more
    BY <1>9 DEF ServedInv
  <2> DEFINE later == AnsweredFrom(Len(served) + 1, served \o more)
  <2>4. AnswersExpected = AnsweredFrom(1, served) \o later /\ later \in Seq(Nat \ {0})
    BY <1>1, <2>3, AnsweredConcat DEF AnswersExpected
  <2>5. later \in Seq(Nat)
    <3>1. Nat \ {0} \subseteq Nat
      OBVIOUS
    <3> QED
      BY <2>4, <3>1, SeqMonotonic
  <2>6. CASE new = <<>>
    <3>1. AnswersHeard' = AnswersHeard
      BY <2>2, <2>6, ConcatEmptySeq
    <3> QED
      BY <1>3, <2>1, <3>1
  <2>7. CASE new # <<>>
    <3> HIDE DEF later
    <3> DEFINE x == AnswersHeard
               c == AnswersExpected
    <3>1. c = (x \o new) \o later /\ x \in Seq(Nat)
      BY <2>2, <2>4
    <3>2. AnswersHeard' = x \o new
      BY <2>2
    <3> HIDE DEF x, c
    <3>3. \E n \in 1..(Len(c) - Len(x)) : x \o new = SubSeq(c, 1, Len(x) + n)
      <4>1. \A A : \A u, v, w \in Seq(A) : v # <<>> =>
              \E n \in 1..(Len((u \o v) \o w) - Len(u)) :
                u \o v = SubSeq((u \o v) \o w, 1, Len(u) + n)
        BY LongerBeginning, Zenon
      <4> QED
        BY <2>5, <2>7, <3>1, <4>1, Zenon
    <3>4. c' = c
      BY <1>3, <2>1 DEF c
    <3> QED
      BY <1>2, <1>9, <3>2, <3>3, <3>4 DEF Conversation!Serve, c, x
  <2> QED
    BY <2>6, <2>7
<1>10. ASSUME UNCHANGED dialogueVars PROVE Same
  BY <1>3, <1>4, <1>10 DEF dialogueVars, vars, outVars
<1>11. CASE proper /\ roomy
  <2>1. Conversation!Send \/ Conversation!Serve \/ Same
    <3> HIDE DEF Same
    <3> QED
      BY <1>5, <1>6, <1>7, <1>8, <1>9, <1>10, <1>11 DEF DialogueNext, ServerStep
  <2> QED
    BY <1>2, <1>11, <2>1
<1>12. CASE ~(proper /\ roomy)
  BY <1>2, <1>12
<1> QED
  BY <1>11, <1>12

\* While the socket takes what send() is given, a client that ends its lines
\* properly gets the answers of cmd_ping to them whole, each once, in the order of
\* its lines, whatever other handlers append to its send_buffer in between.
THEOREM LinesAnsweredInOrder == DialogueSpec => ImplementsConversation
<1>1. DialogueInit => DialogueTypeOK /\ ServedInv /\ AnswersInv
  BY DialogueTypeInit, ServedInit, AnswersInit
<1>2. DialogueTypeOK /\ ServedInv /\ AnswersInv /\ [DialogueNext]_dialogueVars
        => (DialogueTypeOK /\ ServedInv /\ AnswersInv)'
  BY DialogueTypeStep, ServedStep, AnswersStep
<1>3. DialogueInit => Conversation!Init
  BY AnswersInit DEF Conversation!Init
<1>4. DialogueTypeOK /\ ServedInv /\ AnswersInv /\ [DialogueNext]_dialogueVars
        => [Conversation!Send \/ Conversation!Serve]_
             <<IF proper /\ roomy THEN AnswersExpected ELSE <<>>,
               IF proper /\ roomy THEN AnswersHeard ELSE <<>>>>
  BY ConversationStep
<1> QED
  BY <1>1, <1>2, <1>3, <1>4, PTL DEF DialogueSpec, ImplementsConversation, Conversation!Spec

LEMMA AllServed ==
  ASSUME DialogueTypeOK, ServedInv, proper, running, wire = <<>>
  PROVE  served = Complete(sent)
<1>1. PICK got \in Seq(Byte) :
        sent = got \o wire /\ Cutting[got] = [pieces |-> served, rest |-> buffer]
  BY DEF ServedInv
<1>2. sent = got
  BY <1>1, ConcatEmptySeq
<1> QED
  BY <1>1, <1>2 DEF Complete

LEMMA AllAnswered ==
  ASSUME DialogueTypeOK, AnswersInv, roomy, sendBuffer = <<>>
  PROVE  AnswersHeard = AnsweredFrom(1, served)
<1> DEFINE L == Len(messages)
<1>1. messages \in Seq(Nat) /\ L \in Nat
  BY AnswersTypes, LenProperties
<1>2. PICK m \in 0..L : heard = Pieces(1, m) /\ sendBuffer = Pieces(m + 1, L)
  BY DEF AnswersInv
<1>3. m = L
  <2>1. m + 1 \in Nat \ {0} /\ L \in Nat /\ m + 1 <= L + 1
    BY <1>1
  <2> HIDE DEF L
  <2>2. Len(Pieces(m + 1, L)) = 2 * (L - (m + 1) + 1)
    BY <2>1, PiecesFacts
  <2>3. 2 * (L - (m + 1) + 1) = 0
    BY <1>2, <2>2, EmptySeq
  <2> QED
    BY <2>1, <2>3
<1>4. AnswersHeard = Only(SubSeq(messages, 1, L), Nat \ {0})
  BY <1>1, <1>2, <1>3, AnswersOfPieces, HeardAnswersIn
<1>5. SubSeq(messages, 1, L) = messages
  BY <1>1, SubSeqFull
<1> QED
  BY <1>4, <1>5 DEF AnswersInv

\* What is left of CompleteLinesAreServed and LinesAreAnswered once the wire and the
\* send_buffer are empty: parse_recieved keeps no complete line back, and no answer
\* is left.
THEOREM QuietIsDone == DialogueSpec => []NothingStaysBehind
<1>1. DialogueInit => DialogueTypeOK /\ ServedInv /\ AnswersInv
  BY DialogueTypeInit, ServedInit, AnswersInit
<1>2. DialogueTypeOK /\ ServedInv /\ AnswersInv /\ [DialogueNext]_dialogueVars
        => (DialogueTypeOK /\ ServedInv /\ AnswersInv)'
  BY DialogueTypeStep, ServedStep, AnswersStep
<1>3. DialogueTypeOK /\ ServedInv /\ AnswersInv => NothingStaysBehind
  BY AllServed, AllAnswered DEF NothingStaysBehind, AnswersExpected
<1> QED
  BY <1>1, <1>2, <1>3, PTL DEF DialogueSpec

=============================================================================
