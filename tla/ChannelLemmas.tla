---------------------------- MODULE ChannelLemmas ---------------------------
(***************************************************************************)
(* What the list operators of Channel return, for lists of any length over *)
(* any set of clients.                                                     *)
(***************************************************************************)
EXTENDS Channel, SequenceTheorems, WellFoundedInduction, TLAPS

Less == {pair \in Nat \X Nat : pair[1] < pair[2]}

\* A non-empty set of naturals has a least element, and Min is it.
LEMMA MinIsLeast ==
  ASSUME NEW T \in SUBSET Nat, T # {}
  PROVE  Min(T) \in T /\ \A y \in T : Min(T) <= y
<1>1. OpToRel(<, Nat) = Less
  BY Zenon DEF OpToRel, Less
<1>2. IsWellFoundedOn(Less, Nat)
  BY <1>1, NatLessThanWellFounded, Zenon
<1>3. PICK x \in T : \A y \in T : ~ (<<y, x>> \in Less)
  BY <1>2, WFMin
<1>4. ASSUME NEW y \in T PROVE x <= y
  <2>1. <<y, x>> \in Less <=> y < x
    BY DEF Less
  <2> QED
    BY <1>3, <2>1
<1> QED
  BY <1>4 DEF Min

\* Updating a function in place keeps its type.
LEMMA ExceptType ==
  ASSUME NEW D, NEW R, NEW f \in [D -> R], NEW d, NEW e \in R
  PROVE  [f EXCEPT ![d] = e] \in [D -> R]
OBVIOUS

\* Taking out the k-th entry closes the gap.
LEMMA RemoveAtEntries ==
  ASSUME NEW S, NEW list \in Seq(S), NEW k \in 1..Len(list)
  PROVE  /\ RemoveAt(list, k) \in Seq(S)
         /\ Len(RemoveAt(list, k)) = Len(list) - 1
         /\ \A i \in 1..Len(RemoveAt(list, k)) :
              RemoveAt(list, k)[i] = list[IF i < k THEN i ELSE i + 1]
<1> DEFINE front == SubSeq(list, 1, k-1)
           back  == SubSeq(list, k+1, Len(list))
           both  == front \o back
<1>1. /\ front \in Seq(S) /\ Len(front) = k-1
      /\ \A i \in 1..(k-1) : front[i] = list[i]
  BY SubSeqProperties, ElementOfSeq
<1>2. /\ back \in Seq(S) /\ Len(back) = Len(list) - k
      /\ \A i \in 1..(Len(list)-k) : back[i] = list[k+i]
  BY SubSeqProperties, ElementOfSeq
<1>3. RemoveAt(list, k) = both
  BY Zenon DEF RemoveAt
<1>4. Len(list) \in Nat
  OBVIOUS
<1> HIDE DEF front, back
<1>5. /\ both \in Seq(S)
      /\ Len(both) = Len(front) + Len(back)
      /\ \A i \in 1..(Len(front) + Len(back)) :
           both[i] = IF i <= Len(front) THEN front[i] ELSE back[i - Len(front)]
  BY <1>1, <1>2, ConcatProperties, Zenon
<1> HIDE DEF both
<1>6. Len(both) = Len(list) - 1
  BY <1>1, <1>2, <1>4, <1>5
<1>7. ASSUME NEW i \in 1..Len(both)
      PROVE  both[i] = list[IF i < k THEN i ELSE i + 1]
  <2>1. CASE i < k
    BY <1>1, <1>2, <1>4, <1>5, <1>6, <2>1
  <2>2. CASE i >= k
    <3>1. both[i] = back[i - (k - 1)]
      BY <1>1, <1>2, <1>4, <1>5, <1>6, <2>2
    <3>2. i - (k - 1) \in 1..(Len(list) - k) /\ k + (i - (k - 1)) = i + 1
      BY <1>4, <1>6, <2>2
    <3> QED
      BY <1>2, <1>4, <1>6, <2>2, <3>1, <3>2
  <2> QED
    BY <1>4, <1>6, <2>1, <2>2
<1> QED
  BY <1>3, <1>5, <1>6, <1>7

\* The k-th entry is the first with the nickname, and erasing takes it out and
\* closes the gap.
ErasedAt(list, names, n, k) ==
  LET rest == EraseNamed(list, names, n) IN
    /\ names[list[k]] = n
    /\ \A j \in 1..(k-1) : names[list[j]] # n
    /\ Len(rest) = Len(list) - 1
    /\ \A i \in 1..Len(rest) : rest[i] = list[IF i < k THEN i ELSE i + 1]

\* Erasing by nickname either finds nobody and changes nothing, or takes out
\* exactly the first entry with the nickname and closes the gap.
LEMMA EraseNamedEntries ==
  ASSUME NEW S, NEW list \in Seq(S), NEW names, NEW n
  PROVE  /\ EraseNamed(list, names, n) \in Seq(S)
         /\ \/ ~Named(list, names, n) /\ EraseNamed(list, names, n) = list
            \/ \E k \in 1..Len(list) : ErasedAt(list, names, n, k)
<1> DEFINE I == {i \in 1..Len(list) : names[list[i]] = n}
           k == Min(I)
<1>0. DOMAIN list = 1..Len(list) /\ Len(list) \in Nat
  OBVIOUS
<1>1. CASE I = {}
  BY <1>0, <1>1 DEF EraseNamed, RemoveFirstMatch, Named
<1>2. CASE I # {}
  <2>1. k \in I /\ \A y \in I : k <= y
    <3>1. I \in SUBSET Nat
      OBVIOUS
    <3> HIDE DEF I
    <3> QED
      BY <1>2, <3>1, MinIsLeast, Zenon
  <2> HIDE DEF k
  <2>2. EraseNamed(list, names, n) = RemoveAt(list, k)
    BY <1>2, Zenon DEF EraseNamed, RemoveFirstMatch, SelectInSeq, k
  <2>3. k \in 1..Len(list) /\ names[list[k]] = n
    BY <2>1
  <2>4. \A j \in 1..(k-1) : names[list[j]] # n
    BY <2>1
  <2> DEFINE rest == EraseNamed(list, names, n)
  <2>5. /\ rest \in Seq(S) /\ Len(rest) = Len(list) - 1
        /\ \A i \in 1..Len(rest) : rest[i] = list[IF i < k THEN i ELSE i + 1]
    BY <2>2, <2>3, RemoveAtEntries, Zenon
  <2>6. ErasedAt(list, names, n, k)
    BY <2>3, <2>4, <2>5 DEF ErasedAt
  <2> QED
    BY <2>3, <2>5, <2>6
<1> QED
  BY <1>1, <1>2

\* Erasing yields a list of the same clients, and nobody twice if nobody was.
\* Whoever is gone bore the nickname.
LEMMA EraseNamedList ==
  ASSUME NEW S, NEW list \in Seq(S), NEW names, NEW n
  PROVE  /\ EraseNamed(list, names, n) \in Seq(S)
         /\ Range(EraseNamed(list, names, n)) \subseteq Range(list)
         /\ \A d \in Range(list) :
              d \in Range(EraseNamed(list, names, n)) \/ names[d] = n
         /\ ListedOnce(list) => ListedOnce(EraseNamed(list, names, n))
<1> DEFINE rest == EraseNamed(list, names, n)
<1>1. CASE rest = list
  BY <1>1
<1>2. CASE rest # list
  <2>0. PICK k \in 1..Len(list) : ErasedAt(list, names, n, k)
    BY <1>2, EraseNamedEntries
  <2>1. /\ names[list[k]] = n
        /\ rest \in Seq(S)
        /\ Len(rest) = Len(list) - 1
        /\ \A i \in 1..Len(rest) : rest[i] = list[IF i < k THEN i ELSE i + 1]
    BY <2>0, EraseNamedEntries DEF ErasedAt
  <2> HIDE DEF rest
  <2>2. /\ DOMAIN list = 1..Len(list) /\ Len(list) \in Nat
        /\ DOMAIN rest = 1..Len(rest)
    BY <2>1
  <2>3. Range(rest) \subseteq Range(list)
    BY <2>1, <2>2 DEF Range
  <2>4. ASSUME NEW i \in 1..Len(list), i # k
        PROVE  list[i] \in Range(rest)
    <3> DEFINE j == IF i < k THEN i ELSE i - 1
    <3>1. j \in 1..Len(rest) /\ (IF j < k THEN j ELSE j + 1) = i
      BY <2>1, <2>2, <2>4
    <3>2. rest[j] = list[i]
      BY <2>1, <3>1
    <3> QED
      BY <2>2, <3>1, <3>2 DEF Range
  <2>5. ASSUME NEW d \in Range(list) PROVE d \in Range(rest) \/ names[d] = n
    BY <2>1, <2>2, <2>4 DEF Range
  <2>6. ASSUME ListedOnce(list),
               NEW i \in 1..Len(rest), NEW j \in 1..Len(rest), rest[i] = rest[j]
        PROVE  i = j
    BY <2>1, <2>2, <2>6 DEF ListedOnce, IsInjective
  <2> QED
    BY <2>1, <2>2, <2>3, <2>5, <2>6 DEF rest, ListedOnce, IsInjective
<1> QED
  BY <1>1, <1>2

\* Where nobody is listed twice, erasing takes one client off the list, who bears
\* the nickname, or nobody.
LEMMA EraseNamedOne ==
  ASSUME NEW S, NEW list \in Seq(S), NEW names, NEW n, ListedOnce(list)
  PROVE  \/ ~Named(list, names, n) /\ EraseNamed(list, names, n) = list
         \/ \E e \in Range(list) :
              names[e] = n /\ Range(EraseNamed(list, names, n)) = Range(list) \ {e}
<1> DEFINE rest == EraseNamed(list, names, n)
<1>0. DOMAIN list = 1..Len(list) /\ Len(list) \in Nat
  OBVIOUS
<1>1. ASSUME NEW k \in 1..Len(list), ErasedAt(list, names, n, k)
      PROVE  names[list[k]] = n /\ Range(rest) = Range(list) \ {list[k]}
  <2>1. /\ names[list[k]] = n
        /\ rest \in Seq(S)
        /\ Len(rest) = Len(list) - 1
        /\ \A i \in 1..Len(rest) : rest[i] = list[IF i < k THEN i ELSE i + 1]
    BY <1>1, EraseNamedEntries DEF ErasedAt
  <2>2. list[k] \notin Range(rest)
    <3> SUFFICES ASSUME NEW i \in 1..Len(rest), rest[i] = list[k] PROVE FALSE
      BY <2>1 DEF Range
    <3> DEFINE j == IF i < k THEN i ELSE i + 1
    <3>1. j \in 1..Len(list) /\ j # k /\ list[j] = list[k]
      BY <1>0, <2>1
    <3> QED
      BY <1>0, <3>1 DEF ListedOnce, IsInjective
  <2> HIDE DEF rest
  <2>3. /\ DOMAIN rest = 1..Len(rest)
        /\ Len(rest) \in Nat
    BY <2>1
  <2>4. Range(rest) \subseteq Range(list)
    BY <1>0, <2>1, <2>3 DEF Range
  <2>5. ASSUME NEW i \in 1..Len(list), i # k PROVE list[i] \in Range(rest)
    <3> DEFINE j == IF i < k THEN i ELSE i - 1
    <3>1. j \in 1..Len(rest) /\ (IF j < k THEN j ELSE j + 1) = i
      BY <1>0, <2>1, <2>5
    <3> QED
      BY <2>1, <2>3, <3>1 DEF Range
  <2> QED
    BY <1>0, <2>1, <2>2, <2>4, <2>5 DEF Range
<1>2. ASSUME NEW k \in 1..Len(list) PROVE list[k] \in Range(list)
  BY <1>0 DEF Range
<1> QED
  BY <1>1, <1>2, EraseNamedEntries

\* The nickname n is, on the list, the name of c and of nobody else.
Names(list, names, n, c) == \A d \in Range(list) : names[d] = n <=> d = c

\* When the nickname is c's alone among the listed clients, that one is c.
LEMMA EraseNamedExact ==
  ASSUME NEW S, NEW list \in Seq(S), NEW names, NEW n, NEW c,
         ListedOnce(list), Names(list, names, n, c)
  PROVE  Range(EraseNamed(list, names, n)) = Range(list) \ {c}
<1>1. CASE ~Named(list, names, n) /\ EraseNamed(list, names, n) = list
  <2>1. c \notin Range(list)
    BY <1>1 DEF Named, Names, Range
  <2> QED
    BY <1>1, <2>1
<1>2. ASSUME NEW e \in Range(list), names[e] = n,
             Range(EraseNamed(list, names, n)) = Range(list) \ {e}
      PROVE  Range(EraseNamed(list, names, n)) = Range(list) \ {c}
  BY <1>2 DEF Names
<1> QED
  BY <1>1, <1>2, EraseNamedOne

\* Appending a client adds it to the listed ones; nobody is listed twice if
\* nobody was and the client is new.
LEMMA AppendList ==
  ASSUME NEW S, NEW list \in Seq(S), NEW c \in S
  PROVE  /\ Append(list, c) \in Seq(S)
         /\ Len(Append(list, c)) = Len(list) + 1
         /\ Range(Append(list, c)) = Range(list) \cup {c}
         /\ ListedOnce(list) /\ c \notin Range(list) => ListedOnce(Append(list, c))
<1> DEFINE more == Append(list, c)
<1>1. /\ more \in Seq(S)
      /\ Len(more) = Len(list) + 1
      /\ \A i \in 1..Len(list) : more[i] = list[i]
      /\ more[Len(list) + 1] = c
  BY AppendProperties
<1> HIDE DEF more
<1>2. /\ DOMAIN list = 1..Len(list) /\ Len(list) \in Nat
      /\ DOMAIN more = 1..(Len(list) + 1)
  BY <1>1
<1>3. Range(more) = Range(list) \cup {c}
  BY <1>1, <1>2 DEF Range
<1>4. ASSUME ListedOnce(list), c \notin Range(list) PROVE ListedOnce(more)
  BY <1>1, <1>2, <1>4 DEF ListedOnce, IsInjective, Range
<1> QED
  BY <1>1, <1>3, <1>4 DEF more

\* A client whose nickname is not on the list is not on the list.
LEMMA NotNamed ==
  ASSUME NEW S, NEW list \in Seq(S), NEW names, NEW c, ~Named(list, names, names[c])
  PROVE  c \notin Range(list)
BY DEF Named, Range

\* PushNamed keeps a list of clients one, and nobody is listed twice.
LEMMA PushNamedList ==
  ASSUME NEW S, NEW list \in Seq(S), NEW names, NEW c \in S
  PROVE  /\ PushNamed(list, names, c) \in Seq(S)
         /\ PushNamed(list, names, c) # <<>>
         /\ Range(list) \subseteq Range(PushNamed(list, names, c))
         /\ Range(PushNamed(list, names, c)) \subseteq Range(list) \cup {c}
         /\ ListedOnce(list) => ListedOnce(PushNamed(list, names, c))
<1>1. CASE Named(list, names, names[c])
  BY <1>1 DEF PushNamed, Named
<1>2. CASE ~Named(list, names, names[c])
  <2>1. c \notin Range(list)
    BY <1>2, NotNamed
  <2>2. PushNamed(list, names, c) = Append(list, c)
    BY <1>2 DEF PushNamed
  <2>3. Append(list, c) # <<>>
    BY AppendProperties
  <2> QED
    BY <2>1, <2>2, <2>3, AppendList
<1> QED
  BY <1>1, <1>2
=============================================================================
