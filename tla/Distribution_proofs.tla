------------------------- MODULE Distribution_proofs -------------------------
(***************************************************************************)
(* Proofs about the way of an archive: what push writes under a tag        *)
(* resolves, a pull is complete, bytes are verified and a search that was  *)
(* not cut short finds everything (RegistryInv); a generated manifest is   *)
(* one the compiler accepts, and a command line is refused for cause       *)
(* (GeneratorInv); the catalog has its content in the cache (CatalogInv);  *)
(* what is compiled with its content has all its tree needs (CompileInv);  *)
(* the log of an admission ends with its first denial (LogIs).             *)
(***************************************************************************)
EXTENDS Distribution, FiniteSetTheorems, SequenceTheorems, WellFoundedInduction, TLAPS

----------------------------------------------------------------------------
(* Ascending sequences.                                                     *)

Asc(s) == \A i, j \in DOMAIN s : i < j => s[i] < s[j]
In(s, e) == \E i \in DOMAIN s : s[i] = e

Below(S, x) == {y \in S : y < x}

\* Of the elements of a finite set of numbers, each has a rank of its own, and
\* every rank below their number is one's.
LEMMA Ranks ==
  ASSUME NEW S \in SUBSET Nat, IsFiniteSet(S)
  PROVE  /\ Cardinality(S) \in Nat
         /\ \A x \in S : Cardinality(Below(S, x)) \in 0..(Cardinality(S) - 1)
         /\ \A x, y \in S : x < y => Cardinality(Below(S, x)) < Cardinality(Below(S, y))
         /\ \A i \in 1..Cardinality(S) : \E x \in S : Cardinality(Below(S, x)) = i - 1
<1> DEFINE n == Cardinality(S)
           rank == [x \in S |-> Cardinality(Below(S, x)) + 1]
<1>1. n \in Nat
  BY FS_CardinalityType
<1>2. \A x \in S : IsFiniteSet(Below(S, x)) /\ Cardinality(Below(S, x)) \in Nat
  BY FS_Subset, FS_CardinalityType DEF Below
<1>3. ASSUME NEW x \in S PROVE Cardinality(Below(S, x)) < n
  <2>1. Below(S, x) \in SUBSET S /\ Below(S, x) # S
    BY <1>3 DEF Below
  <2> QED
    BY <1>1, <1>2, <2>1, FS_Subset
<1>4. ASSUME NEW x \in S, NEW y \in S, x < y
      PROVE  Cardinality(Below(S, x)) < Cardinality(Below(S, y))
  <2>1. \A z \in S : z < x => z < y
    BY <1>4
  <2>2. x \in Below(S, y) /\ x \notin Below(S, x)
    BY <1>4 DEF Below
  <2>3. Below(S, x) \in SUBSET Below(S, y) /\ Below(S, x) # Below(S, y)
    BY <2>1, <2>2 DEF Below
  <2> QED
    BY <1>2, <2>3, FS_Subset
<1>5. rank \in [S -> 1..n]
  BY <1>1, <1>2, <1>3
<1>6. \A x, y \in S : rank[x] = rank[y] => x = y
  BY <1>2, <1>4
<1>7. rank \in Injection(S, 1..n)
  BY <1>5, <1>6 DEF Injection, IsInjective
<1>8. IsFiniteSet(1..n) /\ Cardinality(1..n) = n
  BY <1>1, FS_Interval
<1>9. rank \in Surjection(S, 1..n)
  BY <1>7, <1>8, FS_Injection
<1>10. \A i \in 1..n : \E x \in S : rank[x] = i
  BY <1>9 DEF Surjection
<1>11. \A i \in 1..n : \E x \in S : Cardinality(Below(S, x)) = i - 1
  BY <1>1, <1>2, <1>10
<1> QED
  BY <1>1, <1>2, <1>3, <1>4, <1>11

\* Ascending lists a finite set of numbers, each once and in order.
LEMMA Sorts ==
  ASSUME NEW S \in SUBSET Nat, IsFiniteSet(S)
  PROVE  /\ Ascending(S) \in Seq(S)
         /\ DOMAIN Ascending(S) = 1..Cardinality(S)
         /\ Len(Ascending(S)) = Cardinality(S) /\ Cardinality(S) \in Nat
         /\ Asc(Ascending(S))
         /\ \A x \in S : In(Ascending(S), x)
<1> DEFINE n == Cardinality(S)
           q == Ascending(S)
<1>1. /\ n \in Nat
      /\ \A x \in S : Cardinality(Below(S, x)) \in 0..(n - 1)
      /\ \A x, y \in S : x < y => Cardinality(Below(S, x)) < Cardinality(Below(S, y))
      /\ \A i \in 1..n : \E x \in S : Cardinality(Below(S, x)) = i - 1
  BY Ranks
<1>2. \A i \in 1..n : q[i] \in S /\ Cardinality(Below(S, q[i])) = i - 1
  <2> SUFFICES ASSUME NEW i \in 1..n PROVE q[i] \in S /\ Cardinality(Below(S, q[i])) = i - 1
    OBVIOUS
  <2>1. q[i] = CHOOSE x \in S : Cardinality(Below(S, x)) = i - 1
    BY DEF Ascending, Below
  <2>2. \E x \in S : Cardinality(Below(S, x)) = i - 1
    BY <1>1
  <2> QED
    BY <2>1, <2>2
<1>3. DOMAIN q = 1..n /\ q = [i \in 1..n |-> q[i]]
  <2>1. q = [i \in 1..n |-> CHOOSE x \in S : Cardinality(Below(S, x)) = i - 1]
    BY DEF Ascending, Below
  <2> HIDE DEF q
  <2> QED
    BY <2>1
<1>4. q \in Seq(S) /\ Len(q) = n
  BY <1>1, <1>2, <1>3
<1>5. Asc(q)
  <2> SUFFICES ASSUME NEW i \in 1..n, NEW j \in 1..n, i < j PROVE q[i] < q[j]
    BY <1>3 DEF Asc
  <2>1. q[i] \in S /\ q[j] \in S /\ Cardinality(Below(S, q[i])) < Cardinality(Below(S, q[j]))
    BY <1>1, <1>2
  <2>2. q[i] \in Nat /\ q[j] \in Nat /\ (q[j] < q[i] => Cardinality(Below(S, q[j])) < Cardinality(Below(S, q[i])))
    BY <1>1, <2>1
  <2>3. q[i] # q[j]
    BY <1>1, <1>2
  <2>4. Cardinality(Below(S, q[i])) \in Nat /\ Cardinality(Below(S, q[j])) \in Nat
    BY <1>1, <1>2
  <2> HIDE DEF q
  <2> QED
    BY <2>1, <2>2, <2>3, <2>4
<1>6. ASSUME NEW x \in S PROVE In(q, x)
  <2>1. Cardinality(Below(S, x)) \in 0..(n - 1)
    BY <1>1, <1>6
  <2>2. PICK i \in 1..n : Cardinality(Below(S, x)) = i - 1
    <3> DEFINE c == Cardinality(Below(S, x))
    <3>1. c \in 0..(n - 1)
      BY <2>1
    <3> HIDE DEF c, n
    <3>2. c + 1 \in 1..n /\ c = (c + 1) - 1
      BY <1>1, <3>1
    <3> QED
      BY <3>2 DEF c
  <2>3. q[i] \in S /\ Cardinality(Below(S, q[i])) = Cardinality(Below(S, x))
    BY <1>2, <2>2
  <2>4. q[i] = x
    <3> HIDE DEF q
    <3>1. Cardinality(Below(S, q[i])) \in Nat /\ Cardinality(Below(S, x)) \in Nat
      BY <1>1, <2>1, <2>3
    <3>2. (q[i] < x => Cardinality(Below(S, q[i])) < Cardinality(Below(S, x)))
          /\ (x < q[i] => Cardinality(Below(S, x)) < Cardinality(Below(S, q[i])))
      BY <1>1, <1>6, <2>3
    <3>3. q[i] \in Nat /\ x \in Nat
      BY <1>6, <2>3
    <3> QED
      BY <2>3, <3>1, <3>2, <3>3
  <2> QED
    BY <1>3, <2>4 DEF In
<1> QED
  BY <1>1, <1>3, <1>4, <1>5, <1>6

LEMMA NothingIn ==
  ASSUME NEW s, s = <<>>
  PROVE  Asc(s) /\ \A o : ~In(s, o)
<1>1. \A q : DOMAIN q = {} => Asc(q) /\ \A o : ~In(q, o)
  BY DEF Asc, In
<1>2. DOMAIN s = {}
  OBVIOUS
<1> QED
  BY ONLY <1>1, <1>2

LEMMA AppendLater ==
  ASSUME NEW S, NEW s \in Seq(S), NEW q \in Seq(S), NEW e \in S
  PROVE  s \o Append(q, e) = Append(s \o q, e) /\ Append(q, e) \in Seq(S)
<1> DEFINE l == s \o Append(q, e)
           r == Append(s \o q, e)
<1>1. l \in Seq(S) /\ Len(l) = Len(s) + Len(q) + 1
  OBVIOUS
<1>2. r \in Seq(S) /\ Len(r) = Len(s) + Len(q) + 1
  OBVIOUS
<1>3. Len(s) \in Nat /\ Len(q) \in Nat
  OBVIOUS
<1>4. ASSUME NEW i \in 1..(Len(s) + Len(q) + 1) PROVE l[i] = r[i]
  <2>1. CASE i <= Len(s)
    BY <1>3, <2>1
  <2>2. CASE i > Len(s) /\ i <= Len(s) + Len(q)
    BY <1>3, <2>2
  <2>3. CASE i = Len(s) + Len(q) + 1
    BY <1>3, <2>3
  <2> QED
    BY <1>3, <2>1, <2>2, <2>3
<1> HIDE DEF l, r
<1>5. DOMAIN l = 1..(Len(s) + Len(q) + 1) /\ DOMAIN r = 1..(Len(s) + Len(q) + 1)
  BY <1>1, <1>2, <1>3
<1>6. l = [i \in DOMAIN l |-> l[i]] /\ r = [i \in DOMAIN r |-> r[i]]
  BY <1>1, <1>2
<1> QED
  BY <1>4, <1>5, <1>6 DEF l, r

LEMMA WiderSeq ==
  ASSUME NEW S, NEW T, S \subseteq T, NEW q \in Seq(S)
  PROVE  q \in Seq(T) /\ \A o : In(q, o) => o \in S
<1>1. \A i \in DOMAIN q : q[i] \in S
  OBVIOUS
<1>2. q \in Seq(T)
  OBVIOUS
<1> QED
  BY <1>1, <1>2 DEF In

LEMMA InParts ==
  ASSUME NEW S, NEW s \in Seq(S), NEW q \in Seq(S), NEW e
  PROVE  In(s \o q, e) <=> In(s, e) \/ In(q, e)
<1>1. ASSUME In(s \o q, e) PROVE In(s, e) \/ In(q, e)
  <2>1. PICK i \in DOMAIN (s \o q) : (s \o q)[i] = e
    BY <1>1 DEF In
  <2>2. CASE i <= Len(s)
    <3>1. i \in DOMAIN s /\ s[i] = e
      BY <2>1, <2>2
    <3> QED
      BY <3>1 DEF In
  <2>3. CASE ~(i <= Len(s))
    <3>1. i - Len(s) \in DOMAIN q /\ q[i - Len(s)] = e
      BY <2>1, <2>3
    <3> QED
      BY <3>1 DEF In
  <2> QED
    BY <2>2, <2>3
<1>2. ASSUME NEW i \in DOMAIN s PROVE i \in DOMAIN (s \o q) /\ (s \o q)[i] = s[i]
  BY <1>2
<1>3. ASSUME NEW i \in DOMAIN q PROVE i + Len(s) \in DOMAIN (s \o q) /\ (s \o q)[i + Len(s)] = q[i]
  BY <1>3
<1> QED
  BY <1>1, <1>2, <1>3 DEF In

LEMMA AppendsIn ==
  ASSUME NEW S \in SUBSET Nat, NEW s \in Seq(S), NEW e \in S
  PROVE  /\ Append(s, e) \in Seq(S)
         /\ \A o : In(Append(s, e), o) <=> In(s, o) \/ o = e
         /\ Asc(s) /\ (\A o \in S : In(s, o) => o < e) => Asc(Append(s, e))
<1>1. /\ Append(s, e) \in Seq(S) /\ Len(Append(s, e)) = Len(s) + 1 /\ Append(s, e)[Len(s) + 1] = e
      /\ DOMAIN s = 1..Len(s) /\ DOMAIN Append(s, e) = 1..(Len(s) + 1) /\ Len(s) \in Nat
      /\ \A i \in 1..Len(s) : Append(s, e)[i] = s[i] /\ s[i] \in S
  OBVIOUS
<1> DEFINE p == Append(s, e)
<1> HIDE DEF p
<1>2. ASSUME NEW o PROVE In(p, o) <=> In(s, o) \/ o = e
  BY <1>1 DEF In, p
<1>3. ASSUME Asc(s), \A o \in S : In(s, o) => o < e PROVE Asc(p)
  <2> SUFFICES ASSUME NEW i \in 1..(Len(s) + 1), NEW j \in 1..(Len(s) + 1), i < j PROVE p[i] < p[j]
    BY <1>1 DEF Asc, p
  <2>1. i \in 1..Len(s) /\ p[i] = s[i] /\ In(s, s[i])
    BY <1>1 DEF In, p
  <2>2. CASE j \in 1..Len(s)
    BY <1>1, <1>3, <2>1, <2>2 DEF Asc, p
  <2>3. CASE j = Len(s) + 1
    BY <1>1, <1>3, <2>1, <2>3 DEF p
  <2> QED
    BY <1>1, <2>2, <2>3
<1> QED
  BY <1>1, <1>2, <1>3 DEF p

LEMMA TailIn ==
  ASSUME NEW S \in SUBSET Nat, NEW s \in Seq(S), s # <<>>
  PROVE  /\ Head(s) \in S /\ In(s, Head(s)) /\ Tail(s) \in Seq(S)
         /\ \A o : In(s, o) <=> o = Head(s) \/ In(Tail(s), o)
         /\ Asc(s) => Asc(Tail(s)) /\ \A o \in S : In(Tail(s), o) => Head(s) < o
<1>1. /\ Len(s) \in Nat \ {0} /\ DOMAIN s = 1..Len(s) /\ Tail(s) \in Seq(S)
      /\ DOMAIN Tail(s) = 1..(Len(s) - 1) /\ Head(s) = s[1] /\ Head(s) \in S
      /\ \A i \in 1..(Len(s) - 1) : Tail(s)[i] = s[i + 1]
      /\ \A i \in 1..Len(s) : s[i] \in S
  OBVIOUS
<1> DEFINE p == Tail(s)
<1> HIDE DEF p
<1>2. ASSUME NEW o PROVE In(s, o) <=> o = s[1] \/ In(p, o)
  <2>1. ASSUME In(s, o), o # s[1] PROVE In(p, o)
    <3>1. PICK i \in 1..Len(s) : s[i] = o
      BY <1>1, <2>1 DEF In
    <3>2. i - 1 \in 1..(Len(s) - 1) /\ p[i - 1] = o
      BY <1>1, <2>1, <3>1 DEF p
    <3> QED
      BY <1>1, <3>2 DEF In, p
  <2>2. ASSUME In(p, o) PROVE In(s, o)
    <3>1. PICK i \in 1..(Len(s) - 1) : p[i] = o
      BY <1>1, <2>2 DEF In, p
    <3>2. i + 1 \in 1..Len(s) /\ s[i + 1] = o
      BY <1>1, <3>1 DEF p
    <3> QED
      BY <1>1, <3>2 DEF In
  <2>3. In(s, s[1])
    BY <1>1 DEF In
  <2> QED
    BY <2>1, <2>2, <2>3
<1>3. ASSUME Asc(s) PROVE Asc(p)
  BY <1>1, <1>3 DEF Asc, p
<1>4. ASSUME Asc(s), NEW o \in S, In(p, o) PROVE s[1] < o
  <2>1. PICK i \in 1..(Len(s) - 1) : p[i] = o
    BY <1>1, <1>4 DEF In, p
  <2> QED
    BY <1>1, <1>4, <2>1 DEF Asc, p
<1> QED
  BY <1>1, <1>2, <1>3, <1>4 DEF p

\* The last of an ascending sequence is its greatest.
LEMMA LastIsGreatest ==
  ASSUME NEW S \in SUBSET Nat, NEW s \in Seq(S), NEW q \in Seq(S), q # <<>>, Asc(s \o q)
  PROVE  Last(q) \in S /\ In(q, Last(q)) /\ \A o \in S : In(s \o q, o) => o <= Last(q)
<1> DEFINE p == s \o q
<1>1. /\ Len(q) \in Nat \ {0} /\ Len(s) \in Nat /\ DOMAIN p = 1..(Len(s) + Len(q)) /\ p \in Seq(S)
      /\ p[Len(s) + Len(q)] = q[Len(q)] /\ q[Len(q)] \in S /\ Last(q) = q[Len(q)] /\ Len(q) \in DOMAIN q
  BY DEF Last
<1> HIDE DEF p
<1>2. ASSUME NEW o \in S, In(p, o) PROVE o <= q[Len(q)]
  <2>1. PICK i \in 1..(Len(s) + Len(q)) : p[i] = o
    BY <1>1, <1>2 DEF In
  <2>2. CASE i < Len(s) + Len(q)
    <3>1. p[i] < p[Len(s) + Len(q)]
      BY <1>1, <2>1, <2>2 DEF Asc, p
    <3>2. o < q[Len(q)]
      BY <1>1, <2>1, <3>1
    <3>3. o \in Nat /\ q[Len(q)] \in Nat
      BY <1>1, <1>2
    <3> QED
      BY <3>2, <3>3
  <2>3. CASE i = Len(s) + Len(q)
    BY <1>1, <2>1, <2>3
  <2> QED
    BY <1>1, <2>2, <2>3
<1> QED
  BY <1>1, <1>2 DEF In, p

----------------------------------------------------------------------------
(* A page of tags.                                                          *)

Tagged == Objects \cup OtherTags

LEMMA Cuts ==
  ASSUME NEW T, NEW r \in Seq(T), NEW n \in Nat, n <= Len(r)
  PROVE  /\ SubSeq(r, 1, n) \in Seq(T) /\ Len(SubSeq(r, 1, n)) = n
         /\ \A i \in 1..n : SubSeq(r, 1, n)[i] = r[i]
         /\ n # 0 => Last(SubSeq(r, 1, n)) = r[n]
<1>1. SubSeq(r, 1, n) \in Seq(T)
  OBVIOUS
<1>2. Len(SubSeq(r, 1, n)) = n
  OBVIOUS
<1>3. \A i \in 1..n : SubSeq(r, 1, n)[i] = r[i]
  OBVIOUS
<1>4. n # 0 => Last(SubSeq(r, 1, n)) = r[n]
  <2> HAVE n # 0
  <2>1. n \in 1..n
    OBVIOUS
  <2> DEFINE p == SubSeq(r, 1, n)
  <2>2. p[n] = r[n]
    BY <1>3, <2>1
  <2>3. Last(p) = p[Len(p)]
    BY DEF Last
  <2> HIDE DEF p
  <2>4. Len(p) = n
    BY <1>2 DEF p
  <2> QED
    BY <2>2, <2>3, <2>4 DEF p
<1> QED
  BY <1>1, <1>2, <1>3, <1>4

\* The first k of an ascending sequence, and the cursor a full page hands out.
LEMMA FirstOf ==
  ASSUME NEW T \in SUBSET Nat, 0 \notin T, NEW r \in Seq(T), Asc(r), NEW k \in Nat \ {0},
         NEW n \in Nat, n <= Len(r), n <= k, n < k => n = Len(r),
         NEW page \in Seq(T), Len(page) = n, \A i \in 1..n : page[i] = r[i],
         NEW next, next = IF n = k THEN r[n] ELSE 0
  PROVE  /\ Asc(page) /\ next \in Nat
         /\ \A o \in T : In(page, o) => In(r, o) /\ (next # 0 => o <= next)
         /\ next # 0 => next \in T /\ In(r, next)
         /\ \A o \in T : In(r, o) => In(page, o) \/ (next # 0 /\ next < o)
         /\ (\E o \in T : In(r, o)) => page # <<>>
<1>1. /\ Len(r) \in Nat /\ DOMAIN r = 1..Len(r)
      /\ \A i \in 1..Len(r) : r[i] \in T /\ r[i] \in Nat /\ r[i] # 0
      /\ \A i, j \in 1..Len(r) : i < j => r[i] < r[j]
  <2>1. Len(r) \in Nat /\ DOMAIN r = 1..Len(r)
    OBVIOUS
  <2>2. \A i \in 1..Len(r) : r[i] \in T
    OBVIOUS
  <2>3. \A x \in T : x \in Nat /\ x # 0
    OBVIOUS
  <2>4. \A i, j \in 1..Len(r) : i < j => r[i] < r[j]
    BY <2>1 DEF Asc
  <2> QED
    BY <2>1, <2>2, <2>3, <2>4
<1>2. /\ n \in Nat /\ n <= Len(r) /\ n <= k /\ (n # k => n = Len(r))
      /\ (n = k => n \in 1..Len(r)) /\ \A i \in 1..n : i \in 1..Len(r)
  <2> DEFINE L == Len(r)
  <2>1. L \in Nat /\ n <= L /\ (n < k => n = L)
    BY <1>1, Zenon
  <2> HIDE DEF L
  <2> QED
    BY <2>1 DEF L
<1>3. /\ DOMAIN page = 1..n /\ \A i \in 1..n : page[i] = r[i]
  OBVIOUS
<1>4. next = IF n = k THEN r[n] ELSE 0
  OBVIOUS
<1>5. Asc(page)
  BY <1>1, <1>2, <1>3, Zenon DEF Asc
<1>6. next \in Nat /\ (next # 0 => n = k /\ next = r[n] /\ next \in T /\ In(r, next))
  <2>1. CASE n = k
    <3>1. next = r[n] /\ n \in 1..Len(r)
      BY <1>2, <1>4, <2>1
    <3>2. r[n] \in T /\ r[n] \in Nat /\ In(r, r[n])
      BY <1>1, <3>1 DEF In
    <3> QED
      BY <2>1, <3>1, <3>2
  <2>2. CASE n # k
    BY <1>4, <2>2
  <2> QED
    BY <2>1, <2>2
<1>7. ASSUME NEW o \in T, In(page, o) PROVE In(r, o) /\ (next # 0 => o <= next)
  <2>1. PICK i \in 1..n : r[i] = o
    BY <1>3, <1>7 DEF In
  <2>2. In(r, o)
    BY <1>1, <1>2, <2>1, Zenon DEF In
  <2>3. i < n => r[i] < r[n]
    <3>1. i \in 1..Len(r)
      BY <1>2, <2>1
    <3>2. n \in 1..n
      BY <2>1
    <3>3. n \in 1..Len(r)
      BY <1>2, <3>2
    <3> QED
      BY <1>1, <3>1, <3>3
  <2>4. i < n \/ i = n
    BY <1>2, <2>1
  <2>5. next # 0 => next = r[n] /\ r[n] \in Nat /\ r[i] \in Nat
    BY <1>1, <1>2, <1>6, <2>1, Zenon
  <2> QED
    BY <2>1, <2>2, <2>3, <2>4, <2>5
<1>8. ASSUME NEW o \in T, In(r, o) PROVE In(page, o) \/ (next # 0 /\ next < o)
  <2>1. PICK i \in 1..Len(r) : r[i] = o
    BY <1>1, <1>8 DEF In
  <2>2. CASE i <= n
    <3>1. i \in 1..n
      BY <1>2, <2>1, <2>2
    <3> QED
      BY <1>3, <2>1, <3>1 DEF In
  <2>3. CASE n < i
    <3>1. n = k /\ n \in 1..Len(r)
      <4> DEFINE L == Len(r)
      <4>1. i \in 1..L /\ L \in Nat /\ (n # k => n = L) /\ (n = k => n \in 1..L)
        BY <1>1, <1>2, <2>1, Zenon
      <4> HIDE DEF L
      <4> QED
        BY <2>3, <4>1 DEF L
    <3> QED
      BY <1>1, <1>4, <2>1, <2>3, <3>1
  <2> QED
    BY <1>2, <2>1, <2>2, <2>3
<1>9. (\E o \in T : In(r, o)) => page # <<>>
  <2> SUFFICES ASSUME NEW o \in T, In(r, o) PROVE page # <<>>
    OBVIOUS
  <2>1. In(page, o) \/ next # 0
    BY <1>8
  <2>2. n # 0
    BY <1>2, <1>3, <1>6, <2>1 DEF In
  <2> QED
    BY <1>2, <1>3, <2>2
<1> QED
  BY <1>5, <1>6, <1>7, <1>8, <1>9

\* A page lists, in order, tags beyond the cursor; what is listed and beyond the
\* cursor is on it or beyond the cursor it hands out, which is its last tag.
LEMMA Pages ==
  ASSUME RegistryAssumption, NEW c \in Nat
  PROVE  LET got == ListTags(c)
         IN  /\ got.page \in Seq(Tagged) /\ Asc(got.page) /\ got.next \in Nat
             /\ \A o \in Tagged : In(got.page, o) => c < o /\ (got.next # 0 => o <= got.next)
             /\ got.next # 0 => c < got.next
             /\ \A o \in Listed : c < o => In(got.page, o) \/ (got.next # 0 /\ got.next < o)
             /\ (\E o \in Listed : c < o) => got.page # <<>>
<1> DEFINE S == {tag \in Listed : tag > c}
           rest == Ascending(S)
           n == IF Len(rest) < PageSize THEN Len(rest) ELSE PageSize
           page == SubSeq(rest, 1, n)
           next == IF Len(page) = PageSize THEN Last(page) ELSE 0
<1>1. /\ Tagged \in SUBSET Nat /\ IsFiniteSet(Tagged) /\ PageSize \in Nat \ {0}
      /\ Listed \subseteq Tagged /\ 0 \notin Tagged
  BY DEF RegistryAssumption, Tagged, Listed
<1>2. /\ S \in SUBSET Tagged /\ S \in SUBSET Nat /\ 0 \notin S /\ IsFiniteSet(S)
      /\ \A o \in S : c < o
  BY <1>1, FS_Subset
<1>3. ListTags(c) = [page |-> page, next |-> next]
  BY DEF ListTags
<1>4. \A o \in Listed : c < o => o \in S
  BY <1>1
<1> HIDE DEF S
<1>5. rest \in Seq(S) /\ Asc(rest) /\ \A x \in S : In(rest, x)
  BY <1>2, Sorts
<1> HIDE DEF rest
<1>6. n \in Nat /\ n <= Len(rest) /\ n <= PageSize /\ (n < PageSize => n = Len(rest))
  <2> DEFINE m == Len(rest)
  <2>1. m \in Nat
    BY <1>5
  <2>2. n = IF m < PageSize THEN m ELSE PageSize
    OBVIOUS
  <2> HIDE DEF m, n
  <2>3. n \in Nat /\ n <= m /\ n <= PageSize /\ (n < PageSize => n = m)
    BY <1>1, <2>1, <2>2
  <2> QED
    BY <2>3 DEF m
<1> HIDE DEF n
<1>7. /\ page \in Seq(S) /\ Len(page) = n /\ \A i \in 1..n : page[i] = rest[i]
      /\ n # 0 => Last(page) = rest[n]
  BY <1>5, <1>6, Cuts
<1> HIDE DEF page
<1>8. next = IF n = PageSize THEN rest[n] ELSE 0
  BY <1>1, <1>7
<1> HIDE DEF next
<1>9. /\ Asc(page) /\ next \in Nat
      /\ \A o \in S : In(page, o) => In(rest, o) /\ (next # 0 => o <= next)
      /\ next # 0 => next \in S /\ In(rest, next)
      /\ \A o \in S : In(rest, o) => In(page, o) \/ (next # 0 /\ next < o)
      /\ (\E o \in S : In(rest, o)) => page # <<>>
  <2>1. S \in SUBSET Nat /\ 0 \notin S /\ PageSize \in Nat \ {0}
    BY <1>1, <1>2
  <2>2. rest \in Seq(S) /\ Asc(rest)
    BY <1>5
  <2>3. n \in Nat /\ n <= Len(rest) /\ n <= PageSize /\ (n < PageSize => n = Len(rest))
    BY <1>6
  <2>4. page \in Seq(S) /\ Len(page) = n /\ \A i \in 1..n : page[i] = rest[i]
    BY <1>7
  <2> QED
    BY ONLY <2>1, <2>2, <2>3, <2>4, <1>8, FirstOf, SMTT(60)
<1>10. page \in Seq(Tagged) /\ \A o : In(page, o) => o \in S
  BY <1>2, <1>7, WiderSeq
<1>11. \A o \in Tagged : In(page, o) => c < o /\ (next # 0 => o <= next)
  BY <1>2, <1>9, <1>10
<1>12. next # 0 => c < next
  BY <1>2, <1>9
<1>13. \A o \in Listed : c < o => In(page, o) \/ (next # 0 /\ next < o)
  BY <1>4, <1>5, <1>9
<1>14. (\E o \in Listed : c < o) => page # <<>>
  BY <1>4, <1>5, <1>9
<1> QED
  BY <1>3, <1>9, <1>10, <1>11, <1>12, <1>13, <1>14

----------------------------------------------------------------------------
(* The inductive invariant of the registry.                                 *)

Records == [name : Names \cup {"a"}, created : Nat]
States == {"absent", "good", "bad"}
Manifests == Published \cup {ManifestOf(a) : a \in Pushable}

CacheOK ==
  /\ cache = [n \in Nodes |-> cache[n]]
  /\ \A n \in Nodes : \A o \in DOMAIN cache[n] : cache[n][o] \in Records \cup {None}

RegistryTypeOK ==
  /\ tags \in [TagNames -> Manifests \cup {None}]
  /\ held \in [Places -> States]
  /\ sidecar \in [Objects -> Records \cup {None}]
  /\ contentStore \in [Nodes -> [Blobs -> {"absent", "good"}]]
  /\ CacheOK
  /\ ops \in Nat
  /\ task = [t \in Tasks |-> task[t]]

\* The server was given a blob and did not lose it of itself.
Placed(place) == held[place] = "good" \/ place \in faults

\* What is true of a request that is an x.
EndedInv(x) == x.op = "none" /\ x.pc \in {"idle", "done", "failed"}

\* A push gives the archive first; what it has not given yet, it has left.
PushInv(x) ==
  /\ x \in [op : {"push"}, pc : {"check", "archive", "payload"}, node : Nodes, archive : Pushable,
            ref : Refs, force : BOOLEAN, left : Seq(Blobs)]
  /\ \A b \in x.archive.layers :
        In(x.left, b) \/ (x.pc = "payload" /\ Placed(<<x.ref.repository, b>>))
  /\ x.pc = "payload" => Placed(<<x.ref.repository, x.archive.blob>>)

PullInv(x) ==
  /\ x \in [op : {"pull"}, pc : {"resolve", "layers", "done"}, node : Nodes, ref : Refs,
            manifest : Manifests \cup {None}, at : Nat \ {0}]
  /\ x.pc # "resolve" => x.manifest \in Manifests
  /\ x.pc = "done" => \A i \in DOMAIN x.manifest.layers :
                         contentStore[x.node][x.manifest.layers[i].blob] # "absent"

ObjectInv(x) ==
  /\ x \in [op : {"put", "get", "rename"},
            pc : {"lookup", "looked", "blob", "sidecar", "remember", "done", "failed"},
            node : Nodes, object : Objects, name : Names \cup States,
            record : Records \cup {None}, fill : BOOLEAN]
  /\ x.op = "get" => x.pc # "sidecar" /\ (x.pc = "done" => x.name = "good")
  /\ x.op # "get" => /\ x.name \in Names /\ x.pc # "done"
                     /\ x.pc \in {"blob", "sidecar"} => x.record \in Records

Found(x) == x.all \o x.batch

\* The matches so far are in order, up to the cursor or before the page.  What was
\* there at the start is among them, on the page or still to come.
SearchInv(x) ==
  /\ x \in [op : {"search"}, pc : {"list", "scan", "done"}, node : Nodes,
            kind : {Kind[o] : o \in Objects}, cursor : Nat, pages : Nat, page : Seq(Tagged),
            next : Nat, batch : Seq(Objects), all : Seq(Objects), truncated : BOOLEAN,
            present : SUBSET Objects]
  /\ \A o \in x.present : HasRecord(o) /\ Kind[o] = x.kind
  /\ Asc(Found(x))
  /\ x.pc = "list" =>
        /\ \A o \in Objects : In(Found(x), o) => o <= x.cursor
        /\ ~x.truncated => \A o \in x.present : In(Found(x), o) \/ x.cursor < o
  /\ x.pc = "scan" =>
        /\ Asc(x.page)
        /\ \A o \in Objects, p \in Tagged : In(Found(x), o) /\ In(x.page, p) => o < p
        /\ x.next # 0 => /\ \A o \in Objects : In(Found(x), o) => o <= x.next
                         /\ \A p \in Tagged : In(x.page, p) => p <= x.next
        /\ ~x.truncated => \A o \in x.present :
              In(Found(x), o) \/ In(x.page, o) \/ (x.next # 0 /\ x.next < o)
  /\ x.pc = "done" =>
        /\ x.batch = <<>>
        /\ ~x.truncated => \A o \in x.present : In(x.all, o)

AssembleInv(x) ==
  /\ x = [op |-> "assemble", pc |-> x.pc, file |-> x.file, at |-> x.at, sink |-> x.sink]
  /\ x.pc = "done" => KappaOf(x.sink) = x.file.blake3

TaskInv(x) ==
  EndedInv(x) \/ PushInv(x) \/ PullInv(x) \/ ObjectInv(x) \/ SearchInv(x) \/ AssembleInv(x)

RegistryInv ==
  /\ RegistryTypeOK
  /\ PushedTagsResolve
  /\ \A t \in Tasks : TaskInv(task[t])

----------------------------------------------------------------------------
(* What the operators of the module return.                                 *)

LEMMA RefsName ==
  ASSUME NEW r \in Refs
  PROVE  /\ <<r.repository, r.tag>> \in TagNames
         /\ \A b \in Blobs : <<r.repository, b>> \in Places
BY DEF TagNames, RepoNames, Places

LEMMA ParsedIsRef ==
  ASSUME NEW in \in InputRefs, ParseRef(in) # None
  PROVE  ParseRef(in) \in Refs
BY DEF Refs

\* A pushed manifest names the archive and every payload, and nothing else.
LEMMA PushedManifest ==
  ASSUME RegistryAssumption, NEW a \in Pushable
  PROVE  /\ a.blob \in Blobs /\ a.layers \in SUBSET Blobs
         /\ ExternalPayloads(a) \in Seq(a.layers) /\ ExternalPayloads(a) \in Seq(Blobs)
         /\ \A b \in a.layers : In(ExternalPayloads(a), b)
         /\ ManifestOf(a).by = "push" /\ ManifestOf(a) # None
         /\ \A i \in DOMAIN ManifestOf(a).layers :
               ManifestOf(a).layers[i].blob \in {a.blob} \cup a.layers
<1> DEFINE q == ExternalPayloads(a)
           h == <<[blob |-> a.blob, role |-> "archive", axis |-> "blake3"]>>
           p == [i \in DOMAIN q |-> [blob |-> q[i], role |-> "layer", axis |-> "blake3"]]
           Layers == [blob : {a.blob} \cup a.layers, role : {"archive", "layer"}, axis : {"blake3"}]
<1>1. /\ a \in [blob : Blobs, layers : SUBSET Blobs] /\ Blobs \in SUBSET Nat /\ IsFiniteSet(Blobs)
  BY DEF RegistryAssumption
<1>2. /\ a.blob \in Blobs /\ a.layers \in SUBSET Blobs /\ a.layers \in SUBSET Nat
      /\ IsFiniteSet(a.layers)
  BY <1>1, FS_Subset
<1>3. q \in Seq(a.layers) /\ \A b \in a.layers : In(q, b)
  BY <1>2, Sorts DEF ExternalPayloads
<1>4. q \in Seq(Blobs)
  <2> HIDE DEF q
  <2> QED
    BY <1>2, <1>3
<1>5. h \in Seq(Layers) /\ p \in Seq(Layers)
  <2> HIDE DEF q
  <2>1. DOMAIN q = 1..Len(q) /\ Len(q) \in Nat /\ \A i \in 1..Len(q) : q[i] \in a.layers
    BY <1>3
  <2> QED
    BY <2>1
<1>6. h \o p \in Seq(Layers)
  <2> HIDE DEF h, p, Layers
  <2> QED
    BY <1>5
<1>7. ManifestOf(a) = [by |-> "push", archive |-> a.blob, layers |-> h \o p]
  BY DEF ManifestOf
<1> HIDE DEF h, p
<1>8. \A i \in DOMAIN (h \o p) : (h \o p)[i] \in Layers
  <2> HIDE DEF Layers
  <2> QED
    BY <1>6
<1>9. ManifestOf(a) # None
  <2>1. "by" \in DOMAIN ManifestOf(a)
    BY <1>7
  <2>2. DOMAIN None = {"none"}
    BY DEF None
  <2> QED
    BY <2>1, <2>2
<1> QED
  BY <1>2, <1>3, <1>4, <1>7, <1>8, <1>9

LEMMA RecordsAre == \A r \in Records : r # None
<1>1. \A r \in Records : "name" \in DOMAIN r
  BY DEF Records
<1>2. "name" \notin DOMAIN None
  BY DEF None
<1> QED
  BY <1>1, <1>2

----------------------------------------------------------------------------
(* Frames.                                                                  *)

\* What no step takes back.
Grows ==
  /\ \A place \in Places : Placed(place) => Placed(place)'
  /\ \A n \in Nodes, b \in Blobs : contentStore[n][b] # "absent" => contentStore'[n][b] # "absent"
  /\ \A o \in Objects : HasRecord(o) => HasRecord(o)'

\* The blobs of every manifest are blobs of the model.
LEMMA LayersAreBlobs ==
  ASSUME RegistryAssumption, NEW m \in Manifests
  PROVE  \A i \in DOMAIN m.layers : m.layers[i].blob \in Blobs
<1>1. CASE m \in Published
  <2>1. m.layers \in Seq([blob : Blobs, role : {"archive", "layer"}, axis : STRING])
    BY <1>1 DEF RegistryAssumption
  <2> DEFINE Layers == [blob : Blobs, role : {"archive", "layer"}, axis : STRING]
  <2>2. \A i \in DOMAIN m.layers : m.layers[i] \in Layers
    <3>1. m.layers \in Seq(Layers)
      BY <2>1
    <3> HIDE DEF Layers
    <3> QED
      BY <3>1
  <2> QED
    BY <2>2
<1>2. CASE m \notin Published
  <2>1. PICK a \in Pushable : m = ManifestOf(a)
    BY <1>2 DEF Manifests
  <2> QED
    BY <2>1, PushedManifest
<1> QED
  BY <1>1, <1>2

\* A request that makes no step keeps its invariant.
LEMMA Stays ==
  ASSUME RegistryAssumption, Grows, NEW x, TaskInv(x)
  PROVE  TaskInv(x)'
<1>1. EndedInv(x) => EndedInv(x)'
  BY DEF EndedInv
<1>2. PushInv(x) => PushInv(x)'
  <2> SUFFICES ASSUME PushInv(x) PROVE PushInv(x)'
    OBVIOUS
  <2>1. x.archive \in Pushable /\ x.ref \in Refs
    BY DEF PushInv
  <2>2. x.archive.blob \in Blobs /\ x.archive.layers \in SUBSET Blobs
    BY <2>1, PushedManifest
  <2>3. \A b \in Blobs : Placed(<<x.ref.repository, b>>) => Placed(<<x.ref.repository, b>>)'
    BY <2>1, RefsName DEF Grows
  <2> QED
    BY <2>2, <2>3 DEF PushInv, Refs
<1>3. PullInv(x) => PullInv(x)'
  <2> SUFFICES ASSUME PullInv(x) PROVE PullInv(x)'
    OBVIOUS
  <2>1. x.node \in Nodes /\ (x.pc = "done" => \A i \in DOMAIN x.manifest.layers : x.manifest.layers[i].blob \in Blobs)
    BY LayersAreBlobs DEF PullInv
  <2> QED
    BY <2>1 DEF PullInv, Grows
<1>4. ObjectInv(x) => ObjectInv(x)'
  BY DEF ObjectInv
<1>5. SearchInv(x) => SearchInv(x)'
  BY DEF SearchInv, Grows
<1>6. AssembleInv(x) => AssembleInv(x)'
  BY DEF AssembleInv
<1> QED
  BY <1>1, <1>2, <1>3, <1>4, <1>5, <1>6 DEF TaskInv

\* A step of one request.
LEMMA OneMoves ==
  ASSUME RegistryAssumption, RegistryInv, Grows, NEW t \in Tasks, NEW y,
         task' = [task EXCEPT ![t] = y], TaskInv(y)',
         (RegistryTypeOK /\ PushedTagsResolve)'
  PROVE  RegistryInv'
<1>1. task'[t] = y /\ \A u \in Tasks : u # t => task'[u] = task[u]
  BY DEF RegistryInv, RegistryTypeOK
<1>2. \A u \in Tasks : TaskInv(task[u])
  BY DEF RegistryInv
<1>3. \A x : TaskInv(x) => TaskInv(x)'
  BY Stays
<1>4. ASSUME NEW u \in Tasks PROVE TaskInv(task[u])'
  <2>1. CASE u = t
    BY <1>1, <2>1
  <2>2. CASE u # t
    BY <1>1, <1>2, <1>3, <2>2
  <2> QED
    BY <2>1, <2>2
<1> QED
  BY <1>4 DEF RegistryInv

\* A request is what its operation says.
LEMMA ByOperation ==
  ASSUME RegistryInv, NEW t \in Tasks
  PROVE  /\ task[t].op = "push" => PushInv(task[t])
         /\ task[t].op = "pull" => PullInv(task[t])
         /\ task[t].op \in {"put", "get", "rename"} => ObjectInv(task[t])
         /\ task[t].op = "search" => SearchInv(task[t])
         /\ task[t].op = "assemble" => AssembleInv(task[t])
<1>1. TaskInv(task[t])
  BY DEF RegistryInv
<1>2. EndedInv(task[t]) => task[t].op = "none"
  BY DEF EndedInv
<1>3. PushInv(task[t]) => task[t].op = "push"
  BY DEF PushInv
<1>4. PullInv(task[t]) => task[t].op = "pull"
  BY DEF PullInv
<1>5. ObjectInv(task[t]) => task[t].op \in {"put", "get", "rename"}
  BY DEF ObjectInv
<1>6. SearchInv(task[t]) => task[t].op = "search"
  BY DEF SearchInv
<1>7. AssembleInv(task[t]) => task[t].op = "assemble"
  BY DEF AssembleInv
<1> HIDE DEF EndedInv
<1> QED
  BY <1>1, <1>2, <1>3, <1>4, <1>5, <1>6, <1>7 DEF TaskInv

LEMMA ResolveStays ==
  ASSUME RegistryAssumption, RegistryTypeOK, PushedTagsResolve, Grows, UNCHANGED tags
  PROVE  PushedTagsResolve'
<1> SUFFICES ASSUME NEW tag \in TagNames, tags[tag] # None, tags[tag].by = "push",
                    NEW i \in DOMAIN tags[tag].layers
             PROVE  Placed(<<tag[1], tags[tag].layers[i].blob>>)'
  BY DEF PushedTagsResolve, Placed
<1>1. tags[tag] \in Manifests
  BY DEF RegistryTypeOK
<1>2. tags[tag].layers[i].blob \in Blobs
  BY <1>1, LayersAreBlobs
<1>3. tag[1] \in RepoNames
  BY DEF TagNames, RepoNames
<1>4. Placed(<<tag[1], tags[tag].layers[i].blob>>)
  BY DEF PushedTagsResolve, Placed
<1>5. <<tag[1], tags[tag].layers[i].blob>> \in Places
  BY <1>2, <1>3 DEF Places
<1> QED
  BY <1>4, <1>5 DEF Grows

\* A step that writes nothing on the server and no content.
LEMMA QuietStep ==
  ASSUME RegistryAssumption, RegistryInv, NEW t \in Tasks, NEW y,
         task' = [task EXCEPT ![t] = y], TaskInv(y),
         UNCHANGED <<tags, held, faults, sidecar, contentStore>>, ops' \in Nat, CacheOK'
  PROVE  RegistryInv'
<1>1. Grows
  <2>1. held' = held /\ faults' = faults /\ sidecar' = sidecar /\ contentStore' = contentStore
    OBVIOUS
  <2> QED
    BY <2>1 DEF Grows, Placed, HasRecord
<1>2. TaskInv(y)'
  BY <1>1, Stays
<1>3. RegistryTypeOK'
  BY DEF RegistryInv, RegistryTypeOK
<1>4. PushedTagsResolve'
  BY <1>1, ResolveStays DEF RegistryInv
<1> QED
  BY <1>1, <1>2, <1>3, <1>4, OneMoves

LEMMA CacheStays == RegistryInv /\ UNCHANGED cache => CacheOK'
BY DEF RegistryInv, RegistryTypeOK, CacheOK

LEMMA Remembers ==
  ASSUME RegistryInv, NEW n \in Nodes, NEW o, NEW r \in Records \cup {None}, Remember(n, o, r)
  PROVE  CacheOK'
<1> DEFINE kept == IF Cardinality(DOMAIN cache[n]) >= MetadataEntries /\ o \notin DOMAIN cache[n]
                   THEN <<>> ELSE cache[n]
           more == [p \in {o} \cup DOMAIN kept |-> IF p = o THEN r ELSE kept[p]]
<1>1. cache' = [cache EXCEPT ![n] = more]
  BY DEF Remember
<1>2. CacheOK
  BY DEF RegistryInv, RegistryTypeOK
<1>3. \A p \in DOMAIN kept : kept[p] \in Records \cup {None}
  BY <1>2 DEF CacheOK
<1> HIDE DEF kept
<1>4. \A p \in DOMAIN more : more[p] \in Records \cup {None}
  BY <1>3
<1> HIDE DEF more
<1> QED
  BY <1>1, <1>2, <1>4 DEF CacheOK

\* What Goto leaves of a request.
LEMMA Going ==
  ASSUME RegistryInv, NEW t \in Tasks, NEW pc
  PROVE  /\ pc = "failed" => Ended(t, pc) = [op |-> "none", pc |-> pc]
         /\ pc = "done" /\ task[t].op \in {"push", "put", "rename"} =>
               Ended(t, pc) = [op |-> "none", pc |-> pc]
         /\ pc # "failed" /\ (pc = "done" => task[t].op \notin {"push", "put", "rename"}) =>
               Ended(t, pc) = [task[t] EXCEPT !.pc = pc]
BY DEF Ended

LEMMA Ends == \A x : EndedInv(x) => TaskInv(x)
BY DEF TaskInv

----------------------------------------------------------------------------
(* Requests that begin, and those that fail.                                *)

LEMMA RequestStep ==
  ASSUME RegistryAssumption, RegistryInv, NEW t \in Tasks, Request(t)
  PROVE  RegistryInv'
<1> DEFINE Frame == UNCHANGED <<tags, held, faults, sidecar, contentStore, cache>>
<1>1. ASSUME NEW y, Begin(t, y), TaskInv(y), Frame PROVE RegistryInv'
  <2>1. task' = [task EXCEPT ![t] = y] /\ ops' = ops + 1
    BY <1>1 DEF Begin
  <2>2. ops' \in Nat
    BY <2>1 DEF RegistryInv, RegistryTypeOK
  <2> QED
    BY <1>1, <2>1, <2>2, CacheStays, QuietStep
<1>2. ASSUME NEW n \in Nodes, NEW a \in Pushable, NEW in \in InputRefs, NEW force \in BOOLEAN,
             Push(t, n, a, in, force)
      PROVE  RegistryInv'
  <2> DEFINE y == [op |-> "push", pc |-> "check", node |-> n, archive |-> a, ref |-> ParseRef(in),
                   force |-> force, left |-> ExternalPayloads(a)]
  <2>1. Begin(t, y) /\ Frame /\ ParseRef(in) \in Refs
    BY <1>2, ParsedIsRef DEF Push
  <2>2. /\ a.layers \in SUBSET Blobs /\ ExternalPayloads(a) \in Seq(Blobs)
        /\ \A b \in a.layers : In(ExternalPayloads(a), b)
    BY PushedManifest
  <2>3. PushInv(y)
    BY <2>1, <2>2 DEF PushInv
  <2> QED
    BY <1>1, <2>1, <2>3 DEF TaskInv
<1>3. ASSUME NEW n \in Nodes, NEW in \in InputRefs, Pull(t, n, in) PROVE RegistryInv'
  <2> DEFINE y == [op |-> "pull", pc |-> "resolve", node |-> n, ref |-> ParseRef(in),
                   manifest |-> None, at |-> 1]
  <2>1. Begin(t, y) /\ Frame /\ ParseRef(in) \in Refs
    BY <1>3, ParsedIsRef DEF Pull
  <2>2. PullInv(y)
    BY <2>1 DEF PullInv
  <2> QED
    BY <1>1, <2>1, <2>2 DEF TaskInv
<1>4. ASSUME NEW n \in Nodes, NEW op \in {"put", "get", "rename"}, NEW o \in Objects,
             NEW name \in Names, ObjectRequest(t, n, op, o, name)
      PROVE  RegistryInv'
  <2> DEFINE y == [op |-> op, pc |-> "lookup", node |-> n, object |-> o, name |-> name,
                   record |-> None, fill |-> FALSE]
  <2>1. Begin(t, y) /\ Frame
    BY <1>4 DEF ObjectRequest
  <2>2. ObjectInv(y)
    BY DEF ObjectInv
  <2> QED
    BY <1>1, <2>1, <2>2 DEF TaskInv
<1>5. ASSUME NEW n \in Nodes, NEW kind \in {Kind[o] : o \in Objects}, Search(t, n, kind)
      PROVE  RegistryInv'
  <2> DEFINE y == [op |-> "search", pc |-> "list", node |-> n, kind |-> kind, cursor |-> 0,
                   pages |-> 0, page |-> <<>>, next |-> 0, batch |-> <<>>, all |-> <<>>,
                   truncated |-> FALSE, present |-> {o \in Objects : HasRecord(o) /\ Kind[o] = kind}]
  <2>1. Begin(t, y) /\ Frame
    BY <1>5 DEF Search
  <2>2. Found(y) = <<>>
    BY DEF Found
  <2>3. Asc(Found(y)) /\ \A o : ~In(Found(y), o)
    <3> PICK q : q = Found(y)
      OBVIOUS
    <3> HIDE DEF y
    <3>1. q = <<>>
      BY <2>2
    <3>2. Asc(q) /\ \A o : ~In(q, o)
      BY <3>1, NothingIn
    <3> QED
      BY <3>2
  <2>4. \A o \in Objects : 0 < o
    BY DEF RegistryAssumption
  <2>5. SearchInv(y)
    BY <2>3, <2>4 DEF SearchInv
  <2> QED
    BY <1>1, <2>1, <2>5 DEF TaskInv
<1>6. ASSUME NEW repo \in Repos, NEW i \in DOMAIN repo.files, Assemble(t, repo, i)
      PROVE  RegistryInv'
  <2> DEFINE y == [op |-> "assemble", pc |-> "chunks", file |-> repo.files[i], at |-> 1, sink |-> <<>>]
  <2>1. Begin(t, y) /\ Frame
    BY <1>6 DEF Assemble
  <2>2. AssembleInv(y)
    BY DEF AssembleInv
  <2> QED
    BY <1>1, <2>1, <2>2 DEF TaskInv
<1> HIDE DEF Frame
<1> QED
  BY <1>2, <1>3, <1>4, <1>5, <1>6 DEF Request

LEMMA FailsStep ==
  ASSUME RegistryAssumption, RegistryInv, NEW t \in Tasks, Fails(t)
  PROVE  RegistryInv'
<1> DEFINE y == Ended(t, "failed")
<1>1. task' = [task EXCEPT ![t] = y]
      /\ UNCHANGED <<tags, held, faults, sidecar, contentStore, cache, ops>>
  BY DEF Fails, Goto
<1>2. TaskInv(y)
  BY Going, Ends DEF EndedInv
<1> HIDE DEF y
<1>3. ops' \in Nat /\ CacheOK'
  BY <1>1, CacheStays DEF RegistryInv, RegistryTypeOK
<1> QED
  BY <1>1, <1>2, <1>3, QuietStep

----------------------------------------------------------------------------
(* push and pull.                                                           *)

\* A step that gives the server a blob.
LEMMA GivesBlob ==
  ASSUME RegistryAssumption, RegistryInv, NEW t \in Tasks, NEW y, NEW place \in Places,
         task' = [task EXCEPT ![t] = y], TaskInv(y)', PutBlob(place),
         UNCHANGED <<tags, faults, sidecar, contentStore, cache, ops>>
  PROVE  RegistryInv'
<1>1. held' = [held EXCEPT ![place] = "good"] /\ held \in [Places -> States]
  BY DEF PutBlob, RegistryInv, RegistryTypeOK
<1>2. faults' = faults /\ sidecar' = sidecar /\ contentStore' = contentStore
  OBVIOUS
<1>3. Grows
  BY <1>1, <1>2 DEF Grows, Placed, HasRecord
<1>4. RegistryTypeOK'
  BY <1>1, CacheStays DEF RegistryInv, RegistryTypeOK, States
<1>5. PushedTagsResolve'
  BY <1>3, ResolveStays DEF RegistryInv
<1> QED
  BY <1>3, <1>4, <1>5, OneMoves

LEMMA PushCheckStep ==
  ASSUME RegistryAssumption, RegistryInv, NEW t \in Tasks, PushCheck(t)
  PROVE  RegistryInv'
<1>1. task[t].op = "push" /\ task[t].pc = "check"
      /\ UNCHANGED <<tags, held, faults, sidecar, contentStore, cache, ops>>
  BY DEF PushCheck
<1>2. PushInv(task[t])
  BY <1>1, ByOperation
<1>3. ops' \in Nat /\ CacheOK'
  BY <1>1, CacheStays DEF RegistryInv, RegistryTypeOK
<1>4. PICK pc \in {"archive", "failed"} : task' = [task EXCEPT ![t] = Ended(t, pc)]
  BY DEF PushCheck, Goto
<1>5. TaskInv(Ended(t, pc))
  <2>1. CASE pc = "failed"
    BY <2>1, Going, Ends DEF EndedInv
  <2>2. CASE pc = "archive"
    <3>1. Ended(t, pc) = [task[t] EXCEPT !.pc = "archive"]
      BY <2>2, Going
    <3>2. PushInv([task[t] EXCEPT !.pc = "archive"])
      BY <1>1, <1>2 DEF PushInv
    <3> QED
      BY <3>1, <3>2 DEF TaskInv
  <2> QED
    BY <2>1, <2>2
<1> QED
  BY <1>1, <1>3, <1>4, <1>5, QuietStep

LEMMA PushArchiveStep ==
  ASSUME RegistryAssumption, RegistryInv, NEW t \in Tasks, PushArchive(t)
  PROVE  RegistryInv'
<1>1. task[t].op = "push" /\ task[t].pc = "archive"
      /\ UNCHANGED <<tags, faults, sidecar, contentStore, cache, ops>>
      /\ PutBlob(PlaceOf(t, task[t].archive.blob)) /\ task' = [task EXCEPT ![t] = Ended(t, "payload")]
  BY DEF PushArchive, Goto
<1>2. PushInv(task[t])
  BY <1>1, ByOperation
<1>3. PICK x : x = task[t]
  OBVIOUS
<1>4. PICK y : y = [x EXCEPT !.pc = "payload"]
  OBVIOUS
<1>5. Ended(t, "payload") = y
  BY <1>3, <1>4, Going
<1>6. PICK place : place = <<x.ref.repository, x.archive.blob>>
  OBVIOUS
<1>7. PlaceOf(t, task[t].archive.blob) = place
  BY <1>3, <1>6 DEF PlaceOf
<1>8. x.archive \in Pushable /\ x.ref \in Refs
  BY <1>2, <1>3 DEF PushInv
<1>9. place \in Places
  BY <1>6, <1>8, PushedManifest, RefsName
<1>10. held'[place] = "good"
  BY <1>1, <1>7, <1>9 DEF PutBlob, RegistryInv, RegistryTypeOK
<1>11. PushInv(x)
  BY <1>2, <1>3
<1>12. PushInv(y)'
  <2>1. y \in [op : {"push"}, pc : {"check", "archive", "payload"}, node : Nodes, archive : Pushable,
               ref : Refs, force : BOOLEAN, left : Seq(Blobs)]
    BY <1>4, <1>11 DEF PushInv
  <2>2. \A b \in y.archive.layers : In(y.left, b)
    BY <1>1, <1>3, <1>4, <1>11 DEF PushInv
  <2>3. Placed(<<y.ref.repository, y.archive.blob>>)'
    BY <1>4, <1>6, <1>10, <1>11 DEF Placed, PushInv
  <2> QED
    BY <2>1, <2>2, <2>3 DEF PushInv, Refs
<1> QED
  BY <1>1, <1>5, <1>7, <1>9, <1>12, GivesBlob DEF TaskInv

LEMMA PushPayloadStep ==
  ASSUME RegistryAssumption, RegistryInv, NEW t \in Tasks, PushPayload(t)
  PROVE  RegistryInv'
<1>1. task[t].op = "push" /\ task[t].pc = "payload" /\ task[t].left # <<>>
      /\ UNCHANGED <<tags, faults, sidecar, contentStore, cache, ops>>
      /\ PutBlob(PlaceOf(t, Head(task[t].left)))
      /\ task' = [task EXCEPT ![t].left = Tail(@)]
  BY DEF PushPayload
<1>2. PushInv(task[t])
  BY <1>1, ByOperation
<1>3. PICK x : x = task[t]
  OBVIOUS
<1>4. PICK y : y = [x EXCEPT !.left = Tail(x.left)]
  OBVIOUS
<1>5. task' = [task EXCEPT ![t] = y]
  BY <1>1, <1>3, <1>4 DEF RegistryInv, RegistryTypeOK
<1>6. PICK place : place = <<x.ref.repository, Head(x.left)>>
  OBVIOUS
<1>7. PlaceOf(t, Head(task[t].left)) = place
  BY <1>3, <1>6 DEF PlaceOf
<1>8. PushInv(x) /\ x.pc = "payload" /\ x.left # <<>>
  BY <1>1, <1>2, <1>3
<1>9. /\ x.archive \in Pushable /\ x.ref \in Refs /\ x.left \in Seq(Blobs)
      /\ x.archive.blob \in Blobs /\ x.archive.layers \in SUBSET Blobs
  BY <1>8, PushedManifest DEF PushInv
<1>10. /\ Head(x.left) \in Blobs /\ Tail(x.left) \in Seq(Blobs)
       /\ \A o : In(x.left, o) <=> o = Head(x.left) \/ In(Tail(x.left), o)
  BY <1>8, <1>9, TailIn DEF RegistryAssumption
<1>11. place \in Places
  BY <1>6, <1>9, <1>10, RefsName
<1>12. /\ held' = [held EXCEPT ![place] = "good"] /\ held \in [Places -> States]
       /\ faults' = faults
  BY <1>1, <1>7 DEF PutBlob, RegistryInv, RegistryTypeOK
<1>13. \A p \in Places : (Placed(p) => Placed(p)') /\ Placed(place)'
  BY <1>11, <1>12 DEF Placed
<1>14. \A b \in Blobs : <<x.ref.repository, b>> \in Places
  BY <1>9, RefsName
<1>15. PushInv(y)'
  <2>1. y \in [op : {"push"}, pc : {"check", "archive", "payload"}, node : Nodes, archive : Pushable,
               ref : Refs, force : BOOLEAN, left : Seq(Blobs)]
    BY <1>4, <1>8, <1>10 DEF PushInv
  <2>2. y.ref = x.ref /\ y.archive = x.archive /\ y.left = Tail(x.left) /\ y.pc = "payload"
    BY <1>4, <1>8 DEF PushInv
  <2>3. Placed(<<x.ref.repository, x.archive.blob>>)'
    BY <1>8, <1>9, <1>13, <1>14 DEF PushInv
  <2>4. ASSUME NEW b \in x.archive.layers
        PROVE  In(Tail(x.left), b) \/ Placed(<<x.ref.repository, b>>)'
    <3>1. CASE In(x.left, b)
      BY <1>6, <1>10, <1>11, <1>13, <3>1
    <3>2. CASE ~In(x.left, b)
      <4>1. Placed(<<x.ref.repository, b>>) /\ b \in Blobs
        BY <1>8, <1>9, <3>2 DEF PushInv
      <4> QED
        BY <1>13, <1>14, <4>1
    <3> QED
      BY <3>1, <3>2
  <2> QED
    BY <2>1, <2>2, <2>3, <2>4 DEF PushInv, Refs
<1> QED
  BY <1>1, <1>5, <1>7, <1>11, <1>15, GivesBlob DEF TaskInv

\* The manifest goes last: by then nothing is left.
LEMMA PushManifestStep ==
  ASSUME RegistryAssumption, RegistryInv, NEW t \in Tasks, PushManifest(t)
  PROVE  RegistryInv'
<1>1. task[t].op = "push" /\ task[t].pc = "payload" /\ task[t].left = <<>>
      /\ tags' = [tags EXCEPT ![TagOf(t)] = ManifestOf(task[t].archive)]
      /\ task' = [task EXCEPT ![t] = Ended(t, "done")]
      /\ UNCHANGED <<held, faults, sidecar, contentStore, cache, ops>>
  BY DEF PushManifest, Goto
<1>2. PushInv(task[t])
  BY <1>1, ByOperation
<1>3. Ended(t, "done") = [op |-> "none", pc |-> "done"]
  BY <1>1, Going
<1>4. PICK y : y = [op |-> "none", pc |-> "done"]
  OBVIOUS
<1>5. EndedInv(y)'
  BY <1>4 DEF EndedInv
<1>6. PICK x : x = task[t]
  OBVIOUS
<1>7. PushInv(x) /\ x.pc = "payload" /\ x.left = <<>>
  BY <1>1, <1>2, <1>6
<1>8. x.archive \in Pushable /\ x.ref \in Refs
  BY <1>7 DEF PushInv
<1> DEFINE m == ManifestOf(x.archive)
           tag == <<x.ref.repository, x.ref.tag>>
<1>9. tags' = [tags EXCEPT ![tag] = m] /\ tag \in TagNames
  BY <1>1, <1>6, <1>8, RefsName DEF TagOf
<1>10. m \in Manifests
  BY <1>8 DEF Manifests
<1>11. /\ held' = held /\ faults' = faults /\ sidecar' = sidecar /\ contentStore' = contentStore
       /\ tags \in [TagNames -> Manifests \cup {None}]
  BY <1>1 DEF RegistryInv, RegistryTypeOK
<1>12. Grows
  BY <1>11 DEF Grows, Placed, HasRecord
<1>13. RegistryTypeOK'
  BY <1>1, <1>9, <1>10, <1>11, CacheStays DEF RegistryInv, RegistryTypeOK
<1>14. ASSUME NEW i \in DOMAIN m.layers PROVE Placed(<<x.ref.repository, m.layers[i].blob>>)
  <2>1. m.layers[i].blob \in {x.archive.blob} \cup x.archive.layers
    BY <1>8, PushedManifest
  <2>2. Placed(<<x.ref.repository, x.archive.blob>>)
    BY <1>7 DEF PushInv
  <2>3. \A b \in x.archive.layers : Placed(<<x.ref.repository, b>>)
    <3>1. \A b : ~In(x.left, b)
      BY <1>7, NothingIn
    <3> QED
      BY <1>7, <3>1 DEF PushInv
  <2> QED
    BY <2>1, <2>2, <2>3
<1> HIDE DEF m
<1>15. PushedTagsResolve'
  <2> SUFFICES ASSUME NEW g \in TagNames, tags'[g] # None, tags'[g].by = "push",
                      NEW i \in DOMAIN tags'[g].layers
               PROVE  Placed(<<g[1], tags'[g].layers[i].blob>>)
    BY <1>11 DEF PushedTagsResolve, Placed
  <2>1. CASE g = tag
    <3>1. tags'[g] = m
      BY <1>9, <1>11, <2>1
    <3>2. g[1] = x.ref.repository
      BY <2>1
    <3> QED
      BY <1>14, <3>1, <3>2
  <2>2. CASE g # tag
    <3>1. tags'[g] = tags[g]
      BY <1>9, <1>11, <2>2
    <3> QED
      BY <3>1 DEF RegistryInv, PushedTagsResolve, Placed
  <2> QED
    BY <2>1, <2>2
<1> QED
  BY <1>1, <1>3, <1>4, <1>5, <1>12, <1>13, <1>15, OneMoves DEF TaskInv

LEMMA PullResolveStep ==
  ASSUME RegistryAssumption, RegistryInv, NEW t \in Tasks, PullResolve(t)
  PROVE  RegistryInv'
<1>1. task[t].op = "pull" /\ task[t].pc = "resolve"
      /\ UNCHANGED <<tags, held, faults, sidecar, contentStore, cache, ops>>
  BY DEF PullResolve
<1>2. PullInv(task[t])
  BY <1>1, ByOperation
<1>3. ops' \in Nat /\ CacheOK'
  BY <1>1, CacheStays DEF RegistryInv, RegistryTypeOK
<1> DEFINE m == tags[TagOf(t)]
           y == [[task[t] EXCEPT !.pc = "layers"] EXCEPT !.manifest = m]
<1>4. \/ m # None /\ task' = [task EXCEPT ![t].pc = "layers", ![t].manifest = m]
      \/ task' = [task EXCEPT ![t] = Ended(t, "failed")]
  BY DEF PullResolve, Goto, ManifestAt
<1>5. m \in Manifests \cup {None}
  BY <1>2, RefsName DEF TagOf, PullInv, RegistryInv, RegistryTypeOK
<1>6. CASE m # None /\ task' = [task EXCEPT ![t].pc = "layers", ![t].manifest = m]
  <2> HIDE DEF m
  <2>1. task' = [task EXCEPT ![t] = y]
    BY <1>6 DEF RegistryInv, RegistryTypeOK
  <2>2. PullInv(y)
    BY <1>2, <1>5, <1>6 DEF PullInv
  <2>3. TaskInv(y)
    BY <2>2 DEF TaskInv
  <2> HIDE DEF y
  <2> QED
    BY <1>1, <1>3, <2>1, <2>3, QuietStep
<1>7. CASE task' = [task EXCEPT ![t] = Ended(t, "failed")]
  <2>1. TaskInv(Ended(t, "failed"))
    BY Going, Ends DEF EndedInv
  <2> QED
    BY <1>1, <1>3, <1>7, <2>1, QuietStep
<1> QED
  BY <1>4, <1>6, <1>7

\* A layer that is there is passed over, one that is fetched is good.
LEMMA PullLayerStep ==
  ASSUME RegistryAssumption, RegistryInv, NEW t \in Tasks, PullLayer(t)
  PROVE  RegistryInv'
<1> DEFINE b == PullLayerOf(t)
           n == task[t].node
           y == [task[t] EXCEPT !.at = task[t].at + 1]
<1>1. task[t].op = "pull" /\ task[t].pc = "layers" /\ task[t].at <= Len(task[t].manifest.layers)
      /\ UNCHANGED <<tags, held, faults, sidecar, cache, ops>>
  BY DEF PullLayer
<1>2. PullInv(task[t])
  BY <1>1, ByOperation
<1>3. ops' \in Nat /\ CacheOK'
  BY <1>1, CacheStays DEF RegistryInv, RegistryTypeOK
<1>4. /\ contentStore \in [Nodes -> [Blobs -> {"absent", "good"}]] /\ n \in Nodes
      /\ task = [u \in Tasks |-> task[u]]
  BY <1>2 DEF PullInv, RegistryInv, RegistryTypeOK
<1>5. PullInv(y)
  BY <1>1, <1>2 DEF PullInv
<1>6. TaskInv(y)
  BY <1>5 DEF TaskInv
<1>7. \/ task' = [task EXCEPT ![t].at = @ + 1] /\ UNCHANGED contentStore
      \/ /\ contentStore' = [contentStore EXCEPT ![n][b] = "good"]
         /\ task' = [task EXCEPT ![t].at = @ + 1]
      \/ task' = [task EXCEPT ![t] = Ended(t, "failed")] /\ UNCHANGED contentStore
  BY DEF PullLayer, AdmitsBytes, Goto
<1>8. CASE task' = [task EXCEPT ![t].at = @ + 1] /\ UNCHANGED contentStore
  <2>1. task' = [task EXCEPT ![t] = y]
    BY <1>4, <1>8
  <2> HIDE DEF y
  <2> QED
    BY <1>1, <1>3, <1>6, <1>8, <2>1, QuietStep
<1>9. CASE task' = [task EXCEPT ![t] = Ended(t, "failed")] /\ UNCHANGED contentStore
  <2>1. TaskInv(Ended(t, "failed"))
    BY Going, Ends DEF EndedInv
  <2> QED
    BY <1>1, <1>3, <1>9, <2>1, QuietStep
<1>10. CASE /\ contentStore' = [contentStore EXCEPT ![n][b] = "good"]
            /\ task' = [task EXCEPT ![t].at = @ + 1]
  <2>1. task' = [task EXCEPT ![t] = y]
    BY <1>4, <1>10
  <2>2. PICK z : z = y
    OBVIOUS
  <2>3. task' = [task EXCEPT ![t] = z] /\ TaskInv(z)
    BY <1>6, <2>1, <2>2
  <2> HIDE DEF y, b, n
  <2>4. contentStore' \in [Nodes -> [Blobs -> {"absent", "good"}]]
    BY <1>4, <1>10
  <2>5. \A k \in Nodes, c \in Blobs : contentStore[k][c] # "absent" => contentStore'[k][c] # "absent"
    BY <1>4, <1>10
  <2>6. held' = held /\ faults' = faults /\ sidecar' = sidecar
    BY <1>1
  <2>7. Grows
    BY <2>5, <2>6 DEF Grows, Placed, HasRecord
  <2>8. TaskInv(z)'
    BY <2>3, <2>7, Stays
  <2>9. task' = [u \in Tasks |-> task'[u]]
    BY <1>4, <2>3
  <2>10. RegistryTypeOK'
    BY <1>1, <1>3, <2>4, <2>9 DEF RegistryInv, RegistryTypeOK
  <2>11. PushedTagsResolve'
    BY <1>1, <2>7, ResolveStays DEF RegistryInv
  <2> QED
    BY <2>3, <2>7, <2>8, <2>10, <2>11, OneMoves
<1> QED
  BY <1>7, <1>8, <1>9, <1>10

LEMMA PullReportStep ==
  ASSUME RegistryAssumption, RegistryInv, NEW t \in Tasks, PullReport(t)
  PROVE  RegistryInv'
<1> DEFINE y == [[task[t] EXCEPT !.pc = "done"] EXCEPT !.manifest = task[t].manifest]
           All == \A i \in DOMAIN task[t].manifest.layers :
                     contentStore[task[t].node][task[t].manifest.layers[i].blob] # "absent"
<1>1. task[t].op = "pull" /\ task[t].pc = "layers"
      /\ UNCHANGED <<tags, held, faults, sidecar, contentStore, cache, ops>>
  BY DEF PullReport
<1>2. PullInv(task[t])
  BY <1>1, ByOperation
<1>3. ops' \in Nat /\ CacheOK' /\ task = [u \in Tasks |-> task[u]]
  BY <1>1, CacheStays DEF RegistryInv, RegistryTypeOK
<1>4. \/ All /\ task' = [task EXCEPT ![t].pc = "done", ![t].manifest = task[t].manifest]
      \/ task' = [task EXCEPT ![t] = Ended(t, "failed")]
  BY DEF PullReport, Goto, Reported
<1>5. CASE All /\ task' = [task EXCEPT ![t].pc = "done", ![t].manifest = task[t].manifest]
  <2>1. task' = [task EXCEPT ![t] = y]
    BY <1>3, <1>5
  <2>2. PullInv(y)
    BY <1>1, <1>2, <1>5 DEF PullInv
  <2>3. TaskInv(y)
    BY <2>2 DEF TaskInv
  <2> HIDE DEF y
  <2> QED
    BY <1>1, <1>3, <2>1, <2>3, QuietStep
<1>6. CASE task' = [task EXCEPT ![t] = Ended(t, "failed")]
  <2>1. TaskInv(Ended(t, "failed"))
    BY Going, Ends DEF EndedInv
  <2> QED
    BY <1>1, <1>3, <1>6, <2>1, QuietStep
<1> QED
  BY <1>4, <1>5, <1>6, Zenon

----------------------------------------------------------------------------
(* put, get and rename.                                                     *)

\* What the record of a request is, and what filling the cache with it does.
LEMMA FillsCache ==
  ASSUME RegistryInv, NEW t \in Tasks, task[t].op \in {"put", "get", "rename"}, Fill(t)
  PROVE  CacheOK'
<1>1. ObjectInv(task[t])
  BY ByOperation
<1>2. task[t].node \in Nodes /\ task[t].record \in Records \cup {None}
  BY <1>1 DEF ObjectInv
<1>3. CASE task[t].fill
  BY <1>2, <1>3, Remembers DEF Fill
<1>4. CASE ~task[t].fill
  BY <1>4, CacheStays DEF Fill
<1> QED
  BY <1>3, <1>4

LEMMA LookupStep ==
  ASSUME RegistryAssumption, RegistryInv, NEW t \in Tasks, Lookup(t)
  PROVE  RegistryInv'
<1> DEFINE n == task[t].node
           o == task[t].object
           r == IF Cached(n, o) THEN cache[n][o] ELSE GetManifest(o)
           f == ~Cached(n, o) /\ HasRecord(o)
           y == [[[task[t] EXCEPT !.pc = "looked"] EXCEPT !.fill = f] EXCEPT !.record = r]
<1>1. task[t].op \in {"put", "get", "rename"} /\ task[t].pc = "lookup"
      /\ UNCHANGED <<tags, held, faults, sidecar, contentStore, cache, ops>>
      /\ task' = [task EXCEPT ![t].pc = "looked", ![t].fill = f, ![t].record = r]
  BY DEF Lookup
<1>2. ObjectInv(task[t])
  BY <1>1, ByOperation
<1>3. ops' \in Nat /\ CacheOK' /\ task = [u \in Tasks |-> task[u]]
  BY <1>1, CacheStays DEF RegistryInv, RegistryTypeOK
<1>4. n \in Nodes /\ o \in Objects
  BY <1>2 DEF ObjectInv
<1>5. r \in Records \cup {None}
  <2> HIDE DEF n, o
  <2>1. CASE Cached(n, o)
    BY <1>4, <2>1 DEF Cached, CacheOK, RegistryInv, RegistryTypeOK
  <2>2. CASE ~Cached(n, o)
    BY <1>4, <2>2 DEF GetManifest, RegistryInv, RegistryTypeOK
  <2> QED
    BY <2>1, <2>2
<1>6. f \in BOOLEAN
  OBVIOUS
<1> HIDE DEF n, o, r, f
<1>7. task' = [task EXCEPT ![t] = y]
  BY <1>1, <1>3
<1>8. ObjectInv(y)
  BY <1>1, <1>2, <1>5, <1>6 DEF ObjectInv
<1>9. TaskInv(y)
  BY <1>8 DEF TaskInv
<1> HIDE DEF y
<1> QED
  BY <1>1, <1>3, <1>7, <1>9, QuietStep

LEMMA PutLookedStep ==
  ASSUME RegistryAssumption, RegistryInv, NEW t \in Tasks, PutLooked(t)
  PROVE  RegistryInv'
<1> DEFINE r == [name |-> task[t].name,
                 created |-> IF task[t].record = None THEN ops ELSE task[t].record.created]
           y == [[task[t] EXCEPT !.pc = "blob"] EXCEPT !.record = r]
<1>1. task[t].op = "put" /\ task[t].pc = "looked" /\ Fill(t)
      /\ UNCHANGED <<tags, held, faults, sidecar, contentStore, ops>>
  BY DEF PutLooked
<1>2. ObjectInv(task[t])
  BY <1>1, ByOperation
<1>3. ops \in Nat /\ ops' = ops /\ CacheOK' /\ task = [u \in Tasks |-> task[u]]
  BY <1>1, FillsCache DEF RegistryInv, RegistryTypeOK
<1>4. task[t].name \in Names /\ task[t].record \in Records \cup {None}
  BY <1>1, <1>2 DEF ObjectInv
<1>5. r \in Records
  BY <1>3, <1>4 DEF Records
<1>6. task' = [task EXCEPT ![t] = y]
  BY <1>3 DEF PutLooked
<1> HIDE DEF r
<1>7. ObjectInv(y)
  BY <1>1, <1>2, <1>5 DEF ObjectInv
<1>8. TaskInv(y)
  BY <1>7 DEF TaskInv
<1> HIDE DEF y
<1> QED
  BY <1>1, <1>3, <1>6, <1>8, QuietStep

LEMMA PutLookupFailsStep ==
  ASSUME RegistryAssumption, RegistryInv, NEW t \in Tasks, PutLookupFails(t)
  PROVE  RegistryInv'
<1> DEFINE r == [name |-> task[t].name, created |-> ops]
           y == [[task[t] EXCEPT !.pc = "blob"] EXCEPT !.record = r]
<1>1. task[t].op = "put" /\ task[t].pc = "lookup"
      /\ UNCHANGED <<tags, held, faults, sidecar, contentStore, cache, ops>>
  BY DEF PutLookupFails
<1>2. ObjectInv(task[t])
  BY <1>1, ByOperation
<1>3. ops \in Nat /\ ops' = ops /\ CacheOK' /\ task = [u \in Tasks |-> task[u]]
  BY <1>1, CacheStays DEF RegistryInv, RegistryTypeOK
<1>4. task[t].name \in Names
  BY <1>1, <1>2 DEF ObjectInv
<1>5. r \in Records
  BY <1>3, <1>4 DEF Records
<1>6. task' = [task EXCEPT ![t] = y]
  BY <1>3 DEF PutLookupFails
<1> HIDE DEF r
<1>7. ObjectInv(y)
  BY <1>1, <1>2, <1>5 DEF ObjectInv
<1>8. TaskInv(y)
  BY <1>7 DEF TaskInv
<1> HIDE DEF y
<1> QED
  BY <1>1, <1>3, <1>6, <1>8, QuietStep

LEMMA PutObjectBlobStep ==
  ASSUME RegistryAssumption, RegistryInv, NEW t \in Tasks, PutObjectBlob(t)
  PROVE  RegistryInv'
<1>1. task[t].op = "put" /\ task[t].pc = "blob"
      /\ UNCHANGED <<tags, faults, sidecar, contentStore, cache, ops>>
      /\ PutBlob(<<Home, task[t].object>>) /\ task' = [task EXCEPT ![t] = Ended(t, "sidecar")]
  BY DEF PutObjectBlob, Goto
<1>2. ObjectInv(task[t])
  BY <1>1, ByOperation
<1>3. <<Home, task[t].object>> \in Places
  BY <1>2 DEF ObjectInv, Places
<1>4. Ended(t, "sidecar") = [task[t] EXCEPT !.pc = "sidecar"]
  BY Going
<1>5. PICK y : y = [task[t] EXCEPT !.pc = "sidecar"]
  OBVIOUS
<1>6. ObjectInv(y)
  BY <1>1, <1>2, <1>5 DEF ObjectInv
<1>7. ObjectInv(y)'
  BY <1>6 DEF ObjectInv
<1>8. TaskInv(y)'
  BY <1>7 DEF TaskInv
<1> QED
  BY <1>1, <1>3, <1>4, <1>5, <1>8, GivesBlob

LEMMA RenameLookedStep ==
  ASSUME RegistryAssumption, RegistryInv, NEW t \in Tasks, RenameLooked(t)
  PROVE  RegistryInv'
<1> DEFINE r == [task[t].record EXCEPT !.name = task[t].name]
           y == [[task[t] EXCEPT !.pc = "sidecar"] EXCEPT !.record = r]
<1>1. task[t].op = "rename" /\ task[t].pc = "looked" /\ Fill(t)
      /\ UNCHANGED <<tags, held, faults, sidecar, contentStore, ops>>
  BY DEF RenameLooked
<1>2. ObjectInv(task[t])
  BY <1>1, ByOperation
<1>3. ops' \in Nat /\ CacheOK' /\ task = [u \in Tasks |-> task[u]]
  BY <1>1, FillsCache DEF RegistryInv, RegistryTypeOK
<1>4. \/ /\ task[t].record # None
         /\ task' = [task EXCEPT ![t].pc = "sidecar", ![t].record.name = task[t].name]
      \/ task' = [task EXCEPT ![t] = Ended(t, "failed")]
  BY DEF RenameLooked, Goto
<1>5. CASE /\ task[t].record # None
           /\ task' = [task EXCEPT ![t].pc = "sidecar", ![t].record.name = task[t].name]
  <2>1. task[t].name \in Names /\ task[t].record \in Records
    BY <1>1, <1>2, <1>5 DEF ObjectInv
  <2>2. r \in Records
    BY <2>1 DEF Records
  <2>3. task' = [task EXCEPT ![t] = y]
    BY <1>2, <1>3, <1>5 DEF ObjectInv
  <2> HIDE DEF r
  <2>4. ObjectInv(y)
    BY <1>1, <1>2, <2>2 DEF ObjectInv
  <2>5. TaskInv(y)
    BY <2>4 DEF TaskInv
  <2> HIDE DEF y
  <2> QED
    BY <1>1, <1>3, <2>3, <2>5, QuietStep
<1>6. CASE task' = [task EXCEPT ![t] = Ended(t, "failed")]
  <2>1. TaskInv(Ended(t, "failed"))
    BY Going, Ends DEF EndedInv
  <2> QED
    BY <1>1, <1>3, <1>6, <2>1, QuietStep
<1> QED
  BY <1>4, <1>5, <1>6

\* A record takes the place of one or of none: an object keeps having one.
LEMMA PutSidecarStep ==
  ASSUME RegistryAssumption, RegistryInv, NEW t \in Tasks, PutSidecar(t)
  PROVE  RegistryInv'
<1>1. task[t].op \in {"put", "rename"} /\ task[t].pc = "sidecar"
      /\ sidecar' = [sidecar EXCEPT ![task[t].object] = task[t].record]
      /\ task' = [task EXCEPT ![t] = Ended(t, "remember")]
      /\ UNCHANGED <<tags, held, faults, contentStore, cache, ops>>
  BY DEF PutSidecar, Goto
<1>2. ObjectInv(task[t])
  BY <1>1, ByOperation
<1>3. task[t].object \in Objects /\ task[t].record \in Records
  BY <1>1, <1>2 DEF ObjectInv
<1>4. sidecar \in [Objects -> Records \cup {None}] /\ task = [u \in Tasks |-> task[u]]
  BY DEF RegistryInv, RegistryTypeOK
<1>5. held' = held /\ faults' = faults /\ contentStore' = contentStore /\ tags' = tags
  BY <1>1
<1>6. \A o \in Objects : sidecar[o] # None => sidecar'[o] # None
  BY <1>1, <1>3, <1>4, RecordsAre
<1>7. Grows
  BY <1>5, <1>6 DEF Grows, Placed, HasRecord
<1>8. PICK y : y = [task[t] EXCEPT !.pc = "remember"]
  OBVIOUS
<1>9. task' = [task EXCEPT ![t] = y]
  BY <1>1, <1>8, Going
<1>10. ObjectInv(y)
  BY <1>1, <1>2, <1>8 DEF ObjectInv
<1>11. TaskInv(y)'
  BY <1>7, <1>10, Stays DEF TaskInv
<1>12. sidecar' \in [Objects -> Records \cup {None}]
  BY <1>1, <1>3, <1>4
<1>13. RegistryTypeOK'
  BY <1>1, <1>4, <1>9, <1>12, CacheStays DEF RegistryInv, RegistryTypeOK
<1>14. PushedTagsResolve'
  BY <1>5, <1>7, ResolveStays DEF RegistryInv
<1> QED
  BY <1>7, <1>9, <1>11, <1>13, <1>14, OneMoves

LEMMA PutRememberStep ==
  ASSUME RegistryAssumption, RegistryInv, NEW t \in Tasks, PutRemember(t)
  PROVE  RegistryInv'
<1>1. task[t].op \in {"put", "rename"} /\ task[t].pc = "remember"
      /\ Remember(task[t].node, task[t].object, task[t].record)
      /\ task' = [task EXCEPT ![t] = Ended(t, "done")]
      /\ UNCHANGED <<tags, held, faults, sidecar, contentStore, ops>>
  BY DEF PutRemember, Goto
<1>2. ObjectInv(task[t])
  BY <1>1, ByOperation
<1>3. task[t].node \in Nodes /\ task[t].record \in Records \cup {None}
  BY <1>2 DEF ObjectInv
<1>4. ops' \in Nat /\ CacheOK'
  BY <1>1, <1>3, Remembers DEF RegistryInv, RegistryTypeOK
<1>5. TaskInv(Ended(t, "done"))
  BY <1>1, Going, Ends DEF EndedInv
<1> QED
  BY <1>1, <1>4, <1>5, QuietStep

LEMMA GetLookedStep ==
  ASSUME RegistryAssumption, RegistryInv, NEW t \in Tasks, GetLooked(t)
  PROVE  RegistryInv'
<1>1. task[t].op = "get" /\ task[t].pc = "looked" /\ Fill(t)
      /\ UNCHANGED <<tags, held, faults, sidecar, contentStore, ops>>
  BY DEF GetLooked
<1>2. ObjectInv(task[t])
  BY <1>1, ByOperation
<1>3. ops' \in Nat /\ CacheOK'
  BY <1>1, FillsCache DEF RegistryInv, RegistryTypeOK
<1>4. PICK pc \in {"failed", "blob"} : task' = [task EXCEPT ![t] = Ended(t, pc)]
  BY DEF GetLooked, Goto
<1>5. TaskInv(Ended(t, pc))
  <2>1. CASE pc = "failed"
    BY <2>1, Going, Ends DEF EndedInv
  <2>2. CASE pc = "blob"
    <3>1. Ended(t, pc) = [task[t] EXCEPT !.pc = "blob"]
      BY <2>2, Going
    <3>2. ObjectInv([task[t] EXCEPT !.pc = "blob"])
      BY <1>1, <1>2 DEF ObjectInv
    <3> QED
      BY <3>1, <3>2 DEF TaskInv
  <2> QED
    BY <2>1, <2>2
<1> QED
  BY <1>1, <1>3, <1>4, <1>5, QuietStep

LEMMA GetObjectBlobStep ==
  ASSUME RegistryAssumption, RegistryInv, NEW t \in Tasks, GetObjectBlob(t)
  PROVE  RegistryInv'
<1> DEFINE state == GetBlob(task[t].object)
           pc == IF AdmitsBytes(state) THEN "done" ELSE "failed"
           y == [[task[t] EXCEPT !.pc = pc] EXCEPT !.name = state]
<1>1. task[t].op = "get" /\ task[t].pc = "blob"
      /\ UNCHANGED <<tags, held, faults, sidecar, contentStore, cache, ops>>
      /\ task' = [task EXCEPT ![t].pc = pc, ![t].name = state]
  BY DEF GetObjectBlob
<1>2. ObjectInv(task[t])
  BY <1>1, ByOperation
<1>3. ops' \in Nat /\ CacheOK' /\ task = [u \in Tasks |-> task[u]]
  BY <1>1, CacheStays DEF RegistryInv, RegistryTypeOK
<1>4. state \in States
  <2>1. <<Home, task[t].object>> \in Places
    BY <1>2 DEF ObjectInv, Places
  <2> QED
    BY <2>1 DEF GetBlob, RegistryInv, RegistryTypeOK
<1>5. pc \in {"done", "failed"} /\ (pc = "done" => state = "good")
  BY DEF AdmitsBytes
<1> HIDE DEF state, pc
<1>6. task' = [task EXCEPT ![t] = y]
  BY <1>1, <1>3
<1>7. ObjectInv(y)
  BY <1>1, <1>2, <1>4, <1>5 DEF ObjectInv
<1>8. TaskInv(y)
  BY <1>7 DEF TaskInv
<1> HIDE DEF y
<1> QED
  BY <1>1, <1>3, <1>6, <1>8, QuietStep

----------------------------------------------------------------------------
(* The search.                                                              *)

\* What the search starts a step with.
LEMMA Searching ==
  ASSUME RegistryAssumption, RegistryInv, NEW t \in Tasks, task[t].op = "search"
  PROVE  /\ SearchInv(task[t])
         /\ Found(task[t]) \in Seq(Objects) /\ task[t].batch \in Seq(Objects)
         /\ task[t].all \in Seq(Objects) /\ task[t].cursor \in Nat /\ task[t].next \in Nat
         /\ task[t].present \in SUBSET Objects /\ task[t].page \in Seq(Tagged)
         /\ Objects \in SUBSET Nat /\ 0 \notin Objects /\ Objects \subseteq Tagged
         /\ Tagged \in SUBSET Nat
<1>1. SearchInv(task[t])
  BY ByOperation
<1>2. task[t].batch \in Seq(Objects) /\ task[t].all \in Seq(Objects)
      /\ task[t].cursor \in Nat /\ task[t].next \in Nat
      /\ task[t].present \in SUBSET Objects /\ task[t].page \in Seq(Tagged)
  BY <1>1 DEF SearchInv
<1>3. Found(task[t]) \in Seq(Objects)
  BY <1>2 DEF Found
<1>4. Objects \in SUBSET Nat /\ 0 \notin Objects /\ Objects \subseteq Tagged /\ Tagged \in SUBSET Nat
  BY DEF RegistryAssumption, Tagged
<1> QED
  BY <1>1, <1>2, <1>3, <1>4

\* The page of results that goes out.
Answered(x, cursor, truncated) ==
  [[[[[[[[x EXCEPT !.all = x.all \o x.batch] EXCEPT !.batch = <<>>] EXCEPT !.pages = 0]
     EXCEPT !.page = <<>>] EXCEPT !.cursor = cursor] EXCEPT !.next = 0]
     EXCEPT !.truncated = x.truncated \/ truncated]
     EXCEPT !.pc = IF cursor = 0 THEN "done" ELSE "list"]

LEMMA Answering ==
  ASSUME RegistryInv, NEW t \in Tasks, NEW cursor, NEW truncated, Answer(t, cursor, truncated)
  PROVE  task' = [task EXCEPT ![t] = Answered(task[t], cursor, truncated)]
BY DEF Answer, Answered, RegistryInv, RegistryTypeOK

\* What has to be shown when the results go out.
LEMMA AnsweredInv ==
  ASSUME RegistryAssumption, RegistryInv, NEW t \in Tasks, task[t].op = "search",
         NEW cursor \in Nat, NEW truncated \in BOOLEAN,
         cursor # 0 => \A o \in Objects : In(Found(task[t]), o) => o <= cursor,
         ~task[t].truncated /\ ~truncated =>
            \A o \in task[t].present : In(Found(task[t]), o) \/ (cursor # 0 /\ cursor < o)
  PROVE  TaskInv(Answered(task[t], cursor, truncated))
<1> DEFINE x == task[t]
<1> PICK y : y = Answered(x, cursor, truncated)
  OBVIOUS
<1>1. /\ SearchInv(x) /\ Found(x) \in Seq(Objects)
  BY Searching
<1>2. /\ y \in [op : {"search"}, pc : {"list", "done"}, node : Nodes,
                kind : {Kind[o] : o \in Objects}, cursor : Nat, pages : Nat, page : Seq(Tagged),
                next : Nat, batch : Seq(Objects), all : Seq(Objects), truncated : BOOLEAN,
                present : SUBSET Objects]
      /\ y.pc = (IF cursor = 0 THEN "done" ELSE "list") /\ y.cursor = cursor
      /\ y.batch = <<>> /\ y.all = Found(x)
      /\ y.truncated = (x.truncated \/ truncated) /\ y.present = x.present /\ y.kind = x.kind
  <2> PICK e : e = <<>>
    OBVIOUS
  <2> PICK all \in Seq(Objects) : all = x.all \o x.batch
    BY <1>1 DEF Found
  <2> PICK more \in BOOLEAN : more = (x.truncated \/ truncated)
    OBVIOUS
  <2> PICK pc \in {"list", "done"} : pc = IF cursor = 0 THEN "done" ELSE "list"
    OBVIOUS
  <2>1. e \in Seq(Tagged) /\ e \in Seq(Objects)
    OBVIOUS
  <2> DEFINE u == [[[[x EXCEPT !.all = all] EXCEPT !.batch = e] EXCEPT !.pages = 0] EXCEPT !.page = e]
             w == [[[[u EXCEPT !.cursor = cursor] EXCEPT !.next = 0] EXCEPT !.truncated = more]
                   EXCEPT !.pc = pc]
             Shape == [op : {"search"}, pc : {"list", "scan", "done"}, node : Nodes,
                kind : {Kind[o] : o \in Objects}, cursor : Nat, pages : Nat, page : Seq(Tagged),
                next : Nat, batch : Seq(Objects), all : Seq(Objects), truncated : BOOLEAN,
                present : SUBSET Objects]
  <2>2. y = w
    BY DEF Answered
  <2>3. x \in Shape
    BY <1>1 DEF SearchInv
  <2> HIDE DEF x
  <2>4. /\ u \in Shape /\ u.batch = e /\ u.all = all /\ u.present = x.present /\ u.kind = x.kind
    BY <2>1, <2>3
  <2> HIDE DEF u
  <2>5. /\ w \in Shape /\ w.batch = e /\ w.all = all /\ w.present = x.present /\ w.kind = x.kind
        /\ w.pc = pc /\ w.cursor = cursor /\ w.truncated = more
    BY <2>4
  <2> HIDE DEF w
  <2>6. w \in [op : {"search"}, pc : {"list", "done"}, node : Nodes,
                kind : {Kind[o] : o \in Objects}, cursor : Nat, pages : Nat, page : Seq(Tagged),
                next : Nat, batch : Seq(Objects), all : Seq(Objects), truncated : BOOLEAN,
                present : SUBSET Objects]
    BY <2>5
  <2> QED
    BY <2>2, <2>5, <2>6 DEF Found
<1>3. Found(y) = Found(x)
  <2> PICK f : f = Found(x)
    OBVIOUS
  <2>1. f \in Seq(Objects) /\ f \o <<>> = f
    BY <1>1
  <2>2. Found(y) = f \o <<>>
    BY <1>2 DEF Found
  <2> QED
    BY <2>1, <2>2
<1>4. y \in [op : {"search"}, pc : {"list", "scan", "done"}, node : Nodes,
             kind : {Kind[o] : o \in Objects}, cursor : Nat, pages : Nat, page : Seq(Tagged),
             next : Nat, batch : Seq(Objects), all : Seq(Objects), truncated : BOOLEAN,
             present : SUBSET Objects]
  BY <1>2
<1>5. Asc(Found(y)) /\ \A o \in y.present : HasRecord(o) /\ Kind[o] = y.kind
  BY <1>1, <1>2, <1>3 DEF SearchInv
<1>6. y.pc = "list" =>
        /\ \A o \in Objects : In(Found(y), o) => o <= y.cursor
        /\ ~y.truncated => \A o \in y.present : In(Found(y), o) \/ y.cursor < o
  BY <1>2, <1>3
<1>7. y.pc = "done" /\ ~y.truncated => \A o \in y.present : In(y.all, o)
  BY <1>2
<1>8. y.pc # "scan"
  BY <1>2
<1> HIDE DEF x
<1>9. SearchInv(y)
  BY <1>2, <1>4, <1>5, <1>6, <1>7, <1>8 DEF SearchInv
<1> QED
  BY <1>9 DEF TaskInv, x

LEMMA SearchListStep ==
  ASSUME RegistryAssumption, RegistryInv, NEW t \in Tasks, SearchList(t)
  PROVE  RegistryInv'
<1> DEFINE x == task[t]
           got == ListTags(x.cursor)
<1>1. x.op = "search" /\ x.pc = "list"
      /\ UNCHANGED <<tags, held, faults, sidecar, contentStore, cache, ops>>
  BY DEF SearchList
<1>2. /\ SearchInv(x) /\ Found(x) \in Seq(Objects) /\ x.batch \in Seq(Objects)
      /\ x.all \in Seq(Objects) /\ x.cursor \in Nat
      /\ x.present \in SUBSET Objects
      /\ Objects \in SUBSET Nat /\ 0 \notin Objects /\ Objects \subseteq Tagged
      /\ Tagged \in SUBSET Nat
  BY <1>1, Searching
<1>3. ops' \in Nat /\ CacheOK' /\ task = [u \in Tasks |-> task[u]]
  BY <1>1, CacheStays DEF RegistryInv, RegistryTypeOK
<1>4. /\ Asc(Found(x))
      /\ \A o \in Objects : In(Found(x), o) => o <= x.cursor
      /\ ~x.truncated => \A o \in x.present : In(Found(x), o) \/ x.cursor < o
      /\ \A o \in x.present : o \in Listed
  BY <1>1, <1>2 DEF SearchInv, Listed
<1>5. /\ got.page \in Seq(Tagged) /\ Asc(got.page) /\ got.next \in Nat
      /\ \A o \in Tagged : In(got.page, o) => x.cursor < o /\ (got.next # 0 => o <= got.next)
      /\ got.next # 0 => x.cursor < got.next
      /\ \A o \in Listed : x.cursor < o => In(got.page, o) \/ (got.next # 0 /\ got.next < o)
      /\ (\E o \in Listed : x.cursor < o) => got.page # <<>>
  <2> PICK c \in Nat : c = x.cursor
    BY <1>2
  <2> HIDE DEF x
  <2>1. got = ListTags(c)
    OBVIOUS
  <2> HIDE DEF got
  <2> QED
    BY <2>1, Pages
<1> DEFINE y == [[[[x EXCEPT !.pc = "scan"] EXCEPT !.pages = x.pages + 1] EXCEPT !.page = got.page]
                 EXCEPT !.next = got.next]
<1>6. \/ Answer(t, LastOf(x.batch), TRUE)
      \/ got.page = <<>> /\ Answer(t, 0, FALSE)
      \/ task' = [task EXCEPT ![t].pc = "scan", ![t].pages = @ + 1,
                              ![t].page = got.page, ![t].next = got.next]
  BY DEF SearchList
<1>7. CASE Answer(t, LastOf(x.batch), TRUE)
  <2> PICK c : c = LastOf(x.batch)
    OBVIOUS
  <2>1. c \in Nat /\ (c # 0 => \A o \in Objects : In(Found(x), o) => o <= c)
    <3>1. CASE x.batch = <<>>
      BY <3>1 DEF LastOf
    <3>2. CASE x.batch # <<>>
      <4>1. c = Last(x.batch)
        BY <3>2 DEF LastOf
      <4>2. Asc(x.all \o x.batch)
        BY <1>4 DEF Found
      <4> HIDE DEF x
      <4>3. Last(x.batch) \in Objects /\ \A o \in Objects : In(x.all \o x.batch, o) => o <= Last(x.batch)
        BY <1>2, <3>2, <4>2, LastIsGreatest
      <4> QED
        BY <1>2, <4>1, <4>3 DEF Found
    <3> QED
      BY <3>1, <3>2
  <2>2. TaskInv(Answered(x, c, TRUE))
    BY <1>1, <2>1, AnsweredInv
  <2>3. task' = [task EXCEPT ![t] = Answered(x, c, TRUE)]
    BY <1>7, Answering
  <2> QED
    BY <1>1, <1>3, <2>2, <2>3, QuietStep
<1>8. CASE got.page = <<>> /\ Answer(t, 0, FALSE)
  <2>1. ~x.truncated => \A o \in x.present : In(Found(x), o)
    BY <1>4, <1>5, <1>8
  <2>2. TaskInv(Answered(x, 0, FALSE))
    BY <1>1, <2>1, AnsweredInv
  <2>3. task' = [task EXCEPT ![t] = Answered(x, 0, FALSE)]
    BY <1>8, Answering
  <2> QED
    BY <1>1, <1>3, <2>2, <2>3, QuietStep
<1>9. CASE task' = [task EXCEPT ![t].pc = "scan", ![t].pages = @ + 1,
                                ![t].page = got.page, ![t].next = got.next]
  <2> HIDE DEF got
  <2>1. task' = [task EXCEPT ![t] = y]
    BY <1>3, <1>9
  <2>2. y \in [op : {"search"}, pc : {"list", "scan", "done"}, node : Nodes,
               kind : {Kind[o] : o \in Objects}, cursor : Nat, pages : Nat, page : Seq(Tagged),
               next : Nat, batch : Seq(Objects), all : Seq(Objects), truncated : BOOLEAN,
               present : SUBSET Objects]
    <3>1. x.pages + 1 \in Nat
      BY <1>2 DEF SearchInv
    <3> PICK p \in Seq(Tagged) : p = got.page
      BY <1>5
    <3> PICK k \in Nat : k = got.next
      BY <1>5
    <3> PICK g \in Nat : g = x.pages + 1
      BY <3>1
    <3>2. y = [[[[x EXCEPT !.pc = "scan"] EXCEPT !.pages = g] EXCEPT !.page = p] EXCEPT !.next = k]
      OBVIOUS
    <3> HIDE DEF y, x
    <3> QED
      BY <1>2, <3>2 DEF SearchInv
  <2>3. /\ y.pc = "scan" /\ y.page = got.page /\ y.next = got.next /\ y.all = x.all
        /\ y.batch = x.batch /\ y.present = x.present /\ y.kind = x.kind /\ y.truncated = x.truncated
    BY <1>2 DEF SearchInv
  <2>4. Found(y) = Found(x)
    BY <2>3 DEF Found
  <2>5. \A o \in y.present : HasRecord(o) /\ Kind[o] = y.kind
    BY <1>2, <2>3 DEF SearchInv
  <2> HIDE DEF y
  <2> PICK f : f = Found(x)
    OBVIOUS
  <2> PICK p : p = got.page
    OBVIOUS
  <2> PICK k : k = got.next
    OBVIOUS
  <2>6. \A o \in Objects, q \in Tagged : In(f, o) /\ In(p, q) => o < q
    <3> SUFFICES ASSUME NEW o \in Objects, NEW q \in Tagged, In(f, o), In(p, q) PROVE o < q
      OBVIOUS
    <3>1. o <= x.cursor /\ x.cursor < q
      BY <1>4, <1>5
    <3>2. o \in Nat /\ q \in Nat /\ x.cursor \in Nat
      BY <1>2
    <3> QED
      BY <3>1, <3>2
  <2>7. k # 0 => \A o \in Objects : In(f, o) => o <= k
    <3> SUFFICES ASSUME k # 0, NEW o \in Objects, In(f, o) PROVE o <= k
      OBVIOUS
    <3>1. o <= x.cursor /\ x.cursor < k
      BY <1>4, <1>5
    <3>2. o \in Nat /\ k \in Nat /\ x.cursor \in Nat
      BY <1>2, <1>5
    <3> QED
      BY <3>1, <3>2
  <2>8. ~x.truncated => \A o \in x.present : In(f, o) \/ In(p, o) \/ (k # 0 /\ k < o)
    BY <1>4, <1>5
  <2>9. SearchInv(y)
    BY <1>4, <1>5, <2>2, <2>3, <2>4, <2>5, <2>6, <2>7, <2>8 DEF SearchInv
  <2>10. TaskInv(y)
    BY <2>9 DEF TaskInv
  <2> QED
    BY <1>1, <1>3, <2>1, <2>10, QuietStep
<1> QED
  BY <1>6, <1>7, <1>8, <1>9

\* What the page and the matches say of a tag that is looked at.
LEMMA SearchTagStep ==
  ASSUME RegistryAssumption, RegistryInv, NEW t \in Tasks, SearchTag(t)
  PROVE  RegistryInv'
<1> DEFINE x == task[t]
           tag == Head(x.page)
           match == Matches(t, tag)
<1>1. x.op = "search" /\ x.pc = "scan" /\ x.page # <<>>
      /\ UNCHANGED <<tags, held, faults, sidecar, contentStore, ops>>
  BY DEF SearchTag
<1>2. /\ SearchInv(x) /\ Found(x) \in Seq(Objects) /\ x.batch \in Seq(Objects)
      /\ x.all \in Seq(Objects) /\ x.next \in Nat /\ x.page \in Seq(Tagged)
      /\ x.present \in SUBSET Objects
      /\ Objects \in SUBSET Nat /\ 0 \notin Objects /\ Objects \subseteq Tagged
      /\ Tagged \in SUBSET Nat
  BY <1>1, Searching
<1>3. ops' \in Nat /\ task = [u \in Tasks |-> task[u]] /\ x.node \in Nodes /\ Limit \in Nat \ {0}
      /\ sidecar \in [Objects -> Records \cup {None}]
  BY <1>1, <1>2 DEF RegistryInv, RegistryTypeOK, SearchInv, RegistryAssumption
<1>4. CacheOK'
  <2>1. CASE tag \in Objects /\ ~Cached(x.node, tag)
    <3>1. Remember(x.node, tag, GetManifest(tag))
      BY <2>1 DEF SearchTag
    <3>2. GetManifest(tag) \in Records \cup {None}
      BY <1>3, <2>1 DEF GetManifest
    <3> HIDE DEF x, tag
    <3> QED
      BY <1>3, <3>1, <3>2, Remembers
  <2>2. CASE ~(tag \in Objects /\ ~Cached(x.node, tag))
    BY <2>2, CacheStays DEF SearchTag
  <2> QED
    BY <2>1, <2>2
<1>5. /\ Asc(Found(x)) /\ Asc(x.page)
      /\ \A o \in Objects, p \in Tagged : In(Found(x), o) /\ In(x.page, p) => o < p
      /\ x.next # 0 => /\ \A o \in Objects : In(Found(x), o) => o <= x.next
                       /\ \A p \in Tagged : In(x.page, p) => p <= x.next
      /\ ~x.truncated => \A o \in x.present :
            In(Found(x), o) \/ In(x.page, o) \/ (x.next # 0 /\ x.next < o)
  BY <1>1, <1>2 DEF SearchInv
<1>6. /\ tag \in Tagged /\ In(x.page, tag) /\ Tail(x.page) \in Seq(Tagged)
      /\ \A o : In(x.page, o) <=> o = tag \/ In(Tail(x.page), o)
      /\ Asc(Tail(x.page)) /\ \A o \in Tagged : In(Tail(x.page), o) => tag < o
  <2> HIDE DEF x
  <2> QED
    BY <1>1, <1>2, <1>5, TailIn
<1>7. \/ match /\ Len(x.batch) = Limit /\ Answer(t, Last(x.batch), FALSE)
      \/ task' = [task EXCEPT ![t].page = Tail(@),
                              ![t].batch = IF match THEN Append(@, tag) ELSE @]
  BY DEF SearchTag, FullCursor
<1>8. CASE match /\ Len(x.batch) = Limit /\ Answer(t, Last(x.batch), FALSE)
  <2> PICK c : c = Last(x.batch)
    OBVIOUS
  <2>1. x.batch # <<>>
    <3> PICK b \in Seq(Objects) : b = x.batch
      BY <1>2
    <3>1. Len(b) # 0
      BY <1>3, <1>8
    <3>2. b # <<>>
      BY <3>1
    <3> QED
      BY <3>2
  <2>2. Asc(x.all \o x.batch)
    BY <1>5 DEF Found
  <2>3. c \in Objects /\ In(x.batch, c) /\ \A o \in Objects : In(x.all \o x.batch, o) => o <= c
    <3> HIDE DEF x
    <3> QED
      BY <1>2, <2>1, <2>2, LastIsGreatest
  <2>4. In(Found(x), c) /\ c \in Nat /\ c # 0 /\ \A o \in Objects : In(Found(x), o) => o <= c
    <3> HIDE DEF x
    <3>1. In(x.all \o x.batch, c)
      BY <1>2, <2>3, InParts
    <3> QED
      BY <1>2, <2>3, <3>1 DEF Found
  <2>5. ~x.truncated => \A o \in x.present : In(Found(x), o) \/ c < o
    <3> SUFFICES ASSUME ~x.truncated, NEW o \in x.present, ~In(Found(x), o) PROVE c < o
      OBVIOUS
    <3>1. o \in Objects /\ o \in Tagged
      BY <1>2
    <3>2. CASE In(x.page, o)
      BY <1>5, <2>3, <2>4, <3>1, <3>2
    <3>3. CASE x.next # 0 /\ x.next < o
      <4>1. c <= x.next
        BY <1>5, <2>3, <2>4, <3>3
      <4>2. o \in Nat /\ x.next \in Nat
        BY <1>2, <3>1
      <4> QED
        BY <2>4, <3>3, <4>1, <4>2
    <3> QED
      BY <1>5, <3>2, <3>3
  <2>6. TaskInv(Answered(x, c, FALSE))
    <3>1. ~x.truncated => \A o \in x.present : In(Found(x), o) \/ (c # 0 /\ c < o)
      BY <2>4, <2>5
    <3> QED
      BY <1>1, <2>4, <3>1, AnsweredInv
  <2>7. task' = [task EXCEPT ![t] = Answered(x, c, FALSE)]
    BY <1>8, Answering
  <2> QED
    BY <1>1, <1>3, <1>4, <2>6, <2>7, QuietStep
<1>9. CASE task' = [task EXCEPT ![t].page = Tail(@),
                                ![t].batch = IF match THEN Append(@, tag) ELSE @]
  <2> PICK p \in Seq(Tagged) : p = Tail(x.page)
    BY <1>6
  <2> DEFINE b == IF match THEN Append(x.batch, tag) ELSE x.batch
             y == [[x EXCEPT !.page = p] EXCEPT !.batch = b]
  <2>1. task' = [task EXCEPT ![t] = y]
    BY <1>3, <1>9
  <2>2. match => tag \in Objects /\ Kind[tag] = x.kind
    BY DEF Matches
  <2>3. /\ Found(x) \o <<>> = Found(x) /\ b \in Seq(Objects)
        /\ x.all \o b = IF match THEN Append(Found(x), tag) ELSE Found(x)
    <3>1. CASE match
      <4> PICK e \in Objects : e = tag
        BY <2>2, <3>1
      <4> PICK q \in Seq(Objects), r \in Seq(Objects) : q = x.all /\ r = x.batch
        BY <1>2
      <4>1. q \o Append(r, e) = Append(q \o r, e) /\ Append(r, e) \in Seq(Objects)
        BY ONLY q \in Seq(Objects), r \in Seq(Objects), e \in Objects, AppendLater
      <4>2. (q \o r) \o <<>> = q \o r
        OBVIOUS
      <4> QED
        BY <3>1, <4>1, <4>2 DEF Found
    <3>2. CASE ~match
      <4> PICK q \in Seq(Objects), r \in Seq(Objects) : q = x.all /\ r = x.batch
        BY <1>2
      <4>1. (q \o r) \o <<>> = q \o r
        OBVIOUS
      <4> QED
        BY <3>2, <4>1 DEF Found
    <3> QED
      BY <3>1, <3>2
  <2> HIDE DEF x, tag, match, b
  <2>4. y \in [op : {"search"}, pc : {"list", "scan", "done"}, node : Nodes,
               kind : {Kind[o] : o \in Objects}, cursor : Nat, pages : Nat, page : Seq(Tagged),
               next : Nat, batch : Seq(Objects), all : Seq(Objects), truncated : BOOLEAN,
               present : SUBSET Objects]
    BY <1>2, <2>3 DEF SearchInv
  <2>5. /\ y.pc = "scan" /\ y.page = p /\ y.next = x.next /\ y.all = x.all
        /\ y.batch = b /\ y.present = x.present /\ y.kind = x.kind /\ y.truncated = x.truncated
    BY <1>1, <1>2 DEF SearchInv
  <2> HIDE DEF y
  <2> PICK f \in Seq(Objects) : f = Found(x)
    BY <1>2
  <2>6. Found(y) = IF match THEN Append(f, tag) ELSE f
    BY <2>3, <2>5 DEF Found
  <2> PICK g : g = Found(y)
    OBVIOUS
  <2>7. \A o \in y.present : HasRecord(o) /\ Kind[o] = y.kind
    BY <1>2, <2>5 DEF SearchInv
  <2>8. \A o \in Objects : In(f, o) => o < tag
    BY <1>5, <1>6
  <2>9. /\ g \in Seq(Objects) /\ Asc(g)
        /\ \A o : In(g, o) <=> In(f, o) \/ (match /\ o = tag)
    <3>1. CASE match
      <4>1. tag \in Objects /\ g = Append(f, tag)
        BY <2>2, <2>6, <3>1
      <4>2. Asc(f)
        BY <1>5
      <4> PICK e \in Objects : e = tag
        BY <4>1
      <4>3. \A o \in Objects : In(f, o) => o < e
        BY <2>8
      <4>4. Objects \in SUBSET Nat
        BY <1>2
      <4>5. /\ Append(f, e) \in Seq(Objects) /\ Asc(Append(f, e))
            /\ \A o : In(Append(f, e), o) <=> In(f, o) \/ o = e
        BY ONLY <4>2, <4>3, <4>4, f \in Seq(Objects), e \in Objects, AppendsIn
      <4> QED
        BY <3>1, <4>1, <4>5
    <3>2. CASE ~match
      BY <1>5, <2>6, <3>2
    <3> QED
      BY <3>1, <3>2
  <2>10. ASSUME NEW o \in Objects, In(g, o)
         PROVE  /\ \A q \in Tagged : In(p, q) => o < q
                /\ x.next # 0 => o <= x.next
    <3>1. CASE In(f, o)
      BY <1>5, <1>6, <3>1
    <3>2. CASE match /\ o = tag
      BY <1>5, <1>6, <3>2
    <3> QED
      BY <2>9, <2>10, <3>1, <3>2
  <2>11. /\ Asc(p)
         /\ x.next # 0 => \A q \in Tagged : In(p, q) => q <= x.next
    BY <1>5, <1>6
  <2>12. ~x.truncated => \A o \in x.present : In(g, o) \/ In(p, o) \/ (x.next # 0 /\ x.next < o)
    <3> SUFFICES ASSUME ~x.truncated, NEW o \in x.present
                 PROVE  In(g, o) \/ In(p, o) \/ (x.next # 0 /\ x.next < o)
      OBVIOUS
    <3>1. In(f, o) \/ In(x.page, o) \/ (x.next # 0 /\ x.next < o)
      BY <1>5
    <3>2. CASE In(f, o)
      BY <2>9, <3>2
    <3>3. CASE In(x.page, o)
      <4>1. CASE o = tag
        <5>1. match
          BY <1>2, <4>1 DEF Matches, SearchInv, match, x
        <5> QED
          BY <2>9, <4>1, <5>1
      <4>2. CASE o # tag
        BY <1>6, <3>3, <4>2
      <4> QED
        BY <4>1, <4>2
    <3> QED
      BY <3>1, <3>2, <3>3
  <2>13. SearchInv(y)
    BY <2>4, <2>5, <2>7, <2>9, <2>10, <2>11, <2>12 DEF SearchInv
  <2>14. TaskInv(y)
    BY <2>13 DEF TaskInv
  <2> QED
    BY <1>1, <1>3, <1>4, <2>1, <2>14, QuietStep
<1> QED
  BY <1>7, <1>8, <1>9

LEMMA SearchNextStep ==
  ASSUME RegistryAssumption, RegistryInv, NEW t \in Tasks, SearchNext(t)
  PROVE  RegistryInv'
<1> DEFINE x == task[t]
<1>1. x.op = "search" /\ x.pc = "scan" /\ x.page = <<>>
      /\ UNCHANGED <<tags, held, faults, sidecar, contentStore, cache, ops>>
  BY DEF SearchNext
<1>2. /\ SearchInv(x) /\ Found(x) \in Seq(Objects) /\ x.next \in Nat
      /\ x.present \in SUBSET Objects
  BY <1>1, Searching
<1>3. ops' \in Nat /\ CacheOK' /\ task = [u \in Tasks |-> task[u]]
  BY <1>1, CacheStays DEF RegistryInv, RegistryTypeOK
<1>4. \A o : ~In(x.page, o)
  <2> PICK p : p = x.page
    OBVIOUS
  <2>1. p = <<>>
    BY <1>1
  <2>2. \A o : ~In(p, o)
    BY <2>1, NothingIn
  <2> QED
    BY <2>2
<1>5. /\ Asc(Found(x))
      /\ x.next # 0 => \A o \in Objects : In(Found(x), o) => o <= x.next
      /\ ~x.truncated => \A o \in x.present : In(Found(x), o) \/ (x.next # 0 /\ x.next < o)
  BY <1>1, <1>2, <1>4 DEF SearchInv
<1>6. CASE x.next = 0 /\ Answer(t, 0, FALSE)
  <2>1. ~x.truncated => \A o \in x.present : In(Found(x), o)
    BY <1>5, <1>6
  <2>2. TaskInv(Answered(x, 0, FALSE))
    BY <1>1, <2>1, AnsweredInv
  <2>3. task' = [task EXCEPT ![t] = Answered(x, 0, FALSE)]
    BY <1>6, Answering
  <2> QED
    BY <1>1, <1>3, <2>2, <2>3, QuietStep
<1>7. CASE x.next # 0 /\ task' = [task EXCEPT ![t].pc = "list", ![t].cursor = x.next]
  <2> DEFINE y == [[x EXCEPT !.pc = "list"] EXCEPT !.cursor = x.next]
  <2>1. task' = [task EXCEPT ![t] = y]
    BY <1>3, <1>7
  <2> HIDE DEF x
  <2>2. y \in [op : {"search"}, pc : {"list", "scan", "done"}, node : Nodes,
               kind : {Kind[o] : o \in Objects}, cursor : Nat, pages : Nat, page : Seq(Tagged),
               next : Nat, batch : Seq(Objects), all : Seq(Objects), truncated : BOOLEAN,
               present : SUBSET Objects]
    BY <1>2 DEF SearchInv
  <2>3. /\ y.pc = "list" /\ y.cursor = x.next /\ y.all = x.all
        /\ y.batch = x.batch /\ y.present = x.present /\ y.kind = x.kind /\ y.truncated = x.truncated
    BY <1>2 DEF SearchInv
  <2> HIDE DEF y
  <2>4. Found(y) = Found(x)
    BY <2>3 DEF Found
  <2>5. \A o \in y.present : HasRecord(o) /\ Kind[o] = y.kind
    BY <1>2, <2>3 DEF SearchInv
  <2>6. SearchInv(y)
    BY <1>5, <1>7, <2>2, <2>3, <2>4, <2>5 DEF SearchInv
  <2>7. TaskInv(y)
    BY <2>6 DEF TaskInv
  <2> QED
    BY <1>1, <1>3, <2>1, <2>7, QuietStep
<1> QED
  BY <1>6, <1>7 DEF SearchNext

----------------------------------------------------------------------------
(* Reassembly.                                                              *)

LEMMA AssembleChunkStep ==
  ASSUME RegistryAssumption, RegistryInv, NEW t \in Tasks, AssembleChunk(t)
  PROVE  RegistryInv'
<1> DEFINE x == task[t]
<1>1. x.op = "assemble" /\ x.pc = "chunks"
      /\ UNCHANGED <<tags, held, faults, sidecar, contentStore, cache, ops>>
  BY Zenon DEF AssembleChunk
<1>2. AssembleInv(x)
  BY <1>1, ByOperation
<1>3. ops' \in Nat /\ CacheOK' /\ task = [u \in Tasks |-> task[u]]
  BY <1>1, CacheStays DEF RegistryInv, RegistryTypeOK
<1>4. PICK bytes : \/ task' = [task EXCEPT ![t].at = @ + 1, ![t].sink = @ \o bytes]
                   \/ task' = [task EXCEPT ![t] = Ended(t, "failed")]
  BY Zenon DEF AssembleChunk, Goto
<1>5. CASE task' = [task EXCEPT ![t].at = @ + 1, ![t].sink = @ \o bytes]
  <2> PICK a : a = x.at + 1
    OBVIOUS
  <2> PICK s : s = x.sink \o bytes
    OBVIOUS
  <2> DEFINE y == [[x EXCEPT !.at = a] EXCEPT !.sink = s]
  <2>1. task' = [task EXCEPT ![t] = y]
    BY <1>3, <1>5
  <2> HIDE DEF x
  <2>2. y \in [op : {"assemble"}, pc : {"chunks"}, file : {x.file}, at : {a}, sink : {s}]
    <3>1. x \in [op : {"assemble"}, pc : {"chunks"}, file : {x.file}, at : {x.at}, sink : {x.sink}]
      BY <1>1, <1>2 DEF AssembleInv
    <3> QED
      BY <3>1
  <2> HIDE DEF y
  <2>3. AssembleInv(y)
    BY <2>2 DEF AssembleInv
  <2>4. TaskInv(y)
    BY <2>3 DEF TaskInv
  <2> QED
    BY <1>1, <1>3, <2>1, <2>4, QuietStep
<1>6. CASE task' = [task EXCEPT ![t] = Ended(t, "failed")]
  <2>1. TaskInv(Ended(t, "failed"))
    BY Going, Ends DEF EndedInv
  <2> QED
    BY <1>1, <1>3, <1>6, <2>1, QuietStep
<1> QED
  BY <1>4, <1>5, <1>6

LEMMA AssembleEndStep ==
  ASSUME RegistryAssumption, RegistryInv, NEW t \in Tasks, AssembleEnd(t)
  PROVE  RegistryInv'
<1> DEFINE x == task[t]
           pc == IF WholeVerifies(x.file, x.sink) THEN "done" ELSE "failed"
<1>1. x.op = "assemble" /\ x.pc = "chunks" /\ task' = [task EXCEPT ![t] = Ended(t, pc)]
      /\ UNCHANGED <<tags, held, faults, sidecar, contentStore, cache, ops>>
  BY DEF AssembleEnd, Goto
<1>2. AssembleInv(x)
  BY <1>1, ByOperation
<1>3. ops' \in Nat /\ CacheOK'
  BY <1>1, CacheStays DEF RegistryInv, RegistryTypeOK
<1>4. TaskInv(Ended(t, pc))
  <2>1. CASE pc = "failed"
    <3>1. Ended(t, "failed") = [op |-> "none", pc |-> "failed"]
      BY Going
    <3>2. Ended(t, pc) = [op |-> "none", pc |-> "failed"]
      BY <2>1, <3>1
    <3> QED
      BY <3>2, Ends DEF EndedInv
  <2>2. CASE pc = "done"
    <3>1. Ended(t, pc) = [x EXCEPT !.pc = "done"]
      BY <1>1, <2>2 DEF Ended
    <3>2. KappaOf(x.sink) = x.file.blake3
      BY <2>2 DEF WholeVerifies
    <3> DEFINE y == [x EXCEPT !.pc = "done"]
    <3> HIDE DEF x, pc
    <3>3. y \in [op : {"assemble"}, pc : {"done"}, file : {x.file}, at : {x.at}, sink : {x.sink}]
      <4>1. x \in [op : {"assemble"}, pc : {"chunks"}, file : {x.file}, at : {x.at}, sink : {x.sink}]
        BY <1>1, <1>2 DEF AssembleInv
      <4> QED
        BY <4>1
    <3> HIDE DEF y
    <3>4. AssembleInv(y)
      BY <3>2, <3>3 DEF AssembleInv
    <3> QED
      BY <3>1, <3>4 DEF TaskInv, y
  <2> QED
    BY <2>1, <2>2
<1> HIDE DEF pc
<1> QED
  BY <1>1, <1>3, <1>4, QuietStep

----------------------------------------------------------------------------
(* The server, and time.                                                    *)

\* A step of no request.
LEMMA NoneMoves ==
  ASSUME RegistryAssumption, RegistryInv, Grows, UNCHANGED task,
         (RegistryTypeOK /\ PushedTagsResolve)'
  PROVE  RegistryInv'
<1>1. \A x : TaskInv(x) => TaskInv(x)'
  BY Stays
<1>2. \A t \in Tasks : TaskInv(task[t]) /\ task'[t] = task[t]
  BY DEF RegistryInv
<1>3. \A t \in Tasks : TaskInv(task[t])'
  BY <1>1, <1>2
<1> QED
  BY <1>3 DEF RegistryInv

LEMMA ForeignPublishStep ==
  ASSUME RegistryAssumption, RegistryInv, NEW tag \in TagNames, NEW m \in Published,
         ForeignPublish(tag, m)
  PROVE  RegistryInv'
<1>1. /\ faults' = faults \cup {<<tag[1], 0>>} /\ tags' = [tags EXCEPT ![tag] = m]
      /\ UNCHANGED <<held, sidecar, contentStore, cache, ops, task>>
  BY DEF ForeignPublish
<1>2. held' = held /\ sidecar' = sidecar /\ contentStore' = contentStore /\ task' = task
  BY <1>1
<1>3. Grows
  BY <1>1, <1>2 DEF Grows, Placed, HasRecord
<1>4. m.by = "other" /\ m \in Manifests
  BY DEF RegistryAssumption, Manifests
<1>5. tags \in [TagNames -> Manifests \cup {None}]
  BY DEF RegistryInv, RegistryTypeOK
<1>6. RegistryTypeOK'
  BY <1>1, <1>2, <1>4, <1>5, CacheStays DEF RegistryInv, RegistryTypeOK
<1>7. PushedTagsResolve'
  <2> SUFFICES ASSUME NEW g \in TagNames, tags'[g] # None, tags'[g].by = "push",
                      NEW i \in DOMAIN tags'[g].layers
               PROVE  held'[<<g[1], tags'[g].layers[i].blob>>] = "good"
                      \/ <<g[1], tags'[g].layers[i].blob>> \in faults'
    BY DEF PushedTagsResolve
  <2>1. g # tag
    BY <1>1, <1>4, <1>5
  <2>2. tags'[g] = tags[g]
    BY <1>1, <1>5, <2>1
  <2>3. held[<<g[1], tags[g].layers[i].blob>>] = "good" \/ <<g[1], tags[g].layers[i].blob>> \in faults
    BY <2>2 DEF RegistryInv, PushedTagsResolve
  <2> QED
    BY <1>1, <1>2, <2>2, <2>3
<1> QED
  BY <1>2, <1>3, <1>6, <1>7, NoneMoves

LEMMA ServerFaultStep ==
  ASSUME RegistryAssumption, RegistryInv, NEW place \in Places, NEW state \in {"absent", "bad"},
         ServerFault(place, state)
  PROVE  RegistryInv'
<1>1. /\ held' = [held EXCEPT ![place] = state] /\ faults' = faults \cup {place}
      /\ UNCHANGED <<tags, sidecar, contentStore, cache, ops, task>>
  BY DEF ServerFault
<1>2. tags' = tags /\ sidecar' = sidecar /\ contentStore' = contentStore /\ task' = task
      /\ held \in [Places -> States]
  BY <1>1 DEF RegistryInv, RegistryTypeOK
<1>3. \A p \in Places : Placed(p) => Placed(p)'
  BY <1>1, <1>2 DEF Placed
<1>4. Grows
  BY <1>2, <1>3 DEF Grows, HasRecord
<1>5. RegistryTypeOK'
  BY <1>1, <1>2, CacheStays DEF RegistryInv, RegistryTypeOK, States
<1>6. PushedTagsResolve'
  BY <1>2, <1>4, ResolveStays DEF RegistryInv
<1> QED
  BY <1>2, <1>4, <1>5, <1>6, NoneMoves

LEMMA ExpireStep ==
  ASSUME RegistryAssumption, RegistryInv, NEW n \in Nodes, NEW o \in Objects, Expire(n, o)
  PROVE  RegistryInv'
<1> DEFINE less == [p \in DOMAIN cache[n] \ {o} |-> cache[n][p]]
<1>1. CacheOK /\ cache' = [cache EXCEPT ![n] = less]
      /\ UNCHANGED <<tags, held, faults, sidecar, contentStore, ops, task>>
  BY DEF Expire, RegistryInv, RegistryTypeOK, CacheOK
<1>2. \A p \in DOMAIN less : less[p] \in Records \cup {None}
  BY <1>1 DEF CacheOK
<1> HIDE DEF less
<1>3. CacheOK'
  BY <1>1, <1>2 DEF CacheOK
<1>4. /\ tags' = tags /\ held' = held /\ faults' = faults /\ sidecar' = sidecar
      /\ contentStore' = contentStore /\ task' = task
  BY <1>1
<1>5. Grows
  BY <1>4 DEF Grows, Placed, HasRecord
<1>6. RegistryTypeOK'
  BY <1>1, <1>3, <1>4 DEF RegistryInv, RegistryTypeOK
<1>7. PushedTagsResolve'
  BY <1>4, <1>5, ResolveStays DEF RegistryInv
<1> QED
  BY <1>4, <1>5, <1>6, <1>7, NoneMoves

----------------------------------------------------------------------------
LEMMA RegistryStarts ==
  ASSUME RegistryAssumption, RegistryInit
  PROVE  RegistryInv
<1>1. RegistryTypeOK
  BY DEF RegistryInit, RegistryTypeOK, CacheOK, Records, States
<1>2. PushedTagsResolve
  BY DEF RegistryInit, PushedTagsResolve
<1>3. \A t \in Tasks : TaskInv(task[t])
  BY Ends DEF RegistryInit, EndedInv
<1> QED
  BY <1>1, <1>2, <1>3 DEF RegistryInv

LEMMA RegistryMoves ==
  ASSUME RegistryAssumption, RegistryInv, RegistryNext
  PROVE  RegistryInv'
<1>1. ASSUME NEW t \in Tasks, Request(t) PROVE RegistryInv'
  BY <1>1, RequestStep
<1>2. ASSUME NEW t \in Tasks, Step(t) PROVE RegistryInv'
  BY <1>2, PushCheckStep, PushArchiveStep, PushPayloadStep, PushManifestStep, PullResolveStep,
     PullLayerStep, PullReportStep, LookupStep, PutLookedStep, PutLookupFailsStep,
     PutObjectBlobStep, RenameLookedStep, PutSidecarStep, PutRememberStep, GetLookedStep,
     GetObjectBlobStep, SearchListStep, SearchTagStep, SearchNextStep, AssembleChunkStep,
     AssembleEndStep, FailsStep DEF Step
<1>3. ASSUME NEW tag \in TagNames, NEW m \in Published, ForeignPublish(tag, m) PROVE RegistryInv'
  BY <1>3, ForeignPublishStep
<1>4. ASSUME NEW place \in Places, NEW state \in {"absent", "bad"}, ServerFault(place, state)
      PROVE  RegistryInv'
  BY <1>4, ServerFaultStep
<1>5. ASSUME NEW n \in Nodes, NEW o \in Objects, Expire(n, o) PROVE RegistryInv'
  BY <1>5, ExpireStep
<1> QED
  BY <1>1, <1>2, <1>3, <1>4, <1>5 DEF RegistryNext

\* Nothing else writes the registry's state.
LEMMA RegistryRests ==
  ASSUME RegistryAssumption, RegistryInv, UNCHANGED registryVars
  PROVE  RegistryInv'
<1>1. /\ tags' = tags /\ held' = held /\ faults' = faults /\ sidecar' = sidecar
      /\ contentStore' = contentStore /\ cache' = cache /\ ops' = ops /\ task' = task
  BY DEF registryVars
<1>2. Grows
  BY <1>1 DEF Grows, Placed, HasRecord
<1>3. RegistryTypeOK'
  BY <1>1, CacheStays DEF RegistryInv, RegistryTypeOK
<1>4. PushedTagsResolve'
  BY <1>1, <1>2, ResolveStays DEF RegistryInv
<1> QED
  BY <1>1, <1>2, <1>3, <1>4, NoneMoves

\* Every request, at whatever point it is and whatever the server did to it, keeps
\* the invariant.
THEOREM Registry == Spec => []RegistryInv
<1>1. Init => RegistryInv
  BY RegistryStarts, RegistryAssumption DEF Init
<1>2. RegistryInv /\ [Next]_vars => RegistryInv'
  <2> SUFFICES ASSUME RegistryInv, [Next]_vars PROVE RegistryInv'
    OBVIOUS
  <2>1. CASE RegistryNext
    BY <2>1, RegistryMoves, RegistryAssumption
  <2>2. CASE UNCHANGED registryVars
    BY <2>2, RegistryRests, RegistryAssumption
  <2> QED
    BY <2>1, <2>2 DEF Next, vars
<1> QED
  BY <1>1, <1>2, PTL DEF Spec

\* A tag that push wrote names only blobs the server was given (the order of the
\* writes in push_archive).
THEOREM Resolves == Spec => []PushedTagsResolve
<1>1. RegistryInv => PushedTagsResolve
  BY DEF RegistryInv
<1> QED
  BY <1>1, Registry, PTL

\* A pull that reports success has every layer of the manifest it reports.
THEOREM Complete == Spec => []PulledIsComplete
<1>1. RegistryInv => PulledIsComplete
  <2> SUFFICES ASSUME RegistryInv, NEW t \in Tasks, task[t].op = "pull", task[t].pc = "done",
                      NEW i \in DOMAIN task[t].manifest.layers
               PROVE  contentStore[task[t].node][task[t].manifest.layers[i].blob] # "absent"
    BY DEF PulledIsComplete
  <2>1. PullInv(task[t])
    BY ByOperation
  <2> QED
    BY <2>1 DEF PullInv
<1> QED
  BY <1>1, Registry, PTL

\* No damaged bytes are stored or served, and a reassembled file has its address.
THEOREM Verified == Spec => []ContentIsVerified
<1>1. RegistryInv => ContentIsVerified
  <2> SUFFICES ASSUME RegistryInv PROVE ContentIsVerified
    OBVIOUS
  <2>1. \A n \in Nodes, b \in Blobs : contentStore[n][b] # "bad"
    BY DEF RegistryInv, RegistryTypeOK
  <2>2. ASSUME NEW t \in Tasks, task[t].op = "get", task[t].pc = "done" PROVE task[t].name = "good"
    <3>1. ObjectInv(task[t])
      BY <2>2, ByOperation
    <3> QED
      BY <2>2, <3>1 DEF ObjectInv
  <2>3. ASSUME NEW t \in Tasks, task[t].op = "assemble", task[t].pc = "done"
        PROVE  KappaOf(task[t].sink) = task[t].file.blake3
    <3>1. AssembleInv(task[t])
      BY <2>3, ByOperation
    <3> QED
      BY <2>3, <3>1 DEF AssembleInv
  <2> QED
    BY <2>1, <2>2, <2>3 DEF ContentIsVerified
<1> QED
  BY <1>1, Registry, PTL

\* A search that was followed to its end and never cut short found every match that
\* was there when it began, each once and in order.
THEOREM Searched == Spec => []SearchIsComplete
<1>1. RegistryInv => SearchIsComplete
  <2> SUFFICES ASSUME RegistryInv, NEW t \in Tasks, task[t].op = "search", task[t].pc = "done"
               PROVE  /\ ~task[t].truncated => task[t].present \subseteq ToSet(task[t].all)
                      /\ \A i, j \in DOMAIN task[t].all : i < j => task[t].all[i] < task[t].all[j]
    BY DEF SearchIsComplete
  <2>1. SearchInv(task[t])
    BY ByOperation
  <2>2. ~task[t].truncated => \A o \in task[t].present : In(task[t].all, o)
    BY <2>1 DEF SearchInv
  <2>3. Found(task[t]) = task[t].all
    <3> PICK q \in Seq(Objects) : q = task[t].all
      BY <2>1 DEF SearchInv
    <3>1. q \o <<>> = q
      OBVIOUS
    <3>2. task[t].batch = <<>>
      BY <2>1 DEF SearchInv
    <3> QED
      BY <3>1, <3>2 DEF Found
  <2>4. Asc(task[t].all)
    BY <2>1, <2>3 DEF SearchInv
  <2> QED
    BY <2>2, <2>4 DEF ToSet, In, Asc
<1> QED
  BY <1>1, Registry, PTL


----------------------------------------------------------------------------
(* Generated manifests.                                                     *)

\* A command that is refused for its flags asks for something its layer kind does
\* not allow, but for the one contract without a default entry.
ForCause(f) == Asks(f) => f.contract = "store-graph-read@1" /\ "entry" \notin f.given

FlagLayer(f) == IF f.python THEN PythonLayer(f) ELSE LayerFromArgs(f)

\* What an asking generator knows of its flags, and what another makes of them.
Unflagged(f) == ~f.yes /\ f.kind = "none" /\ ~f.python
Flagged(f) == IF f.python THEN PythonAccepts(f) ELSE NamesLayer(f)

GeneratorIs(i) ==
    /\ i.phase \in {"idle", "prompting", "layered", "staged", "renaming"}
    /\ i.phase \in {"prompting", "layered"} =>
          /\ DOMAIN i = {"phase", "flags", "layers", "asked"}
          /\ i.flags \in Flags /\ i.asked \in BOOLEAN
          /\ i.asked => Unflagged(i.flags)
          /\ ~i.asked => Flagged(i.flags) /\ i.layers = <<FlagLayer(i.flags)>>
    /\ i.phase = "prompting" => i.asked
    /\ i.phase \in {"staged", "renaming"} =>
          /\ DOMAIN i = {"phase", "spec", "flags"}
          /\ ValidManifest(i.spec)

GeneratorInv ==
    /\ text # NoText => ValidManifest(text)
    /\ refused # IdleInit => ForCause(refused.flags)
    /\ DOMAIN init = Generators
    /\ \A g \in Generators : GeneratorIs(init[g])

\* The defaults that fill in a flag layer never make it invalid: the layer of flags
\* that ask for what its kind allows is one the compiler builds.
LEMMA DefaultsBuild ==
  ASSUME NEW f, Asks(f), ~(f.contract = "store-graph-read@1" /\ "entry" \notin f.given)
  PROVE  ValidLayerSource(FlagLayer(f)) /\ BuildsLayer(FlagLayer(f))
<1>1. CASE f.python /\ f.profile = "wasi-component"
  BY <1>1 DEF FlagLayer, PythonLayer, SourceLayer, ValidLayerSource, BuildsLayer, LayerRule,
              KnownContract, ComponentContracts
<1>2. CASE f.python /\ f.profile # "wasi-component"
  BY <1>2 DEF FlagLayer, PythonLayer, SourceLayer, ValidLayerSource, BuildsLayer, LayerRule
<1>3. CASE ~f.python
  <2> DEFINE l == LayerFromArgs(f)
             kind == IF f.kind = "none" THEN "wasm" ELSE f.kind
  <2>1. FlagLayer(f) = l /\ l.from = "path" /\ l.kind = kind /\ l.surface = f.surface
        /\ l.given = f.given \cup Defaulted(kind)
    BY <1>3 DEF FlagLayer, LayerFromArgs, SourceLayer, Defaulted
  <2>2. /\ LayerRule[kind].needs \subseteq f.given \cup Defaulted(kind)
        /\ LayerRule[kind].rejects \cap f.given = {}
        /\ "contract" \in f.given => KnownContract(f.contract)
        /\ "entry" \in f.given /\ f.contract \in ComponentContracts => f.entry = "run"
        /\ kind = "view" => f.surface = "portable"
    BY <1>3 DEF Asks
  <2>3. LayerRule[l.kind].needs \subseteq l.given
    BY <2>1, <2>2
  <2>4. LayerRule[l.kind].rejects \cap l.given = {}
    <3>1. kind = "wasm" => LayerRule[kind].rejects \cap Defaulted(kind) = {}
      BY DEF LayerRule, Defaulted
    <3>2. kind # "wasm" => Defaulted(kind) = {}
      BY DEF Defaulted
    <3> QED
      BY <2>1, <2>2, <3>1, <3>2
  <2>5. ASSUME kind = "wasm"
        PROVE  KnownContract(l.contract) /\ (l.contract \in ComponentContracts => l.entry = "run")
    <3>1. l.contract = IF "contract" \in f.given THEN f.contract ELSE CoreContract
      BY <2>5 DEF LayerFromArgs, SourceLayer
    <3>2. l.entry = IF "entry" \in f.given THEN f.entry ELSE DefaultWasmEntry(l.contract)
      BY <2>5 DEF LayerFromArgs, SourceLayer
    <3>3. CoreContract \notin ComponentContracts /\ KnownContract(CoreContract)
      BY DEF CoreContract, ComponentContracts, KnownContract
    <3>4. CASE "contract" \notin f.given
      BY <3>1, <3>3, <3>4
    <3>5. CASE "contract" \in f.given /\ "entry" \in f.given
      BY <2>2, <3>1, <3>2, <3>5
    <3>6. CASE "contract" \in f.given /\ "entry" \notin f.given
      <4>1. l.contract = f.contract /\ f.contract # "store-graph-read@1"
        BY <3>1, <3>6
      <4>2. l.contract \in ComponentContracts => DefaultWasmEntry(l.contract) = "run"
        BY <4>1 DEF DefaultWasmEntry
      <4> QED
        BY <2>2, <3>2, <3>6, <4>1, <4>2
    <3> QED
      BY <3>4, <3>5, <3>6
  <2> QED
    BY <2>1, <2>2, <2>3, <2>4, <2>5 DEF ValidLayerSource, BuildsLayer
<1> QED
  BY <1>1, <1>2, <1>3

\* The default primary of one layer is that layer or none.
LEMMA OnePrimary ==
  ASSUME NEW l
  PROVE  DefaultPrimary(<<l>>) \in 0..1
<1> DEFINE bearing == {i \in DOMAIN <<l>> : <<l>>[i].kind \in {"wasm", "rootfs"}}
<1>1. bearing \subseteq {1}
  OBVIOUS
<1>2. CASE bearing = {}
  BY <1>2 DEF DefaultPrimary
<1>3. CASE bearing = {1}
  <2>1. Min({1}) = 1
    BY DEF Min
  <2> QED
    BY <1>3, <2>1 DEF DefaultPrimary
<1> QED
  BY <1>1, <1>2, <1>3

\* What a generator makes of its flags alone is refused for cause.
LEMMA FlagsRefused ==
  ASSUME NEW g \in Generators, NEW answer, DOMAIN init = Generators, GeneratorIs(init[g]),
         init[g].phase = "layered",
         ~(ChildrenPaired(init[g].flags) /\
           ValidManifest(Specification(PrimaryOf(g, answer), init[g].layers, init[g].flags.children)))
  PROVE  ForCause(init[g].flags)
<1> DEFINE f == init[g].flags
           p == PrimaryOf(g, answer)
           m == Specification(p, init[g].layers, f.children)
<1> SUFFICES ASSUME Asks(f), ~(f.contract = "store-graph-read@1" /\ "entry" \notin f.given)
             PROVE  FALSE
  BY DEF ForCause
<1>1. ~init[g].asked
  BY DEF GeneratorIs, Unflagged, Asks, NamesLayer
<1>2. f \in Flags /\ init[g].layers = <<FlagLayer(f)>>
  BY <1>1 DEF GeneratorIs
<1>3. ValidLayerSource(FlagLayer(f)) /\ BuildsLayer(FlagLayer(f))
  BY DefaultsBuild
<1>4. p \in 0..1
  <2>1. f.primary \in Nat /\ f.primary <= 1
    BY <1>2, InitAssumption DEF Asks
  <2>2. DefaultPrimary(init[g].layers) \in 0..1
    BY <1>2, OnePrimary
  <2> QED
    BY <1>1, <2>1, <2>2 DEF PrimaryOf
<1>5. ValidManifest(m)
  <2>1. m.schema = 4 /\ (m.library <=> m.primary = 0) /\ m.primary = p /\ m.layers = <<FlagLayer(f)>>
    BY <1>2 DEF Specification
  <2> QED
    BY <1>3, <1>4, <2>1 DEF ValidManifest
<1>6. ChildrenPaired(f)
  BY DEF Asks
<1> QED
  BY <1>5, <1>6

\* One generator moves and the rest stay; it writes a valid manifest or none, and
\* refuses for cause.
LEMMA GeneratorMoves ==
  ASSUME GeneratorInv, NEW g \in Generators, NEW i,
         init' = [init EXCEPT ![g] = i], GeneratorIs(i),
         text' # NoText => text' = text \/ ValidManifest(text'),
         refused' = refused \/ ForCause(refused'.flags)
  PROVE  GeneratorInv'
<1>1. text' # NoText => ValidManifest(text')
  BY DEF GeneratorInv
<1>2. refused' # IdleInit => ForCause(refused'.flags)
  BY DEF GeneratorInv
<1>3. DOMAIN init' = Generators
  BY DEF GeneratorInv
<1>4. \A h \in Generators : GeneratorIs(init'[h])
  BY DEF GeneratorInv
<1>5. \A h \in Generators : GeneratorIs(init[h])'
  BY <1>4 DEF GeneratorIs
<1> QED
  BY <1>1, <1>2, <1>3, <1>5 DEF GeneratorInv

LEMMA GeneratorStep == GeneratorInv /\ InitNext => GeneratorInv'
<1> SUFFICES ASSUME GeneratorInv, NEW g \in Generators,
                    \/ \E f \in Flags : InitConflict(g, f) \/ InitStart(g, f)
                    \/ \E kind \in DOMAIN LayerRule, c \in Chosen, more \in BOOLEAN :
                          PromptLayer(g, kind, c.contract, c.entry, c.surface, more)
                    \/ PromptEnds(g)
                    \/ \E answer \in 0 .. MaxPrompted + 1 : InitAssemble(g, answer)
                    \/ RemoveOld(g) \/ RenameNew(g) \/ InitKilled(g)
             PROVE  GeneratorInv'
  BY DEF InitNext
<1> USE DEF GeneratorInv
<1>idle. GeneratorIs(IdleInit)
  BY DEF GeneratorIs, IdleInit
<1>was. GeneratorIs(init[g])
  OBVIOUS
<1>1. ASSUME NEW f \in Flags, InitConflict(g, f) PROVE GeneratorInv'
  <2>1. UNCHANGED <<text, init, refused>>
    BY <1>1 DEF InitConflict
  <2> QED
    BY <2>1 DEF GeneratorIs
<1>2. ASSUME NEW f \in Flags, InitStart(g, f) PROVE GeneratorInv'
  <2> DEFINE asks == g \in Terminals /\ ~f.yes /\ ~HasLayerFlags(f)
             begun(phase, layers) == [phase |-> phase, flags |-> f, layers |-> layers, asked |-> asks]
  <2>1. text' = text
    BY <1>2 DEF InitStart
  <2>2. CASE asks
    <3>1. init' = [init EXCEPT ![g] = begun("prompting", <<>>)] /\ refused' = refused
      BY <1>2, <2>2 DEF InitStart
    <3>2. GeneratorIs(begun("prompting", <<>>))
      BY <2>2 DEF GeneratorIs, Unflagged, HasLayerFlags
    <3> QED
      BY <2>1, <3>1, <3>2, GeneratorMoves
  <2>3. CASE ~asks /\ Flagged(f)
    <3>1. init' = [init EXCEPT ![g] = begun("layered", <<FlagLayer(f)>>)] /\ refused' = refused
      BY <1>2, <2>3 DEF InitStart, Flagged, FlagLayer
    <3>2. GeneratorIs(begun("layered", <<FlagLayer(f)>>))
      BY <2>3 DEF GeneratorIs
    <3> QED
      BY <2>1, <3>1, <3>2, GeneratorMoves
  <2>4. CASE ~asks /\ ~Flagged(f)
    <3>1. Refuse(g, f, <<>>)
      BY <1>2, <2>4 DEF InitStart, Flagged
    <3>2. init' = [init EXCEPT ![g] = IdleInit] /\ refused'.flags = f
      BY <3>1 DEF Refuse, End
    <3>3. ForCause(f)
      BY <2>4 DEF ForCause, Asks, Flagged
    <3> QED
      BY <1>idle, <2>1, <3>2, <3>3, GeneratorMoves
  <2> QED
    BY <2>2, <2>3, <2>4
<1>3. ASSUME NEW kind, NEW contract, NEW entry, NEW surface, NEW more \in BOOLEAN,
             PromptLayer(g, kind, contract, entry, surface, more)
      PROVE  GeneratorInv'
  <2> DEFINE layers == Append(init[g].layers, Prompted(kind, contract, entry, surface))
             i == [init[g] EXCEPT !.layers = layers, !.phase = IF more THEN "prompting" ELSE "layered"]
  <2>1. init' = [init EXCEPT ![g] = i] /\ text' = text /\ refused' = refused
        /\ init[g].phase = "prompting"
    BY <1>3 DEF PromptLayer
  <2>2. GeneratorIs(i)
    BY <1>was, <2>1 DEF GeneratorIs
  <2> QED
    BY <2>1, <2>2, GeneratorMoves
<1>4. CASE PromptEnds(g)
  <2>1. init' = [init EXCEPT ![g] = IdleInit] /\ text' = text /\ refused' = refused
    BY <1>4 DEF PromptEnds, End
  <2> QED
    BY <1>idle, <2>1, GeneratorMoves
<1>5. ASSUME NEW answer \in 0 .. MaxPrompted + 1, InitAssemble(g, answer) PROVE GeneratorInv'
  <2> DEFINE f == init[g].flags
             m == Specification(PrimaryOf(g, answer), init[g].layers, f.children)
  <2>1. init[g].phase = "layered" /\ text' = text
    BY <1>5 DEF InitAssemble
  <2>2. CASE ChildrenPaired(f) /\ ValidManifest(m)
    <3> DEFINE i == [phase |-> "staged", spec |-> m, flags |-> f]
    <3>1. init' = [init EXCEPT ![g] = i] /\ refused' = refused
      BY <1>5, <2>2 DEF InitAssemble
    <3>2. GeneratorIs(i)
      BY <2>2 DEF GeneratorIs
    <3> QED
      BY <2>1, <3>1, <3>2, GeneratorMoves
  <2>3. CASE ~(ChildrenPaired(f) /\ ValidManifest(m))
    <3>1. Refuse(g, f, init[g].layers)
      BY <1>5, <2>3 DEF InitAssemble
    <3>2. init' = [init EXCEPT ![g] = IdleInit] /\ refused'.flags = f
      BY <3>1 DEF Refuse, End
    <3>3. ForCause(f)
      BY <1>was, <2>1, <2>3, FlagsRefused
    <3> QED
      BY <1>idle, <2>1, <3>2, <3>3, GeneratorMoves
  <2> QED
    BY <2>2, <2>3
<1>6. CASE RemoveOld(g)
  <2> DEFINE i == [init[g] EXCEPT !.phase = "renaming"]
  <2>1. init' = [init EXCEPT ![g] = i] /\ text' = NoText /\ refused' = refused
        /\ init[g].phase = "staged"
    BY <1>6 DEF RemoveOld
  <2>2. GeneratorIs(i)
    BY <1>was, <2>1 DEF GeneratorIs
  <2> QED
    BY <2>1, <2>2, GeneratorMoves
<1>7. CASE RenameNew(g)
  <2>1. init' = [init EXCEPT ![g] = IdleInit] /\ text' = init[g].spec /\ refused' = refused
        /\ init[g].phase \in {"staged", "renaming"}
    BY <1>7 DEF RenameNew, End
  <2>2. ValidManifest(text')
    BY <1>was, <2>1 DEF GeneratorIs
  <2> QED
    BY <1>idle, <2>1, <2>2, GeneratorMoves
<1>8. CASE InitKilled(g)
  <2>1. init' = [init EXCEPT ![g] = IdleInit] /\ text' = text /\ refused' = refused
    BY <1>8 DEF InitKilled, End
  <2> QED
    BY <1>idle, <2>1, GeneratorMoves
<1> QED
  BY <1>1, <1>2, <1>3, <1>4, <1>5, <1>6, <1>7, <1>8

\* What the generators write and refuse, of every one of them at once.
THEOREM Generator == Spec => []GeneratorInv
<1>1. Init => GeneratorInv
  BY DEF Init, AppInitInit, GeneratorInv, GeneratorIs, IdleInit
<1>2. GeneratorInv /\ [Next]_vars => GeneratorInv'
  <2>1. GeneratorInv /\ UNCHANGED initVars => GeneratorInv'
    BY DEF initVars, GeneratorInv, GeneratorIs
  <2>2. [Next]_vars => InitNext \/ UNCHANGED initVars
    BY DEF Next, vars
  <2> QED
    BY <2>1, <2>2, GeneratorStep
<1> QED
  BY <1>1, <1>2, PTL DEF Spec

\* hologram.json is absent or a whole manifest that the compiler accepts, whoever
\* writes it and whenever a generator is killed, and a command line is refused only
\* for asking what its layer kind does not allow.
THEOREM InitExact == Spec => []InitIsExact
<1>1. GeneratorInv => InitIsExact
  BY DEF GeneratorInv, ForCause, InitIsExact
<1> QED
  BY <1>1, Generator, PTL

----------------------------------------------------------------------------
(* The catalog and the content cache behind it.                             *)

\* What is being imported is cached but for the blobs still to come.
CatalogInv ==
    /\ \A a \in catalog : a.blobs \subseteq store
    /\ Importing => importing.archive.blobs \ importing.blobs \subseteq store

\* A catalogued archive has its content in the cache (HoloCatalog::import).
CatalogCached == \A a \in catalog : a.blobs \subseteq store

\* No step takes content out of the cache, and only the end of an import adds to the
\* catalog.
LEMMA CatalogHolds == CatalogInv /\ PlanNext => CatalogInv'
<1> SUFFICES ASSUME CatalogInv, PlanNext PROVE CatalogInv'
  OBVIOUS
<1> USE DEF CatalogInv, Importing
<1>1. ASSUME UNCHANGED <<catalog, store, importing>> PROVE CatalogInv'
  BY <1>1
<1>2. ASSUME NEW a \in Archives, ImportStart(a) PROVE CatalogInv'
  BY <1>2 DEF ImportStart
<1>3. CASE CacheBlob
  <2> PICK o : /\ o \in importing.blobs
               /\ store' = store \cup {o}
               /\ importing' = [importing EXCEPT !.blobs = @ \ {o}]
               /\ catalog' = catalog
    BY <1>3 DEF CacheBlob
  <2>1. importing'.archive = importing.archive
    OBVIOUS
  <2>2. importing'.blobs = importing.blobs \ {o} \/ importing'.blobs = importing.blobs
    OBVIOUS
  <2> QED
    BY <2>1, <2>2
<1>4. CASE ImportEnd
  BY <1>4 DEF ImportEnd, NoImport
<1>5. CASE ImportFails
  BY <1>5 DEF ImportFails, NoImport
<1>6. ASSUME NEW a \in catalog, RemoveEntry(a) PROVE CatalogInv'
  BY <1>6 DEF RemoveEntry
<1>7. ASSUME NEW o \in store, Rot(o) PROVE CatalogInv'
  BY <1>1, <1>7 DEF Rot
<1>8. CASE CatalogStep
  BY <1>2, <1>3, <1>4, <1>5, <1>6, <1>7, <1>8 DEF CatalogStep
<1>9. CASE PlanStep
  BY <1>1, <1>9, Zenon DEF PlanStep, PlanStart, PopApplication, ResolveRequires, ResolveLayer, Halt,
     SkipChild, ResolveDelegated, ResolveChild, WalkDone, IntoPlan, AdmitRoot, AdmitChild,
     Admitted, PlanEnd
<1>10. ASSUME UNCHANGED planVars PROVE CatalogInv'
  BY <1>1, <1>10 DEF planVars
<1> QED
  BY <1>8, <1>9, <1>10 DEF PlanNext

\* A catalogued archive has its content in the cache, also after an import that broke
\* off and whatever is removed meanwhile (HoloCatalog::import).
THEOREM Catalogued == Spec => []CatalogCached
<1>1. Init => CatalogInv
  BY DEF Init, PlanInit, CatalogInv, Importing, NoImport
<1>2. CatalogInv /\ [Next]_vars => CatalogInv'
  <2>1. CatalogInv /\ UNCHANGED planVars => CatalogInv'
    BY DEF planVars, CatalogInv, Importing
  <2>2. [Next]_vars => PlanNext \/ UNCHANGED planVars
    BY DEF Next, vars
  <2> QED
    BY <2>1, <2>2, CatalogHolds
<1>3. CatalogInv => CatalogCached
  BY DEF CatalogInv, CatalogCached
<1> QED
  BY <1>1, <1>2, <1>3, PTL DEF Spec

----------------------------------------------------------------------------
(* Induction over the naturals, for sets and for functions: what a recursive *)
(* definition computes.                                                     *)

\* A set of naturals that is not empty has a least element.
LEMMA Least ==
  ASSUME NEW T \in SUBSET Nat, T # {}
  PROVE  \E m \in T : \A k \in T : m <= k
<1>1. PICK m \in T : \A k \in T : ~(<<k, m>> \in OpToRel(<, Nat))
  BY NatLessThanWellFounded, WFMin
<1>2. \A k \in T : ~(k < m)
  BY <1>1 DEF OpToRel
<1> QED
  BY <1>2

\* A set that has zero and with every number the next one has them all.
LEMMA Inducts ==
  ASSUME NEW S, 0 \in S, \A n \in Nat : n \in S => n + 1 \in S
  PROVE  Nat \subseteq S
<1> SUFFICES ASSUME Nat \ S # {} PROVE FALSE
  OBVIOUS
<1>1. PICK m \in Nat \ S : \A k \in Nat \ S : m <= k
  BY Least
<1>2. m - 1 \in Nat /\ m - 1 \notin Nat \ S
  BY <1>1
<1> QED
  BY <1>1, <1>2

----------------------------------------------------------------------------
(* The tree of an archive: what its two recursive definitions compute.      *)

AppsAlong(m, node, k, f) ==
    /\ DOMAIN f = 0..k
    /\ f[0] = m
    /\ \A n \in 1..k : f[n] = f[n - 1].children[node[n]].application

LEMMA AppsExist ==
  ASSUME NEW m, NEW node, NEW k \in Nat
  PROVE  \E f : AppsAlong(m, node, k, f)
<1> DEFINE S == {n \in Nat : \E f : AppsAlong(m, node, n, f)}
<1>1. 0 \in S
  <2>1. AppsAlong(m, node, 0, [n \in 0..0 |-> m])
    BY DEF AppsAlong
  <2> QED
    BY <2>1
<1>2. ASSUME NEW n \in Nat, n \in S PROVE n + 1 \in S
  <2> PICK f : AppsAlong(m, node, n, f)
    BY <1>2
  <2> DEFINE g == [i \in 0..n + 1 |-> IF i <= n THEN f[i] ELSE f[n].children[node[n + 1]].application]
  <2>1. ASSUME NEW i \in 1..n + 1 PROVE g[i] = g[i - 1].children[node[i]].application
    <3>1. CASE i <= n
      <4>1. i \in 1..n /\ i - 1 \in 0..n /\ g[i] = f[i] /\ g[i - 1] = f[i - 1]
        BY <3>1
      <4> QED
        BY <4>1, Zenon DEF AppsAlong
    <3>2. CASE ~(i <= n)
      <4>1. i = n + 1 /\ i - 1 = n
        BY <3>2
      <4>2. g[n + 1] = f[n].children[node[n + 1]].application /\ g[n] = f[n]
        OBVIOUS
      <4> HIDE DEF g
      <4> QED
        BY <4>1, <4>2
    <3> QED
      BY <3>1, <3>2, Zenon
  <2>2. g[0] = m /\ DOMAIN g = 0..n + 1
    BY DEF AppsAlong
  <2> HIDE DEF g
  <2>3. AppsAlong(m, node, n + 1, g)
    BY <2>1, <2>2 DEF AppsAlong
  <2> QED
    BY <2>3
<1> HIDE DEF S
<1>3. k \in S
  BY <1>1, <1>2, Inducts
<1> QED
  BY <1>3 DEF S

LEMMA AppsAgree ==
  ASSUME NEW m, NEW p, NEW q, NEW k \in Nat, NEW l \in Nat, NEW f, NEW g,
         AppsAlong(m, p, k, f), AppsAlong(m, q, l, g), \A n \in 1..k : p[n] = q[n], k <= l
  PROVE  \A n \in 0..k : f[n] = g[n]
<1> DEFINE S == {n \in Nat : n <= k => f[n] = g[n]}
<1>1. 0 \in S
  BY DEF AppsAlong
<1>2. ASSUME NEW n \in Nat, n \in S PROVE n + 1 \in S
  <2> SUFFICES ASSUME n + 1 <= k PROVE f[n + 1] = g[n + 1]
    OBVIOUS
  <2>1. n + 1 \in 1..k /\ n + 1 \in 1..l /\ (n + 1) - 1 = n /\ n <= k
    OBVIOUS
  <2>2. f[n + 1] = f[n].children[p[n + 1]].application /\ g[n + 1] = g[n].children[q[n + 1]].application
    BY <2>1 DEF AppsAlong
  <2> QED
    BY <1>2, <2>1, <2>2
<1> HIDE DEF S
<1>3. Nat \subseteq S
  BY <1>1, <1>2, Inducts
<1> QED
  BY <1>3 DEF S

LEMMA AlongIs ==
  ASSUME NEW m, NEW node, Len(node) \in Nat
  PROVE  AppsAlong(m, node, Len(node), Along(m, node))
<1> PICK k \in Nat : k = Len(node)
  OBVIOUS
<1> DEFINE F(f) == f = [n \in 0..k |-> IF n = 0 THEN m ELSE f[n - 1].children[node[n]].application]
<1>1. PICK f : AppsAlong(m, node, k, f)
  BY AppsExist
<1>2. F([n \in 0..k |-> f[n]])
  <2>1. ASSUME NEW n \in 0..k PROVE f[n] = IF n = 0 THEN m ELSE f[n - 1].children[node[n]].application
    <3>1. CASE n = 0
      BY <1>1, <3>1 DEF AppsAlong
    <3>2. CASE n # 0
      <4>1. n \in 1..k
        BY <3>2
      <4> QED
        BY <1>1, <3>2, <4>1 DEF AppsAlong
    <3> QED
      BY <3>1, <3>2
  <2>2. \A n \in 0..k : n # 0 => n - 1 \in 0..k
    OBVIOUS
  <2> DEFINE h == [n \in 0..k |-> f[n]]
  <2>3. \A n \in 0..k : n # 0 => h[n - 1] = f[n - 1]
    BY <2>2
  <2> QED
    BY <2>1, <2>3
<1> DEFINE h == CHOOSE f_1 : F(f_1)
<1>3. F(h)
  BY <1>2, Zenon
<1>4. Along(m, node) = h
  BY DEF Along
<1> HIDE DEF h
<1>5. AppsAlong(m, node, k, h)
  <2>1. h[0] = m /\ DOMAIN h = 0..k
    BY <1>3
  <2>2. ASSUME NEW n \in 1..k PROVE h[n] = h[n - 1].children[node[n]].application
    <3>1. n \in 0..k /\ n # 0
      OBVIOUS
    <3> QED
      BY <1>3, <3>1, Zenon
  <2> QED
    BY <2>1, <2>2 DEF AppsAlong
<1> QED
  BY <1>4, <1>5

\* The root is the application of the empty node, and a child of a node is what the
\* application at the node names.
LEMMA AppAtRoot == ASSUME NEW m PROVE AppAt(m, <<>>) = m
<1>e. <<>> \in Seq(Nat)
  OBVIOUS
<1>1. PICK e \in Seq(Nat) : e = <<>>
  BY <1>e
<1>2. Len(e) = 0
  BY <1>1
<1>3. AppsAlong(m, e, 0, Along(m, e))
  BY <1>2, AlongIs
<1> QED
  BY <1>1, <1>2, <1>3 DEF AppsAlong, AppAt

LEMMA AppAtChild ==
  ASSUME NEW m, NEW p \in Seq(Nat), NEW i \in Nat
  PROVE  /\ Append(p, i) \in Seq(Nat) /\ Len(Append(p, i)) = Len(p) + 1 /\ Len(p) \in Nat
         /\ AppAt(m, Append(p, i)) = AppAt(m, p).children[i].application
         /\ Front(Append(p, i)) = p /\ Last(Append(p, i)) = i
         /\ Edge(m, Append(p, i)) = AppAt(m, p).children[i]
<1>a. Append(p, i) \in Seq(Nat)
  OBVIOUS
<1>1. PICK q \in Seq(Nat) : q = Append(p, i)
  BY <1>a
<1>2. /\ Len(p) \in Nat /\ Len(q) = Len(p) + 1 /\ q[Len(p) + 1] = i
      /\ \A n \in 1..Len(p) : p[n] = q[n]
  BY <1>1
<1>k. PICK k \in Nat : k = Len(p)
  BY <1>2
<1>3. AppsAlong(m, p, k, Along(m, p)) /\ AppsAlong(m, q, k + 1, Along(m, q))
  BY <1>2, <1>k, AlongIs
<1>4. Along(m, p)[k] = Along(m, q)[k]
  <2>1. k \in 0..k /\ k + 1 \in Nat /\ k <= k + 1
    OBVIOUS
  <2> QED
    BY <1>2, <1>3, <1>k, <2>1, AppsAgree
<1>5. Along(m, q)[k + 1] = Along(m, q)[k].children[q[k + 1]].application
  <2>1. k + 1 \in 1..k + 1 /\ (k + 1) - 1 = k
    OBVIOUS
  <2> QED
    BY <1>3, <2>1 DEF AppsAlong
<1>6. AppAt(m, q) = AppAt(m, p).children[i].application
  BY <1>2, <1>4, <1>5, <1>k DEF AppAt
<1>7. Front(q) = p /\ Last(q) = i
  <2>1. Last(q) = i
    BY <1>2 DEF Last
  <2>2. Front(q) = SubSeq(q, 1, k)
    BY <1>2, <1>k DEF Front
  <2>3. PICK r \in Seq(Nat) : r = SubSeq(q, 1, k)
    BY <1>2, <1>k
  <2>4. Len(r) = k /\ \A n \in 1..k : r[n] = q[n]
    BY <1>2, <1>k, <2>3
  <2>5. r = p
    BY <1>2, <1>k, <2>4, SeqEqual
  <2> QED
    BY <2>1, <2>2, <2>3, <2>5
<1> QED
  BY <1>1, <1>2, <1>6, <1>7 DEF Edge

\* The nodes one below those of S.
Sprouts(m, S) == UNION {{Append(p, i) : i \in DOMAIN Children(AppAt(m, p))} : p \in S}

LevelsAre(m, f, k) ==
    /\ DOMAIN f = 0..k
    /\ f[0] = {<<>>}
    /\ \A n \in 1..k : f[n] = Sprouts(m, f[n - 1])

LEMMA LevelsExist ==
  ASSUME NEW m, NEW k \in Nat
  PROVE  \E f : LevelsAre(m, f, k)
<1> DEFINE S == {n \in Nat : \E f : LevelsAre(m, f, n)}
<1>1. 0 \in S
  <2>1. LevelsAre(m, [n \in 0..0 |-> {<<>>}], 0)
    BY DEF LevelsAre
  <2> QED
    BY <2>1
<1>2. ASSUME NEW n \in Nat, n \in S PROVE n + 1 \in S
  <2> PICK f : LevelsAre(m, f, n)
    BY <1>2
  <2> DEFINE g == [i \in 0..n + 1 |-> IF i <= n THEN f[i] ELSE Sprouts(m, f[n])]
  <2>1. ASSUME NEW i \in 1..n + 1 PROVE g[i] = Sprouts(m, g[i - 1])
    <3>1. CASE i <= n
      <4>1. i \in 1..n /\ i - 1 \in 0..n /\ g[i] = f[i] /\ g[i - 1] = f[i - 1]
        BY <3>1
      <4> QED
        BY <4>1 DEF LevelsAre
    <3>2. CASE ~(i <= n)
      <4>1. i = n + 1 /\ i - 1 = n
        BY <3>2
      <4>2. g[n + 1] = Sprouts(m, f[n]) /\ g[n] = f[n]
        OBVIOUS
      <4> HIDE DEF g
      <4> QED
        BY <4>1, <4>2
    <3> QED
      BY <3>1, <3>2
  <2>2. g[0] = {<<>>} /\ DOMAIN g = 0..n + 1
    BY DEF LevelsAre
  <2> HIDE DEF g
  <2>3. LevelsAre(m, g, n + 1)
    BY <2>1, <2>2 DEF LevelsAre
  <2> QED
    BY <2>3
<1> HIDE DEF S
<1>3. k \in S
  BY <1>1, <1>2, Inducts
<1> QED
  BY <1>3 DEF S

LEMMA LevelIs ==
  ASSUME NEW m
  PROVE  MaxDepth \in Nat /\ LevelsAre(m, Level(m), MaxDepth + 1)
<1>0. MaxDepth \in Nat
  BY PlanAssumption
<1> PICK k \in Nat : k = MaxDepth + 1
  BY <1>0
<1> DEFINE F(f) == f = [n \in 0..k |-> IF n = 0 THEN {<<>>} ELSE Sprouts(m, f[n - 1])]
<1>1. PICK f : LevelsAre(m, f, k)
  BY LevelsExist
<1>2. F([n \in 0..k |-> f[n]])
  <2>1. ASSUME NEW n \in 0..k PROVE f[n] = IF n = 0 THEN {<<>>} ELSE Sprouts(m, f[n - 1])
    <3>1. CASE n = 0
      BY <1>1, <3>1 DEF LevelsAre
    <3>2. CASE n # 0
      <4>1. n \in 1..k
        BY <3>2
      <4> QED
        BY <1>1, <3>2, <4>1 DEF LevelsAre
    <3> QED
      BY <3>1, <3>2
  <2>2. \A n \in 0..k : n # 0 => n - 1 \in 0..k
    OBVIOUS
  <2> DEFINE h == [n \in 0..k |-> f[n]]
  <2>3. \A n \in 0..k : n # 0 => h[n - 1] = f[n - 1]
    BY <2>2
  <2> QED
    BY <2>1, <2>3
<1> DEFINE h == CHOOSE f_1 : F(f_1)
<1>3. F(h)
  BY <1>2
<1>4. Level(m) = h
  BY DEF Level, Sprouts
<1> HIDE DEF h
<1>5. LevelsAre(m, h, k)
  <2>1. h[0] = {<<>>} /\ DOMAIN h = 0..k
    BY <1>3
  <2>2. ASSUME NEW n \in 1..k PROVE h[n] = Sprouts(m, h[n - 1])
    <3>1. n \in 0..k /\ n # 0
      OBVIOUS
    <3> QED
      BY <1>3, <3>1
  <2> QED
    BY <2>1, <2>2 DEF LevelsAre
<1> QED
  BY <1>0, <1>4, <1>5

\* The levels of the tree: the root is the first, and the nodes of the next are the
\* children of this one's.
LEMMA Levels ==
  ASSUME NEW m
  PROVE  /\ MaxDepth \in Nat /\ DOMAIN Level(m) = 0..MaxDepth + 1 /\ Level(m)[0] = {<<>>}
         /\ \A n \in 0..MaxDepth : Level(m)[n + 1] = Sprouts(m, Level(m)[n])
<1>1. MaxDepth \in Nat /\ LevelsAre(m, Level(m), MaxDepth + 1)
  BY LevelIs
<1>2. ASSUME NEW n \in 0..MaxDepth PROVE Level(m)[n + 1] = Sprouts(m, Level(m)[n])
  <2>1. n + 1 \in 1..MaxDepth + 1 /\ (n + 1) - 1 = n
    BY <1>1
  <2> QED
    BY <1>1, <2>1 DEF LevelsAre
<1> QED
  BY <1>1, <1>2 DEF LevelsAre

LEMMA TreeIs ==
  ASSUME NEW m, NEW p
  PROVE  p \in Tree(m) <=> \E n \in 0..MaxDepth + 1 : p \in Level(m)[n]
<1>1. DOMAIN Level(m) = 0..MaxDepth + 1
  BY Levels
<1> QED
  BY <1>1 DEF Tree, Range

\* A recursion has a solution, and only one.
Solves(f, c, st, n) == f[0] = c /\ \A i \in 1..n : f[i] = st[i][f[i - 1]]

LEMMA SolvesOnce ==
  ASSUME NEW f, NEW g, NEW c, NEW st, NEW n \in Nat, Solves(f, c, st, n), Solves(g, c, st, n)
  PROVE  \A i \in 0..n : f[i] = g[i]
<1> DEFINE S == {i \in Nat : i \in 0..n => f[i] = g[i]}
<1>1. 0 \in S
  BY DEF Solves
<1>2. ASSUME NEW i \in Nat, i \in S PROVE i + 1 \in S
  <2> SUFFICES ASSUME i + 1 \in 0..n PROVE f[i + 1] = g[i + 1]
    OBVIOUS
  <2>1. i + 1 \in 1..n /\ (i + 1) - 1 = i /\ i \in 0..n
    OBVIOUS
  <2> QED
    BY <1>2, <2>1 DEF Solves
<1> HIDE DEF S
<1>3. Nat \subseteq S
  BY <1>1, <1>2, Inducts
<1> QED
  BY <1>3 DEF S

LEMMA SolvesUpTo ==
  ASSUME NEW V, NEW c \in V, NEW st \in [Nat -> [V -> V]]
  PROVE  \A n \in Nat : \E f \in [Nat -> V] : Solves(f, c, st, n)
<1> DEFINE S == {n \in Nat : \E f \in [Nat -> V] : Solves(f, c, st, n)}
<1>1. 0 \in S
  <2>1. [i \in Nat |-> c] \in [Nat -> V] /\ Solves([i \in Nat |-> c], c, st, 0)
    BY DEF Solves
  <2> QED
    BY <2>1
<1>2. ASSUME NEW n \in Nat, n \in S PROVE n + 1 \in S
  <2> PICK f \in [Nat -> V] : Solves(f, c, st, n)
    BY <1>2
  <2> DEFINE g == [f EXCEPT ![n + 1] = st[n + 1][f[n]]]
  <2>1. st[n + 1] \in [V -> V] /\ f[n] \in V
    OBVIOUS
  <2>2. g \in [Nat -> V]
    BY <2>1
  <2>3. \A i \in 0..n : g[i] = f[i]
    OBVIOUS
  <2>4. g[n + 1] = st[n + 1][f[n]]
    OBVIOUS
  <2> HIDE DEF g
  <2>5. g[0] = c
    BY <2>3 DEF Solves
  <2>6. ASSUME NEW i \in 1..n + 1 PROVE g[i] = st[i][g[i - 1]]
    <3>1. CASE i = n + 1
      BY <2>3, <2>4, <3>1
    <3>2. CASE i \in 1..n
      <4>1. i - 1 \in 0..n /\ i \in 0..n
        BY <3>2
      <4>2. f[i] = st[i][f[i - 1]]
        BY <3>2 DEF Solves
      <4> QED
        BY <2>3, <4>1, <4>2
    <3> QED
      BY <3>1, <3>2
  <2> QED
    BY <2>2, <2>5, <2>6 DEF Solves
<1> HIDE DEF S
<1>3. Nat \subseteq S
  BY <1>1, <1>2, Inducts
<1> QED
  BY <1>3 DEF S

LEMMA Recursion ==
  ASSUME NEW V, NEW c \in V, NEW st \in [Nat -> [V -> V]]
  PROVE  \E f \in [Nat -> V] : f[0] = c /\ \A i \in Nat \ {0} : f[i] = st[i][f[i - 1]]
<1> DEFINE upto == [n \in Nat |-> CHOOSE f \in [Nat -> V] : Solves(f, c, st, n)]
           g == [n \in Nat |-> upto[n][n]]
<1>1. \A n \in Nat : upto[n] \in [Nat -> V] /\ Solves(upto[n], c, st, n)
  BY SolvesUpTo
<1> HIDE DEF upto
<1>2. g \in [Nat -> V]
  BY <1>1
<1>3. g[0] = c
  BY <1>1 DEF Solves
<1>4. ASSUME NEW i \in Nat \ {0} PROVE g[i] = st[i][g[i - 1]]
  <2>1. i - 1 \in Nat /\ i - 1 \in 0..i - 1 /\ i \in 1..i
    OBVIOUS
  <2>2. Solves(upto[i], c, st, i - 1)
    BY <1>1, <2>1 DEF Solves
  <2>3. upto[i][i - 1] = upto[i - 1][i - 1]
    BY <1>1, <2>1, <2>2, SolvesOnce
  <2>4. upto[i][i] = st[i][upto[i][i - 1]]
    BY <1>1, <2>1 DEF Solves
  <2> QED
    BY <2>1, <2>3, <2>4
<1> QED
  BY <1>2, <1>3, <1>4

\* A step taken again and again from a first value.
LEMMA Iterates ==
  ASSUME NEW V, NEW c \in V, NEW op \in [V -> V]
  PROVE  \E f \in [Nat -> V] : f[0] = c /\ \A i \in Nat : f[i + 1] = op[f[i]]
<1>1. \A st \in [Nat -> [V -> V]] : \E f \in [Nat -> V] : f[0] = c /\ \A i \in Nat \ {0} : f[i] = st[i][f[i - 1]]
  BY Recursion
<1>2. [i \in Nat |-> op] \in [Nat -> [V -> V]]
  OBVIOUS
<1>3. PICK f \in [Nat -> V] : f[0] = c /\ \A i \in Nat \ {0} : f[i] = [j \in Nat |-> op][i][f[i - 1]]
  BY <1>1, <1>2
<1>4. \A i \in Nat : i + 1 \in Nat \ {0} /\ (i + 1) - 1 = i
  OBVIOUS
<1>5. \A i \in Nat : f[i + 1] = op[f[i]]
  BY <1>3, <1>4
<1> QED
  BY <1>3, <1>5

----------------------------------------------------------------------------
(* Sums over a finite set, as MapThenSumSet computes them.                  *)

\* What holds of a subset when it holds of all smaller ones holds of all of them.
LEMMA SubsetsInduct ==
  ASSUME NEW S, IsFiniteSet(S), NEW P,
         \A t \in SUBSET S : (\A u \in SUBSET t : u # t => u \in P) => t \in P
  PROVE  SUBSET S \subseteq P
<1> SUFFICES ASSUME NEW t0 \in SUBSET S, t0 \notin P PROVE FALSE
  OBVIOUS
<1> DEFINE C == {Cardinality(t) : t \in (SUBSET S) \ P}
<1>1. C \in SUBSET Nat /\ C # {}
  BY FS_Subset, FS_CardinalityType
<1>2. PICK m \in C : \A k \in C : m <= k
  BY <1>1, Least
<1>3. PICK t \in (SUBSET S) \ P : m = Cardinality(t)
  BY <1>2
<1>4. ASSUME NEW u \in SUBSET t, u # t PROVE u \in P
  <2>1. IsFiniteSet(t)
    BY FS_Subset
  <2>2. Cardinality(u) < Cardinality(t) /\ Cardinality(u) \in Nat /\ Cardinality(t) \in Nat
    BY <1>4, <2>1, FS_Subset, FS_CardinalityType
  <2>3. ~(Cardinality(t) <= Cardinality(u))
    BY <2>2
  <2> QED
    BY <1>2, <1>3, <2>3
<1> QED
  BY <1>3, <1>4

Pick(s) == CHOOSE x \in s : TRUE
OneSum(w, t, g) == IF t = {} THEN 0 ELSE w[Pick(t)] + g[t \ {Pick(t)}]
SumsUp(f, w, S) == f = [t \in SUBSET S |-> OneSum(w, t, f)]
Sum(w, S) == (CHOOSE f : SumsUp(f, w, S))[S]

LEMMA SumExists ==
  ASSUME NEW S, IsFiniteSet(S), NEW w, \A x \in S : w[x] \in Nat
  PROVE  \E f \in [SUBSET S -> Nat] : SumsUp(f, w, S)
<1> DEFINE V == [SUBSET S -> Nat]
           next(g) == [t \in SUBSET S |-> OneSum(w, t, g)]
           c == [t \in SUBSET S |-> 0]
<1>1. ASSUME NEW g \in V PROVE next(g) \in V
  <2>1. ASSUME NEW t \in SUBSET S PROVE OneSum(w, t, g) \in Nat
    <3>1. CASE t = {}
      BY <3>1 DEF OneSum
    <3>2. CASE t # {}
      <4>1. Pick(t) \in t /\ t \ {Pick(t)} \in SUBSET S
        BY <3>2 DEF Pick
      <4>2. w[Pick(t)] \in Nat /\ g[t \ {Pick(t)}] \in Nat
        BY <4>1
      <4> QED
        BY <3>2, <4>2 DEF OneSum
    <3> QED
      BY <3>1, <3>2
  <2> QED
    BY <2>1
<1> DEFINE op == [g \in V |-> next(g)]
<1>2. c \in V /\ op \in [V -> V]
  BY <1>1
<1> HIDE DEF c, next, V, op
<1>c. \A c1 \in V : \A op1 \in [V -> V] : \E F \in [Nat -> V] : F[0] = c1 /\ \A i \in Nat : F[i + 1] = op1[F[i]]
  BY Iterates
<1>3. PICK F \in [Nat -> V] : F[0] = c /\ \A i \in Nat : F[i + 1] = op[F[i]]
  BY <1>2, <1>c
<1>4. \A i \in Nat : F[i + 1] = next(F[i])
  BY <1>3 DEF op
<1>5. \A t \in SUBSET S : Cardinality(t) \in Nat /\ IsFiniteSet(t)
  BY FS_Subset, FS_CardinalityType
<1> DEFINE P == {i \in Nat : \A t \in SUBSET S : Cardinality(t) <= i => F[i + 1][t] = F[i][t]}
<1>b. \A i \in Nat : F[i] \in V
  OBVIOUS
<1>a. ASSUME NEW g \in V, NEW h \in V, NEW i \in Nat, NEW t \in SUBSET S, Cardinality(t) <= i + 1,
             \A u \in SUBSET S : Cardinality(u) <= i => g[u] = h[u]
      PROVE  next(g)[t] = next(h)[t]
  <2>1. CASE t = {}
    BY <2>1 DEF next, OneSum
  <2>2. CASE t # {}
    <3> DEFINE u == t \ {Pick(t)}
    <3>1. Pick(t) \in t
      BY <2>2 DEF Pick
    <3>2. u \in SUBSET S /\ Cardinality(u) = Cardinality(t) - 1
      BY <1>5, <3>1, FS_RemoveElement
    <3>3. g[u] = h[u]
      BY <1>5, <1>a, <3>2
    <3> QED
      BY <2>2, <3>3 DEF next, OneSum
  <2> QED
    BY <2>1, <2>2
<1>6. 0 \in P
  <2>1. ASSUME NEW t \in SUBSET S, Cardinality(t) <= 0 PROVE t = {}
    BY <1>5, <2>1, FS_EmptySet
  <2>2. F[0][{}] = 0
    BY <1>3 DEF c
  <2>3. F[0 + 1] = next(F[0])
    BY <1>4
  <2>4. F[0 + 1][{}] = 0
    BY <2>3 DEF next, OneSum
  <2> QED
    BY <2>1, <2>2, <2>4
<1>7. ASSUME NEW i \in Nat, i \in P PROVE i + 1 \in P
  <2>1. F[i + 1] = next(F[i]) /\ F[(i + 1) + 1] = next(F[i + 1])
    BY <1>4
  <2>2. F[i] \in V /\ F[i + 1] \in V
    BY <1>b
  <2>3. \A u \in SUBSET S : Cardinality(u) <= i => F[i + 1][u] = F[i][u]
    BY <1>7
  <2>4. ASSUME NEW t \in SUBSET S, Cardinality(t) <= i + 1
        PROVE  next(F[i + 1])[t] = next(F[i])[t]
    BY <1>a, <2>2, <2>3, <2>4
  <2> QED
    BY <2>1, <2>4
<1> HIDE DEF P
<1>8. Nat \subseteq P
  BY <1>6, <1>7, Inducts
<1> DEFINE n == Cardinality(S)
           f == F[n]
<1>9. n \in Nat /\ \A t \in SUBSET S : Cardinality(t) <= n
  BY FS_CardinalityType, FS_Subset
<1>10. \A t \in SUBSET S : next(f)[t] = f[t]
  BY <1>4, <1>8, <1>9 DEF P
<1>11. f \in V /\ next(f) \in V
  BY <1>1, <1>9, <1>b
<1>12. next(f) = f
  BY <1>10, <1>11 DEF V
<1>13. SumsUp(f, w, S)
  BY <1>12 DEF SumsUp, next
<1> QED
  BY <1>11, <1>13 DEF V

\* Two sums over sets of which one has the other agree on the smaller one.
LEMMA SumsAgree ==
  ASSUME NEW S, IsFiniteSet(S), NEW T \in SUBSET S, NEW w, NEW f, NEW g,
         SumsUp(f, w, S), SumsUp(g, w, T)
  PROVE  \A t \in SUBSET T : f[t] = g[t]
<1> DEFINE P == {t \in SUBSET T : f[t] = g[t]}
<1>1. ASSUME NEW t \in SUBSET T, \A u \in SUBSET t : u # t => u \in P PROVE t \in P
  <2>1. f[t] = OneSum(w, t, f) /\ g[t] = OneSum(w, t, g)
    BY DEF SumsUp
  <2>2. CASE t = {}
    BY <2>1, <2>2 DEF OneSum
  <2>3. CASE t # {}
    <3>1. Pick(t) \in t
      BY <2>3 DEF Pick
    <3>2. f[t \ {Pick(t)}] = g[t \ {Pick(t)}]
      BY <1>1, <3>1
    <3> QED
      BY <2>1, <2>3, <3>2 DEF OneSum
  <2> QED
    BY <2>2, <2>3
<1>2. IsFiniteSet(T)
  BY FS_Subset
<1> HIDE DEF P
<1>3. SUBSET T \subseteq P
  BY <1>1, <1>2, SubsetsInduct
<1> QED
  BY <1>3 DEF P

LEMMA SumOf ==
  ASSUME NEW S, IsFiniteSet(S), NEW w, \A x \in S : w[x] \in Nat,
         NEW f, SumsUp(f, w, S), NEW T \in SUBSET S
  PROVE  f[T] = Sum(w, T) /\ Sum(w, T) \in Nat
<1>1. IsFiniteSet(T) /\ \A x \in T : w[x] \in Nat
  BY FS_Subset
<1>2. \E g \in [SUBSET T -> Nat] : SumsUp(g, w, T)
  BY <1>1, SumExists
<1> DEFINE h == CHOOSE g : SumsUp(g, w, T)
<1>3. SumsUp(h, w, T)
  BY <1>2
<1> HIDE DEF h
<1>4. f[T] = h[T]
  BY <1>3, SumsAgree
<1>5. \E g \in [SUBSET T -> Nat] : g[T] = h[T]
  BY <1>1, <1>2, <1>3, SumsAgree
<1> QED
  BY <1>4, <1>5 DEF Sum, h

\* Whichever element is taken out first, the sum is the same.
LEMMA SumWithout ==
  ASSUME NEW S, IsFiniteSet(S), NEW w, \A x \in S : w[x] \in Nat, NEW x \in S
  PROVE  Sum(w, S) = w[x] + Sum(w, S \ {x})
<1> PICK f \in [SUBSET S -> Nat] : SumsUp(f, w, S)
  BY SumExists
<1> DEFINE P == {t \in SUBSET S : \A y \in t : f[t] = w[y] + f[t \ {y}]}
<1>1. ASSUME NEW t \in SUBSET S, \A u \in SUBSET t : u # t => u \in P, NEW y \in t
      PROVE  f[t] = w[y] + f[t \ {y}]
  <2> DEFINE p == Pick(t)
  <2>1. p \in t
    BY DEF Pick
  <2>2. f[t] = w[p] + f[t \ {p}]
    BY DEF SumsUp, OneSum
  <2>3. CASE y = p
    BY <2>2, <2>3
  <2>4. CASE y # p
    <3>1. t \ {p} \in P /\ t \ {y} \in P /\ y \in t \ {p} /\ p \in t \ {y}
      BY <1>1, <2>1, <2>4
    <3>2. f[t \ {p}] = w[y] + f[(t \ {p}) \ {y}] /\ f[t \ {y}] = w[p] + f[(t \ {y}) \ {p}]
      BY <3>1
    <3>3. (t \ {p}) \ {y} = (t \ {y}) \ {p} /\ (t \ {p}) \ {y} \in SUBSET S
      OBVIOUS
    <3>4. f[(t \ {p}) \ {y}] \in Nat /\ w[p] \in Nat /\ w[y] \in Nat
      BY <2>1, <3>3
    <3>5. f[(t \ {p}) \ {y}] = f[(t \ {y}) \ {p}]
      BY <3>3
    <3> HIDE DEF p
    <3> QED
      BY ONLY <2>2, <3>2, <3>4, <3>5
  <2> QED
    BY <2>3, <2>4
<1>2. \A t \in SUBSET S : (\A u \in SUBSET t : u # t => u \in P) => t \in P
  BY <1>1
<1> HIDE DEF P
<1>3. S \in P
  BY <1>2, SubsetsInduct
<1>4. f[S] = w[x] + f[S \ {x}]
  BY <1>3 DEF P
<1>5. f[S] = Sum(w, S) /\ f[S \ {x}] = Sum(w, S \ {x})
  BY SumOf
<1> QED
  BY <1>4, <1>5

LEMMA SumNat ==
  ASSUME NEW S, IsFiniteSet(S), NEW w, \A x \in S : w[x] \in Nat
  PROVE  Sum(w, S) \in Nat
  BY SumExists, SumOf

LEMMA SumEmpty == ASSUME NEW w PROVE Sum(w, {}) = 0
<1>1. IsFiniteSet({})
  BY FS_EmptySet
<1> PICK f \in [SUBSET {} -> Nat] : SumsUp(f, w, {})
  BY <1>1, SumExists
<1>2. f[{}] = 0
  BY DEF SumsUp, OneSum
<1> QED
  BY <1>1, <1>2, SumOf

LEMMA SumWith ==
  ASSUME NEW S, IsFiniteSet(S), NEW w, \A y \in S : w[y] \in Nat, NEW x, x \notin S, w[x] \in Nat
  PROVE  Sum(w, S \cup {x}) = Sum(w, S) + w[x]
<1>1. IsFiniteSet(S \cup {x}) /\ (S \cup {x}) \ {x} = S
  BY FS_AddElement
<1>2. Sum(w, S) \in Nat
  BY SumNat
<1>3. \A y \in S \cup {x} : w[y] \in Nat
  OBVIOUS
<1>4. Sum(w, S \cup {x}) = w[x] + Sum(w, (S \cup {x}) \ {x})
  BY <1>1, <1>3, SumWithout
<1>5. Sum(w, (S \cup {x}) \ {x}) = Sum(w, S)
  BY <1>1
<1> QED
  BY <1>2, <1>4, <1>5

LEMMA SumMonotone ==
  ASSUME NEW S, IsFiniteSet(S), NEW w, \A y \in S : w[y] \in Nat, NEW T \in SUBSET S
  PROVE  Sum(w, T) <= Sum(w, S)
<1> DEFINE P == {t \in SUBSET S : T \subseteq t => Sum(w, T) <= Sum(w, t)}
<1>0. \A t \in SUBSET S : Sum(w, t) \in Nat
  BY SumNat, FS_Subset
<1>1. ASSUME NEW t \in SUBSET S, \A u \in SUBSET t : u # t => u \in P, T \subseteq t
      PROVE  Sum(w, T) <= Sum(w, t)
  <2>1. CASE T = t
    BY <1>0, <2>1
  <2>2. CASE T # t
    <3> PICK x \in t : x \notin T
      BY <1>1, <2>2
    <3>1. T \subseteq t \ {x} /\ t \ {x} \in P /\ t \ {x} \in SUBSET S
      BY <1>1
    <3>2. Sum(w, T) <= Sum(w, t \ {x})
      BY <3>1
    <3>3. IsFiniteSet(t)
      BY FS_Subset
    <3>4. Sum(w, t) = w[x] + Sum(w, t \ {x})
      BY <3>3, SumWithout
    <3>5. w[x] \in Nat /\ Sum(w, t \ {x}) \in Nat /\ Sum(w, T) \in Nat
      BY <1>0, <3>1
    <3> QED
      BY <3>2, <3>4, <3>5
  <2> QED
    BY <2>1, <2>2
<1>2. \A t \in SUBSET S : (\A u \in SUBSET t : u # t => u \in P) => t \in P
  BY <1>1
<1> HIDE DEF P
<1>3. S \in P
  BY <1>2, SubsetsInduct
<1> QED
  BY <1>3 DEF P

\* The model's sums of weights are those sums.
Weights(U) == [o \in U |-> Weight(o)]

LEMMA WeightsSum ==
  ASSUME NEW U, NEW S \in SUBSET U, IsFiniteSet(S), \A o \in S : Weight(o) \in Nat
  PROVE  MapThenSumSet(Weight, S) = Sum(Weights(U), S)
<1> DEFINE w == Weights(U)
           eq(f) == f = [t \in SUBSET S |-> IF t = {} THEN 0 ELSE Weight(Pick(t)) + f[t \ {Pick(t)}]]
           h == CHOOSE f : eq(f)
<1>1. MapThenSumSet(Weight, S) = h[S]
  BY DEF MapThenSumSet, MapThenFoldSet, Pick
<1>2. ASSUME NEW f PROVE eq(f) <=> SumsUp(f, w, S)
  <2>1. \A t \in SUBSET S : t # {} => Pick(t) \in U
    BY DEF Pick
  <2>2. \A t \in SUBSET S : (IF t = {} THEN 0 ELSE Weight(Pick(t)) + f[t \ {Pick(t)}]) = OneSum(w, t, f)
    BY <2>1 DEF OneSum, Weights
  <2>3. [t \in SUBSET S |-> IF t = {} THEN 0 ELSE Weight(Pick(t)) + f[t \ {Pick(t)}]]
          = [t \in SUBSET S |-> OneSum(w, t, f)]
    BY <2>2
  <2> QED
    BY <2>3 DEF SumsUp
<1>3. \A o \in S : w[o] \in Nat
  BY DEF Weights
<1> HIDE DEF eq, w
<1>4. \E f : SumsUp(f, w, S)
  BY <1>3, SumExists
<1>5. eq(h)
  BY <1>2, <1>4
<1>6. SumsUp(h, w, S)
  BY <1>2, <1>5
<1> HIDE DEF h
<1>7. h[S] = Sum(w, S)
  BY <1>3, <1>6, SumOf
<1> QED
  BY <1>1, <1>7 DEF w

\* A bundle has a length.
LEMMA BundleHasLength ==
  ASSUME NEW files, IsFiniteSet(DOMAIN files), \A f \in DOMAIN files : Bytes(f, files[f]) \in Nat
  PROVE  BundleBytes(files) \in Nat
<1> DEFINE S == DOMAIN files
           w == [f \in S |-> Bytes(f, files[f])]
           eq(f) == f = [t \in SUBSET S |-> IF t = {} THEN 0 ELSE w[Pick(t)] + f[t \ {Pick(t)}]]
           h == CHOOSE f : eq(f)
<1>1. BundleBytes(files) = h[S]
  BY DEF BundleBytes, FoldFunction, FoldFunctionOnSet, MapThenFoldSet, Pick
<1>2. \A f : eq(f) <=> SumsUp(f, w, S)
  BY DEF SumsUp, OneSum
<1>3. \A f \in S : w[f] \in Nat
  OBVIOUS
<1> HIDE DEF eq, w
<1>4. \E f : SumsUp(f, w, S)
  BY <1>3, SumExists
<1>5. SumsUp(h, w, S)
  BY <1>2, <1>4
<1> HIDE DEF h
<1>6. h[S] = Sum(w, S) /\ Sum(w, S) \in Nat
  BY <1>3, <1>5, SumOf
<1> QED
  BY <1>1, <1>6

----------------------------------------------------------------------------
(* What the compiler assembles.  A set of objects is whole when it has what *)
(* its manifests name; a manifest is grounded in the set that has what it   *)
(* names itself.                                                            *)

Sane(o) == Weight(o) \in Nat /\ (IsApp(o) => ListOf(o.layers) /\ ListOf(o.children))
Whole(B) == \A o \in B : Sane(o) /\ (IsApp(o) => References(o) \subseteq B)
Grounded(m, B) == /\ Whole(B) /\ Sane(m) /\ IsApp(m) /\ References(m) \subseteq B
                  /\ ~IsApp(m.requires)

Fields == {"phase", "spec", "mode", "layers", "children", "blobs", "files", "stat", "statted"}

Versions(f) == 1..Len(Size[f])

JobIs(x) ==
    /\ DOMAIN x = Fields /\ x.spec \in Specs
    /\ Whole(x.blobs) /\ Caps(Manifest[x.spec].requires.rights) \in x.blobs
    /\ ListOf(x.layers) /\ ListOf(x.children)
    /\ \A i \in DOMAIN x.layers : x.layers[i].content \in x.blobs
    /\ \A i \in DOMAIN x.children :
          x.children[i].application \in x.blobs /\ x.children[i].capabilities \in x.blobs
    /\ x.statted \subseteq Files /\ IsFiniteSet(DOMAIN x.files)
    /\ \A f \in DOMAIN x.files : f \in Files /\ x.files[f] \in Versions(f)

Made(a) == \E B : Grounded(a.manifest, B) /\ a.blobs \in {{}, B}

CompileInv ==
    /\ DOMAIN disk = Files /\ \A f \in Files : disk[f] \in Versions(f)
    /\ DOMAIN job = Jobs
    /\ \A j \in Jobs : job[j] = IdleJob \/ (job[j].phase # "idle" /\ JobIs(job[j]))
    /\ DOMAIN out = Specs
    /\ \A s \in Specs : RequireCurrent(out[s]) => Made(out[s])
    /\ \A a \in built : Made(a)

\* An element more in a list.
LEMMA ListGrows ==
  ASSUME NEW s, ListOf(s), NEW e
  PROVE  /\ ListOf(Append(s, e)) /\ Len(s) \in Nat
         /\ DOMAIN s = 1..Len(s) /\ DOMAIN Append(s, e) = 1..Len(s) + 1
         /\ \A i \in 1..Len(s) : Append(s, e)[i] = s[i]
         /\ Append(s, e)[Len(s) + 1] = e
<1> DEFINE T == Range(s) \cup {e}
<1>1. s \in Seq(T)
  BY DEF ListOf
<1>2. Append(s, e) \in Seq(T) /\ Len(s) \in Nat /\ DOMAIN s = 1..Len(s)
      /\ Len(Append(s, e)) = Len(s) + 1 /\ Append(s, e)[Len(s) + 1] = e
      /\ \A i \in 1..Len(s) : Append(s, e)[i] = s[i]
  BY <1>1
<1>3. PICK q : q = Append(s, e)
  OBVIOUS
<1>4. ListOf(q)
  BY <1>2, <1>3 DEF ListOf, Range
<1>5. DOMAIN q = 1..Len(s) + 1
  BY <1>2, <1>3
<1> QED
  BY <1>2, <1>3, <1>4, <1>5

LEMMA EmptyList == ListOf(<<>>) /\ DOMAIN <<>> = {}
  BY DEF ListOf, Range

\* The kinds of objects, told apart by their fields.
LEMMA Kinds ==
  /\ \A r : ~IsApp(Caps(r)) /\ Weight(Caps(r)) = 1
  /\ \A f, v : ~IsApp(Content(f, v)) /\ Weight(Content(f, v)) = Bytes(f, v)
  /\ \A files : ~IsApp(View(files)) /\ Weight(View(files)) = BundleBytes(files)
  /\ \A p, r, l, c : /\ IsApp(App(p, r, l, c)) /\ Weight(App(p, r, l, c)) = 1
                     /\ App(p, r, l, c).requires = r /\ App(p, r, l, c).primary = p
                     /\ App(p, r, l, c).layers = l /\ App(p, r, l, c).children = c
<1>1. ASSUME NEW r PROVE ~IsApp(Caps(r)) /\ Weight(Caps(r)) = 1
  <2>1. DOMAIN Caps(r) = {"caps"}
    BY DEF Caps
  <2> QED
    BY <2>1 DEF IsApp, Weight
<1>2. ASSUME NEW f, NEW v PROVE ~IsApp(Content(f, v)) /\ Weight(Content(f, v)) = Bytes(f, v)
  <2>1. DOMAIN Content(f, v) = {"file", "version"} /\ Content(f, v).file = f /\ Content(f, v).version = v
    BY DEF Content
  <2> QED
    BY <2>1 DEF IsApp, Weight
<1>3. ASSUME NEW files PROVE ~IsApp(View(files)) /\ Weight(View(files)) = BundleBytes(files)
  <2>1. DOMAIN View(files) = {"view"} /\ View(files).view = files
    BY DEF View
  <2> QED
    BY <2>1 DEF IsApp, Weight
<1>4. ASSUME NEW p, NEW r, NEW l, NEW c
      PROVE  /\ IsApp(App(p, r, l, c)) /\ Weight(App(p, r, l, c)) = 1
             /\ App(p, r, l, c).requires = r /\ App(p, r, l, c).primary = p
             /\ App(p, r, l, c).layers = l /\ App(p, r, l, c).children = c
  <2>1. DOMAIN App(p, r, l, c) = {"primary", "requires", "layers", "children"}
    BY DEF App
  <2>2. /\ App(p, r, l, c).requires = r /\ App(p, r, l, c).primary = p
        /\ App(p, r, l, c).layers = l /\ App(p, r, l, c).children = c
    BY DEF App
  <2> QED
    BY <2>1, <2>2 DEF IsApp, Weight
<1> QED
  BY <1>1, <1>2, <1>3, <1>4

LEMMA WholeWith ==
  ASSUME NEW B, Whole(B), NEW o, Weight(o) \in Nat, ~IsApp(o)
  PROVE  Whole(B \cup {o})
  BY DEF Whole, Sane

\* An accepted child is grounded in what its archive embeds, which a thin one is not.
LEMMA ChildIsWhole ==
  ASSUME NEW a, Made(a), AcceptsChild(a)
  PROVE  Grounded(a.manifest, a.blobs)
<1> PICK B : Grounded(a.manifest, B) /\ a.blobs \in {{}, B}
  BY DEF Made
<1>1. a.manifest.requires \in References(a.manifest)
  BY DEF References
<1>2. a.manifest.requires # a.manifest
  BY DEF Grounded
<1>3. a.manifest.requires \in a.blobs
  BY <1>1, <1>2 DEF AcceptsChild, SelfContained
<1> QED
  BY <1>3

\* What the compiler writes is grounded in what it embeds.
LEMMA Assembles ==
  ASSUME NEW x, JobIs(x), NEW p
  PROVE  Grounded(App(p, Caps(Manifest[x.spec].requires.rights), x.layers, x.children), x.blobs)
<1> DEFINE r == Caps(Manifest[x.spec].requires.rights)
           m == App(p, r, x.layers, x.children)
<1>1. /\ IsApp(m) /\ Weight(m) = 1 /\ m.requires = r /\ m.layers = x.layers
      /\ m.children = x.children /\ ~IsApp(r)
  BY Kinds
<1> HIDE DEF m, r
<1>2. r \in x.blobs
  BY DEF JobIs, r
<1>3. References(m) \subseteq x.blobs
  BY <1>1, <1>2 DEF References, JobIs
<1> QED
  BY <1>1, <1>3 DEF Grounded, JobIs, Sane, m, r

\* A layer, and a child, more.
LEMMA LayerAdded ==
  ASSUME NEW x, JobIs(x), NEW y, NEW o, NEW l, Weight(o) \in Nat, ~IsApp(o), l.content = o,
         y = [x EXCEPT !.phase = "layers", !.files = <<>>, !.stat = 0, !.statted = {},
                       !.layers = Append(@, l), !.blobs = @ \cup {o}]
  PROVE  JobIs(y) /\ y.phase = "layers"
<1>1. DOMAIN x = Fields
  BY DEF JobIs
<1>2. /\ DOMAIN y = Fields /\ y.spec = x.spec /\ y.phase = "layers"
      /\ y.layers = Append(x.layers, l) /\ y.blobs = x.blobs \cup {o} /\ y.children = x.children
      /\ y.statted = {} /\ y.files = <<>>
  BY <1>1 DEF Fields
<1>3. IsFiniteSet(DOMAIN y.files) /\ DOMAIN y.files = {}
  BY <1>2, EmptyList, FS_EmptySet
<1>4. Whole(y.blobs)
  BY <1>2, WholeWith DEF JobIs
<1>5. ListOf(y.layers) /\ \A i \in DOMAIN y.layers : y.layers[i].content \in y.blobs
  <2>1. /\ ListOf(y.layers) /\ Len(x.layers) \in Nat /\ DOMAIN x.layers = 1..Len(x.layers)
        /\ DOMAIN y.layers = 1..Len(x.layers) + 1
        /\ \A i \in 1..Len(x.layers) : y.layers[i] = x.layers[i]
        /\ y.layers[Len(x.layers) + 1] = l
    BY <1>2, ListGrows DEF JobIs
  <2>2. \A i \in 1..Len(x.layers) : x.layers[i].content \in x.blobs
    BY <2>1 DEF JobIs
  <2>3. \A i \in 1..Len(x.layers) + 1 : i \in 1..Len(x.layers) \/ i = Len(x.layers) + 1
    BY <2>1
  <2> QED
    BY <1>2, <2>1, <2>2, <2>3
<1> QED
  BY <1>2, <1>3, <1>4, <1>5 DEF JobIs

GetsChild(x, y, a, c, r) ==
    y = [x EXCEPT !.children = Append(@, c), !.blobs = @ \cup a.blobs \cup {a.manifest, Caps(r)}]

LEMMA ChildAdded ==
  ASSUME NEW x, JobIs(x), NEW y, NEW a, Grounded(a.manifest, a.blobs), NEW r, NEW c,
         c.application = a.manifest, c.capabilities = Caps(r), GetsChild(x, y, a, c, r)
  PROVE  JobIs(y) /\ y.phase = x.phase
<1>1. DOMAIN x = Fields
  BY DEF JobIs
<1>2. /\ DOMAIN y = Fields /\ y.spec = x.spec /\ y.phase = x.phase /\ y.files = x.files
      /\ y.blobs = x.blobs \cup a.blobs \cup {a.manifest, Caps(r)} /\ y.layers = x.layers
      /\ y.statted = x.statted /\ y.children = Append(x.children, c)
  BY <1>1 DEF Fields, GetsChild
<1>3. Whole(y.blobs)
  BY <1>2, Kinds DEF JobIs, Whole, Grounded, Sane
<1>4. ListOf(y.children)
      /\ \A i \in DOMAIN y.children :
            y.children[i].application \in y.blobs /\ y.children[i].capabilities \in y.blobs
  <2>1. /\ ListOf(y.children) /\ Len(x.children) \in Nat /\ DOMAIN x.children = 1..Len(x.children)
        /\ DOMAIN y.children = 1..Len(x.children) + 1
        /\ \A i \in 1..Len(x.children) : y.children[i] = x.children[i]
        /\ y.children[Len(x.children) + 1] = c
    BY <1>2, ListGrows DEF JobIs
  <2>2. \A i \in 1..Len(x.children) :
           x.children[i].application \in x.blobs /\ x.children[i].capabilities \in x.blobs
    BY <2>1 DEF JobIs
  <2>3. \A i \in 1..Len(x.children) + 1 : i \in 1..Len(x.children) \/ i = Len(x.children) + 1
    BY <2>1
  <2> QED
    BY <1>2, <2>1, <2>2, <2>3
<1> QED
  BY <1>2, <1>3, <1>4 DEF JobIs

LEMMA JobMoves ==
  ASSUME CompileInv, NEW j \in Jobs, NEW y, job' = [job EXCEPT ![j] = y],
         y = IdleJob \/ (y.phase # "idle" /\ JobIs(y)), UNCHANGED <<disk, out, built>>
  PROVE  CompileInv'
<1>1. DOMAIN job' = Jobs /\ job'[j] = y /\ \A k \in Jobs : k # j => job'[k] = job[k]
  BY DEF CompileInv
<1>2. ASSUME NEW k \in Jobs PROVE job'[k] = IdleJob \/ (job'[k].phase # "idle" /\ JobIs(job'[k]))
  <2>1. CASE k = j
    BY <1>1, <2>1
  <2>2. CASE k # j
    BY <1>1, <2>2 DEF CompileInv
  <2> QED
    BY <2>1, <2>2
<1> QED
  BY <1>1, <1>2 DEF CompileInv

LEMMA JobFails ==
  ASSUME CompileInv, NEW j \in Jobs, Fail(j), UNCHANGED <<disk, out, built>>
  PROVE  CompileInv'
  BY JobMoves DEF Fail

\* A version of a file has a length.
LEMMA FileHasLength ==
  ASSUME NEW f \in Files, NEW v \in Versions(f)
  PROVE  Bytes(f, v) \in Nat
<1>1. Size[f] \in Seq(Nat)
  BY CompileAssumption
<1> QED
  BY <1>1 DEF Bytes, Versions

LEMMA Working ==
  ASSUME CompileInv, NEW j \in Jobs, job[j].phase # "idle"
  PROVE  JobIs(job[j]) /\ DOMAIN job[j] = Fields /\ job[j].spec \in Specs
<1>1. IdleJob.phase = "idle"
  BY DEF IdleJob
<1>2. JobIs(job[j])
  BY <1>1 DEF CompileInv
<1> QED
  BY <1>2 DEF JobIs

\* The next layer is one of the source's.
LEMMA NextLayerIs ==
  ASSUME CompileInv, NEW j \in Jobs, MoreLayers(j)
  PROVE  /\ JobIs(job[j]) /\ job[j].phase = "layers"
         /\ NextLayer(j).kind # "view" \/ NextLayer(j).from # "path" => NextLayer(j).file \in Files
<1>1. job[j].phase = "layers" /\ Len(job[j].layers) < Len(Source(j).layers)
  BY DEF MoreLayers
<1>2. JobIs(job[j]) /\ job[j].spec \in Specs
  BY <1>1, Working
<1>3. ListOf(job[j].layers) /\ ListOf(Source(j).layers)
  BY <1>2, CompileAssumption DEF JobIs, Source
<1>4. Len(job[j].layers) + 1 \in DOMAIN Source(j).layers
  BY <1>1, <1>3, ListGrows
<1> QED
  BY <1>1, <1>2, <1>4, CompileAssumption DEF NextLayer, Source

LEMMA AddLayerHolds ==
  ASSUME CompileInv, NEW j \in Jobs, job[j].phase # "idle", NEW o, Weight(o) \in Nat, ~IsApp(o),
         AddLayer(j, o), UNCHANGED <<disk, out, built>>
  PROVE  CompileInv'
<1>1. JobIs(job[j])
  BY Working
<1> DEFINE l == [kind |-> NextLayer(j).kind, contract |-> NextLayer(j).contract, content |-> o]
           x == job[j]
           y == [x EXCEPT !.phase = "layers", !.files = <<>>, !.stat = 0, !.statted = {},
                          !.layers = Append(@, l), !.blobs = @ \cup {o}]
<1>2. l.content = o
  OBVIOUS
<1>3. job' = [job EXCEPT ![j] = y]
  BY <1>1 DEF AddLayer, CompileInv, JobIs, Fields
<1> HIDE DEF l
<1>4. JobIs(y) /\ y.phase = "layers"
  BY <1>1, <1>2, LayerAdded
<1> HIDE DEF y
<1> QED
  BY <1>3, <1>4, JobMoves

LEMMA ReadsFile ==
  ASSUME CompileInv, NEW j \in Jobs, MoreLayers(j), NextLayer(j).kind # "view" \/ NextLayer(j).from # "path",
         AddLayer(j, Content(NextLayer(j).file, disk[NextLayer(j).file])), UNCHANGED <<disk, out, built>>
  PROVE  CompileInv'
<1> PICK f : f = NextLayer(j).file
  OBVIOUS
<1>1. f \in Files /\ job[j].phase = "layers"
  BY NextLayerIs
<1>2. Bytes(f, disk[f]) \in Nat
  BY <1>1, FileHasLength DEF CompileInv
<1>3. Weight(Content(f, disk[f])) \in Nat /\ ~IsApp(Content(f, disk[f]))
  BY <1>2, Kinds
<1> QED
  BY <1>1, <1>3, AddLayerHolds

LEMMA CompileStartHolds ==
  ASSUME CompileInv, NEW j \in Jobs, NEW s \in Specs, NEW mode, CompileStart(j, s, mode)
  PROVE  CompileInv'
<1>1. CASE Fail(j)
  BY <1>1, JobFails DEF CompileStart
<1>2. CASE ~Fail(j)
  <2> DEFINE r == Caps(Manifest[s].requires.rights)
             y == [phase |-> "layers", spec |-> s, mode |-> mode, layers |-> <<>>,
                   children |-> <<>>, blobs |-> {r}, files |-> <<>>, stat |-> 0, statted |-> {}]
  <2>1. job' = [job EXCEPT ![j] = y] /\ UNCHANGED <<disk, out, built>>
    BY <1>2 DEF CompileStart
  <2>2. ~IsApp(r) /\ Weight(r) = 1
    BY Kinds
  <2> HIDE DEF r
  <2>3. Whole({r})
    BY <2>2 DEF Whole, Sane
  <2>4. DOMAIN y = Fields
    BY DEF Fields
  <2>5. /\ y.spec = s /\ y.phase = "layers" /\ y.layers = <<>> /\ y.children = <<>> /\ y.blobs = {r}
        /\ y.files = <<>> /\ y.statted = {}
    OBVIOUS
  <2> HIDE DEF y
  <2>6. IsFiniteSet(DOMAIN y.files) /\ DOMAIN y.files = {} /\ DOMAIN y.layers = {} /\ DOMAIN y.children = {}
        /\ ListOf(y.layers) /\ ListOf(y.children)
    BY <2>5, EmptyList, FS_EmptySet
  <2>7. JobIs(y)
    BY <2>3, <2>4, <2>5, <2>6 DEF JobIs, r
  <2> QED
    BY <2>1, <2>5, <2>7, JobMoves
<1> QED
  BY <1>1, <1>2

LEMMA ReadFileHolds ==
  ASSUME CompileInv, NEW j \in Jobs, ReadFile(j)
  PROVE  CompileInv'
<1> PICK f \in job[j].statted :
       job' = [job EXCEPT ![j].statted = {},
                          ![j].files = [g \in DOMAIN @ \cup {f} |-> IF g = f THEN disk[f] ELSE @[g]]]
  BY DEF ReadFile
<1>1. JobIs(job[j]) /\ job[j].phase = "collect" /\ UNCHANGED <<disk, out, built>>
  BY Working DEF ReadFile
<1> DEFINE x == job[j]
           fs == [g \in DOMAIN x.files \cup {f} |-> IF g = f THEN disk[f] ELSE x.files[g]]
           y == [x EXCEPT !.statted = {}, !.files = fs]
<1>2. f \in Files /\ disk[f] \in Versions(f)
  BY <1>1 DEF JobIs, CompileInv
<1>3. job' = [job EXCEPT ![j] = y]
  BY <1>1 DEF CompileInv, JobIs, Fields
<1>4. IsFiniteSet(DOMAIN fs)
  BY <1>1, FS_AddElement DEF JobIs
<1>5. \A g \in DOMAIN fs : g \in Files /\ fs[g] \in Versions(g)
  BY <1>1, <1>2 DEF JobIs
<1> HIDE DEF fs
<1>6. /\ DOMAIN y = Fields /\ y.spec = x.spec /\ y.phase = x.phase /\ y.files = fs /\ y.blobs = x.blobs
      /\ y.layers = x.layers /\ y.children = x.children /\ y.statted = {}
  BY <1>1 DEF JobIs, Fields
<1> HIDE DEF y
<1>7. JobIs(y) /\ y.phase = "collect"
  BY <1>1, <1>4, <1>5, <1>6 DEF JobIs
<1> QED
  BY <1>1, <1>3, <1>7, JobMoves

LEMMA StatFileHolds ==
  ASSUME CompileInv, NEW j \in Jobs, NEW f \in Files, StatFile(j, f)
  PROVE  CompileInv'
<1>1. JobIs(job[j]) /\ job[j].phase = "collect" /\ UNCHANGED <<disk, out, built>>
  BY Working DEF StatFile
<1>2. CASE Fail(j)
  BY <1>1, <1>2, JobFails
<1>3. CASE ~Fail(j)
  <2> DEFINE x == job[j]
             y == [x EXCEPT !.stat = @ + Bytes(f, disk[f]), !.statted = {f}]
  <2>1. job' = [job EXCEPT ![j].stat = @ + Bytes(f, disk[f]), ![j].statted = {f}]
    BY <1>3 DEF StatFile
  <2>2. job' = [job EXCEPT ![j] = y]
    BY <1>1, <2>1 DEF CompileInv, JobIs, Fields
  <2>3. /\ DOMAIN y = Fields /\ y.spec = x.spec /\ y.phase = x.phase /\ y.files = x.files /\ y.blobs = x.blobs
        /\ y.layers = x.layers /\ y.children = x.children /\ y.statted = {f}
    BY <1>1 DEF JobIs, Fields
  <2> HIDE DEF y
  <2>4. JobIs(y) /\ y.phase = "collect"
    BY <1>1, <2>3 DEF JobIs
  <2> QED
    BY <1>1, <2>2, <2>4, JobMoves
<1> QED
  BY <1>2, <1>3

LEMMA OpenViewHolds ==
  ASSUME CompileInv, NEW j \in Jobs, OpenView(j)
  PROVE  CompileInv'
<1>1. JobIs(job[j]) /\ UNCHANGED <<disk, out, built>> /\ job' = [job EXCEPT ![j].phase = "collect"]
  BY Working DEF OpenView, MoreLayers
<1> DEFINE x == job[j]
           y == [x EXCEPT !.phase = "collect"]
<1>2. job' = [job EXCEPT ![j] = y]
  BY <1>1 DEF CompileInv, JobIs, Fields
<1>3. /\ DOMAIN y = Fields /\ y.spec = x.spec /\ y.phase = "collect" /\ y.files = x.files /\ y.blobs = x.blobs
      /\ y.layers = x.layers /\ y.children = x.children /\ y.statted = x.statted
  BY <1>1 DEF JobIs, Fields
<1> HIDE DEF y
<1>4. JobIs(y)
  BY <1>1, <1>3 DEF JobIs
<1> QED
  BY <1>1, <1>2, <1>3, <1>4, JobMoves

LEMMA EncodeViewHolds ==
  ASSUME CompileInv, NEW j \in Jobs, EncodeView(j)
  PROVE  CompileInv'
<1>1. JobIs(job[j]) /\ job[j].phase = "collect" /\ UNCHANGED <<disk, out, built>>
  BY Working DEF EncodeView
<1>2. CASE Fail(j)
  BY <1>1, <1>2, JobFails
<1>3. CASE AddLayer(j, View(job[j].files))
  <2>1. BundleBytes(job[j].files) \in Nat
    BY <1>1, FileHasLength, BundleHasLength DEF JobIs
  <2>2. Weight(View(job[j].files)) \in Nat /\ ~IsApp(View(job[j].files))
    BY <2>1, Kinds
  <2> QED
    BY <1>1, <1>3, <2>2, AddLayerHolds
<1> QED
  BY <1>2, <1>3 DEF EncodeView

LEMMA CompileChildHolds ==
  ASSUME CompileInv, NEW j \in Jobs, CompileChild(j)
  PROVE  CompileInv'
<1> DEFINE i == Len(job[j].children) + 1
           c == Source(j).children[i]
           a == out[c.application]
           r == c.capabilities.rights
           k == [application |-> a.manifest, capabilities |-> Caps(r)]
           x == job[j]
           y == [x EXCEPT !.children = Append(@, k), !.blobs = @ \cup a.blobs \cup {a.manifest, Caps(r)}]
<1>1. JobIs(x) /\ x.spec \in Specs /\ x.phase = "layers" /\ UNCHANGED <<disk, out, built>>
      /\ i <= Len(Source(j).children)
  BY Working, Zenon DEF CompileChild
<1>2. ListOf(x.children) /\ ListOf(Source(j).children)
  BY <1>1, CompileAssumption DEF JobIs, Source
<1>3. i \in DOMAIN Source(j).children
  BY <1>1, <1>2, ListGrows
<1>4. c.application \in Specs
  BY <1>1, <1>3, CompileAssumption DEF Source
<1>5. CASE Fail(j)
  BY <1>1, <1>5, JobFails
<1>6. CASE ~Fail(j)
  <2>1. AcceptsChild(a) /\ job' = [job EXCEPT ![j].children = Append(@, k),
                                  ![j].blobs = @ \cup a.blobs \cup {a.manifest, Caps(r)}]
    BY <1>6, Zenon DEF CompileChild
  <2>2. RequireCurrent(a)
    BY <2>1, Zenon DEF AcceptsChild
  <2>3. Made(a)
    BY <1>4, <2>2 DEF CompileInv
  <2>4. Grounded(a.manifest, a.blobs)
    BY <2>1, <2>3, ChildIsWhole, Zenon
  <2>5. job' = [job EXCEPT ![j] = y]
    BY <1>1, <2>1, Zenon DEF CompileInv, JobIs, Fields
  <2>6. k.application = a.manifest /\ k.capabilities = Caps(r)
    OBVIOUS
  <2>b. PICK b, q, l, z, u : b = a /\ q = r /\ l = k /\ z = y /\ u = x
    BY Zenon
  <2>c. GetsChild(u, z, b, l, q) /\ JobIs(u)
    BY <1>1, <2>b, Zenon DEF GetsChild
  <2> HIDE DEF a, r, k, y, x
  <2>d. Grounded(b.manifest, b.blobs) /\ l.application = b.manifest /\ l.capabilities = Caps(q)
    BY <2>4, <2>6, <2>b
  <2>e. JobIs(z) /\ z.phase = u.phase
    BY <2>c, <2>d, ChildAdded
  <2>7. JobIs(y) /\ y.phase = x.phase
    BY <2>b, <2>e
  <2> QED
    BY <1>1, <2>5, <2>7, JobMoves
<1> QED
  BY <1>5, <1>6

LEMMA WriteBeginHolds ==
  ASSUME CompileInv, NEW j \in Jobs, WriteBegin(j)
  PROVE  CompileInv'
<1>1. /\ JobIs(job[j]) /\ job[j].spec \in Specs /\ disk' = disk /\ built' = built
      /\ out' = [out EXCEPT ![job[j].spec] = TornArchive]
      /\ job' = [job EXCEPT ![j].phase = "writing"]
  BY Working DEF WriteBegin, Assembled
<1> DEFINE x == job[j]
           y == [x EXCEPT !.phase = "writing"]
<1>2. job' = [job EXCEPT ![j] = y]
  BY <1>1 DEF CompileInv, JobIs, Fields
<1>3. /\ DOMAIN y = Fields /\ y.spec = x.spec /\ y.phase = "writing" /\ y.files = x.files /\ y.blobs = x.blobs
      /\ y.layers = x.layers /\ y.children = x.children /\ y.statted = x.statted
  BY <1>1 DEF JobIs, Fields
<1> HIDE DEF y
<1>4. JobIs(y)
  BY <1>1, <1>3 DEF JobIs
<1>5. DOMAIN job' = Jobs /\ job'[j] = y /\ \A k \in Jobs : k # j => job'[k] = job[k]
  BY <1>2 DEF CompileInv
<1>6. ASSUME NEW k \in Jobs PROVE job'[k] = IdleJob \/ (job'[k].phase # "idle" /\ JobIs(job'[k]))
  BY <1>3, <1>4, <1>5 DEF CompileInv
<1>7. ~RequireCurrent(TornArchive)
  BY DEF RequireCurrent, TornArchive, CurrentVersion
<1>8. DOMAIN out' = Specs /\ \A s \in Specs : RequireCurrent(out'[s]) => Made(out'[s])
  BY <1>1, <1>7 DEF CompileInv
<1> QED
  BY <1>1, <1>5, <1>6, <1>8 DEF CompileInv

LEMMA WriteEndHolds ==
  ASSUME CompileInv, NEW j \in Jobs, WriteEnd(j)
  PROVE  CompileInv'
<1>1. /\ JobIs(job[j]) /\ job[j].spec \in Specs /\ disk' = disk /\ built' = built \cup {Compiled(j)}
      /\ out' = [out EXCEPT ![job[j].spec] = Compiled(j)] /\ Fail(j)
  BY Working DEF WriteEnd
<1>2. Made(Compiled(j))
  <2> DEFINE m == App(Source(j).primary, Caps(Source(j).requires.rights), job[j].layers, job[j].children)
  <2>1. Grounded(m, job[j].blobs)
    BY <1>1, Assembles DEF Source
  <2>2. Compiled(j).manifest = m /\ Compiled(j).blobs \in {{}, job[j].blobs}
    BY DEF Compiled, Archive
  <2> HIDE DEF m
  <2> QED
    BY <2>1, <2>2 DEF Made
<1>3. DOMAIN job' = Jobs /\ job'[j] = IdleJob /\ \A k \in Jobs : k # j => job'[k] = job[k]
  BY <1>1 DEF CompileInv, Fail
<1>4. ASSUME NEW k \in Jobs PROVE job'[k] = IdleJob \/ (job'[k].phase # "idle" /\ JobIs(job'[k]))
  BY <1>3 DEF CompileInv
<1>5. DOMAIN out' = Specs /\ \A s \in Specs : RequireCurrent(out'[s]) => Made(out'[s])
  BY <1>1, <1>2 DEF CompileInv
<1>6. \A a \in built' : Made(a)
  BY <1>1, <1>2 DEF CompileInv
<1> QED
  BY <1>1, <1>3, <1>4, <1>5, <1>6 DEF CompileInv

LEMMA EditHolds ==
  ASSUME CompileInv, NEW f \in Files, Edit(f)
  PROVE  CompileInv'
<1>1. Size[f] \in Seq(Nat)
  BY CompileAssumption
<1>2. disk' = [disk EXCEPT ![f] = @ + 1] /\ disk[f] < Len(Size[f]) /\ disk[f] \in 1..Len(Size[f])
  BY DEF Edit, CompileInv, Versions
<1>3. Len(Size[f]) \in Nat
  BY <1>1
<1>4. disk[f] + 1 \in Versions(f)
  BY <1>2, <1>3 DEF Versions
<1>5. DOMAIN disk' = Files /\ \A g \in Files : disk'[g] \in Versions(g)
  BY <1>2, <1>4 DEF CompileInv
<1> QED
  BY <1>5 DEF CompileInv, Edit

\* Every step of the compilers and of the developer keeps what they assembled whole.
LEMMA CompileStepHolds ==
  ASSUME CompileInv, NEW j \in Jobs, CompileStep(j)
  PROVE  CompileInv'
<1>1. CASE \E s \in Specs, mode \in {"fat", "thin", "check"} : CompileStart(j, s, mode)
  BY <1>1, CompileStartHolds
<1>2. CASE ReadLayer(j)
  BY <1>2, ReadsFile DEF ReadLayer
<1>3. CASE BuildPython(j)
  BY <1>3, ReadsFile, JobFails DEF BuildPython
<1>4. CASE OpenView(j)
  BY <1>4, OpenViewHolds
<1>5. CASE \E f \in Files : StatFile(j, f)
  BY <1>5, StatFileHolds
<1>6. CASE ReadFile(j)
  BY <1>6, ReadFileHolds
<1>7. CASE EncodeView(j)
  BY <1>7, EncodeViewHolds
<1>8. CASE CompileChild(j)
  BY <1>8, CompileChildHolds
<1>9. CASE CheckDone(j)
  BY <1>9, JobFails DEF CheckDone
<1>10. CASE WriteBegin(j)
  BY <1>10, WriteBeginHolds
<1>11. CASE WriteEnd(j)
  BY <1>11, WriteEndHolds
<1>12. CASE Killed(j)
  BY <1>12, JobFails DEF Killed
<1> QED
  BY <1>1, <1>2, <1>3, <1>4, <1>5, <1>6, <1>7, <1>8, <1>9, <1>10, <1>11, <1>12 DEF CompileStep

LEMMA CompileHolds == CompileInv /\ PlanNext => CompileInv'
<1>1. ASSUME CompileInv, UNCHANGED compileVars PROVE CompileInv'
  BY <1>1 DEF compileVars, CompileInv
<1>2. ASSUME CatalogStep PROVE UNCHANGED compileVars
  BY <1>2 DEF CatalogStep, ImportStart, CacheBlob, ImportEnd, ImportFails, RemoveEntry, Rot
<1>3. ASSUME PlanStep PROVE UNCHANGED compileVars
  BY <1>3, Zenon DEF PlanStep, PlanStart, PopApplication, ResolveRequires, ResolveLayer, Halt,
     SkipChild, ResolveDelegated, ResolveChild, WalkDone, IntoPlan, AdmitRoot, AdmitChild,
     Admitted, PlanEnd
<1> QED
  BY <1>1, <1>2, <1>3, CompileStepHolds, EditHolds DEF PlanNext

LEMMA CompileStarts == CompileInit => CompileInv
<1> SUFFICES ASSUME CompileInit PROVE CompileInv
  OBVIOUS
<1>1. ASSUME NEW f \in Files PROVE 1 \in Versions(f)
  <2>1. Size[f] \in Seq(Nat) /\ Size[f] # <<>>
    BY CompileAssumption
  <2> QED
    BY <2>1 DEF Versions
<1>2. ~RequireCurrent(NoArchive)
  BY DEF RequireCurrent, NoArchive, CurrentVersion
<1> QED
  BY <1>1, <1>2 DEF CompileInit, CompileInv

----------------------------------------------------------------------------
(* The tree of a grounded manifest.                                         *)

NodeIn(m, B, p, n) ==
    /\ p \in Seq(Nat) /\ Len(p) = n
    /\ AppAt(m, p) \in B \cup {m}
    /\ n > 0 => AppAt(m, p) \in B /\ Edge(m, p).capabilities \in B

LEMMA ChildIn ==
  ASSUME NEW m, NEW B, Grounded(m, B), NEW p, NEW n \in Nat, NodeIn(m, B, p, n),
         NEW i \in DOMAIN Children(AppAt(m, p))
  PROVE  NodeIn(m, B, Append(p, i), n + 1)
<1> PICK o : o = AppAt(m, p)
  OBVIOUS
<1>1. Sane(o) /\ (IsApp(o) => References(o) \subseteq B)
  BY DEF Grounded, Whole, NodeIn
<1>2. ValidApp(o) /\ Children(o) = o.children
  <2>1. CASE ~ValidApp(o)
    BY <2>1, EmptyList DEF Children
  <2> QED
    BY <2>1 DEF Children
<1>3. ListOf(o.children) /\ References(o) \subseteq B
  BY <1>1, <1>2 DEF Sane, ValidApp
<1>4. i \in Nat /\ i \in DOMAIN o.children
  BY <1>2, <1>3, ListGrows
<1>5. o.children[i].application \in B /\ o.children[i].capabilities \in B
  BY <1>3, <1>4 DEF References
<1>6. p \in Seq(Nat) /\ Len(p) = n
  BY DEF NodeIn
<1>7. /\ Append(p, i) \in Seq(Nat) /\ Len(Append(p, i)) = Len(p) + 1
      /\ AppAt(m, Append(p, i)) = AppAt(m, p).children[i].application
      /\ Edge(m, Append(p, i)) = AppAt(m, p).children[i]
  BY <1>4, <1>6, AppAtChild
<1> QED
  BY <1>5, <1>6, <1>7 DEF NodeIn

LEMMA NodesIn ==
  ASSUME NEW m, NEW B, Grounded(m, B)
  PROVE  \A n \in 0..MaxDepth + 1 : \A p \in Level(m)[n] : NodeIn(m, B, p, n)
<1> DEFINE P == {n \in Nat : n <= MaxDepth + 1 => \A p \in Level(m)[n] : NodeIn(m, B, p, n)}
<1>0. /\ MaxDepth \in Nat /\ Level(m)[0] = {<<>>}
      /\ \A n \in 0..MaxDepth : Level(m)[n + 1] = Sprouts(m, Level(m)[n])
  BY Levels
<1>1. 0 \in P
  <2>1. <<>> \in Seq(Nat) /\ Len(<<>>) = 0
    OBVIOUS
  <2>2. NodeIn(m, B, <<>>, 0)
    BY <2>1, AppAtRoot DEF NodeIn
  <2> QED
    BY <1>0, <2>2
<1>2. ASSUME NEW n \in Nat, n \in P PROVE n + 1 \in P
  <2> SUFFICES ASSUME n + 1 <= MaxDepth + 1, NEW q \in Level(m)[n + 1] PROVE NodeIn(m, B, q, n + 1)
    OBVIOUS
  <2>1. n \in 0..MaxDepth /\ n <= MaxDepth + 1
    BY <1>0
  <2>2. PICK p \in Level(m)[n] : \E i \in DOMAIN Children(AppAt(m, p)) : q = Append(p, i)
    BY <1>0, <2>1 DEF Sprouts
  <2>3. NodeIn(m, B, p, n)
    BY <1>2, <2>1
  <2> QED
    BY <2>2, <2>3, ChildIn
<1> HIDE DEF P
<1>3. Nat \subseteq P
  BY <1>1, <1>2, Inducts
<1> QED
  BY <1>0, <1>3 DEF P

\* A grounded manifest needs only what it is grounded in, and its tree is well formed.
LEMMA NeedsIn ==
  ASSUME NEW m, NEW B, Grounded(m, B)
  PROVE  Needs(m) \subseteq B /\ WellFormed(m)
<1>1. ASSUME NEW p \in Tree(m) PROVE \E n \in 0..MaxDepth + 1 : p \in Level(m)[n] /\ NodeIn(m, B, p, n)
  BY NodesIn, TreeIs
<1>2. ASSUME NEW p \in Inner(m) PROVE AppAt(m, p) \in B /\ Edge(m, p).capabilities \in B
  <2>1. p \in Tree(m) /\ p # <<>>
    BY DEF Inner
  <2>2. PICK n \in 0..MaxDepth + 1 : p \in Level(m)[n] /\ NodeIn(m, B, p, n)
    BY <1>1, <2>1
  <2>3. n # 0
    BY <2>1, <2>2, Levels
  <2>4. MaxDepth \in Nat
    BY Levels
  <2> QED
    BY <2>2, <2>3, <2>4 DEF NodeIn
<1>3. ASSUME NEW p \in Sound(m)
      PROVE  IsApp(AppAt(m, p)) /\ Sane(AppAt(m, p)) /\ References(AppAt(m, p)) \subseteq B
  <2>1. p \in Tree(m) /\ IsApp(AppAt(m, p))
    BY DEF Sound, ValidApp
  <2>2. AppAt(m, p) \in B \cup {m}
    BY <1>1, <2>1 DEF NodeIn
  <2> QED
    BY <2>1, <2>2 DEF Grounded, Whole
<1>4. ASSUME NEW p \in Sound(m) PROVE AppAt(m, p).requires \in B
  BY <1>3 DEF References
<1>5. ASSUME NEW l \in TreeLayers(m) PROVE LayerAt(m, l).content \in B
  <2> PICK p \in Sound(m) : \E i \in DOMAIN AppAt(m, p).layers : l = <<p, i>>
    BY <1>5 DEF TreeLayers
  <2> PICK i \in DOMAIN AppAt(m, p).layers : l = <<p, i>>
    OBVIOUS
  <2>1. LayerAt(m, l) = AppAt(m, p).layers[i]
    BY DEF LayerAt
  <2>2. References(AppAt(m, p)) \subseteq B
    BY <1>3
  <2> QED
    BY <2>1, <2>2 DEF References
<1>6. Needs(m) \subseteq B
  BY <1>2, <1>4, <1>5 DEF Needs
<1>7. \A o \in Needs(m) : Weight(o) \in Nat
  BY <1>6 DEF Grounded, Whole, Sane
<1> QED
  BY <1>3, <1>6, <1>7 DEF WellFormed, Sane

\* What a compiler writes with its content has everything its tree of children needs
\* (compile_child's check of self-containedness), whatever was compiled, edited or torn
\* meanwhile; a catalogued archive has its content in the cache (HoloCatalog::import).
THEOREM ArchivesWhole == Spec => []ArchivesAreWhole
<1>1. Init => CompileInv
  BY CompileStarts DEF Init, PlanInit
<1>2. CompileInv /\ [Next]_vars => CompileInv'
  <2>1. CompileInv /\ UNCHANGED compileVars => CompileInv'
    BY DEF compileVars, CompileInv
  <2>2. [Next]_vars => PlanNext \/ UNCHANGED compileVars
    BY DEF Next, vars
  <2> QED
    BY <2>1, <2>2, CompileHolds
<1>3. CompileInv /\ CatalogCached => ArchivesAreWhole
  <2> SUFFICES ASSUME CompileInv, CatalogCached, NEW s \in Specs, RequireCurrent(out[s]), out[s].blobs # {}
               PROVE  Needs(out[s].manifest) \subseteq out[s].blobs
    BY DEF ArchivesAreWhole, CatalogCached
  <2>1. PICK B : Grounded(out[s].manifest, B) /\ out[s].blobs \in {{}, B}
    BY DEF CompileInv, Made
  <2> QED
    BY <2>1, NeedsIn
<1> QED
  BY <1>1, <1>2, <1>3, Catalogued, PTL DEF Spec

----------------------------------------------------------------------------
(* A well-formed tree: its nodes, and that there are finitely many of them. *)

WellTree(m) == ValidApp(m) /\ WellFormed(m)

LEMMA ChildNodes ==
  ASSUME NEW o, NEW i \in DOMAIN Children(o)
  PROVE  ValidApp(o) /\ Children(o) = o.children
<1>1. CASE ~ValidApp(o)
  BY <1>1, EmptyList DEF Children
<1> QED
  BY <1>1 DEF Children

LEMMA NodesAre ==
  ASSUME NEW m, WellTree(m)
  PROVE  \A n \in 0..MaxDepth + 1 : \A p \in Level(m)[n] : p \in Seq(Nat) /\ Len(p) = n
<1> DEFINE P == {n \in Nat : n <= MaxDepth + 1 => \A p \in Level(m)[n] : p \in Seq(Nat) /\ Len(p) = n}
<1>0. /\ MaxDepth \in Nat /\ Level(m)[0] = {<<>>}
      /\ \A n \in 0..MaxDepth : Level(m)[n + 1] = Sprouts(m, Level(m)[n])
  BY Levels
<1>1. 0 \in P
  <2>1. <<>> \in Seq(Nat) /\ Len(<<>>) = 0
    OBVIOUS
  <2> QED
    BY <1>0, <2>1
<1>2. ASSUME NEW n \in Nat, n \in P PROVE n + 1 \in P
  <2> SUFFICES ASSUME n + 1 <= MaxDepth + 1, NEW q \in Level(m)[n + 1] PROVE q \in Seq(Nat) /\ Len(q) = n + 1
    OBVIOUS
  <2>1. n \in 0..MaxDepth /\ n <= MaxDepth + 1 /\ n \in 0..MaxDepth + 1
    BY <1>0
  <2>2. PICK p \in Level(m)[n] : \E i \in DOMAIN Children(AppAt(m, p)) : q = Append(p, i)
    BY <1>0, <2>1 DEF Sprouts
  <2>3. PICK i \in DOMAIN Children(AppAt(m, p)) : q = Append(p, i)
    BY <2>2
  <2>4. p \in Tree(m)
    BY <2>1, TreeIs
  <2>5. ValidApp(AppAt(m, p)) /\ Children(AppAt(m, p)) = AppAt(m, p).children
    BY ChildNodes
  <2>6. ListOf(AppAt(m, p).children)
    BY <2>4, <2>5 DEF WellTree, WellFormed, Sound
  <2>7. i \in Nat
    BY <2>5, <2>6, ListGrows
  <2>8. p \in Seq(Nat) /\ Len(p) = n
    BY <1>2, <2>1
  <2> QED
    BY <2>3, <2>7, <2>8, AppAtChild
<1> HIDE DEF P
<1>3. Nat \subseteq P
  BY <1>1, <1>2, Inducts
<1> QED
  BY <1>0, <1>3 DEF P

LEMMA InTree ==
  ASSUME NEW m, WellTree(m), NEW p
  PROVE  p \in Tree(m) <=> p \in Seq(Nat) /\ Len(p) \in 0..MaxDepth + 1 /\ p \in Level(m)[Len(p)]
  BY NodesAre, TreeIs

LEMMA TheRoot ==
  ASSUME NEW m, WellTree(m)
  PROVE  /\ <<>> \in Tree(m) /\ <<>> \in Sound(m) /\ AppAt(m, <<>>) = m /\ Len(<<>>) = 0
         /\ MaxDepth \in Nat
<1>1. MaxDepth \in Nat /\ <<>> \in Level(m)[0]
  BY Levels
<1>2. <<>> \in Tree(m) /\ AppAt(m, <<>>) = m
  BY <1>1, TreeIs, AppAtRoot
<1> QED
  BY <1>1, <1>2 DEF WellTree, Sound

\* The lists of an application of the tree.
LEMMA ListsAre ==
  ASSUME NEW m, WellTree(m), NEW p \in Sound(m)
  PROVE  /\ ListOf(AppAt(m, p).layers) /\ ListOf(AppAt(m, p).children)
         /\ Len(AppAt(m, p).layers) \in Nat /\ DOMAIN AppAt(m, p).layers = 1..Len(AppAt(m, p).layers)
         /\ Len(AppAt(m, p).children) \in Nat /\ DOMAIN AppAt(m, p).children = 1..Len(AppAt(m, p).children)
<1>1. ListOf(AppAt(m, p).layers) /\ ListOf(AppAt(m, p).children)
  BY DEF WellTree, WellFormed
<1> QED
  BY <1>1, ListGrows

\* A child of a node that is not too deep is a node.
LEMMA BelowIs ==
  ASSUME NEW m, WellTree(m), NEW p \in Sound(m), Len(p) <= MaxDepth,
         NEW i \in DOMAIN AppAt(m, p).children
  PROVE  /\ Append(p, i) \in Inner(m) /\ Append(p, i) \in Level(m)[Len(p) + 1]
         /\ Len(Append(p, i)) = Len(p) + 1 /\ Len(p) \in Nat /\ Append(p, i) # <<>>
         /\ AppAt(m, Append(p, i)) = AppAt(m, p).children[i].application
         /\ Edge(m, Append(p, i)) = AppAt(m, p).children[i]
         /\ Front(Append(p, i)) = p
<1>1. p \in Tree(m) /\ ValidApp(AppAt(m, p))
  BY DEF Sound
<1>2. p \in Seq(Nat) /\ Len(p) \in 0..MaxDepth /\ p \in Level(m)[Len(p)] /\ MaxDepth \in Nat
  BY <1>1, InTree, Levels
<1>3. i \in Nat
  BY ListsAre
<1>4. /\ Append(p, i) \in Seq(Nat) /\ Len(Append(p, i)) = Len(p) + 1 /\ Len(p) \in Nat
      /\ AppAt(m, Append(p, i)) = AppAt(m, p).children[i].application
      /\ Edge(m, Append(p, i)) = AppAt(m, p).children[i]
      /\ Front(Append(p, i)) = p
  BY <1>2, <1>3, AppAtChild
<1>5. i \in DOMAIN Children(AppAt(m, p))
  BY <1>1 DEF Children
<1>6. Append(p, i) \in Sprouts(m, Level(m)[Len(p)])
  BY <1>2, <1>5 DEF Sprouts
<1>7. Append(p, i) \in Level(m)[Len(p) + 1]
  BY <1>2, <1>6, Levels
<1>8. Append(p, i) \in Tree(m) /\ Append(p, i) # <<>>
  BY <1>2, <1>4, <1>7, TreeIs
<1> QED
  BY <1>4, <1>7, <1>8 DEF Inner

\* Two children are the same node only as the same child of the same node.
LEMMA OneParent ==
  ASSUME NEW p \in Seq(Nat), NEW q \in Seq(Nat), NEW i \in Nat, NEW j \in Nat, Append(p, i) = Append(q, j)
  PROVE  p = q /\ i = j
<1>1. Front(Append(p, i)) = p /\ Last(Append(p, i)) = i
  BY AppAtChild
<1>2. Front(Append(q, j)) = q /\ Last(Append(q, j)) = j
  BY AppAtChild
<1> QED
  BY <1>1, <1>2

\* What a function makes of a finite set is finite.
LEMMA FiniteImage ==
  ASSUME NEW S, IsFiniteSet(S), NEW f, DOMAIN f = S
  PROVE  IsFiniteSet({f[x] : x \in S})
<1> DEFINE T == {f[x] : x \in S}
           g == [x \in S |-> f[x]]
<1>1. g \in Surjection(S, T)
  BY DEF Surjection
<1> QED
  BY <1>1, FS_Surjection

\* A level is finite, and so are the tree, its layers and its needs.
LEMMA LevelsFinite ==
  ASSUME NEW m, WellTree(m)
  PROVE  \A n \in 0..MaxDepth + 1 : IsFiniteSet(Level(m)[n])
<1> DEFINE P == {n \in Nat : n <= MaxDepth + 1 => IsFiniteSet(Level(m)[n])}
<1>0. /\ MaxDepth \in Nat /\ Level(m)[0] = {<<>>}
      /\ \A n \in 0..MaxDepth : Level(m)[n + 1] = Sprouts(m, Level(m)[n])
  BY Levels
<1>1. 0 \in P
  BY <1>0, FS_Singleton
<1>2. ASSUME NEW n \in Nat, n \in P PROVE n + 1 \in P
  <2> SUFFICES ASSUME n + 1 <= MaxDepth + 1 PROVE IsFiniteSet(Level(m)[n + 1])
    OBVIOUS
  <2>1. n \in 0..MaxDepth /\ n <= MaxDepth + 1 /\ n \in 0..MaxDepth + 1
    BY <1>0
  <2> DEFINE S == Level(m)[n]
             below(p) == {Append(p, i) : i \in DOMAIN Children(AppAt(m, p))}
  <2>2. IsFiniteSet(S)
    BY <1>2, <2>1
  <2>3. ASSUME NEW p \in S PROVE IsFiniteSet(below(p))
    <3>1. IsFiniteSet(DOMAIN Children(AppAt(m, p)))
      <4>1. CASE ~ValidApp(AppAt(m, p))
        BY <4>1, EmptyList, FS_EmptySet DEF Children
      <4>2. CASE ValidApp(AppAt(m, p))
        <5>1. p \in Sound(m)
          BY <2>1, <4>2, TreeIs DEF Sound
        <5>2. DOMAIN Children(AppAt(m, p)) = 1..Len(AppAt(m, p).children)
              /\ Len(AppAt(m, p).children) \in Nat
          BY <4>2, <5>1, ListsAre DEF Children
        <5> QED
          BY <5>2, FS_Interval
      <4> QED
        BY <4>1, <4>2
    <3> DEFINE f == [i \in DOMAIN Children(AppAt(m, p)) |-> Append(p, i)]
    <3>2. IsFiniteSet({f[i] : i \in DOMAIN Children(AppAt(m, p))})
      BY <3>1, FiniteImage
    <3> QED
      BY <3>2
  <2> DEFINE g == [p \in S |-> below(p)]
  <2>g. IsFiniteSet({g[p] : p \in S})
    BY <2>2, FiniteImage
  <2>4. IsFiniteSet({below(p) : p \in S})
    BY <2>g
  <2>5. \A T \in {below(p) : p \in S} : IsFiniteSet(T)
    BY <2>3
  <2>6. IsFiniteSet(UNION {below(p) : p \in S})
    BY <2>4, <2>5, FS_UNION
  <2>7. Level(m)[n + 1] = UNION {below(p) : p \in S}
    BY <1>0, <2>1 DEF Sprouts
  <2> QED
    BY <2>6, <2>7
<1> HIDE DEF P
<1>3. Nat \subseteq P
  BY <1>1, <1>2, Inducts
<1> QED
  BY <1>0, <1>3 DEF P

LEMMA TreeFinite ==
  ASSUME NEW m, WellTree(m)
  PROVE  IsFiniteSet(Tree(m)) /\ IsFiniteSet(TreeLayers(m)) /\ IsFiniteSet(Needs(m))
<1>1. IsFiniteSet(Tree(m))
  <2>1. DOMAIN Level(m) = 0..MaxDepth + 1 /\ MaxDepth \in Nat
    BY Levels
  <2>2. IsFiniteSet(0..MaxDepth + 1)
    BY <2>1, FS_Interval
  <2> DEFINE R == {Level(m)[n] : n \in 0..MaxDepth + 1}
  <2>3. IsFiniteSet(R)
    BY <2>1, <2>2, FiniteImage
  <2>4. IsFiniteSet(UNION R)
    BY <2>3, LevelsFinite, FS_UNION
  <2>5. Tree(m) = UNION R
    BY <2>1 DEF Tree, Range
  <2> QED
    BY <2>4, <2>5
<1>2. IsFiniteSet(Sound(m)) /\ IsFiniteSet(Inner(m))
  BY <1>1, FS_Subset DEF Sound, Inner
<1>3. IsFiniteSet(TreeLayers(m))
  <2> DEFINE of(p) == {<<p, i>> : i \in DOMAIN AppAt(m, p).layers}
  <2>1. ASSUME NEW p \in Sound(m) PROVE IsFiniteSet(of(p))
    <3>1. DOMAIN AppAt(m, p).layers = 1..Len(AppAt(m, p).layers) /\ Len(AppAt(m, p).layers) \in Nat
      BY ListsAre
    <3>2. IsFiniteSet(DOMAIN AppAt(m, p).layers)
      BY <3>1, FS_Interval
    <3> DEFINE f == [i \in DOMAIN AppAt(m, p).layers |-> <<p, i>>]
    <3>3. IsFiniteSet({f[i] : i \in DOMAIN AppAt(m, p).layers})
      BY <3>2, FiniteImage
    <3> QED
      BY <3>3
  <2> DEFINE g == [p \in Sound(m) |-> of(p)]
  <2>g. IsFiniteSet({g[p] : p \in Sound(m)})
    BY <1>2, FiniteImage
  <2>2. IsFiniteSet({of(p) : p \in Sound(m)})
    BY <2>g
  <2>3. IsFiniteSet(UNION {of(p) : p \in Sound(m)})
    BY <2>1, <2>2, FS_UNION
  <2> QED
    BY <2>3 DEF TreeLayers
<1>4. IsFiniteSet(Needs(m))
  <2>1. /\ IsFiniteSet({AppAt(m, p) : p \in Inner(m)})
        /\ IsFiniteSet({Edge(m, p).capabilities : p \in Inner(m)})
        /\ IsFiniteSet({AppAt(m, p).requires : p \in Sound(m)})
        /\ IsFiniteSet({LayerAt(m, l).content : l \in TreeLayers(m)})
    <3> DEFINE f1 == [p \in Inner(m) |-> AppAt(m, p)]
    <3>1f. IsFiniteSet({f1[p] : p \in Inner(m)})
      BY <1>2, FiniteImage
    <3>1. IsFiniteSet({AppAt(m, p) : p \in Inner(m)})
      BY <3>1f
    <3> DEFINE f2 == [p \in Inner(m) |-> Edge(m, p).capabilities]
    <3>2f. IsFiniteSet({f2[p] : p \in Inner(m)})
      BY <1>2, FiniteImage
    <3>2. IsFiniteSet({Edge(m, p).capabilities : p \in Inner(m)})
      BY <3>2f
    <3> DEFINE f3 == [p \in Sound(m) |-> AppAt(m, p).requires]
    <3>3f. IsFiniteSet({f3[p] : p \in Sound(m)})
      BY <1>2, FiniteImage
    <3>3. IsFiniteSet({AppAt(m, p).requires : p \in Sound(m)})
      BY <3>3f
    <3> DEFINE f4 == [l \in TreeLayers(m) |-> LayerAt(m, l).content]
    <3>4f. IsFiniteSet({f4[l] : l \in TreeLayers(m)})
      BY <1>3, FiniteImage
    <3>4. IsFiniteSet({LayerAt(m, l).content : l \in TreeLayers(m)})
      BY <3>4f
    <3> QED
      BY <3>1, <3>2, <3>3, <3>4
  <2> QED
    BY <2>1, FS_Union DEF Needs
<1> QED
  BY <1>1, <1>3, <1>4

----------------------------------------------------------------------------
(* The edges of one application, and those still to resolve.                *)

EdgeSet == [edge : {"requires", "layer", "delegated", "child"}, at : Nat]
Wide(o) == Len(o.layers)
Width(o) == 1 + Len(o.layers) + Len(o.children)

Edge1(kind, i) == [edge |-> kind, at |-> i]
EdgeOf(o, e) ==
    IF e = 1 THEN Edge1("requires", 0)
    ELSE IF e <= 1 + Wide(o) THEN Edge1("layer", e - 1)
    ELSE Edge1("delegated", e - 1 - Wide(o))

TwoLists(o) == ListOf(o.layers) /\ ListOf(o.children)

\* The first t edges are resolved; half says that of the next one, a child, the
\* delegated capabilities are.
TodoIs(o, t, half, todo) ==
    /\ todo \in Seq(EdgeSet) /\ t \in 0..Width(o) /\ Len(todo) = Width(o) - t
    /\ half => t >= 1 + Wide(o) /\ t < Width(o)
    /\ \A x \in 1..Width(o) - t :
          todo[x] = IF half /\ x = 1 THEN Edge1("child", t - Wide(o)) ELSE EdgeOf(o, t + x)

LEMMA WidthIs ==
  ASSUME NEW o, TwoLists(o)
  PROVE  /\ Wide(o) \in Nat /\ Len(o.children) \in Nat /\ Width(o) \in Nat \ {0}
         /\ Width(o) = 1 + Wide(o) + Len(o.children)
         /\ DOMAIN o.layers = 1..Wide(o) /\ DOMAIN o.children = 1..Len(o.children)
<1>1. Len(o.layers) \in Nat /\ DOMAIN o.layers = 1..Len(o.layers)
  BY ListGrows DEF TwoLists
<1>2. Len(o.children) \in Nat /\ DOMAIN o.children = 1..Len(o.children)
  BY ListGrows DEF TwoLists
<1>3. PICK n \in Nat, k \in Nat : n = Len(o.layers) /\ k = Len(o.children)
  BY <1>1, <1>2
<1>4. Wide(o) = n /\ Width(o) = 1 + n + k
  BY <1>3 DEF Wide, Width
<1>5. DOMAIN o.layers = 1..n /\ DOMAIN o.children = 1..k
  BY <1>1, <1>2, <1>3, Zenon
<1>6. n \in Nat /\ k \in Nat /\ 1 + n + k \in Nat \ {0}
  OBVIOUS
<1> QED
  BY ONLY <1>3, <1>4, <1>5, <1>6

LEMMA EdgesAre ==
  ASSUME NEW o, TwoLists(o)
  PROVE  TodoIs(o, 0, FALSE, Edges(o))
<1> PICK n \in Nat, k \in Nat : n = Wide(o) /\ k = Len(o.children)
  BY WidthIs
<1>0. DOMAIN o.layers = 1..n /\ DOMAIN o.children = 1..k /\ Width(o) = 1 + n + k
  BY WidthIs
<1> DEFINE r == <<Edge1("requires", 0)>>
           a == [i \in DOMAIN o.layers |-> [edge |-> "layer", at |-> i]]
           b == [i \in DOMAIN o.children |-> [edge |-> "delegated", at |-> i]]
<1>1. r \in Seq(EdgeSet) /\ Len(r) = 1 /\ r[1] = Edge1("requires", 0)
  BY DEF EdgeSet, Edge1
<1>2. a \in Seq(EdgeSet) /\ Len(a) = n /\ \A i \in 1..n : a[i] = Edge1("layer", i)
  <2>1. \A i \in 1..n : Edge1("layer", i) \in EdgeSet
    BY DEF EdgeSet, Edge1
  <2>2. a = [i \in 1..n |-> Edge1("layer", i)]
    BY <1>0 DEF Edge1
  <2> QED
    BY <2>1, <2>2
<1>3. b \in Seq(EdgeSet) /\ Len(b) = k /\ \A i \in 1..k : b[i] = Edge1("delegated", i)
  <2>1. \A i \in 1..k : Edge1("delegated", i) \in EdgeSet
    BY DEF EdgeSet, Edge1
  <2>2. b = [i \in 1..k |-> Edge1("delegated", i)]
    BY <1>0 DEF Edge1
  <2> QED
    BY <2>1, <2>2
<1>4. Edges(o) = (r \o a) \o b
  BY DEF Edges, Edge1
<1>5. PICK r1, a1, b1 : r1 = r /\ a1 = a /\ b1 = b
  OBVIOUS
<1> HIDE DEF r, a, b
<1>6. r1 \in Seq(EdgeSet) /\ a1 \in Seq(EdgeSet) /\ b1 \in Seq(EdgeSet)
  BY <1>1, <1>2, <1>3, <1>5
<1>c. \A p, q \in Seq(EdgeSet) : p \o q \in Seq(EdgeSet)
  OBVIOUS
<1>7. PICK d \in Seq(EdgeSet) : d = r1 \o a1
  BY <1>6, <1>c
<1>8. PICK f \in Seq(EdgeSet) : f = d \o b1
  BY <1>6, <1>7, <1>c
<1>9. Len(r1) = 1 /\ Len(a1) = n /\ Len(b1) = k
  BY <1>1, <1>2, <1>3, <1>5
<1>10. Len(d) = 1 + n /\ \A x \in 1..1 + n : d[x] = IF x <= 1 THEN r1[x] ELSE a1[x - 1]
  <2>1. Len(d) = Len(r1) + Len(a1) /\ \A x \in 1..Len(r1) + Len(a1) : d[x] = IF x <= Len(r1) THEN r1[x] ELSE a1[x - Len(r1)]
    BY ONLY <1>6, <1>7, ConcatProperties
  <2> QED
    BY ONLY <1>9, <2>1
<1>11. Len(f) = 1 + n + k /\ \A x \in 1..1 + n + k : f[x] = IF x <= 1 + n THEN d[x] ELSE b1[x - (1 + n)]
  <2>1. Len(f) = Len(d) + Len(b1) /\ \A x \in 1..Len(d) + Len(b1) : f[x] = IF x <= Len(d) THEN d[x] ELSE b1[x - Len(d)]
    BY ONLY <1>6, <1>7, <1>8, ConcatProperties
  <2> QED
    BY ONLY <1>9, <1>10, <2>1
<1>12. ASSUME NEW x \in 1..1 + n + k PROVE f[x] = EdgeOf(o, x)
  <2>1. CASE x = 1
    BY <1>1, <1>5, <1>10, <1>11, <2>1 DEF EdgeOf
  <2>2. CASE x # 1 /\ x <= 1 + n
    <3>1. x - 1 \in 1..n /\ x \in 1..1 + n /\ ~(x <= 1)
      BY <2>2
    <3>2. f[x] = a1[x - 1]
      BY <1>10, <1>11, <2>2, <3>1
    <3> QED
      BY <1>2, <1>5, <2>2, <3>1, <3>2 DEF EdgeOf
  <2>3. CASE ~(x <= 1 + n)
    <3>1. x - (1 + n) \in 1..k /\ x # 1 /\ x - (1 + n) = x - 1 - n
      BY <2>3
    <3>2. f[x] = Edge1("delegated", x - (1 + n))
      BY <1>3, <1>5, <1>11, <2>3, <3>1
    <3> QED
      BY <2>3, <3>1, <3>2 DEF EdgeOf
  <2> QED
    BY <2>1, <2>2, <2>3
<1>13. Edges(o) = f
  BY <1>4, <1>5, <1>7, <1>8
<1>14. \A x \in 1..Width(o) - 0 : f[x] = EdgeOf(o, 0 + x)
  BY <1>0, <1>12
<1> QED
  BY <1>0, <1>11, <1>13, <1>14 DEF TodoIs

\* The head of what is to do, and what is left without it.
LEMMA TodoHead ==
  ASSUME NEW o, TwoLists(o), NEW t, NEW half, NEW todo, TodoIs(o, t, half, todo)
  PROVE  /\ t \in 0..Width(o) /\ (todo = <<>> <=> t = Width(o))
         /\ todo # <<>> =>
              /\ t < Width(o)
              /\ Head(todo) = IF half THEN Edge1("child", t - Wide(o)) ELSE EdgeOf(o, t + 1)
              /\ TodoIs(o, t + 1, FALSE, Tail(todo))
<1>1. PICK w \in Nat, n \in Nat : w = Width(o) /\ n = Wide(o)
  BY WidthIs
<1>2. /\ todo \in Seq(EdgeSet) /\ t \in 0..w /\ Len(todo) = w - t
      /\ \A x \in 1..w - t : todo[x] = IF half /\ x = 1 THEN Edge1("child", t - n) ELSE EdgeOf(o, t + x)
  BY <1>1 DEF TodoIs
<1>3. todo = <<>> <=> t = w
  BY <1>2
<1>4. ASSUME todo # <<>>
      PROVE  /\ t < w /\ Head(todo) = IF half THEN Edge1("child", t - n) ELSE EdgeOf(o, t + 1)
             /\ TodoIs(o, t + 1, FALSE, Tail(todo))
  <2>1. t < w /\ 1 \in 1..w - t
    BY <1>2, <1>3, <1>4
  <2>2. Head(todo) = todo[1] /\ Tail(todo) \in Seq(EdgeSet) /\ Len(Tail(todo)) = w - (t + 1)
    BY <1>2, <1>4
  <2>3. \A x \in 1..w - (t + 1) : Tail(todo)[x] = todo[x + 1]
    BY <1>2, <1>4
  <2>4. ASSUME NEW x \in 1..w - (t + 1) PROVE Tail(todo)[x] = EdgeOf(o, (t + 1) + x)
    <3>1. x + 1 \in 1..w - t /\ x + 1 # 1 /\ t + (x + 1) = (t + 1) + x
      BY <1>2
    <3>2. Tail(todo)[x] = todo[x + 1]
      BY <2>3
    <3>3. todo[x + 1] = EdgeOf(o, t + (x + 1))
      BY <1>2, <3>1
    <3> QED
      BY <3>1, <3>2, <3>3
  <2>5. t + 1 \in 0..w
    BY <1>2, <2>1
  <2> QED
    BY <1>1, <1>2, <2>1, <2>2, <2>4, <2>5 DEF TodoIs
<1> QED
  BY <1>1, <1>2, <1>3, <1>4

\* What the head is an edge of.
LEMMA HeadKinds ==
  ASSUME NEW o, TwoLists(o), NEW t, NEW half, NEW todo, TodoIs(o, t, half, todo), todo # <<>>
  PROVE  /\ Head(todo).edge = "requires" => t = 0 /\ ~half
         /\ Head(todo).edge = "layer" =>
              /\ t \in 1..Wide(o) /\ Head(todo).at = t /\ t \in DOMAIN o.layers /\ ~half
         /\ Head(todo).edge = "delegated" =>
              /\ t \in 1 + Wide(o)..Width(o) - 1 /\ Head(todo).at = t - Wide(o)
              /\ t - Wide(o) \in DOMAIN o.children /\ ~half
         /\ Head(todo).edge = "child" =>
              /\ t \in 1 + Wide(o)..Width(o) - 1 /\ Head(todo).at = t - Wide(o)
              /\ t - Wide(o) \in DOMAIN o.children /\ half
<1>1. PICK w \in Nat, n \in Nat, k \in Nat :
         w = Width(o) /\ n = Wide(o) /\ k = Len(o.children) /\ w = 1 + n + k
  BY WidthIs
<1>2. DOMAIN o.layers = 1..n /\ DOMAIN o.children = 1..k
  BY <1>1, WidthIs
<1>a. /\ t \in 0..Width(o) /\ t < Width(o)
      /\ Head(todo) = IF half THEN Edge1("child", t - Wide(o)) ELSE EdgeOf(o, t + 1)
  BY TodoHead
<1>3. /\ t \in 0..w /\ t < w
      /\ Head(todo) = IF half THEN Edge1("child", t - n) ELSE EdgeOf(o, t + 1)
  BY <1>1, <1>a
<1>4. half => t >= 1 + n
  BY <1>1 DEF TodoIs
<1>5. CASE half
  BY <1>1, <1>2, <1>3, <1>4, <1>5 DEF Edge1
<1>6. CASE ~half
  BY <1>1, <1>2, <1>3, <1>6 DEF EdgeOf, Edge1
<1> QED
  BY <1>5, <1>6

\* The delegated capabilities of a child are resolved.
LEMMA TodoHalf ==
  ASSUME NEW o, TwoLists(o), NEW t, NEW todo, TodoIs(o, t, FALSE, todo), todo # <<>>,
         Head(todo).edge = "delegated"
  PROVE  TodoIs(o, t, TRUE, <<[edge |-> "child", at |-> Head(todo).at]>> \o Tail(todo))
<1>1. PICK w \in Nat, n \in Nat : w = Width(o) /\ n = Wide(o)
  BY WidthIs
<1>h. PICK half : half = FALSE /\ TodoIs(o, t, half, todo)
  OBVIOUS
<1>a. t \in 1 + Wide(o)..Width(o) - 1 /\ Head(todo).at = t - Wide(o)
  BY <1>h, HeadKinds
<1>b. TodoIs(o, t + 1, FALSE, Tail(todo))
  BY TodoHead
<1>2. t \in 1 + n..w - 1 /\ Head(todo).at = t - n /\ TodoIs(o, t + 1, FALSE, Tail(todo))
  BY <1>1, <1>a, <1>b
<1>3. PICK q \in Seq(EdgeSet) : q = Tail(todo) /\ TodoIs(o, t + 1, FALSE, q)
  BY <1>2 DEF TodoIs
<1>4. <<[edge |-> "child", at |-> Head(todo).at]>> \in Seq(EdgeSet)
  BY <1>2 DEF EdgeSet
<1>5. PICK c \in Seq(EdgeSet) : c = <<[edge |-> "child", at |-> Head(todo).at]>>
  BY <1>4
<1>6. Len(c) = 1 /\ c[1] = Edge1("child", t - n)
  BY <1>2, <1>5 DEF Edge1
<1>c. c \o q \in Seq(EdgeSet)
  BY <1>3, <1>5
<1>7. PICK f \in Seq(EdgeSet) : f = c \o q
  BY <1>c
<1>8. Len(q) = w - (t + 1) /\ \A x \in 1..w - (t + 1) : q[x] = EdgeOf(o, (t + 1) + x)
  BY <1>1, <1>3 DEF TodoIs
<1>9. Len(f) = Len(c) + Len(q) /\ \A x \in 1..Len(c) + Len(q) : f[x] = IF x <= Len(c) THEN c[x] ELSE q[x - Len(c)]
  BY ONLY <1>3, <1>5, <1>7, ConcatProperties
<1>10. Len(f) = w - t
  BY <1>2, <1>6, <1>8, <1>9
<1>11. ASSUME NEW x \in 1..w - t
       PROVE  f[x] = IF x = 1 THEN Edge1("child", t - n) ELSE EdgeOf(o, t + x)
  <2>1. CASE x = 1
    BY <1>2, <1>6, <1>8, <1>9, <2>1
  <2>2. CASE x # 1
    <3>1. x - 1 \in 1..w - (t + 1) /\ (t + 1) + (x - 1) = t + x /\ ~(x <= 1) /\ x \in 1..1 + (w - (t + 1))
      BY <1>2, <2>2
    <3>2. f[x] = q[x - 1]
      BY <1>6, <1>8, <1>9, <3>1
    <3> QED
      BY <1>8, <2>2, <3>1, <3>2
  <2> QED
    BY <2>1, <2>2
<1>12. TodoIs(o, t, TRUE, f)
  BY <1>1, <1>2, <1>10, <1>11 DEF TodoIs
<1> QED
  BY <1>3, <1>5, <1>7, <1>12

----------------------------------------------------------------------------
(* The walk, while nothing is in its way: N lists the nodes the planner has *)
(* met, breadth first; k of them were popped, and of the last one t edges   *)
(* are resolved.                                                            *)

At(m, N, i) == AppAt(m, N[i])
Fin(k, t, i, e) == i < k \/ (i = k /\ e <= t)
ChildEdge(o, x) == 1 + Wide(o) + x

Met(m, N, c, k, t) ==
    \A i \in 2..c : \E j \in 1..k : \E x \in DOMAIN At(m, N, j).children :
        N[i] = Append(N[j], x) /\ Fin(k, t, j, ChildEdge(At(m, N, j), x))

NodesOK(m, N, c, k, t) ==
    /\ c \in Nat \ {0} /\ k \in 0..c /\ t \in Nat
    /\ N \in [1..c -> Sound(m)] /\ N[1] = <<>>
    /\ k = 0 => c = 1
    /\ \A i \in 1..c : Len(N[i]) <= MaxDepth
    /\ k >= 1 => t <= Width(At(m, N, k))
    /\ \A i, j \in 1..c : N[i] = N[j] => i = j
    /\ Met(m, N, c, k, t)

With(N, c, q) == [i \in 1..c + 1 |-> IF i <= c THEN N[i] ELSE q]

LEMMA NodeFacts ==
  ASSUME NEW m, WellTree(m), NEW N, NEW c, NEW k, NEW t, NodesOK(m, N, c, k, t), NEW i \in 1..c
  PROVE  /\ N[i] \in Sound(m) /\ N[i] \in Seq(Nat) /\ Len(N[i]) \in 0..MaxDepth
         /\ ValidApp(At(m, N, i)) /\ TwoLists(At(m, N, i))
         /\ Wide(At(m, N, i)) \in Nat /\ Width(At(m, N, i)) \in Nat \ {0}
         /\ DOMAIN At(m, N, i).layers = 1..Wide(At(m, N, i))
         /\ DOMAIN At(m, N, i).children = 1..Len(At(m, N, i).children)
         /\ Len(At(m, N, i).children) \in Nat
         /\ Width(At(m, N, i)) = 1 + Wide(At(m, N, i)) + Len(At(m, N, i).children)
<1>1. N[i] \in Sound(m) /\ N[i] \in Tree(m) /\ ValidApp(At(m, N, i))
  BY DEF NodesOK, Sound, At
<1>2. N[i] \in Seq(Nat) /\ Len(N[i]) \in 0..MaxDepth + 1 /\ MaxDepth \in Nat
  BY <1>1, InTree, Levels
<1>3. Len(N[i]) <= MaxDepth
  BY DEF NodesOK
<1>4. TwoLists(At(m, N, i))
  BY <1>1, ListsAre DEF TwoLists, At
<1> QED
  BY <1>1, <1>2, <1>3, <1>4, WidthIs

\* Edges of a node are counted from 1.
LEMMA Indices ==
  ASSUME NEW m, WellTree(m), NEW N, NEW c, NEW k, NEW t, NodesOK(m, N, c, k, t), NEW i \in 1..c
  PROVE  /\ Wide(At(m, N, i)) \in Nat /\ Width(At(m, N, i)) \in Nat /\ Width(At(m, N, i)) \in Nat \ {0}
         /\ \A x \in DOMAIN At(m, N, i).layers : x \in Nat /\ x \in 1..Wide(At(m, N, i))
         /\ \A x \in DOMAIN At(m, N, i).children : x \in Nat /\ x \in Nat \ {0}
<1>1. /\ Wide(At(m, N, i)) \in Nat /\ Width(At(m, N, i)) \in Nat \ {0}
      /\ DOMAIN At(m, N, i).layers = 1..Wide(At(m, N, i))
      /\ DOMAIN At(m, N, i).children = 1..Len(At(m, N, i).children)
      /\ Len(At(m, N, i).children) \in Nat
  BY NodeFacts, Zenon
<1> QED
  BY ONLY <1>1

\* The child that comes next was not met before.
LEMMA FreshNode ==
  ASSUME NEW m, WellTree(m), NEW N, NEW c, NEW k, NEW t, NodesOK(m, N, c, k, t), k >= 1,
         NEW x \in DOMAIN At(m, N, k).children, ChildEdge(At(m, N, k), x) = t + 1
  PROVE  /\ Append(N[k], x) \in Inner(m) /\ \A i \in 1..c : N[i] # Append(N[k], x)
         /\ Len(Append(N[k], x)) = Len(N[k]) + 1 /\ Append(N[k], x) \in Level(m)[Len(N[k]) + 1]
         /\ AppAt(m, Append(N[k], x)) = At(m, N, k).children[x].application
         /\ Edge(m, Append(N[k], x)) = At(m, N, k).children[x]
         /\ Front(Append(N[k], x)) = N[k] /\ k \in 1..c
<1>1. k \in 1..c /\ t \in Nat /\ c \in Nat /\ k \in Nat
  BY DEF NodesOK
<1>2. N[k] \in Sound(m) /\ N[k] \in Seq(Nat) /\ Len(N[k]) \in 0..MaxDepth /\ x \in Nat
  BY <1>1, NodeFacts, Indices, Zenon
<1>3. /\ Append(N[k], x) \in Inner(m) /\ Append(N[k], x) \in Level(m)[Len(N[k]) + 1]
      /\ Len(Append(N[k], x)) = Len(N[k]) + 1 /\ Append(N[k], x) # <<>>
      /\ AppAt(m, Append(N[k], x)) = At(m, N, k).children[x].application
      /\ Edge(m, Append(N[k], x)) = At(m, N, k).children[x]
      /\ Front(Append(N[k], x)) = N[k]
  <2>1. Len(N[k]) <= MaxDepth /\ x \in DOMAIN AppAt(m, N[k]).children
    BY <1>2 DEF At, NodesOK
  <2> QED
    BY <1>2, <2>1, BelowIs DEF At
<1>4. ASSUME NEW i \in 1..c, N[i] = Append(N[k], x) PROVE FALSE
  <2>1. i \in 2..c
    BY <1>3, <1>4 DEF NodesOK
  <2>2. PICK j \in 1..k : \E y \in DOMAIN At(m, N, j).children :
              N[i] = Append(N[j], y) /\ Fin(k, t, j, ChildEdge(At(m, N, j), y))
    BY <2>1 DEF NodesOK, Met
  <2>3. PICK y \in DOMAIN At(m, N, j).children :
              N[i] = Append(N[j], y) /\ Fin(k, t, j, ChildEdge(At(m, N, j), y))
    BY <2>2
  <2>4. j \in 1..c
    BY <1>1
  <2>5. N[j] \in Seq(Nat) /\ y \in Nat
    BY <2>4, NodeFacts, Indices, Zenon
  <2>a. Append(N[j], y) = Append(N[k], x)
    BY <1>4, <2>3
  <2>6. N[j] = N[k] /\ y = x
    <3>1. PICK p \in Seq(Nat), r \in Seq(Nat) : p = N[j] /\ r = N[k]
      BY <1>2, <2>5
    <3>2. Append(p, y) = Append(r, x)
      BY <2>a, <3>1
    <3>3. p = r /\ y = x
      BY <1>2, <2>5, <3>2, OneParent
    <3> QED
      BY <3>1, <3>3
  <2>7. j = k
    BY <1>1, <2>4, <2>6 DEF NodesOK
  <2>8. Fin(k, t, k, t + 1)
    BY <2>3, <2>6, <2>7
  <2> QED
    BY <1>1, <2>8 DEF Fin
<1> QED
  BY <1>1, <1>3, <1>4

LEMMA Advances ==
  ASSUME NEW m, WellTree(m), NEW N, NEW c, NEW k, NEW t, NodesOK(m, N, c, k, t), k >= 1,
         t < Width(At(m, N, k))
  PROVE  NodesOK(m, N, c, k, t + 1)
<1>1. k \in 1..c /\ t \in Nat /\ c \in Nat /\ k \in Nat
  BY DEF NodesOK
<1>2. Width(At(m, N, k)) \in Nat
  BY <1>1, Indices, Zenon
<1>3. t + 1 \in Nat /\ t + 1 <= Width(At(m, N, k))
  BY <1>1, <1>2
<1>4. ASSUME NEW j \in 1..k, NEW x \in DOMAIN At(m, N, j).children, Fin(k, t, j, ChildEdge(At(m, N, j), x))
      PROVE  Fin(k, t + 1, j, ChildEdge(At(m, N, j), x))
  <2>1. j \in 1..c
    BY <1>1
  <2>2. Wide(At(m, N, j)) \in Nat /\ x \in Nat
    BY <2>1, Indices, Zenon
  <2>3. ChildEdge(At(m, N, j), x) \in Nat
    BY <2>2 DEF ChildEdge
  <2> QED
    BY <1>1, <1>4, <2>3 DEF Fin
<1>5. Met(m, N, c, k, t + 1)
  BY <1>4 DEF NodesOK, Met
<1> QED
  BY <1>3, <1>5 DEF NodesOK

LEMMA Pops ==
  ASSUME NEW m, WellTree(m), NEW N, NEW c, NEW k, NEW t, NodesOK(m, N, c, k, t), k < c
  PROVE  NodesOK(m, N, c, k + 1, 0)
<1>1. k + 1 \in 1..c /\ k \in Nat /\ c \in Nat
  BY DEF NodesOK
<1>2. Width(At(m, N, k + 1)) \in Nat
  BY <1>1, Indices
<1>3. \A j \in 1..k : \A e : Fin(k + 1, 0, j, e)
  BY <1>1 DEF Fin
<1>4. \A j \in 1..k : j \in 1..k + 1
  BY <1>1
<1>5. Met(m, N, c, k + 1, 0)
  BY <1>3, <1>4 DEF NodesOK, Met
<1> QED
  BY <1>1, <1>2, <1>5 DEF NodesOK

\* The next child is met.
LEMMA Meets ==
  ASSUME NEW m, WellTree(m), NEW N, NEW c, NEW k, NEW t, NodesOK(m, N, c, k, t), k >= 1,
         NEW x \in DOMAIN At(m, N, k).children, ChildEdge(At(m, N, k), x) = t + 1,
         Len(N[k]) + 1 <= MaxDepth, ValidApp(At(m, N, k).children[x].application)
  PROVE  /\ NodesOK(m, With(N, c, Append(N[k], x)), c + 1, k, t + 1)
         /\ With(N, c, Append(N[k], x))[c + 1] = Append(N[k], x)
         /\ \A i \in 1..c : With(N, c, Append(N[k], x))[i] = N[i]
<1> PICK q : q = Append(N[k], x)
  OBVIOUS
<1> DEFINE M == With(N, c, q)
<1>1. /\ q \in Inner(m) /\ (\A i \in 1..c : N[i] # q) /\ Len(q) = Len(N[k]) + 1
      /\ AppAt(m, q) = At(m, N, k).children[x].application /\ k \in 1..c
  BY FreshNode
<1>2. q \in Sound(m)
  BY <1>1 DEF Inner, Sound
<1>3. c \in Nat \ {0} /\ k \in 0..c /\ t \in Nat /\ N \in [1..c -> Sound(m)] /\ N[1] = <<>>
  BY DEF NodesOK
<1>4. /\ M \in [1..c + 1 -> Sound(m)] /\ M[c + 1] = q /\ \A i \in 1..c : M[i] = N[i]
  BY <1>2, <1>3 DEF With
<1>5. \A i \in 1..c : At(m, M, i) = At(m, N, i)
  BY <1>4 DEF At
<1> HIDE DEF M
<1>6. \A i \in 1..c + 1 : i \in 1..c \/ i = c + 1
  BY <1>3
<1>7. \A i \in 1..c + 1 : Len(M[i]) <= MaxDepth
  BY <1>1, <1>4, <1>6 DEF NodesOK
<1>8. t + 1 <= Width(At(m, M, k))
  <2>1. /\ x \in 1..Len(At(m, N, k).children) /\ Wide(At(m, N, k)) \in Nat /\ Len(At(m, N, k).children) \in Nat
        /\ Width(At(m, N, k)) = 1 + Wide(At(m, N, k)) + Len(At(m, N, k).children)
    BY <1>1, NodeFacts
  <2>2. t + 1 = 1 + Wide(At(m, N, k)) + x
    BY DEF ChildEdge
  <2>3. t + 1 <= Width(At(m, N, k))
    BY <2>1, <2>2
  <2> QED
    BY <1>1, <1>5, <2>3
<1>9. \A i, j \in 1..c + 1 : M[i] = M[j] => i = j
  BY <1>1, <1>4, <1>6 DEF NodesOK
<1>10. ASSUME NEW i \in 2..c + 1
       PROVE  \E j \in 1..k : \E y \in DOMAIN At(m, M, j).children :
                 M[i] = Append(M[j], y) /\ Fin(k, t + 1, j, ChildEdge(At(m, M, j), y))
  <2>1. CASE i = c + 1
    <3>1. M[k] = N[k] /\ At(m, M, k) = At(m, N, k) /\ Fin(k, t + 1, k, ChildEdge(At(m, N, k), x))
      BY <1>1, <1>4, <1>5, <1>3 DEF Fin
    <3>2. k \in 1..k
      BY <1>1
    <3> QED
      BY <1>4, <2>1, <3>1, <3>2
  <2>2. CASE i \in 2..c
    <3>1. PICK j \in 1..k : \E y \in DOMAIN At(m, N, j).children :
              N[i] = Append(N[j], y) /\ Fin(k, t, j, ChildEdge(At(m, N, j), y))
      BY <2>2 DEF NodesOK, Met
    <3>2. PICK y \in DOMAIN At(m, N, j).children :
              N[i] = Append(N[j], y) /\ Fin(k, t, j, ChildEdge(At(m, N, j), y))
      BY <3>1
    <3>3. j \in 1..c /\ i \in 1..c
      BY <1>1, <1>3, <2>2
    <3>4. Wide(At(m, N, j)) \in Nat /\ y \in Nat
      BY <3>3, Indices, Zenon
    <3>5. ChildEdge(At(m, N, j), y) \in Nat
      BY <3>4 DEF ChildEdge
    <3>6. Fin(k, t + 1, j, ChildEdge(At(m, N, j), y))
      BY <1>3, <3>2, <3>5 DEF Fin
    <3> QED
      BY <1>4, <1>5, <3>2, <3>3, <3>6
  <2> QED
    BY <1>3, <2>1, <2>2
<1>11. Met(m, M, c + 1, k, t + 1)
  BY <1>10 DEF Met
<1>12. c + 1 \in Nat \ {0} /\ k \in 0..c + 1 /\ t + 1 \in Nat /\ M[1] = <<>> /\ k # 0
  BY <1>1, <1>3, <1>4
<1>13. NodesOK(m, M, c + 1, k, t + 1)
  BY <1>4, <1>7, <1>8, <1>9, <1>11, <1>12 DEF NodesOK
<1> QED
  BY <1>4, <1>13 DEF M

----------------------------------------------------------------------------
(* What the edges resolved so far have brought.                             *)

AppsHad(m, N, c, objs) ==
    \A i \in 2..c : At(m, N, i) \in objs /\ Edge(m, N[i]).capabilities \in objs
                    /\ IsCaps(Edge(m, N[i]).capabilities)
CapsHad(m, N, k, t, objs) ==
    \A i \in 1..k : Fin(k, t, i, 1) => At(m, N, i).requires \in objs /\ IsCaps(At(m, N, i).requires)
LayersHad(m, N, k, t, objs) ==
    \A i \in 1..k : \A x \in DOMAIN At(m, N, i).layers :
        Fin(k, t, i, 1 + x) => At(m, N, i).layers[x].content \in objs
ChildrenMet(m, N, c, k, t) ==
    \A i \in 1..k : \A x \in DOMAIN At(m, N, i).children :
        Fin(k, t, i, ChildEdge(At(m, N, i), x)) => \E j \in 2..c : N[j] = Append(N[i], x)

Effects(m, N, c, k, t, objs) ==
    /\ AppsHad(m, N, c, objs) /\ CapsHad(m, N, k, t, objs)
    /\ LayersHad(m, N, k, t, objs) /\ ChildrenMet(m, N, c, k, t)

LEMMA FinNext ==
  ASSUME NEW k \in Nat, NEW t \in Nat, NEW i \in Nat, NEW e \in Nat, Fin(k, t + 1, i, e)
  PROVE  Fin(k, t, i, e) \/ (i = k /\ e = t + 1)
  BY DEF Fin

LEMMA EffectsGrow ==
  ASSUME NEW m, NEW N, NEW c, NEW k, NEW t, NEW objs, NEW more, objs \subseteq more,
         Effects(m, N, c, k, t, objs)
  PROVE  Effects(m, N, c, k, t, more)
<1>1. AppsHad(m, N, c, more)
  BY DEF Effects, AppsHad
<1>2. CapsHad(m, N, k, t, more)
  BY DEF Effects, CapsHad
<1>3. LayersHad(m, N, k, t, more)
  BY DEF Effects, LayersHad
<1> QED
  BY <1>1, <1>2, <1>3 DEF Effects

\* An edge that is no child's.
LEMMA EffectsAdvance ==
  ASSUME NEW m, WellTree(m), NEW N, NEW c, NEW k, NEW t, NodesOK(m, N, c, k, t), k >= 1,
         NEW objs, Effects(m, N, c, k, t, objs), t <= Wide(At(m, N, k)),
         t = 0 => At(m, N, k).requires \in objs /\ IsCaps(At(m, N, k).requires),
         t \in DOMAIN At(m, N, k).layers => At(m, N, k).layers[t].content \in objs
  PROVE  Effects(m, N, c, k, t + 1, objs)
<1>1. k \in 1..c /\ t \in Nat /\ c \in Nat /\ k \in Nat /\ \A i \in 1..k : i \in 1..c /\ i \in Nat
  BY DEF NodesOK
<1>2. CapsHad(m, N, k, t + 1, objs)
  <2> SUFFICES ASSUME NEW i \in 1..k, Fin(k, t + 1, i, 1)
               PROVE  At(m, N, i).requires \in objs /\ IsCaps(At(m, N, i).requires)
    BY DEF CapsHad
  <2>1. Fin(k, t, i, 1) \/ (i = k /\ 1 = t + 1)
    BY <1>1, FinNext
  <2>2. 1 = t + 1 => t = 0
    BY <1>1
  <2> QED
    BY <2>1, <2>2 DEF Effects, CapsHad
<1>3. LayersHad(m, N, k, t + 1, objs)
  <2> SUFFICES ASSUME NEW i \in 1..k, NEW x \in DOMAIN At(m, N, i).layers, Fin(k, t + 1, i, 1 + x)
               PROVE  At(m, N, i).layers[x].content \in objs
    BY DEF LayersHad
  <2>1. x \in Nat
    BY <1>1, Indices, Zenon
  <2>2. 1 + x \in Nat
    BY <2>1
  <2>3. Fin(k, t, i, 1 + x) \/ (i = k /\ 1 + x = t + 1)
    BY <1>1, <2>2, FinNext
  <2>4. 1 + x = t + 1 => x = t
    BY <1>1, <2>1
  <2> QED
    BY <2>3, <2>4 DEF Effects, LayersHad
<1>4. ChildrenMet(m, N, c, k, t + 1)
  <2> SUFFICES ASSUME NEW i \in 1..k, NEW x \in DOMAIN At(m, N, i).children,
                      Fin(k, t + 1, i, ChildEdge(At(m, N, i), x))
               PROVE  \E j \in 2..c : N[j] = Append(N[i], x)
    BY DEF ChildrenMet
  <2>1. x \in Nat \ {0} /\ Wide(At(m, N, i)) \in Nat
    BY <1>1, Indices, Zenon
  <2>2. ChildEdge(At(m, N, i), x) \in Nat
    BY <2>1 DEF ChildEdge
  <2>3. Fin(k, t, i, ChildEdge(At(m, N, i), x)) \/ (i = k /\ ChildEdge(At(m, N, i), x) = t + 1)
    BY <1>1, <2>2, FinNext
  <2>4. ~(i = k /\ ChildEdge(At(m, N, i), x) = t + 1)
    BY <1>1, <2>1 DEF ChildEdge
  <2> QED
    BY <2>3, <2>4 DEF Effects, ChildrenMet
<1> QED
  BY <1>2, <1>3, <1>4 DEF Effects

\* The next child, a node of its own now.
LEMMA EffectsMeet ==
  ASSUME NEW m, WellTree(m), NEW N, NEW c, NEW k, NEW t, NodesOK(m, N, c, k, t), k >= 1,
         NEW objs, Effects(m, N, c, k, t, objs),
         NEW x \in DOMAIN At(m, N, k).children, ChildEdge(At(m, N, k), x) = t + 1,
         At(m, N, k).children[x].application \in objs, At(m, N, k).children[x].capabilities \in objs,
         IsCaps(At(m, N, k).children[x].capabilities)
  PROVE  Effects(m, With(N, c, Append(N[k], x)), c + 1, k, t + 1, objs)
<1> PICK q : q = Append(N[k], x)
  OBVIOUS
<1> DEFINE M == With(N, c, q)
<1>1. k \in 1..c /\ t \in Nat /\ c \in Nat /\ k \in Nat /\ \A i \in 1..k : i \in 1..c /\ i \in Nat
  BY DEF NodesOK
<1>2. M[c + 1] = q /\ \A i \in 1..c : M[i] = N[i]
  BY <1>1 DEF With
<1>3. \A i \in 1..c : At(m, M, i) = At(m, N, i)
  BY <1>2 DEF At
<1>4. AppAt(m, q) = At(m, N, k).children[x].application /\ Edge(m, q) = At(m, N, k).children[x]
  BY FreshNode
<1>w. Wide(At(m, N, k)) \in Nat /\ x \in Nat \ {0}
  BY <1>1, Indices, Zenon
<1>5. t = Wide(At(m, N, k)) + x
  <2>1. PICK w \in Nat : w = Wide(At(m, N, k))
    BY <1>w
  <2>2. 1 + w + x = t + 1
    BY <2>1 DEF ChildEdge
  <2>3. t \in Nat /\ x \in Nat
    BY <1>1, <1>w
  <2>4. t = w + x
    BY ONLY <2>2, <2>3, w \in Nat
  <2> QED
    BY <2>1, <2>4
<1> HIDE DEF M
<1>6. AppsHad(m, M, c + 1, objs)
  <2> SUFFICES ASSUME NEW i \in 2..c + 1
               PROVE  At(m, M, i) \in objs /\ Edge(m, M[i]).capabilities \in objs
                      /\ IsCaps(Edge(m, M[i]).capabilities)
    BY DEF AppsHad
  <2>1. CASE i = c + 1
    BY <1>2, <1>4, <2>1 DEF At
  <2>2. CASE i \in 2..c
    <3>1. i \in 1..c
      BY <1>1, <2>2
    <3> QED
      BY <1>2, <1>3, <2>2, <3>1 DEF Effects, AppsHad
  <2> QED
    BY <1>1, <2>1, <2>2
<1>7. CapsHad(m, M, k, t + 1, objs)
  <2> SUFFICES ASSUME NEW i \in 1..k, Fin(k, t + 1, i, 1)
               PROVE  At(m, M, i).requires \in objs /\ IsCaps(At(m, M, i).requires)
    BY DEF CapsHad
  <2>1. Fin(k, t, i, 1) \/ (i = k /\ 1 = t + 1)
    BY <1>1, FinNext
  <2>2. 1 # t + 1
    BY <1>5, <1>w
  <2> QED
    BY <1>1, <1>3, <2>1, <2>2 DEF Effects, CapsHad
<1>8. LayersHad(m, M, k, t + 1, objs)
  <2> SUFFICES ASSUME NEW i \in 1..k, NEW y \in DOMAIN At(m, M, i).layers, Fin(k, t + 1, i, 1 + y)
               PROVE  At(m, M, i).layers[y].content \in objs
    BY DEF LayersHad
  <2>0. At(m, M, i) = At(m, N, i)
    BY <1>1, <1>3
  <2>1. y \in 1..Wide(At(m, N, i)) /\ Wide(At(m, N, i)) \in Nat
    BY <1>1, <2>0, Indices, Zenon
  <2>2. 1 + y \in Nat
    BY <2>1
  <2>3. Fin(k, t, i, 1 + y) \/ (i = k /\ 1 + y = t + 1)
    BY <1>1, <2>2, FinNext
  <2>4. ~(i = k /\ 1 + y = t + 1)
    BY <1>1, <1>5, <1>w, <2>1
  <2> QED
    BY <2>0, <2>3, <2>4 DEF Effects, LayersHad
<1>9. ChildrenMet(m, M, c + 1, k, t + 1)
  <2> SUFFICES ASSUME NEW i \in 1..k, NEW y \in DOMAIN At(m, M, i).children,
                      Fin(k, t + 1, i, ChildEdge(At(m, M, i), y))
               PROVE  \E j \in 2..c + 1 : M[j] = Append(M[i], y)
    BY DEF ChildrenMet
  <2>0. At(m, M, i) = At(m, N, i) /\ M[i] = N[i]
    BY <1>1, <1>2, <1>3
  <2>1. y \in Nat /\ Wide(At(m, N, i)) \in Nat
    BY <1>1, <2>0, Indices, Zenon
  <2>2. ChildEdge(At(m, N, i), y) \in Nat
    BY <2>1 DEF ChildEdge
  <2>3. Fin(k, t, i, ChildEdge(At(m, N, i), y)) \/ (i = k /\ ChildEdge(At(m, N, i), y) = t + 1)
    BY <1>1, <2>0, <2>2, FinNext
  <2>4. CASE Fin(k, t, i, ChildEdge(At(m, N, i), y))
    <3>1. PICK j \in 2..c : N[j] = Append(N[i], y)
      BY <2>0, <2>4 DEF Effects, ChildrenMet
    <3>2. j \in 1..c /\ j \in 2..c + 1
      BY <1>1
    <3> QED
      BY <1>2, <2>0, <3>1, <3>2
  <2>5. CASE i = k /\ ChildEdge(At(m, N, i), y) = t + 1
    <3>1. y = x
      BY <1>5, <1>w, <2>1, <2>5, <1>1 DEF ChildEdge
    <3>2. c + 1 \in 2..c + 1
      BY <1>1
    <3> QED
      BY <1>2, <2>0, <2>5, <3>1, <3>2
  <2> QED
    BY <2>3, <2>4, <2>5
<1>10. Effects(m, M, c + 1, k, t + 1, objs)
  BY <1>6, <1>7, <1>8, <1>9 DEF Effects
<1> QED
  BY <1>10 DEF M

\* All edges of an application are resolved, and the next one is taken up.
LEMMA EffectsPop ==
  ASSUME NEW m, WellTree(m), NEW N, NEW c, NEW k, NEW t, NodesOK(m, N, c, k, t), k < c,
         k >= 1 => t = Width(At(m, N, k)), NEW objs, Effects(m, N, c, k, t, objs)
  PROVE  Effects(m, N, c, k + 1, 0, objs)
<1>1. k \in Nat /\ t \in Nat /\ c \in Nat /\ k + 1 \in 1..c /\ \A i \in 1..k + 1 : i \in 1..c
  BY DEF NodesOK
<1>2. ASSUME NEW i \in 1..k + 1, NEW e \in Nat \ {0}, Fin(k + 1, 0, i, e)
      PROVE  i \in 1..k /\ (e <= Width(At(m, N, i)) => Fin(k, t, i, e))
  BY <1>1, <1>2 DEF Fin
<1>3. CapsHad(m, N, k + 1, 0, objs)
  <2> SUFFICES ASSUME NEW i \in 1..k + 1, Fin(k + 1, 0, i, 1)
               PROVE  At(m, N, i).requires \in objs /\ IsCaps(At(m, N, i).requires)
    BY DEF CapsHad
  <2>1. i \in 1..k /\ (1 <= Width(At(m, N, i)) => Fin(k, t, i, 1))
    BY <1>2
  <2>2. Width(At(m, N, i)) \in Nat \ {0}
    BY <1>1, Indices, Zenon
  <2> QED
    BY <2>1, <2>2 DEF Effects, CapsHad
<1>4. LayersHad(m, N, k + 1, 0, objs)
  <2> SUFFICES ASSUME NEW i \in 1..k + 1, NEW x \in DOMAIN At(m, N, i).layers, Fin(k + 1, 0, i, 1 + x)
               PROVE  At(m, N, i).layers[x].content \in objs
    BY DEF LayersHad
  <2>1. /\ x \in 1..Wide(At(m, N, i)) /\ Wide(At(m, N, i)) \in Nat /\ Len(At(m, N, i).children) \in Nat
        /\ Width(At(m, N, i)) = 1 + Wide(At(m, N, i)) + Len(At(m, N, i).children)
    BY <1>1, NodeFacts
  <2>2. 1 + x \in Nat \ {0} /\ 1 + x <= Width(At(m, N, i))
    BY <2>1
  <2>3. i \in 1..k /\ Fin(k, t, i, 1 + x)
    BY <1>2, <2>2
  <2> QED
    BY <2>3 DEF Effects, LayersHad
<1>5. ChildrenMet(m, N, c, k + 1, 0)
  <2> SUFFICES ASSUME NEW i \in 1..k + 1, NEW x \in DOMAIN At(m, N, i).children,
                      Fin(k + 1, 0, i, ChildEdge(At(m, N, i), x))
               PROVE  \E j \in 2..c : N[j] = Append(N[i], x)
    BY DEF ChildrenMet
  <2>1. /\ x \in 1..Len(At(m, N, i).children) /\ Wide(At(m, N, i)) \in Nat /\ Len(At(m, N, i).children) \in Nat
        /\ Width(At(m, N, i)) = 1 + Wide(At(m, N, i)) + Len(At(m, N, i).children)
    BY <1>1, NodeFacts
  <2>2. ChildEdge(At(m, N, i), x) \in Nat \ {0} /\ ChildEdge(At(m, N, i), x) <= Width(At(m, N, i))
    BY <2>1 DEF ChildEdge
  <2>3. i \in 1..k /\ Fin(k, t, i, ChildEdge(At(m, N, i), x))
    BY <1>2, <2>2
  <2> QED
    BY <2>3 DEF Effects, ChildrenMet
<1> QED
  BY <1>3, <1>4, <1>5 DEF Effects

----------------------------------------------------------------------------
(* The work list: a record for each node met and not popped.                *)

PathOK(m, o, path) ==
    /\ ListOf(path) /\ Len(path) >= 1 /\ path[1] = m /\ path[Len(path)] = o
    /\ \A i \in 1..Len(path) : ValidApp(path[i])
    /\ \A i \in 1..Len(path) - 1 : \E x \in DOMAIN path[i].children :
           path[i].children[x].application = path[i + 1]

PendingIs(m, N, i, e) ==
    \E path : /\ e = Pending(i - 1, i - 1, At(m, N, i), Len(N[i]), path)
              /\ PathOK(m, At(m, N, i), path)

Queue(m, N, c, k, pending) ==
    /\ ListOf(pending) /\ Len(pending) = c - k
    /\ \A x \in 1..c - k : PendingIs(m, N, k + x, pending[x])

LEMMA PathStarts ==
  ASSUME NEW m, ValidApp(m)
  PROVE  PathOK(m, m, <<m>>)
<1>1. PICK p : p = <<m>>
  OBVIOUS
<1>2. p \in Seq({m}) /\ Len(p) = 1 /\ p[1] = m /\ DOMAIN p = {1}
  BY <1>1
<1>3. Range(p) = {m}
  BY <1>2 DEF Range
<1>4. ListOf(p)
  BY <1>2, <1>3 DEF ListOf
<1>5. 1..Len(p) - 1 = {}
  BY <1>2
<1> QED
  BY <1>1, <1>2, <1>4, <1>5 DEF PathOK

LEMMA PathGrows ==
  ASSUME NEW m, NEW o, NEW path, PathOK(m, o, path),
         NEW x \in DOMAIN o.children, NEW a, o.children[x].application = a, ValidApp(a)
  PROVE  PathOK(m, a, Append(path, a))
<1>0. PICK n \in Nat : n = Len(path)
  BY ListGrows DEF PathOK
<1>1. PICK q : q = Append(path, a)
  OBVIOUS
<1>2. ListOf(q) /\ DOMAIN q = 1..n + 1 /\ (\A i \in 1..n : q[i] = path[i]) /\ q[n + 1] = a
  BY <1>0, <1>1, ListGrows DEF PathOK
<1>3. Len(q) \in Nat /\ DOMAIN q = 1..Len(q)
  BY <1>2, ListGrows
<1>4. Len(q) = n + 1
  <2>1. PICK l \in Nat : l = Len(q)
    BY <1>3
  <2>2. 1..l = 1..n + 1
    BY <1>2, <1>3, <2>1
  <2>3. n + 1 \in 1..l /\ l <= n + 1
    BY <2>2
  <2> QED
    BY <2>1, <2>3
<1>5. /\ n >= 1 /\ path[1] = m /\ path[n] = o
      /\ \A i \in 1..n : ValidApp(path[i])
      /\ \A i \in 1..n - 1 : \E y \in DOMAIN path[i].children :
             path[i].children[y].application = path[i + 1]
  BY <1>0 DEF PathOK
<1>6. ASSUME NEW i \in 1..n + 1 - 1
      PROVE  \E y \in DOMAIN q[i].children : q[i].children[y].application = q[i + 1]
  <2>1. CASE i = n
    <3>1. q[i] = o /\ q[i + 1] = a
      BY <1>2, <1>5, <2>1
    <3> QED
      BY <3>1
  <2>2. CASE i # n
    <3>1. i \in 1..n - 1 /\ i \in 1..n /\ i + 1 \in 1..n
      BY <2>2
    <3>2. q[i] = path[i] /\ q[i + 1] = path[i + 1]
      BY <1>2, <3>1
    <3> QED
      BY <1>5, <3>1, <3>2
  <2> QED
    BY <2>1, <2>2
<1>7. \A i \in 1..n + 1 : ValidApp(q[i])
  BY <1>2, <1>5
<1>8. q[1] = m /\ q[n + 1] = a /\ n + 1 >= 1
  BY <1>2, <1>5
<1>9. PathOK(m, a, q)
  <2>1. ListOf(q) /\ Len(q) >= 1 /\ q[1] = m /\ q[Len(q)] = a
    BY <1>2, <1>4, <1>8
  <2>2. \A i \in 1..Len(q) : ValidApp(q[i])
    BY <1>4, <1>7
  <2>3. \A i \in 1..Len(q) - 1 : \E y \in DOMAIN q[i].children :
            q[i].children[y].application = q[i + 1]
    BY ONLY <1>4, <1>6
  <2> QED
    BY ONLY <2>1, <2>2, <2>3 DEF PathOK
<1> QED
  BY <1>1, <1>9

\* A child that is on the path to itself: the tree has no end.
LEMMA Endless ==
  ASSUME NEW m, WellTree(m), NEW o, NEW path, PathOK(m, o, path), NEW x \in DOMAIN o.children,
         NEW i \in DOMAIN path, path[i] = o.children[x].application
  PROVE  Level(m)[MaxDepth + 1] # {}
<1> DEFINE R == Range(path)
<1>0. PICK n \in Nat : n = Len(path) /\ DOMAIN path = 1..n
  BY ListGrows DEF PathOK
<1>1. /\ n >= 1 /\ path[1] = m /\ path[n] = o /\ \A j \in 1..n : ValidApp(path[j])
      /\ \A j \in 1..n - 1 : \E y \in DOMAIN path[j].children :
             path[j].children[y].application = path[j + 1]
  BY <1>0 DEF PathOK
<1>2. m \in R /\ \A r \in R : \E j \in 1..n : r = path[j]
  BY <1>0, <1>1 DEF Range
<1>3. \A j \in 1..n : path[j] \in R
  BY <1>0 DEF Range
<1>4. ASSUME NEW r \in R
      PROVE  ValidApp(r) /\ \E y \in DOMAIN r.children : r.children[y].application \in R
  <2>1. PICK j \in 1..n : r = path[j]
    BY <1>2
  <2>2. CASE j = n
    BY <1>0, <1>1, <1>3, <2>1, <2>2
  <2>3. CASE j # n
    <3>1. j \in 1..n - 1 /\ j + 1 \in 1..n
      BY <2>3
    <3> QED
      BY <1>1, <1>3, <2>1, <3>1
  <2> QED
    BY <2>2, <2>3
<1> DEFINE P == {d \in Nat : d <= MaxDepth + 1 => \E p \in Level(m)[d] : AppAt(m, p) \in R}
<1>5. MaxDepth \in Nat /\ Level(m)[0] = {<<>>} /\ AppAt(m, <<>>) = m
  BY Levels, AppAtRoot
<1>6. 0 \in P
  BY <1>2, <1>5
<1>7. ASSUME NEW d \in Nat, d \in P PROVE d + 1 \in P
  <2> SUFFICES ASSUME d + 1 <= MaxDepth + 1 PROVE \E p \in Level(m)[d + 1] : AppAt(m, p) \in R
    OBVIOUS
  <2>1. d \in 0..MaxDepth + 1 /\ d <= MaxDepth + 1 /\ d <= MaxDepth
    BY <1>5
  <2>2. PICK p \in Level(m)[d] : AppAt(m, p) \in R
    BY <1>7, <2>1
  <2>3. p \in Tree(m) /\ p \in Seq(Nat) /\ Len(p) = d
    BY <2>1, TreeIs, NodesAre
  <2>4. p \in Sound(m)
    BY <1>4, <2>2, <2>3 DEF Sound
  <2>5. PICK y \in DOMAIN AppAt(m, p).children : AppAt(m, p).children[y].application \in R
    BY <1>4, <2>2
  <2>6. Append(p, y) \in Level(m)[d + 1] /\ AppAt(m, Append(p, y)) = AppAt(m, p).children[y].application
    BY <2>1, <2>3, <2>4, BelowIs
  <2> QED
    BY <2>5, <2>6
<1> HIDE DEF P
<1>8. Nat \subseteq P
  BY <1>6, <1>7, Inducts
<1>9. MaxDepth + 1 \in Nat
  BY <1>5
<1> QED
  BY <1>8, <1>9 DEF P

LEMMA QueuePop ==
  ASSUME NEW m, NEW N, NEW c, NEW k, NEW t, NodesOK(m, N, c, k, t), NEW pending, Queue(m, N, c, k, pending)
  PROVE  /\ pending = <<>> <=> k = c
         /\ pending # <<>> => /\ k < c /\ PendingIs(m, N, k + 1, Head(pending))
                              /\ Queue(m, N, c, k + 1, Tail(pending))
<1>1. c \in Nat /\ k \in 0..c
  BY DEF NodesOK
<1>2. PICK R : R = Range(pending)
  OBVIOUS
<1>3. /\ pending \in Seq(R) /\ Len(pending) = c - k
      /\ \A x \in 1..c - k : PendingIs(m, N, k + x, pending[x])
  BY <1>2 DEF Queue, ListOf
<1>4. pending = <<>> <=> k = c
  BY <1>1, <1>3
<1>5. ASSUME pending # <<>>
      PROVE  /\ k < c /\ PendingIs(m, N, k + 1, Head(pending))
             /\ Queue(m, N, c, k + 1, Tail(pending))
  <2>1. k < c /\ 1 \in 1..c - k /\ k + 1 \in 1..c
    BY <1>1, <1>4, <1>5
  <2>2. Head(pending) = pending[1]
    BY <1>3, <1>5
  <2>3. PICK q : q = Tail(pending)
    OBVIOUS
  <2>4. q \in Seq(R) /\ Len(q) = c - (k + 1) /\ \A x \in 1..c - (k + 1) : q[x] = pending[x + 1]
    BY <1>1, <1>3, <1>5, <2>1, <2>3
  <2>5. q \in Seq(Range(q))
    BY <2>4 DEF Range
  <2>6. ASSUME NEW x \in 1..c - (k + 1) PROVE PendingIs(m, N, (k + 1) + x, q[x])
    <3>1. x + 1 \in 1..c - k /\ k + (x + 1) = (k + 1) + x
      BY <1>1, <2>1
    <3>2. PendingIs(m, N, k + (x + 1), pending[x + 1])
      BY <1>3, <3>1
    <3>3. q[x] = pending[x + 1]
      BY <2>4
    <3> QED
      BY <3>1, <3>2, <3>3
  <2>7. Queue(m, N, c, k + 1, q)
    BY <2>4, <2>5, <2>6 DEF Queue, ListOf
  <2> QED
    BY <1>3, <2>1, <2>2, <2>3, <2>7
<1> QED
  BY <1>4, <1>5

LEMMA QueueMeet ==
  ASSUME NEW m, NEW N, NEW c, NEW k, NEW t, NodesOK(m, N, c, k, t), NEW M, \A i \in 1..c : M[i] = N[i],
         NEW pending, Queue(m, N, c, k, pending), NEW e, PendingIs(m, M, c + 1, e)
  PROVE  Queue(m, M, c + 1, k, Append(pending, e))
<1>1. c \in Nat /\ k \in 0..c /\ k \in Nat
  BY DEF NodesOK
<1>2. PICK q : q = Append(pending, e)
  OBVIOUS
<1>3. PICK n \in Nat : n = Len(pending) /\ n = c - k
  BY <1>1 DEF Queue
<1>4. /\ ListOf(q) /\ DOMAIN q = 1..n + 1 /\ (\A i \in 1..n : q[i] = pending[i]) /\ q[n + 1] = e
  BY <1>2, <1>3, ListGrows DEF Queue
<1>5. Len(q) \in Nat /\ DOMAIN q = 1..Len(q)
  BY <1>4, ListGrows
<1>6. Len(q) = n + 1
  <2>1. PICK l \in Nat : l = Len(q)
    BY <1>5
  <2>2. 1..l = 1..n + 1
    BY <1>4, <1>5, <2>1
  <2>3. n + 1 \in 1..l /\ l <= n + 1
    BY <2>2
  <2> QED
    BY <2>1, <2>3
<1>7. ASSUME NEW x \in 1..(c + 1) - k PROVE PendingIs(m, M, k + x, q[x])
  <2>1. CASE x = n + 1
    <3>1. k + x = c + 1
      BY <1>1, <1>3, <2>1
    <3> QED
      BY <1>4, <2>1, <3>1
  <2>2. CASE x # n + 1
    <3>1. x \in 1..n /\ x \in 1..c - k /\ k + x \in 1..c
      BY <1>1, <1>3, <2>2
    <3>2. PendingIs(m, N, k + x, pending[x])
      BY <3>1 DEF Queue
    <3>3. M[k + x] = N[k + x] /\ At(m, M, k + x) = At(m, N, k + x) /\ q[x] = pending[x]
      BY <1>4, <3>1 DEF At
    <3> QED
      BY <3>2, <3>3 DEF PendingIs
  <2> QED
    BY <2>1, <2>2
<1>8. Len(q) = (c + 1) - k
  BY <1>1, <1>3, <1>6
<1>9. ListOf(q)
  BY <1>4
<1>10. Queue(m, M, c + 1, k, q)
  BY ONLY <1>7, <1>8, <1>9, Zenon DEF Queue
<1> QED
  BY <1>2, <1>10

----------------------------------------------------------------------------
(* The layers counted, and the admissions.                                  *)

LayersOf(m, N, i) == {<<N[i], x>> : x \in DOMAIN At(m, N, i).layers}
Done(m, N, k) == UNION {LayersOf(m, N, i) : i \in 1..k}

LEMMA DoneIs ==
  ASSUME NEW m, WellTree(m), NEW N, NEW c, NEW k, NEW t, NodesOK(m, N, c, k, t), NEW j \in 0..c
  PROVE  Done(m, N, j) \subseteq TreeLayers(m) /\ IsFiniteSet(Done(m, N, j))
<1>1. c \in Nat /\ \A i \in 1..j : i \in 1..c
  BY DEF NodesOK
<1>2. ASSUME NEW i \in 1..j PROVE LayersOf(m, N, i) \subseteq TreeLayers(m)
  <2>1. N[i] \in Sound(m)
    BY <1>1, NodeFacts
  <2> QED
    BY <2>1 DEF LayersOf, TreeLayers, At
<1>3. Done(m, N, j) \subseteq TreeLayers(m)
  BY <1>2 DEF Done
<1> QED
  BY <1>3, TreeFinite, FS_Subset

LEMMA DoneGrows ==
  ASSUME NEW m, WellTree(m), NEW N, NEW c, NEW k, NEW t, NodesOK(m, N, c, k, t), k < c
  PROVE  /\ Cardinality(Done(m, N, k + 1)) = Cardinality(Done(m, N, k)) + Wide(At(m, N, k + 1))
         /\ Cardinality(Done(m, N, k)) \in Nat
         /\ Cardinality(Done(m, N, k + 1)) <= Cardinality(TreeLayers(m))
<1>1. c \in Nat /\ k \in Nat /\ k \in 0..c /\ k + 1 \in 0..c /\ k + 1 \in 1..c /\ \A i \in 1..k : i \in 1..c /\ i # k + 1
  BY DEF NodesOK
<1> DEFINE A == Done(m, N, k)
           B == LayersOf(m, N, k + 1)
<1>2. Done(m, N, k + 1) = A \cup B
  <2>1. \A i : i \in 1..k + 1 <=> i \in 1..k \/ i = k + 1
    BY <1>1
  <2> QED
    BY <2>1 DEF Done
<1>3. A \cap B = {}
  <2> SUFFICES ASSUME NEW l \in A, l \in B PROVE FALSE
    OBVIOUS
  <2>1. PICK i \in 1..k : l \in LayersOf(m, N, i)
    BY DEF Done
  <2>2. N[i] = N[k + 1]
    BY <2>1 DEF LayersOf
  <2> QED
    BY <1>1, <2>2 DEF NodesOK
<1>4. IsFiniteSet(A) /\ IsFiniteSet(Done(m, N, k + 1)) /\ Done(m, N, k + 1) \subseteq TreeLayers(m)
  BY <1>1, DoneIs
<1>5. PICK n \in Nat : n = Wide(At(m, N, k + 1)) /\ DOMAIN At(m, N, k + 1).layers = 1..n
  BY <1>1, NodeFacts
<1>6. Cardinality(B) = n /\ IsFiniteSet(B)
  <2> DEFINE f == [x \in 1..n |-> <<N[k + 1], x>>]
  <2>1. f \in Bijection(1..n, B)
    BY <1>5 DEF Bijection, Injection, Surjection, IsInjective, LayersOf
  <2>2. ExistsBijection(1..n, B)
    BY <2>1 DEF ExistsBijection
  <2> QED
    BY <2>2, FS_CountingElements, FS_NatBijection
<1>7. Cardinality(A \cup B) = Cardinality(A) + Cardinality(B) - Cardinality(A \cap B)
  BY <1>4, <1>6, FS_Union
<1>8. Cardinality(A \cap B) = 0 /\ Cardinality(A) \in Nat
  BY <1>3, <1>4, FS_EmptySet, FS_CardinalityType
<1>9. Cardinality(Done(m, N, k + 1)) <= Cardinality(TreeLayers(m))
  BY <1>4, TreeFinite, FS_Subset
<1>10. Cardinality(A \cup B) = Cardinality(A) + n
  <2>1. PICK a \in Nat : a = Cardinality(A)
    BY <1>8
  <2> QED
    BY <1>6, <1>7, <1>8, <2>1
<1> QED
  BY <1>2, <1>5, <1>8, <1>9, <1>10

LEMMA DoneWith ==
  ASSUME NEW m, NEW N, NEW c \in Nat, NEW k \in 0..c, NEW M, \A i \in 1..c : M[i] = N[i]
  PROVE  Done(m, M, k) = Done(m, N, k)
<1>1. \A i \in 1..k : LayersOf(m, M, i) = LayersOf(m, N, i)
  BY DEF LayersOf, At
<1> QED
  BY <1>1 DEF Done

AdmFields == {"parent", "index", "app", "delegated", "requested", "layers"}
AdmIs(m, N, k, t, i, a) ==
    /\ DOMAIN a = AdmFields
    /\ a.index = i - 1 /\ a.app = At(m, N, i) /\ a.delegated = Edge(m, N[i]).capabilities
    /\ \E j \in 1..i - 1 : N[j] = Front(N[i]) /\ a.parent = j - 1
    /\ i <= k => a.layers = At(m, N, i).layers
    /\ Fin(k, t, i, 1) => a.requested = At(m, N, i).requires
Adm(m, N, c, k, t, adm) ==
    /\ ListOf(adm) /\ Len(adm) = c - 1
    /\ \A i \in 2..c : AdmIs(m, N, k, t, i, adm[i - 1])

IsList(f, n) == f = [x \in 1..n |-> f[x]]

LEMMA Lists ==
  ASSUME NEW n \in Nat, NEW f, IsList(f, n)
  PROVE  ListOf(f) /\ Len(f) = n
<1>1. f \in [1..n -> Range(f)]
  BY DEF Range, IsList
<1>2. f \in Seq(Range(f))
  BY <1>1
<1> QED
  BY <1>1, <1>2 DEF ListOf

LEMMA AdmList ==
  ASSUME NEW m, NEW N, NEW c \in Nat \ {0}, NEW k, NEW t, NEW adm, Adm(m, N, c, k, t, adm)
  PROVE  DOMAIN adm = 1..c - 1 /\ IsList(adm, c - 1) /\ Len(adm) = c - 1 /\ c - 1 \in Nat
<1>1. adm \in Seq(Range(adm)) /\ Len(adm) = c - 1
  BY DEF Adm, ListOf
<1>2. adm \in [1..c - 1 -> Range(adm)] /\ c - 1 \in Nat
  BY <1>1
<1> QED
  BY <1>1, <1>2 DEF IsList

\* An application is taken up: its layers are noted.
LEMMA AdmPop ==
  ASSUME NEW m, WellTree(m), NEW N, NEW c, NEW k, NEW t, NodesOK(m, N, c, k, t), k < c,
         k >= 1 => t = Width(At(m, N, k)), NEW adm, Adm(m, N, c, k, t, adm)
  PROVE  /\ k = 0 => Adm(m, N, c, 1, 0, adm)
         /\ k # 0 => Adm(m, N, c, k + 1, 0, [adm EXCEPT ![k].layers = At(m, N, k + 1).layers])
<1>1. c \in Nat \ {0} /\ k \in Nat /\ t \in Nat /\ k \in 0..c /\ (k = 0 => c = 1) /\ \A i \in 2..c : i \in 1..c
  BY DEF NodesOK
<1>2. CASE k = 0
  BY <1>1, <1>2 DEF Adm, AdmIs
<1>3. CASE k # 0
  <2> DEFINE b == [adm EXCEPT ![k].layers = At(m, N, k + 1).layers]
  <2>0. DOMAIN adm = 1..c - 1 /\ IsList(adm, c - 1) /\ c - 1 \in Nat
    <3>1. c \in Nat \ {0}
      BY <1>1
    <3> QED
      BY <3>1, AdmList
  <2>k. k \in 1..c - 1
    BY <1>1, <1>3
  <2>1. DOMAIN adm = 1..c - 1 /\ IsList(adm, c - 1) /\ c - 1 \in Nat /\ k \in 1..c - 1
    BY <2>0, <2>k
  <2>2. /\ IsList(b, c - 1)
        /\ \A x \in 1..c - 1 : x # k => b[x] = adm[x]
        /\ b[k] = [adm[k] EXCEPT !.layers = At(m, N, k + 1).layers]
    BY <2>1 DEF IsList
  <2>w. t >= 1
    BY <1>1, <1>3, NodeFacts
  <2>3. ASSUME NEW i \in 2..c PROVE AdmIs(m, N, k + 1, 0, i, b[i - 1])
    <3>0. /\ DOMAIN adm[i - 1] = AdmFields /\ adm[i - 1].index = i - 1 /\ adm[i - 1].app = At(m, N, i)
          /\ adm[i - 1].delegated = Edge(m, N[i]).capabilities
          /\ \E j \in 1..i - 1 : N[j] = Front(N[i]) /\ adm[i - 1].parent = j - 1
          /\ i <= k => adm[i - 1].layers = At(m, N, i).layers
          /\ Fin(k, t, i, 1) => adm[i - 1].requested = At(m, N, i).requires
      BY DEF Adm, AdmIs
    <3>1. i - 1 \in 1..c - 1
      BY <1>1
    <3>2. Fin(k + 1, 0, i, 1) => Fin(k, t, i, 1)
      BY <1>1, <2>w DEF Fin
    <3>3. CASE i = k + 1
      <4>1. i - 1 = k
        BY <1>1, <3>3
      <4> PICK a : a = adm[k]
        OBVIOUS
      <4>2. b[k] = [a EXCEPT !.layers = At(m, N, i).layers]
        BY <2>2, <3>3
      <4>3. /\ DOMAIN a = AdmFields /\ a.index = i - 1 /\ a.app = At(m, N, i)
            /\ a.delegated = Edge(m, N[i]).capabilities
            /\ \E j \in 1..i - 1 : N[j] = Front(N[i]) /\ a.parent = j - 1
            /\ Fin(k + 1, 0, i, 1) => a.requested = At(m, N, i).requires
        BY <3>0, <3>2, <4>1
      <4> HIDE DEF b
      <4>4. /\ DOMAIN b[k] = AdmFields /\ b[k].index = a.index /\ b[k].app = a.app
            /\ b[k].delegated = a.delegated /\ b[k].parent = a.parent /\ b[k].requested = a.requested
            /\ b[k].layers = At(m, N, i).layers
        BY <4>2, <4>3 DEF AdmFields
      <4>5. AdmIs(m, N, k + 1, 0, i, b[k])
        BY ONLY <4>3, <4>4 DEF AdmIs
      <4> QED
        BY <4>1, <4>5
    <3>4. CASE i # k + 1
      <4>1. i - 1 # k /\ (i <= k + 1 => i <= k)
        BY <1>1, <3>4
      <4>2. b[i - 1] = adm[i - 1]
        BY <2>2, <3>1, <4>1
      <4> HIDE DEF b
      <4>3. AdmIs(m, N, k + 1, 0, i, adm[i - 1])
        BY ONLY <3>0, <3>2, <4>1 DEF AdmIs
      <4> QED
        BY <4>2, <4>3
    <3> QED
      BY <3>3, <3>4
  <2> HIDE DEF b
  <2>4. ListOf(b) /\ Len(b) = c - 1
    BY <2>1, <2>2, Lists
  <2>5. Adm(m, N, c, k + 1, 0, b)
    BY <2>3, <2>4 DEF Adm
  <2> QED
    BY <1>3, <2>5 DEF b
<1> QED
  BY <1>2, <1>3

\* The required capabilities of an application are resolved.
LEMMA AdmRequires ==
  ASSUME NEW m, WellTree(m), NEW N, NEW c, NEW k, NodesOK(m, N, c, k, 0), k >= 1,
         NEW adm, Adm(m, N, c, k, 0, adm)
  PROVE  /\ k = 1 => Adm(m, N, c, k, 1, adm)
         /\ k # 1 => Adm(m, N, c, k, 1, [adm EXCEPT ![k - 1].requested = At(m, N, k).requires])
<1>1. c \in Nat \ {0} /\ k \in Nat /\ k \in 1..c /\ \A i \in 2..c : i \in 1..c
  BY DEF NodesOK
<1>f. \A i \in 1..c : Fin(k, 1, i, 1) => i = k \/ Fin(k, 0, i, 1)
  BY DEF Fin
<1>2. CASE k = 1
  <2>1. \A i \in 2..c : ~Fin(k, 1, i, 1)
    BY <1>2 DEF Fin
  <2> QED
    BY <1>2, <2>1 DEF Adm, AdmIs
<1>3. CASE k # 1
  <2> DEFINE b == [adm EXCEPT ![k - 1].requested = At(m, N, k).requires]
  <2>0. DOMAIN adm = 1..c - 1 /\ IsList(adm, c - 1) /\ c - 1 \in Nat
    BY <1>1, AdmList
  <2>k. k - 1 \in 1..c - 1
    BY <1>1, <1>3
  <2>2. /\ IsList(b, c - 1)
        /\ \A x \in 1..c - 1 : x # k - 1 => b[x] = adm[x]
        /\ b[k - 1] = [adm[k - 1] EXCEPT !.requested = At(m, N, k).requires]
    BY <2>0, <2>k DEF IsList
  <2>3. ASSUME NEW i \in 2..c PROVE AdmIs(m, N, k, 1, i, b[i - 1])
    <3>0. /\ DOMAIN adm[i - 1] = AdmFields /\ adm[i - 1].index = i - 1 /\ adm[i - 1].app = At(m, N, i)
          /\ adm[i - 1].delegated = Edge(m, N[i]).capabilities
          /\ \E j \in 1..i - 1 : N[j] = Front(N[i]) /\ adm[i - 1].parent = j - 1
          /\ i <= k => adm[i - 1].layers = At(m, N, i).layers
          /\ Fin(k, 0, i, 1) => adm[i - 1].requested = At(m, N, i).requires
      BY DEF Adm, AdmIs
    <3>1. i - 1 \in 1..c - 1
      BY <1>1
    <3>3. CASE i = k
      <4> PICK a : a = adm[k - 1]
        OBVIOUS
      <4>2. b[k - 1] = [a EXCEPT !.requested = At(m, N, i).requires]
        BY <2>2, <3>3
      <4>3. /\ DOMAIN a = AdmFields /\ a.index = i - 1 /\ a.app = At(m, N, i)
            /\ a.delegated = Edge(m, N[i]).capabilities
            /\ \E j \in 1..i - 1 : N[j] = Front(N[i]) /\ a.parent = j - 1
            /\ i <= k => a.layers = At(m, N, i).layers
        BY <3>0, <3>3
      <4> HIDE DEF b
      <4>4. /\ DOMAIN b[k - 1] = AdmFields /\ b[k - 1].index = a.index /\ b[k - 1].app = a.app
            /\ b[k - 1].delegated = a.delegated /\ b[k - 1].parent = a.parent
            /\ b[k - 1].requested = At(m, N, i).requires /\ b[k - 1].layers = a.layers
        BY <4>2, <4>3 DEF AdmFields
      <4>5. AdmIs(m, N, k, 1, i, b[k - 1])
        BY ONLY <4>3, <4>4 DEF AdmIs
      <4> QED
        BY <3>3, <4>5
    <3>4. CASE i # k
      <4>1. i - 1 # k - 1 /\ (Fin(k, 1, i, 1) => Fin(k, 0, i, 1))
        BY <1>1, <1>f, <3>4
      <4>2. b[i - 1] = adm[i - 1]
        BY <2>2, <3>1, <4>1
      <4> HIDE DEF b
      <4>3. AdmIs(m, N, k, 1, i, adm[i - 1])
        BY ONLY <3>0, <4>1 DEF AdmIs
      <4> QED
        BY <4>2, <4>3
    <3> QED
      BY <3>3, <3>4
  <2> HIDE DEF b
  <2>4. ListOf(b) /\ Len(b) = c - 1
    BY <2>0, <2>2, Lists
  <2>5. Adm(m, N, c, k, 1, b)
    BY <2>3, <2>4 DEF Adm
  <2> QED
    BY <1>3, <2>5 DEF b
<1> QED
  BY <1>2, <1>3

LEMMA AdmAdvance ==
  ASSUME NEW m, NEW N, NEW c, NEW k, NEW t, NodesOK(m, N, c, k, t), t >= 1,
         NEW adm, Adm(m, N, c, k, t, adm)
  PROVE  Adm(m, N, c, k, t + 1, adm)
<1>1. t \in Nat /\ c \in Nat /\ k \in Nat
  BY DEF NodesOK
<1>2. \A i \in 2..c : Fin(k, t + 1, i, 1) => Fin(k, t, i, 1)
  BY <1>1 DEF Fin
<1> QED
  BY <1>2 DEF Adm, AdmIs

\* A child is admitted under the application that names it.
LEMMA AdmMeet ==
  ASSUME NEW m, WellTree(m), NEW N, NEW c, NEW k, NEW t, NodesOK(m, N, c, k, t), k >= 1, t >= 1,
         NEW x \in DOMAIN At(m, N, k).children, ChildEdge(At(m, N, k), x) = t + 1,
         NEW adm, Adm(m, N, c, k, t, adm), NEW a, DOMAIN a = AdmFields, a.parent = k - 1, a.index = c,
         a.app = At(m, N, k).children[x].application, a.delegated = At(m, N, k).children[x].capabilities
  PROVE  Adm(m, With(N, c, Append(N[k], x)), c + 1, k, t + 1, Append(adm, a)) /\ Len(adm) = c - 1
<1> PICK q : q = Append(N[k], x)
  OBVIOUS
<1> DEFINE M == With(N, c, q)
<1> PICK b : b = Append(adm, a)
  OBVIOUS
<1>1. k \in 1..c /\ t \in Nat /\ c \in Nat \ {0} /\ k \in Nat /\ \A i \in 2..c : i \in 1..c
  BY DEF NodesOK
<1>2. M[c + 1] = q /\ \A i \in 1..c : M[i] = N[i]
  BY <1>1 DEF With
<1>3. \A i \in 1..c : At(m, M, i) = At(m, N, i)
  BY <1>2 DEF At
<1>4. /\ AppAt(m, q) = At(m, N, k).children[x].application /\ Edge(m, q) = At(m, N, k).children[x]
      /\ Front(q) = N[k]
  BY FreshNode
<1> HIDE DEF M
<1>5. PICK n \in Nat : n = Len(adm) /\ n = c - 1 /\ n + 1 = c
  BY <1>1, AdmList
<1>6. ListOf(b) /\ DOMAIN b = 1..n + 1 /\ (\A i \in 1..n : b[i] = adm[i]) /\ b[n + 1] = a
  BY <1>5, ListGrows DEF Adm
<1>7. Len(b) \in Nat /\ DOMAIN b = 1..Len(b)
  BY <1>6, ListGrows
<1>8. Len(b) = c
  <2>1. PICK l \in Nat : l = Len(b)
    BY <1>7
  <2>2. 1..l = 1..n + 1
    BY <1>6, <1>7, <2>1
  <2>3. n + 1 \in 1..l /\ l <= n + 1
    BY <2>2
  <2> QED
    BY <1>5, <2>1, <2>3
<1>s. \A i \in 2..c + 1 : i = c + 1 \/ i \in 2..c
  <2>1. c \in Nat
    BY <1>1
  <2> QED
    BY ONLY <2>1
<1>9. ASSUME NEW i \in 2..c + 1 PROVE AdmIs(m, M, k, t + 1, i, b[i - 1])
  <2>1. CASE i = c + 1
    <3>1. b[i - 1] = a /\ ~(i <= k) /\ ~Fin(k, t + 1, i, 1) /\ i - 1 = c /\ k \in 1..i - 1
      BY <1>1, <1>5, <1>6, <2>1 DEF Fin
    <3>2. M[i] = q /\ M[k] = N[k] /\ At(m, M, i) = AppAt(m, q)
      BY <1>1, <1>2, <2>1 DEF At
    <3>3. \E j \in 1..i - 1 : M[j] = Front(M[i]) /\ a.parent = j - 1
      BY <1>4, <3>1, <3>2
    <3>4. a.index = i - 1 /\ a.app = At(m, M, i) /\ a.delegated = Edge(m, M[i]).capabilities
      BY <1>4, <3>1, <3>2
    <3>5. AdmIs(m, M, k, t + 1, i, a)
      BY <3>1, <3>3, <3>4 DEF AdmIs
    <3> QED
      BY <3>1, <3>5
  <2>2. CASE i \in 2..c
    <3>0. i \in 1..c /\ i - 1 \in 1..n /\ \A j \in 1..i - 1 : j \in 1..c
      BY <1>1, <1>5, <2>2
    <3>1. M[i] = N[i] /\ At(m, M, i) = At(m, N, i) /\ b[i - 1] = adm[i - 1]
      BY <1>2, <1>3, <1>6, <3>0
    <3>2. Fin(k, t + 1, i, 1) => Fin(k, t, i, 1)
      BY <1>1 DEF Fin
    <3>3. AdmIs(m, N, k, t, i, adm[i - 1])
      BY <2>2 DEF Adm
    <3>4. \E j \in 1..i - 1 : M[j] = Front(M[i]) /\ adm[i - 1].parent = j - 1
      BY <1>2, <3>0, <3>1, <3>3 DEF AdmIs
    <3>5. AdmIs(m, M, k, t + 1, i, adm[i - 1])
      BY <3>1, <3>2, <3>3, <3>4 DEF AdmIs
    <3> QED
      BY <3>1, <3>5
  <2> QED
    BY <1>s, <2>1, <2>2
<1>10. Len(b) = (c + 1) - 1
  BY <1>1, <1>8
<1>11. Adm(m, M, c + 1, k, t + 1, b)
  BY <1>6, <1>9, <1>10 DEF Adm
<1> QED
  BY <1>5, <1>11 DEF M

----------------------------------------------------------------------------
(* What resolving an object does to the planner.                            *)

PlanFields ==
    {"phase", "archive", "target", "grant", "intact", "pending", "app", "todo", "delegated",
     "objects", "missing", "mismatched", "referenced", "bytes", "halted", "count", "limited",
     "layers", "blockers", "requested", "admissions", "grants", "decisions"}
ResolveFields == {"objects", "missing", "mismatched", "referenced", "bytes", "halted", "blockers"}

Blockers == {"found", "missing", "mismatch", "halted", "limit", "cycle", "capabilities", "child"}
IsPlan(p) == DOMAIN p = PlanFields /\ p.blockers \in Seq(Blockers)
Kept(p, q, fields) == \A f \in PlanFields \ fields : q[f] = p[f]

Held(a, target, s) == a.blobs \cup (IF target = "resident" THEN s ELSE {})

Stock(p, s) ==
    /\ p.objects \subseteq Needs(p.archive.manifest)
    /\ p.objects \subseteq Held(p.archive, p.target, s)
    /\ p.referenced = p.objects /\ p.missing = {} /\ p.mismatched = {}
    /\ p.halted = FALSE /\ p.blockers = <<>>
    /\ p.bytes = Sum(Weights(Needs(p.archive.manifest)), p.objects)
    /\ p.bytes <= MaxResolvedBytes /\ Cardinality(p.objects) <= MaxObjects

Planable(p) == Plannable(p.archive, p.intact, p.target)

LEMMA PlannableHas ==
  ASSUME NEW a, NEW has, NEW target, Plannable(a, has, target)
  PROVE  /\ Needs(a.manifest) \subseteq Held(a, target, has)
         /\ Cardinality(Needs(a.manifest)) <= MaxObjects
         /\ MapThenSumSet(Weight, Needs(a.manifest)) <= MaxResolvedBytes
  BY DEF Plannable, Held

\* One object more of those needed.
LEMMA NeedsMore ==
  ASSUME NEW m, WellTree(m), NEW S \in SUBSET Needs(m), NEW o \in Needs(m), o \notin S
  PROVE  /\ Cardinality(S \cup {o}) = Cardinality(S) + 1 /\ Cardinality(S) \in Nat
         /\ Cardinality(S) + 1 <= Cardinality(Needs(m)) /\ Cardinality(Needs(m)) \in Nat
         /\ Sum(Weights(Needs(m)), S \cup {o}) = Sum(Weights(Needs(m)), S) + Weight(o)
         /\ Sum(Weights(Needs(m)), S) + Weight(o) <= MapThenSumSet(Weight, Needs(m))
         /\ Sum(Weights(Needs(m)), S) \in Nat /\ Weight(o) \in Nat
         /\ MapThenSumSet(Weight, Needs(m)) \in Nat
<1> PICK W : W = Weights(Needs(m))
  OBVIOUS
<1>1. \A e \in Needs(m) : Weight(e) \in Nat /\ W[e] = Weight(e)
  BY DEF WellTree, WellFormed, Weights
<1>2. IsFiniteSet(Needs(m)) /\ IsFiniteSet(S) /\ IsFiniteSet(S \cup {o}) /\ S \cup {o} \in SUBSET Needs(m)
  BY TreeFinite, FS_Subset
<1>3. Cardinality(S \cup {o}) = Cardinality(S) + 1
  BY <1>2, FS_AddElement
<1>4. Cardinality(S) \in Nat /\ Cardinality(Needs(m)) \in Nat /\ Cardinality(S \cup {o}) <= Cardinality(Needs(m))
  BY <1>2, FS_CardinalityType, FS_Subset
<1>5. Sum(W, S \cup {o}) = Sum(W, S) + W[o]
  BY <1>1, <1>2, SumWith
<1>6. Sum(W, S \cup {o}) <= Sum(W, Needs(m)) /\ Sum(W, S) \in Nat /\ Sum(W, Needs(m)) \in Nat
  BY <1>1, <1>2, SumMonotone, SumNat
<1>7. MapThenSumSet(Weight, Needs(m)) = Sum(W, Needs(m))
  BY <1>1, <1>2, WeightsSum
<1> QED
  BY <1>1, <1>3, <1>4, <1>5, <1>6, <1>7

KnownBad(o) == o \in plan.missing \cup plan.mismatched
TooMany(o) == o \notin plan.referenced /\ Cardinality(plan.referenced) + 1 > MaxObjects
Fresh(o) == o \notin plan.objects /\ ~KnownBad(o) /\ ~plan.halted
Outcome(o) ==
    CASE o \in plan.objects -> "found"
      [] ~(o \in plan.objects) /\ KnownBad(o) -> IF o \in plan.missing THEN "missing" ELSE "mismatch"
      [] ~(o \in plan.objects) /\ ~KnownBad(o) /\ plan.halted -> "halted"
      [] ~(o \in plan.objects) /\ ~KnownBad(o) /\ ~plan.halted /\ TooMany(o) -> "limit"
      [] OTHER -> IF ~(Embedded(o) \/ Stored(o)) THEN "missing"
                  ELSE IF Bad(o) THEN "mismatch"
                  ELSE IF plan.bytes + Weight(o) > MaxResolvedBytes THEN "limit" ELSE "found"

LEMMA Outcomes ==
  ASSUME NEW o
  PROVE  /\ Outcome(o) \in {"found", "missing", "mismatch", "halted", "limit"}
         /\ o \in plan.objects => Outcome(o) = "found"
         /\ Fresh(o) => Outcome(o) =
              IF TooMany(o) THEN "limit"
              ELSE IF ~(Embedded(o) \/ Stored(o)) THEN "missing"
              ELSE IF Bad(o) THEN "mismatch"
              ELSE IF plan.bytes + Weight(o) > MaxResolvedBytes THEN "limit" ELSE "found"
<1>1. CASE o \in plan.objects
  BY <1>1 DEF Outcome, Fresh
<1>2. CASE ~(o \in plan.objects) /\ KnownBad(o)
  BY <1>2 DEF Outcome, Fresh
<1>3. CASE ~(o \in plan.objects) /\ ~KnownBad(o) /\ plan.halted
  BY <1>3 DEF Outcome, Fresh
<1>4. CASE ~(o \in plan.objects) /\ ~KnownBad(o) /\ ~plan.halted /\ TooMany(o)
  BY <1>4 DEF Outcome, Fresh
<1>5. CASE ~(o \in plan.objects) /\ ~KnownBad(o) /\ ~plan.halted /\ ~TooMany(o)
  BY <1>5 DEF Outcome, Fresh
<1> QED
  BY <1>1, <1>2, <1>3, <1>4, <1>5

LEMMA ResolveIs ==
  ASSUME NEW o, IsPlan(plan)
  PROVE  /\ IsPlan(Resolve(o).plan) /\ Kept(plan, Resolve(o).plan, ResolveFields)
         /\ plan.blockers # <<>> => Resolve(o).plan.blockers # <<>>
         /\ Outcome(o) \notin {"found", "halted"} => Resolve(o).plan.blockers # <<>>
         /\ Resolve(o).found <=> Outcome(o) = "found"
         /\ Outcome(o) = "found" =>
              /\ Resolve(o).plan.objects = plan.objects \cup {o}
              /\ Resolve(o).plan.referenced
                   = IF Fresh(o) /\ ~TooMany(o) THEN plan.referenced \cup {o} ELSE plan.referenced
              /\ Resolve(o).plan.bytes = IF Fresh(o) THEN plan.bytes + Weight(o) ELSE plan.bytes
              /\ Resolve(o).plan.missing = plan.missing /\ Resolve(o).plan.mismatched = plan.mismatched
              /\ Resolve(o).plan.halted = (plan.halted \/ FALSE)
              /\ Resolve(o).plan.blockers = plan.blockers
<1> DEFINE outcome == Outcome(o)
           p == [plan EXCEPT
                   !.referenced = IF Fresh(o) /\ ~TooMany(o) THEN @ \cup {o} ELSE @,
                   !.objects = IF outcome = "found" THEN @ \cup {o} ELSE @,
                   !.bytes = IF Fresh(o) /\ outcome = "found" THEN @ + Weight(o) ELSE @,
                   !.missing = IF outcome = "missing" THEN @ \cup {o} ELSE @,
                   !.mismatched = IF outcome = "mismatch" THEN @ \cup {o} ELSE @,
                   !.halted = @ \/ outcome = "limit",
                   !.blockers = IF outcome \in {"found", "halted"} THEN @ ELSE Append(@, outcome)]
<1>0. Resolve(o) = [found |-> outcome = "found", plan |-> p]
  BY DEF Resolve, Outcome, Fresh, KnownBad, TooMany
<1>1. Resolve(o).plan = p /\ (Resolve(o).found <=> outcome = "found")
  <2> HIDE DEF outcome, p
  <2>1. PICK r, b, q : r = Resolve(o) /\ b = outcome /\ q = p
    OBVIOUS
  <2>2. r = [found |-> b = "found", plan |-> q]
    BY <1>0, <2>1, Zenon
  <2>3. r.plan = q /\ (r.found <=> b = "found")
    BY ONLY <2>2
  <2> QED
    BY <2>1, <2>3
<1>2. outcome \in Blockers
  <2>1. outcome \in {"found", "missing", "mismatch", "halted", "limit"}
    BY Outcomes
  <2> QED
    BY <2>1 DEF Blockers
<1> HIDE DEF outcome
<1>3. DOMAIN p = PlanFields /\ Kept(plan, p, ResolveFields)
  BY DEF IsPlan, Kept, PlanFields, ResolveFields
<1>4. p.blockers = IF outcome \in {"found", "halted"} THEN plan.blockers ELSE Append(plan.blockers, outcome)
  BY DEF IsPlan, PlanFields
<1>5. plan.blockers \in Seq(Blockers)
  BY DEF IsPlan
<1>6. p.blockers \in Seq(Blockers) /\ (plan.blockers # <<>> => p.blockers # <<>>)
      /\ (outcome \notin {"found", "halted"} => p.blockers # <<>>)
  <2>1. Append(plan.blockers, outcome) \in Seq(Blockers) /\ Append(plan.blockers, outcome) # <<>>
    BY <1>2, <1>5
  <2> QED
    BY <1>4, <1>5, <2>1
<1>7. ASSUME outcome = "found"
      PROVE  /\ p.objects = plan.objects \cup {o}
             /\ p.referenced
                  = IF Fresh(o) /\ ~TooMany(o) THEN plan.referenced \cup {o} ELSE plan.referenced
             /\ p.bytes = IF Fresh(o) THEN plan.bytes + Weight(o) ELSE plan.bytes
             /\ p.missing = plan.missing /\ p.mismatched = plan.mismatched
             /\ p.halted = (plan.halted \/ FALSE) /\ p.blockers = plan.blockers
  BY <1>7 DEF IsPlan, PlanFields
<1> HIDE DEF p
<1> QED
  BY <1>1, <1>3, <1>6, <1>7 DEF IsPlan, outcome

\* Without a blocker, either the object is there and everything found stays within the
\* limits, or there is a blocker and the application has no plan.
LEMMA ObjectResolved ==
  ASSUME NEW o, IsPlan(plan), WellTree(plan.archive.manifest), Stock(plan, store),
         plan.intact \subseteq store, plan.intact \cap rotten = {},
         o \in Needs(plan.archive.manifest)
  PROVE  /\ Resolve(o).found => Stock(Resolve(o).plan, store)
                                /\ Resolve(o).plan.objects = plan.objects \cup {o}
         /\ ~Resolve(o).found => Resolve(o).plan.blockers # <<>> /\ ~Planable(plan)
<1> DEFINE m == plan.archive.manifest
           W == Weights(Needs(m))
<1>1. /\ IsPlan(Resolve(o).plan) /\ Kept(plan, Resolve(o).plan, ResolveFields)
      /\ Outcome(o) \notin {"found", "halted"} => Resolve(o).plan.blockers # <<>>
      /\ Resolve(o).found <=> Outcome(o) = "found"
  BY ResolveIs
<1>2. Resolve(o).plan.archive = plan.archive /\ Resolve(o).plan.target = plan.target
  BY <1>1 DEF Kept, PlanFields, ResolveFields
<1>3. /\ plan.objects \subseteq Needs(m) /\ plan.objects \subseteq Held(plan.archive, plan.target, store)
      /\ plan.referenced = plan.objects /\ plan.missing = {} /\ plan.mismatched = {}
      /\ plan.halted = FALSE /\ plan.blockers = <<>>
      /\ plan.bytes = Sum(W, plan.objects)
      /\ plan.bytes <= MaxResolvedBytes /\ Cardinality(plan.objects) <= MaxObjects
  BY DEF Stock
<1>4. ~KnownBad(o) /\ (o \notin plan.objects <=> Fresh(o))
  BY <1>3 DEF KnownBad, Fresh
<1>m. MaxObjects \in Nat /\ MaxResolvedBytes \in Nat
  BY PlanAssumption
<1>5. CASE o \in plan.objects
  <2>1. Outcome(o) = "found" /\ plan.objects \cup {o} = plan.objects /\ ~Fresh(o)
    BY <1>4, <1>5, Outcomes
  <2>2. /\ Resolve(o).plan.objects = plan.objects /\ Resolve(o).plan.referenced = plan.referenced
        /\ Resolve(o).plan.bytes = plan.bytes /\ Resolve(o).plan.missing = plan.missing
        /\ Resolve(o).plan.mismatched = plan.mismatched /\ Resolve(o).plan.halted = FALSE
        /\ Resolve(o).plan.blockers = plan.blockers
    BY <1>3, <2>1, ResolveIs
  <2>3. Stock(Resolve(o).plan, store)
    BY <1>2, <1>3, <2>2 DEF Stock
  <2> QED
    BY <1>1, <2>1, <2>2, <2>3
<1>6. CASE o \notin plan.objects
  <2> DEFINE S == plan.objects
  <2>1. /\ Cardinality(S \cup {o}) = Cardinality(S) + 1 /\ Cardinality(S) \in Nat
        /\ Cardinality(S) + 1 <= Cardinality(Needs(m)) /\ Cardinality(Needs(m)) \in Nat
        /\ Sum(W, S \cup {o}) = Sum(W, S) + Weight(o)
        /\ Sum(W, S) + Weight(o) <= MapThenSumSet(Weight, Needs(m))
        /\ Sum(W, S) \in Nat /\ Weight(o) \in Nat /\ MapThenSumSet(Weight, Needs(m)) \in Nat
    BY <1>3, <1>6, NeedsMore
  <2>2. Fresh(o) /\ (TooMany(o) <=> Cardinality(S) + 1 > MaxObjects)
    BY <1>3, <1>4, <1>6 DEF TooMany
  <2>3. Outcome(o) = IF TooMany(o) THEN "limit"
                     ELSE IF ~(Embedded(o) \/ Stored(o)) THEN "missing"
                     ELSE IF Bad(o) THEN "mismatch"
                     ELSE IF plan.bytes + Weight(o) > MaxResolvedBytes THEN "limit" ELSE "found"
    BY <2>2, Outcomes
  <2>4. Planable(plan) => Outcome(o) = "found"
    <3> SUFFICES ASSUME Planable(plan) PROVE Outcome(o) = "found"
      OBVIOUS
    <3>1. /\ Needs(m) \subseteq Held(plan.archive, plan.target, plan.intact)
          /\ Cardinality(Needs(m)) <= MaxObjects
          /\ MapThenSumSet(Weight, Needs(m)) <= MaxResolvedBytes
      BY PlannableHas DEF Planable
    <3>2. ~TooMany(o)
      BY <1>m, <2>1, <2>2, <3>1
    <3>3. plan.bytes + Weight(o) <= MaxResolvedBytes
      <4>1. PICK a \in Nat, b \in Nat, w \in Nat :
               a = Sum(W, S) /\ b = MapThenSumSet(Weight, Needs(m)) /\ w = Weight(o)
        BY <2>1
      <4>2. a + w <= b /\ b <= MaxResolvedBytes /\ plan.bytes = a
        BY <1>3, <2>1, <3>1, <4>1
      <4>3. a + w <= MaxResolvedBytes
        BY <1>m, <4>2
      <4> QED
        BY <4>1, <4>2, <4>3
    <3>4. ~(plan.bytes + Weight(o) > MaxResolvedBytes)
      <4>1. plan.bytes \in Nat
        BY <1>3, <2>1
      <4> QED
        BY <1>m, <2>1, <3>3, <4>1
    <3>5. Embedded(o) \/ Stored(o)
      BY <3>1 DEF Held, Embedded, Stored
    <3>6. ~Bad(o)
      BY <3>1 DEF Held, Embedded, Bad
    <3> QED
      BY <2>3, <3>2, <3>4, <3>5, <3>6
  <2>5. CASE Outcome(o) = "found"
    <3>1. /\ ~TooMany(o) /\ (Embedded(o) \/ Stored(o))
          /\ ~(plan.bytes + Weight(o) > MaxResolvedBytes)
      BY <2>3, <2>5
    <3>2. /\ Resolve(o).plan.objects = S \cup {o} /\ Resolve(o).plan.referenced = S \cup {o}
          /\ Resolve(o).plan.bytes = plan.bytes + Weight(o) /\ Resolve(o).plan.missing = {}
          /\ Resolve(o).plan.mismatched = {} /\ Resolve(o).plan.halted = FALSE
          /\ Resolve(o).plan.blockers = <<>>
      BY <1>3, <2>2, <2>5, <3>1, ResolveIs
    <3>3. o \in Held(plan.archive, plan.target, store)
      BY <3>1 DEF Held, Embedded, Stored
    <3>4. Cardinality(S \cup {o}) <= MaxObjects
      BY <1>m, <2>1, <2>2, <3>1
    <3>5. plan.bytes + Weight(o) <= MaxResolvedBytes
      <4>1. plan.bytes \in Nat
        BY <1>3, <2>1
      <4> QED
        BY <1>m, <2>1, <3>1, <4>1
    <3>6. plan.bytes + Weight(o) = Sum(W, S \cup {o})
      BY <1>3, <2>1
    <3>7. S \cup {o} \subseteq Needs(m) /\ S \cup {o} \subseteq Held(plan.archive, plan.target, store)
      BY <1>3, <3>3
    <3>8. Stock(Resolve(o).plan, store)
      BY <1>2, <3>2, <3>4, <3>5, <3>6, <3>7 DEF Stock
    <3> QED
      BY <1>1, <2>5, <3>2, <3>8
  <2>6. CASE Outcome(o) # "found"
    <3>1. Outcome(o) # "halted"
      BY <2>3
    <3> QED
      BY <1>1, <2>4, <2>6, <3>1
  <2> QED
    BY <2>5, <2>6
<1> QED
  BY <1>5, <1>6

----------------------------------------------------------------------------
(* The inductive invariant of the planner. As long as there is no blocker,  *)
(* what it has is what the nodes met so far need; once there is one, the    *)
(* application had no plan.                                                 *)

OneMore(half) == IF half THEN 1 ELSE 0

Midway(p, s, N, c, k, t, half) ==
    LET m == p.archive.manifest
    IN  /\ NodesOK(m, N, c, k, t) /\ Effects(m, N, c, k, t, p.objects)
        /\ Queue(m, N, c, k, p.pending) /\ Adm(m, N, c, k, t, p.admissions)
        /\ p.layers = Cardinality(Done(m, N, k)) /\ p.layers <= MaxLayers
        /\ p.count = c + OneMore(half) /\ p.count <= MaxApplications
        /\ Fin(k, t, 1, 1) => p.requested = m.requires
        /\ k = 0 => p.todo = <<>> /\ ~half
        /\ k # 0 => PendingIs(m, N, k, p.app) /\ TodoIs(At(m, N, k), t, half, p.todo)
        /\ half => LET o == At(m, N, k).children[t - Wide(At(m, N, k))].capabilities
                   IN  p.delegated = o /\ o \in p.objects /\ IsCaps(o) /\ Len(N[k]) + 1 <= MaxDepth
        /\ Stock(p, s) /\ p.limited = FALSE

Clean(p, s) == \E N, c, k, t : \E half \in BOOLEAN : Midway(p, s, N, c, k, t, half)

Fixed == {"phase", "archive", "target", "intact"}
StepKeeps(p, q) ==
    /\ IsPlan(q) /\ (\A f \in Fixed : q[f] = p[f])
    /\ p.blockers # <<>> => q.blockers # <<>>

\* The planner before a step without a blocker.
Ready == /\ IsPlan(plan) /\ WellTree(plan.archive.manifest)
         /\ plan.intact \subseteq store /\ plan.intact \cap rotten = {}

\* What a step makes of it.
Goes(q) == /\ q.blockers = <<>> => Clean(q, store)
           /\ q.blockers # <<>> => ~Planable(plan)

LEMMA Appends ==
  ASSUME NEW s \in Seq(Blockers), NEW b \in Blockers
  PROVE  Append(s, b) \in Seq(Blockers) /\ Append(s, b) # <<>>
<1>1. PICK B : B = Blockers
  OBVIOUS
<1>2. s \in Seq(B) /\ b \in B
  BY <1>1
<1>3. Append(s, b) \in Seq(B) /\ Len(Append(s, b)) = Len(s) + 1 /\ Len(s) \in Nat
  BY <1>2
<1>4. Append(s, b) # <<>>
  BY <1>3
<1> QED
  BY <1>1, <1>3, <1>4

LEMMA ResolveKeeps ==
  ASSUME NEW o, IsPlan(plan), NEW r, r = Resolve(o).plan
  PROVE  /\ DOMAIN r = PlanFields /\ r.blockers \in Seq(Blockers)
         /\ plan.blockers # <<>> => r.blockers # <<>>
         /\ \A f \in PlanFields \ ResolveFields : r[f] = plan[f]
<1>1. /\ IsPlan(Resolve(o).plan) /\ Kept(plan, Resolve(o).plan, ResolveFields)
      /\ plan.blockers # <<>> => Resolve(o).plan.blockers # <<>>
  BY ResolveIs
<1>2. IsPlan(r) /\ Kept(plan, r, ResolveFields) /\ (plan.blockers # <<>> => r.blockers # <<>>)
  BY <1>1
<1> QED
  BY <1>2 DEF IsPlan, Kept

LEMMA PopKeeps == ASSUME IsPlan(plan), PopApplication PROVE StepKeeps(plan, plan')
<1> DEFINE app == Head(plan.pending)
           total == plan.layers + Len(app.manifest.layers)
           adm == IF app.admission = 0 THEN plan.admissions
                  ELSE [plan.admissions EXCEPT ![app.admission].layers = app.manifest.layers]
           popped == [plan EXCEPT !.pending = Tail(@), !.layers = total, !.admissions = adm]
<1>1. plan' = IF total > MaxLayers
              THEN [Blocked(popped, "limit") EXCEPT !.pending = <<>>]
              ELSE [popped EXCEPT !.app = app, !.todo = Edges(app.manifest)]
  BY DEF PopApplication
<1> PICK a, l, d : a = app /\ l = total /\ d = adm
  OBVIOUS
<1>2. DOMAIN popped = PlanFields /\ popped.blockers = plan.blockers /\ \A f \in Fixed : popped[f] = plan[f]
  <2> HIDE DEF app, total, adm
  <2> QED
    BY DEF IsPlan, PlanFields, Fixed
<1> HIDE DEF popped
<1>3. plan.blockers \in Seq(Blockers) /\ "limit" \in Blockers
  BY DEF IsPlan, Blockers
<1>4. Append(plan.blockers, "limit") \in Seq(Blockers) /\ Append(plan.blockers, "limit") # <<>>
  BY <1>3, Appends
<1>5. CASE total > MaxLayers
  <2> HIDE DEF app, total
  <2>1. plan' = [[popped EXCEPT !.blockers = Append(@, "limit")] EXCEPT !.pending = <<>>]
    BY <1>1, <1>5 DEF Blocked
  <2>2. /\ DOMAIN plan' = PlanFields /\ plan'.blockers = Append(plan.blockers, "limit")
        /\ \A f \in Fixed : plan'[f] = plan[f]
    BY <1>2, <2>1 DEF PlanFields, Fixed
  <2> QED
    BY <1>4, <2>2 DEF StepKeeps, IsPlan
<1>6. CASE ~(total > MaxLayers)
  <2>1. plan' = [popped EXCEPT !.app = app, !.todo = Edges(app.manifest)]
    BY <1>1, <1>6
  <2> HIDE DEF app, total
  <2>2. /\ DOMAIN plan' = PlanFields /\ plan'.blockers = plan.blockers
        /\ \A f \in Fixed : plan'[f] = plan[f]
    BY <1>2, <2>1 DEF PlanFields, Fixed
  <2> QED
    BY <1>3, <2>2 DEF StepKeeps, IsPlan
<1> QED
  BY <1>5, <1>6

LEMMA RequiresKeeps == ASSUME IsPlan(plan), ResolveRequires PROVE StepKeeps(plan, plan')
<1> PICK o : o = plan.app.manifest.requires
  OBVIOUS
<1> PICK r : r = Resolve(o).plan
  OBVIOUS
<1> DEFINE p == [r EXCEPT !.todo = Tail(@)]
<1>1. plan' = IF ~Resolve(o).found THEN p
              ELSE IF ~IsCaps(o) THEN Blocked(p, "capabilities")
              ELSE IF plan.app.depth = 0 THEN [p EXCEPT !.requested = o]
              ELSE IF plan.app.admission # 0
                   THEN [p EXCEPT !.admissions[plan.app.admission].requested = o]
              ELSE p
  BY DEF ResolveRequires
<1>2. /\ DOMAIN r = PlanFields /\ r.blockers \in Seq(Blockers)
      /\ plan.blockers # <<>> => r.blockers # <<>>
      /\ \A f \in PlanFields \ ResolveFields : r[f] = plan[f]
  BY ResolveKeeps
<1>3. DOMAIN p = PlanFields /\ p.blockers = r.blockers /\ \A f \in Fixed : p[f] = plan[f]
  BY <1>2 DEF PlanFields, ResolveFields, Fixed
<1> HIDE DEF p
<1> DEFINE q == [p EXCEPT !.blockers = Append(@, "capabilities")]
<1>4. DOMAIN q = PlanFields /\ q.blockers = Append(r.blockers, "capabilities") /\ \A f \in Fixed : q[f] = plan[f]
  BY <1>3 DEF PlanFields, Fixed
<1>5. Append(r.blockers, "capabilities") \in Seq(Blockers) /\ Append(r.blockers, "capabilities") # <<>>
  <2>1. "capabilities" \in Blockers
    BY DEF Blockers
  <2> QED
    BY <1>2, <2>1, Appends
<1>6. StepKeeps(plan, p) /\ StepKeeps(plan, q)
  BY <1>2, <1>3, <1>4, <1>5, Zenon DEF StepKeeps, IsPlan
<1>7. Blocked(p, "capabilities") = q
  BY DEF Blocked
<1> HIDE DEF q
<1>8. StepKeeps(plan, [p EXCEPT !.requested = o])
  <2> PICK u : u = [p EXCEPT !.requested = o]
    OBVIOUS
  <2>1. DOMAIN u = PlanFields /\ u.blockers = r.blockers /\ \A f \in Fixed : u[f] = plan[f]
    BY <1>3 DEF PlanFields, Fixed
  <2> QED
    BY <1>2, <2>1 DEF StepKeeps, IsPlan
<1>9. StepKeeps(plan, [p EXCEPT !.admissions[plan.app.admission].requested = o])
  <2> PICK u : u = [p EXCEPT !.admissions[plan.app.admission].requested = o]
    OBVIOUS
  <2>1. DOMAIN u = PlanFields /\ u.blockers = r.blockers /\ \A f \in Fixed : u[f] = plan[f]
    BY <1>3 DEF PlanFields, Fixed
  <2> QED
    BY <1>2, <2>1 DEF StepKeeps, IsPlan
<1> QED
  BY <1>1, <1>6, <1>7, <1>8, <1>9

LEMMA LayerKeeps == ASSUME IsPlan(plan), ResolveLayer PROVE StepKeeps(plan, plan')
<1> PICK o : o = plan.app.manifest.layers[Head(plan.todo).at].content
  OBVIOUS
<1> PICK r : r = Resolve(o).plan
  OBVIOUS
<1>1. plan' = [r EXCEPT !.todo = Tail(@)]
  BY Zenon DEF ResolveLayer
<1>2. /\ DOMAIN r = PlanFields /\ r.blockers \in Seq(Blockers)
      /\ plan.blockers # <<>> => r.blockers # <<>>
      /\ \A f \in PlanFields \ ResolveFields : r[f] = plan[f]
  BY ResolveKeeps, Zenon
<1>3. DOMAIN plan' = PlanFields /\ plan'.blockers = r.blockers /\ \A f \in Fixed : plan'[f] = plan[f]
  BY <1>1, <1>2, Zenon DEF PlanFields, ResolveFields, Fixed
<1> QED
  BY <1>2, <1>3, Zenon DEF StepKeeps, IsPlan

LEMMA SkipKeeps == ASSUME IsPlan(plan), SkipChild PROVE StepKeeps(plan, plan')
<1> PICK lim, b : /\ lim = (plan.limited \/ ~(ChildCycle \/ TooDeep))
                  /\ b = IF ChildCycle THEN Append(plan.blockers, "cycle")
                         ELSE IF TooDeep \/ ~plan.limited THEN Append(plan.blockers, "limit")
                         ELSE plan.blockers
  OBVIOUS
<1>1. plan' = [plan EXCEPT !.todo = Tail(@), !.limited = lim, !.blockers = b]
  BY DEF SkipChild
<1>2. DOMAIN plan' = PlanFields /\ plan'.blockers = b /\ \A f \in Fixed : plan'[f] = plan[f]
  BY <1>1 DEF IsPlan, PlanFields, Fixed
<1>3. plan.blockers \in Seq(Blockers) /\ "cycle" \in Blockers /\ "limit" \in Blockers
  BY DEF IsPlan, Blockers
<1>4. b \in Seq(Blockers) /\ (plan.blockers # <<>> => b # <<>>)
  BY <1>3, Appends
<1> QED
  BY <1>2, <1>4 DEF StepKeeps, IsPlan

LEMMA DelegatedKeeps == ASSUME IsPlan(plan), ResolveDelegated PROVE StepKeeps(plan, plan')
<1> PICK o : o = Child.capabilities
  OBVIOUS
<1> PICK r : r = Resolve(o).plan
  OBVIOUS
<1> DEFINE p == [r EXCEPT !.count = @ + 1,
                          !.todo = <<[edge |-> "child", at |-> Head(@).at]>> \o Tail(@),
                          !.delegated = NoCaps]
<1>1. plan' = IF ~Resolve(o).found THEN p
              ELSE IF ~IsCaps(o) THEN Blocked(p, "capabilities")
              ELSE [p EXCEPT !.delegated = o]
  BY DEF ResolveDelegated
<1>2. /\ DOMAIN r = PlanFields /\ r.blockers \in Seq(Blockers)
      /\ plan.blockers # <<>> => r.blockers # <<>>
      /\ \A f \in PlanFields \ ResolveFields : r[f] = plan[f]
  BY ResolveKeeps
<1>3. DOMAIN p = PlanFields /\ p.blockers = r.blockers /\ \A f \in Fixed : p[f] = plan[f]
  BY <1>2 DEF PlanFields, ResolveFields, Fixed
<1> HIDE DEF p
<1> DEFINE q == [p EXCEPT !.blockers = Append(@, "capabilities")]
<1>4. DOMAIN q = PlanFields /\ q.blockers = Append(r.blockers, "capabilities") /\ \A f \in Fixed : q[f] = plan[f]
  BY <1>3 DEF PlanFields, Fixed
<1>5. Append(r.blockers, "capabilities") \in Seq(Blockers) /\ Append(r.blockers, "capabilities") # <<>>
  <2>1. "capabilities" \in Blockers
    BY DEF Blockers
  <2> QED
    BY <1>2, <2>1, Appends
<1>6. StepKeeps(plan, p) /\ StepKeeps(plan, q)
  BY <1>2, <1>3, <1>4, <1>5 DEF StepKeeps, IsPlan
<1>7. Blocked(p, "capabilities") = q
  BY DEF Blocked
<1> HIDE DEF q
<1>8. StepKeeps(plan, [p EXCEPT !.delegated = o])
  <2> PICK u : u = [p EXCEPT !.delegated = o]
    OBVIOUS
  <2>1. DOMAIN u = PlanFields /\ u.blockers = r.blockers /\ \A f \in Fixed : u[f] = plan[f]
    BY <1>3 DEF PlanFields, Fixed
  <2> QED
    BY <1>2, <2>1 DEF StepKeeps, IsPlan
<1> QED
  BY <1>1, <1>6, <1>7, <1>8

LEMMA ChildKeeps == ASSUME IsPlan(plan), ResolveChild PROVE StepKeeps(plan, plan')
<1> PICK o : o = Child.application
  OBVIOUS
<1> PICK r : r = Resolve(o).plan
  OBVIOUS
<1> DEFINE p == [r EXCEPT !.todo = Tail(@)]
           admitted == plan.delegated # NoCaps
           admission == [parent |-> plan.app.index, index |-> plan.count - 1, app |-> o,
                         delegated |-> plan.delegated, requested |-> NoCaps, layers |-> <<>>]
           next == [p EXCEPT
                      !.admissions = IF admitted THEN Append(@, admission) ELSE @,
                      !.pending = Append(@, Pending(plan.count - 1,
                           IF admitted THEN Len(plan.admissions) + 1 ELSE 0,
                           o, plan.app.depth + 1, Append(plan.app.path, o)))]
<1>1. plan' = IF ~Resolve(o).found THEN p ELSE IF ~ValidApp(o) THEN Blocked(p, "child") ELSE next
  BY DEF ResolveChild
<1>2. /\ DOMAIN r = PlanFields /\ r.blockers \in Seq(Blockers)
      /\ plan.blockers # <<>> => r.blockers # <<>>
      /\ \A f \in PlanFields \ ResolveFields : r[f] = plan[f]
  BY ResolveKeeps
<1>3. DOMAIN p = PlanFields /\ p.blockers = r.blockers /\ \A f \in Fixed : p[f] = plan[f]
  BY <1>2 DEF PlanFields, ResolveFields, Fixed
<1> HIDE DEF p
<1> DEFINE q == [p EXCEPT !.blockers = Append(@, "child")]
<1>4. DOMAIN q = PlanFields /\ q.blockers = Append(r.blockers, "child") /\ \A f \in Fixed : q[f] = plan[f]
  BY <1>3 DEF PlanFields, Fixed
<1>5. Append(r.blockers, "child") \in Seq(Blockers) /\ Append(r.blockers, "child") # <<>>
  <2>1. "child" \in Blockers
    BY DEF Blockers
  <2> QED
    BY <1>2, <2>1, Appends
<1>6. StepKeeps(plan, p) /\ StepKeeps(plan, q)
  BY <1>2, <1>3, <1>4, <1>5 DEF StepKeeps, IsPlan
<1>7. Blocked(p, "child") = q
  BY DEF Blocked
<1> HIDE DEF q
<1>8. StepKeeps(plan, next)
  <2> PICK u : u = next
    OBVIOUS
  <2>1. DOMAIN u = PlanFields /\ u.blockers = r.blockers /\ \A f \in Fixed : u[f] = plan[f]
    <3> HIDE DEF admitted, admission
    <3> QED
      BY <1>3 DEF PlanFields, Fixed
  <2> HIDE DEF next
  <2> QED
    BY <1>2, <2>1 DEF StepKeeps, IsPlan
<1> HIDE DEF next
<1> QED
  BY <1>1, <1>6, <1>7, <1>8

----------------------------------------------------------------------------
(* The edges of an application, one after the other.                        *)

LEMMA NeedsAre ==
  ASSUME NEW m
  PROVE  /\ \A p \in Inner(m) : AppAt(m, p) \in Needs(m) /\ Edge(m, p).capabilities \in Needs(m)
         /\ \A p \in Sound(m) : /\ AppAt(m, p).requires \in Needs(m)
                                /\ \A i \in DOMAIN AppAt(m, p).layers : AppAt(m, p).layers[i].content \in Needs(m)
<1>1. ASSUME NEW p \in Sound(m), NEW i \in DOMAIN AppAt(m, p).layers
      PROVE  AppAt(m, p).layers[i].content \in Needs(m)
  <2>1. <<p, i>> \in TreeLayers(m)
    BY DEF TreeLayers
  <2>2. LayerAt(m, <<p, i>>) = AppAt(m, p).layers[i]
    BY DEF LayerAt
  <2> QED
    BY <2>1, <2>2 DEF Needs
<1> QED
  BY <1>1 DEF Needs

LEMMA PlanableIs ==
  ASSUME Planable(plan)
  PROVE  LET m == plan.archive.manifest
         IN  /\ Level(m)[MaxDepth + 1] = {} /\ Cardinality(Tree(m)) <= MaxApplications
             /\ Sound(m) = Tree(m) /\ Cardinality(TreeLayers(m)) <= MaxLayers
             /\ \A p \in Tree(m) : IsCaps(AppAt(m, p).requires)
             /\ \A p \in Inner(m) : IsCaps(Edge(m, p).capabilities)
  BY DEF Planable, Plannable

StockFields == {"archive", "target", "objects", "referenced", "missing", "mismatched", "halted", "blockers", "bytes"}

LEMMA SameStock ==
  ASSUME NEW p, NEW s, Stock(p, s), NEW q, \A f \in StockFields : q[f] = p[f]
  PROVE  Stock(q, s)
<1>1. /\ q.archive = p.archive /\ q.target = p.target /\ q.objects = p.objects
      /\ q.referenced = p.referenced /\ q.missing = p.missing /\ q.mismatched = p.mismatched
      /\ q.halted = p.halted /\ q.blockers = p.blockers /\ q.bytes = p.bytes
  BY DEF StockFields
<1> QED
  BY <1>1 DEF Stock

LEMMA MidwayFacts ==
  ASSUME Ready, NEW N, NEW c, NEW k, NEW t, NEW half \in BOOLEAN, Midway(plan, store, N, c, k, t, half),
         plan.todo # <<>>, NEW m, m = plan.archive.manifest
  PROVE  /\ WellTree(m) /\ NodesOK(m, N, c, k, t) /\ c \in Nat \ {0} /\ k \in 1..c /\ k \in Nat /\ t \in Nat /\ k >= 1
         /\ plan.app.manifest = At(m, N, k) /\ plan.app.index = k - 1 /\ plan.app.admission = k - 1
         /\ plan.app.depth = Len(N[k]) /\ PathOK(m, At(m, N, k), plan.app.path)
         /\ TodoIs(At(m, N, k), t, half, plan.todo) /\ TwoLists(At(m, N, k))
         /\ t < Width(At(m, N, k)) /\ N[k] \in Sound(m) /\ Stock(plan, store)
<1>1. WellTree(m) /\ NodesOK(m, N, c, k, t) /\ (k = 0 => plan.todo = <<>>)
      /\ (k # 0 => PendingIs(m, N, k, plan.app) /\ TodoIs(At(m, N, k), t, half, plan.todo))
      /\ Stock(plan, store)
  BY DEF Ready, Midway
<1>2. c \in Nat \ {0} /\ k \in 0..c /\ t \in Nat
  BY <1>1 DEF NodesOK
<1>3. k # 0 /\ k \in 1..c /\ k \in Nat /\ k >= 1
  BY <1>1, <1>2
<1>4. PICK path : plan.app = Pending(k - 1, k - 1, At(m, N, k), Len(N[k]), path) /\ PathOK(m, At(m, N, k), path)
  BY <1>1, <1>3 DEF PendingIs
<1>5. /\ plan.app.manifest = At(m, N, k) /\ plan.app.index = k - 1 /\ plan.app.admission = k - 1
      /\ plan.app.depth = Len(N[k]) /\ plan.app.path = path
  BY <1>4 DEF Pending
<1>6. TwoLists(At(m, N, k)) /\ N[k] \in Sound(m)
  BY <1>1, <1>3, NodeFacts
<1>7. t < Width(At(m, N, k))
  BY <1>1, <1>3, <1>6, TodoHead
<1> QED
  BY <1>1, <1>2, <1>3, <1>4, <1>5, <1>6, <1>7

Still == {"archive", "target", "pending", "app", "count", "limited", "layers"}

\* An edge that is no child's is resolved.
LEMMA MidwayNext ==
  ASSUME Ready, NEW N, NEW c, NEW k, NEW t, Midway(plan, store, N, c, k, t, FALSE), plan.todo # <<>>,
         NEW m, m = plan.archive.manifest, t <= Wide(At(m, N, k)),
         NEW q, \A f \in Still : q[f] = plan[f], q.todo = Tail(plan.todo),
         Stock(q, store), plan.objects \subseteq q.objects,
         t = 0 => At(m, N, k).requires \in q.objects /\ IsCaps(At(m, N, k).requires),
         t \in DOMAIN At(m, N, k).layers => At(m, N, k).layers[t].content \in q.objects,
         Adm(m, N, c, k, t + 1, q.admissions), Fin(k, t + 1, 1, 1) => q.requested = m.requires
  PROVE  Clean(q, store)
<1> PICK half \in BOOLEAN : half = FALSE /\ Midway(plan, store, N, c, k, t, half)
  OBVIOUS
<1>1. /\ WellTree(m) /\ NodesOK(m, N, c, k, t) /\ c \in Nat \ {0} /\ k \in 1..c /\ k \in Nat /\ t \in Nat /\ k >= 1
      /\ TodoIs(At(m, N, k), t, half, plan.todo) /\ TwoLists(At(m, N, k)) /\ t < Width(At(m, N, k))
  BY MidwayFacts
<1>2. /\ q.archive = plan.archive /\ q.target = plan.target /\ q.pending = plan.pending /\ q.app = plan.app
      /\ q.count = plan.count /\ q.limited = plan.limited /\ q.layers = plan.layers
  BY DEF Still
<1>3. NodesOK(m, N, c, k, t + 1)
  BY <1>1, Advances
<1>4. Effects(m, N, c, k, t + 1, q.objects)
  <2>1. Effects(m, N, c, k, t, plan.objects)
    BY DEF Midway
  <2>2. Effects(m, N, c, k, t, q.objects)
    BY <2>1, EffectsGrow
  <2> QED
    BY <1>1, <2>2, EffectsAdvance
<1>5. TodoIs(At(m, N, k), t + 1, FALSE, q.todo)
  <2> PICK o, todo : o = At(m, N, k) /\ todo = plan.todo
    OBVIOUS
  <2>1. TwoLists(o) /\ TodoIs(o, t, half, todo) /\ todo # <<>>
    BY <1>1
  <2>2. TodoIs(o, t + 1, FALSE, Tail(todo))
    BY <2>1, TodoHead
  <2> QED
    BY <2>2
<1>6. /\ Queue(m, N, c, k, q.pending)
      /\ q.layers = Cardinality(Done(m, N, k)) /\ q.layers <= MaxLayers
      /\ q.count = c + OneMore(half) /\ q.count <= MaxApplications
      /\ q.limited = FALSE
  BY <1>2 DEF Midway
<1>7. PendingIs(m, N, k, q.app) /\ k # 0
  BY <1>1, <1>2 DEF Midway
<1>8. Midway(q, store, N, c, k, t + 1, half)
  BY <1>2, <1>3, <1>4, <1>5, <1>6, <1>7 DEF Midway
<1> QED
  BY <1>8 DEF Clean

LEMMA LayerGoes ==
  ASSUME Ready, NEW N, NEW c, NEW k, NEW t, NEW half \in BOOLEAN, Midway(plan, store, N, c, k, t, half), ResolveLayer
  PROVE  Goes(plan')
<1> PICK m : m = plan.archive.manifest
  OBVIOUS
<1>0. plan.todo # <<>> /\ Head(plan.todo).edge = "layer"
  BY Zenon DEF ResolveLayer, NextEdge
<1>1. /\ WellTree(m) /\ NodesOK(m, N, c, k, t) /\ c \in Nat \ {0} /\ k \in 1..c /\ k \in Nat /\ t \in Nat /\ k >= 1
      /\ plan.app.manifest = At(m, N, k)
      /\ TodoIs(At(m, N, k), t, half, plan.todo) /\ TwoLists(At(m, N, k)) /\ N[k] \in Sound(m)
      /\ Stock(plan, store)
  BY <1>0, MidwayFacts
<1>2. t \in 1..Wide(At(m, N, k)) /\ Head(plan.todo).at = t /\ t \in DOMAIN At(m, N, k).layers /\ ~half
  BY <1>0, <1>1, HeadKinds
<1> PICK o : o = At(m, N, k).layers[t].content
  OBVIOUS
<1>3. o \in Needs(m)
  BY <1>1, <1>2, NeedsAre DEF At
<1> PICK r : r = Resolve(o).plan
  OBVIOUS
<1>4. plan' = [r EXCEPT !.todo = Tail(@)]
  BY <1>1, <1>2, Zenon DEF ResolveLayer
<1>5. /\ DOMAIN r = PlanFields /\ \A f \in PlanFields \ ResolveFields : r[f] = plan[f]
  BY ResolveKeeps DEF Ready
<1>6. DOMAIN plan' = PlanFields /\ plan'.todo = Tail(plan.todo) /\ \A f \in PlanFields \ {"todo"} : plan'[f] = r[f]
  BY <1>4, <1>5, Zenon DEF PlanFields, ResolveFields
<1>7. /\ Resolve(o).found => Stock(r, store) /\ r.objects = plan.objects \cup {o}
      /\ ~Resolve(o).found => r.blockers # <<>> /\ ~Planable(plan)
  BY <1>1, <1>3, ObjectResolved DEF Ready
<1>8. plan'.blockers = r.blockers
  BY <1>6 DEF PlanFields
<1>9. CASE ~Resolve(o).found
  BY <1>7, <1>8, <1>9 DEF Goes
<1>10. CASE Resolve(o).found
  <2>1. Stock(plan', store)
    <3>1. Stock(r, store)
      BY <1>7, <1>10, Zenon
    <3>2. \A f \in StockFields : plan'[f] = r[f]
      BY <1>6 DEF StockFields, PlanFields
    <3> QED
      BY <3>1, <3>2, SameStock
  <2>2. r.blockers = <<>>
    BY <1>7, <1>10, Zenon DEF Stock
  <2>3. \A f \in Still : plan'[f] = plan[f]
    BY <1>5, <1>6 DEF Still, PlanFields, ResolveFields
  <2>4. plan'.admissions = plan.admissions /\ plan'.requested = plan.requested /\ plan'.objects = plan.objects \cup {o}
    BY <1>5, <1>6, <1>7, <1>10, Zenon DEF PlanFields, ResolveFields
  <2>5. Adm(m, N, c, k, t, plan.admissions) /\ (Fin(k, t, 1, 1) => plan.requested = m.requires)
        /\ Midway(plan, store, N, c, k, t, FALSE)
    BY <1>2 DEF Midway
  <2>6. t >= 1 /\ t <= Wide(At(m, N, k)) /\ t # 0
    <3>1. Wide(At(m, N, k)) \in Nat
      BY <1>1, NodeFacts
    <3> QED
      BY <1>2, <3>1
  <2>7. Adm(m, N, c, k, t + 1, plan'.admissions)
    BY <1>1, <2>4, <2>5, <2>6, AdmAdvance
  <2>8. Fin(k, t + 1, 1, 1) => plan'.requested = m.requires
    BY <1>1, <2>4, <2>5, <2>6 DEF Fin
  <2> PICK q : q = plan'
    OBVIOUS
  <2>9. Clean(q, store)
    BY <1>0, <2>1, <2>3, <1>6, <2>4, <2>5, <2>6, <2>7, <2>8, MidwayNext
  <2> QED
    BY <1>8, <2>2, <2>9 DEF Goes
<1> QED
  BY <1>9, <1>10

LEMMA RequiresGoes ==
  ASSUME Ready, NEW N, NEW c, NEW k, NEW t, NEW half \in BOOLEAN, Midway(plan, store, N, c, k, t, half), ResolveRequires
  PROVE  Goes(plan')
<1> PICK m : m = plan.archive.manifest
  OBVIOUS
<1>0. plan.todo # <<>> /\ Head(plan.todo).edge = "requires"
  BY Zenon DEF ResolveRequires, NextEdge
<1>1. /\ WellTree(m) /\ NodesOK(m, N, c, k, t) /\ c \in Nat \ {0} /\ k \in 1..c /\ k \in Nat /\ t \in Nat /\ k >= 1
      /\ plan.app.manifest = At(m, N, k) /\ plan.app.admission = k - 1 /\ plan.app.depth = Len(N[k])
      /\ TodoIs(At(m, N, k), t, half, plan.todo) /\ TwoLists(At(m, N, k)) /\ N[k] \in Sound(m)
      /\ Stock(plan, store)
  BY <1>0, MidwayFacts
<1>2. t = 0 /\ ~half
  BY <1>0, <1>1, HeadKinds
<1> PICK o : o = At(m, N, k).requires
  OBVIOUS
<1>3. o \in Needs(m) /\ N[k] \in Tree(m)
  BY <1>1, NeedsAre DEF At, Sound
<1> PICK r : r = Resolve(o).plan
  OBVIOUS
<1> DEFINE p == [r EXCEPT !.todo = Tail(@)]
<1>4. plan' = IF ~Resolve(o).found THEN p
              ELSE IF ~IsCaps(o) THEN Blocked(p, "capabilities")
              ELSE IF plan.app.depth = 0 THEN [p EXCEPT !.requested = o]
              ELSE IF plan.app.admission # 0
                   THEN [p EXCEPT !.admissions[plan.app.admission].requested = o]
              ELSE p
  BY <1>1, Zenon DEF ResolveRequires
<1>5. /\ DOMAIN r = PlanFields /\ \A f \in PlanFields \ ResolveFields : r[f] = plan[f]
  BY ResolveKeeps DEF Ready
<1>6. DOMAIN p = PlanFields /\ p.todo = Tail(plan.todo) /\ \A f \in PlanFields \ {"todo"} : p[f] = r[f]
  BY <1>5 DEF PlanFields, ResolveFields
<1> HIDE DEF p
<1>7. /\ Resolve(o).found => Stock(r, store) /\ r.objects = plan.objects \cup {o}
      /\ ~Resolve(o).found => r.blockers # <<>> /\ ~Planable(plan)
  BY <1>1, <1>3, ObjectResolved DEF Ready
<1>8. p.blockers = r.blockers
  BY <1>6 DEF PlanFields
<1>9. CASE ~Resolve(o).found
  BY <1>4, <1>7, <1>8, <1>9 DEF Goes
<1>10. CASE Resolve(o).found /\ ~IsCaps(o)
  <2>1. ~Planable(plan)
    BY <1>3, <1>10, PlanableIs DEF At
  <2>2. r.blockers = <<>>
    BY <1>7, <1>10, Zenon DEF Stock
  <2>3. plan' = [p EXCEPT !.blockers = Append(@, "capabilities")]
    BY <1>4, <1>10 DEF Blocked
  <2>4. plan'.blockers = Append(<<>>, "capabilities")
    BY <1>6, <1>8, <2>2, <2>3 DEF PlanFields
  <2>5. plan'.blockers # <<>>
    BY <2>4
  <2> QED
    BY <2>1, <2>5 DEF Goes
<1>11. CASE Resolve(o).found /\ IsCaps(o)
  <2> DEFINE adm == IF k = 1 THEN plan.admissions ELSE [plan.admissions EXCEPT ![k - 1].requested = o]
             req == IF k = 1 THEN o ELSE plan.requested
  <2>1. plan.app.depth = 0 <=> k = 1
    <3>1. 1 \in 1..c /\ N[1] = <<>>
      BY <1>1 DEF NodesOK
    <3>2. N[k] \in Seq(Nat)
      BY <1>1, NodeFacts
    <3>3. Len(N[k]) = 0 => N[k] = <<>>
      BY <3>2
    <3>4. N[k] = N[1] => k = 1
      BY <1>1, <3>1 DEF NodesOK
    <3>5. k = 1 => Len(N[k]) = 0
      BY <3>1
    <3> QED
      BY <1>1, <3>1, <3>3, <3>4, <3>5
  <2>2. /\ DOMAIN plan' = PlanFields /\ plan'.admissions = adm /\ plan'.requested = req
        /\ \A f \in PlanFields \ {"admissions", "requested"} : plan'[f] = p[f]
    <3>1. p.admissions = plan.admissions /\ p.requested = plan.requested
      BY <1>5, <1>6 DEF PlanFields, ResolveFields
    <3>2. CASE k = 1
      <4>1. plan' = [p EXCEPT !.requested = o]
        BY <1>4, <1>11, <2>1, <3>2
      <4> QED
        BY <1>6, <3>1, <3>2, <4>1 DEF PlanFields
    <3>3. CASE k # 1
      <4>1. plan' = [p EXCEPT !.admissions[k - 1].requested = o]
        BY <1>1, <1>4, <1>11, <2>1, <3>3
      <4> QED
        BY <1>6, <3>1, <3>3, <4>1 DEF PlanFields
    <3> QED
      BY <3>2, <3>3
  <2>3. Adm(m, N, c, k, t + 1, adm)
    <3>1. NodesOK(m, N, c, k, 0) /\ Adm(m, N, c, k, 0, plan.admissions)
      BY <1>1, <1>2 DEF Midway
    <3>2. /\ k = 1 => Adm(m, N, c, k, 1, plan.admissions)
          /\ k # 1 => Adm(m, N, c, k, 1, [plan.admissions EXCEPT ![k - 1].requested = At(m, N, k).requires])
      BY <1>1, <3>1, AdmRequires
    <3>3. t + 1 = 1
      BY <1>2
    <3>4. Adm(m, N, c, k, 1, adm)
      BY <3>2
    <3> QED
      BY <3>3, <3>4
  <2>4. Fin(k, t + 1, 1, 1) => req = m.requires
    <3>1. CASE k = 1
      <4>1. At(m, N, 1) = m
        BY <1>1, AppAtRoot DEF At, NodesOK
      <4> QED
        BY <3>1, <4>1
    <3>2. CASE k # 1
      <4>1. Fin(k, t, 1, 1)
        BY <1>1, <3>2 DEF Fin
      <4> QED
        BY <3>2, <4>1 DEF Midway
    <3> QED
      BY <3>1, <3>2
  <2> HIDE DEF adm, req
  <2> PICK q : q = plan'
    OBVIOUS
  <2>5. Stock(q, store)
    <3>1. Stock(r, store)
      BY <1>7, <1>11
    <3>2. \A f \in StockFields : q[f] = r[f]
      BY <1>6, <2>2 DEF StockFields, PlanFields
    <3> QED
      BY <3>1, <3>2, SameStock
  <2>6. \A f \in Still : q[f] = plan[f]
    BY <1>5, <1>6, <2>2 DEF Still, PlanFields, ResolveFields
  <2>7. q.admissions = adm /\ q.requested = req /\ q.todo = Tail(plan.todo) /\ q.objects = plan.objects \cup {o}
        /\ q.blockers = <<>>
    <3>1. q.admissions = adm /\ q.requested = req
      BY <2>2
    <3>2. q.todo = p.todo /\ q.objects = p.objects /\ p.objects = r.objects
      BY <1>6, <2>2 DEF PlanFields
    <3>3. r.objects = plan.objects \cup {o} /\ p.todo = Tail(plan.todo)
      BY <1>6, <1>7, <1>11
    <3>4. q.blockers = <<>>
      BY <2>5 DEF Stock
    <3> QED
      BY <3>1, <3>2, <3>3, <3>4
  <2>8. Midway(plan, store, N, c, k, t, FALSE)
    BY <1>2
  <2>9. t <= Wide(At(m, N, k)) /\ t \notin DOMAIN At(m, N, k).layers
    BY <1>1, <1>2, NodeFacts
  <2>10. Clean(q, store)
    BY <1>0, <1>11, <2>3, <2>4, <2>5, <2>6, <2>7, <2>8, <2>9, MidwayNext
  <2> QED
    BY <2>7, <2>10 DEF Goes
<1> QED
  BY <1>9, <1>10, <1>11

\* There are as many nodes as were met, and one more for the next child.
LEMMA NodesCount ==
  ASSUME NEW m, WellTree(m), NEW N, NEW c, NEW k, NEW t, NodesOK(m, N, c, k, t), k >= 1,
         NEW x \in DOMAIN At(m, N, k).children, ChildEdge(At(m, N, k), x) = t + 1
  PROVE  c + 1 <= Cardinality(Tree(m))
<1> PICK q : q = Append(N[k], x)
  OBVIOUS
<1> DEFINE M == With(N, c, q)
<1>1. q \in Inner(m) /\ \A i \in 1..c : N[i] # q
  BY FreshNode
<1>2. c \in Nat /\ \A i \in 1..c : N[i] \in Tree(m)
  BY DEF NodesOK, Sound
<1>3. \A i, j \in 1..c : N[i] = N[j] => i = j
  BY DEF NodesOK
<1>4. M \in [1..c + 1 -> Tree(m)] /\ M[c + 1] = q /\ \A i \in 1..c : M[i] = N[i]
  BY <1>1, <1>2 DEF With, Inner
<1> HIDE DEF M
<1>s. \A i \in 1..c + 1 : i = c + 1 \/ i \in 1..c
  BY <1>2
<1>5. \A i, j \in 1..c + 1 : M[i] = M[j] => i = j
  BY <1>1, <1>3, <1>4, <1>s
<1>6. M \in Injection(1..c + 1, Tree(m))
  BY <1>4, <1>5 DEF Injection, IsInjective
<1>7. Cardinality(1..c + 1) <= Cardinality(Tree(m))
  BY <1>6, TreeFinite, FS_Injection
<1>8. Cardinality(1..c + 1) = c + 1
  BY <1>2, FS_Interval
<1> QED
  BY <1>7, <1>8

\* The facts about the next child, before its delegated capabilities or itself are resolved.
LEMMA NextChild ==
  ASSUME Ready, NEW N, NEW c, NEW k, NEW t, NEW half \in BOOLEAN, Midway(plan, store, N, c, k, t, half),
         plan.todo # <<>>, Head(plan.todo).edge \in {"delegated", "child"}, NEW m, m = plan.archive.manifest,
         NEW x, x = Head(plan.todo).at
  PROVE  /\ half <=> Head(plan.todo).edge = "child"
         /\ x \in DOMAIN At(m, N, k).children /\ ChildEdge(At(m, N, k), x) = t + 1
         /\ x = t - Wide(At(m, N, k)) /\ t >= 1
         /\ Child = At(m, N, k).children[x]
         /\ Append(N[k], x) \in Inner(m) /\ Append(N[k], x) \in Level(m)[Len(N[k]) + 1]
         /\ AppAt(m, Append(N[k], x)) = Child.application /\ Edge(m, Append(N[k], x)) = Child
         /\ Len(N[k]) \in 0..MaxDepth /\ MaxDepth \in Nat
<1>1. /\ WellTree(m) /\ NodesOK(m, N, c, k, t) /\ c \in Nat \ {0} /\ k \in 1..c /\ k \in Nat /\ t \in Nat /\ k >= 1
      /\ plan.app.manifest = At(m, N, k)
      /\ TodoIs(At(m, N, k), t, half, plan.todo) /\ TwoLists(At(m, N, k)) /\ N[k] \in Sound(m)
  BY MidwayFacts
<1>2. /\ t \in 1 + Wide(At(m, N, k))..Width(At(m, N, k)) - 1 /\ x = t - Wide(At(m, N, k))
      /\ x \in DOMAIN At(m, N, k).children
      /\ half <=> Head(plan.todo).edge = "child"
  BY <1>1, HeadKinds
<1>3. PICK w \in Nat : w = Wide(At(m, N, k))
  BY <1>1, NodeFacts
<1>4. t \in 1 + w..Width(At(m, N, k)) - 1 /\ x = t - w
  BY <1>2, <1>3
<1>w. Width(At(m, N, k)) \in Nat
  BY <1>1, NodeFacts
<1>5. t >= 1 /\ 1 + w + x = t + 1
  <2>1. PICK e \in Nat : e = Width(At(m, N, k))
    BY <1>w
  <2>2. t \in 1 + w..e - 1 /\ x = t - w
    BY <1>4, <2>1
  <2> QED
    BY ONLY <2>2, w \in Nat, e \in Nat
<1>6. ChildEdge(At(m, N, k), x) = t + 1
  BY <1>3, <1>5 DEF ChildEdge
<1>7. Child = At(m, N, k).children[x]
  BY <1>1 DEF Child
<1>8. /\ Append(N[k], x) \in Inner(m) /\ Append(N[k], x) \in Level(m)[Len(N[k]) + 1]
      /\ AppAt(m, Append(N[k], x)) = At(m, N, k).children[x].application
      /\ Edge(m, Append(N[k], x)) = At(m, N, k).children[x]
  BY <1>1, <1>2, <1>6, FreshNode
<1>9. Len(N[k]) \in 0..MaxDepth /\ MaxDepth \in Nat
  BY <1>1, NodeFacts, TheRoot
<1> QED
  BY <1>2, <1>5, <1>6, <1>7, <1>8, <1>9

LEMMA SkipGoes ==
  ASSUME Ready, NEW N, NEW c, NEW k, NEW t, NEW half \in BOOLEAN, Midway(plan, store, N, c, k, t, half), SkipChild
  PROVE  Goes(plan')
<1> PICK m, x : m = plan.archive.manifest /\ x = Head(plan.todo).at
  OBVIOUS
<1>0. plan.todo # <<>> /\ Head(plan.todo).edge = "delegated"
  BY DEF SkipChild, NextEdge
<1>1. /\ WellTree(m) /\ NodesOK(m, N, c, k, t) /\ c \in Nat \ {0} /\ k \in 1..c /\ k >= 1
      /\ plan.app.depth = Len(N[k]) /\ PathOK(m, At(m, N, k), plan.app.path)
  BY <1>0, MidwayFacts
<1>2. /\ ~half /\ x \in DOMAIN At(m, N, k).children /\ ChildEdge(At(m, N, k), x) = t + 1
      /\ Child = At(m, N, k).children[x]
      /\ Append(N[k], x) \in Level(m)[Len(N[k]) + 1]
      /\ Len(N[k]) \in 0..MaxDepth /\ MaxDepth \in Nat
  BY <1>0, NextChild
<1>3. plan.blockers = <<>> /\ plan.limited = FALSE /\ plan.count = c
  <2>1. plan.count = c + OneMore(half) /\ OneMore(half) = 0
    BY <1>2 DEF Midway, OneMore
  <2> QED
    BY <1>1, <2>1 DEF Midway, Stock
<1>4. plan'.blockers = IF ChildCycle THEN Append(<<>>, "cycle") ELSE Append(<<>>, "limit")
  <2> PICK lim, b : /\ lim = (plan.limited \/ ~(ChildCycle \/ TooDeep))
                    /\ b = IF ChildCycle THEN Append(plan.blockers, "cycle")
                           ELSE IF TooDeep \/ ~plan.limited THEN Append(plan.blockers, "limit")
                           ELSE plan.blockers
    OBVIOUS
  <2>1. plan' = [plan EXCEPT !.todo = Tail(@), !.limited = lim, !.blockers = b]
    BY DEF SkipChild
  <2>2. plan'.blockers = b
    BY <2>1 DEF Ready, IsPlan, PlanFields
  <2> QED
    BY <1>3, <2>2
<1>5. plan'.blockers # <<>>
  BY <1>4
<1>6. ~Planable(plan)
  <2> SUFFICES ASSUME Planable(plan) PROVE FALSE
    OBVIOUS
  <2>1. Level(m)[MaxDepth + 1] = {} /\ Cardinality(Tree(m)) <= MaxApplications
    BY PlanableIs
  <2>2. CASE ChildCycle
    <3>1. PICK i \in DOMAIN plan.app.path : plan.app.path[i] = At(m, N, k).children[x].application
      BY <1>2, <2>2 DEF ChildCycle
    <3> QED
      BY <1>1, <1>2, <2>1, <3>1, Endless
  <2>3. CASE TooDeep
    <3>1. Len(N[k]) + 1 = MaxDepth + 1
      BY <1>1, <1>2, <2>3 DEF TooDeep
    <3> QED
      BY <1>2, <2>1, <3>1
  <2>4. CASE TooManyApplications
    <3>1. c >= MaxApplications /\ MaxApplications \in Nat
      BY <1>3, <2>4, PlanAssumption DEF TooManyApplications
    <3>2. c + 1 <= Cardinality(Tree(m))
      BY <1>1, <1>2, NodesCount
    <3>3. Cardinality(Tree(m)) \in Nat
      BY <1>1, TreeFinite, FS_CardinalityType
    <3> QED
      BY <1>1, <2>1, <3>1, <3>2, <3>3
  <2> QED
    BY <2>2, <2>3, <2>4 DEF SkipChild
<1> QED
  BY <1>5, <1>6 DEF Goes

LEMMA DelegatedGoes ==
  ASSUME Ready, NEW N, NEW c, NEW k, NEW t, NEW half \in BOOLEAN, Midway(plan, store, N, c, k, t, half), ResolveDelegated
  PROVE  Goes(plan')
<1> PICK m, x : m = plan.archive.manifest /\ x = Head(plan.todo).at
  OBVIOUS
<1>0. plan.todo # <<>> /\ Head(plan.todo).edge = "delegated" /\ ~TooDeep /\ ~TooManyApplications
  BY DEF ResolveDelegated, NextEdge
<1>1. /\ WellTree(m) /\ NodesOK(m, N, c, k, t) /\ c \in Nat \ {0} /\ k \in 1..c /\ k >= 1 /\ k \in Nat /\ t \in Nat
      /\ plan.app.depth = Len(N[k]) /\ TodoIs(At(m, N, k), t, half, plan.todo) /\ TwoLists(At(m, N, k))
      /\ Stock(plan, store)
  BY <1>0, MidwayFacts
<1>2. /\ ~half /\ x = t - Wide(At(m, N, k)) /\ Child = At(m, N, k).children[x]
      /\ Append(N[k], x) \in Inner(m) /\ Edge(m, Append(N[k], x)) = Child
      /\ Len(N[k]) \in 0..MaxDepth /\ MaxDepth \in Nat
  BY <1>0, NextChild
<1> PICK o : o = Child.capabilities
  OBVIOUS
<1>3. o \in Needs(m)
  BY <1>2, NeedsAre
<1> PICK r : r = Resolve(o).plan
  OBVIOUS
<1> DEFINE todo == <<[edge |-> "child", at |-> Head(plan.todo).at]>> \o Tail(plan.todo)
           p == [r EXCEPT !.count = @ + 1,
                          !.todo = <<[edge |-> "child", at |-> Head(@).at]>> \o Tail(@),
                          !.delegated = NoCaps]
<1>4. plan' = IF ~Resolve(o).found THEN p
              ELSE IF ~IsCaps(o) THEN Blocked(p, "capabilities")
              ELSE [p EXCEPT !.delegated = o]
  BY DEF ResolveDelegated
<1>5. /\ DOMAIN r = PlanFields /\ \A f \in PlanFields \ ResolveFields : r[f] = plan[f]
  BY ResolveKeeps DEF Ready
<1>6. /\ DOMAIN p = PlanFields /\ p.todo = todo /\ p.count = plan.count + 1
      /\ \A f \in PlanFields \ {"todo", "count", "delegated"} : p[f] = r[f]
  BY <1>5 DEF PlanFields, ResolveFields
<1> HIDE DEF p, todo
<1>7. /\ Resolve(o).found => Stock(r, store) /\ r.objects = plan.objects \cup {o}
      /\ ~Resolve(o).found => r.blockers # <<>> /\ ~Planable(plan)
  BY <1>1, <1>3, ObjectResolved DEF Ready
<1>8. p.blockers = r.blockers
  BY <1>6 DEF PlanFields
<1>9. CASE ~Resolve(o).found
  BY <1>4, <1>7, <1>8, <1>9 DEF Goes
<1>10. CASE Resolve(o).found /\ ~IsCaps(o)
  <2>1. ~Planable(plan)
    BY <1>2, <1>10, PlanableIs
  <2>2. r.blockers = <<>>
    BY <1>7, <1>10 DEF Stock
  <2>3. plan' = [p EXCEPT !.blockers = Append(@, "capabilities")]
    BY <1>4, <1>10 DEF Blocked
  <2>4. plan'.blockers = Append(<<>>, "capabilities")
    BY <1>6, <1>8, <2>2, <2>3 DEF PlanFields
  <2>5. plan'.blockers # <<>>
    BY <2>4
  <2> QED
    BY <2>1, <2>5 DEF Goes
<1>11. CASE Resolve(o).found /\ IsCaps(o)
  <2> PICK q : q = plan'
    OBVIOUS
  <2>1. q = [p EXCEPT !.delegated = o]
    BY <1>4, <1>11
  <2>2. q.delegated = o /\ \A f \in PlanFields \ {"delegated"} : q[f] = p[f]
    BY <1>6, <2>1 DEF PlanFields
  <2>3. Stock(q, store)
    <3>1. Stock(r, store)
      BY <1>7, <1>11
    <3>2. \A f \in StockFields : q[f] = r[f]
      BY <1>6, <2>2 DEF StockFields, PlanFields
    <3> QED
      BY <3>1, <3>2, SameStock
  <2>4. q.todo = todo /\ q.count = plan.count + 1 /\ q.objects = plan.objects \cup {o}
    <3>1. q.todo = p.todo /\ q.count = p.count /\ q.objects = p.objects /\ p.objects = r.objects
      BY <1>6, <2>2 DEF PlanFields
    <3> QED
      BY <1>6, <1>7, <1>11, <3>1
  <2>5. /\ q.archive = plan.archive /\ q.pending = plan.pending /\ q.app = plan.app
        /\ q.limited = plan.limited /\ q.layers = plan.layers /\ q.admissions = plan.admissions
        /\ q.requested = plan.requested
    BY <1>5, <1>6, <2>2 DEF PlanFields, ResolveFields
  <2>6. plan.count = c /\ plan.limited = FALSE /\ c < MaxApplications /\ MaxApplications \in Nat
    <3>1. plan.count = c + OneMore(half) /\ OneMore(half) = 0 /\ plan.limited = FALSE
      BY <1>2 DEF Midway, OneMore
    <3>2. plan.count = c /\ MaxApplications \in Nat
      BY <1>1, <3>1, PlanAssumption
    <3>3. ~(plan.count >= MaxApplications)
      BY <1>0 DEF TooManyApplications
    <3> QED
      BY <1>1, <3>1, <3>2, <3>3
  <2>7. TodoIs(At(m, N, k), t, TRUE, q.todo)
    <3> PICK a, d : a = At(m, N, k) /\ d = plan.todo
      OBVIOUS
    <3>1. TwoLists(a) /\ TodoIs(a, t, FALSE, d) /\ d # <<>> /\ Head(d).edge = "delegated"
      BY <1>0, <1>1, <1>2
    <3>2. TodoIs(a, t, TRUE, <<[edge |-> "child", at |-> Head(d).at]>> \o Tail(d))
      BY <3>1, TodoHalf
    <3> QED
      BY <2>4, <3>2 DEF todo
  <2>8. Effects(m, N, c, k, t, q.objects)
    <3>1. Effects(m, N, c, k, t, plan.objects) /\ plan.objects \subseteq q.objects
      BY <2>4 DEF Midway
    <3> QED
      BY <3>1, EffectsGrow
  <2>9. /\ Queue(m, N, c, k, q.pending) /\ Adm(m, N, c, k, t, q.admissions)
        /\ q.layers = Cardinality(Done(m, N, k)) /\ q.layers <= MaxLayers
        /\ (Fin(k, t, 1, 1) => q.requested = m.requires) /\ q.limited = FALSE
        /\ k # 0 /\ PendingIs(m, N, k, q.app)
    BY <1>1, <2>5 DEF Midway
  <2>10. PICK on \in BOOLEAN : on = TRUE
    OBVIOUS
  <2>11. q.count = c + OneMore(on) /\ q.count <= MaxApplications
    BY <1>1, <2>4, <2>6, <2>10 DEF OneMore
  <2>12. LET e == At(m, N, k).children[t - Wide(At(m, N, k))].capabilities
         IN  q.delegated = e /\ e \in q.objects /\ IsCaps(e) /\ Len(N[k]) + 1 <= MaxDepth
    <3>1. Len(N[k]) + 1 <= MaxDepth
      BY <1>0, <1>1, <1>2 DEF TooDeep
    <3>2. o = At(m, N, k).children[t - Wide(At(m, N, k))].capabilities
      BY <1>2
    <3> QED
      BY <1>11, <2>2, <2>4, <3>1, <3>2
  <2>13. Midway(q, store, N, c, k, t, on)
    BY <1>1, <2>3, <2>5, <2>7, <2>8, <2>9, <2>10, <2>11, <2>12 DEF Midway
  <2>14. Clean(q, store)
    BY <2>13 DEF Clean
  <2>15. q.blockers = <<>>
    BY <2>3 DEF Stock
  <2> QED
    BY <2>14, <2>15 DEF Goes
<1> QED
  BY <1>9, <1>10, <1>11

\* The child that comes next has its content, and is walked later.
Also == {"archive", "target", "app", "count", "limited", "layers", "requested"}

Taken(q, a, o) ==
    /\ \A f \in Also : q[f] = plan[f]
    /\ q.todo = Tail(plan.todo) /\ Stock(q, store) /\ q.objects = plan.objects \cup {o}
    /\ DOMAIN a = AdmFields /\ a.parent = plan.app.index /\ a.index = plan.count - 1 /\ a.app = o
    /\ a.delegated = plan.delegated /\ q.admissions = Append(plan.admissions, a)
    /\ q.pending = Append(plan.pending, Pending(plan.count - 1, Len(plan.admissions) + 1, o,
                                               plan.app.depth + 1, Append(plan.app.path, o)))

LEMMA MidwayMeet ==
  ASSUME Ready, NEW N, NEW c, NEW k, NEW t, NEW half \in BOOLEAN,
         Midway(plan, store, N, c, k, t, half), plan.todo # <<>>, Head(plan.todo).edge = "child",
         NEW o, o = Child.application, ValidApp(o), NEW q, NEW a, Taken(q, a, o)
  PROVE  Clean(q, store)
<1> PICK m, x : m = plan.archive.manifest /\ x = Head(plan.todo).at
  OBVIOUS
<1>1. /\ WellTree(m) /\ NodesOK(m, N, c, k, t) /\ c \in Nat \ {0} /\ k \in 1..c /\ k >= 1 /\ k \in Nat /\ t \in Nat
      /\ plan.app.index = k - 1
      /\ plan.app.depth = Len(N[k]) /\ PathOK(m, At(m, N, k), plan.app.path)
      /\ TodoIs(At(m, N, k), t, half, plan.todo) /\ TwoLists(At(m, N, k)) /\ t < Width(At(m, N, k))
  BY MidwayFacts
<1>n. /\ x = t - Wide(At(m, N, k)) /\ Child = At(m, N, k).children[x]
      /\ x \in DOMAIN At(m, N, k).children /\ ChildEdge(At(m, N, k), x) = t + 1 /\ t >= 1
      /\ AppAt(m, Append(N[k], x)) = o
  BY NextChild
<1>2. x \in DOMAIN At(m, N, k).children /\ ChildEdge(At(m, N, k), x) = t + 1
  BY <1>n
<1>t. t >= 1
  BY <1>n
<1> PICK d : d = At(m, N, k).children[x].capabilities
  OBVIOUS
<1>h. half
  BY NextChild
<1>3. plan.delegated = d /\ d \in plan.objects /\ IsCaps(d) /\ Len(N[k]) + 1 <= MaxDepth
  BY <1>n, <1>h, Zenon DEF Midway
<1>4. At(m, N, k).children[x].application = o
  BY <1>n, Zenon
<1> PICK node : node = Append(N[k], x)
  OBVIOUS
<1> PICK M : M = With(N, c, node)
  OBVIOUS
<1>5. /\ NodesOK(m, M, c + 1, k, t + 1) /\ M[c + 1] = node /\ \A i \in 1..c : M[i] = N[i]
  <2>1. ValidApp(At(m, N, k).children[x].application)
    BY <1>4
  <2>2. WellTree(m) /\ NodesOK(m, N, c, k, t) /\ k >= 1 /\ Len(N[k]) + 1 <= MaxDepth
    BY <1>1, <1>3, Zenon
  <2>3. /\ NodesOK(m, With(N, c, Append(N[k], x)), c + 1, k, t + 1)
        /\ With(N, c, Append(N[k], x))[c + 1] = Append(N[k], x)
        /\ \A i \in 1..c : With(N, c, Append(N[k], x))[i] = N[i]
    BY ONLY <1>2, <2>1, <2>2, Meets
  <2> QED
    BY <2>3
<1>6. Effects(m, M, c + 1, k, t + 1, q.objects)
  <2>1. Effects(m, N, c, k, t, plan.objects) /\ plan.objects \subseteq q.objects
    BY DEF Midway, Taken
  <2>2. Effects(m, N, c, k, t, q.objects)
    BY <2>1, EffectsGrow
  <2>3. o \in q.objects /\ d \in q.objects
    BY <1>3, Zenon DEF Taken
  <2> QED
    BY <1>1, <1>2, <1>3, <1>4, <2>2, <2>3, EffectsMeet, Zenon
<1>7. plan.count = c + 1 /\ plan.count <= MaxApplications
  <2>1. plan.count = c + OneMore(half) /\ plan.count <= MaxApplications
    BY DEF Midway
  <2> QED
    BY <1>h, <2>1 DEF OneMore
<1>c. plan.count - 1 = c
  BY <1>1, <1>7
<1>a. DOMAIN a = AdmFields
  BY DEF Taken
<1>8. Adm(m, M, c + 1, k, t + 1, q.admissions) /\ Len(plan.admissions) = c - 1
  <2> PICK adm : adm = plan.admissions
    OBVIOUS
  <2>1. Adm(m, N, c, k, t, adm)
    BY DEF Midway
  <2>2. a.parent = k - 1 /\ a.index = c /\ a.app = At(m, N, k).children[x].application /\ a.delegated = d
    BY <1>1, <1>3, <1>4, <1>c, Zenon DEF Taken
  <2>3. Adm(m, With(N, c, Append(N[k], x)), c + 1, k, t + 1, Append(adm, a)) /\ Len(adm) = c - 1
    <3>1. WellTree(m) /\ NodesOK(m, N, c, k, t) /\ k >= 1
      BY <1>1
    <3>2. a.delegated = At(m, N, k).children[x].capabilities
      BY <2>2
    <3>3. a.parent = k - 1 /\ a.index = c /\ a.app = At(m, N, k).children[x].application
      BY <2>2
    <3> QED
      BY ONLY <1>2, <1>t, <1>a, <2>1, <3>1, <3>2, <3>3, AdmMeet
  <2> QED
    BY <2>3 DEF Taken
<1> PICK path : path = Append(plan.app.path, o)
  OBVIOUS
<1> PICK e : e = Pending(c, c, o, Len(N[k]) + 1, path)
  OBVIOUS
<1>9. q.pending = Append(plan.pending, e)
  <2>1. Len(plan.admissions) + 1 = c
    BY <1>1, <1>8
  <2> QED
    BY <1>1, <1>c, <2>1 DEF Taken
<1>10. At(m, M, c + 1) = o /\ Len(M[c + 1]) = Len(N[k]) + 1
  <2>1. Len(node) = Len(N[k]) + 1
    BY <1>1, <1>2, FreshNode
  <2>2. AppAt(m, node) = o
    BY <1>n, Zenon
  <2> QED
    BY <1>5, <2>1, <2>2 DEF At
<1>11. PendingIs(m, M, c + 1, e)
  <2>1. PathOK(m, o, path)
    BY <1>1, <1>2, <1>4, PathGrows
  <2>2. (c + 1) - 1 = c
    BY <1>1
  <2>3. e = Pending((c + 1) - 1, (c + 1) - 1, At(m, M, c + 1), Len(M[c + 1]), path)
    BY <1>10, <2>2
  <2> QED
    BY <1>10, <2>1, <2>3 DEF PendingIs
<1>12. Queue(m, M, c + 1, k, q.pending)
  <2>1. Queue(m, N, c, k, plan.pending)
    BY DEF Midway
  <2>2. \A i \in 1..c : M[i] = N[i]
    BY <1>5
  <2> QED
    BY <1>1, <1>9, <1>11, <2>1, <2>2, QueueMeet
<1>13. At(m, M, k) = At(m, N, k) /\ M[k] = N[k]
  BY <1>1, <1>5 DEF At
<1>14. PendingIs(m, M, k, q.app)
  <2>1. PendingIs(m, N, k, plan.app) /\ q.app = plan.app
    BY <1>1 DEF Midway, Also, Taken
  <2> QED
    BY <1>13, <2>1 DEF PendingIs
<1> PICK off \in BOOLEAN : off = FALSE
  OBVIOUS
<1>15. TodoIs(At(m, M, k), t + 1, off, q.todo)
  <2>1. q.todo = Tail(plan.todo)
    BY DEF Taken
  <2>2. TodoIs(At(m, N, k), t + 1, FALSE, Tail(plan.todo))
    BY <1>1, TodoHead
  <2> QED
    BY <1>13, <2>1, <2>2
<1>16. /\ q.layers = Cardinality(Done(m, M, k)) /\ q.layers <= MaxLayers
       /\ q.count = (c + 1) + OneMore(off) /\ q.count <= MaxApplications /\ q.limited = FALSE
  <2>1. /\ q.layers = plan.layers /\ q.count = plan.count /\ q.limited = plan.limited
    BY DEF Also, Taken
  <2>2. plan.layers = Cardinality(Done(m, N, k)) /\ plan.layers <= MaxLayers /\ plan.limited = FALSE
    BY DEF Midway
  <2>3. Done(m, M, k) = Done(m, N, k)
    <3>1. c \in Nat /\ k \in 0..c
      BY <1>1
    <3>2. \A i \in 1..c : M[i] = N[i]
      BY <1>5
    <3> QED
      BY ONLY <3>1, <3>2, DoneWith
  <2>4. q.count = (c + 1) + OneMore(off)
    BY <1>1, <1>7, <2>1 DEF OneMore
  <2> QED
    BY <1>7, <2>1, <2>2, <2>3, <2>4
<1>17. Fin(k, t + 1, 1, 1) => q.requested = m.requires
  <2>1. Fin(k, t, 1, 1)
    BY <1>1, <1>t DEF Fin
  <2>2. plan.requested = m.requires
    BY <2>1 DEF Midway
  <2> QED
    BY <2>2 DEF Also, Taken
<1>18. q.archive.manifest = m
  BY DEF Also, Taken
<1>20. Stock(q, store)
  BY DEF Taken
<1>19. Midway(q, store, M, c + 1, k, t + 1, off)
  BY <1>1, <1>5, <1>6, <1>8, <1>12, <1>14, <1>15, <1>16, <1>17, <1>18, <1>20, Zenon DEF Midway
<1> QED
  BY <1>19 DEF Clean

LEMMA ChildGoes ==
  ASSUME Ready, NEW N, NEW c, NEW k, NEW t, NEW half \in BOOLEAN, Midway(plan, store, N, c, k, t, half), ResolveChild
  PROVE  Goes(plan')
<1> PICK m, x : m = plan.archive.manifest /\ x = Head(plan.todo).at
  OBVIOUS
<1>0. plan.todo # <<>> /\ Head(plan.todo).edge = "child"
  BY DEF ResolveChild, NextEdge
<1>1. WellTree(m) /\ Stock(plan, store) /\ k \in 1..c
  BY <1>0, MidwayFacts
<1>2. /\ half = TRUE /\ x = t - Wide(At(m, N, k)) /\ Child = At(m, N, k).children[x]
      /\ Append(N[k], x) \in Inner(m) /\ AppAt(m, Append(N[k], x)) = Child.application
  BY <1>0, NextChild
<1> PICK o : o = Child.application
  OBVIOUS
<1>3. o \in Needs(m)
  BY <1>2, NeedsAre
<1> PICK r : r = Resolve(o).plan
  OBVIOUS
<1>d. plan.delegated # NoCaps
  <2>1. IsCaps(plan.delegated)
    BY <1>1, <1>2 DEF Midway
  <2> QED
    BY <2>1 DEF IsCaps, NoCaps
<1> PICK a : a = [parent |-> plan.app.index, index |-> plan.count - 1, app |-> o,
                  delegated |-> plan.delegated, requested |-> NoCaps, layers |-> <<>>]
  OBVIOUS
<1> PICK e : e = Pending(plan.count - 1, Len(plan.admissions) + 1, o,
                         plan.app.depth + 1, Append(plan.app.path, o))
  OBVIOUS
<1> DEFINE p == [r EXCEPT !.todo = Tail(@)]
<1>5. /\ DOMAIN r = PlanFields /\ \A f \in PlanFields \ ResolveFields : r[f] = plan[f]
  BY ResolveKeeps DEF Ready
<1>4. plan' = IF ~Resolve(o).found THEN p
              ELSE IF ~ValidApp(o) THEN Blocked(p, "child")
              ELSE [p EXCEPT !.admissions = Append(@, a), !.pending = Append(@, e)]
  BY <1>d DEF ResolveChild
<1>6. /\ DOMAIN p = PlanFields /\ p.todo = Tail(plan.todo)
      /\ \A f \in PlanFields \ {"todo"} : p[f] = r[f]
  BY <1>5 DEF PlanFields, ResolveFields
<1> HIDE DEF p
<1>7. /\ Resolve(o).found => Stock(r, store) /\ r.objects = plan.objects \cup {o}
      /\ ~Resolve(o).found => r.blockers # <<>> /\ ~Planable(plan)
  BY <1>1, <1>3, ObjectResolved DEF Ready
<1>8. p.blockers = r.blockers
  BY <1>6 DEF PlanFields
<1>9. CASE ~Resolve(o).found
  BY <1>4, <1>7, <1>8, <1>9 DEF Goes
<1>10. CASE Resolve(o).found /\ ~ValidApp(o)
  <2>1. ~Planable(plan)
    BY <1>2, <1>10, PlanableIs, Zenon DEF Inner, Sound
  <2>2. r.blockers = <<>>
    BY <1>7, <1>10 DEF Stock
  <2>3. plan' = [p EXCEPT !.blockers = Append(@, "child")]
    BY <1>4, <1>10 DEF Blocked
  <2>4. plan'.blockers = Append(<<>>, "child")
    BY <1>6, <1>8, <2>2, <2>3 DEF PlanFields
  <2>5. plan'.blockers # <<>>
    BY <2>4
  <2> QED
    BY <2>1, <2>5 DEF Goes
<1>11. CASE Resolve(o).found /\ ValidApp(o)
  <2> PICK q : q = plan'
    OBVIOUS
  <2>1. q = [p EXCEPT !.admissions = Append(@, a), !.pending = Append(@, e)]
    BY <1>4, <1>11
  <2>2. /\ q.admissions = Append(p.admissions, a) /\ q.pending = Append(p.pending, e)
        /\ \A f \in PlanFields \ {"admissions", "pending"} : q[f] = p[f]
    BY <1>6, <2>1 DEF PlanFields
  <2>3. Stock(q, store)
    <3>1. Stock(r, store)
      BY <1>7, <1>11
    <3>2. \A f \in StockFields : q[f] = r[f]
      BY <1>6, <2>2 DEF StockFields, PlanFields
    <3> QED
      BY <3>1, <3>2, SameStock
  <2>4. q.todo = Tail(plan.todo) /\ q.objects = plan.objects \cup {o}
    <3>1. q.todo = p.todo /\ q.objects = p.objects /\ p.objects = r.objects
      BY <1>6, <2>2 DEF PlanFields
    <3> QED
      BY <1>6, <1>7, <1>11, <3>1
  <2>5. q.admissions = Append(plan.admissions, a) /\ q.pending = Append(plan.pending, e)
    <3>1. p.admissions = plan.admissions /\ p.pending = plan.pending
      BY <1>5, <1>6 DEF PlanFields, ResolveFields
    <3> QED
      BY <2>2, <3>1
  <2>6. \A f \in Also : q[f] = plan[f]
    BY <1>5, <1>6, <2>2 DEF Also, PlanFields, ResolveFields
  <2>7. /\ DOMAIN a = AdmFields /\ a.parent = plan.app.index /\ a.index = plan.count - 1 /\ a.app = o
        /\ a.delegated = plan.delegated
    BY DEF AdmFields
  <2>10. Taken(q, a, o)
    BY <2>3, <2>4, <2>5, <2>6, <2>7 DEF Taken
  <2>8. Clean(q, store)
    BY <1>0, <1>2, <1>11, <2>10, MidwayMeet, Zenon
  <2>9. q.blockers = <<>>
    BY <2>3 DEF Stock
  <2> QED
    BY <2>8, <2>9 DEF Goes
<1> QED
  BY <1>9, <1>10, <1>11

\* An application is taken from the work list.
LEMMA PopGoes ==
  ASSUME Ready, NEW N, NEW c, NEW k, NEW t, NEW half \in BOOLEAN, Midway(plan, store, N, c, k, t, half), PopApplication
  PROVE  Goes(plan')
<1> PICK m : m = plan.archive.manifest
  OBVIOUS
<1>0. plan.todo = <<>> /\ plan.pending # <<>>
  BY DEF PopApplication
<1>1. /\ WellTree(m) /\ NodesOK(m, N, c, k, t) /\ Queue(m, N, c, k, plan.pending)
      /\ Adm(m, N, c, k, t, plan.admissions) /\ Stock(plan, store)
      /\ plan.layers = Cardinality(Done(m, N, k))
      /\ plan.count = c + OneMore(half) /\ plan.count <= MaxApplications /\ plan.limited = FALSE
  BY DEF Ready, Midway
<1>2. c \in Nat \ {0} /\ k \in Nat /\ t \in Nat /\ k \in 0..c
  BY <1>1 DEF NodesOK
<1> PICK app : app = Head(plan.pending)
  OBVIOUS
<1>3. k < c /\ PendingIs(m, N, k + 1, app) /\ Queue(m, N, c, k + 1, Tail(plan.pending))
  BY <1>0, <1>1, QueuePop
<1>4. (k # 0 => t = Width(At(m, N, k))) /\ ~half
  <2>1. k = 0 => ~half
    BY DEF Midway
  <2>2. ASSUME k # 0 PROVE t = Width(At(m, N, k)) /\ ~half
    <3>1. TodoIs(At(m, N, k), t, half, plan.todo)
      BY <2>2 DEF Midway
    <3>2. TwoLists(At(m, N, k)) /\ Width(At(m, N, k)) \in Nat
      BY <1>1, <1>2, <2>2, NodeFacts
    <3>3. t = Width(At(m, N, k))
      BY <1>0, <3>1, <3>2, TodoHead
    <3>4. half => t < Width(At(m, N, k))
      BY <3>1 DEF TodoIs
    <3> QED
      BY <1>2, <3>2, <3>3, <3>4
  <2> QED
    BY <2>1, <2>2
<1>5. k + 1 \in 1..c /\ (k >= 1 => t = Width(At(m, N, k))) /\ k + 1 \in Nat /\ k + 1 # 0 /\ (k + 1) - 1 = k
  BY <1>2, <1>3, <1>4
<1>6. app.manifest = At(m, N, k + 1) /\ app.admission = k
  BY <1>3, <1>5 DEF PendingIs, Pending
<1>7. TwoLists(At(m, N, k + 1)) /\ Wide(At(m, N, k + 1)) \in Nat
  BY <1>1, <1>5, NodeFacts
<1> PICK total : total = plan.layers + Len(app.manifest.layers)
  OBVIOUS
<1>8. total = Cardinality(Done(m, N, k + 1)) /\ total <= Cardinality(TreeLayers(m)) /\ total \in Nat
      /\ Cardinality(TreeLayers(m)) \in Nat
  <2>1. /\ Cardinality(Done(m, N, k + 1)) = Cardinality(Done(m, N, k)) + Wide(At(m, N, k + 1))
        /\ Cardinality(Done(m, N, k)) \in Nat
        /\ Cardinality(Done(m, N, k + 1)) <= Cardinality(TreeLayers(m))
    BY <1>1, <1>3, DoneGrows
  <2>2. Len(app.manifest.layers) = Wide(At(m, N, k + 1))
    BY <1>6 DEF Wide
  <2>3. Cardinality(TreeLayers(m)) \in Nat
    BY <1>1, TreeFinite, FS_CardinalityType
  <2> QED
    BY <1>1, <1>7, <2>1, <2>2, <2>3
<1> PICK adm : adm = IF app.admission = 0 THEN plan.admissions
                     ELSE [plan.admissions EXCEPT ![app.admission].layers = app.manifest.layers]
  OBVIOUS
<1> DEFINE popped == [plan EXCEPT !.pending = Tail(@), !.layers = total, !.admissions = adm]
<1>9. plan' = IF total > MaxLayers
              THEN [Blocked(popped, "limit") EXCEPT !.pending = <<>>]
              ELSE [popped EXCEPT !.app = app, !.todo = Edges(app.manifest)]
  BY DEF PopApplication
<1> PICK q : q = plan'
  OBVIOUS
<1>d. DOMAIN plan = PlanFields
  BY DEF Ready, IsPlan
<1>10. CASE total > MaxLayers
  <2>1. q = [Blocked(popped, "limit") EXCEPT !.pending = <<>>]
    BY <1>9, <1>10, Zenon
  <2>2. q.blockers = Append(plan.blockers, "limit")
    BY <1>d, <2>1 DEF Blocked, PlanFields
  <2>3. plan.blockers = <<>>
    BY <1>1 DEF Stock
  <2>4. q.blockers # <<>>
    BY <2>2, <2>3
  <2>5. ~Planable(plan)
    <3>1. Planable(plan) => Cardinality(TreeLayers(m)) <= MaxLayers
      BY PlanableIs
    <3>2. MaxLayers \in Nat
      BY PlanAssumption
    <3> QED
      BY <1>8, <1>10, <3>1, <3>2
  <2> QED
    BY <2>4, <2>5 DEF Goes
<1>11. CASE ~(total > MaxLayers)
  <2>1. q = [popped EXCEPT !.app = app, !.todo = Edges(app.manifest)]
    BY <1>9, <1>11
  <2>2. /\ q.pending = Tail(plan.pending) /\ q.layers = total /\ q.admissions = adm /\ q.app = app
        /\ q.todo = Edges(app.manifest)
        /\ \A f \in PlanFields \ {"pending", "layers", "admissions", "app", "todo"} : q[f] = plan[f]
    BY <1>d, <2>1, Zenon DEF PlanFields
  <2> HIDE DEF popped
  <2>3. Stock(q, store)
    <3>1. \A f \in StockFields : q[f] = plan[f]
      BY <2>2 DEF StockFields, PlanFields
    <3> QED
      BY <1>1, <3>1, SameStock
  <2>4. q.archive = plan.archive /\ q.objects = plan.objects /\ q.count = plan.count /\ q.limited = plan.limited
        /\ q.requested = plan.requested
    BY <2>2 DEF PlanFields
  <2>5. NodesOK(m, N, c, k + 1, 0)
    BY <1>1, <1>3, Pops
  <2>6. Effects(m, N, c, k + 1, 0, q.objects)
    <3>1. Effects(m, N, c, k, t, plan.objects)
      BY DEF Midway
    <3>2. Effects(m, N, c, k + 1, 0, plan.objects)
      BY <1>1, <1>3, <1>5, <3>1, EffectsPop
    <3> QED
      BY <2>4, <3>2
  <2>7. Adm(m, N, c, k + 1, 0, q.admissions)
    <3> PICK a : a = plan.admissions
      OBVIOUS
    <3>1. /\ k = 0 => Adm(m, N, c, 1, 0, a)
          /\ k # 0 => Adm(m, N, c, k + 1, 0, [a EXCEPT ![k].layers = At(m, N, k + 1).layers])
      BY <1>1, <1>3, <1>5, AdmPop
    <3>2. adm = IF k = 0 THEN a ELSE [a EXCEPT ![k].layers = At(m, N, k + 1).layers]
      BY <1>6
    <3>3. k = 0 => k + 1 = 1
      OBVIOUS
    <3> QED
      BY <2>2, <3>1, <3>2, <3>3
  <2>8. Queue(m, N, c, k + 1, q.pending)
    BY <1>3, <2>2
  <2>9. q.layers = Cardinality(Done(m, N, k + 1)) /\ q.layers <= MaxLayers
    <3>1. MaxLayers \in Nat
      BY PlanAssumption
    <3> QED
      BY <1>8, <1>11, <2>2, <3>1
  <2> PICK off \in BOOLEAN : off = FALSE
    OBVIOUS
  <2>10. q.count = c + OneMore(off) /\ q.count <= MaxApplications /\ q.limited = FALSE
    BY <1>1, <1>4, <2>4 DEF OneMore
  <2>11. Fin(k + 1, 0, 1, 1) => q.requested = m.requires
    <3>1. Fin(k + 1, 0, 1, 1) => k # 0
      BY <1>2 DEF Fin
    <3>2. k # 0 => Fin(k, t, 1, 1)
      <4>1. ASSUME k # 0 PROVE t >= 1
        <5>1. Width(At(m, N, k)) \in Nat \ {0}
          BY <1>1, <1>2, <4>1, NodeFacts
        <5> QED
          BY <1>4, <4>1, <5>1
      <4> QED
        BY <1>2, <4>1 DEF Fin
    <3>3. Fin(k, t, 1, 1) => plan.requested = m.requires
      BY DEF Midway
    <3> QED
      BY <2>4, <3>1, <3>2, <3>3
  <2>12. PendingIs(m, N, k + 1, q.app)
    BY <1>3, <2>2
  <2>13. TodoIs(At(m, N, k + 1), 0, off, q.todo)
    <3>1. TodoIs(At(m, N, k + 1), 0, FALSE, Edges(At(m, N, k + 1)))
      BY <1>7, EdgesAre
    <3> QED
      BY <1>6, <2>2, <3>1
  <2>14. Midway(q, store, N, c, k + 1, 0, off)
    BY <1>5, <2>3, <2>4, <2>5, <2>6, <2>7, <2>8, <2>9, <2>10, <2>11, <2>12, <2>13 DEF Midway
  <2>15. Clean(q, store)
    BY <2>14 DEF Clean
  <2>16. q.blockers = <<>>
    BY <2>3 DEF Stock
  <2> QED
    BY <2>15, <2>16 DEF Goes
<1> QED
  BY <1>10, <1>11

\* The walk begins at the root.
LEMMA StartGoes ==
  ASSUME NEW a, NEW target, PlanStart(a, target), RequireCurrent(a), DirectoryVerifies(a), WellTree(a.manifest)
  PROVE  /\ IsPlan(plan') /\ plan'.archive = a /\ plan'.target = target /\ plan'.intact = store \ rotten
         /\ plan'.phase = "resolving" /\ (plan'.blockers = <<>> => Clean(plan', store))
         /\ plan'.blockers # <<>> => ~Planable(plan)'
<1> PICK m : m = a.manifest
  OBVIOUS
<1> PICK q : q = plan'
  OBVIOUS
<1>1. q = [phase |-> "resolving", archive |-> a, target |-> target, grant |-> NoCaps,
           intact |-> store \ rotten,
           pending |-> IF MaxApplications < 1 THEN <<>> ELSE <<Pending(0, 0, a.manifest, 0, <<a.manifest>>)>>,
           app |-> NoApp, todo |-> <<>>, delegated |-> NoCaps,
           objects |-> {}, missing |-> {}, mismatched |-> {}, referenced |-> {},
           bytes |-> 0, halted |-> FALSE,
           count |-> 1, limited |-> MaxApplications < 1, layers |-> 0,
           blockers |-> IF MaxApplications < 1 THEN <<"limit">> ELSE <<>>,
           requested |-> NoCaps, admissions |-> <<>>,
           grants |-> <<>>, decisions |-> <<>>]
  BY DEF PlanStart
<1>2. DOMAIN q = PlanFields /\ q.phase = "resolving" /\ q.archive = a /\ q.target = target /\ q.intact = store \ rotten
  BY <1>1 DEF PlanFields
<1>3. MaxApplications \in Nat /\ MaxLayers \in Nat /\ MaxObjects \in Nat /\ MaxResolvedBytes \in Nat
  BY PlanAssumption
<1>4. CASE MaxApplications < 1
  <2>1. q.blockers = <<"limit">>
    BY <1>1, <1>4
  <2>2. q.blockers \in Seq(Blockers) /\ q.blockers # <<>>
    BY <2>1 DEF Blockers
  <2>3. ~Planable(plan)'
    <3> SUFFICES ASSUME Planable(plan)' PROVE FALSE
      OBVIOUS
    <3>1. Plannable(plan'.archive, plan'.intact, plan'.target)
      BY DEF Planable
    <3>2. Cardinality(Tree(m)) <= MaxApplications
      BY <1>2, <3>1 DEF Plannable
    <3>3. <<>> \in Tree(m) /\ IsFiniteSet(Tree(m))
      BY TheRoot, TreeFinite
    <3>4. Cardinality(Tree(m)) \in Nat /\ Cardinality(Tree(m)) # 0
      BY <3>3, FS_EmptySet, FS_CardinalityType
    <3> QED
      BY <1>3, <1>4, <3>2, <3>4
  <2> QED
    BY <1>2, <2>2, <2>3 DEF IsPlan
<1>5. CASE ~(MaxApplications < 1)
  <2> PICK e : e = Pending(0, 0, m, 0, <<m>>)
    OBVIOUS
  <2>1. /\ q.blockers = <<>> /\ q.pending = <<e>> /\ q.todo = <<>> /\ q.objects = {} /\ q.missing = {}
        /\ q.mismatched = {} /\ q.referenced = {} /\ q.bytes = 0 /\ q.halted = FALSE /\ q.count = 1
        /\ q.limited = FALSE /\ q.layers = 0 /\ q.admissions = <<>>
    <3>1. q.limited = (MaxApplications < 1)
      BY <1>1
    <3>2. q.limited = FALSE
      <4>1. (MaxApplications < 1) = FALSE
        BY <1>5
      <4> QED
        BY <3>1, <4>1, Zenon
    <3>3. /\ q.blockers = IF MaxApplications < 1 THEN <<"limit">> ELSE <<>>
          /\ q.pending = IF MaxApplications < 1 THEN <<>> ELSE <<Pending(0, 0, a.manifest, 0, <<a.manifest>>)>>
      BY <1>1
    <3>4. q.blockers = <<>> /\ q.pending = <<e>>
      BY <1>5, <3>3
    <3> QED
      BY <1>1, <3>2, <3>4
  <2> PICK N : N = [i \in 1..1 |-> <<>>]
    OBVIOUS
  <2>2. <<>> \in Sound(m) /\ AppAt(m, <<>>) = m /\ Len(<<>>) = 0 /\ MaxDepth \in Nat
    BY TheRoot
  <2>3. N \in [1..1 -> Sound(m)] /\ N[1] = <<>> /\ \A i \in 1..1 : i = 1
    BY <2>2
  <2>4. At(m, N, 1) = m
    BY <2>2, <2>3 DEF At
  <2>5. NodesOK(m, N, 1, 0, 0)
    <3>1. Met(m, N, 1, 0, 0)
      BY DEF Met
    <3>2. \A i \in 1..1 : Len(N[i]) <= MaxDepth
      BY <2>2, <2>3
    <3>3. \A i, j \in 1..1 : N[i] = N[j] => i = j
      BY <2>3
    <3> QED
      BY <2>3, <3>1, <3>2, <3>3 DEF NodesOK
  <2>6. Effects(m, N, 1, 0, 0, {})
    BY DEF Effects, AppsHad, CapsHad, LayersHad, ChildrenMet
  <2>7. PendingIs(m, N, 1, e)
    <3>1. PathOK(m, m, <<m>>)
      BY PathStarts DEF WellTree
    <3>2. e = Pending(1 - 1, 1 - 1, At(m, N, 1), Len(N[1]), <<m>>)
      BY <2>2, <2>3, <2>4
    <3> QED
      BY <2>4, <3>1, <3>2 DEF PendingIs
  <2>8. Queue(m, N, 1, 0, q.pending)
    <3>1. ListOf(<<e>>) /\ Len(<<e>>) = 1 /\ <<e>>[1] = e
      <4>1. <<>> \in Seq({e}) /\ Append(<<>>, e) = <<e>>
        OBVIOUS
      <4>2. <<e>> = [x \in 1..1 |-> e] /\ IsList(<<e>>, 1)
        BY DEF IsList
      <4> QED
        BY <4>2, Lists
    <3>2. \A x \in 1..1 : PendingIs(m, N, 0 + x, <<e>>[x])
      BY <2>7, <3>1
    <3> QED
      BY <2>1, <3>1, <3>2 DEF Queue
  <2>9. Adm(m, N, 1, 0, 0, q.admissions)
    BY <2>1, EmptyList DEF Adm
  <2>10. Done(m, N, 0) = {} /\ Cardinality(Done(m, N, 0)) = 0
    BY FS_EmptySet DEF Done
  <2>11. Stock(q, store)
    <3>1. Sum(Weights(Needs(m)), {}) = 0
      BY SumEmpty
    <3>2. Cardinality({}) = 0
      BY FS_EmptySet
    <3> QED
      BY <1>2, <1>3, <2>1, <3>1, <3>2 DEF Stock
  <2> PICK off \in BOOLEAN : off = FALSE
    OBVIOUS
  <2>12. q.count = 1 + OneMore(off) /\ q.count <= MaxApplications
    BY <1>3, <1>5, <2>1 DEF OneMore
  <2>13. ~Fin(0, 0, 1, 1)
    BY DEF Fin
  <2>14. Midway(q, store, N, 1, 0, 0, off)
    BY <1>2, <1>3, <2>1, <2>5, <2>6, <2>8, <2>9, <2>10, <2>11, <2>12, <2>13 DEF Midway
  <2>15. Clean(q, store)
    BY <2>14 DEF Clean
  <2>16. q.blockers \in Seq(Blockers)
    BY <2>1
  <2> QED
    BY <1>2, <2>1, <2>15, <2>16 DEF IsPlan
<1> QED
  BY <1>4, <1>5

----------------------------------------------------------------------------
(* The end of the walk: every node was met, and what the plan needs is      *)
(* there.                                                                   *)

LEMMA Exhausted ==
  ASSUME NEW p, NEW s, NEW N, NEW c, NEW k, NEW t, NEW half \in BOOLEAN, Midway(p, s, N, c, k, t, half),
         p.todo = <<>>, p.pending = <<>>, NEW m, m = p.archive.manifest, WellTree(m)
  PROVE  /\ NodesOK(m, N, c, c, t) /\ c \in Nat \ {0} /\ k = c /\ t \in Nat
         /\ \A i \in 1..c : \A e \in Nat : e <= Width(At(m, N, i)) => Fin(c, t, i, e)
<1>1. NodesOK(m, N, c, k, t) /\ Queue(m, N, c, k, p.pending)
  BY DEF Midway
<1>2. c \in Nat \ {0} /\ k \in 0..c /\ t \in Nat
  BY <1>1 DEF NodesOK
<1>3. k = c
  BY <1>1, QueuePop
<1>4. TodoIs(At(m, N, c), t, half, p.todo)
  BY <1>2, <1>3 DEF Midway
<1>5. TwoLists(At(m, N, c))
  BY <1>1, <1>2, NodeFacts
<1>6. t = Width(At(m, N, c))
  BY <1>4, <1>5, TodoHead
<1>7. ASSUME NEW i \in 1..c, NEW e \in Nat, e <= Width(At(m, N, i)) PROVE Fin(c, t, i, e)
  BY <1>2, <1>6, <1>7 DEF Fin
<1> QED
  BY <1>1, <1>2, <1>3, <1>7

\* Every node of the tree was met.
LEMMA AllMet ==
  ASSUME NEW m, WellTree(m), NEW N, NEW c, NEW t, NodesOK(m, N, c, c, t), NEW objs,
         Effects(m, N, c, c, t, objs),
         \A i \in 1..c : \A e \in Nat : e <= Width(At(m, N, i)) => Fin(c, t, i, e)
  PROVE  /\ \A q \in Tree(m) : \E i \in 1..c : N[i] = q
         /\ Sound(m) = Tree(m) /\ Level(m)[MaxDepth + 1] = {}
<1> DEFINE P == {n \in Nat : n <= MaxDepth + 1 => \A q \in Level(m)[n] : \E i \in 1..c : N[i] = q}
<1>0. /\ MaxDepth \in Nat /\ Level(m)[0] = {<<>>} /\ c \in Nat \ {0} /\ N[1] = <<>>
      /\ \A n \in 0..MaxDepth : Level(m)[n + 1] = Sprouts(m, Level(m)[n])
  BY Levels DEF NodesOK
<1>1. 0 \in P
  BY <1>0
<1>2. ASSUME NEW n \in Nat, n \in P PROVE n + 1 \in P
  <2> SUFFICES ASSUME n + 1 <= MaxDepth + 1
               PROVE  \A q \in Level(m)[n + 1] : \E i \in 1..c : N[i] = q
    OBVIOUS
  <2>p. n <= MaxDepth + 1 => \A q \in Level(m)[n] : \E i \in 1..c : N[i] = q
    BY <1>2
  <2> HIDE DEF P
  <2>0. n \in 0..MaxDepth /\ n <= MaxDepth + 1
    BY <1>0
  <2>1. Level(m)[n + 1] = Sprouts(m, Level(m)[n])
    BY <1>0, <2>0
  <2> SUFFICES ASSUME NEW q \in Level(m)[n + 1] PROVE \E j \in 1..c : N[j] = q
    OBVIOUS
  <2>2. PICK r \in Level(m)[n] : \E x \in DOMAIN Children(AppAt(m, r)) : q = Append(r, x)
    BY <2>1 DEF Sprouts
  <2>x. PICK x \in DOMAIN Children(AppAt(m, r)) : q = Append(r, x)
    BY <2>2
  <2>3. PICK i \in 1..c : N[i] = r
    BY <2>0, <2>2, <2>p
  <2>4. x \in DOMAIN At(m, N, i).children
    BY <2>x, <2>3, ChildNodes DEF At
  <2>5. x \in Nat /\ ChildEdge(At(m, N, i), x) \in Nat /\ ChildEdge(At(m, N, i), x) <= Width(At(m, N, i))
    <3> PICK w \in Nat, n2 \in Nat : w = Wide(At(m, N, i)) /\ n2 = Len(At(m, N, i).children)
      BY NodeFacts
    <3>1. Width(At(m, N, i)) = 1 + w + n2 /\ x \in 1..n2
      BY <2>4, NodeFacts
    <3>2. ChildEdge(At(m, N, i), x) = 1 + w + x
      BY DEF ChildEdge
    <3> QED
      BY <3>1, <3>2
  <2>6. Fin(c, t, i, ChildEdge(At(m, N, i), x))
    BY <2>5
  <2>7. PICK j \in 2..c : N[j] = Append(N[i], x)
    BY <2>4, <2>6 DEF Effects, ChildrenMet
  <2> QED
    BY <1>0, <2>3, <2>7, <2>x
<1> HIDE DEF P
<1>3. Nat \subseteq P
  BY <1>1, <1>2, Inducts
<1>4. \A q \in Tree(m) : \E i \in 1..c : N[i] = q
  <2>1. ASSUME NEW q \in Tree(m) PROVE \E i \in 1..c : N[i] = q
    <3>1. Len(q) \in 0..MaxDepth + 1 /\ q \in Level(m)[Len(q)]
      BY InTree
    <3>2. Len(q) \in Nat /\ Len(q) <= MaxDepth + 1
      BY <1>0, <3>1
    <3> QED
      BY <1>3, <3>1, <3>2 DEF P
  <2> QED
    BY <2>1
<1>5. \A i \in 1..c : N[i] \in Sound(m) /\ Len(N[i]) <= MaxDepth
  BY DEF NodesOK
<1>6. Sound(m) = Tree(m)
  BY <1>4, <1>5 DEF Sound
<1>7. Level(m)[MaxDepth + 1] = {}
  <2> SUFFICES ASSUME NEW q \in Level(m)[MaxDepth + 1] PROVE FALSE
    OBVIOUS
  <2>1. MaxDepth + 1 \in 0..MaxDepth + 1 /\ MaxDepth + 1 \in Nat /\ MaxDepth + 1 <= MaxDepth + 1
    BY <1>0
  <2>2. PICK i \in 1..c : N[i] = q
    BY <1>3, <2>1 DEF P
  <2>3. Len(q) = MaxDepth + 1
    BY <2>1, NodesAre
  <2> QED
    BY <1>0, <1>5, <2>2, <2>3
<1> QED
  BY <1>4, <1>6, <1>7

\* The plan, from what the walk collected.
AllFound(p, s) ==
    LET m == p.archive.manifest
    IN  /\ Sound(m) = Tree(m) /\ Level(m)[MaxDepth + 1] = {} /\ Cardinality(Tree(m)) <= MaxApplications
        /\ \A q \in Tree(m) : IsCaps(AppAt(m, q).requires)
        /\ \A q \in Inner(m) : IsCaps(Edge(m, q).capabilities)
        /\ Cardinality(TreeLayers(m)) <= MaxLayers
        /\ Needs(m) \subseteq Held(p.archive, p.target, s) /\ p.objects = Needs(m)
        /\ Cardinality(Needs(m)) <= MaxObjects
        /\ MapThenSumSet(Weight, Needs(m)) <= MaxResolvedBytes

LEMMA Completes ==
  ASSUME NEW p, NEW s, NEW N, NEW c, NEW k, NEW t, NEW half \in BOOLEAN, Midway(p, s, N, c, k, t, half),
         p.todo = <<>>, p.pending = <<>>, WellTree(p.archive.manifest)
  PROVE  AllFound(p, s)
<1> PICK m : m = p.archive.manifest
  OBVIOUS
<1>1. /\ NodesOK(m, N, c, c, t) /\ c \in Nat \ {0} /\ k = c /\ t \in Nat /\ WellTree(m)
      /\ \A i \in 1..c : \A e \in Nat : e <= Width(At(m, N, i)) => Fin(c, t, i, e)
  BY Exhausted
<1>2. Effects(m, N, c, c, t, p.objects)
  BY <1>1 DEF Midway
<1>3. /\ \A q \in Tree(m) : \E i \in 1..c : N[i] = q
      /\ Sound(m) = Tree(m) /\ Level(m)[MaxDepth + 1] = {}
  BY <1>1, <1>2, AllMet
<1>4. Cardinality(Tree(m)) <= MaxApplications
  <2>1. N \in [1..c -> Tree(m)] /\ \A i, j \in 1..c : N[i] = N[j] => i = j
    BY <1>1, <1>3 DEF NodesOK
  <2>2. N \in Bijection(1..c, Tree(m))
    BY <1>3, <2>1 DEF Bijection, Injection, Surjection, IsInjective
  <2>3. ExistsBijection(1..c, Tree(m))
    BY <2>2 DEF ExistsBijection
  <2>4. Cardinality(Tree(m)) = c
    BY <1>1, <2>3, FS_CountingElements, FS_NatBijection
  <2>5. p.count = c + OneMore(half) /\ p.count <= MaxApplications
    BY DEF Midway
  <2>6. OneMore(half) \in {0, 1} /\ MaxApplications \in Nat
    BY PlanAssumption DEF OneMore
  <2> QED
    BY <1>1, <2>4, <2>5, <2>6
<1>5. ASSUME NEW i \in 1..c
      PROVE  /\ At(m, N, i).requires \in p.objects /\ IsCaps(At(m, N, i).requires)
             /\ \A x \in DOMAIN At(m, N, i).layers : At(m, N, i).layers[x].content \in p.objects
             /\ i # 1 => /\ At(m, N, i) \in p.objects /\ Edge(m, N[i]).capabilities \in p.objects
                         /\ IsCaps(Edge(m, N[i]).capabilities)
  <2>1. PICK w \in Nat, n \in Nat : w = Wide(At(m, N, i)) /\ n = Len(At(m, N, i).children)
    BY <1>1, NodeFacts
  <2>2. Width(At(m, N, i)) = 1 + w + n /\ DOMAIN At(m, N, i).layers = 1..w
    BY <1>1, <2>1, NodeFacts
  <2>3. Fin(c, t, i, 1)
    BY <1>1, <2>2
  <2>4. ASSUME NEW x \in DOMAIN At(m, N, i).layers PROVE Fin(c, t, i, 1 + x)
    <3>1. 1 + x \in Nat /\ 1 + x <= Width(At(m, N, i))
      BY <2>2, <2>4
    <3> QED
      BY <1>1, <3>1
  <2>5. i # 1 => i \in 2..c
    OBVIOUS
  <2>6. At(m, N, i).requires \in p.objects /\ IsCaps(At(m, N, i).requires)
    BY <1>2, <2>3 DEF Effects, CapsHad
  <2>7. \A x \in DOMAIN At(m, N, i).layers : At(m, N, i).layers[x].content \in p.objects
    BY <1>2, <2>4 DEF Effects, LayersHad
  <2>8. i # 1 => /\ At(m, N, i) \in p.objects /\ Edge(m, N[i]).capabilities \in p.objects
                 /\ IsCaps(Edge(m, N[i]).capabilities)
    BY <1>2, <2>5 DEF Effects, AppsHad
  <2> QED
    BY <2>6, <2>7, <2>8
<1>6. ASSUME NEW q \in Tree(m)
      PROVE  /\ AppAt(m, q).requires \in p.objects /\ IsCaps(AppAt(m, q).requires)
             /\ \A x \in DOMAIN AppAt(m, q).layers : AppAt(m, q).layers[x].content \in p.objects
             /\ q # <<>> => /\ AppAt(m, q) \in p.objects /\ Edge(m, q).capabilities \in p.objects
                            /\ IsCaps(Edge(m, q).capabilities)
  <2>1. PICK i \in 1..c : N[i] = q
    BY <1>3
  <2>2. At(m, N, i) = AppAt(m, q) /\ (q # <<>> => i # 1)
    BY <1>1, <2>1 DEF At, NodesOK
  <2>3. /\ At(m, N, i).requires \in p.objects /\ IsCaps(At(m, N, i).requires)
        /\ \A x \in DOMAIN At(m, N, i).layers : At(m, N, i).layers[x].content \in p.objects
        /\ i # 1 => /\ At(m, N, i) \in p.objects /\ Edge(m, N[i]).capabilities \in p.objects
                    /\ IsCaps(Edge(m, N[i]).capabilities)
    BY <1>5
  <2> QED
    BY <2>1, <2>2, <2>3
<1>7. ASSUME NEW l \in TreeLayers(m) PROVE LayerAt(m, l).content \in p.objects
  <2>1. PICK q \in Sound(m) : \E x \in DOMAIN AppAt(m, q).layers : l = <<q, x>>
    BY DEF TreeLayers
  <2>2. PICK x \in DOMAIN AppAt(m, q).layers : l = <<q, x>>
    BY <2>1
  <2>3. LayerAt(m, l) = AppAt(m, q).layers[x]
    BY <2>2 DEF LayerAt
  <2>4. q \in Tree(m)
    BY <1>3
  <2> QED
    BY <1>6, <2>2, <2>3, <2>4
<1>8. Stock(p, s)
  BY DEF Midway
<1>9. p.objects = Needs(m)
  <2>1. Needs(m) \subseteq p.objects
    BY <1>3, <1>6, <1>7 DEF Needs, Inner
  <2> QED
    BY <1>8, <2>1 DEF Stock
<1>10. Cardinality(TreeLayers(m)) <= MaxLayers
  <2>1. p.layers = Cardinality(Done(m, N, c)) /\ p.layers <= MaxLayers
    BY <1>1 DEF Midway
  <2>2. TreeLayers(m) \subseteq Done(m, N, c)
    <3> SUFFICES ASSUME NEW q \in Sound(m), NEW x \in DOMAIN AppAt(m, q).layers
                 PROVE  <<q, x>> \in Done(m, N, c)
      BY DEF TreeLayers
    <3>1. PICK i \in 1..c : N[i] = q
      BY <1>3
    <3>2. <<q, x>> \in LayersOf(m, N, i)
      BY <3>1 DEF LayersOf, At
    <3> QED
      BY <3>2 DEF Done
  <2>3. c \in 0..c
    BY <1>1
  <2>4. Done(m, N, c) = TreeLayers(m)
    BY <1>1, <2>2, <2>3, DoneIs
  <2> QED
    BY <2>1, <2>4
<1>11. /\ Needs(m) \subseteq Held(p.archive, p.target, s) /\ Cardinality(Needs(m)) <= MaxObjects
       /\ MapThenSumSet(Weight, Needs(m)) <= MaxResolvedBytes
  <2>1. /\ p.objects \subseteq Held(p.archive, p.target, s) /\ Cardinality(p.objects) <= MaxObjects
        /\ p.bytes = Sum(Weights(Needs(m)), p.objects) /\ p.bytes <= MaxResolvedBytes
    BY <1>8 DEF Stock
  <2>2. Sum(Weights(Needs(m)), Needs(m)) = MapThenSumSet(Weight, Needs(m))
    <3>1. IsFiniteSet(Needs(m)) /\ \A o \in Needs(m) : Weight(o) \in Nat
      BY <1>1, TreeFinite DEF WellTree, WellFormed
    <3> QED
      BY <3>1, WeightsSum
  <2> QED
    BY <1>9, <2>1, <2>2
<1>12. \A q \in Tree(m) : IsCaps(AppAt(m, q).requires)
  BY <1>6
<1>13. \A q \in Inner(m) : IsCaps(Edge(m, q).capabilities)
  BY <1>6 DEF Inner
<1> QED
  BY <1>3, <1>4, <1>9, <1>10, <1>11, <1>12, <1>13 DEF AllFound

\* The layers and the requests of the admissions are those of the tree.
TreeHas(m, admissions) ==
    /\ \A i \in DOMAIN admissions : \E q \in Tree(m) :
          /\ admissions[i].layers = AppAt(m, q).layers
          /\ admissions[i].requested = AppAt(m, q).requires
    /\ \A q \in Tree(m) : q # <<>> =>
          \E i \in DOMAIN admissions : admissions[i].layers = AppAt(m, q).layers

LEMMA AdmissionsMatch ==
  ASSUME NEW p, NEW s, NEW N, NEW c, NEW k, NEW t, NEW half \in BOOLEAN, Midway(p, s, N, c, k, t, half),
         p.todo = <<>>, p.pending = <<>>, WellTree(p.archive.manifest)
  PROVE  TreeHas(p.archive.manifest, p.admissions) /\ p.requested = p.archive.manifest.requires
<1> PICK m, adm : m = p.archive.manifest /\ adm = p.admissions
  OBVIOUS
<1>1. /\ NodesOK(m, N, c, c, t) /\ c \in Nat \ {0} /\ k = c /\ t \in Nat /\ WellTree(m)
      /\ \A i \in 1..c : \A e \in Nat : e <= Width(At(m, N, i)) => Fin(c, t, i, e)
  BY Exhausted
<1>2. Effects(m, N, c, c, t, p.objects) /\ Adm(m, N, c, c, t, adm)
  BY <1>1 DEF Midway
<1>3. /\ \A q \in Tree(m) : \E i \in 1..c : N[i] = q
      /\ Sound(m) = Tree(m)
  BY <1>1, <1>2, AllMet
<1>4. DOMAIN adm = 1..c - 1
  BY <1>1, <1>2, AdmList
<1>5. ASSUME NEW i \in 1..c PROVE Fin(c, t, i, 1)
  <2>1. 1 \in Nat /\ Width(At(m, N, i)) \in Nat \ {0}
    BY <1>1, NodeFacts
  <2>2. 1 <= Width(At(m, N, i))
    BY <2>1
  <2> QED
    BY <1>1, <2>1, <2>2
<1>6. ASSUME NEW i \in 2..c
      PROVE  /\ i - 1 \in DOMAIN adm /\ N[i] \in Tree(m) /\ adm[i - 1].layers = AppAt(m, N[i]).layers
             /\ adm[i - 1].requested = AppAt(m, N[i]).requires
  <2>1. i \in 1..c /\ i <= c /\ i - 1 \in 1..c - 1
    BY <1>1
  <2>2. AdmIs(m, N, c, t, i, adm[i - 1])
    BY <1>2 DEF Adm
  <2>3. N[i] \in Tree(m)
    BY <1>1, <1>3, <2>1, NodeFacts
  <2> QED
    BY <1>4, <1>5, <2>1, <2>2, <2>3 DEF AdmIs, At
<1>7. ASSUME NEW i \in DOMAIN adm
      PROVE  \E q \in Tree(m) : /\ adm[i].layers = AppAt(m, q).layers
                                /\ adm[i].requested = AppAt(m, q).requires
  <2>1. i + 1 \in 2..c /\ (i + 1) - 1 = i
    BY <1>1, <1>4
  <2> QED
    BY <1>6, <2>1
<1>8. ASSUME NEW q \in Tree(m), q # <<>>
      PROVE  \E i \in DOMAIN adm : adm[i].layers = AppAt(m, q).layers
  <2>1. PICK i \in 1..c : N[i] = q
    BY <1>3
  <2>2. i \in 2..c
    BY <1>1, <1>8, <2>1 DEF NodesOK
  <2> QED
    BY <1>6, <2>1, <2>2
<1>9. p.requested = m.requires
  <2>1. 1 \in 1..c
    BY <1>1
  <2>2. Fin(c, t, 1, 1)
    BY <1>5, <2>1
  <2> QED
    BY <1>1, <2>2 DEF Midway
<1> QED
  BY <1>7, <1>8, <1>9 DEF TreeHas

\* The providers are asked about every layer of the tree.
LEMMA Provided ==
  ASSUME NEW m, WellTree(m), m = plan.archive.manifest, AllFound(plan, store), TreeHas(m, plan.admissions)
  PROVE  /\ (\A l \in TreeLayers(m) : Available(LayerAt(m, l), plan.target))
              <=> ~(\/ Unavailable(m.layers) # {}
                    \/ \E i \in DOMAIN plan.admissions : Unavailable(plan.admissions[i].layers) # {})
         /\ Unresolved(m.layers) = {}
         /\ \A i \in DOMAIN plan.admissions : Unresolved(plan.admissions[i].layers) = {}
<1>1. Sound(m) = Tree(m) /\ plan.objects = Needs(m)
  BY DEF AllFound
<1>2. <<>> \in Tree(m) /\ AppAt(m, <<>>) = m
  BY TheRoot
<1>3. ASSUME NEW q \in Tree(m), NEW x \in DOMAIN AppAt(m, q).layers
      PROVE  /\ AppAt(m, q).layers[x].content \in plan.objects
             /\ <<q, x>> \in TreeLayers(m) /\ LayerAt(m, <<q, x>>) = AppAt(m, q).layers[x]
  <2>1. <<q, x>> \in TreeLayers(m)
    BY <1>1 DEF TreeLayers
  <2>2. LayerAt(m, <<q, x>>) = AppAt(m, q).layers[x]
    BY DEF LayerAt
  <2>3. AppAt(m, q).layers[x].content \in Needs(m)
    BY <1>1, NeedsAre
  <2> QED
    BY <1>1, <2>1, <2>2, <2>3
<1>4. ASSUME NEW q \in Tree(m) PROVE Unresolved(AppAt(m, q).layers) = {}
  BY <1>3 DEF Unresolved
<1>5. ASSUME NEW q \in Tree(m)
      PROVE  Unavailable(AppAt(m, q).layers) = {} <=>
             \A x \in DOMAIN AppAt(m, q).layers : Available(LayerAt(m, <<q, x>>), plan.target)
  BY <1>3 DEF Unavailable
<1>6. /\ Unresolved(m.layers) = {}
      /\ \A i \in DOMAIN plan.admissions : Unresolved(plan.admissions[i].layers) = {}
  BY <1>2, <1>4 DEF TreeHas
<1>7. ASSUME \A l \in TreeLayers(m) : Available(LayerAt(m, l), plan.target)
      PROVE  /\ Unavailable(m.layers) = {}
             /\ \A i \in DOMAIN plan.admissions : Unavailable(plan.admissions[i].layers) = {}
  <2>1. ASSUME NEW q \in Tree(m) PROVE Unavailable(AppAt(m, q).layers) = {}
    BY <1>3, <1>5, <1>7
  <2> QED
    BY <1>2, <2>1 DEF TreeHas
<1>8. ASSUME Unavailable(m.layers) = {},
             \A i \in DOMAIN plan.admissions : Unavailable(plan.admissions[i].layers) = {},
             NEW l \in TreeLayers(m)
      PROVE  Available(LayerAt(m, l), plan.target)
  <2>1. PICK q \in Sound(m) : \E x \in DOMAIN AppAt(m, q).layers : l = <<q, x>>
    BY DEF TreeLayers
  <2>2. PICK x \in DOMAIN AppAt(m, q).layers : l = <<q, x>>
    BY <2>1
  <2>3. q \in Tree(m)
    BY <1>1
  <2>4. Unavailable(AppAt(m, q).layers) = {}
    BY <1>2, <1>8, <2>3 DEF TreeHas
  <2> QED
    BY <1>5, <2>2, <2>3, <2>4
<1> QED
  BY <1>6, <1>7, <1>8

LEMMA NothingListed ==
  ASSUME NEW S, NEW a \in Seq(S), NEW b \in Seq(S)
  PROVE  a \o b \in Seq(S) /\ (a \o b = <<>> <=> a = <<>> /\ b = <<>>)
<1>1. a \o b \in Seq(S) /\ Len(a \o b) = Len(a) + Len(b)
  BY ConcatProperties
<1>2. Len(a) \in Nat /\ Len(b) \in Nat
  OBVIOUS
<1>3. (a \o b = <<>> <=> Len(a \o b) = 0) /\ (a = <<>> <=> Len(a) = 0) /\ (b = <<>> <=> Len(b) = 0)
  BY <1>1
<1> QED
  BY <1>1, <1>2, <1>3

AllBlockers == Blockers \cup {"library", "provider"}

\* Nothing is reported exactly if the walk, the primary and the providers report nothing.
LEMMA EvaluatedIs ==
  ASSUME IsPlan(plan)
  PROVE  Evaluated(plan) = <<>> <=>
           /\ plan.blockers = <<>> /\ plan.archive.manifest.primary # 0
           /\ ~(\/ Unavailable(plan.archive.manifest.layers) # {}
                \/ \E i \in DOMAIN plan.admissions : Unavailable(plan.admissions[i].layers) # {})
<1> PICK none \in BOOLEAN : none <=> plan.archive.manifest.primary = 0
  OBVIOUS
<1> PICK lack \in BOOLEAN :
      lack <=> \/ Unavailable(plan.archive.manifest.layers) # {}
               \/ \E i \in DOMAIN plan.admissions : Unavailable(plan.admissions[i].layers) # {}
  OBVIOUS
<1> PICK a, b, d : /\ a = plan.blockers /\ b = IF none THEN <<"library">> ELSE <<>>
                   /\ d = IF lack THEN <<"provider">> ELSE <<>>
  OBVIOUS
<1>1. Evaluated(plan) = (a \o b) \o d
  BY DEF Evaluated
<1>2. a \in Seq(AllBlockers)
  BY DEF IsPlan, AllBlockers
<1>3. b \in Seq(AllBlockers) /\ d \in Seq(AllBlockers)
  <2>1. <<"library">> \in Seq(AllBlockers) /\ <<"provider">> \in Seq(AllBlockers) /\ <<>> \in Seq(AllBlockers)
    BY DEF AllBlockers
  <2> QED
    BY <2>1
<1>4. (a \o b) \o d = <<>> <=> a = <<>> /\ b = <<>> /\ d = <<>>
  BY ONLY <1>2, <1>3, NothingListed
<1>5. (b = <<>> <=> ~none) /\ (d = <<>> <=> ~lack)
  OBVIOUS
<1> QED
  BY <1>1, <1>4, <1>5

\* The plan that is made, or the blockers that are reported.
LEMMA IntoGoes ==
  ASSUME IsPlan(plan), WellTree(plan.archive.manifest), IntoPlan, plan.todo = <<>>, plan.pending = <<>>,
         NEW N, NEW c, NEW k, NEW t, NEW half \in BOOLEAN, Midway(plan, store, N, c, k, t, half)
  PROVE  /\ plan'.phase \in {"blocked", "planned"}
         /\ plan'.phase = "planned" => Plannable(plan.archive, store, plan.target)
         /\ plan'.phase = "blocked" => ~Planable(plan)
<1> PICK m : m = plan.archive.manifest
  OBVIOUS
<1>1. AllFound(plan, store)
  BY Completes
<1>2. TreeHas(m, plan.admissions) /\ plan.requested = m.requires
  BY AdmissionsMatch
<1>3. /\ (\A l \in TreeLayers(m) : Available(LayerAt(m, l), plan.target))
           <=> ~(\/ Unavailable(m.layers) # {}
                 \/ \E i \in DOMAIN plan.admissions : Unavailable(plan.admissions[i].layers) # {})
      /\ Unresolved(m.layers) = {}
      /\ \A i \in DOMAIN plan.admissions : Unresolved(plan.admissions[i].layers) = {}
  BY <1>1, <1>2, Provided
<1>4. plan.blockers = <<>>
  BY DEF Midway, Stock
<1>5. Evaluated(plan) = <<>> <=>
         m.primary # 0 /\ \A l \in TreeLayers(m) : Available(LayerAt(m, l), plan.target)
  BY <1>3, <1>4, EvaluatedIs
<1>6. ~Lost(plan)
  <2>1. ASSUME NEW q \in Tree(m) PROVE AppAt(m, q).requires # NoCaps
    <3>1. IsCaps(AppAt(m, q).requires)
      BY <1>1 DEF AllFound
    <3> QED
      BY <3>1 DEF IsCaps, NoCaps
  <2>2. plan.requested # NoCaps
    BY <1>2, <2>1, TheRoot
  <2>3. \A i \in DOMAIN plan.admissions : plan.admissions[i].requested # NoCaps
    BY <1>2, <2>1 DEF TreeHas
  <2> QED
    BY <1>3, <2>2, <2>3 DEF Lost
<1>7. plan'.phase = IF Evaluated(plan) # <<>> THEN "blocked" ELSE IF Lost(plan) THEN "lost" ELSE "planned"
  BY DEF IntoPlan, IsPlan, PlanFields
<1>8. Evaluated(plan) = <<>> => Plannable(plan.archive, store, plan.target)
  <2> SUFFICES ASSUME Evaluated(plan) = <<>> PROVE Plannable(plan.archive, store, plan.target)
    OBVIOUS
  <2>1. m.primary # 0 /\ \A l \in TreeLayers(m) : Available(LayerAt(m, l), plan.target)
    BY <1>5
  <2> QED
    BY <1>1, <2>1 DEF AllFound, Plannable, Held
<1>9. Evaluated(plan) # <<>> => ~Planable(plan)
  BY <1>5 DEF Planable, Plannable
<1> QED
  BY <1>6, <1>7, <1>8, <1>9

----------------------------------------------------------------------------
(* The planner beside the imports and the catalog.                          *)

\* The application an archive names, if it decodes, has a well-formed tree.
Sat(a) == RequireCurrent(a) /\ ValidApp(a.manifest) => WellTree(a.manifest)

LEMMA ArchivesFit ==
  ASSUME CompileInv
  PROVE  /\ \A a \in Foreign : Sat(a)
         /\ \A a \in Range(out) : Sat(a)
         /\ \A a \in Archives : Sat(a)
         /\ Sat(NoArchive)
<1>1. \A a \in Foreign : Sat(a)
  BY ForeignAssumption DEF Sat, WellTree
<1>2. ASSUME NEW a, Made(a) PROVE Sat(a)
  <2>1. PICK B : Grounded(a.manifest, B)
    BY <1>2 DEF Made
  <2>2. WellFormed(a.manifest)
    BY <2>1, NeedsIn
  <2> QED
    BY <2>2 DEF Sat, WellTree
<1>3. ASSUME NEW a \in Range(out) PROVE Sat(a)
  <2>1. PICK s \in Specs : a = out[s]
    BY DEF Range, CompileInv
  <2>2. RequireCurrent(a) => Made(a)
    BY <2>1 DEF CompileInv
  <2> QED
    BY <1>2, <2>2 DEF Sat
<1>4. ASSUME NEW a \in Archives PROVE Sat(a)
  <2>1. CASE a \in built
    BY <1>2, <2>1 DEF CompileInv
  <2>2. CASE a \in Foreign
    BY <1>1, <2>2
  <2> QED
    BY <2>1, <2>2 DEF Archives
<1>5. Sat(NoArchive)
  <2>1. ~RequireCurrent(NoArchive)
    BY DEF RequireCurrent, NoArchive, CurrentVersion
  <2> QED
    BY <2>1 DEF Sat
<1> QED
  BY <1>1, <1>3, <1>4, <1>5

\* More objects take nothing away.
LEMMA StockGrows ==
  ASSUME NEW p, NEW s, NEW more, s \subseteq more, Stock(p, s)
  PROVE  Stock(p, more)
<1>1. Held(p.archive, p.target, s) \subseteq Held(p.archive, p.target, more)
  BY DEF Held
<1> QED
  BY <1>1 DEF Stock

LEMMA CleanGrows ==
  ASSUME NEW p, NEW s, NEW more, s \subseteq more, Clean(p, s)
  PROVE  Clean(p, more)
<1>1. PICK N, c, k, t : \E half \in BOOLEAN : Midway(p, s, N, c, k, t, half)
  BY DEF Clean
<1>2. PICK half \in BOOLEAN : Midway(p, s, N, c, k, t, half)
  BY <1>1
<1>3. Stock(p, more)
  BY <1>2, StockGrows DEF Midway
<1>4. Midway(p, more, N, c, k, t, half)
  BY <1>2, <1>3 DEF Midway
<1> QED
  BY <1>4 DEF Clean

\* What was intact has no part in the walk.
LEMMA CleanKeeps ==
  ASSUME NEW p, NEW s, Clean(p, s), NEW q, \A f \in PlanFields \ {"intact"} : q[f] = p[f]
  PROVE  Clean(q, s)
<1>1. PICK N, c, k, t : \E half \in BOOLEAN : Midway(p, s, N, c, k, t, half)
  BY DEF Clean
<1>2. PICK half \in BOOLEAN : Midway(p, s, N, c, k, t, half)
  BY <1>1
<1>3. /\ q.archive = p.archive /\ q.pending = p.pending /\ q.app = p.app /\ q.todo = p.todo
      /\ q.delegated = p.delegated /\ q.objects = p.objects /\ q.count = p.count
      /\ q.limited = p.limited /\ q.layers = p.layers /\ q.requested = p.requested
      /\ q.admissions = p.admissions
  BY DEF PlanFields
<1>4. \A f \in StockFields : q[f] = p[f]
  BY DEF StockFields, PlanFields
<1>5. Stock(q, s)
  BY <1>2, <1>4, SameStock DEF Midway
<1>6. Midway(q, s, N, c, k, t, half)
  BY <1>2, <1>3, <1>5 DEF Midway
<1> QED
  BY <1>6 DEF Clean

LEMMA PlannableGrows ==
  ASSUME NEW a, NEW s, NEW more, s \subseteq more, NEW target, Plannable(a, s, target)
  PROVE  Plannable(a, more, target)
  BY DEF Plannable

Plans == {"planned", "admitting", "admitted", "denied"}

PlanOK ==
    /\ plan.phase # "lost"
    /\ plan.phase \in {"resolving", "resolved"} =>
          /\ Ready
          /\ plan.blockers = <<>> => Clean(plan, store)
          /\ plan.blockers # <<>> => ~Planable(plan)
    /\ plan.phase = "resolved" /\ plan.blockers = <<>> => plan.todo = <<>> /\ plan.pending = <<>>
    /\ plan.phase \in Plans => DOMAIN plan = PlanFields /\ Plannable(plan.archive, store, plan.target)
    /\ plan.phase = "blocked" => ~Planable(plan)

CatalogOK == (\A a \in catalog : Sat(a)) /\ Sat(importing.archive)

PlannerInv == CatalogOK /\ PlanOK

LEMMA PlanStays ==
  ASSUME PlanOK, plan' = plan, store \subseteq store', rotten' = rotten
  PROVE  PlanOK'
<1>1. Clean(plan, store) => Clean(plan, store')
  BY CleanGrows
<1>2. Plannable(plan.archive, store, plan.target) => Plannable(plan.archive, store', plan.target)
  BY PlannableGrows
<1>3. Ready => Ready'
  BY DEF Ready
<1>4. Planable(plan)' <=> Planable(plan)
  BY DEF Planable
<1>5. Clean(plan, store)' <=> Clean(plan, store')
  OBVIOUS
<1>6. Plannable(plan.archive, store, plan.target)' <=> Plannable(plan.archive, store', plan.target)
  OBVIOUS
<1> QED
  BY <1>1, <1>2, <1>3, <1>4, <1>5, <1>6 DEF PlanOK

\* An object rots while a plan is made.
LEMMA RotHolds ==
  ASSUME PlanOK, NEW o \in store, Rot(o)
  PROVE  PlanOK'
<1> PICK q : q = plan'
  OBVIOUS
<1>1. /\ plan.phase = "resolving" /\ q = [plan EXCEPT !.intact = @ \ {o}]
      /\ rotten' = rotten \cup {o} /\ store' = store
  BY DEF Rot
<1>2. /\ Ready /\ (plan.blockers = <<>> => Clean(plan, store))
      /\ (plan.blockers # <<>> => ~Planable(plan))
  BY <1>1 DEF PlanOK
<1>3. /\ DOMAIN q = PlanFields /\ q.intact = plan.intact \ {o}
      /\ \A f \in PlanFields \ {"intact"} : q[f] = plan[f]
  BY <1>1, <1>2 DEF Ready, IsPlan, PlanFields
<1>4. q.phase = "resolving" /\ q.blockers = plan.blockers /\ q.archive = plan.archive /\ q.target = plan.target
  BY <1>1, <1>3 DEF PlanFields
<1>5. Ready'
  <2>1. IsPlan(q)
    BY <1>2, <1>3, <1>4 DEF Ready, IsPlan
  <2>2. q.intact \subseteq store /\ q.intact \cap (rotten \cup {o}) = {}
    BY <1>2, <1>3 DEF Ready
  <2>3. WellTree(q.archive.manifest)
    BY <1>2, <1>4 DEF Ready
  <2> QED
    BY <1>1, <2>1, <2>2, <2>3 DEF Ready
<1>6. q.blockers = <<>> => Clean(q, store)
  BY <1>2, <1>3, <1>4, CleanKeeps
<1>7. q.blockers # <<>> => ~Plannable(q.archive, q.intact, q.target)
  <2>1. q.intact \subseteq plan.intact
    BY <1>3
  <2>2. Plannable(q.archive, q.intact, q.target) => Plannable(plan.archive, plan.intact, plan.target)
    BY <1>4, <2>1, PlannableGrows
  <2> QED
    BY <1>2, <1>4, <2>2 DEF Planable
<1> QED
  BY <1>1, <1>4, <1>5, <1>6, <1>7 DEF PlanOK, Planable, Plans

\* A step of the walk.
LEMMA WalkKeeps ==
  ASSUME PlanOK, Resolving, StepKeeps(plan, plan'), plan.blockers = <<>> => Goes(plan'),
         UNCHANGED <<store, rotten>>
  PROVE  PlanOK'
<1> PICK q : q = plan'
  OBVIOUS
<1>1. /\ plan.phase = "resolving" /\ Ready
      /\ (plan.blockers # <<>> => ~Planable(plan))
  BY DEF PlanOK, Resolving
<1>2. /\ IsPlan(q) /\ q.phase = "resolving" /\ q.archive = plan.archive /\ q.target = plan.target
      /\ q.intact = plan.intact /\ (plan.blockers # <<>> => q.blockers # <<>>)
  BY <1>1 DEF StepKeeps, Fixed
<1>3. Ready'
  BY <1>1, <1>2 DEF Ready
<1>4. q.blockers = <<>> => Clean(q, store)
  BY <1>2 DEF Goes
<1>5. q.blockers # <<>> => ~Planable(plan)
  BY <1>1 DEF Goes
<1>6. q.blockers # <<>> => ~Plannable(q.archive, q.intact, q.target)
  BY <1>2, <1>5 DEF Planable
<1> QED
  BY <1>2, <1>3, <1>4, <1>6 DEF PlanOK, Planable, Plans

LEMMA WalkGoes ==
  ASSUME PlanOK, NEW ACTION A,
         A => Resolving /\ StepKeeps(plan, plan') /\ UNCHANGED <<store, rotten>>,
         \A N, c, k, t : \A half \in BOOLEAN : Midway(plan, store, N, c, k, t, half) /\ A => Goes(plan')
  PROVE  A => PlanOK'
<1> SUFFICES ASSUME A PROVE PlanOK'
  OBVIOUS
<1>1. ASSUME plan.blockers = <<>> PROVE Goes(plan')
  <2>1. Clean(plan, store)
    BY <1>1 DEF PlanOK, Resolving
  <2>2. PICK N, c, k, t : \E half \in BOOLEAN : Midway(plan, store, N, c, k, t, half)
    BY <2>1 DEF Clean
  <2> QED
    BY <2>2
<1> QED
  BY <1>1, WalkKeeps

LEMMA WalkStepHolds ==
  ASSUME PlanOK
  PROVE  PopApplication \/ ResolveRequires \/ ResolveLayer \/ SkipChild
         \/ ResolveDelegated \/ ResolveChild => PlanOK'
<1>1. Resolving => Ready /\ IsPlan(plan)
  BY DEF PlanOK, Resolving, Ready
<1>2. PopApplication => PlanOK'
  <2>1. PopApplication => Resolving /\ StepKeeps(plan, plan') /\ UNCHANGED <<store, rotten>>
    BY <1>1, PopKeeps DEF PopApplication
  <2>2. \A N, c, k, t : \A half \in BOOLEAN :
          Midway(plan, store, N, c, k, t, half) /\ PopApplication => Goes(plan')
    BY <1>1, <2>1, PopGoes
  <2> QED
    BY <2>1, <2>2, WalkGoes
<1>3. ResolveRequires => PlanOK'
  <2>1. ResolveRequires => Resolving /\ StepKeeps(plan, plan') /\ UNCHANGED <<store, rotten>>
    BY <1>1, RequiresKeeps, Zenon DEF ResolveRequires, NextEdge
  <2>2. \A N, c, k, t : \A half \in BOOLEAN :
          Midway(plan, store, N, c, k, t, half) /\ ResolveRequires => Goes(plan')
    BY <1>1, <2>1, RequiresGoes
  <2> QED
    BY <2>1, <2>2, WalkGoes
<1>4. ResolveLayer => PlanOK'
  <2>1. ResolveLayer => Resolving /\ StepKeeps(plan, plan') /\ UNCHANGED <<store, rotten>>
    BY <1>1, LayerKeeps, Zenon DEF ResolveLayer, NextEdge
  <2>2. \A N, c, k, t : \A half \in BOOLEAN :
          Midway(plan, store, N, c, k, t, half) /\ ResolveLayer => Goes(plan')
    BY <1>1, <2>1, LayerGoes
  <2> QED
    BY <2>1, <2>2, WalkGoes
<1>5. SkipChild => PlanOK'
  <2>1. SkipChild => Resolving /\ StepKeeps(plan, plan') /\ UNCHANGED <<store, rotten>>
    BY <1>1, SkipKeeps DEF SkipChild, NextEdge
  <2>2. \A N, c, k, t : \A half \in BOOLEAN :
          Midway(plan, store, N, c, k, t, half) /\ SkipChild => Goes(plan')
    BY <1>1, <2>1, SkipGoes
  <2> QED
    BY <2>1, <2>2, WalkGoes
<1>6. ResolveDelegated => PlanOK'
  <2>1. ResolveDelegated => Resolving /\ StepKeeps(plan, plan') /\ UNCHANGED <<store, rotten>>
    BY <1>1, DelegatedKeeps DEF ResolveDelegated, NextEdge
  <2>2. \A N, c, k, t : \A half \in BOOLEAN :
          Midway(plan, store, N, c, k, t, half) /\ ResolveDelegated => Goes(plan')
    BY <1>1, <2>1, DelegatedGoes
  <2> QED
    BY <2>1, <2>2, WalkGoes
<1>7. ResolveChild => PlanOK'
  <2>1. ResolveChild => Resolving /\ StepKeeps(plan, plan') /\ UNCHANGED <<store, rotten>>
    BY <1>1, ChildKeeps DEF ResolveChild, NextEdge
  <2>2. \A N, c, k, t : \A half \in BOOLEAN :
          Midway(plan, store, N, c, k, t, half) /\ ResolveChild => Goes(plan')
    BY <1>1, <2>1, ChildGoes
  <2> QED
    BY <2>1, <2>2, WalkGoes
<1> QED
  BY <1>2, <1>3, <1>4, <1>5, <1>6, <1>7

LEMMA StartHolds ==
  ASSUME NEW a, NEW target, PlanStart(a, target), Sat(a)
  PROVE  PlanOK'
<1>1. CASE RequireCurrent(a) /\ DirectoryVerifies(a)
  <2>1. WellTree(a.manifest)
    BY <1>1 DEF Sat, DirectoryVerifies
  <2>2. /\ IsPlan(plan') /\ plan'.archive = a /\ plan'.target = target /\ plan'.intact = store \ rotten
        /\ plan'.phase = "resolving" /\ (plan'.blockers = <<>> => Clean(plan', store))
        /\ plan'.blockers # <<>> => ~Planable(plan)'
    BY <1>1, <2>1, StartGoes
  <2>3. store' = store /\ rotten' = rotten
    BY DEF PlanStart
  <2>4. Ready'
    BY <2>1, <2>2, <2>3 DEF Ready
  <2> QED
    BY <2>2, <2>3, <2>4 DEF PlanOK, Plans
<1>2. CASE ~(RequireCurrent(a) /\ DirectoryVerifies(a))
  <2>1. plan' = [IdlePlan EXCEPT !.phase = "refused"]
    BY <1>2 DEF PlanStart
  <2>2. plan'.phase = "refused"
    BY <2>1 DEF IdlePlan
  <2> QED
    BY <2>2 DEF PlanOK, Plans
<1> QED
  BY <1>1, <1>2

\* The walk ends: it reached a limit, or nothing is left.
LEMMA WalkEnds ==
  ASSUME PlanOK, Halt \/ WalkDone
  PROVE  PlanOK'
<1> PICK q : q = plan'
  OBVIOUS
<1>1. plan.phase = "resolving" /\ store' = store /\ rotten' = rotten
  BY DEF Halt, WalkDone, Resolving
<1>2. /\ Ready /\ (plan.blockers = <<>> => Clean(plan, store))
      /\ (plan.blockers # <<>> => ~Planable(plan))
  BY <1>1 DEF PlanOK
<1>3. plan.blockers = <<>> => plan.halted = FALSE
  <2>1. ASSUME Clean(plan, store) PROVE plan.halted = FALSE
    <3>1. PICK N, c, k, t : \E half \in BOOLEAN : Midway(plan, store, N, c, k, t, half)
      BY <2>1 DEF Clean
    <3> QED
      BY <3>1 DEF Midway, Stock
  <2> QED
    BY <1>2, <2>1
<1>4. /\ DOMAIN q = PlanFields /\ q.phase = "resolved"
      /\ \A f \in PlanFields \ {"phase", "todo", "pending"} : q[f] = plan[f]
  BY <1>2 DEF Halt, WalkDone, Ready, IsPlan, PlanFields
<1>5. /\ q.blockers = plan.blockers /\ q.archive = plan.archive /\ q.target = plan.target
      /\ q.intact = plan.intact
  BY <1>4 DEF PlanFields
<1>6. Ready'
  BY <1>1, <1>2, <1>4, <1>5 DEF Ready, IsPlan
<1>7. q.blockers # <<>> => ~Plannable(q.archive, q.intact, q.target)
  BY <1>2, <1>5 DEF Planable
<1>8. ASSUME q.blockers = <<>> PROVE Clean(q, store) /\ q.todo = <<>> /\ q.pending = <<>>
  <2>1. WalkDone
    BY <1>3, <1>5, <1>8 DEF Halt
  <2>2. plan.todo = <<>> /\ plan.pending = <<>> /\ q = [plan EXCEPT !.phase = "resolved"]
    BY <2>1 DEF WalkDone
  <2>3. \A f \in PlanFields \ {"phase"} : q[f] = plan[f]
    BY <1>2, <2>2 DEF Ready, IsPlan, PlanFields
  <2>4. q.todo = <<>> /\ q.pending = <<>>
    BY <2>2, <2>3 DEF PlanFields
  <2>5. PICK N, c, k, t : \E half \in BOOLEAN : Midway(plan, store, N, c, k, t, half)
    BY <1>2, <1>5, <1>8 DEF Clean
  <2>6. PICK half \in BOOLEAN : Midway(plan, store, N, c, k, t, half)
    BY <2>5
  <2>7. /\ q.archive = plan.archive /\ q.pending = plan.pending /\ q.app = plan.app /\ q.todo = plan.todo
        /\ q.delegated = plan.delegated /\ q.objects = plan.objects /\ q.count = plan.count
        /\ q.limited = plan.limited /\ q.layers = plan.layers /\ q.requested = plan.requested
        /\ q.admissions = plan.admissions
    BY <2>3 DEF PlanFields
  <2>8. \A f \in StockFields : q[f] = plan[f]
    BY <2>3 DEF StockFields, PlanFields
  <2>9. Stock(q, store)
    BY <2>6, <2>8, SameStock DEF Midway
  <2>10. Midway(q, store, N, c, k, t, half)
    BY <2>6, <2>7, <2>9 DEF Midway
  <2> QED
    BY <2>4, <2>10 DEF Clean
<1> QED
  BY <1>1, <1>4, <1>6, <1>7, <1>8 DEF PlanOK, Planable, Plans

LEMMA IntoHolds == ASSUME PlanOK, IntoPlan PROVE PlanOK'
<1> PICK q : q = plan'
  OBVIOUS
<1>1. plan.phase = "resolved" /\ store' = store /\ rotten' = rotten
  BY DEF IntoPlan
<1>2. /\ Ready /\ (plan.blockers = <<>> => Clean(plan, store) /\ plan.todo = <<>> /\ plan.pending = <<>>)
      /\ (plan.blockers # <<>> => ~Planable(plan))
  BY <1>1 DEF PlanOK
<1>3. IsPlan(plan) /\ WellTree(plan.archive.manifest)
  BY <1>2 DEF Ready
<1>4. /\ DOMAIN q = PlanFields
      /\ q.phase = IF Evaluated(plan) # <<>> THEN "blocked" ELSE IF Lost(plan) THEN "lost" ELSE "planned"
      /\ \A f \in PlanFields \ {"phase", "blockers"} : q[f] = plan[f]
  BY <1>3 DEF IntoPlan, IsPlan, PlanFields
<1>5. q.archive = plan.archive /\ q.target = plan.target /\ q.intact = plan.intact
  BY <1>4 DEF PlanFields
<1>6. /\ q.phase \in {"blocked", "planned"}
      /\ q.phase = "planned" => Plannable(plan.archive, store, plan.target)
      /\ q.phase = "blocked" => ~Planable(plan)
  <2>1. CASE plan.blockers = <<>>
    <3>1. PICK N, c, k, t : \E half \in BOOLEAN : Midway(plan, store, N, c, k, t, half)
      BY <1>2, <2>1 DEF Clean
    <3>2. PICK half \in BOOLEAN : Midway(plan, store, N, c, k, t, half)
      BY <3>1
    <3> QED
      BY <1>2, <1>3, <2>1, <3>2, IntoGoes
  <2>2. CASE plan.blockers # <<>>
    <3>1. Evaluated(plan) # <<>>
      BY <1>3, <2>2, EvaluatedIs
    <3> QED
      BY <1>2, <1>4, <2>2, <3>1
  <2> QED
    BY <2>1, <2>2
<1> QED
  BY <1>1, <1>4, <1>5, <1>6 DEF PlanOK, Planable, Plans

\* An admission keeps the plan it is about.
LEMMA AdmitHolds ==
  ASSUME PlanOK, (\E g : AdmitRoot(g)) \/ AdmitChild \/ Admitted
  PROVE  PlanOK'
<1> PICK q : q = plan'
  OBVIOUS
<1>1. plan.phase \in Plans /\ store' = store /\ rotten' = rotten
  BY DEF AdmitRoot, AdmitChild, Admitted, Plans
<1>2. DOMAIN plan = PlanFields /\ Plannable(plan.archive, store, plan.target)
  BY <1>1 DEF PlanOK
<1>3. /\ DOMAIN q = PlanFields /\ q.phase \in Plans /\ q.archive = plan.archive /\ q.target = plan.target
  <2>1. ASSUME NEW g, AdmitRoot(g)
        PROVE  /\ DOMAIN q = PlanFields /\ q.phase \in Plans
               /\ q.archive = plan.archive /\ q.target = plan.target
    BY <1>2, <2>1 DEF AdmitRoot, Plans, PlanFields
  <2>2. CASE AdmitChild
    <3> PICK d, gr, ph : /\ plan' = [plan EXCEPT !.decisions = d, !.grants = gr, !.phase = ph]
                         /\ ph \in {plan.phase, "denied"}
      BY <2>2, Zenon DEF AdmitChild
    <3> QED
      BY <1>1, <1>2 DEF Plans, PlanFields
  <2>3. CASE Admitted
    BY <1>2, <2>3 DEF Admitted, Plans, PlanFields
  <2> QED
    BY <2>1, <2>2, <2>3
<1> QED
  BY <1>1, <1>2, <1>3 DEF PlanOK, Plans

LEMMA PlanStepHolds == ASSUME CompileInv, PlannerInv, PlanStep PROVE PlannerInv'
<1>0. CatalogOK /\ PlanOK
  BY DEF PlannerInv
<1>1. CatalogOK'
  <2>1. UNCHANGED <<catalog, importing>>
    BY Zenon DEF PlanStep, PlanStart, PopApplication, ResolveRequires, ResolveLayer, Halt, SkipChild,
       ResolveDelegated, ResolveChild, WalkDone, IntoPlan, AdmitRoot, AdmitChild, Admitted, PlanEnd
  <2> QED
    BY <1>0, <2>1 DEF CatalogOK
<1>2. ASSUME NEW a \in DirectArchives, PlanStart(a, "direct") PROVE PlanOK'
  <2>1. Sat(a)
    BY ArchivesFit DEF DirectArchives
  <2> QED
    BY <1>2, <2>1, StartHolds
<1>3. ASSUME NEW a \in catalog, PlanStart(a, "resident") PROVE PlanOK'
  <2>1. Sat(a)
    BY <1>0 DEF CatalogOK
  <2> QED
    BY <1>3, <2>1, StartHolds
<1>4. ASSUME PlanEnd PROVE PlanOK'
  <2>1. plan' = IdlePlan /\ plan'.phase = "idle"
    BY <1>4 DEF PlanEnd, IdlePlan
  <2> QED
    BY <2>1 DEF PlanOK, Plans
<1>5. (\E g \in Grants : AdmitRoot(Caps(g))) => \E g : AdmitRoot(g)
  OBVIOUS
<1>6. PlanOK'
  BY <1>0, <1>2, <1>3, <1>4, <1>5, WalkStepHolds, WalkEnds, IntoHolds, AdmitHolds DEF PlanStep
<1> QED
  BY <1>1, <1>6 DEF PlannerInv

LEMMA CatalogStepHolds == ASSUME CompileInv, PlannerInv, CatalogStep PROVE PlannerInv'
<1>0. CatalogOK /\ PlanOK
  BY DEF PlannerInv
<1>1. ASSUME NEW a \in Archives, ImportStart(a) PROVE PlannerInv'
  <2>1. Sat(a)
    BY ArchivesFit
  <2>2. importing'.archive = a /\ UNCHANGED <<catalog, store, rotten, plan>>
    BY <1>1 DEF ImportStart
  <2>3. CatalogOK'
    BY <1>0, <2>1, <2>2 DEF CatalogOK
  <2> QED
    BY <1>0, <2>2, <2>3, PlanStays DEF PlannerInv
<1>2. ASSUME CacheBlob PROVE PlannerInv'
  <2>1. store \subseteq store' /\ UNCHANGED <<catalog, rotten, plan>>
    BY <1>2 DEF CacheBlob
  <2>2. importing'.archive = importing.archive
    <3> PICK o : importing' = [importing EXCEPT !.blobs = @ \ {o}]
      BY <1>2 DEF CacheBlob
    <3> QED
      OBVIOUS
  <2>3. CatalogOK'
    BY <1>0, <2>1, <2>2 DEF CatalogOK
  <2> QED
    BY <1>0, <2>1, <2>3, PlanStays DEF PlannerInv
<1>3. ASSUME ImportEnd \/ ImportFails \/ \E a \in catalog : RemoveEntry(a) PROVE PlannerInv'
  <2>1. /\ UNCHANGED <<store, rotten, plan>> /\ catalog' \subseteq catalog \cup {importing.archive}
        /\ importing'.archive \in {importing.archive, NoArchive}
    BY <1>3 DEF ImportEnd, ImportFails, RemoveEntry, NoImport
  <2>2. CatalogOK'
    BY <1>0, <2>1, ArchivesFit DEF CatalogOK
  <2> QED
    BY <1>0, <2>1, <2>2, PlanStays DEF PlannerInv
<1>4. ASSUME NEW o \in store, Rot(o) PROVE PlannerInv'
  <2>1. UNCHANGED <<catalog, importing>>
    BY <1>4 DEF Rot
  <2>2. CatalogOK'
    BY <1>0, <2>1 DEF CatalogOK
  <2> QED
    BY <1>0, <1>4, <2>2, RotHolds DEF PlannerInv
<1> QED
  BY <1>1, <1>2, <1>3, <1>4 DEF CatalogStep

\* The planner (explain_application, evaluate_providers and into_application_plan) never
\* loses what it collected; it plans an application only if the whole tree resolves,
\* decodes, has providers and stays within the limits, and it reports a blocker only if
\* that was not so with the objects that were intact all along, however the store changes
\* between two of its reads.
THEOREM PlanExact == Spec => []PlanIsExact
<1>1. Init => CompileInv /\ PlannerInv
  <2>1. Init => CompileInv
    BY CompileStarts DEF Init, PlanInit
  <2>2. Init => catalog = {} /\ importing.archive = NoArchive /\ plan.phase = "idle"
    BY DEF Init, PlanInit, NoImport, IdlePlan
  <2>3. CompileInv /\ catalog = {} /\ importing.archive = NoArchive /\ plan.phase = "idle" => PlannerInv
    BY ArchivesFit DEF PlannerInv, CatalogOK, PlanOK, Plans
  <2> QED
    BY <2>1, <2>2, <2>3
<1>2. CompileInv /\ PlannerInv /\ [Next]_vars => CompileInv' /\ PlannerInv'
  <2>1. CompileInv /\ UNCHANGED compileVars => CompileInv'
    BY DEF compileVars, CompileInv
  <2>2. PlannerInv /\ UNCHANGED planVars => PlannerInv'
    <3> SUFFICES ASSUME PlannerInv, UNCHANGED planVars PROVE PlannerInv'
      OBVIOUS
    <3>1. UNCHANGED <<catalog, store, rotten, importing, plan>>
      BY DEF planVars
    <3>2. CatalogOK'
      BY <3>1 DEF PlannerInv, CatalogOK
    <3>3. PlanOK'
      BY <3>1, PlanStays DEF PlannerInv
    <3> QED
      BY <3>2, <3>3 DEF PlannerInv
  <2>3. [Next]_vars => PlanNext \/ UNCHANGED <<compileVars, planVars>>
    BY DEF Next, vars
  <2>4. PlanNext => CatalogStep \/ PlanStep \/ UNCHANGED planVars
    BY DEF PlanNext
  <2> QED
    BY <2>1, <2>2, <2>3, <2>4, CompileHolds, PlanStepHolds, CatalogStepHolds
<1>3. PlannerInv => PlanIsExact
  BY DEF PlannerInv, PlanOK, PlanIsExact, Plans, Planable
<1> QED
  BY <1>1, <1>2, <1>3, PTL DEF Spec

----------------------------------------------------------------------------
(* The log of the decisions of an admission.                                *)

Allowed(s) == \A i \in DOMAIN s : s[i].outcome = "allowed"
EndsDenied(s) == s # <<>> /\ \A i \in DOMAIN s : s[i].outcome = "denied" <=> i = Len(s)

Walking == {"idle", "refused", "resolving", "resolved", "blocked", "lost", "planned"}

LogIs(p) ==
    /\ "phase" \in DOMAIN p
    /\ p.phase \in Walking \cup {"admitting", "admitted", "denied"}
    /\ p.phase \notin {"idle", "refused"} => "decisions" \in DOMAIN p
    /\ p.phase \notin Walking => \E S : p.decisions \in Seq(S)
    /\ p.phase \in {"admitting", "admitted"} => Allowed(p.decisions)
    /\ p.phase = "denied" => EndsDenied(p.decisions)

\* Decisions are logged until the first denial, and that one ends the admission.
LogIsExact ==
    /\ plan.phase = "admitted" => Allowed(plan.decisions)
    /\ plan.phase = "denied" => EndsDenied(plan.decisions)

\* The walk of the planner touches neither the log nor its own phase until it ends.
LEMMA Resolved ==
  ASSUME NEW o
  PROVE  DOMAIN Resolve(o).plan = DOMAIN plan
         /\ ("phase" \in DOMAIN plan => Resolve(o).plan.phase = plan.phase)
  BY DEF Resolve

LEMMA Walks ==
  ASSUME LogIs(plan), DOMAIN plan' = DOMAIN plan, plan.phase \in Walking,
         plan.phase \notin {"idle", "refused"}, plan'.phase \in Walking
  PROVE  LogIs(plan)'
  BY DEF LogIs, Walking

LEMMA WalkHolds ==
  ASSUME LogIs(plan),
         \/ PopApplication \/ ResolveRequires \/ ResolveLayer \/ Halt \/ SkipChild
         \/ ResolveDelegated \/ ResolveChild \/ WalkDone
  PROVE  LogIs(plan)'
<1>0. plan.phase = "resolving" /\ "phase" \in DOMAIN plan
  BY Zenon DEF LogIs, Resolving, NextEdge, PopApplication, ResolveRequires, ResolveLayer, Halt, SkipChild,
     ResolveDelegated, ResolveChild, WalkDone
<1> SUFFICES DOMAIN plan' = DOMAIN plan /\ plan'.phase \in {"resolving", "resolved"}
  BY <1>0, Walks DEF Walking
<1>1. CASE PopApplication
  BY <1>0, <1>1 DEF PopApplication, Blocked
<1>2. CASE ResolveRequires
  <2> DEFINE o == plan.app.manifest.requires
             p == [Resolve(o).plan EXCEPT !.todo = Tail(@)]
  <2>1. DOMAIN p = DOMAIN plan /\ p.phase = "resolving"
    BY <1>0, Resolved
  <2> HIDE DEF p
  <2>2. \/ plan' = p \/ plan' = Blocked(p, "capabilities") \/ plan' = [p EXCEPT !.requested = o]
        \/ plan' = [p EXCEPT !.admissions[plan.app.admission].requested = o]
    BY <1>2, Zenon DEF ResolveRequires, p
  <2> QED
    BY <1>0, <2>1, <2>2 DEF Blocked
<1>3. CASE ResolveLayer
  <2> PICK o : plan' = [Resolve(o).plan EXCEPT !.todo = Tail(@)]
    BY <1>3, Zenon DEF ResolveLayer
  <2> QED
    BY <1>0, Resolved
<1>4. CASE Halt
  BY <1>0, <1>4 DEF Halt
<1>5. CASE SkipChild
  BY <1>0, <1>5 DEF SkipChild
<1>6. CASE ResolveDelegated
  <2> DEFINE o == Child.capabilities
             p == [Resolve(o).plan EXCEPT !.count = @ + 1,
                            !.todo = <<[edge |-> "child", at |-> Head(@).at]>> \o Tail(@),
                            !.delegated = NoCaps]
  <2>1. DOMAIN p = DOMAIN plan /\ p.phase = "resolving"
    BY <1>0, Resolved
  <2> HIDE DEF p
  <2>2. \/ plan' = p \/ plan' = Blocked(p, "capabilities") \/ plan' = [p EXCEPT !.delegated = o]
    BY <1>6 DEF ResolveDelegated, p
  <2> QED
    BY <1>0, <2>1, <2>2 DEF Blocked
<1>7. CASE ResolveChild
  <2> DEFINE o == Child.application
             p == [Resolve(o).plan EXCEPT !.todo = Tail(@)]
  <2>1. DOMAIN p = DOMAIN plan /\ p.phase = "resolving"
    BY <1>0, Resolved
  <2> HIDE DEF p
  <2>2. \/ plan' = p \/ plan' = Blocked(p, "child")
        \/ \E a, q : plan' = [p EXCEPT !.admissions = a, !.pending = q]
    BY <1>7 DEF ResolveChild, p
  <2> QED
    BY <1>0, <2>1, <2>2 DEF Blocked
<1>8. CASE WalkDone
  BY <1>0, <1>8 DEF WalkDone
<1> QED
  BY <1>1, <1>2, <1>3, <1>4, <1>5, <1>6, <1>7, <1>8

\* What one application adds to the log: its delegation, and its request if that was
\* allowed.
LEMMA LogGrows ==
  ASSUME NEW S, NEW s \in Seq(S), Allowed(s), NEW d, NEW r,
         d.outcome \in {"allowed", "denied"}, r.outcome \in {"allowed", "denied"}
  PROVE  /\ \E T : s \o (<<d>> \o <<r>>) \in Seq(T)
         /\ \E T : s \o (<<d>> \o <<>>) \in Seq(T)
         /\ d.outcome = "denied" => EndsDenied(s \o (<<d>> \o <<>>))
         /\ d.outcome = "allowed" =>
               IF r.outcome = "allowed" THEN Allowed(s \o (<<d>> \o <<r>>))
                                        ELSE EndsDenied(s \o (<<d>> \o <<r>>))
<1> DEFINE T == S \cup {d, r}
<1>1. s \in Seq(T) /\ <<d>> \in Seq(T) /\ <<r>> \in Seq(T) /\ <<>> \in Seq(T)
  OBVIOUS
<1> HIDE DEF T
<1>2. <<d>> \o <<>> \in Seq(T) /\ <<d>> \o <<r>> \in Seq(T)
  BY <1>1
<1>3. s \o (<<d>> \o <<>>) \in Seq(T) /\ s \o (<<d>> \o <<r>>) \in Seq(T)
  BY <1>1, <1>2
<1>4. PICK a : a = s \o (<<d>> \o <<>>)
  OBVIOUS
<1>5. PICK b : b = s \o (<<d>> \o <<r>>)
  OBVIOUS
<1>6. PICK one : one = <<d>> \o <<>>
  OBVIOUS
<1>7. PICK two : two = <<d>> \o <<r>>
  OBVIOUS
<1>8. Len(one) = 1 /\ one[1] = d
  BY <1>1, <1>6
<1>9. Len(two) = 2 /\ two[1] = d /\ two[2] = r
  BY <1>1, <1>7
<1>10. /\ a = s \o one /\ one \in Seq(T) /\ a \in Seq(T)
       /\ b = s \o two /\ two \in Seq(T) /\ b \in Seq(T)
       /\ s \in Seq(T)
  BY <1>1, <1>2, <1>3, <1>4, <1>5, <1>6, <1>7
<1>11. Len(s) \in Nat /\ DOMAIN a = 1..Len(a) /\ DOMAIN b = 1..Len(b) /\ DOMAIN s = 1..Len(s)
  BY <1>10
<1>12. Len(a) = Len(s) + 1 /\ a[Len(s) + 1] = d /\ \A i \in 1..Len(s) : a[i] = s[i]
  <2>1. Len(a) = Len(s) + Len(one)
        /\ \A i \in 1..Len(s) + Len(one) : a[i] = IF i <= Len(s) THEN s[i] ELSE one[i - Len(s)]
    BY ONLY <1>10, ConcatProperties
  <2>2. 1 \in Nat /\ Len(s) + 1 \in 1..Len(s) + 1 /\ (Len(s) + 1) - Len(s) = 1 /\ ~(Len(s) + 1 <= Len(s))
    BY ONLY <1>11
  <2>3. a[Len(s) + 1] = d
    BY ONLY <1>8, <2>1, <2>2
  <2>4. \A i \in 1..Len(s) : a[i] = s[i]
    BY ONLY <1>8, <1>11, <2>1
  <2> QED
    BY ONLY <1>8, <2>1, <2>3, <2>4
<1>13. Len(b) = Len(s) + 2 /\ b[Len(s) + 1] = d /\ b[Len(s) + 2] = r
       /\ \A i \in 1..Len(s) : b[i] = s[i]
  <2>1. Len(b) = Len(s) + Len(two)
        /\ \A i \in 1..Len(s) + Len(two) : b[i] = IF i <= Len(s) THEN s[i] ELSE two[i - Len(s)]
    BY ONLY <1>10, ConcatProperties
  <2>2. /\ Len(s) + 1 \in 1..Len(s) + 2 /\ (Len(s) + 1) - Len(s) = 1 /\ ~(Len(s) + 1 <= Len(s))
        /\ Len(s) + 2 \in 1..Len(s) + 2 /\ (Len(s) + 2) - Len(s) = 2 /\ ~(Len(s) + 2 <= Len(s))
    BY ONLY <1>11
  <2>3. b[Len(s) + 1] = d /\ b[Len(s) + 2] = r
    BY ONLY <1>9, <2>1, <2>2
  <2>4. \A i \in 1..Len(s) : b[i] = s[i]
    BY ONLY <1>9, <1>11, <2>1
  <2> QED
    BY ONLY <1>9, <2>1, <2>3, <2>4
<1>14. a # <<>> /\ b # <<>>
  BY <1>10, <1>11, <1>12, <1>13
<1>15. \A i \in 1..Len(s) : s[i].outcome = "allowed"
  BY <1>11 DEF Allowed
<1>16. \A i \in DOMAIN a : a[i].outcome = IF i <= Len(s) THEN "allowed" ELSE d.outcome
  BY <1>11, <1>12, <1>15
<1>17. \A i \in DOMAIN b : b[i].outcome = IF i <= Len(s) THEN "allowed"
                              ELSE IF i = Len(s) + 1 THEN d.outcome ELSE r.outcome
  BY <1>11, <1>13, <1>15
<1>18. d.outcome = "denied" => EndsDenied(a)
  BY <1>11, <1>12, <1>14, <1>16 DEF EndsDenied
<1>19. d.outcome = "allowed" => IF r.outcome = "allowed" THEN Allowed(b) ELSE EndsDenied(b)
  BY <1>11, <1>13, <1>14, <1>17 DEF EndsDenied, Allowed
<1> QED
  BY <1>3, <1>4, <1>5, <1>18, <1>19

LEMMA LogHolds == LogIs(plan) /\ PlanNext => LogIs(plan)'
<1> SUFFICES ASSUME LogIs(plan), PlanNext PROVE LogIs(plan)'
  OBVIOUS
<1>0. "phase" \in DOMAIN plan /\ (plan.phase \notin {"idle", "refused"} => "decisions" \in DOMAIN plan)
  BY DEF LogIs
<1>1. ASSUME plan' = plan PROVE LogIs(plan)'
  BY <1>1 DEF LogIs
<1>2. ASSUME NEW a, NEW target, PlanStart(a, target) PROVE LogIs(plan)'
  <2>1. CASE RequireCurrent(a) /\ DirectoryVerifies(a)
    BY <1>2, <2>1 DEF PlanStart, LogIs, Walking
  <2>2. CASE ~(RequireCurrent(a) /\ DirectoryVerifies(a))
    BY <1>2, <2>2 DEF PlanStart, LogIs, Walking, IdlePlan
  <2> QED
    BY <2>1, <2>2
<1>3. CASE \/ PopApplication \/ ResolveRequires \/ ResolveLayer \/ Halt \/ SkipChild
           \/ ResolveDelegated \/ ResolveChild \/ WalkDone
  BY <1>3, WalkHolds
<1>4. CASE IntoPlan
  <2>1. DOMAIN plan' = DOMAIN plan /\ plan'.phase \in {"blocked", "lost", "planned"}
        /\ plan.phase = "resolved"
    BY <1>0, <1>4 DEF IntoPlan
  <2> QED
    BY <2>1, Walks DEF Walking
<1>5. ASSUME NEW grant, AdmitRoot(grant) PROVE LogIs(plan)'
  <2> DEFINE ok == Admits(grant, plan.requested)
             d == Decision("application_request", 0, ok)
  <2>1. /\ "phase" \in DOMAIN plan' /\ "decisions" \in DOMAIN plan'
        /\ plan'.decisions = <<d>> /\ plan'.phase = IF ok THEN "admitting" ELSE "denied"
    BY <1>0, <1>5 DEF AdmitRoot
  <2>2. d.outcome = IF ok THEN "allowed" ELSE "denied"
    BY DEF Decision
  <2> HIDE DEF ok, d
  <2>a. <<d>> \in Seq({d})
    OBVIOUS
  <2>3. PICK s \in Seq({d}) : s = <<d>>
    BY <2>a
  <2>4. Len(s) = 1 /\ s[1] = d /\ DOMAIN s = 1..1
    BY <2>3
  <2>5. s # <<>>
    BY <2>4
  <2>6. IF ok THEN Allowed(s) ELSE EndsDenied(s)
    BY <2>2, <2>4, <2>5 DEF Allowed, EndsDenied
  <2> QED
    BY <2>1, <2>3, <2>6 DEF LogIs, Walking
<1>6. CASE AdmitChild
  <2> DEFINE n == Cardinality(DOMAIN plan.grants)
             c == plan.admissions[n]
             delegates == Admits(plan.grants[c.parent], c.delegated)
             requests == Admits(c.delegated, c.requested)
             d == Decision("child_delegation", c.index, delegates)
             r == Decision("application_request", c.index, requests)
             made == <<d>> \o (IF delegates THEN <<r>> ELSE <<>>)
  <2>1. /\ plan.phase = "admitting"
        /\ "phase" \in DOMAIN plan' /\ "decisions" \in DOMAIN plan'
        /\ plan'.decisions = plan.decisions \o made
        /\ plan'.phase = IF delegates /\ requests THEN "admitting" ELSE "denied"
    BY <1>0, <1>6, Zenon DEF AdmitChild, AuthorizeChild
  <2>2. PICK S : plan.decisions \in Seq(S)
    BY <2>1, Zenon DEF LogIs, Walking
  <2>3. Allowed(plan.decisions)
    BY <2>1, Zenon DEF LogIs
  <2>4. /\ d.outcome = IF delegates THEN "allowed" ELSE "denied"
        /\ r.outcome = IF requests THEN "allowed" ELSE "denied"
    BY DEF Decision
  <2> HIDE DEF n, c, delegates, requests, d, r
  <2>5. (\E T : plan'.decisions \in Seq(T))
        /\ IF delegates /\ requests THEN Allowed(plan'.decisions) ELSE EndsDenied(plan'.decisions)
    <3>1. CASE delegates
      BY <2>1, <2>2, <2>3, <2>4, <3>1, LogGrows
    <3>2. CASE ~delegates
      BY <2>1, <2>2, <2>3, <2>4, <3>2, LogGrows
    <3> QED
      BY <3>1, <3>2
  <2> QED
    BY <2>1, <2>5 DEF LogIs, Walking
<1>7. CASE Admitted
  <2>1. plan' = [plan EXCEPT !.phase = "admitted"] /\ plan.phase = "admitting"
    BY <1>7 DEF Admitted
  <2>2. plan'.decisions = plan.decisions /\ plan'.phase = "admitted" /\ DOMAIN plan' = DOMAIN plan
    BY <1>0, <2>1
  <2> QED
    BY <1>0, <2>1, <2>2 DEF LogIs, Walking
<1>8. CASE PlanEnd
  BY <1>8 DEF PlanEnd, IdlePlan, LogIs, Walking
<1>9. ASSUME NEW o, Rot(o) PROVE LogIs(plan)'
  <2>1. DOMAIN plan' = DOMAIN plan /\ plan'.phase = "resolving" /\ plan.phase = "resolving"
    BY <1>0, <1>9 DEF Rot
  <2> QED
    BY <2>1, Walks DEF Walking
<1>10. CASE CatalogStep
  BY <1>1, <1>9, <1>10 DEF CatalogStep, ImportStart, CacheBlob, ImportEnd, ImportFails, RemoveEntry
<1>11. CASE PlanStep
  BY <1>2, <1>3, <1>4, <1>5, <1>6, <1>7, <1>8, <1>11 DEF PlanStep
<1>12. ASSUME UNCHANGED planVars PROVE LogIs(plan)'
  BY <1>1, <1>12 DEF planVars
<1> QED
  BY <1>10, <1>11, <1>12 DEF PlanNext

\* The log of an admission has no denial if the tree was admitted, and exactly one, its
\* last, if it was not (admitted_grants_with).
THEOREM Logged == Spec => []LogIsExact
<1>1. Init => LogIs(plan)
  BY DEF Init, PlanInit, IdlePlan, LogIs, Walking
<1>2. LogIs(plan) /\ [Next]_vars => LogIs(plan)'
  <2>1. LogIs(plan) /\ UNCHANGED planVars => LogIs(plan)'
    BY DEF planVars, LogIs
  <2>2. [Next]_vars => PlanNext \/ UNCHANGED planVars
    BY DEF Next, vars
  <2> QED
    BY <2>1, <2>2, LogHolds
<1>3. LogIs(plan) => LogIsExact
  BY DEF LogIs, LogIsExact, Walking
<1> QED
  BY <1>1, <1>2, <1>3, PTL DEF Spec
=============================================================================
