------------------------ MODULE WeightcSessions_proofs ------------------------
(***************************************************************************)
(* Proofs about resident sessions: the recency queue lists the keys of the *)
(* table, each once, and the table stays within its limit (TableInv).  The *)
(* request that holds the mutex while it evicts has no entry of its own,   *)
(* so the entry it adds is new to both; that actors are numbered as they   *)
(* are spawned, one for a request at most, gives every entry its actor.    *)
(***************************************************************************)
EXTENDS WeightcSessions, FiniteSetTheorems, TLAPS

Live == {k \in Keys : table[k] # 0}
Listed(s) == {s[i] : i \in DOMAIN s}
Once(s) == \A i, j \in DOMAIN s : s[i] = s[j] => i = j
Started == {a \in Actors : actor[a] # "none"}
Spawners == {r \in Requests : pc[r] \in {"asking", "asked", "removing", "done"}}
Evicting == {"evicting", "halting", "waiting"}

\* The queue and the table, and who may be about to add to both.
QueueInv ==
  /\ Once(recency) /\ Listed(recency) = Live
  /\ Cardinality(Live) <= Max
  /\ \A r \in Requests : pc[r] \in Evicting => lock = r /\ table[KeyOf[r]] = 0

\* The actors that were spawned are the first so many.
SpawnInv == \E n \in 0..MaxActors : Started = 1..n /\ n <= Cardinality(Spawners)

TableInv == TypeOK /\ QueueInv /\ SpawnInv

LEMMA BoundFacts ==
  /\ MaxActors \in Nat /\ 0 \in 0..MaxActors
  /\ \A a \in Actors : a \in Nat /\ a \in 0..MaxActors
<1>1. MaxActors \in Nat
  BY TableAssumption, FS_CardinalityType DEF MaxActors
<1> QED
  BY <1>1 DEF Actors

LEMMA UpTo == ASSUME NEW n \in Nat PROVE IsFiniteSet(1..n) /\ Cardinality(1..n) = n
BY FS_Interval

\* A queue that lists each entry once is as long as the set it lists.
LEMMA OnceLength ==
  ASSUME NEW s \in Seq(Keys), Once(s)
  PROVE  IsFiniteSet(Listed(s)) /\ Cardinality(Listed(s)) = Len(s)
<1>1. Len(s) \in Nat /\ DOMAIN s = 1..Len(s)
  OBVIOUS
<1>2. [i \in 1..Len(s) |-> s[i]] \in Bijection(1..Len(s), Listed(s))
  BY <1>1 DEF Bijection, Injection, IsInjective, Surjection, Listed, Once
<1>3. ExistsBijection(1..Len(s), Listed(s))
  BY <1>2 DEF ExistsBijection
<1> QED
  BY <1>1, <1>3, FS_NatBijection, FS_CountingElements

\* What retain leaves of such a queue.
LEMMA WithoutFacts ==
  ASSUME NEW s \in Seq(Keys), NEW k, Once(s)
  PROVE  /\ Without(s, k) \in Seq(Keys) /\ Once(Without(s, k))
         /\ Listed(Without(s, k)) = Listed(s) \ {k}
<1> DEFINE n == Len(s)
           kept == {i \in DOMAIN s : s[i] # k}
           place(i) == Cardinality({h \in kept : h <= i})
<1>1. n \in Nat /\ DOMAIN s = 1..n /\ \A i \in 1..n : s[i] \in Keys
  OBVIOUS
<1>2. CASE \A i \in 1..n : s[i] # k
  <2>1. kept = 1..n /\ Cardinality(kept) = n
    <3>1. kept = 1..n
      BY <1>1, <1>2
    <3> QED
      BY <1>1, <3>1, UpTo
  <2>2. ASSUME NEW i \in kept PROVE place(i) = i
    <3>1. {h \in kept : h <= i} = 1..i /\ i \in Nat
      BY <1>1, <2>1
    <3> QED
      BY <3>1, UpTo
  <2> HIDE DEF kept, place
  <2>3. \A j \in 1..n : (CHOOSE i \in kept : place(i) = j) = j
    BY <2>1, <2>2
  <2>4. Without(s, k) = [j \in 1..n |-> s[j]]
    <3>1. Without(s, k) = [j \in 1..Cardinality(kept) |-> s[CHOOSE i \in kept : place(i) = j]]
      BY DEF Without, kept, place
    <3> QED
      BY <2>1, <2>3, <3>1
  <2>5. Without(s, k) = s
    BY <1>1, <2>4
  <2> QED
    BY <1>1, <1>2, <2>5 DEF Listed
<1>3. ASSUME NEW p \in 1..n, s[p] = k
      PROVE  /\ Without(s, k) \in Seq(Keys) /\ Once(Without(s, k))
             /\ Listed(Without(s, k)) = Listed(s) \ {k}
  <2>1. kept = (1..n) \ {p} /\ Cardinality(kept) = n - 1
    <3>1. kept = (1..n) \ {p}
      BY <1>1, <1>3 DEF Once
    <3>2. IsFiniteSet(1..n) /\ Cardinality(1..n) = n
      BY <1>1, UpTo
    <3> QED
      BY <1>1, <3>1, <3>2, FS_RemoveElement
  <2>2. ASSUME NEW i \in kept PROVE place(i) = (IF i < p THEN i ELSE i - 1)
    <3>1. i \in Nat /\ IsFiniteSet(1..i) /\ Cardinality(1..i) = i
      BY <1>1, <2>1, UpTo
    <3>2. {h \in kept : h <= i} = (1..i) \ {p}
      BY <1>1, <2>1
    <3>3. Cardinality((1..i) \ {p}) = IF p \in 1..i THEN i - 1 ELSE i
      BY <3>1, FS_RemoveElement
    <3>4. p \in 1..i <=> ~(i < p)
      BY <1>1, <2>1, <3>1
    <3> QED
      BY <3>2, <3>3, <3>4
  <2> HIDE DEF kept, place
  <2> DEFINE at(j) == IF j < p THEN j ELSE j + 1
  <2>3. ASSUME NEW j \in 1..(n - 1) PROVE (CHOOSE i \in kept : place(i) = j) = at(j)
    <3>1. at(j) \in kept /\ place(at(j)) = j
      BY <1>1, <2>1, <2>2
    <3>2. \A i \in kept : place(i) = j => i = at(j)
      BY <1>1, <2>1, <2>2
    <3> QED
      BY <3>1, <3>2
  <2>4. Without(s, k) = [j \in 1..(n - 1) |-> s[at(j)]]
    <3>1. Without(s, k) = [j \in 1..Cardinality(kept) |-> s[CHOOSE i \in kept : place(i) = j]]
      BY DEF Without, kept, place
    <3> HIDE DEF at
    <3> QED
      BY <2>1, <2>3, <3>1
  <2> DEFINE w == Without(s, k)
  <2>5. /\ n - 1 \in Nat /\ DOMAIN w = 1..(n - 1)
        /\ \A j \in 1..(n - 1) : w[j] = s[at(j)] /\ at(j) \in 1..n /\ at(j) # p
    BY <1>1, <2>4
  <2>6. w \in Seq(Keys)
    BY <1>1, <2>4, <2>5
  <2> HIDE DEF w
  <2>7. Once(w)
    <3> SUFFICES ASSUME NEW i \in 1..(n - 1), NEW j \in 1..(n - 1), w[i] = w[j] PROVE i = j
      BY <2>5 DEF Once
    <3>1. at(i) = at(j)
      BY <1>1, <2>5 DEF Once
    <3> QED
      BY <1>1, <3>1
  <2>8. Listed(w) = Listed(s) \ {k}
    <3>1. ASSUME NEW x \in Listed(w) PROVE x \in Listed(s) \ {k}
      <4>1. PICK j \in 1..(n - 1) : x = w[j]
        BY <2>5 DEF Listed
      <4>2. x = s[at(j)] /\ at(j) \in 1..n /\ at(j) # p
        BY <2>5, <4>1
      <4> HIDE DEF at
      <4>3. s[at(j)] # s[p]
        BY <1>1, <4>2 DEF Once
      <4> QED
        BY <1>1, <1>3, <4>2, <4>3 DEF Listed
    <3>2. ASSUME NEW x \in Listed(s) \ {k} PROVE x \in Listed(w)
      <4>1. PICK i \in 1..n : x = s[i] /\ i # p
        BY <1>1, <1>3 DEF Listed
      <4>2. PICK j \in 1..(n - 1) : j = (IF i < p THEN i ELSE i - 1)
        BY <1>1, <4>1
      <4>3. at(j) = i
        BY <1>1, <4>1, <4>2
      <4> HIDE DEF at
      <4>4. w[j] = x
        BY <2>5, <4>1, <4>3
      <4> QED
        BY <2>5, <4>4 DEF Listed
    <3> QED
      BY <3>1, <3>2
  <2> QED
    BY <2>6, <2>7, <2>8 DEF w
<1> QED
  BY <1>2, <1>3

\* A new entry at the end.
LEMMA AppendFacts ==
  ASSUME NEW s \in Seq(Keys), NEW k \in Keys, Once(s), k \notin Listed(s)
  PROVE  /\ Append(s, k) \in Seq(Keys) /\ Once(Append(s, k))
         /\ Listed(Append(s, k)) = Listed(s) \cup {k}
<1> DEFINE n == Len(s)
           w == Append(s, k)
<1>1. n \in Nat /\ DOMAIN s = 1..n /\ w \in Seq(Keys) /\ DOMAIN w = 1..(n + 1)
      /\ w[n + 1] = k /\ \A i \in 1..n : w[i] = s[i] /\ s[i] # k
  BY DEF Listed
<1> HIDE DEF w, n
<1>2. Once(w)
  BY <1>1 DEF Once
<1>3. Listed(w) = Listed(s) \cup {k}
  <2>1. \A x \in Listed(w) : x \in Listed(s) \cup {k}
    BY <1>1 DEF Listed
  <2>2. k \in Listed(w)
    <3>1. n + 1 \in DOMAIN w
      BY <1>1
    <3> QED
      BY <1>1, <3>1 DEF Listed
  <2>3. \A x \in Listed(s) : x \in Listed(w)
    <3> TAKE x \in Listed(s)
    <3>1. PICK i \in 1..n : x = s[i]
      BY <1>1 DEF Listed
    <3>2. i \in DOMAIN w /\ w[i] = x
      BY <1>1, <3>1
    <3> QED
      BY <3>2 DEF Listed
  <2> QED
    BY <2>1, <2>2, <2>3
<1> QED
  BY <1>1, <1>2, <1>3 DEF w

\* The least recently used entry goes.
LEMMA TailFacts ==
  ASSUME NEW s \in Seq(Keys), Once(s), s # <<>>
  PROVE  /\ Head(s) \in Keys /\ Head(s) \in Listed(s)
         /\ Tail(s) \in Seq(Keys) /\ Once(Tail(s))
         /\ Listed(Tail(s)) = Listed(s) \ {Head(s)}
<1> DEFINE n == Len(s)
           w == Tail(s)
<1>1. n \in Nat /\ n >= 1 /\ DOMAIN s = 1..n /\ w \in Seq(Keys) /\ DOMAIN w = 1..(n - 1)
      /\ Head(s) = s[1] /\ s[1] \in Keys /\ \A i \in 1..(n - 1) : w[i] = s[i + 1]
  OBVIOUS
<1> HIDE DEF w, n
<1>2. Once(w)
  <2> SUFFICES ASSUME NEW i \in 1..(n - 1), NEW j \in 1..(n - 1), w[i] = w[j] PROVE i = j
    BY <1>1 DEF Once
  <2>1. i + 1 \in DOMAIN s /\ j + 1 \in DOMAIN s /\ s[i + 1] = s[j + 1]
    BY <1>1
  <2>2. i + 1 = j + 1
    BY <2>1 DEF Once
  <2> QED
    BY <1>1, <2>2
<1>3. \A x \in Listed(w) : x \in Listed(s) \ {s[1]}
  <2> TAKE x \in Listed(w)
  <2>1. PICK i \in 1..(n - 1) : x = s[i + 1]
    BY <1>1 DEF Listed
  <2>2. i + 1 \in 1..n /\ i + 1 # 1 /\ 1 \in 1..n
    BY <1>1
  <2> QED
    BY <1>1, <2>1, <2>2 DEF Listed, Once
<1>4. \A x \in Listed(s) \ {s[1]} : x \in Listed(w)
  <2> TAKE x \in Listed(s) \ {s[1]}
  <2>1. PICK i \in 1..n : x = s[i] /\ i # 1
    BY <1>1 DEF Listed
  <2>2. i - 1 \in DOMAIN w /\ w[i - 1] = x
    BY <1>1, <2>1
  <2> QED
    BY <2>2 DEF Listed
<1>5. s[1] \in Listed(s)
  BY <1>1 DEF Listed
<1> QED
  BY <1>1, <1>2, <1>3, <1>4, <1>5 DEF w

-----------------------------------------------------------------------------
(* The steps of TableInv.                                                   *)

LEMMA SendTyped ==
  ASSUME TypeOK, NEW a, NEW m \in Requests \cup {Stop, Halt}, Send(a, m)
  PROVE  mail' \in [Actors -> Seq(Requests \cup {Stop, Halt})]
<1>1. CASE a \in Actors
  <2> DEFINE s == IF actor[a] = "alive" THEN Append(mail[a], m) ELSE mail[a]
  <2>1. mail[a] \in Seq(Requests \cup {Stop, Halt})
    BY <1>1 DEF TypeOK
  <2>2. s \in Seq(Requests \cup {Stop, Halt})
    BY <2>1
  <2>3. mail' = [mail EXCEPT ![a] = s]
    BY <1>1 DEF Send, TypeOK
  <2> HIDE DEF s
  <2> QED
    BY <2>2, <2>3 DEF TypeOK
<1>2. CASE a \notin Actors
  BY <1>2 DEF Send, TypeOK
<1> QED
  BY <1>1, <1>2

LEMMA TailTyped ==
  ASSUME TypeOK, NEW a \in Actors, mail[a] # <<>>, mail' = [mail EXCEPT ![a] = Tail(@)]
  PROVE  mail' \in [Actors -> Seq(Requests \cup {Stop, Halt})]
<1>1. mail[a] \in Seq(Requests \cup {Stop, Halt}) /\ mail[a] # <<>>
  BY DEF TypeOK
<1>2. Tail(mail[a]) \in Seq(Requests \cup {Stop, Halt})
  BY <1>1
<1> QED
  BY <1>2 DEF TypeOK

\* Only a spawn starts an actor, and no request goes back to before its spawn.
LEMMA SpawnKeeps ==
  ASSUME TableInv, Started' = Started, Spawners \subseteq Spawners'
  PROVE  SpawnInv'
<1>1. PICK n \in 0..MaxActors : Started = 1..n /\ n <= Cardinality(Spawners)
  BY DEF TableInv, SpawnInv
<1>2. Spawners' \in SUBSET Requests
  BY DEF Spawners
<1>3. PICK new : new = Spawners'
  OBVIOUS
<1>4. /\ IsFiniteSet(new) /\ Cardinality(Spawners) <= Cardinality(new)
      /\ Cardinality(new) \in Nat /\ Cardinality(Spawners) \in Nat
  <2>1. IsFiniteSet(new)
    BY <1>2, <1>3, FS_Subset, TableAssumption
  <2>2. Spawners \in SUBSET new
    BY <1>3
  <2>3. IsFiniteSet(Spawners) /\ Cardinality(Spawners) <= Cardinality(new)
    BY <2>1, <2>2, FS_Subset
  <2> QED
    BY <2>1, <2>3, FS_CardinalityType
<1>5. n \in Nat /\ n <= Cardinality(new)
  BY <1>1, <1>4, BoundFacts
<1>6. n <= Cardinality(Spawners')
  BY <1>3, <1>5
<1>7. Started' = 1..n
  BY <1>1
<1> QED
  BY <1>1, <1>6, <1>7, BoundFacts DEF SpawnInv

\* Away from the table, and with the mutex left to who evicts.
LEMMA QuietKeeps ==
  ASSUME TableInv, TypeOK', UNCHANGED tableVars, Started' = Started, Spawners \subseteq Spawners',
         \A r \in Requests : pc'[r] \in Evicting => pc[r] \in Evicting /\ (lock = r => lock' = r)
  PROVE  TableInv'
<1>1. QueueInv'
  <2>1. Live' = Live
    BY DEF Live, tableVars
  <2>2. \A r \in Requests : pc'[r] \in Evicting => lock' = r /\ table'[KeyOf[r]] = 0
    BY DEF TableInv, QueueInv, tableVars
  <2> QED
    BY <2>1, <2>2 DEF TableInv, QueueInv, tableVars
<1> QED
  BY <1>1, SpawnKeeps DEF TableInv

\* Under a free mutex nobody evicts; an entry is dropped from both.
LEMMA DropEntryKeeps ==
  ASSUME TableInv, TypeOK', NEW k \in Keys, lock = None, Started' = Started, Spawners \subseteq Spawners',
         table' = [table EXCEPT ![k] = 0], recency' = Without(recency, k),
         \A r \in Requests : pc'[r] \in Evicting => pc[r] \in Evicting \/ (lock' = r /\ KeyOf[r] = k)
  PROVE  TableInv'
<1>1. \A r \in Requests : pc[r] \notin Evicting
  BY TableAssumption DEF TableInv, QueueInv
<1>2. Live' = Live \ {k} /\ \A e \in Keys : table'[e] = (IF e = k THEN 0 ELSE table[e])
  BY DEF TableInv, TypeOK, Live
<1>3. recency' \in Seq(Keys) /\ Once(recency') /\ Listed(recency') = Listed(recency) \ {k}
  BY WithoutFacts DEF TableInv, TypeOK, QueueInv
<1>4. PICK left : left = Live \ {k}
  OBVIOUS
<1>5. Cardinality(left) <= Max
  <2>1. IsFiniteSet(Live) /\ Cardinality(Live) <= Max
    BY OnceLength DEF TableInv, TypeOK, QueueInv
  <2>2. Cardinality(left) <= Cardinality(Live) /\ Cardinality(left) \in Nat /\ Cardinality(Live) \in Nat
    <3>1. left \in SUBSET Live
      BY <1>4
    <3>2. IsFiniteSet(left)
      BY <2>1, <3>1, FS_Subset
    <3> QED
      BY <2>1, <3>1, <3>2, FS_Subset, FS_CardinalityType
  <2> QED
    BY <2>1, <2>2, TableAssumption
<1>6. QueueInv'
  <2>1. Once(recency)' /\ (Listed(recency) = Live)' /\ (Cardinality(Live) <= Max)'
    BY <1>2, <1>3, <1>4, <1>5 DEF TableInv, QueueInv, Once, Listed
  <2>2. \A r \in Requests : pc'[r] \in Evicting => lock' = r /\ table'[KeyOf[r]] = 0
    BY <1>1, <1>2, TableAssumption
  <2> QED
    BY <2>1, <2>2 DEF QueueInv
<1> QED
  BY <1>6, SpawnKeeps DEF TableInv

LEMMA GetKeeps == ASSUME TableInv, NEW r \in Requests, Get(r) PROVE TableInv'
<1> DEFINE k == KeyOf[r]
           w == Without(recency, k)
<1>1. k \in Live /\ recency' = Append(w, k) /\ pc' = [pc EXCEPT ![r] = "asking"] /\ lock' = lock /\ table' = table
      /\ pc[r] = "idle" /\ actor' = actor /\ k \in Keys
  BY TableAssumption DEF Get, Goto, Live, actorVars
<1>2. w \in Seq(Keys) /\ Once(w) /\ Listed(w) = Live \ {k}
  BY WithoutFacts DEF TableInv, TypeOK, QueueInv
<1> HIDE DEF w
<1>3. recency' \in Seq(Keys) /\ Once(recency') /\ Listed(recency') = Live
  <2>1. (Live \ {k}) \cup {k} = Live /\ k \notin Listed(w)
    BY <1>1, <1>2
  <2>2. Append(w, k) \in Seq(Keys) /\ Once(Append(w, k)) /\ Listed(Append(w, k)) = Listed(w) \cup {k}
    BY <1>1, <1>2, <2>1, AppendFacts
  <2> QED
    BY <1>1, <1>2, <2>1, <2>2
<1>4. TypeOK'
  BY <1>1, <1>3 DEF TableInv, TypeOK, Get, actorVars, shutdown, contexts, RequestPcs
<1>5. Live' = Live /\ Started' = Started
  BY <1>1 DEF Live, Started
<1>6. QueueInv'
  <2>1. \A q \in Requests : pc'[q] \in Evicting => lock' = q /\ table'[KeyOf[q]] = 0
    BY <1>1 DEF TableInv, TypeOK, QueueInv, Evicting
  <2> QED
    BY <1>3, <1>5, <2>1 DEF TableInv, QueueInv, Once, Listed
<1>7. Spawners \subseteq Spawners'
  BY <1>1 DEF Spawners, TableInv, TypeOK
<1> QED
  BY <1>4, <1>5, <1>6, <1>7, SpawnKeeps DEF TableInv

LEMMA MissKeeps == ASSUME TableInv, NEW r \in Requests, Miss(r) \/ MissFails(r) PROVE TableInv'
<1> DEFINE k == KeyOf[r]
<1>1. /\ table' = [table EXCEPT ![k] = 0] /\ recency' = Without(recency, k) /\ lock = None /\ pc[r] = "idle"
      /\ UNCHANGED <<actorVars, ref, shutdown, contexts>> /\ k \in Keys
  BY TableAssumption DEF Miss, MissFails
<1>2. \/ lock' = r /\ pc' = [pc EXCEPT ![r] = "evicting"]
      \/ lock' = lock /\ pc' = [pc EXCEPT ![r] = "done"]
  BY DEF Miss, MissFails, Goto
<1>3. recency' \in Seq(Keys)
  BY <1>1, WithoutFacts DEF TableInv, TypeOK, QueueInv
<1>4. TypeOK'
  <2>1. lock' \in Requests \cup {None} /\ pc' \in [Requests -> RequestPcs]
    BY <1>2 DEF TableInv, TypeOK, RequestPcs
  <2> QED
    BY <1>1, <1>3, <2>1, BoundFacts DEF TableInv, TypeOK, actorVars, shutdown, contexts
<1>5. Started' = Started /\ Spawners \subseteq Spawners'
  BY <1>1, <1>2 DEF Started, Spawners, actorVars, TableInv, TypeOK
<1>6. \A q \in Requests : pc'[q] \in Evicting => pc[q] \in Evicting \/ (lock' = q /\ KeyOf[q] = k)
  BY <1>2 DEF TableInv, TypeOK, Evicting
<1> QED
  BY <1>1, <1>4, <1>5, <1>6, DropEntryKeeps

LEMMA RemoveKeeps == ASSUME TableInv, NEW r \in Requests, Remove(r) PROVE TableInv'
<1> DEFINE k == KeyOf[r]
<1>1. /\ table' = [table EXCEPT ![k] = 0] /\ recency' = Without(recency, k) /\ lock = None /\ pc[r] = "removing"
      /\ ref' = [ref EXCEPT ![r] = 0] /\ pc' = [pc EXCEPT ![r] = "done"] /\ lock' = lock
      /\ UNCHANGED <<actorVars, shutdown, contexts>> /\ k \in Keys
  BY TableAssumption DEF Remove, Goto
<1>2. recency' \in Seq(Keys)
  BY <1>1, WithoutFacts DEF TableInv, TypeOK, QueueInv
<1>3. TypeOK'
  BY <1>1, <1>2, BoundFacts DEF TableInv, TypeOK, actorVars, shutdown, contexts, RequestPcs
<1>4. Started' = Started /\ Spawners \subseteq Spawners'
  BY <1>1 DEF Started, Spawners, actorVars, TableInv, TypeOK
<1>5. \A q \in Requests : pc'[q] \in Evicting => pc[q] \in Evicting \/ (lock' = q /\ KeyOf[q] = k)
  BY <1>1 DEF TableInv, TypeOK, Evicting
<1> QED
  BY <1>1, <1>3, <1>4, <1>5, DropEntryKeeps

\* The table is full, so the queue has a first entry.
LEMMA EvictKeeps == ASSUME TableInv, NEW r \in Requests, Evict(r) PROVE TableInv'
<1> DEFINE k == Head(recency)
<1>1. /\ pc[r] = "evicting" /\ Size >= Max /\ recency' = Tail(recency) /\ table' = [table EXCEPT ![k] = 0]
      /\ ref' = [ref EXCEPT ![r] = table[k]] /\ Send(table[k], Stop) /\ excused' = excused \cup {k}
      /\ pc' = [pc EXCEPT ![r] = "halting"] /\ UNCHANGED <<lock, actor, child, shutdown, context>>
  BY DEF Evict, Goto
<1>2. IsFiniteSet(Live) /\ Cardinality(Live) = Len(recency) /\ Size = Cardinality(Live) /\ recency \in Seq(Keys)
      /\ Once(recency) /\ Listed(recency) = Live
  BY OnceLength DEF TableInv, TypeOK, QueueInv, Size, Live
<1>3. recency # <<>>
  BY <1>1, <1>2, TableAssumption
<1>4. /\ k \in Keys /\ recency' \in Seq(Keys) /\ Once(recency') /\ Listed(recency') = Live \ {k}
  BY <1>1, <1>2, <1>3, TailFacts
<1> HIDE DEF k
<1>5. mail' \in [Actors -> Seq(Requests \cup {Stop, Halt})]
  BY <1>1, SendTyped DEF TableInv
<1>6. TypeOK'
  BY <1>1, <1>4, <1>5, BoundFacts DEF TableInv, TypeOK, shutdown, RequestPcs
<1>7. Live' = Live \ {k} /\ \A e \in Keys : table'[e] = (IF e = k THEN 0 ELSE table[e])
  BY <1>1, <1>4 DEF TableInv, TypeOK, Live
<1>8. PICK left : left = Live \ {k}
  OBVIOUS
<1>9. Cardinality(left) <= Max
  <2>1. left \in SUBSET Live /\ Cardinality(Live) <= Max
    BY <1>8 DEF TableInv, QueueInv
  <2>2. IsFiniteSet(left) /\ Cardinality(left) <= Cardinality(Live)
    BY <1>2, <2>1, FS_Subset
  <2> QED
    BY <1>2, <2>1, <2>2, FS_CardinalityType, TableAssumption
<1>10. QueueInv'
  <2>1. \A q \in Requests : pc'[q] \in Evicting => lock' = q /\ table'[KeyOf[q]] = 0
    BY <1>1, <1>7, TableAssumption DEF TableInv, TypeOK, QueueInv, Evicting
  <2> QED
    BY <1>4, <1>7, <1>8, <1>9, <2>1 DEF QueueInv, Once, Listed
<1>11. Started' = Started /\ Spawners \subseteq Spawners'
  BY <1>1 DEF Started, Spawners, TableInv, TypeOK
<1> QED
  BY <1>6, <1>10, <1>11, SpawnKeeps DEF TableInv

\* The key has had no entry since its miss: the mutex has been held.
LEMMA SpawnStep == ASSUME TableInv, NEW r \in Requests, Spawn(r) PROVE TableInv'
<1> DEFINE k == KeyOf[r]
<1>1. /\ pc[r] = "evicting" /\ Size < Max /\ actor' = [actor EXCEPT ![Fresh] = "alive"]
      /\ table' = [table EXCEPT ![k] = Fresh] /\ recency' = Append(recency, k)
      /\ ref' = [ref EXCEPT ![r] = Fresh] /\ lock' = None /\ pc' = [pc EXCEPT ![r] = "asking"]
      /\ UNCHANGED <<child, mail, shutdown, contexts>> /\ k \in Keys
  BY TableAssumption DEF Spawn, Goto
<1>2. IsFiniteSet(Live) /\ Size = Cardinality(Live) /\ recency \in Seq(Keys) /\ Once(recency) /\ Listed(recency) = Live
  BY OnceLength DEF TableInv, TypeOK, QueueInv, Size, Live
<1>3. lock = r /\ table[k] = 0 /\ k \notin Live
  BY <1>1 DEF TableInv, QueueInv, Evicting, Live
<1>4. PICK n \in 0..MaxActors : Started = 1..n /\ n <= Cardinality(Spawners)
  BY DEF TableInv, SpawnInv
<1>5. Fresh = n + 1 /\ n \in Nat
  <2>1. Cardinality(Started) = n /\ n \in Nat
    BY <1>4, UpTo, BoundFacts
  <2> QED
    BY <2>1 DEF Fresh, Started
<1>6. PICK new : new = Spawners \cup {r}
  OBVIOUS
<1>7. /\ IsFiniteSet(new) /\ Cardinality(new) = Cardinality(Spawners) + 1 /\ Cardinality(Spawners) \in Nat
      /\ Cardinality(new) <= MaxActors
  <2>1. r \notin Spawners /\ Spawners \in SUBSET Requests /\ new \in SUBSET Requests
    BY <1>1, <1>6 DEF Spawners
  <2>2. IsFiniteSet(Spawners) /\ IsFiniteSet(new)
    BY <2>1, FS_Subset, TableAssumption
  <2>3. Cardinality(new) = Cardinality(Spawners) + 1
    BY <1>6, <2>1, <2>2, FS_AddElement
  <2>4. Cardinality(new) <= MaxActors
    BY <2>1, FS_Subset, TableAssumption DEF MaxActors
  <2> QED
    BY <2>2, <2>3, <2>4, FS_CardinalityType
<1>8. n + 1 <= MaxActors /\ n + 1 \in Actors /\ n + 1 \in 0..MaxActors /\ n + 1 # 0
  BY <1>4, <1>5, <1>7, BoundFacts DEF Actors
<1>9. recency' \in Seq(Keys) /\ Once(recency') /\ Listed(recency') = Live \cup {k}
  BY <1>1, <1>2, <1>3, AppendFacts
<1>10. TypeOK'
  BY <1>1, <1>5, <1>8, <1>9 DEF TableInv, TypeOK, shutdown, contexts, RequestPcs
<1>11. Live' = Live \cup {k}
  BY <1>1, <1>5, <1>8 DEF TableInv, TypeOK, Live
<1>12. PICK all : all = Live \cup {k}
  OBVIOUS
<1>13. Cardinality(all) <= Max
  <2>1. Cardinality(all) = Cardinality(Live) + 1 /\ Cardinality(Live) \in Nat
    BY <1>2, <1>3, <1>12, FS_AddElement, FS_CardinalityType
  <2> QED
    BY <1>1, <1>2, <2>1, TableAssumption
<1>14. QueueInv'
  <2>1. \A q \in Requests : pc'[q] \notin Evicting
    BY <1>1, <1>3 DEF TableInv, TypeOK, QueueInv, Evicting
  <2> QED
    BY <1>9, <1>11, <1>12, <1>13, <2>1 DEF QueueInv, Once, Listed
<1>15. SpawnInv'
  <2>1. Started' = 1..(n + 1)
    BY <1>1, <1>4, <1>5, <1>8 DEF Started, TableInv, TypeOK, Actors
  <2>2. Spawners' = new
    BY <1>1, <1>6 DEF Spawners, TableInv, TypeOK
  <2>3. n + 1 <= Cardinality(new)
    BY <1>4, <1>5, <1>7
  <2>4. n + 1 <= Cardinality(Spawners')
    BY <2>2, <2>3
  <2> QED
    BY <1>8, <2>1, <2>4, BoundFacts DEF SpawnInv
<1> QED
  BY <1>10, <1>14, <1>15 DEF TableInv

\* Shutdown empties the table when no request is under way.
LEMMA DrainKeeps == ASSUME TableInv, Drain PROVE TableInv'
<1>1. /\ table' = [k \in Keys |-> 0] /\ recency' = <<>> /\ UNCHANGED <<lock, actorVars, pc, ref, context>>
      /\ closed' = TRUE /\ excused' = Keys /\ \A r \in Requests : pc[r] \notin Evicting
  BY DEF Drain, Evicting
<1>2. victims' \subseteq Actors \X {Stop, Halt}
  BY BoundFacts DEF Drain, TableInv, TypeOK, Actors
<1>3. TypeOK'
  BY <1>1, <1>2, BoundFacts DEF TableInv, TypeOK, actorVars
<1>4. Live' = {} /\ Listed(recency') = {} /\ Once(recency')
  BY <1>1 DEF Live, Listed, Once
<1>5. QueueInv'
  BY <1>1, <1>4, FS_EmptySet, TableAssumption DEF QueueInv, Once, Listed
<1>6. Started' = Started /\ Spawners' = Spawners
  BY <1>1 DEF Started, Spawners, actorVars
<1> QED
  BY <1>3, <1>5, <1>6, SpawnKeeps DEF TableInv

-----------------------------------------------------------------------------
(* Away from the table.                                                     *)

LEMMA HaltingKeeps ==
  ASSUME TableInv, NEW r \in Requests, EvictHalt(r) \/ EvictDone(r) \/ Ask(r)
  PROVE  TableInv'
<1>1. /\ UNCHANGED <<tableVars, lock, actor, child, shutdown, contexts>>
      /\ mail' \in [Actors -> Seq(Requests \cup {Stop, Halt})]
      /\ ref' = ref \/ ref' = [ref EXCEPT ![r] = 0]
  BY SendTyped DEF EvictHalt, EvictDone, Ask, TableInv, TypeOK, actorVars
<1>2. \/ pc[r] \in Evicting /\ (pc' = [pc EXCEPT ![r] = "waiting"] \/ pc' = [pc EXCEPT ![r] = "evicting"])
      \/ pc[r] = "asking" /\ (pc' = [pc EXCEPT ![r] = "asked"] \/ pc' = [pc EXCEPT ![r] = "removing"])
  BY DEF EvictHalt, EvictDone, Ask, Goto, Evicting
<1>3. pc' \in [Requests -> RequestPcs] /\ Spawners \subseteq Spawners'
  BY <1>2 DEF TableInv, TypeOK, RequestPcs, Spawners, Evicting
<1>4. ref' \in [Requests -> 0..MaxActors]
  BY <1>1, BoundFacts DEF TableInv, TypeOK
<1>5. TypeOK'
  BY <1>1, <1>3, <1>4 DEF TableInv, TypeOK, tableVars, shutdown, contexts
<1>6. \A q \in Requests : pc'[q] \in Evicting => pc[q] \in Evicting /\ (lock = q => lock' = q)
  BY <1>1, <1>2 DEF TableInv, TypeOK, Evicting
<1>7. Started' = Started /\ UNCHANGED tableVars
  BY <1>1 DEF Started
<1> QED
  BY <1>3, <1>5, <1>6, <1>7, QuietKeeps

LEMMA DropKeeps == ASSUME TableInv, NEW r \in Requests, Drop(r) PROVE TableInv'
<1>1. /\ UNCHANGED <<tableVars, actorVars, shutdown, contexts>> /\ lock' = (IF lock = r THEN None ELSE lock)
      /\ ref' = [ref EXCEPT ![r] = 0] /\ pc' = [pc EXCEPT ![r] = "done"]
  BY DEF Drop, Goto
<1>2. TypeOK'
  BY <1>1, BoundFacts DEF TableInv, TypeOK, tableVars, actorVars, shutdown, contexts, RequestPcs
<1>3. \A q \in Requests : pc'[q] \in Evicting => pc[q] \in Evicting /\ (lock = q => lock' = q)
  BY <1>1 DEF TableInv, TypeOK, Evicting
<1>4. Started' = Started /\ Spawners \subseteq Spawners'
  BY <1>1 DEF Started, Spawners, actorVars, TableInv, TypeOK
<1> QED
  BY <1>1, <1>2, <1>3, <1>4, QuietKeeps

LEMMA LosesChildTyped ==
  ASSUME TypeOK, NEW a \in Actors, LosesChild(a)
  PROVE  child' \in [Actors -> BOOLEAN] /\ context' \in [Keys -> 0..MaxActors \cup {None}]
BY BoundFacts DEF TypeOK, LosesChild

\* The answer moves a request that waits for it, and no other.
LEMMA ReplyFacts ==
  ASSUME TableInv, NEW r \in Requests, NEW where \in {"done", "removing"}, Reply(r, where)
  PROVE  /\ pc' \in [Requests -> RequestPcs] /\ ref' \in [Requests -> 0..MaxActors]
         /\ \A q \in Requests : pc'[q] = pc[q] \/ (pc[q] = "asked" /\ pc'[q] = where)
<1>1. pc' \in [Requests -> RequestPcs] /\ \A q \in Requests : pc'[q] = pc[q] \/ (pc[q] = "asked" /\ pc'[q] = where)
  BY DEF Reply, Goto, TableInv, TypeOK, RequestPcs
<1>2. ref' \in [Requests -> 0..MaxActors]
  BY BoundFacts DEF Reply, TableInv, TypeOK
<1> QED
  BY <1>1, <1>2

LEMMA TurnKeeps ==
  ASSUME TableInv, NEW a \in Actors, NEW r \in Requests,
         TurnAnswered(a, r) \/ TurnReported(a, r) \/ TurnBroken(a, r)
  PROVE  TableInv'
<1>1. /\ UNCHANGED <<tableVars, lock, actor, shutdown>> /\ mail[a] # <<>> /\ mail' = [mail EXCEPT ![a] = Tail(@)]
      /\ Reply(r, "done") \/ Reply(r, "removing")
  BY DEF TurnAnswered, TurnReported, TurnBroken, Handles
<1>2. mail' \in [Actors -> Seq(Requests \cup {Stop, Halt})]
  BY <1>1, TailTyped DEF TableInv
<1>3. /\ pc' \in [Requests -> RequestPcs] /\ ref' \in [Requests -> 0..MaxActors]
      /\ \A q \in Requests : pc'[q] = pc[q] \/ (pc[q] = "asked" /\ pc'[q] \in {"done", "removing"})
  BY <1>1, ReplyFacts
<1>4. /\ child' \in [Actors -> BOOLEAN] /\ context' \in [Keys -> 0..MaxActors \cup {None}] /\ excused' \subseteq Keys
  <2>1. CASE TurnAnswered(a, r)
    BY <2>1, BoundFacts DEF TurnAnswered, TableInv, TypeOK, Actors
  <2>2. CASE TurnReported(a, r)
    BY <2>2 DEF TurnReported, TableInv, TypeOK, contexts
  <2>3. CASE TurnBroken(a, r)
    BY <2>3, LosesChildTyped, TableAssumption DEF TurnBroken, TableInv, TypeOK
  <2> QED
    BY <2>1, <2>2, <2>3
<1>5. TypeOK'
  BY <1>1, <1>2, <1>3, <1>4 DEF TableInv, TypeOK, tableVars, shutdown
<1>6. \A q \in Requests : pc'[q] \in Evicting => pc[q] \in Evicting /\ (lock = q => lock' = q)
  BY <1>1, <1>3 DEF Evicting
<1>7. Started' = Started /\ Spawners \subseteq Spawners' /\ UNCHANGED tableVars
  BY <1>1, <1>3 DEF Started, Spawners
<1> QED
  BY <1>5, <1>6, <1>7, QuietKeeps

LEMMA StopKeeps == ASSUME TableInv, NEW a \in Actors, StopChild(a) PROVE TableInv'
<1>1. /\ UNCHANGED <<tableVars, lock, actor, pc, ref, shutdown, excused>> /\ mail[a] # <<>>
      /\ mail' = [mail EXCEPT ![a] = Tail(@)] /\ LosesChild(a)
  BY DEF StopChild, Handles
<1>2. /\ mail' \in [Actors -> Seq(Requests \cup {Stop, Halt})]
      /\ child' \in [Actors -> BOOLEAN] /\ context' \in [Keys -> 0..MaxActors \cup {None}]
  BY <1>1, TailTyped, LosesChildTyped DEF TableInv
<1>3. TypeOK'
  BY <1>1, <1>2 DEF TableInv, TypeOK, tableVars, shutdown
<1> QED
  BY <1>1, <1>3, QuietKeeps DEF Started, Spawners

LEMMA EndsKeeps == ASSUME TableInv, NEW a \in Actors, actor[a] = "alive", Ends(a) PROVE TableInv'
<1>1. /\ UNCHANGED <<tableVars, lock, ref, shutdown>> /\ actor' = [actor EXCEPT ![a] = "dead"]
      /\ mail' = [mail EXCEPT ![a] = <<>>] /\ LosesChild(a)
      /\ \A q \in Requests : pc'[q] = pc[q] \/ (pc[q] = "asked" /\ pc'[q] = "removing")
      /\ pc' \in [Requests -> RequestPcs] /\ excused' \subseteq Keys
  BY TableAssumption DEF Ends, TableInv, TypeOK, RequestPcs
<1>2. /\ child' \in [Actors -> BOOLEAN] /\ context' \in [Keys -> 0..MaxActors \cup {None}]
      /\ mail' \in [Actors -> Seq(Requests \cup {Stop, Halt})]
      /\ actor' \in [Actors -> {"none", "alive", "dead"}]
  BY <1>1, LosesChildTyped DEF TableInv, TypeOK
<1>3. TypeOK'
  BY <1>1, <1>2 DEF TableInv, TypeOK, tableVars, shutdown
<1>4. Started' = Started
  BY <1>1 DEF Started, TableInv, TypeOK
<1>5. Spawners \subseteq Spawners'
  BY <1>1 DEF Spawners
<1>6. \A q \in Requests : pc'[q] \in Evicting => pc[q] \in Evicting /\ (lock = q => lock' = q)
  BY <1>1 DEF Evicting
<1> QED
  BY <1>1, <1>3, <1>4, <1>5, <1>6, QuietKeeps

LEMMA SendKeeps ==
  ASSUME TableInv, NEW a \in Actors, NEW m \in {Stop, Halt}, ShutdownSend(a, m)
  PROVE  TableInv'
<1>1. /\ UNCHANGED <<tableVars, lock, actor, child, pc, ref, closed, contexts>>
      /\ mail' \in [Actors -> Seq(Requests \cup {Stop, Halt})]
      /\ victims' \subseteq Actors \X {Stop, Halt}
  BY SendTyped DEF ShutdownSend, TableInv, TypeOK
<1>2. TypeOK'
  BY <1>1 DEF TableInv, TypeOK, tableVars, contexts
<1> QED
  BY <1>1, <1>2, QuietKeeps DEF Started, Spawners

LEMMA TableStarts == ASSUME Init PROVE TableInv
<1>1. TypeOK
  <2>1. /\ table \in [Keys -> 0..MaxActors] /\ ref \in [Requests -> 0..MaxActors]
        /\ context \in [Keys -> 0..MaxActors \cup {None}]
    BY BoundFacts, 0 \in 0..MaxActors DEF Init
  <2>2. recency \in Seq(Keys) /\ mail \in [Actors -> Seq(Requests \cup {Stop, Halt})]
    BY <<>> \in Seq(Keys), <<>> \in Seq(Requests \cup {Stop, Halt}) DEF Init
  <2>3. /\ actor \in [Actors -> {"none", "alive", "dead"}] /\ child \in [Actors -> BOOLEAN]
        /\ pc \in [Requests -> RequestPcs]
    BY DEF Init, RequestPcs
  <2>4. /\ lock \in Requests \cup {None} /\ closed \in BOOLEAN
        /\ victims \subseteq Actors \X {Stop, Halt} /\ excused \subseteq Keys
    BY DEF Init
  <2> QED
    BY <2>1, <2>2, <2>3, <2>4 DEF TypeOK
<1>2. Live = {} /\ Listed(recency) = {} /\ Once(recency)
  BY DEF Init, Live, Listed, Once
<1>3. QueueInv
  BY <1>2, FS_EmptySet, TableAssumption DEF QueueInv, Init, Evicting
<1>4. SpawnInv
  <2>1. Started = 1..0 /\ Spawners = {} /\ 0 \in 0..MaxActors
    BY BoundFacts DEF Init, Started, Spawners
  <2> QED
    BY <2>1, FS_EmptySet DEF SpawnInv
<1> QED
  BY <1>1, <1>3, <1>4 DEF TableInv

LEMMA TableStep == ASSUME TableInv, [Next]_vars PROVE TableInv'
<1>1. CASE UNCHANGED vars
  <2>1. TypeOK'
    BY <1>1 DEF vars, TableInv, TypeOK, tableVars, actorVars, shutdown, contexts
  <2> QED
    BY <1>1, <2>1, QuietKeeps DEF vars, actorVars, Started, Spawners
<1>2. ASSUME NEW r \in Requests, Request(r) \/ Drop(r) PROVE TableInv'
  BY <1>2, GetKeeps, MissKeeps, EvictKeeps, HaltingKeeps, SpawnStep, RemoveKeeps, DropKeeps DEF Request
<1>3. ASSUME NEW a \in Actors, Actor(a) PROVE TableInv'
  BY <1>3, TurnKeeps, StopKeeps, EndsKeeps DEF Actor, ActorHalts, ActorCollected, Handles
<1>4. ASSUME NEW a \in Actors, ShutdownSend(a, Stop) \/ ShutdownSend(a, Halt) PROVE TableInv'
  BY <1>4, SendKeeps
<1>5. CASE Drain
  BY <1>5, DrainKeeps
<1> QED
  BY <1>1, <1>2, <1>3, <1>4, <1>5 DEF Next

-----------------------------------------------------------------------------

\* The inductive invariant, in every state.
THEOREM Invariance == Spec => []TableInv
<1>1. Init => TableInv
  BY TableStarts
<1>2. TableInv /\ [Next]_vars => TableInv'
  BY TableStep
<1> QED
  BY <1>1, <1>2, PTL DEF Spec

\* Every entry of the table, every reference and every message is to an actor
\* that a request of the run can have spawned.
THEOREM TypeCorrect == Spec => []TypeOK
<1>1. TableInv => TypeOK
  BY DEF TableInv
<1> QED
  BY <1>1, Invariance, PTL

\* For any number of keys, requests and slots: the recency queue lists exactly
\* the keys of the table, each once, and the limit is kept, however hits,
\* misses, evictions, late removals, dropped futures and shutdown interleave.
THEOREM Agrees == Spec => []TableAgrees
<1>1. ASSUME TableInv PROVE TableAgrees
  <2>1. Once(recency) /\ Listed(recency) = Live /\ Cardinality(Live) <= Max /\ recency \in Seq(Keys)
    BY <1>1 DEF TableInv, TypeOK, QueueInv
  <2>2. Len(recency) = Cardinality(Live)
    BY <2>1, OnceLength
  <2> QED
    BY <2>1, <2>2 DEF TableAgrees, Size, Live, Listed
<1> QED
  BY <1>1, Invariance, PTL
=============================================================================
