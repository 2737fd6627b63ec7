--------------------------- MODULE EvidenceProofs ---------------------------
(***************************************************************************)
(* What module Evidence promises, for any targets, writers, capacity,      *)
(* clocks and restarts: fresh evidence is of the running incarnation and   *)
(* within its time to live, a running store keeps what is valid, and a     *)
(* replay of the journal repeats every decision of the store.              *)
(***************************************************************************)
EXTENDS Evidence, FiniteSetTheorems, WellFoundedInduction, TLAPS

Record == [key : Keys, rev : Nat, at : Nat, by : Nat, volatile : BOOLEAN]

\* What records_ may be: under each key a record with that key, within capacity.
Table(recs) ==
    /\ recs = [k \in DOMAIN recs |-> recs[k]]
    /\ DOMAIN recs \subseteq Keys
    /\ IsFiniteSet(DOMAIN recs) /\ Cardinality(DOMAIN recs) <= Capacity
    /\ \A k \in DOMAIN recs : recs[k] \in Record /\ recs[k].key = k

\* The numbers among the constants.
LEMMA Numbers ==
    /\ Capacity \in Nat /\ Ttl \in Nat /\ MaxRevision \in Nat /\ MaxRounds \in Nat /\ MaxBoot \in Nat
    /\ Skew \in Nat /\ Ahead \in Nat /\ MaxTime \in Nat /\ Threshold \in Nat /\ MaxBoot # 0
<1>1. /\ {Capacity, Ttl, MaxRevision, MaxRounds, MaxBoot} \subseteq Nat \ {0}
      /\ {Skew, Ahead, MaxTime, Threshold} \subseteq Nat
  BY EvidenceAssumption
<1>2. QED
  BY <1>1, Zenon

\* A set of naturals that is not empty has a least element.
LEMMA LeastNat ==
    ASSUME NEW T, T \subseteq Nat, T # {}
    PROVE  \E x \in T : \A y \in T : x <= y
<1>1. PICK x \in T : \A y \in T : <<y, x>> \notin OpToRel(<, Nat)
  BY NatLessThanWellFounded, WFMin, Zenon
<1>2. x \in T /\ \A y \in T : ~(y < x)
  BY <1>1, Zenon DEF OpToRel
<1>3. QED
  BY <1>2

\* A subset is not larger.
LEMMA Fewer ==
    ASSUME NEW S, IsFiniteSet(S), NEW T, T \subseteq S
    PROVE  /\ IsFiniteSet(T) /\ Cardinality(T) \in Nat /\ Cardinality(S) \in Nat
           /\ Cardinality(T) <= Cardinality(S)
<1>1. T \in SUBSET S
  BY Zenon
<1>2. IsFiniteSet(T) /\ Cardinality(T) <= Cardinality(S)
  BY <1>1, FS_Subset
<1>3. QED
  BY <1>2, FS_CardinalityType

\* An element adds at most one.
LEMMA AddOne ==
    ASSUME NEW S, IsFiniteSet(S), NEW x
    PROVE  IsFiniteSet(S \cup {x}) /\ Cardinality(S \cup {x}) <= Cardinality(S) + 1
<1>1. IsFiniteSet(S \cup {x}) /\ Cardinality(S) \in Nat
  BY FS_AddElement, FS_CardinalityType, Zenon
<1>2. Cardinality(S \cup {x}) = IF x \in S THEN Cardinality(S) ELSE Cardinality(S) + 1
  BY FS_AddElement, Zenon
<1>3. QED
  BY <1>1, <1>2
-----------------------------------------------------------------------------
(* EvidenceStore.                                                          *)

\* The empty store.
LEMMA EmptyTable == Table(<<>>) /\ DOMAIN <<>> = {}
<1>1. DOMAIN <<>> = {} /\ <<>> = [k \in DOMAIN <<>> |-> <<>>[k]]
  OBVIOUS
<1>2. QED
  BY <1>1, FS_EmptySet, EvidenceAssumption DEF Table

\* What an accepted record changes: its own key, and of the others only what had
\* expired by the record's time.
LEMMA ObserveChanges ==
    ASSUME NEW recs, Table(recs), NEW r \in Record, Accepts(recs, r)
    PROVE  /\ DOMAIN observe(recs, r) \subseteq DOMAIN recs \cup {r.key}
           /\ r.key \in DOMAIN observe(recs, r) /\ observe(recs, r)[r.key] = r
           /\ \A k \in DOMAIN observe(recs, r) : k # r.key =>
                k \in DOMAIN recs /\ observe(recs, r)[k] = recs[k]
           /\ \A k \in DOMAIN recs : k \notin DOMAIN observe(recs, r) => recs[k].at + Ttl <= r.at
           /\ observe(recs, r) = [k \in DOMAIN observe(recs, r) |-> observe(recs, r)[k]]
<1> DEFINE others == IF Known(recs, r) THEN DOMAIN recs ELSE keeps(recs, r.at)
           new == [k \in others \cup {r.key} |-> IF k = r.key THEN r ELSE recs[k]]
<1>1. observe(recs, r) = new
  BY DEF observe
<1>2. others \subseteq DOMAIN recs /\ \A k \in DOMAIN recs \ others : recs[k].at + Ttl <= r.at
  BY Zenon DEF keeps, Evictable
<1> HIDE DEF others
<1>3. DOMAIN new = others \cup {r.key} /\ new[r.key] = r
      /\ (\A k \in others : k # r.key => new[k] = recs[k]) /\ new = [k \in DOMAIN new |-> new[k]]
  OBVIOUS
<1> HIDE DEF new
<1>4. QED
  BY <1>1, <1>2, <1>3, Zenon

\* An accepted record leaves the store within its capacity.
LEMMA ObserveTable ==
    ASSUME NEW recs, Table(recs), NEW r \in Record, Accepts(recs, r)
    PROVE  Table(observe(recs, r))
<1> DEFINE others == IF Known(recs, r) THEN DOMAIN recs ELSE keeps(recs, r.at)
           new == observe(recs, r)
<1>1. DOMAIN new = others \cup {r.key}
  BY DEF observe
<1>2. IsFiniteSet(DOMAIN recs) /\ Cardinality(DOMAIN recs) \in Nat /\ Cardinality(DOMAIN recs) <= Capacity
  BY FS_CardinalityType DEF Table
<1>3. IsFiniteSet(DOMAIN new) /\ Cardinality(DOMAIN new) <= Capacity
  <2>1. CASE Known(recs, r)
    <3>1. DOMAIN new = DOMAIN recs
      BY <1>1, <2>1, Zenon DEF Known
    <3>2. QED
      BY <3>1, <1>2
  <2>2. CASE ~Known(recs, r) /\ ~Full(recs)
    <3>1. DOMAIN new = DOMAIN recs \cup {r.key}
      BY <1>1, <2>2, Zenon DEF keeps
    <3>2. IsFiniteSet(DOMAIN new) /\ Cardinality(DOMAIN new) <= Cardinality(DOMAIN recs) + 1
      BY <3>1, <1>2, AddOne, Zenon
    <3>3. Cardinality(DOMAIN recs) < Capacity
      BY <2>2, <1>2, EvidenceAssumption DEF Full
    <3>4. Cardinality(DOMAIN new) \in Nat
      BY <3>2, FS_CardinalityType
    <3>5. QED
      BY <3>2, <3>3, <3>4, <1>2, EvidenceAssumption
  <2>3. CASE ~Known(recs, r) /\ Full(recs)
    <3> DEFINE gone == Evictable(recs, r.at)
               left == DOMAIN recs \ gone
    <3>1. DOMAIN new = left \cup {r.key}
      BY <1>1, <2>3, Zenon DEF keeps
    <3>2. PICK g \in gone : g \in DOMAIN recs
      BY <2>3, Zenon DEF Accepts, Evictable
    <3>3. left \in SUBSET DOMAIN recs /\ left # DOMAIN recs
      BY <3>2, Zenon
    <3> HIDE DEF left
    <3>4. IsFiniteSet(left) /\ Cardinality(left) <= Cardinality(DOMAIN recs)
          /\ Cardinality(left) # Cardinality(DOMAIN recs)
      BY <3>3, <1>2, FS_Subset
    <3>5. Cardinality(left) \in Nat
      BY <3>4, FS_CardinalityType
    <3>6. IsFiniteSet(DOMAIN new) /\ Cardinality(DOMAIN new) <= Cardinality(left) + 1
      BY <3>1, <3>4, <3>5, AddOne, Zenon
    <3>7. Cardinality(DOMAIN new) \in Nat
      BY <3>6, FS_CardinalityType
    <3>8. QED
      BY <3>4, <3>5, <3>6, <3>7, <1>2, EvidenceAssumption
  <2>4. QED
    BY <2>1, <2>2, <2>3, Zenon
<1> HIDE DEF new
<1>4. /\ DOMAIN new \subseteq DOMAIN recs \cup {r.key} /\ new[r.key] = r
      /\ \A k \in DOMAIN new : k # r.key => k \in DOMAIN recs /\ new[k] = recs[k]
      /\ new = [k \in DOMAIN new |-> new[k]]
  BY ObserveChanges, ZenonT(40) DEF new
<1>5. r.key \in Keys
  BY DEF Record
<1>6. DOMAIN new \subseteq Keys
  BY <1>4, <1>5, Zenon DEF Table
<1>7. \A k \in DOMAIN new : new[k] \in Record /\ new[k].key = k
  BY <1>4, Zenon DEF Table
<1>8. Table(new)
  BY <1>3, <1>4, <1>6, <1>7, Zenon DEF Table
<1>9. QED
  BY <1>8 DEF new
-----------------------------------------------------------------------------
(* Replay.                                                                 *)

\* What the recursion defines on the first n records of a journal.
Run(f, js, n) == f = [m \in 0 .. n |-> IF m = 0 THEN <<>> ELSE apply(f[m - 1], js[m])]

\* There is such a function for every length.
LEMMA RunExists ==
    ASSUME NEW js, NEW n \in Nat
    PROVE  \E f : Run(f, js, n)
<1> DEFINE T == {m \in Nat : ~ \E f : Run(f, js, m)}
<1>1. SUFFICES ASSUME T # {} PROVE FALSE
  BY Zenon
<1>2. PICK m \in T : \A y \in T : m <= y
  <2>1. T \subseteq Nat
    OBVIOUS
  <2> HIDE DEF T
  <2>2. QED
    BY <1>1, <2>1, LeastNat, Zenon
<1>3. m \in Nat /\ ~ \E f : Run(f, js, m)
  BY <1>2, Zenon
<1>4. CASE m = 0
  <2> DEFINE g == [x \in 0 .. 0 |-> <<>>]
  <2>1. Run(g, js, 0)
    BY DEF Run
  <2>2. QED
    BY <2>1, <1>3, <1>4
<1>5. CASE m # 0
  <2>1. m - 1 \in Nat /\ ~(m <= m - 1)
    BY <1>3, <1>5
  <2>2. m - 1 \notin T
    BY <1>2, <2>1, Zenon
  <2>3. PICK f : Run(f, js, m - 1)
    BY <2>1, <2>2, Zenon
  <2> DEFINE g == [x \in 0 .. m |-> IF x = m THEN apply(f[m - 1], js[m]) ELSE f[x]]
  <2>4. \A x \in 0 .. m : g[x] = IF x = 0 THEN <<>> ELSE apply(g[x - 1], js[x])
    <3> TAKE x \in 0 .. m
    <3>1. CASE x = m
      <4>1. g[x] = apply(f[m - 1], js[m]) /\ g[x - 1] = f[m - 1]
        BY <3>1, <2>1, <1>3
      <4>2. QED
        BY <4>1, <3>1, <1>5
    <3>2. CASE x # m
      <4>1. x \in 0 .. (m - 1) /\ g[x] = f[x] /\ (x # 0 => g[x - 1] = f[x - 1])
        BY <3>2, <1>3
      <4>2. f[x] = IF x = 0 THEN <<>> ELSE apply(f[x - 1], js[x])
        BY <4>1, <2>3 DEF Run
      <4>3. QED
        BY <4>1, <4>2
    <3>3. QED
      BY <3>1, <3>2
  <2>5. g = [x \in 0 .. m |-> g[x]]
    OBVIOUS
  <2>6. Run(g, js, m)
    <3> HIDE DEF g
    <3>1. QED
      BY <2>4, <2>5, Zenon DEF Run
  <2>7. QED
    BY <2>6, <1>3, Zenon
<1>6. QED
  BY <1>4, <1>5

\* Two of them agree as far as their journals do.
LEMMA RunAgrees ==
    ASSUME NEW js, NEW ks, NEW n \in Nat, NEW m \in Nat, NEW f, NEW g,
           Run(f, js, n), Run(g, ks, m), n <= m, \A i \in 1 .. n : js[i] = ks[i]
    PROVE  \A i \in 0 .. n : f[i] = g[i]
<1> DEFINE T == {i \in 0 .. n : f[i] # g[i]}
<1>1. SUFFICES ASSUME T # {} PROVE FALSE
  BY Zenon
<1>2. PICK i \in T : \A y \in T : i <= y
  <2>1. T \subseteq Nat
    OBVIOUS
  <2> HIDE DEF T
  <2>2. QED
    BY <1>1, <2>1, LeastNat, Zenon
<1>3. i \in 0 .. n /\ f[i] # g[i] /\ i \in 0 .. m
  BY <1>2
<1>4. /\ f[i] = IF i = 0 THEN <<>> ELSE apply(f[i - 1], js[i])
      /\ g[i] = IF i = 0 THEN <<>> ELSE apply(g[i - 1], ks[i])
  BY <1>3 DEF Run
<1>5. i # 0
  BY <1>3, <1>4
<1>6. i - 1 \in 0 .. n /\ ~(i <= i - 1) /\ js[i] = ks[i]
  BY <1>3, <1>5
<1>7. f[i - 1] = g[i - 1]
  BY <1>6, <1>2, Zenon
<1>8. QED
  BY <1>3, <1>4, <1>5, <1>6, <1>7

\* Replay starts empty and applies one record after the other.
LEMMA ReplaySteps ==
    ASSUME NEW js \in Seq(Record)
    PROVE  /\ Run(Replayed(js), js, Len(js))
           /\ Replayed(js)[0] = <<>>
           /\ \A i \in 1 .. Len(js) : Replayed(js)[i] = apply(Replayed(js)[i - 1], js[i])
<1>1. Len(js) \in Nat
  OBVIOUS
<1>2. \E f : f = [m \in 0 .. Len(js) |-> IF m = 0 THEN <<>> ELSE apply(f[m - 1], js[m])]
  BY <1>1, RunExists, Zenon DEF Run
<1>3. Run(Replayed(js), js, Len(js))
  BY <1>2, Zenon DEF Replayed, Run
<1>4. \A i \in 0 .. Len(js) : Replayed(js)[i] = IF i = 0 THEN <<>> ELSE apply(Replayed(js)[i - 1], js[i])
  BY <1>3, Zenon DEF Run
<1>5. QED
  BY <1>1, <1>3, <1>4

\* A record more in the journal is a record more applied.
LEMMA ReplayAppend ==
    ASSUME NEW js \in Seq(Record), NEW r \in Record
    PROVE  replay(Append(js, r)) = apply(replay(js), r)
<1> DEFINE ks == Append(js, r)
           n == Len(js)
<1>1. /\ n \in Nat /\ ks \in Seq(Record) /\ Len(ks) = n + 1 /\ ks[n + 1] = r
      /\ \A i \in 1 .. n : js[i] = ks[i]
  OBVIOUS
<1>2. n + 1 \in Nat /\ n <= n + 1 /\ n \in 0 .. n /\ n + 1 \in 1 .. n + 1 /\ (n + 1) - 1 = n
  BY <1>1
<1> HIDE DEF ks, n
<1>3. Run(Replayed(js), js, n) /\ Run(Replayed(ks), ks, n + 1)
  BY <1>1, ReplaySteps, Zenon DEF n
<1>4. \A i \in 0 .. n : Replayed(js)[i] = Replayed(ks)[i]
  <2> DEFINE f == Replayed(js)
             g == Replayed(ks)
             m == n + 1
  <2>1. Run(f, js, n) /\ Run(g, ks, m) /\ m \in Nat /\ n <= m
    BY <1>2, <1>3, Zenon
  <2> HIDE DEF f, g, m
  <2>2. n \in Nat /\ \A i \in 1 .. n : js[i] = ks[i]
    BY <1>1, Zenon
  <2>3. \A i \in 0 .. n : f[i] = g[i]
    BY <2>1, <2>2, RunAgrees, SMTT(60)
  <2>4. QED
    BY <2>3, Zenon DEF f, g
<1>5. Replayed(ks)[n + 1] = apply(Replayed(ks)[(n + 1) - 1], ks[n + 1])
  BY <1>1, <1>2, ReplaySteps, Zenon
<1>6. QED
  BY <1>1, <1>2, <1>4, <1>5, Zenon DEF replay, ks, n

\* Replay leaves a store as observe does, with records of the journal only.
LEMMA ReplayTable ==
    ASSUME NEW js \in Seq(Record)
    PROVE  /\ Table(replay(js))
           /\ \A k \in DOMAIN replay(js) : \E j \in 1 .. Len(js) : js[j] = replay(js)[k]
<1> DEFINE n == Len(js)
           R == Replayed(js)
           Good(i) == /\ Table(R[i])
                      /\ \A k \in DOMAIN R[i] : \E j \in 1 .. i : js[j] = R[i][k]
           T == {i \in 0 .. n : ~Good(i)}
<1>1. n \in Nat /\ R[0] = <<>> /\ \A i \in 1 .. n : R[i] = apply(R[i - 1], js[i]) /\ js[i] \in Record
  BY ReplaySteps
<1> HIDE DEF n, R
<1>2. ASSUME T # {} PROVE FALSE
  <2>1. PICK i \in T : \A y \in T : i <= y
    <3>1. T \subseteq Nat
      BY <1>1
    <3> HIDE DEF T
    <3>2. QED
      BY <1>2, <3>1, LeastNat, Zenon
  <2>2. i \in 0 .. n /\ ~Good(i)
    BY <2>1, Zenon
  <2>3. i # 0
    BY <2>2, <1>1, EmptyTable, Zenon
  <2>4. i - 1 \in 0 .. n /\ ~(i <= i - 1) /\ i \in 1 .. n
    BY <2>2, <2>3, <1>1
  <2>5. Good(i - 1)
    BY <2>1, <2>4, Zenon
  <2>6. R[i] = apply(R[i - 1], js[i]) /\ js[i] \in Record
    BY <1>1, <2>4, Zenon
  <2>7. \A j \in 1 .. (i - 1) : j \in 1 .. i
    BY <2>4
  <2>8. i \in 1 .. i
    BY <2>4
  <2>9. CASE Accepts(R[i - 1], js[i])
    <3>1. R[i] = observe(R[i - 1], js[i])
      BY <2>6, <2>9, Zenon DEF apply
    <3>2. Table(R[i])
      BY <3>1, <2>5, <2>6, <2>9, ObserveTable, Zenon
    <3>3. /\ R[i][js[i].key] = js[i]
          /\ \A k \in DOMAIN R[i] : k # js[i].key => k \in DOMAIN R[i - 1] /\ R[i][k] = R[i - 1][k]
      <4> DEFINE old == R[i - 1]
                 r == js[i]
      <4>1. Table(old) /\ r \in Record /\ Accepts(old, r)
        BY <2>5, <2>6, <2>9, Zenon
      <4>2. R[i] = observe(old, r)
        BY <3>1, Zenon
      <4> HIDE DEF old, r
      <4>3. /\ observe(old, r)[r.key] = r
            /\ \A k \in DOMAIN observe(old, r) : k # r.key =>
                 k \in DOMAIN old /\ observe(old, r)[k] = old[k]
        BY <4>1, ObserveChanges
      <4>4. QED
        BY <4>2, <4>3, Zenon DEF old, r
    <3>4. QED
      BY <3>2, <3>3, <2>2, <2>5, <2>7, <2>8, Zenon
  <2>10. CASE ~Accepts(R[i - 1], js[i])
    <3>1. R[i] = R[i - 1]
      BY <2>6, <2>10, Zenon DEF apply
    <3>2. QED
      BY <3>1, <2>2, <2>5, <2>7, Zenon
  <2>11. QED
    BY <2>9, <2>10
<1>3. n \in 0 .. n
  BY <1>1
<1>4. Good(n)
  BY <1>2, <1>3, Zenon
<1>5. QED
  BY <1>4, Zenon DEF replay, n, R

\* The written-out records of a store bring the store back, whatever their order.
LEMMA ReplayListing ==
    ASSUME NEW recs, Table(recs),
           NEW f \in Bijection(1 .. Cardinality(DOMAIN recs), DOMAIN recs)
    PROVE  replay([i \in 1 .. Cardinality(DOMAIN recs) |-> recs[f[i]]]) = recs
<1> DEFINE n == Cardinality(DOMAIN recs)
           js == [i \in 1 .. n |-> recs[f[i]]]
           R == Replayed(js)
           First(i) == {f[j] : j \in 1 .. i}
           T == {i \in 0 .. n : R[i] # [k \in First(i) |-> recs[k]]}
<1>1. n \in Nat /\ IsFiniteSet(DOMAIN recs) /\ n <= Capacity /\ Capacity \in Nat
  BY FS_CardinalityType, EvidenceAssumption DEF Table
<1> HIDE DEF n
<1>2. /\ f \in [1 .. n -> DOMAIN recs] /\ (\A i, j \in 1 .. n : f[i] = f[j] => i = j)
      /\ \A k \in DOMAIN recs : \E i \in 1 .. n : f[i] = k
  BY Zenon DEF Bijection, Injection, Surjection, IsInjective, n
<1>3. \A i \in 1 .. n : recs[f[i]] \in Record /\ recs[f[i]].key = f[i]
  BY <1>2, Zenon DEF Table
<1>4. js \in Seq(Record) /\ Len(js) = n /\ \A i \in 1 .. n : js[i] = recs[f[i]]
  BY <1>1, <1>3
<1> HIDE DEF js
<1>5. R[0] = <<>> /\ \A i \in 1 .. n : R[i] = apply(R[i - 1], js[i])
  BY <1>4, ReplaySteps, Zenon
<1> HIDE DEF R
<1>6. ASSUME T # {} PROVE FALSE
  <2>1. PICK i \in T : \A y \in T : i <= y
    <3>1. T \subseteq Nat
      BY <1>1
    <3> HIDE DEF T
    <3>2. QED
      BY <1>6, <3>1, LeastNat, Zenon
  <2>2. i \in 0 .. n /\ R[i] # [k \in First(i) |-> recs[k]]
    BY <2>1, Zenon
  <2>3. i # 0
    <3>1. First(0) = {}
      OBVIOUS
    <3>2. [k \in First(0) |-> recs[k]] = <<>>
      BY <3>1
    <3>3. QED
      BY <3>2, <2>2, <1>5
  <2>4. i - 1 \in 0 .. n /\ ~(i <= i - 1) /\ i \in 1 .. n
    BY <2>2, <2>3, <1>1
  <2> DEFINE D == First(i - 1)
             old == [k \in D |-> recs[k]]
             r == recs[f[i]]
  <2>5. R[i - 1] = old
    BY <2>1, <2>4, Zenon
  <2>6. R[i] = apply(old, r)
    BY <2>4, <2>5, <1>4, <1>5, Zenon
  <2>7. First(i) = D \cup {f[i]}
    BY <2>4
  <2>8. D \subseteq DOMAIN recs /\ f[i] \in DOMAIN recs /\ f[i] \notin D
    <3>1. \A j \in 1 .. (i - 1) : j \in 1 .. n /\ j # i
      BY <2>4, <1>1
    <3>2. \A j \in 1 .. n : f[j] \in DOMAIN recs
      BY <1>2, Zenon
    <3>3. QED
      BY <3>1, <3>2, <2>4, <1>2, SMT
  <2> HIDE DEF D
  <2>10. Cardinality(D) < Capacity /\ Cardinality(D) \in Nat
    <3>1. D \in SUBSET DOMAIN recs /\ D # DOMAIN recs
      BY <2>8, Zenon
    <3>2. Cardinality(D) <= n /\ Cardinality(D) # n /\ IsFiniteSet(D)
      BY <3>1, <1>1, FS_Subset DEF n
    <3>3. Cardinality(D) \in Nat
      BY <3>2, FS_CardinalityType, Zenon
    <3>4. QED
      BY <3>2, <3>3, <1>1
  <2>11. DOMAIN old = D /\ r.key = f[i]
    BY <1>3, <2>4
  <2>12. ~Known(old, r) /\ ~Full(old)
    BY <2>8, <2>10, <2>11, <1>1 DEF Known, Full
  <2>13. apply(old, r) = [k \in D \cup {f[i]} |-> IF k = r.key THEN r ELSE old[k]]
    <3>1. Accepts(old, r)
      BY <2>12, Zenon DEF Accepts
    <3>2. keeps(old, r.at) = D
      BY <2>11, <2>12, Zenon DEF keeps
    <3>3. QED
      BY <3>1, <3>2, <2>11, <2>12 DEF apply, observe
  <2>14. apply(old, r) = [k \in D \cup {f[i]} |-> recs[k]]
    BY <2>13, <2>11, <2>8, Zenon
  <2>15. QED
    BY <2>14, <2>6, <2>7, <2>2
<1>7. R[n] = [k \in First(n) |-> recs[k]]
  <2>1. n \in 0 .. n
    BY <1>1
  <2>2. QED
    BY <1>6, <2>1, Zenon
<1>8. First(n) = DOMAIN recs
  <2>1. \A j \in 1 .. n : f[j] \in DOMAIN recs
    BY <1>2, Zenon
  <2>2. \A k \in DOMAIN recs : k \in First(n)
    BY <1>2, Zenon
  <2>3. \A k \in First(n) : k \in DOMAIN recs
    BY <2>1, Zenon
  <2> HIDE DEF First
  <2>4. QED
    BY <2>2, <2>3, Zenon
<1>9. R[n] = recs
  BY <1>7, <1>8, Zenon DEF Table
<1>10. QED
  BY <1>9, <1>4, Zenon DEF replay, R, js, n
-----------------------------------------------------------------------------
(* The invariant.                                                          *)

\* The targets can be listed by increasing number.
LEMMA AscendingExists ==
    ASSUME NEW S \in SUBSET Nat, IsFiniteSet(S)
    PROVE  \E s \in [1 .. Cardinality(S) -> S] : Ascending(s)
<1> DEFINE Listed(X, n) == \E s \in [1 .. n -> X] : Ascending(s)
           T == {n \in Nat : \E X \in SUBSET Nat : IsFiniteSet(X) /\ Cardinality(X) = n /\ ~Listed(X, n)}
<1>1. ASSUME T # {} PROVE FALSE
  <2>1. PICK n \in T : \A y \in T : n <= y
    <3>1. T \subseteq Nat
      OBVIOUS
    <3> HIDE DEF T
    <3>2. QED
      BY <1>1, <3>1, LeastNat, Zenon
  <2>2. n \in Nat
    BY <2>1
  <2>3. PICK X \in SUBSET Nat : IsFiniteSet(X) /\ Cardinality(X) = n /\ ~Listed(X, n)
    BY <2>1, Zenon
  <2>4. n # 0
    <3>1. ASSUME n = 0 PROVE FALSE
      <4> DEFINE s == [i \in 1 .. n |-> 0]
      <4>1. s \in [1 .. n -> X] /\ Ascending(s)
        BY <3>1 DEF Ascending
      <4>2. QED
        BY <4>1, <2>3, Zenon
    <3>2. QED
      BY <3>1
  <2>5. X # {}
    BY <2>3, <2>4, FS_EmptySet
  <2>6. PICK x \in X : \A y \in X : x <= y
    BY <2>5, LeastNat, Zenon
  <2> DEFINE Y == X \ {x}
  <2>7. IsFiniteSet(Y) /\ Cardinality(Y) = n - 1
    <3>1. IsFiniteSet(Y) /\ Cardinality(Y) = IF x \in X THEN Cardinality(X) - 1 ELSE Cardinality(X)
      BY <2>3, FS_RemoveElement, Zenon
    <3>2. QED
      BY <3>1, <2>3, <2>6
  <2>8. n - 1 \in Nat /\ ~(n <= n - 1) /\ Y \in SUBSET Nat
    BY <2>2, <2>4
  <2>9. Listed(Y, n - 1)
    <3>1. n - 1 \notin T
      BY <2>1, <2>8, Zenon
    <3>2. QED
      BY <3>1, <2>7, <2>8, Zenon
  <2>10. PICK s \in [1 .. (n - 1) -> Y] : Ascending(s)
    BY <2>9, Zenon
  <2> DEFINE t == [i \in 1 .. n |-> IF i = 1 THEN x ELSE s[i - 1]]
  <2>11. \A i \in 1 .. (n - 1) : s[i] \in X /\ s[i] \in Nat /\ x < s[i]
    <3> SUFFICES ASSUME NEW i \in 1 .. (n - 1) PROVE s[i] \in X /\ s[i] \in Nat /\ x < s[i]
      OBVIOUS
    <3>1. s[i] \in Y
      OBVIOUS
    <3>2. s[i] \in X /\ s[i] # x /\ x <= s[i] /\ s[i] \in Nat /\ x \in Nat
      BY <3>1, <2>6, <2>3, Zenon
    <3>3. QED
      BY <3>2
  <2>12. t \in [1 .. n -> X]
    BY <2>11, <2>6, <2>2
  <2>13. Ascending(t)
    <3>1. \A i, j \in 1 .. (n - 1) : i < j => s[i] < s[j]
      BY <2>10 DEF Ascending
    <3>2. ASSUME NEW i \in 1 .. n, NEW j \in 1 .. n, i < j PROVE t[i] < t[j]
      <4>1. j - 1 \in 1 .. (n - 1) /\ j # 1 /\ t[j] = s[j - 1]
        BY <3>2, <2>2
      <4>2. CASE i = 1
        BY <4>1, <4>2, <2>11
      <4>3. CASE i # 1
        <5>1. i - 1 \in 1 .. (n - 1) /\ t[i] = s[i - 1] /\ i - 1 < j - 1
          BY <4>3, <3>2, <2>2
        <5>2. QED
          BY <5>1, <4>1, <3>1
      <4>4. QED
        BY <4>2, <4>3
    <3>3. DOMAIN t = 1 .. n
      OBVIOUS
    <3> HIDE DEF t
    <3>4. QED
      BY <3>2, <3>3 DEF Ascending
  <2>14. QED
    BY <2>12, <2>13, <2>3, Zenon
<1>2. Cardinality(S) \in Nat
  BY FS_CardinalityType
<1>3. QED
  BY <1>1, <1>2, Zenon

\* A round of the health loop goes through targets.
LEMMA AllTargetsType ==
    /\ AllTargets \in Seq(Targets) /\ Len(AllTargets) = Cardinality(Targets)
    /\ Targets # {} => AllTargets # <<>>
<1>1. Targets \in SUBSET Nat /\ IsFiniteSet(Targets)
  BY EvidenceAssumption
<1>2. Cardinality(Targets) \in Nat /\ (Cardinality(Targets) = 0 => Targets = {})
  BY <1>1, FS_CardinalityType, FS_EmptySet
<1>3. AllTargets \in [1 .. Cardinality(Targets) -> Targets]
  BY <1>1, AscendingExists, Zenon DEF AllTargets
<1>4. QED
  BY <1>2, <1>3

\* What the store holds and has written.  Every record is of this incarnation or
\* an earlier one; one of this incarnation has been seen by it, at a time that
\* the record's own does not exceed by more than the observer's clock runs ahead.
\* What is not expired is in the journal, or one of the records behind the gap, so
\* that a compaction never writes more records than it finds.
Unread == {k \in Written : \A i \in 1 .. Len(journal) : journal[i] # records[k]}

StoreInv ==
    /\ now \in 0 .. MaxTime /\ boot \in 1 .. MaxBoot /\ pruned \in BOOLEAN
    /\ Table(records)
    /\ journal \in Seq(Record) /\ synced \in 0 .. Len(journal)
    /\ gap \in BOOLEAN /\ behind \in Nat /\ (~gap => behind = 0) /\ Count <= Threshold + 1
    /\ \A i \in 1 .. Len(journal) : journal[i].by <= boot
    /\ seen \in [Keys -> [boot : Nat, at : Nat]]
    /\ \A k \in DOMAIN records :
        /\ records[k].by <= boot
        /\ records[k].by = boot => seen[k].boot = boot /\ records[k].at <= seen[k].at + Ahead
    /\ Cardinality(Unread) <= behind
    /\ RestartKeepsEvidence

\* The state of the health loop and of the controller's counter.
LoopInv ==
    /\ revisions \in [health : Nat, controller : Nat]
    /\ cursor \in Seq(Targets) /\ (Targets # {} => cursor # <<>>)
    /\ round \in Nat /\ round <= now

EInv == StoreInv /\ LoopInv

\* Initially nothing is held.
LEMMA EvidenceInit == Init => EInv
<1> SUFFICES ASSUME Init PROVE EInv
  OBVIOUS
<1> USE DEF Init
<1>1. Table(records) /\ DOMAIN records = {}
  BY EmptyTable
<1>2. journal \in Seq(Record) /\ Len(journal) = 0
  OBVIOUS
<1>3. replay(journal) = records
  BY <1>2, ReplaySteps, Zenon DEF replay
<1>4. Written = {}
  BY <1>1 DEF Written
<1>5. seen \in [Keys -> [boot : Nat, at : Nat]]
  BY DEF Nobody
<1>6. StoreInv
  <2>1. now \in 0 .. MaxTime /\ boot \in 1 .. MaxBoot /\ Count <= Threshold + 1
    BY <1>2, Numbers DEF Count
  <2>2. 1 .. Len(journal) = {}
    BY <1>2
  <2>3. /\ pruned \in BOOLEAN /\ gap \in BOOLEAN /\ ~gap /\ behind \in Nat /\ behind = 0
        /\ synced \in 0 .. Len(journal)
    <3>1. behind \in Nat /\ behind = 0 /\ synced \in 0 .. Len(journal)
      BY <1>2
    <3>2. pruned \in BOOLEAN /\ gap \in BOOLEAN /\ ~gap
      BY Zenon
    <3>3. QED
      BY <3>1, <3>2, Zenon
  <2>4. Cardinality(Unread) <= behind
    <3>1. Unread = {}
      BY <1>4, Zenon DEF Unread
    <3>2. QED
      BY <2>3, <3>1, FS_EmptySet
  <2> HIDE DEF Init
  <2>5. QED
    BY <2>1, <2>2, <2>3, <2>4, <1>1, <1>2, <1>3, <1>5, Zenon DEF StoreInv, RestartKeepsEvidence
<1>7. LoopInv
  BY AllTargetsType DEF LoopInv
<1>8. QED
  BY <1>6, <1>7 DEF EInv

\* Store::observe_evidence of a record of this incarnation keeps the invariant,
\* accepted or not.
LEMMA ObserveKeeps ==
    ASSUME StoreInv, NEW r \in Record, observe_evidence(r), r.by = boot, r.at <= now + Ahead,
           Count < Threshold + 1, UNCHANGED <<now, boot, synced, gap, pruned, held>>
    PROVE  StoreInv'
<1>1. CASE ~Accepts(records, r)
  <2>1. /\ UNCHANGED <<now, boot, synced, gap, pruned, held, journal, behind, records, seen>>
        /\ (gap' <=> gap) /\ (pruned' <=> pruned)
    BY <1>1 DEF observe_evidence
  <2>2. Written' = Written /\ Count' = Count
    BY <2>1 DEF Written, Count
  <2>3. Unread' = Unread
    BY <2>1, <2>2, Zenon DEF Unread
  <2>4. QED
    BY <2>1, <2>2, <2>3, Zenon DEF StoreInv, RestartKeepsEvidence
<1>2. CASE Accepts(records, r)
  <2>1. /\ journal' = IF gap THEN journal ELSE Append(journal, r)
        /\ behind' = IF gap THEN behind + 1 ELSE 0
        /\ records' = observe(records, r)
        /\ seen' = [seen EXCEPT ![r.key] = [boot |-> boot, at |-> now]]
    BY <1>2 DEF observe_evidence
  <2>2. /\ now' = now /\ boot' = boot /\ pruned' = pruned /\ gap' = gap /\ synced' = synced /\ held' = held
        /\ (gap' <=> gap) /\ (pruned' <=> pruned) /\ now \in 0 .. MaxTime /\ boot \in 1 .. MaxBoot /\ pruned \in BOOLEAN /\ gap \in BOOLEAN
        /\ Table(records) /\ journal \in Seq(Record) /\ r.key \in Keys /\ r.at \in Nat
        /\ synced \in 0 .. Len(journal) /\ behind \in Nat /\ (~gap => behind = 0)
    BY DEF StoreInv, Record
  <2>3. Table(records')
    BY <1>2, <2>1, <2>2, ObserveTable, Zenon
  <2>4. /\ r.key \in DOMAIN records' /\ records'[r.key] = r
        /\ \A k \in DOMAIN records' : k # r.key => k \in DOMAIN records /\ records'[k] = records[k]
    BY <1>2, <2>1, <2>2, ObserveChanges, SMT
  <2>5. /\ journal' \in Seq(Record)
        /\ \A i \in 1 .. Len(journal) : i \in 1 .. Len(journal') /\ journal'[i] = journal[i]
        /\ \A i \in 1 .. Len(journal') :
              journal'[i] = r \/ (i \in 1 .. Len(journal) /\ journal'[i] = journal[i])
        /\ ~gap => Len(journal') \in 1 .. Len(journal') /\ journal'[Len(journal')] = r
        /\ synced' \in 0 .. Len(journal') /\ behind' \in Nat /\ (~gap => behind' = 0)
    <3>1. CASE gap
      BY <2>1, <2>2, <3>1
    <3>2. CASE ~gap
      <4>1. journal' = Append(journal, r) /\ behind' = 0
        BY <2>1, <3>2
      <4>2. QED
        BY <2>2, <3>2, <4>1
    <3>3. QED
      BY <3>1, <3>2
  <2>6. Count' <= Threshold + 1
    <3>1. Len(journal) \in Nat
      BY <2>2
    <3>2. CASE gap
      <4>1. journal' = journal /\ behind' = behind + 1
        BY <2>1, <3>2
      <4>2. QED
        BY <2>2, <3>1, <4>1, Numbers DEF Count
    <3>3. CASE ~gap
      <4>1. Len(journal') = Len(journal) + 1 /\ behind' = 0
        BY <2>1, <2>2, <3>3
      <4>2. QED
        BY <2>2, <3>1, <3>3, <4>1, Numbers DEF Count
    <3>4. QED
      BY <3>2, <3>3
  <2>7. \A i \in 1 .. Len(journal') : journal'[i].by <= boot
    <3>1. r.by <= boot
      BY <2>2
    <3>2. QED
      BY <3>1, <2>5, Zenon DEF StoreInv
  <2>8. /\ seen' \in [Keys -> [boot : Nat, at : Nat]] /\ seen'[r.key] = [boot |-> boot, at |-> now]
        /\ \A k \in Keys : k # r.key => seen'[k] = seen[k]
    BY <2>1, <2>2 DEF StoreInv
  <2>9. \A k \in DOMAIN records' :
          /\ records'[k].by <= boot
          /\ records'[k].by = boot => seen'[k].boot = boot /\ records'[k].at <= seen'[k].at + Ahead
    <3> SUFFICES ASSUME NEW k \in DOMAIN records'
                 PROVE  /\ records'[k].by <= boot
                        /\ records'[k].by = boot => seen'[k].boot = boot /\ records'[k].at <= seen'[k].at + Ahead
      OBVIOUS
    <3>1. CASE k = r.key
      BY <3>1, <2>4, <2>8, <2>2
    <3>2. CASE k # r.key
      <4>1. k \in DOMAIN records /\ records'[k] = records[k] /\ k \in Keys
        BY <3>2, <2>4, <2>2, Zenon DEF Table
      <4>2. seen'[k] = seen[k]
        BY <4>1, <3>2, <2>8, Zenon
      <4>3. QED
        BY <4>1, <4>2, Zenon DEF StoreInv
    <3>3. QED
      BY <3>1, <3>2
  <2>10. Cardinality(Unread') <= behind'
    <3>1. IsFiniteSet(Unread)
      <4>1. Unread \subseteq DOMAIN records /\ IsFiniteSet(DOMAIN records)
        BY <2>2, Zenon DEF Unread, Written, Table
      <4>2. QED
        BY <4>1, Fewer, Zenon
    <3>2. Cardinality(Unread) <= behind /\ Cardinality(Unread) \in Nat
      BY <3>1, FS_CardinalityType, Zenon DEF StoreInv
    <3>3. \A k \in Unread' : k # r.key => k \in Unread
      BY <2>2, <2>4, <2>5, Zenon DEF Unread, Written
    <3>4. CASE gap
      <4>1. Unread' \subseteq Unread \cup {r.key} /\ behind' = behind + 1
        BY <2>1, <3>3, <3>4, Zenon
      <4>2. /\ IsFiniteSet(Unread \cup {r.key})
            /\ Cardinality(Unread \cup {r.key}) <= Cardinality(Unread) + 1
        BY <3>1, AddOne, Zenon
      <4>3. /\ Cardinality(Unread') <= Cardinality(Unread \cup {r.key})
            /\ Cardinality(Unread') \in Nat /\ Cardinality(Unread \cup {r.key}) \in Nat
        BY <4>1, <4>2, Fewer, Zenon
      <4>4. QED
        BY <2>2, <3>2, <4>1, <4>2, <4>3
    <3>5. CASE ~gap
      <4>1. r.key \notin Unread'
        BY <2>4, <2>5, <3>5, Zenon DEF Unread
      <4>2. Unread' \subseteq Unread
        BY <3>3, <4>1, Zenon
      <4>3. Cardinality(Unread') <= Cardinality(Unread) /\ Cardinality(Unread') \in Nat
        BY <3>1, <4>2, Fewer, Zenon
      <4>4. behind = 0 /\ behind' = 0
        BY <2>2, <2>5, <3>5, Zenon
      <4>5. QED
        BY <3>2, <4>3, <4>4
    <3>6. QED
      BY <3>4, <3>5
  <2>11. RestartKeepsEvidence'
    <3>1. CASE gap
      <4>1. journal' = journal
        BY <2>1, <3>1
      <4>2. QED
        BY <2>2, <3>1, <4>1, Zenon DEF StoreInv, RestartKeepsEvidence
    <3>2. CASE ~gap
      <4>1. journal' = Append(journal, r)
        BY <2>1, <3>2
      <4>2. replay(journal') = apply(replay(journal), r)
        BY <2>2, <4>1, ReplayAppend, Zenon
      <4>3. ~pruned => replay(journal') = records'
        BY <3>2, <4>2, <2>1, <1>2, Zenon DEF StoreInv, RestartKeepsEvidence, apply
      <4>4. QED
        BY <2>2, <3>2, <4>3, Zenon DEF RestartKeepsEvidence
    <3>3. QED
      BY <3>1, <3>2
  <2>12. QED
    BY <2>2, <2>3, <2>5, <2>6, <2>7, <2>8, <2>9, <2>10, <2>11, Zenon DEF StoreInv
<1>3. QED
  BY <1>1, <1>2

\* Store::compact writes what is held and not expired.
LEMMA CompactKeeps ==
    ASSUME StoreInv, compact
    PROVE  StoreInv'
<1> DEFINE n == Cardinality(Written)
           f == Listing(Written)
<1>1. /\ UNCHANGED <<now, boot, records, seen>> /\ pruned' = (Written # DOMAIN records)
      /\ journal' = [i \in 1 .. n |-> records[f[i]]]
      /\ synced' = Len(journal') /\ behind' = 0 /\ gap' \in BOOLEAN
      /\ held' = IF gap' THEN [k \in Written |-> records[k]] ELSE <<>>
  BY Zenon DEF compact
<1>2. /\ Table(records) /\ journal \in Seq(Record) /\ Len(journal) \in Nat
      /\ Written \in SUBSET DOMAIN records /\ IsFiniteSet(DOMAIN records) /\ behind \in Nat
      /\ Cardinality(Unread) <= behind /\ Count <= Threshold + 1
  BY DEF StoreInv, Table, Written
<1>3. IsFiniteSet(Written) /\ n \in Nat /\ ExistsBijection(1 .. n, Written)
  BY <1>2, FS_Subset, FS_CardinalityType
<1>4. f \in Bijection(1 .. n, Written)
  BY <1>3, Zenon DEF Listing, ExistsBijection
<1>5. f \in [1 .. n -> Written] /\ \A k \in Written : \E i \in 1 .. n : f[i] = k
  BY <1>4, Zenon DEF Bijection, Injection, Surjection
<1> HIDE DEF n, f
<1>6. \A i \in 1 .. n : f[i] \in Written /\ records[f[i]] \in Record /\ records[f[i]].by <= boot
  BY <1>5, <1>2, Zenon DEF StoreInv, Table
<1>7. journal' \in Seq(Record) /\ Len(journal') = n /\ \A i \in 1 .. n : journal'[i] = records[f[i]]
  BY <1>1, <1>3, <1>6
<1>8. n <= Count
  <2> DEFINE R == Written \ Unread
             g == [k \in R |-> CHOOSE i \in 1 .. Len(journal) : journal[i] = records[k]]
  <2>1. \A k \in R : g[k] \in 1 .. Len(journal) /\ journal[g[k]] = records[k]
    BY Zenon DEF Unread
  <2>2. g \in [R -> 1 .. Len(journal)]
    BY <2>1, Zenon
  <2>3. \A k \in R : records[k].key = k
    BY <1>2, Zenon DEF Table
  <2>4. IsFiniteSet(R) /\ IsFiniteSet(Unread) /\ Written = R \cup Unread /\ R \cap Unread = {}
    <3>1. R \subseteq Written /\ Unread \subseteq Written
      BY Zenon DEF Unread
    <3>2. IsFiniteSet(R) /\ IsFiniteSet(Unread)
      BY <1>3, <3>1, Fewer, Zenon
    <3>3. Written = R \cup Unread /\ R \cap Unread = {}
      <4> HIDE DEF g
      <4>1. QED
        BY <3>1, SMT
    <3>4. QED
      BY <3>2, <3>3, Zenon
  <2> HIDE DEF g, R
  <2>5. ASSUME NEW k \in R, NEW l \in R, g[k] = g[l]
        PROVE  k = l
    <3>1. records[k] = records[l]
      BY <2>1, <2>5, Zenon
    <3>2. records[k].key = k /\ records[l].key = l
      BY <2>3, Zenon
    <3>3. QED
      BY <3>1, <3>2
  <2>6. g \in Injection(R, 1 .. Len(journal))
    BY <2>2, <2>5, Zenon DEF Injection, IsInjective
  <2>7. IsFiniteSet(1 .. Len(journal)) /\ Cardinality(1 .. Len(journal)) = Len(journal)
    <3>1. IsFiniteSet(1 .. Len(journal))
          /\ Cardinality(1 .. Len(journal)) = IF 1 > Len(journal) THEN 0 ELSE Len(journal) - 1 + 1
      <4>1. 1 \in Int /\ Len(journal) \in Int
        BY <1>2
      <4>2. QED
        BY <4>1, FS_Interval, Zenon
    <3>2. QED
      BY <3>1, <1>2
  <2>8. Cardinality(R) <= Len(journal)
    BY <2>6, <2>7, FS_Injection
  <2>9. n = Cardinality(R) + Cardinality(Unread) /\ Cardinality(R) \in Nat /\ Cardinality(Unread) \in Nat
    <3>1. Cardinality(R \cup Unread) = Cardinality(R) + Cardinality(Unread) - Cardinality(R \cap Unread)
      BY <2>4, FS_Union, Zenon
    <3>2. /\ Cardinality(R) \in Nat /\ Cardinality(Unread) \in Nat
          /\ Cardinality(R \cap Unread) = 0 /\ n = Cardinality(R \cup Unread)
      BY <2>4, FS_CardinalityType, FS_EmptySet, Zenon DEF n
    <3>3. QED
      BY <3>1, <3>2
  <2>10. QED
    BY <1>2, <2>8, <2>9 DEF Count
<1>9. Written' = Written
  BY <1>1 DEF Written
<1>10. RestartKeepsEvidence'
  <2> DEFINE kept == [k \in Written |-> records[k]]
  <2>1. DOMAIN kept = Written /\ kept = [k \in DOMAIN kept |-> kept[k]]
        /\ \A k \in Written : kept[k] = records[k]
    OBVIOUS
  <2> HIDE DEF kept
  <2>2. Table(kept)
    <3>1. Cardinality(Written) <= Cardinality(DOMAIN records) /\ Cardinality(DOMAIN records) \in Nat
      BY <1>2, Fewer, Zenon
    <3>2. Cardinality(Written) <= Capacity
      BY <1>2, <1>3, <3>1, Numbers DEF Table, n
    <3>3. QED
      BY <1>2, <1>3, <2>1, <3>2, Zenon DEF Table
  <2>3. journal' = [i \in 1 .. n |-> kept[f[i]]]
    BY <1>1, <1>6, <2>1, Zenon
  <2>4. n = Cardinality(DOMAIN kept) /\ f \in Bijection(1 .. Cardinality(DOMAIN kept), DOMAIN kept)
    BY <1>4, <2>1, Zenon DEF n
  <2>5. replay(journal') = kept
    BY <2>2, <2>3, <2>4, ReplayListing, Zenon
  <2>6. Written = DOMAIN records => kept = records
    BY <1>2, <2>1, Zenon DEF Table
  <2>7. QED
    BY <1>1, <2>5, <2>6, Zenon DEF RestartKeepsEvidence, kept
<1>11. Count' <= Threshold + 1
  <2>1. Count' = n
    BY <1>1, <1>3, <1>7 DEF Count
  <2>2. Count \in Nat
    BY <1>2 DEF Count
  <2>3. QED
    BY <1>2, <1>3, <1>8, <2>1, <2>2, Numbers
<1>12. \A i \in 1 .. Len(journal') : journal'[i].by <= boot'
  BY <1>1, <1>6, <1>7, Zenon
<1>13. Cardinality(Unread') <= behind'
  <2>1. Unread' = {}
    BY <1>1, <1>5, <1>7, <1>9, ZenonT(40) DEF Unread
  <2>2. QED
    BY <1>1, <2>1, FS_EmptySet
<1>14. /\ pruned' \in BOOLEAN /\ gap' \in BOOLEAN /\ behind' \in Nat /\ behind' = 0
       /\ synced' \in 0 .. Len(journal')
  BY <1>1, <1>3, <1>7
<1>15. QED
  BY <1>1, <1>7, <1>10, <1>11, <1>12, <1>13, <1>14, Zenon DEF StoreInv

\* A restart replays what is left of the journal, and what it finds is of earlier
\* incarnations.
LEMMA RestartKeeps ==
    ASSUME StoreInv, restart
    PROVE  StoreInv'
<1>1. /\ boot' = boot + 1 /\ boot < MaxBoot /\ records' = replay(journal') /\ pruned' = FALSE
      /\ gap' = FALSE /\ behind' = 0 /\ UNCHANGED <<now, seen>>
  BY Zenon DEF restart
<1>2. /\ now \in 0 .. MaxTime /\ boot \in 1 .. MaxBoot /\ journal \in Seq(Record)
      /\ synced \in 0 .. Len(journal) /\ behind \in Nat /\ Count <= Threshold + 1
      /\ seen \in [Keys -> [boot : Nat, at : Nat]]
      /\ \A i \in 1 .. Len(journal) : journal[i].by <= boot
  BY DEF StoreInv
<1>3. PICK n \in synced .. Len(journal) : journal' = SubSeq(journal, 1, n) /\ synced' = n
  BY Zenon DEF restart
<1>4. n \in Nat /\ n <= Len(journal) /\ Len(journal) \in Nat
  BY <1>2
<1>5. /\ journal' \in Seq(Record) /\ Len(journal') = n
      /\ \A i \in 1 .. n : i \in 1 .. Len(journal) /\ journal'[i] = journal[i]
  BY <1>2, <1>3, <1>4
<1>6. Count' <= Threshold + 1 /\ synced' \in 0 .. Len(journal')
  BY <1>1, <1>2, <1>3, <1>4, <1>5, Numbers DEF Count
<1>7. /\ Table(records')
      /\ \A k \in DOMAIN records' : \E i \in 1 .. Len(journal') : journal'[i] = records'[k]
  BY <1>1, <1>5, ReplayTable, Zenon
<1>8. boot' \in 1 .. MaxBoot
  BY <1>1, <1>2, Numbers
<1>9. \A i \in 1 .. Len(journal') : journal'[i].by \in Nat /\ journal'[i].by < boot'
  <2>1. \A i \in 1 .. Len(journal) : journal[i] \in Record
    BY <1>2
  <2>2. \A r \in Record : r.by \in Nat
    BY DEF Record
  <2>3. \A b \in Nat : b <= boot => b < boot'
    BY <1>1, <1>2
  <2>4. QED
    BY <2>1, <2>2, <2>3, <1>2, <1>5, Zenon
<1>10. \A b \in Nat : b < boot' => b <= boot' /\ b # boot'
  BY <1>8
<1>11. \A k \in DOMAIN records' : records'[k].by <= boot' /\ records'[k].by # boot'
  BY <1>7, <1>9, <1>10, Zenon
<1>12. \A i \in 1 .. Len(journal') : journal'[i].by <= boot'
  BY <1>9, <1>10, Zenon
<1>13. Cardinality(Unread') <= behind'
  <2>1. Unread' = {}
    BY <1>7, Zenon DEF Unread, Written
  <2>2. QED
    BY <1>1, <2>1, FS_EmptySet
<1>14. RestartKeepsEvidence' /\ pruned' \in BOOLEAN /\ gap' \in BOOLEAN /\ behind' \in Nat
  BY <1>1, Zenon DEF RestartKeepsEvidence
<1>15. QED
  BY <1>1, <1>2, <1>5, <1>6, <1>7, <1>8, <1>11, <1>12, <1>13, <1>14, Zenon DEF StoreInv

\* As time goes on there is less to write.
LEMMA TimeKeeps ==
    ASSUME StoreInv, time
    PROVE  StoreInv'
<1>1. /\ now' = now + 1 /\ now < MaxTime
      /\ UNCHANGED <<boot, records, journal, synced, gap, behind, seen, pruned, held>>
  BY DEF time, file
<1>2. now \in 0 .. MaxTime
  BY DEF StoreInv
<1>3. now' \in 0 .. MaxTime
  BY <1>1, <1>2, Numbers
<1>4. Written' \subseteq Written
  <2>1. \A k \in DOMAIN records : records[k].at + Ttl \in Nat
    <3>1. \A k \in DOMAIN records : records[k] \in Record
      BY Zenon DEF StoreInv, Table
    <3>2. \A r \in Record : r.at + Ttl \in Nat
      BY Numbers DEF Record
    <3>3. QED
      BY <3>1, <3>2, Zenon
  <2>2. \A m \in Nat : now > m => now + 1 > m
    BY <1>2
  <2>3. QED
    BY <1>1, <2>1, <2>2, Zenon DEF Written
<1>5. Cardinality(Unread') <= behind'
  <2>1. Unread' \subseteq Unread
    BY <1>1, <1>4, Zenon DEF Unread
  <2>2. IsFiniteSet(Unread)
    <3>1. Unread \subseteq DOMAIN records /\ IsFiniteSet(DOMAIN records)
      BY Zenon DEF Unread, Written, StoreInv, Table
    <3>2. QED
      BY <3>1, Fewer, Zenon
  <2>3. /\ Cardinality(Unread') <= Cardinality(Unread)
        /\ Cardinality(Unread') \in Nat /\ Cardinality(Unread) \in Nat
    BY <2>1, <2>2, Fewer, Zenon
  <2>4. behind \in Nat /\ Cardinality(Unread) <= behind
    BY Zenon DEF StoreInv
  <2>5. QED
    BY <1>1, <2>3, <2>4
<1>6. Count' = Count
  BY <1>1, Zenon DEF Count
<1>7. QED
  BY <1>1, <1>3, <1>5, <1>6, Zenon DEF StoreInv, RestartKeepsEvidence

\* The records that the writers make.
LEMMA Observed ==
    ASSUME StoreInv, NEW k \in Keys, NEW rev \in Nat, NEW at \in Nat
    PROVE  /\ Observation(k, rev, at) \in Record /\ Observation(k, rev, at).by = boot
           /\ Observation(k, rev, at).at = at /\ Observation(k, rev, at).key = k
<1>1. boot \in Nat
  BY DEF StoreInv
<1>2. (~(Durable /\ k[2] = "agent")) \in BOOLEAN
  BY Zenon
<1>3. QED
  BY <1>1, <1>2 DEF Observation, Record

\* There is a target to publish while a revision is left, and the time it is
\* published with is not ahead of the clock.
LEMMA PublishReads ==
    ASSUME EInv, Budget(1)
    PROVE  /\ cursor # <<>> /\ Head(cursor) \in Targets /\ Tail(cursor) \in Seq(Targets)
           /\ <<Head(cursor), "health">> \in Keys
           /\ Reading \in Nat /\ Reading <= now /\ Reading <= now + Ahead
<1>1. /\ now \in Nat /\ boot \in Nat /\ revisions.health \in Nat /\ cursor \in Seq(Targets)
      /\ round \in Nat /\ round <= now /\ (Targets # {} => cursor # <<>>)
  BY DEF EInv, StoreInv, LoopInv
<1>2. Targets # {}
  <2>1. ASSUME Targets = {} PROVE FALSE
    <3>1. Cardinality(Targets) = 0
      BY <2>1, FS_EmptySet
    <3>2. MaxRounds * boot \in Nat
      BY <1>1, Numbers
    <3>3. (MaxRounds * boot) * Cardinality(Targets) = 0
      BY <3>1, <3>2
    <3>4. QED
      BY <3>3, <1>1 DEF Budget
  <2>2. QED
    BY <2>1
<1>3. Head(cursor) \in Targets /\ cursor # <<>> /\ Tail(cursor) \in Seq(Targets)
  BY <1>1, <1>2
<1>4. <<Head(cursor), "health">> \in Keys
  BY <1>3 DEF Keys
<1>5. Reading \in Nat /\ Reading <= now
  BY <1>1 DEF Reading
<1>6. QED
  BY <1>1, <1>3, <1>4, <1>5, Numbers

\* Every step keeps the invariant.
LEMMA EvidenceStep == EInv /\ [Next]_vars => EInv'
<1> SUFFICES ASSUME EInv, [Next]_vars PROVE EInv'
  OBVIOUS
<1>0. /\ StoreInv /\ LoopInv /\ now \in Nat /\ Count \in Nat /\ boot \in Nat
      /\ revisions \in [health : Nat, controller : Nat]
  BY DEF EInv, StoreInv, LoopInv, Count
<1>1. CASE publish_health
  <2> DEFINE k == <<Head(cursor), "health">>
             r == Observation(k, revisions.health + 1, Reading)
  <2>1. /\ Budget(1) /\ observe_evidence(r) /\ round' = Reading
        /\ UNCHANGED <<now, boot, synced, gap, pruned, held>>
        /\ revisions' = [revisions EXCEPT !.health = @ + 1]
        /\ cursor' = IF Len(cursor) = 1 THEN AllTargets ELSE Tail(cursor)
        /\ Count < Threshold + 1
    BY <1>1 DEF publish_health, Room
  <2>2. /\ cursor # <<>> /\ Tail(cursor) \in Seq(Targets) /\ k \in Keys
        /\ Reading \in Nat /\ Reading <= now /\ Reading <= now + Ahead
    BY <2>1, PublishReads, Zenon
  <2>3. revisions.health + 1 \in Nat
    BY <1>0
  <2>4. r \in Record /\ r.by = boot /\ r.at = Reading
    BY <2>2, <2>3, <1>0, Observed, SMT
  <2> HIDE DEF r, k
  <2>5. StoreInv'
    BY <2>1, <2>2, <2>4, <1>0, ObserveKeeps
  <2>6. cursor' \in Seq(Targets) /\ (Targets # {} => cursor' # <<>>)
    <3>1. Len(cursor) # 1 => Tail(cursor) # <<>>
      <4>1. cursor \in Seq(Targets)
        BY <1>0 DEF LoopInv
      <4>2. Len(cursor) \in Nat /\ Len(cursor) # 0
        BY <4>1, <2>2
      <4>3. Len(Tail(cursor)) = Len(cursor) - 1
        BY <4>1, <2>2
      <4>4. QED
        BY <4>2, <4>3
    <3>2. QED
      BY <3>1, <2>1, <2>2, AllTargetsType
  <2>7. revisions' \in [health : Nat, controller : Nat] /\ round' \in Nat /\ round' <= now'
    BY <2>1, <2>2, <1>0
  <2>8. QED
    BY <2>5, <2>6, <2>7 DEF EInv, LoopInv
<1>2. CASE compact
  <2>1. StoreInv'
    BY <1>2, <1>0, CompactKeeps
  <2>2. LoopInv'
    BY <1>2, <1>0 DEF compact, LoopInv
  <2>3. QED
    BY <2>1, <2>2 DEF EInv
<1>3. CASE restart
  <2>1. StoreInv'
    BY <1>3, <1>0, RestartKeeps
  <2>2. LoopInv'
    BY <1>3, <1>0, AllTargetsType DEF restart, LoopInv
  <2>3. QED
    BY <2>1, <2>2 DEF EInv
<1>4. CASE time
  <2>1. StoreInv'
    BY <1>4, <1>0, TimeKeeps
  <2>2. LoopInv'
    BY <1>4, <1>0 DEF time, LoopInv
  <2>3. QED
    BY <2>1, <2>2 DEF EInv
<1>5. ASSUME NEW x \in Authored, write_evidence(x) PROVE EInv'
  <2> DEFINE r == Observation(<<x, "controller">>, revisions.controller + 1, now)
  <2>1. /\ observe_evidence(r) /\ UNCHANGED <<now, boot, synced, gap, cursor, round, pruned, held>>
        /\ revisions' = [revisions EXCEPT !.controller = @ + 1] /\ Count < Threshold + 0
    BY <1>5 DEF write_evidence, Room
  <2>2. <<x, "controller">> \in Keys /\ revisions.controller + 1 \in Nat
    BY <1>0 DEF Keys
  <2>3. r \in Record /\ r.by = boot /\ r.at = now
    BY <2>2, <1>0, Observed, SMT
  <2> HIDE DEF r
  <2>4. now <= now + Ahead /\ Count < Threshold + 1
    <3>1. now \in Nat /\ Count \in Nat /\ Count < Threshold + 0
      BY <1>0, <2>1, Zenon
    <3>2. QED
      BY <3>1, Numbers
  <2>5. StoreInv'
    BY <2>1, <2>3, <2>4, <1>0, ObserveKeeps
  <2>6. LoopInv'
    BY <2>1, <1>0 DEF LoopInv
  <2>7. QED
    BY <2>5, <2>6 DEF EInv
<1>6. ASSUME NEW x \in Agents, agent_observe(x) PROVE EInv'
  <2>1. /\ UNCHANGED <<now, boot, synced, gap, revisions, cursor, round, pruned, held>>
        /\ Count < Threshold + 0
    BY <1>6 DEF agent_observe, Room
  <2>2. PICK rev \in 1 .. MaxRevision, at \in {now, now + Ahead} \cup {t \in {now - 1} : now > 0} :
            observe_evidence(Observation(<<x, "agent">>, rev, at))
    BY <1>6, Zenon DEF agent_observe
  <2>3. at \in Nat /\ at <= now + Ahead /\ rev \in Nat
    BY <2>2, <1>0, Numbers
  <2> DEFINE r == Observation(<<x, "agent">>, rev, at)
  <2>4. <<x, "agent">> \in Keys
    BY DEF Keys
  <2>5. r \in Record /\ r.by = boot /\ r.at = at
    BY <2>3, <2>4, <1>0, Observed, SMT
  <2>6. Count < Threshold + 1 /\ observe_evidence(r)
    BY <2>1, <2>2, <1>0, Numbers
  <2> HIDE DEF r
  <2>7. StoreInv'
    BY <2>1, <2>3, <2>5, <2>6, <1>0, ObserveKeeps
  <2>8. LoopInv'
    BY <2>1, <1>0, Zenon DEF LoopInv
  <2>9. QED
    BY <2>7, <2>8 DEF EInv
<1>7. CASE UNCHANGED vars
  <2>1. /\ UNCHANGED <<now, boot, records, journal, synced, gap, behind, seen, pruned, held>>
        /\ UNCHANGED <<revisions, cursor, round>>
    BY <1>7 DEF vars, file
  <2>2. Written' = Written /\ Count' = Count
    BY <2>1 DEF Written, Count
  <2>3. Unread' = Unread
    BY <2>1, <2>2, Zenon DEF Unread
  <2>4. QED
    BY <1>0, <2>1, <2>2, <2>3, Zenon DEF EInv, StoreInv, LoopInv, RestartKeepsEvidence
<1>8. QED
  BY <1>1, <1>2, <1>3, <1>4, <1>5, <1>6, <1>7, Zenon DEF Next

\* What counts as fresh has been seen by this incarnation, not too long ago.
LEMMA FreshFollows == EInv => FreshIsCurrent
<1> SUFFICES ASSUME EInv PROVE FreshIsCurrent
  OBVIOUS
<1>1. /\ now \in 0 .. MaxTime /\ boot \in 1 .. MaxBoot /\ Table(records) /\ Count <= Threshold + 1
      /\ synced \in 0 .. Len(journal) /\ seen \in [Keys -> [boot : Nat, at : Nat]]
  BY DEF EInv, StoreInv
<1>2. TypeOK
  BY <1>1, Zenon DEF TypeOK, Table
<1>3. ASSUME NEW x \in Targets, NEW s \in fresh_sources(records, x, now), records[<<x, s>>].volatile
      PROVE  seen[<<x, s>>].boot = boot /\ now - seen[<<x, s>>].at <= Ttl + Ahead
  <2> DEFINE k == <<x, s>>
  <2>1. PICK l \in Keys : l[1] = x /\ evaluate(records, l, now) = "fresh" /\ s = l[2]
    BY Zenon DEF fresh_sources
  <2>2. l = <<l[1], l[2]>>
    BY DEF Keys
  <2>3. l = k
    BY <2>1, <2>2
  <2> HIDE DEF k
  <2>4. /\ k \in DOMAIN records /\ ~foreign(records[k]) /\ ~(now > records[k].at + Ttl)
        /\ k \in Keys /\ records[k].volatile
    BY <2>1, <2>3, <1>3 DEF evaluate, k
  <2>5. records[k].by <= boot /\ records[k].by \in Nat /\ records[k].at \in Nat /\ seen[k].at \in Nat
    BY <2>4, <1>1 DEF EInv, StoreInv, Table, Record
  <2>6. records[k].by = boot
    BY <2>4, <2>5, <1>1 DEF foreign
  <2>7. seen[k].boot = boot /\ records[k].at <= seen[k].at + Ahead
    BY <2>4, <2>6, Zenon DEF EInv, StoreInv
  <2>8. now - seen[k].at <= Ttl + Ahead
    <3>1. ~(now > records[k].at + Ttl) /\ records[k].at \in Nat /\ seen[k].at \in Nat /\ now \in Nat
          /\ records[k].at <= seen[k].at + Ahead
      BY <2>4, <2>5, <2>7, <1>1
    <3>2. QED
      BY <3>1, Numbers
  <2>9. QED
    BY <2>7, <2>8 DEF k
<1>4. QED
  BY <1>2, <1>3, Zenon DEF FreshIsCurrent

\* An observation leaves the store only expired, by the clock of the observer that
\* takes its place, and gives way only to a later revision.
LEMMA KeptStep ==
    ASSUME EInv, [Next]_vars, boot' = boot, NEW k \in DOMAIN records
    PROVE  IF k \in DOMAIN records' THEN records'[k] = records[k] \/ records'[k].rev > records[k].rev
           ELSE records[k].at + Ttl <= now + Ahead
<1>0. /\ StoreInv /\ LoopInv /\ Table(records) /\ now \in Nat /\ boot \in Nat
      /\ revisions \in [health : Nat, controller : Nat]
  BY DEF EInv, StoreInv, LoopInv
<1>1. ASSUME NEW r \in Record, observe_evidence(r), r.at <= now + Ahead
      PROVE  IF k \in DOMAIN records' THEN records'[k] = records[k] \/ records'[k].rev > records[k].rev
             ELSE records[k].at + Ttl <= now + Ahead
  <2>1. CASE ~Accepts(records, r)
    BY <1>1, <2>1 DEF observe_evidence
  <2>2. CASE Accepts(records, r)
    <3>1. records' = observe(records, r)
      BY <1>1, <2>2 DEF observe_evidence
    <3>2. /\ records'[r.key] = r
          /\ \A l \in DOMAIN records' : l # r.key => records'[l] = records[l]
          /\ k \notin DOMAIN records' => records[k].at + Ttl <= r.at
      BY <3>1, <2>2, <1>0, ObserveChanges, SMT
    <3>3. CASE k \in DOMAIN records' /\ k # r.key
      BY <3>2, <3>3, Zenon
    <3>4. CASE k \in DOMAIN records' /\ k = r.key
      <4>1. r.rev > records[k].rev
        BY <2>2, <3>4, Zenon DEF Accepts, Known
      <4>2. QED
        BY <4>1, <3>2, <3>4, Zenon
    <3>5. CASE k \notin DOMAIN records'
      <4>1. records[k].at \in Nat /\ r.at \in Nat
        BY <1>0, <1>1 DEF Table, Record
      <4>2. QED
        BY <4>1, <3>2, <3>5, <1>1, <1>0, Numbers
    <3>6. QED
      BY <3>3, <3>4, <3>5, Zenon
  <2>3. QED
    BY <2>1, <2>2
<1>2. CASE publish_health
  <2> DEFINE r == Observation(<<Head(cursor), "health">>, revisions.health + 1, Reading)
  <2>1. Budget(1) /\ observe_evidence(r)
    BY <1>2 DEF publish_health
  <2>2. <<Head(cursor), "health">> \in Keys /\ Reading \in Nat /\ Reading <= now + Ahead
    BY <2>1, PublishReads, Zenon
  <2>3. revisions.health + 1 \in Nat
    BY <1>0
  <2>4. r \in Record /\ r.at = Reading
    BY <2>2, <2>3, <1>0, Observed, SMT
  <2> HIDE DEF r
  <2>5. QED
    BY <2>1, <2>2, <2>4, <1>1
<1>3. CASE compact \/ time \/ UNCHANGED vars
  BY <1>3 DEF compact, time, vars
<1>4. CASE restart
  BY <1>4, <1>0 DEF restart
<1>5. ASSUME NEW x \in Authored, write_evidence(x)
      PROVE  IF k \in DOMAIN records' THEN records'[k] = records[k] \/ records'[k].rev > records[k].rev
             ELSE records[k].at + Ttl <= now + Ahead
  <2> DEFINE r == Observation(<<x, "controller">>, revisions.controller + 1, now)
  <2>1. observe_evidence(r)
    BY <1>5 DEF write_evidence
  <2>2. <<x, "controller">> \in Keys /\ revisions.controller + 1 \in Nat /\ now <= now + Ahead
    BY <1>0, Numbers DEF Keys
  <2>3. r \in Record /\ r.at = now
    BY <2>2, <1>0, Observed, SMT
  <2> HIDE DEF r
  <2>4. QED
    BY <2>1, <2>2, <2>3, <1>1
<1>6. ASSUME NEW x \in Agents, agent_observe(x)
      PROVE  IF k \in DOMAIN records' THEN records'[k] = records[k] \/ records'[k].rev > records[k].rev
             ELSE records[k].at + Ttl <= now + Ahead
  <2>1. PICK rev \in 1 .. MaxRevision, at \in {now, now + Ahead} \cup {t \in {now - 1} : now > 0} :
            observe_evidence(Observation(<<x, "agent">>, rev, at))
    BY <1>6, Zenon DEF agent_observe
  <2>2. at \in Nat /\ at <= now + Ahead /\ rev \in Nat
    BY <2>1, <1>0, Numbers
  <2> DEFINE r == Observation(<<x, "agent">>, rev, at)
  <2>3. <<x, "agent">> \in Keys
    BY DEF Keys
  <2>4. r \in Record /\ r.at = at
    BY <2>2, <2>3, <1>0, Observed, SMT
  <2>5. observe_evidence(r)
    BY <2>1
  <2> HIDE DEF r
  <2>6. QED
    BY <2>2, <2>4, <2>5, <1>1
<1>7. QED
  BY <1>2, <1>3, <1>4, <1>5, <1>6, Zenon DEF Next
-----------------------------------------------------------------------------
(* Theorems.                                                               *)

\* The invariant holds in every behaviour.
LEMMA EvidenceInvariant == Spec => []EInv
<1>1. QED
  BY EvidenceInit, EvidenceStep, PTL DEF Spec

\* EvidenceStore::evaluate after a replay: evidence of a live resource that counts
\* as fresh was accepted by the running incarnation, within its time to live and
\* the error of the observer's clock, and the store stays within its capacity.
THEOREM FreshSafe == Spec => []FreshIsCurrent
<1>1. QED
  BY EvidenceInvariant, FreshFollows, PTL

\* EvidenceStore::observe: a running controller loses an observation only expired,
\* and replaces it only by a later revision.
THEOREM ValidKept == Spec => KeptWhileValid
<1>1. EInv /\ [Next]_vars =>
        [boot' = boot =>
            \A k \in DOMAIN records :
                IF k \in DOMAIN records' THEN records'[k] = records[k] \/ records'[k].rev > records[k].rev
                ELSE records[k].at + Ttl <= now + Ahead]_vars
  BY KeptStep, Zenon
<1>2. QED
  BY EvidenceInvariant, <1>1, PTL DEF Spec, KeptWhileValid

\* Store::apply repeats every decision of Store::observe_evidence, evictions
\* included: what can be read of the journal gives exactly what is held, or what the
\* compaction that left the gap wrote, unless one has left out expired records.
THEOREM ReplayFaithful == Spec => []RestartKeepsEvidence
<1>1. EInv => RestartKeepsEvidence
  BY DEF EInv, StoreInv
<1>2. QED
  BY EvidenceInvariant, <1>1, PTL
==============================================================================
