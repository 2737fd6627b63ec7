----------------------------- MODULE StoreProofs -----------------------------
(***************************************************************************)
(* Theorems about the persistent store, for any rows, bounds and faults,   *)
(* and any number of crashes: what was acknowledged survives, the tables   *)
(* and the journal agree, recovery invents nothing and no boot epoch is    *)
(* used twice, each up to the faults its statement names.                  *)
(*                                                                         *)
(* The argument is about what replay would find in every file that may     *)
(* survive a crash now.                                                    *)
(***************************************************************************)
EXTENDS Store, FiniteSetTheorems, WellFoundedInduction, TLAPS

Rows == UNION {[S -> Version] : S \in SUBSET Keys}
FrameRecord == [seq : Nat, whole : BOOLEAN, rows : Rows]

Types ==
    /\ proc \in {"down", "replayed", "up", "wedged"}
    /\ file \in Seq(FrameRecord) /\ synced \in 0 .. Len(file)
    /\ nextSeq \in Nat \ {0} /\ records \in Nat
    /\ mem \in [Keys -> Version] /\ acked \in [HardKeys -> Version]
    /\ claimed \in Version /\ met \subseteq Faults

\* How many frames replay accepts when n of them survive.
Kept(f, n) == IF n <= Replayable(f) THEN n ELSE Replayable(f)

\* The next frame is one replay will accept.
InStep == Replayable(file) = Len(file) /\ nextSeq = Len(file) + 1

\* Near, with the faults met so far as a parameter.
Less(faults, image, p) ==
    \A k \in Keys : image[k] = p[k] \/ ("compact" \in faults /\ k \in Volatile /\ image[k] = 0)

\* After a replay, and until a flush fails, the tables are those of the journal
\* for as long as the journal is in step, but for what a compaction has left out.
Matching ==
    /\ proc = "replayed" => InStep
    /\ proc # "down" /\ InStep /\ (met \cap {"fflush", "fsync"} = {} \/ proc = "replayed") =>
          Less(met, Image(file, Len(file)), mem)

\* Only a compaction, a short write or a failed fflush gets the journal out of step.
Numbered ==
    met \cap {"compact", "torn", "fflush"} = {} =>
        Replayable(file) = Len(file) /\ (proc # "down" => nextSeq = Len(file) + 1)

\* What survives a crash is an image that was exposed, but for what a compaction has
\* left out.
Exposed ==
    /\ met \cap {"fflush", "fsync"} = {} =>
          \A n \in synced .. Len(file) : \E p \in past : Less(met, Image(file, Kept(file, n)), p)
    /\ proc # "down" => mem \in past

\* The journal and the tables are not behind the last epoch.
Epochs ==
    /\ \A n \in synced .. Len(file) : Image(file, Kept(file, n))[BootKey] >= claimed
    /\ proc # "down" => mem[BootKey] >= claimed

\* Neither are they behind what was acknowledged.  The journal may be ahead of the
\* tables, by rows whose fsync failed.
Durable ==
    met \cap {"compact", "torn", "fflush"} = {} =>
        \A k \in HardKeys :
            /\ \A n \in synced .. Len(file) : Image(file, n)[k] >= acked[k]
            /\ proc # "down" => mem[k] >= acked[k] /\ Image(file, Len(file))[k] >= mem[k]

StoreInv == Types /\ Matching /\ Numbered /\ Exposed /\ Epochs /\ Durable
-----------------------------------------------------------------------------
(* Replay.                                                                 *)

\* A set of naturals that is not empty has a least element.
LEMMA LeastNat ==
    ASSUME NEW T, T \subseteq Nat, T # {}
    PROVE  \E x \in T : \A y \in T : x <= y
<1>1. PICK x \in T : \A y \in T : <<y, x>> \notin OpToRel(<, Nat)
  BY NatLessThanWellFounded, WFMin, Zenon
<1>2. x \in T /\ \A y \in T : ~(y < x)
  BY <1>1, Zenon DEF OpToRel
<1>3. QED
  BY <1>2

\* A bounded set of naturals that is not empty has a greatest element.
LEMMA GreatestNat ==
    ASSUME NEW m \in Nat, NEW T, T \subseteq 0 .. m, T # {}
    PROVE  \E x \in T : \A y \in T : y <= x
<1> DEFINE U == {m - y : y \in T}
<1>1. U \subseteq Nat /\ U # {}
  <2>1. \A y \in T : m - y \in Nat
    OBVIOUS
  <2>2. QED
    BY <2>1, Zenon
<1>2. PICK u \in U : \A v \in U : u <= v
  <2> HIDE DEF U
  <2>1. QED
    BY <1>1, LeastNat, Zenon
<1>3. PICK x \in T : u = m - x
  BY <1>2
<1>4. \A y \in T : m - x <= m - y
  BY <1>2, <1>3, Zenon
<1>5. QED
  BY <1>4

\* The frames replay accepts: all are complete and in order, and the one after
\* them is not.
LEMMA ReplayableEnds ==
    ASSUME NEW f \in Seq(FrameRecord)
    PROVE  /\ Replayable(f) \in 0 .. Len(f)
           /\ \A i \in 1 .. Replayable(f) : f[i].whole /\ f[i].seq = i
           /\ Replayable(f) < Len(f) =>
                 ~(f[Replayable(f) + 1].whole /\ f[Replayable(f) + 1].seq = Replayable(f) + 1)
<1> DEFINE r == Replayable(f)
<1>1. Len(f) \in Nat
  OBVIOUS
<1>2. 0 \in Accepted(f) /\ Accepted(f) \subseteq 0 .. Len(f)
  BY <1>1 DEF Accepted
<1>3. \E x \in Accepted(f) : \A y \in Accepted(f) : y <= x
  BY <1>1, <1>2, GreatestNat
<1>4. r \in Accepted(f) /\ \A y \in Accepted(f) : y <= r
  BY <1>3 DEF Replayable
<1> HIDE DEF r
<1>5. r \in 0 .. Len(f) /\ \A i \in 1 .. r : f[i].whole /\ f[i].seq = i
  BY <1>4 DEF Accepted
<1>6. ASSUME r < Len(f), f[r + 1].whole /\ f[r + 1].seq = r + 1 PROVE FALSE
  <2>1. r + 1 \in 0 .. Len(f) /\ \A i \in 1 .. r + 1 : i \in 1 .. r \/ i = r + 1
    BY <1>1, <1>5, <1>6
  <2>2. r + 1 \in Accepted(f)
    BY <1>5, <1>6, <2>1 DEF Accepted
  <2>3. QED
    BY <1>4, <1>5, <2>2
<1>7. QED
  BY <1>5, <1>6 DEF r

LEMMA ReplayableIs ==
    ASSUME NEW f \in Seq(FrameRecord), NEW n \in 0 .. Len(f),
           \A i \in 1 .. n : f[i].whole /\ f[i].seq = i,
           n < Len(f) => ~(f[n + 1].whole /\ f[n + 1].seq = n + 1)
    PROVE  Replayable(f) = n
<1> DEFINE r == Replayable(f)
<1>1. /\ r \in 0 .. Len(f) /\ Len(f) \in Nat
      /\ \A i \in 1 .. r : f[i].whole /\ f[i].seq = i
      /\ r < Len(f) => ~(f[r + 1].whole /\ f[r + 1].seq = r + 1)
  BY ReplayableEnds
<1> HIDE DEF r
<1>2. ~(r < n)
  BY <1>1
<1>3. ~(n < r)
  BY <1>1
<1>4. QED
  BY <1>1, <1>2, <1>3 DEF r

\* What the first n frames make of the tables depends on those frames only.
LEMMA ImageSame ==
    ASSUME NEW f, NEW g, NEW n \in Nat, \A i \in 1 .. n : f[i] = g[i]
    PROVE  Image(f, n) = Image(g, n)
<1>1. \A k : Writers(f, n, k) = Writers(g, n, k)
  BY DEF Writers
<1>2. \A k : Writers(f, n, k) \subseteq 1 .. n
  BY DEF Writers
<1>3. ASSUME NEW k \in Keys PROVE Image(f, n)[k] = Image(g, n)[k]
  <2> DEFINE W == Writers(f, n, k)
             i == CHOOSE x \in W : \A m \in W : m <= x
  <2>1. W \subseteq 1 .. n /\ W = Writers(g, n, k)
    BY <1>1, <1>2
  <2>2. Image(f, n)[k] = IF W = {} THEN 0 ELSE f[i].rows[k]
    BY <1>3 DEF Image
  <2>3. Image(g, n)[k] = IF W = {} THEN 0 ELSE g[i].rows[k]
    BY <1>3, <2>1 DEF Image
  <2>4. W # {} => i \in W
    <3> HIDE DEF W
    <3>1. SUFFICES ASSUME W # {} PROVE \E x \in W : \A m \in W : m <= x
      OBVIOUS
    <3>2. W \subseteq 0 .. n
      BY <2>1
    <3>3. QED
      BY <3>1, <3>2, GreatestNat, Zenon
  <2>5. W # {} => f[i] = g[i]
    <3> HIDE DEF W, i
    <3>1. QED
      BY <2>1, <2>4
  <2>6. QED
    BY <2>2, <2>3, <2>5
<1>4. QED
  BY <1>3, Zenon DEF Image

\* A frame more.
LEMMA FrameAdded ==
    ASSUME NEW f \in Seq(FrameRecord), NEW x \in FrameRecord
    PROVE  LET g == Append(f, x)
               l == Len(f) + 1
           IN  /\ g \in Seq(FrameRecord) /\ Len(g) = l
               /\ \A n \in 0 .. Len(f) : Image(g, n) = Image(f, n) /\ Kept(g, n) = Kept(f, n)
               /\ Replayable(g) = IF Replayable(f) = Len(f) /\ x.whole /\ x.seq = l
                                  THEN l ELSE Replayable(f)
               /\ \A k \in Keys :
                     Image(g, l)[k] = IF k \in DOMAIN x.rows THEN x.rows[k] ELSE Image(f, Len(f))[k]
<1> DEFINE g == Append(f, x)
           l == Len(f) + 1
           r == Replayable(f)
<1>1. /\ g \in Seq(FrameRecord) /\ Len(f) \in Nat /\ l \in Nat /\ Len(g) = l /\ g[l] = x
      /\ \A i \in 1 .. Len(f) : g[i] = f[i]
  OBVIOUS
<1>2. /\ r \in 0 .. Len(f) /\ \A i \in 1 .. r : f[i].whole /\ f[i].seq = i
      /\ r < Len(f) => ~(f[r + 1].whole /\ f[r + 1].seq = r + 1)
  BY ReplayableEnds
<1> HIDE DEF g, r
<1>3. \A n \in 0 .. Len(f) : Image(g, n) = Image(f, n)
  <2> SUFFICES ASSUME NEW n \in 0 .. Len(f) PROVE Image(g, n) = Image(f, n)
    OBVIOUS
  <2>1. n \in Nat /\ \A i \in 1 .. n : g[i] = f[i]
    BY <1>1
  <2>2. QED
    BY <2>1, ImageSame
<1>4. Replayable(g) = IF r = Len(f) /\ x.whole /\ x.seq = l THEN l ELSE r
  <2>1. CASE r = Len(f) /\ x.whole /\ x.seq = l
    <3>1. \A i \in 1 .. l : i \in 1 .. r \/ i = l
      BY <1>1, <2>1
    <3>2. \A i \in 1 .. l : g[i].whole /\ g[i].seq = i
      BY <1>1, <1>2, <2>1, <3>1
    <3>3. l \in 0 .. Len(g) /\ ~(l < Len(g))
      BY <1>1
    <3>4. QED
      BY <1>1, <2>1, <3>2, <3>3, ReplayableIs
  <2>2. CASE ~(r = Len(f) /\ x.whole /\ x.seq = l)
    <3>1. \A i \in 1 .. r : g[i].whole /\ g[i].seq = i
      BY <1>1, <1>2
    <3>2. r \in 0 .. Len(g) /\ ~(g[r + 1].whole /\ g[r + 1].seq = r + 1)
      <4>1. CASE r = Len(f)
        BY <1>1, <1>2, <2>2, <4>1
      <4>2. CASE r < Len(f)
        <5>1. r + 1 \in 1 .. Len(f)
          BY <1>1, <1>2, <4>2
        <5>2. QED
          BY <1>1, <1>2, <4>2, <5>1
      <4>3. QED
        BY <1>1, <1>2, <4>1, <4>2
    <3>3. QED
      BY <1>1, <2>2, <3>1, <3>2, ReplayableIs
  <2>3. QED
    BY <2>1, <2>2
<1>5. \A n \in 0 .. Len(f) : Kept(g, n) = Kept(f, n)
  BY <1>1, <1>2, <1>4 DEF Kept, r
<1>6. ASSUME NEW k \in Keys
      PROVE  Image(g, l)[k] = IF k \in DOMAIN x.rows THEN x.rows[k] ELSE Image(f, Len(f))[k]
  <2> DEFINE W == Writers(g, l, k)
             V == Writers(f, Len(f), k)
             w == CHOOSE i \in W : \A m \in W : m <= i
             v == CHOOSE i \in V : \A m \in V : m <= i
  <2>1. /\ Image(g, l)[k] = IF W = {} THEN 0 ELSE g[w].rows[k]
        /\ Image(f, Len(f))[k] = IF V = {} THEN 0 ELSE f[v].rows[k]
    BY <1>6 DEF Image
  <2>2. /\ \A i \in 1 .. l : i \in 1 .. Len(f) \/ i = l
        /\ \A i \in 1 .. Len(f) : i \in 1 .. l /\ i # l
        /\ l \in 1 .. l
    BY <1>1
  <2>3. V \subseteq 1 .. Len(f) /\ W = V \cup (IF k \in DOMAIN x.rows THEN {l} ELSE {})
    BY <1>1, <2>2 DEF Writers
  <2> HIDE DEF W, V
  <2>4. CASE k \in DOMAIN x.rows
    <3>1. l \in W /\ \A m \in W : m <= l
      BY <1>1, <2>3, <2>4
    <3>2. \A i \in W : (\A m \in W : m <= i) => i = l
      BY <1>1, <2>3, <2>4, <3>1
    <3>3. w = l
      BY <3>1, <3>2
    <3>4. QED
      BY <1>1, <2>1, <2>4, <3>1, <3>3, Zenon
  <2>5. CASE k \notin DOMAIN x.rows
    <3>1. W = V /\ w = v
      BY <2>3, <2>5
    <3>2. V # {} => v \in V
      <4>1. SUFFICES ASSUME V # {} PROVE \E i \in V : \A m \in V : m <= i
        OBVIOUS
      <4>2. V \subseteq 0 .. Len(f)
        BY <1>1, <2>3
      <4>3. QED
        BY <1>1, <4>1, <4>2, GreatestNat, Zenon
    <3> HIDE DEF w, v
    <3>3. V # {} => g[v] = f[v]
      BY <1>1, <2>3, <3>2, Zenon
    <3>4. QED
      BY <2>1, <2>5, <3>1, <3>3
  <2>6. QED
    BY <2>4, <2>5
<1>7. QED
  BY <1>1, <1>3, <1>4, <1>5, <1>6 DEF g, r

\* Only the first n frames are left.
LEMMA FramesCut ==
    ASSUME NEW f \in Seq(FrameRecord), NEW n \in 0 .. Len(f)
    PROVE  LET g == SubSeq(f, 1, n)
           IN  /\ g \in Seq(FrameRecord) /\ Len(g) = n
               /\ Replayable(g) = Kept(f, n)
               /\ \A m \in 0 .. n : Image(g, m) = Image(f, m) /\ Kept(g, m) = Kept(f, m)
<1> DEFINE g == SubSeq(f, 1, n)
           r == Replayable(f)
           s == Kept(f, n)
<1>1. Len(f) \in Nat /\ n \in Nat /\ n <= Len(f)
  OBVIOUS
<1>2. g \in Seq(FrameRecord) /\ Len(g) = n /\ \A i \in 1 .. n : g[i] = f[i]
  BY <1>1
<1>3. /\ r \in 0 .. Len(f) /\ \A i \in 1 .. r : f[i].whole /\ f[i].seq = i
      /\ r < Len(f) => ~(f[r + 1].whole /\ f[r + 1].seq = r + 1)
  BY ReplayableEnds
<1>4. s = IF n <= r THEN n ELSE r
  BY DEF Kept
<1> HIDE DEF g, r, s
<1>5. \A m \in 0 .. n : Image(g, m) = Image(f, m)
  <2> SUFFICES ASSUME NEW m \in 0 .. n PROVE Image(g, m) = Image(f, m)
    OBVIOUS
  <2>1. m \in Nat /\ \A i \in 1 .. m : g[i] = f[i]
    BY <1>1, <1>2
  <2>2. QED
    BY <2>1, ImageSame
<1>6. Replayable(g) = s
  <2>1. s \in 0 .. Len(g) /\ \A i \in 1 .. s : i \in 1 .. n /\ i \in 1 .. r
    BY <1>1, <1>2, <1>3, <1>4
  <2>2. \A i \in 1 .. s : g[i].whole /\ g[i].seq = i
    BY <1>2, <1>3, <2>1, Zenon
  <2>3. s < Len(g) => s = r /\ r < Len(f) /\ s + 1 \in 1 .. n
    BY <1>1, <1>2, <1>3, <1>4
  <2>4. s < Len(g) => ~(g[s + 1].whole /\ g[s + 1].seq = s + 1)
    BY <1>2, <1>3, <2>3
  <2>5. QED
    BY <1>2, <2>1, <2>2, <2>4, ReplayableIs
<1>7. \A m \in 0 .. n : Kept(g, m) = Kept(f, m)
  BY <1>1, <1>3, <1>4, <1>6 DEF Kept, r
<1>8. QED
  BY <1>2, <1>5, <1>6, <1>7 DEF g, s

\* What replay finds of a file that was cut.
LEMMA RecoveredCut ==
    ASSUME NEW f \in Seq(FrameRecord), NEW n \in 0 .. Len(f)
    PROVE  Recovered(SubSeq(f, 1, n)) = Image(f, Kept(f, n))
<1>1. Kept(f, n) \in 0 .. n
  BY ReplayableEnds DEF Kept
<1>2. QED
  BY <1>1, FramesCut DEF Recovered
-----------------------------------------------------------------------------
(* Tables.                                                                 *)

LEMMA KeysDistinct ==
    /\ BootKey \in Keys /\ HardKeys \subseteq Keys /\ SoftKeys \subseteq Keys /\ IsFiniteSet(Keys)
    /\ BootKey \notin HardKeys /\ BootKey \notin SoftKeys /\ HardKeys \cap SoftKeys = {}
    /\ MaxVersion \in Nat /\ Version = 0 .. MaxVersion
<1>1. IsFiniteSet((HardKeys \cup SoftKeys) \cup {BootKey})
  BY StoreAssumption, FS_AddElement
<1>2. QED
  BY <1>1, StoreAssumption DEF Keys, Version

LEMMA RowsOf ==
    ASSUME NEW S, S \subseteq Keys, NEW r \in [S -> Version]
    PROVE  r \in Rows /\ DOMAIN r = S
BY DEF Rows

LEMMA RowsType ==
    ASSUME NEW r \in Rows
    PROVE  DOMAIN r \subseteq Keys /\ \A k \in DOMAIN r : r[k] \in Version
BY DEF Rows

\* The rows a call writes.
LEMMA BumpRows ==
    ASSUME mem \in [Keys -> Version], NEW ks, ks \subseteq Keys, \A k \in ks : mem[k] < MaxVersion
    PROVE  /\ Bump(ks) \in Rows /\ DOMAIN Bump(ks) = ks /\ \A k \in ks : Bump(ks)[k] = mem[k] + 1
<1>1. \A k \in ks : mem[k] + 1 \in Version
  BY KeysDistinct
<1>2. Bump(ks) \in [ks -> Version] /\ \A k \in ks : Bump(ks)[k] = mem[k] + 1
  BY <1>1 DEF Bump
<1>3. QED
  BY <1>2, RowsOf

LEMMA RowRows ==
    ASSUME NEW k \in Keys, NEW v \in Version
    PROVE  Row(k, v) \in Rows /\ DOMAIN Row(k, v) = {k} /\ Row(k, v)[k] = v
<1>1. Row(k, v) \in [{k} -> Version] /\ Row(k, v)[k] = v
  BY DEF Row
<1>2. QED
  BY <1>1, RowsOf

LEMMA UpdatedType ==
    ASSUME mem \in [Keys -> Version], NEW r \in Rows
    PROVE  /\ Updated(r) \in [Keys -> Version]
           /\ \A k \in Keys : Updated(r)[k] = IF k \in DOMAIN r THEN r[k] ELSE mem[k]
BY RowsType DEF Updated

LEMMA ImageType ==
    ASSUME NEW f \in Seq(FrameRecord), NEW n \in 0 .. Len(f)
    PROVE  Image(f, n) \in [Keys -> Version]
<1> SUFFICES ASSUME NEW k \in Keys PROVE Image(f, n)[k] \in Version
  BY DEF Image
<1> DEFINE W == Writers(f, n, k)
           i == CHOOSE x \in W : \A m \in W : m <= x
<1>1. Image(f, n)[k] = IF W = {} THEN 0 ELSE f[i].rows[k]
  BY DEF Image
<1>2. n \in Nat /\ n <= Len(f) /\ Len(f) \in Nat
  OBVIOUS
<1>3. W \subseteq 1 .. n /\ \A j \in W : k \in DOMAIN f[j].rows
  BY DEF Writers
<1> HIDE DEF W
<1>4. CASE W # {}
  <2>1. W \subseteq 0 .. n
    BY <1>2, <1>3
  <2>2. \E x \in W : \A m \in W : m <= x
    BY <1>2, <1>4, <2>1, GreatestNat, Zenon
  <2>3. i \in W
    BY <2>2
  <2> HIDE DEF i
  <2>4. i \in 1 .. Len(f) /\ k \in DOMAIN f[i].rows
    BY <1>2, <1>3, <2>3
  <2>5. f[i] \in FrameRecord
    BY <2>4
  <2>6. f[i].rows \in Rows
    BY <2>5 DEF FrameRecord
  <2>7. QED
    BY <1>1, <1>4, <2>4, <2>6, RowsType
<1>5. QED
  BY <1>1, <1>4, KeysDistinct

\* The compacted journal is the tables, less the rows left out.
LEMMA SnapshotIs ==
    ASSUME mem \in [Keys -> Version], NEW ks, ks \subseteq Keys
    PROVE  LET g == SnapshotOf(ks)
           IN  /\ g \in Seq(FrameRecord) /\ Replayable(g) = Len(g)
               /\ \A k \in Keys : Image(g, Len(g))[k] = IF k \in ks THEN mem[k] ELSE 0
<1> DEFINE held == {k \in ks : mem[k] # 0}
           n == Cardinality(held)
           rows == Listing(held)
           g == SnapshotOf(ks)
<1>1. IsFiniteSet(held)
  <2>1. held \subseteq Keys
    OBVIOUS
  <2>2. QED
    BY <2>1, KeysDistinct, FS_Subset
<1>2. n \in Nat /\ ExistsBijection(1 .. n, held)
  BY <1>1, FS_CardinalityType
<1>3. rows \in Bijection(1 .. n, held)
  BY <1>2, Zenon DEF Listing, ExistsBijection
<1>4. /\ rows \in [1 .. n -> held] /\ (\A i, j \in 1 .. n : rows[i] = rows[j] => i = j)
      /\ \A k \in held : \E i \in 1 .. n : rows[i] = k
  BY <1>3, Zenon DEF Bijection, Injection, Surjection, IsInjective
<1>5. g = [i \in 1 .. n |-> Frame(i, TRUE, Row(rows[i], mem[rows[i]]))]
  BY DEF SnapshotOf
<1> HIDE DEF n, rows, g
<1>6. \A i \in 1 .. n : /\ g[i] \in FrameRecord /\ g[i].whole /\ g[i].seq = i
                        /\ DOMAIN g[i].rows = {rows[i]} /\ g[i].rows[rows[i]] = mem[rows[i]]
  <2> SUFFICES ASSUME NEW i \in 1 .. n
               PROVE  /\ g[i] \in FrameRecord /\ g[i].whole /\ g[i].seq = i
                      /\ DOMAIN g[i].rows = {rows[i]} /\ g[i].rows[rows[i]] = mem[rows[i]]
    OBVIOUS
  <2>1. rows[i] \in Keys /\ mem[rows[i]] \in Version
    BY <1>4
  <2>2. PICK q \in Rows : q = Row(rows[i], mem[rows[i]])
    BY <2>1, RowRows, Zenon
  <2>3. DOMAIN q = {rows[i]} /\ q[rows[i]] = mem[rows[i]]
    BY <2>1, <2>2, RowRows, Zenon
  <2>4. g[i] = [seq |-> i, whole |-> TRUE, rows |-> q]
    BY <1>5, <2>2 DEF Frame
  <2>5. i \in Nat
    BY <1>2
  <2>6. QED
    BY <2>3, <2>4, <2>5 DEF FrameRecord
<1>7. g \in Seq(FrameRecord) /\ Len(g) = n
  <2>1. g \in [1 .. n -> FrameRecord]
    BY <1>5, <1>6, Zenon
  <2>2. QED
    BY <1>2, <2>1
<1>8. Replayable(g) = n
  <2>1. n \in 0 .. Len(g) /\ ~(n < Len(g))
    BY <1>2, <1>7
  <2>2. QED
    BY <1>6, <1>7, <2>1, ReplayableIs
<1>9. ASSUME NEW k \in Keys PROVE Image(g, n)[k] = IF k \in ks THEN mem[k] ELSE 0
  <2> DEFINE W == Writers(g, n, k)
             w == CHOOSE x \in W : \A m \in W : m <= x
  <2>1. Image(g, n)[k] = IF W = {} THEN 0 ELSE g[w].rows[k]
    BY <1>9 DEF Image
  <2>2. W = {i \in 1 .. n : rows[i] = k}
    BY <1>6 DEF Writers
  <2> HIDE DEF W
  <2>3. CASE k \notin ks \/ mem[k] = 0
    <3>1. W = {}
      BY <1>4, <2>2, <2>3
    <3>2. QED
      BY <2>1, <2>3, <3>1
  <2>4. CASE k \in ks /\ mem[k] # 0
    <3>1. PICK i \in 1 .. n : rows[i] = k
      BY <1>4, <1>9, <2>4
    <3>2. W = {i}
      BY <1>4, <2>2, <3>1
    <3>3. w = i
      BY <1>2, <3>1, <3>2
    <3>4. QED
      BY <1>6, <2>1, <2>4, <3>1, <3>2, <3>3
  <2>5. QED
    BY <2>3, <2>4
<1>10. QED
  BY <1>7, <1>8, <1>9 DEF g

\* An image that was exposed, less evidence left out, stays one.
LEMMA LessKept ==
    ASSUME NEW i, NEW p, NEW before, NEW after, Less(before, i, p), before \subseteq after
    PROVE  Less(after, i, p)
<1>1. "compact" \in before => "compact" \in after
  OBVIOUS
<1>2. QED
  BY <1>1, Zenon DEF Less

LEMMA LessSame ==
    ASSUME NEW p, NEW faults
    PROVE  Less(faults, p, p)
BY Zenon DEF Less
-----------------------------------------------------------------------------
(* The steps.                                                              *)

\* What an append does to the journal, whether it is in step or not.
Wrote(rows, flushed) ==
    /\ file' \in Seq(FrameRecord) /\ Len(file') = Len(file) + 1 /\ nextSeq' = nextSeq + 1
    /\ synced' = (IF flushed THEN Len(file) + 1 ELSE synced) /\ records' = records + 1
    /\ \A n \in 0 .. Len(file) : Image(file', n) = Image(file, n) /\ Kept(file', n) = Kept(file, n)
    /\ \A k \in Keys : Image(file', Len(file) + 1)[k] =
                          IF k \in DOMAIN rows THEN rows[k] ELSE Image(file, Len(file))[k]
    /\ InStep' <=> InStep
    /\ Kept(file', Len(file) + 1) = IF InStep THEN Len(file) + 1 ELSE Kept(file, Len(file))
    /\ Kept(file, Len(file)) \in 0 .. Len(file) /\ (InStep => Kept(file, Len(file)) = Len(file))

LEMMA WriteWrote ==
    ASSUME Types, NEW rows \in Rows, NEW flushed \in BOOLEAN, write_frame(rows, flushed)
    PROVE  Wrote(rows, flushed)
<1> DEFINE x == Frame(nextSeq, TRUE, rows)
<1>1. x \in FrameRecord /\ x.seq = nextSeq /\ x.whole /\ x.rows = rows
  BY DEF Types, Frame, FrameRecord
<1>2. file' = Append(file, x) /\ nextSeq' = nextSeq + 1
      /\ synced' = (IF flushed THEN Len(file) + 1 ELSE synced) /\ records' = records + 1
  BY DEF write_frame
<1>3. file \in Seq(FrameRecord) /\ Len(file) \in Nat /\ nextSeq \in Nat
  BY DEF Types
<1> HIDE DEF x
<1>4. /\ file' \in Seq(FrameRecord) /\ Len(file') = Len(file) + 1
      /\ \A n \in 0 .. Len(file) : Image(file', n) = Image(file, n) /\ Kept(file', n) = Kept(file, n)
      /\ Replayable(file') = IF Replayable(file) = Len(file) /\ x.whole /\ x.seq = Len(file) + 1
                             THEN Len(file) + 1 ELSE Replayable(file)
      /\ \A k \in Keys : Image(file', Len(file) + 1)[k] =
                            IF k \in DOMAIN x.rows THEN x.rows[k] ELSE Image(file, Len(file))[k]
  BY <1>1, <1>2, <1>3, FrameAdded
<1>5. Replayable(file) \in 0 .. Len(file)
  BY <1>3, ReplayableEnds
<1>6. Replayable(file') = IF InStep THEN Len(file) + 1 ELSE Replayable(file)
  BY <1>1, <1>4 DEF InStep
<1>7. InStep' <=> InStep
  <2>1. InStep' <=> Replayable(file') = Len(file) + 1 /\ nextSeq + 1 = Len(file) + 2
    BY <1>2, <1>3, <1>4 DEF InStep
  <2>2. QED
    BY <1>3, <1>5, <1>6, <2>1 DEF InStep
<1>8. /\ Kept(file', Len(file) + 1) = IF InStep THEN Len(file) + 1 ELSE Kept(file, Len(file))
      /\ Kept(file, Len(file)) = Replayable(file)
  <2>1. Kept(file, Len(file)) = Replayable(file)
    BY <1>3, <1>5 DEF Kept
  <2>2. QED
    BY <1>3, <1>5, <1>6, <2>1 DEF Kept
<1>9. InStep => Kept(file, Len(file)) = Len(file)
  BY <1>8 DEF InStep
<1>10. QED
  BY <1>1, <1>2, <1>4, <1>5, <1>7, <1>8, <1>9 DEF Wrote

\* An append whose rows the tables take.
LEMMA CommitKeeps ==
    ASSUME StoreInv, NEW rows \in Rows, NEW flushed \in BOOLEAN, Wrote(rows, flushed),
           proc \in {"replayed", "up"}, proc' = "up", mem' = Updated(rows),
           past' = past \cup {mem'}, met' = met
    PROVE  /\ file' \in Seq(FrameRecord) /\ synced' \in 0 .. Len(file') /\ nextSeq' \in Nat \ {0}
           /\ records' \in Nat /\ mem' \in [Keys -> Version] /\ synced' >= synced
           /\ Matching' /\ Numbered' /\ Exposed'
<1>1. /\ file \in Seq(FrameRecord) /\ Len(file) \in Nat /\ synced \in 0 .. Len(file)
      /\ nextSeq \in Nat \ {0} /\ records \in Nat /\ mem \in [Keys -> Version]
  BY DEF StoreInv, Types
<1>2. /\ file' \in Seq(FrameRecord) /\ synced' \in 0 .. Len(file') /\ nextSeq' \in Nat \ {0}
      /\ records' \in Nat /\ synced' >= synced /\ Len(file') = Len(file) + 1
  BY <1>1 DEF Wrote
<1>3. /\ mem' \in [Keys -> Version]
      /\ \A k \in Keys : mem'[k] = IF k \in DOMAIN rows THEN rows[k] ELSE mem[k]
  BY <1>1, UpdatedType
<1>4. ASSUME InStep, met \cap {"fflush", "fsync"} = {} \/ proc = "replayed"
      PROVE  Less(met, Image(file', Len(file) + 1), mem')
  <2>1. Less(met, Image(file, Len(file)), mem)
    BY <1>4, Zenon DEF StoreInv, Matching
  <2>2. QED
    BY <1>3, <2>1, Zenon DEF Wrote, Less
<1>5. Matching'
  BY <1>2, <1>4, Zenon DEF Matching, Wrote
<1>6. Numbered'
  <2>1. ASSUME met \cap {"compact", "torn", "fflush"} = {} PROVE InStep'
    BY <2>1 DEF StoreInv, Numbered, InStep, Wrote
  <2>2. QED
    BY <2>1 DEF Numbered, InStep
<1>7. Exposed'
  <2>1. SUFFICES ASSUME met \cap {"fflush", "fsync"} = {}, NEW n \in synced' .. Len(file')
                 PROVE  \E p \in past' : Less(met, Image(file', Kept(file', n)), p)
    BY Zenon DEF Exposed
  <2>2. \A m \in synced .. Len(file) : \E p \in past' : Less(met, Image(file, Kept(file, m)), p)
    BY <2>1, Zenon DEF StoreInv, Exposed
  <2>3. \A m \in 0 .. Len(file) : Kept(file, m) \in 0 .. Len(file)
    BY <1>1, ReplayableEnds DEF Kept
  <2>4. CASE n = Len(file) + 1
    <3>1. CASE InStep
      BY <1>4, <2>1, <2>4, <3>1, Zenon DEF Wrote
    <3>2. CASE ~InStep
      <4>1. Kept(file', n) = Kept(file, Len(file)) /\ Kept(file, Len(file)) \in 0 .. Len(file)
        BY <2>4, <3>2, Zenon DEF Wrote
      <4>2. Image(file', Kept(file', n)) = Image(file, Kept(file, Len(file)))
        BY <4>1, Zenon DEF Wrote
      <4>3. Len(file) \in synced .. Len(file)
        BY <1>1
      <4>4. QED
        BY <2>2, <4>2, <4>3, Zenon
    <3>3. QED
      BY <3>1, <3>2
  <2>5. CASE n # Len(file) + 1
    <3>1. n \in 0 .. Len(file) /\ n \in synced .. Len(file)
      BY <1>1, <1>2, <2>5
    <3>2. Image(file', Kept(file', n)) = Image(file, Kept(file, n))
      BY <2>3, <3>1 DEF Wrote
    <3>3. QED
      BY <2>2, <3>1, <3>2, Zenon
  <2>6. QED
    BY <2>4, <2>5
<1>8. QED
  BY <1>2, <1>3, <1>5, <1>6, <1>7, Zenon

\* An append that leaves the boot record alone.
LEMMA EpochKept ==
    ASSUME StoreInv, NEW rows \in Rows, NEW flushed \in BOOLEAN, Wrote(rows, flushed),
           BootKey \notin DOMAIN rows, claimed' = claimed, proc # "down",
           mem'[BootKey] = mem[BootKey]
    PROVE  Epochs'
<1>1. file \in Seq(FrameRecord) /\ Len(file) \in Nat /\ synced \in 0 .. Len(file)
  BY DEF StoreInv, Types
<1>2. \A m \in synced .. Len(file) : Image(file, Kept(file, m))[BootKey] >= claimed
  BY DEF StoreInv, Epochs
<1>3. \A m \in 0 .. Len(file) : Kept(file, m) \in 0 .. Len(file)
  BY <1>1, ReplayableEnds DEF Kept
<1>4. ASSUME NEW n \in synced' .. Len(file') PROVE Image(file', Kept(file', n))[BootKey] >= claimed
  <2>1. CASE n = Len(file) + 1
    <3>1. Len(file) \in synced .. Len(file)
      BY <1>1
    <3>2. Image(file', Kept(file', n))[BootKey] = Image(file, Kept(file, Len(file)))[BootKey]
      BY <2>1, KeysDistinct DEF Wrote
    <3>3. QED
      BY <1>2, <3>1, <3>2
  <2>2. CASE n # Len(file) + 1
    <3>1. n \in 0 .. Len(file) /\ n \in synced .. Len(file)
      BY <1>1, <1>4, <2>2 DEF Wrote
    <3>2. Image(file', Kept(file', n)) = Image(file, Kept(file, n))
      BY <1>3, <3>1 DEF Wrote
    <3>3. QED
      BY <1>2, <3>1, <3>2
  <2>3. QED
    BY <2>1, <2>2
<1>5. QED
  BY <1>4, Zenon DEF Epochs, StoreInv

\* An append that leaves the hard rows alone.
LEMMA DurableKept ==
    ASSUME StoreInv, NEW rows \in Rows, NEW flushed \in BOOLEAN, Wrote(rows, flushed),
           DOMAIN rows \cap HardKeys = {}, acked' = acked, met' = met, proc # "down",
           \A k \in HardKeys : mem'[k] = mem[k]
    PROVE  Durable'
<1>1. file \in Seq(FrameRecord) /\ Len(file) \in Nat /\ synced \in 0 .. Len(file)
  BY DEF StoreInv, Types
<1>2. SUFFICES ASSUME met \cap {"compact", "torn", "fflush"} = {}, NEW k \in HardKeys
               PROVE  /\ \A n \in synced' .. Len(file') : Image(file', n)[k] >= acked[k]
                      /\ mem[k] >= acked[k] /\ Image(file', Len(file'))[k] >= mem[k]
  BY DEF Durable
<1>3. /\ \A n \in synced .. Len(file) : Image(file, n)[k] >= acked[k]
      /\ mem[k] >= acked[k] /\ Image(file, Len(file))[k] >= mem[k]
  BY <1>2 DEF StoreInv, Durable
<1>4. Len(file') = Len(file) + 1 /\ Image(file', Len(file) + 1)[k] = Image(file, Len(file))[k]
  BY <1>2, KeysDistinct, Zenon DEF Wrote
<1>5. Len(file) \in synced .. Len(file)
  BY <1>1
<1>6. ASSUME NEW n \in synced' .. Len(file'), n # Len(file) + 1
      PROVE  n \in synced .. Len(file) /\ n \in 0 .. Len(file)
  BY <1>1, <1>4, <1>6 DEF Wrote
<1>7. \A n \in synced' .. Len(file') : Image(file', n)[k] >= acked[k]
  BY <1>3, <1>4, <1>5, <1>6 DEF Wrote
<1>8. QED
  BY <1>3, <1>4, <1>7, Zenon

LEMMA OpenKeeps ==
    ASSUME StoreInv, Open
    PROVE  StoreInv'
<1> DEFINE n == Replayable(file)
<1>1. /\ file \in Seq(FrameRecord) /\ Len(file) \in Nat /\ synced \in 0 .. Len(file)
      /\ n \in 0 .. Len(file)
  BY ReplayableEnds DEF StoreInv, Types
<1>2. /\ file' = SubSeq(file, 1, n) /\ synced' = n /\ nextSeq' = n + 1 /\ records' = n
      /\ mem' = Image(file, n)
      /\ past' = past \cup {mem'} /\ proc' = "replayed" /\ UNCHANGED <<acked, claimed, met>>
  BY DEF Open, SeqAfter
<1>3. Kept(file, n) = n /\ Kept(file, Len(file)) = n
  BY <1>1 DEF Kept
<1> HIDE DEF n
<1>4. /\ file' \in Seq(FrameRecord) /\ Len(file') = n /\ Replayable(file') = n
      /\ Image(file', n) = mem' /\ Kept(file', n) = n
  BY <1>1, <1>2, <1>3, FramesCut
<1>5. Types'
  <2>1. mem' \in [Keys -> Version]
    BY <1>1, <1>2, ImageType
  <2>2. QED
    BY <1>1, <1>2, <1>4, <2>1 DEF StoreInv, Types
<1>6. InStep'
  BY <1>2, <1>4 DEF InStep
<1>7. Matching' /\ Numbered'
  BY <1>2, <1>4, <1>6, LessSame, Zenon DEF Matching, Numbered, InStep
<1>8. \A m \in synced' .. Len(file') : m = n
  BY <1>1, <1>2, <1>4
<1>9. Exposed'
  <2>1. mem' \in past' /\ \A m \in synced' .. Len(file') : Image(file', Kept(file', m)) = mem'
    BY <1>2, <1>4, <1>8
  <2>2. QED
    BY <2>1, LessSame, Zenon DEF Exposed
<1>10. Epochs'
  <2>1. Len(file) \in synced .. Len(file)
    BY <1>1
  <2>2. mem'[BootKey] >= claimed
    BY <1>2, <1>3, <2>1 DEF StoreInv, Epochs
  <2>3. QED
    BY <1>2, <1>4, <1>8, <2>2 DEF Epochs
<1>11. Durable'
  <2>1. SUFFICES ASSUME met \cap {"compact", "torn", "fflush"} = {}, NEW k \in HardKeys
                 PROVE  mem'[k] >= acked[k] /\ mem'[k] >= mem'[k]
    BY <1>2, <1>4, <1>8 DEF Durable
  <2>2. n = Len(file) /\ Len(file) \in synced .. Len(file)
    BY <1>1, <2>1 DEF StoreInv, Numbered, n
  <2>3. mem'[k] >= acked[k]
    BY <1>2, <2>1, <2>2 DEF StoreInv, Durable
  <2>4. mem'[k] \in Nat
    BY <1>5, KeysDistinct DEF Types
  <2>5. QED
    BY <2>3, <2>4
<1>12. QED
  BY <1>5, <1>7, <1>9, <1>10, <1>11 DEF StoreInv

LEMMA CrashKeeps ==
    ASSUME StoreInv, Crash
    PROVE  StoreInv'
<1>1. file \in Seq(FrameRecord) /\ Len(file) \in Nat /\ synced \in 0 .. Len(file)
  BY DEF StoreInv, Types
<1>2. PICK n \in synced .. Len(file) : file' = SubSeq(file, 1, n)
  BY DEF Crash
<1>3. /\ proc' = "down" /\ mem' = Empty /\ nextSeq' = 1 /\ records' = 0
      /\ UNCHANGED <<synced, acked, claimed, past, met>>
  BY DEF Crash
<1>4. n \in 0 .. Len(file)
  BY <1>1
<1>5. /\ file' \in Seq(FrameRecord) /\ Len(file') = n /\ Replayable(file') = Kept(file, n)
      /\ \A m \in 0 .. n : Image(file', m) = Image(file, m) /\ Kept(file', m) = Kept(file, m)
  BY <1>1, <1>2, <1>4, FramesCut
<1>6. \A m \in synced .. n : m \in 0 .. n /\ m \in synced .. Len(file) /\ Kept(file, m) \in 0 .. n
  BY <1>1, <1>4, ReplayableEnds DEF Kept
<1>7. Types'
  BY <1>1, <1>3, <1>5, KeysDistinct DEF StoreInv, Types, Empty
<1>8. Matching'
  BY <1>3 DEF Matching
<1>9. Numbered'
  <2>1. ASSUME Replayable(file) = Len(file) PROVE Kept(file, n) = n
    BY <1>4, <2>1 DEF Kept
  <2>2. QED
    BY <1>3, <1>5, <2>1 DEF StoreInv, Numbered
<1>10. Exposed' /\ Epochs'
  <2>1. \A m \in synced .. n : Image(file', Kept(file', m)) = Image(file, Kept(file, m))
    BY <1>5, <1>6
  <2>2. QED
    BY <1>3, <1>5, <1>6, <2>1, Zenon DEF StoreInv, Exposed, Epochs
<1>11. Durable'
  BY <1>3, <1>5, <1>6 DEF StoreInv, Durable
<1>12. QED
  BY <1>7, <1>8, <1>9, <1>10, <1>11 DEF StoreInv

LEMMA BeginKeeps ==
    ASSUME StoreInv, begin_incarnation
    PROVE  StoreInv' /\ mem'[BootKey] > claimed
<1> DEFINE rows == Bump({BootKey})
<1>1. mem \in [Keys -> Version] /\ proc = "replayed" /\ mem[BootKey] < MaxVersion
  BY DEF StoreInv, Types, begin_incarnation
<1>2. rows \in Rows /\ DOMAIN rows = {BootKey} /\ rows[BootKey] = mem[BootKey] + 1
  BY <1>1, BumpRows, KeysDistinct
<1>3. /\ write_frame(rows, TRUE) /\ mem' = Updated(rows) /\ past' = past \cup {mem'}
      /\ claimed' = mem'[BootKey] /\ proc' = "up" /\ UNCHANGED <<acked, met>>
  BY Zenon DEF begin_incarnation, Expose
<1> HIDE DEF rows
<1>4. Wrote(rows, TRUE)
  BY <1>2, <1>3, WriteWrote, Zenon DEF StoreInv
<1>5. /\ file' \in Seq(FrameRecord) /\ synced' \in 0 .. Len(file') /\ nextSeq' \in Nat \ {0}
      /\ records' \in Nat /\ mem' \in [Keys -> Version] /\ Matching' /\ Numbered' /\ Exposed'
  BY <1>1, <1>2, <1>3, <1>4, CommitKeeps, Zenon
<1>6. \A k \in Keys : mem'[k] = IF k = BootKey THEN mem[k] + 1 ELSE mem[k]
  BY <1>1, <1>2, <1>3, UpdatedType
<1>7. Types'
  BY <1>3, <1>5, KeysDistinct DEF StoreInv, Types
<1>8. mem'[BootKey] > claimed /\ mem'[BootKey] \in Nat
  <2>1. mem[BootKey] >= claimed /\ mem[BootKey] \in Nat /\ claimed \in Nat
    BY <1>1, KeysDistinct DEF StoreInv, Epochs, Types
  <2>2. QED
    BY <1>6, <2>1, KeysDistinct
<1>9. Epochs'
  <2>1. InStep
    BY <1>1 DEF StoreInv, Matching
  <2>2. \A n \in synced' .. Len(file') : n = Len(file) + 1
    BY <1>4 DEF Wrote, StoreInv, Types
  <2>3. Image(file', Kept(file', Len(file) + 1))[BootKey] = mem[BootKey] + 1
    BY <1>2, <1>4, <2>1, KeysDistinct DEF Wrote
  <2>4. QED
    BY <1>3, <1>6, <1>8, <2>2, <2>3, KeysDistinct DEF Epochs
<1>10. Durable'
  BY <1>1, <1>2, <1>3, <1>4, <1>6, DurableKept, KeysDistinct, Zenon
<1>11. QED
  BY <1>5, <1>7, <1>8, <1>9, <1>10 DEF StoreInv

LEMMA JobsKeeps ==
    ASSUME StoreInv, NEW ks \in SUBSET HardKeys, commit_jobs(ks)
    PROVE  StoreInv'
<1> DEFINE rows == Bump(ks)
<1>1. mem \in [Keys -> Version] /\ proc = "up" /\ \A k \in ks : mem[k] < MaxVersion
  BY DEF StoreInv, Types, commit_jobs
<1>2. rows \in Rows /\ DOMAIN rows = ks /\ \A k \in ks : rows[k] = mem[k] + 1
  <2>1. ks \subseteq Keys
    BY KeysDistinct
  <2>2. QED
    BY <1>1, <2>1, BumpRows
<1>3. /\ write_frame(rows, TRUE) /\ mem' = Updated(rows) /\ past' = past \cup {mem'}
      /\ acked' = [k \in HardKeys |-> mem'[k]] /\ UNCHANGED <<proc, claimed, met>>
  BY Zenon DEF commit_jobs, Expose
<1> HIDE DEF rows
<1>4. Wrote(rows, TRUE)
  BY <1>2, <1>3, WriteWrote, Zenon DEF StoreInv
<1>5. /\ file' \in Seq(FrameRecord) /\ synced' \in 0 .. Len(file') /\ nextSeq' \in Nat \ {0}
      /\ records' \in Nat /\ mem' \in [Keys -> Version] /\ Matching' /\ Numbered' /\ Exposed'
  BY <1>1, <1>2, <1>3, <1>4, CommitKeeps, Zenon
<1>6. \A k \in Keys : mem'[k] = IF k \in ks THEN rows[k] ELSE mem[k]
  BY <1>1, <1>2, <1>3, UpdatedType
<1>7. Types'
  BY <1>3, <1>5, KeysDistinct DEF StoreInv, Types
<1>8. Epochs'
  BY <1>1, <1>2, <1>3, <1>4, <1>6, EpochKept, KeysDistinct, Zenon
<1>9. Durable'
  <2>1. SUFFICES ASSUME met \cap {"compact", "torn", "fflush"} = {}, NEW k \in HardKeys
                 PROVE  /\ \A n \in synced' .. Len(file') : Image(file', n)[k] >= acked'[k]
                        /\ mem'[k] >= acked'[k] /\ Image(file', Len(file'))[k] >= mem'[k]
    BY <1>3, Zenon DEF Durable
  <2>2. k \in Keys /\ mem'[k] \in Nat /\ acked'[k] = mem'[k]
    BY <1>3, <1>5, KeysDistinct
  <2>3. Image(file, Len(file))[k] >= mem[k]
    BY <1>1, <2>1 DEF StoreInv, Durable
  <2>4. Image(file', Len(file) + 1)[k] = IF k \in ks THEN mem'[k] ELSE Image(file, Len(file))[k]
    BY <1>2, <1>4, <1>6, <2>2, Zenon DEF Wrote
  <2>5. Image(file', Len(file) + 1)[k] >= mem'[k]
    BY <1>6, <2>2, <2>3, <2>4
  <2>6. Len(file') = Len(file) + 1 /\ \A n \in synced' .. Len(file') : n = Len(file) + 1
    BY <1>4, SMTT(30) DEF Wrote, StoreInv, Types
  <2>7. QED
    BY <2>2, <2>5, <2>6
<1>10. QED
  BY <1>5, <1>7, <1>8, <1>9 DEF StoreInv

LEMMA SoftKeeps ==
    ASSUME StoreInv, NEW k \in SoftKeys, NEW v \in Version, commit_soft(k, v)
    PROVE  StoreInv'
<1> DEFINE rows == Row(k, v)
<1>1. mem \in [Keys -> Version] /\ proc = "up"
  BY DEF StoreInv, Types, commit_soft
<1>2. rows \in Rows /\ DOMAIN rows = {k}
  BY RowRows, KeysDistinct, Zenon
<1>3. /\ write_frame(rows, FALSE) /\ mem' = Updated(rows) /\ past' = past \cup {mem'}
      /\ UNCHANGED <<proc, acked, claimed, met>>
  BY Zenon DEF commit_soft, Expose
<1> HIDE DEF rows
<1>4. Wrote(rows, FALSE)
  BY <1>2, <1>3, WriteWrote, Zenon DEF StoreInv
<1>5. /\ file' \in Seq(FrameRecord) /\ synced' \in 0 .. Len(file') /\ nextSeq' \in Nat \ {0}
      /\ records' \in Nat /\ mem' \in [Keys -> Version] /\ Matching' /\ Numbered' /\ Exposed'
  BY <1>1, <1>2, <1>3, <1>4, CommitKeeps, Zenon
<1>6. \A l \in Keys : l # k => mem'[l] = mem[l]
  BY <1>1, <1>2, <1>3, UpdatedType
<1>7. Types'
  BY <1>3, <1>5 DEF StoreInv, Types
<1>8. Epochs'
  BY <1>1, <1>2, <1>3, <1>4, <1>6, EpochKept, KeysDistinct, Zenon
<1>9. Durable'
  BY <1>1, <1>2, <1>3, <1>4, <1>6, DurableKept, KeysDistinct, Zenon
<1>10. QED
  BY <1>5, <1>7, <1>8, <1>9 DEF StoreInv

\* The fsync fails: the journal is ahead of the tables.
LEMMA FsyncFailsKeeps ==
    ASSUME StoreInv, NEW ks \in SUBSET HardKeys, commit_jobs_fsync_fails(ks)
    PROVE  StoreInv'
<1> DEFINE rows == Bump(ks)
<1>1. /\ mem \in [Keys -> Version] /\ proc = "up" /\ \A k \in ks : mem[k] < MaxVersion
      /\ Len(file) \in Nat /\ synced \in 0 .. Len(file) /\ nextSeq \in Nat \ {0} /\ records \in Nat
  BY DEF StoreInv, Types, commit_jobs_fsync_fails
<1>2. rows \in Rows /\ DOMAIN rows = ks /\ \A k \in ks : rows[k] = mem[k] + 1
  <2>1. ks \subseteq Keys
    BY KeysDistinct
  <2>2. QED
    BY <1>1, <2>1, BumpRows
<1>3. /\ write_frame(rows, FALSE) /\ met' = met \cup {"fsync"} /\ "fsync" \in Faults
      /\ UNCHANGED <<proc, mem, acked, claimed, past>>
  BY Zenon DEF commit_jobs_fsync_fails, Meets
<1> HIDE DEF rows
<1>4. Wrote(rows, FALSE)
  BY <1>2, <1>3, WriteWrote, ZenonT(40) DEF StoreInv
<1>5. Types'
  BY <1>1, <1>3, <1>4, SMTT(30) DEF StoreInv, Types, Wrote
<1>6. Matching' /\ Exposed'
  <2>1. met' \cap {"fflush", "fsync"} # {} /\ proc' = "up"
    BY <1>1, <1>3
  <2>2. QED
    BY <1>1, <1>3, <2>1, Zenon DEF StoreInv, Matching, Exposed
<1>7. Numbered'
  <2>1. ASSUME met \cap {"compact", "torn", "fflush"} = {} PROVE InStep'
    BY <1>1, <1>4, <2>1, Zenon DEF StoreInv, Numbered, InStep, Wrote
  <2>2. QED
    BY <1>3, <2>1 DEF Numbered, InStep
<1>8. Epochs'
  BY <1>1, <1>2, <1>3, <1>4, EpochKept, KeysDistinct, Zenon
<1>9. Durable'
  <2>1. SUFFICES ASSUME met \cap {"compact", "torn", "fflush"} = {}, NEW k \in HardKeys
                 PROVE  /\ \A n \in synced .. Len(file) + 1 : Image(file', n)[k] >= acked[k]
                        /\ mem[k] >= acked[k] /\ Image(file', Len(file) + 1)[k] >= mem[k]
    BY <1>3, <1>4, Zenon DEF Durable, Wrote
  <2>2. /\ \A n \in synced .. Len(file) : Image(file, n)[k] >= acked[k]
        /\ mem[k] >= acked[k] /\ Image(file, Len(file))[k] >= mem[k]
    BY <1>1, <2>1 DEF StoreInv, Durable
  <2>3. k \in Keys /\ mem[k] \in Nat /\ acked[k] \in Nat
    BY <1>1, KeysDistinct DEF StoreInv, Types
  <2>4. Image(file', Len(file) + 1)[k] = IF k \in ks THEN mem[k] + 1 ELSE Image(file, Len(file))[k]
    BY <1>2, <1>4, <2>3, Zenon DEF Wrote
  <2>5. Len(file) \in synced .. Len(file)
    BY <1>1
  <2>6. /\ Image(file', Len(file) + 1)[k] >= mem[k]
        /\ Image(file', Len(file) + 1)[k] >= acked[k]
    BY <2>2, <2>3, <2>4, <2>5
  <2>7. ASSUME NEW n \in synced .. Len(file) + 1, n # Len(file) + 1
        PROVE  n \in synced .. Len(file) /\ Image(file', n) = Image(file, n)
    <3>1. n \in synced .. Len(file) /\ n \in 0 .. Len(file)
      BY <1>1, <2>7
    <3>2. QED
      BY <1>4, <3>1 DEF Wrote
  <2>8. QED
    BY <2>2, <2>6, <2>7, Zenon
<1>10. QED
  BY <1>5, <1>6, <1>7, <1>8, <1>9, Zenon DEF StoreInv

\* A frame more that replay does not accept.
LEMMA TornFrame ==
    ASSUME NEW f \in Seq(FrameRecord), NEW x \in FrameRecord, ~x.whole, NEW s \in 0 .. Len(f)
    PROVE  LET g == Append(f, x)
           IN  /\ g \in Seq(FrameRecord) /\ Len(g) = Len(f) + 1 /\ Replayable(g) = Replayable(f)
               /\ Replayable(g) < Len(g)
               /\ \A n \in s .. Len(g) :
                     \E m \in s .. Len(f) : Image(g, Kept(g, n)) = Image(f, Kept(f, m))
<1> DEFINE g == Append(f, x)
<1>1. Len(f) \in Nat /\ Replayable(f) \in 0 .. Len(f)
  BY ReplayableEnds
<1>2. /\ g \in Seq(FrameRecord) /\ Len(g) = Len(f) + 1
      /\ \A n \in 0 .. Len(f) : Image(g, n) = Image(f, n) /\ Kept(g, n) = Kept(f, n)
      /\ Replayable(g) = Replayable(f)
  BY FrameAdded
<1> HIDE DEF g
<1>3. ASSUME NEW n \in s .. Len(g)
      PROVE  \E m \in s .. Len(f) : Image(g, Kept(g, n)) = Image(f, Kept(f, m))
  <2>1. \A m \in 0 .. Len(f) : Kept(f, m) \in 0 .. Len(f)
    BY <1>1 DEF Kept
  <2>2. CASE n = Len(f) + 1
    <3>1. Kept(g, n) = Kept(f, Len(f))
      BY <1>1, <1>2, <2>2 DEF Kept
    <3>2. Len(f) \in s .. Len(f) /\ Len(f) \in 0 .. Len(f)
      BY <1>1
    <3>3. Image(g, Kept(g, n)) = Image(f, Kept(f, Len(f)))
      BY <1>2, <2>1, <3>1, <3>2, Zenon
    <3>4. QED
      BY <3>2, <3>3, Zenon
  <2>3. CASE n # Len(f) + 1
    <3>1. n \in 0 .. Len(f) /\ n \in s .. Len(f)
      BY <1>1, <1>2, <1>3, <2>3
    <3>2. QED
      BY <1>2, <2>1, <3>1, Zenon
  <2>4. QED
    BY <2>2, <2>3
<1>4. Replayable(g) < Len(g)
  BY <1>1, <1>2
<1>5. QED
  BY <1>2, <1>3, <1>4, Zenon DEF g

\* A short write: replay will stop at the torn frame.
LEMMA TornKeeps ==
    ASSUME StoreInv, commit_jobs_torn
    PROVE  StoreInv'
<1> DEFINE x == Frame(nextSeq, FALSE, Bump({}))
<1>1. /\ file \in Seq(FrameRecord) /\ Len(file) \in Nat /\ synced \in 0 .. Len(file)
      /\ nextSeq \in Nat \ {0} /\ mem \in [Keys -> Version] /\ proc = "up"
  BY DEF StoreInv, Types, commit_jobs_torn
<1>2. /\ file' = Append(file, x) /\ met' = met \cup {"torn"} /\ "torn" \in Faults
      /\ UNCHANGED <<proc, synced, nextSeq, records, mem, acked, claimed, past>>
  BY DEF commit_jobs_torn, Meets
<1>3. x \in FrameRecord /\ ~x.whole
  <2>1. Bump({}) \in Rows
    BY <1>1, BumpRows
  <2>2. QED
    BY <1>1, <2>1 DEF Frame, FrameRecord
<1> HIDE DEF x
<1>4. /\ file' \in Seq(FrameRecord) /\ Len(file') = Len(file) + 1
      /\ Replayable(file') < Len(file')
      /\ \A n \in synced .. Len(file') :
            \E m \in synced .. Len(file) : Image(file', Kept(file', n)) = Image(file, Kept(file, m))
  BY <1>1, <1>2, <1>3, TornFrame, SMTT(30)
<1>5. Replayable(file') \in Nat
  BY <1>4, ReplayableEnds
<1>6. Types'
  BY <1>1, <1>2, <1>4 DEF StoreInv, Types
<1>7. ~InStep'
  BY <1>4, <1>5 DEF InStep
<1>8. Matching' /\ Numbered' /\ Durable'
  <2>1. met' \cap {"compact", "torn", "fflush"} # {} /\ proc' = "up"
    BY <1>1, <1>2
  <2>2. QED
    BY <1>7, <2>1, Zenon DEF Matching, Numbered, Durable
<1>9. Exposed'
  <2>1. met \subseteq met' /\ (met' \cap {"fflush", "fsync"} = {} => met \cap {"fflush", "fsync"} = {})
    BY <1>2
  <2>2. ASSUME met \cap {"fflush", "fsync"} = {}, NEW n \in synced .. Len(file')
        PROVE  \E p \in past : Less(met', Image(file', Kept(file', n)), p)
    <3>1. PICK m \in synced .. Len(file) : Image(file', Kept(file', n)) = Image(file, Kept(file, m))
      BY <1>4, <2>2, Zenon
    <3>2. PICK p \in past : Less(met, Image(file, Kept(file, m)), p)
      BY <2>2, Zenon DEF StoreInv, Exposed
    <3>3. QED
      BY <2>1, <3>1, <3>2, LessKept, Zenon
  <2>3. QED
    BY <1>2, <2>1, <2>2, Zenon DEF StoreInv, Exposed
<1>10. Epochs'
  BY <1>2, <1>4, Zenon DEF StoreInv, Epochs
<1>11. QED
  BY <1>6, <1>8, <1>9, <1>10, Zenon DEF StoreInv

\* The frames replay may find in a file, from the first s on, are not behind an epoch.
NotBehind(f, s, epoch) == \A n \in s .. Len(f) : Image(f, Kept(f, n))[BootKey] >= epoch

LEMMA FrameNotBehind ==
    ASSUME NEW f \in Seq(FrameRecord), NEW x \in FrameRecord, NEW s \in 0 .. Len(f), NEW epoch,
           NotBehind(f, s, epoch), BootKey \notin DOMAIN x.rows
    PROVE  NotBehind(Append(f, x), s, epoch)
<1> DEFINE g == Append(f, x)
<1>1. Len(f) \in Nat /\ Replayable(f) \in 0 .. Len(f)
  BY ReplayableEnds
<1>2. /\ Len(g) = Len(f) + 1
      /\ \A n \in 0 .. Len(f) : Image(g, n) = Image(f, n) /\ Kept(g, n) = Kept(f, n)
      /\ Replayable(g) = IF Replayable(f) = Len(f) /\ x.whole /\ x.seq = Len(f) + 1
                         THEN Len(f) + 1 ELSE Replayable(f)
      /\ \A k \in Keys : Image(g, Len(f) + 1)[k] =
                            IF k \in DOMAIN x.rows THEN x.rows[k] ELSE Image(f, Len(f))[k]
  BY FrameAdded
<1> HIDE DEF g
<1>3. Image(g, Len(f) + 1)[BootKey] = Image(f, Len(f))[BootKey]
  BY <1>2, KeysDistinct, Zenon
<1>4. \A n \in 0 .. Len(f) : Kept(f, n) \in 0 .. Len(f)
  BY <1>1 DEF Kept
<1>5. Len(f) \in s .. Len(f) /\ Len(f) \in 0 .. Len(f)
  BY <1>1
<1>6. ASSUME NEW n \in s .. Len(g) PROVE Image(g, Kept(g, n))[BootKey] >= epoch
  <2>1. CASE n # Len(f) + 1
    <3>1. n \in 0 .. Len(f) /\ n \in s .. Len(f)
      BY <1>1, <1>2, <1>6, <2>1
    <3>2. Image(g, Kept(g, n)) = Image(f, Kept(f, n))
      BY <1>2, <1>4, <3>1, Zenon
    <3>3. QED
      BY <3>1, <3>2, Zenon DEF NotBehind
  <2>2. CASE n = Len(f) + 1 /\ Replayable(g) = Len(f) + 1
    <3>1. Kept(g, n) = Len(f) + 1 /\ Kept(f, Len(f)) = Len(f)
      BY <1>1, <1>2, <2>2 DEF Kept
    <3>2. QED
      BY <1>3, <1>5, <3>1, Zenon DEF NotBehind
  <2>3. CASE n = Len(f) + 1 /\ Replayable(g) # Len(f) + 1
    <3>1. Kept(g, n) = Kept(f, Len(f))
      BY <1>1, <1>2, <2>3 DEF Kept
    <3>2. Image(g, Kept(g, n)) = Image(f, Kept(f, Len(f)))
      BY <1>2, <1>4, <1>5, <3>1, Zenon
    <3>3. QED
      BY <1>5, <3>2, Zenon DEF NotBehind
  <2>4. QED
    BY <2>1, <2>2, <2>3, Zenon
<1>7. QED
  BY <1>6, Zenon DEF NotBehind, g

LEMMA CutNotBehind ==
    ASSUME NEW f \in Seq(FrameRecord), NEW s \in 0 .. Len(f), NEW epoch, NotBehind(f, s, epoch),
           NEW n \in s .. Len(f)
    PROVE  NotBehind(SubSeq(f, 1, n), s, epoch)
<1> DEFINE g == SubSeq(f, 1, n)
<1>1. Len(f) \in Nat /\ Replayable(f) \in 0 .. Len(f) /\ n \in 0 .. Len(f)
  BY ReplayableEnds
<1>2. Len(g) = n /\ \A m \in 0 .. n : Image(g, m) = Image(f, m) /\ Kept(g, m) = Kept(f, m)
  BY <1>1, FramesCut
<1> HIDE DEF g
<1>3. \A m \in s .. n : m \in 0 .. n /\ m \in s .. Len(f) /\ Kept(f, m) \in 0 .. n
  BY <1>1 DEF Kept
<1>4. \A m \in s .. n : Image(g, Kept(g, m)) = Image(f, Kept(f, m))
  BY <1>2, <1>3, Zenon
<1>5. QED
  BY <1>2, <1>3, <1>4, Zenon DEF NotBehind, g

\* The fflush fails: of what replay would have found, the epochs are left.
LEMMA FflushFailsKeeps ==
    ASSUME StoreInv, NEW ks \in SUBSET HardKeys, commit_jobs_fflush_fails(ks)
    PROVE  StoreInv'
<1> DEFINE x == Frame(nextSeq, TRUE, Bump(ks))
           f == Append(file, x)
           y(n) == Frame(f[n + 1].seq, FALSE, Bump({}))
<1>1. /\ file \in Seq(FrameRecord) /\ Len(file) \in Nat /\ synced \in 0 .. Len(file)
      /\ nextSeq \in Nat \ {0} /\ records \in Nat /\ mem \in [Keys -> Version]
      /\ proc = "up" /\ \A k \in ks : mem[k] < MaxVersion
  BY DEF StoreInv, Types, commit_jobs_fflush_fails
<1>2. /\ file' \in Flushable(f) /\ nextSeq' = nextSeq + 1 /\ records' = records + 1
      /\ met' = met \cup {"fflush"} /\ "fflush" \in Faults
      /\ UNCHANGED <<proc, synced, mem, acked, claimed, past>>
  BY Zenon DEF commit_jobs_fflush_fails, Meets
<1>3. Bump(ks) \in Rows /\ DOMAIN Bump(ks) = ks /\ Bump({}) \in Rows /\ BootKey \notin ks
  <2>1. ks \subseteq Keys /\ BootKey \notin ks
    BY KeysDistinct
  <2>2. QED
    BY <1>1, <2>1, BumpRows
<1>4. x \in FrameRecord /\ DOMAIN x.rows = ks
  BY <1>1, <1>3 DEF Frame, FrameRecord
<1>5. f \in Seq(FrameRecord) /\ Len(f) = Len(file) + 1
  <2> HIDE DEF x
  <2>1. QED
    BY <1>1, <1>4
<1>6. NotBehind(f, synced, claimed)
  <2>1. NotBehind(file, synced, claimed)
    BY Zenon DEF StoreInv, Epochs, NotBehind
  <2> HIDE DEF x
  <2>2. QED
    BY <1>1, <1>3, <1>4, <2>1, FrameNotBehind, Zenon
<1> HIDE DEF x, f
<1>7. synced \in 0 .. Len(f)
  BY <1>1, <1>5
<1>8. PICK n \in synced .. Len(f) :
         \/ file' = SubSeq(f, 1, n)
         \/ n + 1 \in 1 .. Len(f) /\ file' = Append(SubSeq(f, 1, n), y(n))
  <2>1. \/ \E n \in synced .. Len(f) : file' = SubSeq(f, 1, n)
        \/ \E n \in synced .. Len(f) - 1 : file' = Append(SubSeq(f, 1, n), y(n))
    BY <1>2, Zenon DEF Flushable
  <2>2. \A n \in synced .. Len(f) - 1 : n \in synced .. Len(f) /\ n + 1 \in 1 .. Len(f)
    BY <1>5, <1>7
  <2>3. QED
    BY <2>1, <2>2, Zenon
<1> DEFINE g == SubSeq(f, 1, n)
<1>9. g \in Seq(FrameRecord) /\ Len(g) = n /\ synced \in 0 .. n
  BY <1>5, <1>7
<1>10. NotBehind(g, synced, claimed)
  BY <1>5, <1>6, <1>7, CutNotBehind, Zenon
<1> HIDE DEF g
<1>11. /\ file' \in Seq(FrameRecord) /\ synced \in 0 .. Len(file')
       /\ NotBehind(file', synced, claimed)
  <2>1. CASE file' = g
    BY <1>9, <1>10, <2>1, Zenon
  <2>2. CASE n + 1 \in 1 .. Len(f) /\ file' = Append(g, y(n))
    <3>1. y(n) \in FrameRecord /\ ~y(n).whole
      <4>1. f[n + 1] \in FrameRecord
        BY <1>5, <2>2
      <4>2. f[n + 1].seq \in Nat
        BY <4>1 DEF FrameRecord
      <4>3. QED
        BY <1>3, <4>2 DEF Frame, FrameRecord
    <3> HIDE DEF y
    <3>2. PICK z \in FrameRecord : z = y(n) /\ ~z.whole /\ file' = Append(g, z)
      BY <2>2, <3>1, Zenon
    <3>3. /\ file' \in Seq(FrameRecord) /\ Len(file') = Len(g) + 1
          /\ \A m \in synced .. Len(file') :
                \E i \in synced .. Len(g) : Image(file', Kept(file', m)) = Image(g, Kept(g, i))
      BY <1>9, <3>2, TornFrame, SMTT(30)
    <3>4. synced \in 0 .. Len(file')
      BY <1>9, <3>3
    <3>5. QED
      BY <1>10, <3>3, <3>4, Zenon DEF NotBehind
  <2>3. QED
    BY <1>8, <2>1, <2>2, Zenon DEF g
<1>12. Types'
  BY <1>1, <1>2, <1>11 DEF StoreInv, Types
<1>13. /\ met' \cap {"compact", "torn", "fflush"} # {} /\ met' \cap {"fflush", "fsync"} # {}
       /\ proc' = "up"
  BY <1>1, <1>2
<1>14. Matching' /\ Numbered' /\ Durable'
  BY <1>13, Zenon DEF Matching, Numbered, Durable
<1>15. Exposed' /\ Epochs'
  BY <1>1, <1>2, <1>11, <1>13, Zenon DEF StoreInv, Exposed, Epochs, NotBehind
<1>16. QED
  BY <1>12, <1>14, <1>15, Zenon DEF StoreInv

\* The flush of the boot record fails: the record may stay for the next process.
LEMMA BeginFailsKeeps ==
    ASSUME StoreInv, begin_incarnation_fails
    PROVE  StoreInv'
<1> DEFINE x == Frame(nextSeq, TRUE, Bump({BootKey}))
<1>1. /\ file \in Seq(FrameRecord) /\ Len(file) \in Nat /\ synced \in 0 .. Len(file)
      /\ nextSeq \in Nat \ {0} /\ mem \in [Keys -> Version]
      /\ proc = "replayed" /\ mem[BootKey] < MaxVersion
  BY DEF StoreInv, Types, begin_incarnation_fails
<1>2. /\ file' = Append(file, x) /\ proc' = "down" /\ mem' = Empty /\ nextSeq' = 1 /\ records' = 0
      /\ met' = met \cup {"fsync"} /\ "fsync" \in Faults
      /\ UNCHANGED <<synced, acked, claimed, past>>
  BY Zenon DEF begin_incarnation_fails, Meets
<1>3. /\ Bump({BootKey}) \in Rows /\ DOMAIN Bump({BootKey}) = {BootKey}
      /\ Bump({BootKey})[BootKey] = mem[BootKey] + 1
  BY <1>1, BumpRows, KeysDistinct
<1>4. /\ x \in FrameRecord /\ x.whole /\ x.seq = nextSeq /\ DOMAIN x.rows = {BootKey}
      /\ x.rows[BootKey] = mem[BootKey] + 1
  BY <1>1, <1>3 DEF Frame, FrameRecord
<1>5. Replayable(file) = Len(file) /\ nextSeq = Len(file) + 1
  BY <1>1, Zenon DEF StoreInv, Matching, InStep
<1> HIDE DEF x
<1>6. /\ file' \in Seq(FrameRecord) /\ Len(file') = Len(file) + 1
      /\ \A n \in 0 .. Len(file) : Image(file', n) = Image(file, n) /\ Kept(file', n) = Kept(file, n)
      /\ Replayable(file') = Len(file) + 1
      /\ \A k \in Keys : Image(file', Len(file) + 1)[k] =
                            IF k = BootKey THEN mem[k] + 1 ELSE Image(file, Len(file))[k]
  <2>1. /\ file' \in Seq(FrameRecord) /\ Len(file') = Len(file) + 1
        /\ \A n \in 0 .. Len(file) : Image(file', n) = Image(file, n) /\ Kept(file', n) = Kept(file, n)
        /\ Replayable(file') = IF Replayable(file) = Len(file) /\ x.whole /\ x.seq = Len(file) + 1
                               THEN Len(file) + 1 ELSE Replayable(file)
        /\ \A k \in Keys : Image(file', Len(file) + 1)[k] =
                              IF k \in DOMAIN x.rows THEN x.rows[k] ELSE Image(file, Len(file))[k]
    BY <1>1, <1>2, <1>4, FrameAdded
  <2>2. \A k \in Keys : Image(file', Len(file) + 1)[k] =
                            IF k = BootKey THEN mem[k] + 1 ELSE Image(file, Len(file))[k]
    <3>1. \A k : k \in DOMAIN x.rows <=> k = BootKey
      BY <1>4
    <3>2. QED
      BY <1>4, <2>1, <3>1, Zenon
  <2>3. QED
    BY <1>4, <1>5, <2>1, <2>2, Zenon
<1>7. Types'
  BY <1>1, <1>2, <1>6, KeysDistinct DEF StoreInv, Types, Empty
<1>8. Matching' /\ Exposed'
  <2>1. met' \cap {"fflush", "fsync"} # {}
    BY <1>2
  <2>2. QED
    BY <1>2, <2>1, Zenon DEF Matching, Exposed
<1>9. Numbered'
  BY <1>2, <1>6, Zenon DEF Numbered
<1>10. \A n \in synced .. Len(file') :
          n = Len(file) + 1 \/ (n \in synced .. Len(file) /\ n \in 0 .. Len(file))
  BY <1>1, <1>6
<1>11. Epochs'
  <2>1. \A m \in 0 .. Len(file) : Kept(file, m) \in 0 .. Len(file)
    BY <1>1, <1>5 DEF Kept
  <2>2. mem[BootKey] + 1 >= claimed
    BY <1>1, KeysDistinct DEF StoreInv, Types, Epochs
  <2>3. Kept(file', Len(file) + 1) = Len(file) + 1
    BY <1>6 DEF Kept
  <2>4. Image(file', Kept(file', Len(file) + 1))[BootKey] >= claimed
    BY <1>6, <2>2, <2>3, KeysDistinct, Zenon
  <2>5. ASSUME NEW n \in synced .. Len(file') PROVE Image(file', Kept(file', n))[BootKey] >= claimed
    BY <1>6, <1>10, <2>1, <2>4, <2>5, Zenon DEF StoreInv, Epochs
  <2>6. QED
    BY <1>2, <2>5, Zenon DEF Epochs
<1>12. Durable'
  <2>1. SUFFICES ASSUME met \cap {"compact", "torn", "fflush"} = {}, NEW k \in HardKeys,
                        NEW n \in synced .. Len(file')
                 PROVE  Image(file', n)[k] >= acked[k]
    <3>1. met' \cap {"compact", "torn", "fflush"} = {} => met \cap {"compact", "torn", "fflush"} = {}
      BY <1>2
    <3>2. QED
      BY <1>2, <3>1, Zenon DEF Durable
  <2>2. \A m \in synced .. Len(file) : Image(file, m)[k] >= acked[k]
    BY <2>1, Zenon DEF StoreInv, Durable
  <2>3. Len(file) \in synced .. Len(file)
    BY <1>1
  <2>4. Image(file', Len(file) + 1)[k] = Image(file, Len(file))[k]
    BY <1>6, KeysDistinct, Zenon
  <2>5. QED
    BY <1>6, <1>10, <2>2, <2>3, <2>4, Zenon
<1>13. QED
  BY <1>7, <1>8, <1>9, <1>11, <1>12, Zenon DEF StoreInv

LEMMA CompactKeeps ==
    ASSUME StoreInv, NEW expired \in SUBSET Volatile, compact(expired)
    PROVE  StoreInv'
<1> DEFINE g == SnapshotOf(Keys \ expired)
<1>1. /\ mem \in [Keys -> Version] /\ proc = "up" /\ file' = g /\ synced' = Len(file')
      /\ records' = Len(file') /\ met' = met \cup {"compact"}
      /\ "compact" \in Faults /\ UNCHANGED <<proc, nextSeq, mem, acked, claimed, past>>
  BY Zenon DEF StoreInv, Types, compact, Meets, Written
<1>2. /\ g \in Seq(FrameRecord) /\ Replayable(g) = Len(g)
      /\ \A k \in Keys : Image(g, Len(g))[k] = IF k \in Keys \ expired THEN mem[k] ELSE 0
  <2>1. Keys \ expired \subseteq Keys
    OBVIOUS
  <2>2. QED
    BY <1>1, <2>1, SnapshotIs, Zenon
<1> HIDE DEF g
<1>3. file' \in Seq(FrameRecord) /\ Replayable(file') = Len(file') /\ Len(file') \in Nat
  BY <1>1, <1>2
<1>4. Types'
  BY <1>1, <1>3 DEF StoreInv, Types
<1>5. "compact" \in met' /\ met' \cap {"compact", "torn", "fflush"} # {}
  BY <1>1
<1>6. Less(met', Image(file', Len(file')), mem)
  BY <1>1, <1>2, <1>5, Zenon DEF Less
<1>7. Matching' /\ Numbered' /\ Durable'
  BY <1>1, <1>5, <1>6, Zenon DEF Matching, Numbered, Durable
<1>8. \A n \in synced' .. Len(file') : Kept(file', n) = Len(file')
  BY <1>1, <1>3 DEF Kept
<1>9. Exposed'
  <2>1. mem \in past
    BY <1>1, Zenon DEF StoreInv, Exposed
  <2>2. QED
    BY <1>1, <1>6, <1>8, <2>1, Zenon DEF Exposed
<1>10. Epochs'
  <2>1. BootKey \in Keys \ expired
    BY KeysDistinct, StoreAssumption
  <2>2. Image(file', Len(file'))[BootKey] = mem[BootKey]
    BY <1>1, <1>2, <2>1, Zenon
  <2>3. QED
    BY <1>1, <1>8, <2>2, Zenon DEF StoreInv, Epochs
<1>11. QED
  BY <1>4, <1>7, <1>9, <1>10, Zenon DEF StoreInv

LEMMA StoreInit == Init => StoreInv
<1> SUFFICES ASSUME Init PROVE StoreInv
  OBVIOUS
<1>1. /\ file = <<>> /\ file \in Seq(FrameRecord) /\ Len(file) = 0 /\ synced = 0
      /\ proc = "down" /\ mem = Empty /\ claimed = 0 /\ past = {Empty} /\ met = {}
  BY DEF Init
<1>2. Types
  BY <1>1, KeysDistinct DEF Init, Types, Empty
<1>3. Replayable(file) = 0
  <2>1. Replayable(file) \in 0 .. Len(file)
    BY <1>1, ReplayableEnds, Zenon
  <2>2. QED
    BY <1>1, <2>1
<1>4. Image(file, 0) = Empty
  BY DEF Image, Writers, Empty
<1>5. \A n \in synced .. Len(file) : n = 0 /\ Kept(file, n) = 0
  BY <1>1, <1>3 DEF Kept
<1>6. Matching /\ Numbered /\ Exposed
  <2>1. Matching /\ Numbered
    BY <1>1, <1>3, Zenon DEF Matching, Numbered
  <2>2. \A n \in synced .. Len(file) : Image(file, Kept(file, n)) = Empty
    BY <1>4, <1>5, Zenon
  <2>3. QED
    BY <1>1, <2>1, <2>2, LessSame, Zenon DEF Exposed
<1>7. Empty[BootKey] = 0 /\ \A k \in HardKeys : Empty[k] = 0 /\ acked[k] = 0
  BY KeysDistinct DEF Init, Empty
<1>8. Epochs /\ Durable
  BY <1>1, <1>4, <1>5, <1>7 DEF Epochs, Durable
<1>9. QED
  BY <1>2, <1>6, <1>8 DEF StoreInv

LEMMA StoreNext ==
    ASSUME StoreInv, [Next]_vars
    PROVE  StoreInv' /\ (proc # "up" /\ proc' = "up" => mem'[BootKey] > claimed)
<1>1. CASE begin_incarnation
  BY <1>1, BeginKeeps
<1>2. CASE Open
  BY <1>2, OpenKeeps DEF Open
<1>3. CASE Crash
  BY <1>3, CrashKeeps DEF Crash
<1>4. ASSUME NEW ks \in SUBSET HardKeys,
             commit_jobs(ks) \/ commit_jobs_fsync_fails(ks) \/ commit_jobs_fflush_fails(ks)
      PROVE  StoreInv' /\ proc' = proc
  BY <1>4, JobsKeeps, FsyncFailsKeeps, FflushFailsKeeps, Zenon
     DEF commit_jobs, commit_jobs_fsync_fails, commit_jobs_fflush_fails
<1>5. ASSUME NEW k \in SoftKeys, NEW v \in Version, commit_soft(k, v)
      PROVE  StoreInv' /\ proc' = proc
  BY <1>5, SoftKeeps, Zenon DEF commit_soft
<1>6. CASE commit_jobs_torn \/ \E expired \in SUBSET Volatile : compact(expired)
  BY <1>6, TornKeeps, CompactKeeps, Zenon DEF commit_jobs_torn, compact
<1>7. CASE compact_rename_fails
  <2>1. /\ proc = "up" /\ proc' = "wedged" /\ met' = met \cup {"rename"} /\ "rename" \in Faults
        /\ UNCHANGED <<file, synced, nextSeq, records, mem, acked, claimed, past>>
    BY <1>7 DEF compact_rename_fails, Meets
  <2>2. /\ met \subseteq met' /\ met' \subseteq Faults
        /\ met' \cap {"fflush", "fsync"} = {} => met \cap {"fflush", "fsync"} = {}
        /\ met' \cap {"compact", "torn", "fflush"} = {} => met \cap {"compact", "torn", "fflush"} = {}
    BY <2>1 DEF StoreInv, Types
  <2>3. Types' /\ Numbered' /\ Epochs' /\ Durable'
    BY <2>1, <2>2, Zenon DEF StoreInv, Types, Numbered, Epochs, Durable
  <2>4. Matching' /\ Exposed'
    BY <2>1, <2>2, LessKept, Zenon DEF StoreInv, Matching, Exposed, InStep
  <2>5. QED
    BY <2>1, <2>3, <2>4, Zenon DEF StoreInv
<1>8. CASE UNCHANGED vars
  BY <1>8, Zenon DEF vars, StoreInv, Types, Matching, Numbered, Exposed, Epochs, Durable, InStep
<1>9. CASE begin_incarnation_fails
  BY <1>9, BeginFailsKeeps DEF begin_incarnation_fails
<1>10. QED
  BY <1>1, <1>2, <1>3, <1>4, <1>5, <1>6, <1>7, <1>8, <1>9 DEF Next

LEMMA StoreKept == Spec => []StoreInv
<1>1. StoreInv /\ [Next]_vars => StoreInv'
  BY StoreNext
<1>2. QED
  BY StoreInit, <1>1, PTL DEF Spec
-----------------------------------------------------------------------------
(* The theorems.                                                           *)

\* Neither a failed fsync nor a failed rename ever costs an acknowledged job row,
\* whatever part of the journal survives whichever crash (Store::append_and_apply
\* flushes before it acknowledges).
THEOREM Durability == Spec => []CommitsSurvive
<1>1. ASSUME StoreInv PROVE CommitsSurvive
  <2>1. SUFFICES ASSUME met \cap {"compact", "torn", "fflush"} = {}, NEW n \in synced .. Len(file),
                        NEW k \in HardKeys
                 PROVE  Recovered(SubSeq(file, 1, n))[k] >= acked[k]
    BY Zenon DEF CommitsSurvive, DurableCommits, Survivors
  <2>2. file \in Seq(FrameRecord) /\ n \in 0 .. Len(file)
    BY <1>1 DEF StoreInv, Types
  <2>3. Kept(file, n) = n
    BY <1>1, <2>1, <2>2 DEF StoreInv, Numbered, Kept
  <2>4. QED
    BY <1>1, <2>1, <2>2, <2>3, RecoveredCut, Zenon DEF StoreInv, Durable
<1>2. QED
  BY StoreKept, <1>1, PTL

\* The tables of a running process are those its journal would give, until a
\* compaction, a short write or a failed flush (the rollback of commit_job,
\* commit_jobs and create_job).
THEOREM TablesMatch == Spec => []MemoryMatchesJournal
<1>1. ASSUME StoreInv PROVE MemoryMatchesJournal
  <2>1. \A i \in 1 .. Len(file) :
           /\ file[i].seq \in Nat /\ file[i].whole \in BOOLEAN
           /\ \A k \in DOMAIN file[i].rows : k \in Keys /\ file[i].rows[k] \in Version
    <3> SUFFICES ASSUME NEW i \in 1 .. Len(file)
                 PROVE  /\ file[i].seq \in Nat /\ file[i].whole \in BOOLEAN
                        /\ \A k \in DOMAIN file[i].rows : k \in Keys /\ file[i].rows[k] \in Version
      OBVIOUS
    <3>1. file[i] \in FrameRecord
      BY <1>1 DEF StoreInv, Types
    <3>2. file[i].seq \in Nat /\ file[i].whole \in BOOLEAN /\ file[i].rows \in Rows
      BY <3>1 DEF FrameRecord
    <3>3. QED
      BY <3>2, RowsType
  <2>2. TypeOK
    BY <1>1, <2>1 DEF StoreInv, Types, TypeOK
  <2>3. ASSUME met \subseteq {"rename"}, proc \in {"up", "wedged"} PROVE Recovered(file) = mem
    <3>1. /\ met \cap {"compact", "torn", "fflush"} = {} /\ met \cap {"fflush", "fsync"} = {}
          /\ "compact" \notin met
      BY <2>3
    <3>2. InStep
      BY <1>1, <2>3, <3>1 DEF StoreInv, Numbered, InStep
    <3>3. Less(met, Image(file, Len(file)), mem) /\ Recovered(file) = Image(file, Len(file))
      BY <1>1, <2>3, <3>1, <3>2 DEF StoreInv, Matching, InStep, Recovered
    <3>4. Image(file, Len(file)) \in [Keys -> Version] /\ mem \in [Keys -> Version]
      BY <1>1, ImageType DEF StoreInv, Types
    <3>5. \A k \in Keys : Image(file, Len(file))[k] = mem[k]
      BY <3>1, <3>3, Zenon DEF Less
    <3>6. QED
      BY <3>3, <3>4, <3>5
  <2>4. QED
    BY <2>2, <2>3 DEF MemoryMatchesJournal, JournalMatches
<1>2. QED
  BY StoreKept, <1>1, PTL

\* Recovery rebuilds an image of all tables that the store had at one moment, less
\* the expired evidence that compactions leave out, through compactions, short
\* writes and failing renames; only a failed flush can make it another
\* (Journal::replay, Store::compact).
THEOREM RecoveryExposed == Spec => []PrefixRecovery
<1>1. ASSUME StoreInv PROVE PrefixRecovery
  <2>1. SUFFICES ASSUME met \cap {"fflush", "fsync"} = {}, NEW n \in synced .. Len(file)
                 PROVE  \E p \in past : Near(Recovered(SubSeq(file, 1, n)), p)
    BY Zenon DEF PrefixRecovery, Survivors
  <2>2. file \in Seq(FrameRecord) /\ n \in 0 .. Len(file)
    BY <1>1 DEF StoreInv, Types
  <2>3. Recovered(SubSeq(file, 1, n)) = Image(file, Kept(file, n))
    BY <2>2, RecoveredCut, Zenon
  <2>4. PICK p \in past : Less(met, Image(file, Kept(file, n)), p)
    BY <1>1, <2>1, Zenon DEF StoreInv, Exposed
  <2>5. Near(Recovered(SubSeq(file, 1, n)), p)
    BY <2>3, <2>4, Zenon DEF Near, Less
  <2>6. QED
    BY <2>5, Zenon
<1>2. QED
  BY StoreKept, <1>1, PTL

\* Whatever faults and crashes there were, the epoch an incarnation starts under is
\* newer than every epoch before it (Store::begin_incarnation).
THEOREM EpochsFresh == Spec => EpochNeverReused
<1>1. StoreInv /\ [Next]_vars => (proc # "up" /\ proc' = "up" => mem'[BootKey] > claimed)
  BY StoreNext
<1>2. QED
  BY StoreKept, <1>1, PTL DEF Spec, EpochNeverReused
===============================================================================
