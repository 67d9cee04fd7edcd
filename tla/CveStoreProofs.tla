--------------------------- MODULE CveStoreProofs ---------------------------
(***************************************************************************)
(* CveStore for any pods, images and digests: CveInv is inductive, and the *)
(* reference counts drift only after one of the races the history names.   *)
(***************************************************************************)
EXTENDS CveStore, FiniteSetTheorems, SequenceTheorems, TLAPS

-----------------------------------------------------------------------------
(* Counting containers.                                                    *)

\* Pods with images, the containers of a pod that run d, and those of all pods.
PodMaps(ps) == DOMAIN ps \subseteq Pod /\ \A p \in DOMAIN ps : ps[p] \in Image
At(ps, p, d) == {<<p, i>> : i \in {j \in DOMAIN ps[p] : ps[p][j] = d}}
Occ(ps, d) == UNION {At(ps, p, d) : p \in DOMAIN ps}

(* A bijection carries the cardinality. *)
LEMMA SameSize ==
    ASSUME NEW S, NEW T, IsFiniteSet(S), NEW f \in Bijection(S, T)
    PROVE  IsFiniteSet(T) /\ Cardinality(T) = Cardinality(S)
  BY FS_Bijection DEF ExistsBijection

(* How often an image uses a digest. *)
LEMMA UsesNat ==
    ASSUME NEW image \in Seq(Digest), NEW d \in Digest
    PROVE  /\ IsFiniteSet({i \in DOMAIN image : image[i] = d})
           /\ Uses(image)[d] = Cardinality({i \in DOMAIN image : image[i] = d})
           /\ Uses(image)[d] \in Nat
           /\ (Uses(image)[d] > 0) <=> (\E i \in DOMAIN image : image[i] = d)
  <1> DEFINE S == {i \in DOMAIN image : image[i] = d}
  <1>1. IsFiniteSet(1..Len(image)) /\ S \subseteq 1..Len(image)
    BY FS_Interval
  <1>2. IsFiniteSet(S)
    BY <1>1, FS_Subset
  <1>3. Uses(image)[d] = Cardinality(S)
    BY DEF Uses
  <1>4. Cardinality(S) \in Nat /\ (Cardinality(S) = 0 <=> S = {})
    BY <1>2, FS_CardinalityType, FS_EmptySet
  <1>5. (S # {}) <=> (\E i \in DOMAIN image : image[i] = d)
    OBVIOUS
  <1> HIDE DEF S
  <1>6. (Cardinality(S) > 0) <=> (S # {})
    BY <1>4
  <1>7. (Uses(image)[d] > 0) <=> (\E i \in DOMAIN image : image[i] = d)
    BY <1>3, <1>5, <1>6
  <1> QED BY <1>2, <1>3, <1>4, <1>7 DEF S

(* The containers of one pod. *)
LEMMA AtSize ==
    ASSUME NEW ps, NEW p, ps[p] \in Seq(Digest), NEW d \in Digest
    PROVE  IsFiniteSet(At(ps, p, d)) /\ Cardinality(At(ps, p, d)) = Uses(ps[p])[d]
  <1> DEFINE S == {i \in DOMAIN ps[p] : ps[p][i] = d}
             f == [i \in S |-> <<p, i>>]
  <1>1. f \in Bijection(S, At(ps, p, d))
    <2>1. f \in [S -> At(ps, p, d)]
      BY DEF At
    <2>2. IsInjective(f)
      BY DEF IsInjective
    <2>3. \A t \in At(ps, p, d) : \E s \in S : f[s] = t
      BY DEF At
    <2> QED BY <2>1, <2>2, <2>3 DEF Bijection, Injection, Surjection
  <1>2. IsFiniteSet(S) /\ Uses(ps[p])[d] = Cardinality(S)
    BY UsesNat
  <1> HIDE DEF S, f
  <1> QED BY <1>1, <1>2, SameSize

(* The containers of all pods. *)
LEMMA OccSize ==
    ASSUME NEW ps, PodMaps(ps), NEW d \in Digest
    PROVE  /\ IsFiniteSet(Occ(ps, d)) /\ UsesBy(ps)[d] = Cardinality(Occ(ps, d))
           /\ UsesBy(ps)[d] \in Nat
  <1> DEFINE f == [p \in DOMAIN ps |-> At(ps, p, d)]
             T == {At(ps, p, d) : p \in DOMAIN ps}
  <1>1. IsFiniteSet(DOMAIN ps)
    BY CveAssumption, FS_Subset DEF PodMaps
  <1>2. f \in Surjection(DOMAIN ps, T)
    BY DEF Surjection
  <1>3. IsFiniteSet(T)
    <2> HIDE DEF f, T
    <2> QED BY <1>1, <1>2, FS_Surjection
  <1>4. \A t \in T : IsFiniteSet(t)
    <2>1. ASSUME NEW p \in DOMAIN ps PROVE IsFiniteSet(At(ps, p, d))
      BY AtSize, CveAssumption DEF PodMaps
    <2> QED BY <2>1
  <1>5. IsFiniteSet(Occ(ps, d))
    BY <1>3, <1>4, FS_UNION DEF Occ
  <1>6. UsesBy(ps)[d] = Cardinality(Occ(ps, d))
    BY DEF UsesBy, Occ, At
  <1> QED BY <1>5, <1>6, FS_CardinalityType

(* One pod apart: its containers and the others'. *)
LEMMA OccSplit ==
    ASSUME NEW ps, PodMaps(ps), NEW p \in DOMAIN ps, NEW rest, PodMaps(rest),
           DOMAIN rest = DOMAIN ps \ {p}, \A q \in DOMAIN rest : rest[q] = ps[q],
           NEW d \in Digest
    PROVE  UsesBy(ps)[d] = UsesBy(rest)[d] + Uses(ps[p])[d]
  <1>1. Occ(ps, d) = Occ(rest, d) \cup At(ps, p, d)
    BY DEF Occ, At
  <1>2. Occ(rest, d) \cap At(ps, p, d) = {}
    BY DEF Occ, At
  <1>3. /\ IsFiniteSet(Occ(rest, d)) /\ UsesBy(rest)[d] = Cardinality(Occ(rest, d))
        /\ UsesBy(rest)[d] \in Nat /\ UsesBy(ps)[d] = Cardinality(Occ(ps, d))
    BY OccSize
  <1>4. IsFiniteSet(At(ps, p, d)) /\ Cardinality(At(ps, p, d)) = Uses(ps[p])[d] /\ Uses(ps[p])[d] \in Nat
    <2>1. ps[p] \in Seq(Digest)
      BY CveAssumption DEF PodMaps
    <2>2. Uses(ps[p])[d] \in Nat
      BY <2>1, UsesNat
    <2> QED BY <2>1, <2>2, AtSize
  <1>5. Cardinality(Occ(ps, d)) = Cardinality(Occ(rest, d)) + Cardinality(At(ps, p, d)) - Cardinality({})
    BY <1>1, <1>2, <1>3, <1>4, FS_Union
  <1>6. Cardinality({}) = 0
    BY FS_EmptySet
  <1> QED BY <1>3, <1>4, <1>5, <1>6

(* An image without containers uses nothing. *)
LEMMA UsesNone ==
    ASSUME NEW d \in Digest
    PROVE  Uses(<<>>)[d] = 0
  <1>1. <<>> \in Seq(Digest) /\ DOMAIN <<>> = {}
    OBVIOUS
  <1>2. Uses(<<>>)[d] \in Nat /\ ~(Uses(<<>>)[d] > 0)
    BY <1>1, UsesNat
  <1> QED BY <1>2

(* What PodImageDigests may return, or nothing. *)
LEMMA ImageUses ==
    ASSUME NEW image \in Image \union {<<>>}
    PROVE  image \in Seq(Digest) /\ \A d \in Digest : Uses(image)[d] \in Nat
  <1>1. <<>> \in Seq(Digest)
    OBVIOUS
  <1>2. image \in Seq(Digest)
    BY <1>1, CveAssumption, Zenon
  <1> QED BY <1>2, UsesNat

-----------------------------------------------------------------------------
(* The store's operations.                                                 *)

(* A row, present or not, has a count. *)
LEMMA RowTyped ==
    ASSUME NEW s, StoreOK(s), NEW d \in Digest
    PROVE  Row(s, d) \in [refs : Nat, age : Ages] /\ Row(s, d).refs \in Nat
  <1>1. [refs |-> 0, age |-> "never"] \in [refs : Nat, age : Ages]
    BY DEF Ages
  <1>2. Row(s, d) \in [refs : Nat, age : Ages]
    BY <1>1 DEF StoreOK, Row
  <1> QED BY <1>2

(* UpsertDigest keeps the counts. *)
LEMMA UpsertFacts ==
    ASSUME NEW s, StoreOK(s), NEW D, D \subseteq Digest
    PROVE  /\ StoreOK(UpsertDigest(s, D))
           /\ \A d \in Digest : Row(UpsertDigest(s, D), d).refs = Row(s, d).refs
  <1> DEFINE t == UpsertDigest(s, D)
  <1>1. DOMAIN t = DOMAIN s \cup D /\ DOMAIN t \subseteq Digest
    BY DEF UpsertDigest, StoreOK
  <1>2. ASSUME NEW d \in DOMAIN t
        PROVE  t[d] \in [refs : Nat, age : Ages] /\ t[d].refs = Row(s, d).refs
    <2>1. Row(s, d) \in [refs : Nat, age : Ages]
      BY <1>1, <1>2, RowTyped
    <2>2. t[d] = IF d \in D THEN [Row(s, d) EXCEPT !.age = "fresh"] ELSE s[d]
      BY <1>2 DEF UpsertDigest
    <2>3. d \notin D => s[d] = Row(s, d)
      BY <1>1, <1>2 DEF Row
    <2> HIDE DEF t
    <2> QED BY <2>1, <2>2, <2>3 DEF Ages
  <1>3. ASSUME NEW d \in Digest PROVE Row(t, d).refs = Row(s, d).refs
    <2>1. CASE d \in DOMAIN t
      BY <1>2, <2>1 DEF Row
    <2>2. CASE d \notin DOMAIN t
      BY <1>1, <2>2 DEF Row
    <2> QED BY <2>1, <2>2
  <1> QED BY <1>1, <1>2, <1>3 DEF StoreOK

(* IncDigestRef adds exactly what it is given. *)
LEMMA IncFacts ==
    ASSUME NEW s, StoreOK(s), NEW D, D \subseteq Digest, NEW n, \A d \in D : n[d] \in Nat
    PROVE  /\ StoreOK(IncDigestRef(s, D, n))
           /\ \A d \in Digest : Row(IncDigestRef(s, D, n), d).refs
                                 = Row(s, d).refs + (IF d \in D THEN n[d] ELSE 0)
  <1> DEFINE t == IncDigestRef(s, D, n)
  <1>1. DOMAIN t = DOMAIN s \cup D /\ DOMAIN t \subseteq Digest
    BY DEF IncDigestRef, StoreOK
  <1>2. ASSUME NEW d \in DOMAIN t
        PROVE  /\ t[d] \in [refs : Nat, age : Ages]
               /\ t[d].refs = Row(s, d).refs + (IF d \in D THEN n[d] ELSE 0)
    <2>1. Row(s, d) \in [refs : Nat, age : Ages]
      BY <1>1, <1>2, RowTyped
    <2>2. t[d] = IF d \in D THEN [Row(s, d) EXCEPT !.refs = @ + n[d]] ELSE s[d]
      BY <1>2 DEF IncDigestRef
    <2>3. d \notin D => s[d] = Row(s, d)
      BY <1>1, <1>2 DEF Row
    <2> HIDE DEF t
    <2> QED BY <2>1, <2>2, <2>3
  <1>3. ASSUME NEW d \in Digest
        PROVE  Row(t, d).refs = Row(s, d).refs + (IF d \in D THEN n[d] ELSE 0)
    <2>1. CASE d \in DOMAIN t
      BY <1>2, <2>1 DEF Row
    <2>2. CASE d \notin DOMAIN t
      BY <1>1, <2>2 DEF Row
    <2> QED BY <2>1, <2>2
  <1> QED BY <1>1, <1>2, <1>3 DEF StoreOK

\* The same with its parts named.
Amounts(n, D) == \A d \in D : n[d] \in Nat
Adds(s, t, D, n) ==
    /\ StoreOK(t)
    /\ \A d \in Digest : Row(t, d).refs = Row(s, d).refs + (IF d \in D THEN n[d] ELSE 0)

LEMMA IncAdds ==
    ASSUME NEW s, StoreOK(s), NEW D, D \subseteq Digest, NEW n, Amounts(n, D)
    PROVE  Adds(s, IncDigestRef(s, D, n), D, n)
  <1>1. \A d \in D : n[d] \in Nat
    BY DEF Amounts
  <1> QED BY <1>1, IncFacts DEF Adds

(* DecDigestRef drops what it is given, down to zero. *)
LEMMA DecFacts ==
    ASSUME NEW s, StoreOK(s), NEW n, \A d \in Digest : n[d] \in Nat
    PROVE  /\ StoreOK(DecDigestRef(s, n))
           /\ \A d \in Digest :
                Row(DecDigestRef(s, n), d).refs
                  = IF Row(s, d).refs > n[d] THEN Row(s, d).refs - n[d] ELSE 0
  <1> DEFINE t == DecDigestRef(s, n)
  <1>1. DOMAIN t = DOMAIN s /\ DOMAIN t \subseteq Digest
    BY DEF DecDigestRef, StoreOK
  <1>2. ASSUME NEW d \in DOMAIN t
        PROVE  /\ t[d] \in [refs : Nat, age : Ages]
               /\ t[d].refs = IF s[d].refs > n[d] THEN s[d].refs - n[d] ELSE 0
    <2>1. s[d] \in [refs : Nat, age : Ages] /\ n[d] \in Nat
      BY <1>1, <1>2 DEF StoreOK
    <2>2. t[d] = [s[d] EXCEPT !.refs = IF @ > n[d] THEN @ - n[d] ELSE 0]
      BY <1>2 DEF DecDigestRef
    <2> HIDE DEF t
    <2> QED BY <2>1, <2>2
  <1>3. ASSUME NEW d \in Digest
        PROVE  Row(t, d).refs = IF Row(s, d).refs > n[d] THEN Row(s, d).refs - n[d] ELSE 0
    <2>1. CASE d \in DOMAIN t
      BY <1>1, <1>2, <2>1 DEF Row
    <2>2. CASE d \notin DOMAIN t
      BY <1>1, <2>2 DEF Row
    <2> QED BY <2>1, <2>2
  <1> QED BY <1>1, <1>2, <1>3 DEF StoreOK

-----------------------------------------------------------------------------
(* The inductive invariant.                                                *)

\* What an event makes of the number of containers that run d.
Effect(e, d) == IF e.initial THEN 0 ELSE Uses(e.new)[d] - Uses(e.old)[d]

\* K[i] is how often each digest was used when event i of q had happened and
\* none after it; u is how often they are used now.
IsTrail(K, q, u) ==
    /\ K \in [0 .. Len(q) -> [Digest -> Nat]]
    /\ K[Len(q)] = u
    /\ \A i \in 1 .. Len(q) : \A d \in Digest : K[i][d] = K[i - 1][d] + Effect(q[i], d)

\* The counts against the uses u, as far as no race has spoilt them.
Bounded(u) ==
    \A d \in Digest : (~low => Refs(d) >= u[d]) /\ (~high => Refs(d) <= u[d])

\* The counts are those of what the hydrate listed, then those of what the
\* hook has handled.
CountOK ==
    /\ informer = "off" => Bounded(UsesBy(listed))
    /\ informer # "off" => \E K : IsTrail(K, queue, UsesBy(pods)) /\ Bounded(K[0])

CountInv == CveInv /\ CountOK

(* Counts and history untouched, or the history only darker. *)
LEMMA BoundedKept ==
    ASSUME NEW u, Bounded(u), \A d \in Digest : Refs(d)' = Refs(d),
           low => low', high => high'
    PROVE  \A d \in Digest : (~low' => Refs(d)' >= u[d]) /\ (~high' => Refs(d)' <= u[d])
  BY DEF Bounded

(* A step that leaves cluster, informer, queue and counts alone. *)
LEMMA CountKept ==
    ASSUME CountOK, UNCHANGED <<pods, informer, queue, low, high, listed>>,
           \A d \in Digest : Refs(d)' = Refs(d)
    PROVE  CountOK'
  <1>1. ASSUME NEW u, Bounded(u)
        PROVE  \A d \in Digest : (~low' => Refs(d)' >= u[d]) /\ (~high' => Refs(d)' <= u[d])
    BY <1>1, BoundedKept
  <1> QED BY <1>1 DEF CountOK, Bounded

-----------------------------------------------------------------------------
(* Trails: an event more at the end, the first one handled, none yet.      *)

(* The uses of a cluster are a number for each digest. *)
LEMMA UsesByTyped ==
    ASSUME NEW ps, PodMaps(ps)
    PROVE  UsesBy(ps) \in [Digest -> Nat]
  <1>1. \A d \in Digest : UsesBy(ps)[d] \in Nat
    BY OccSize
  <1>2. UsesBy(ps) = [d \in Digest |-> UsesBy(ps)[d]]
    BY DEF UsesBy
  <1> QED BY <1>1, <1>2

LEMMA TrailAppend ==
    ASSUME NEW q \in Seq(Events), NEW K, NEW u, IsTrail(K, q, u), NEW e \in Events,
           NEW v \in [Digest -> Nat], \A d \in Digest : v[d] = u[d] + Effect(e, d)
    PROVE  \E L : IsTrail(L, Append(q, e), v) /\ L[0] = K[0]
  <1> DEFINE r == Append(q, e)
             L == [i \in 0 .. Len(r) |-> IF i <= Len(q) THEN K[i] ELSE v]
  <1>1. Len(q) \in Nat /\ Len(r) = Len(q) + 1 /\ r[Len(q) + 1] = e /\ \A i \in 1 .. Len(q) : r[i] = q[i]
    OBVIOUS
  <1> HIDE DEF r
  <1>2. L \in [0 .. Len(r) -> [Digest -> Nat]] /\ L[Len(r)] = v /\ L[0] = K[0]
    BY <1>1 DEF IsTrail
  <1>3. ASSUME NEW i \in 1 .. Len(r), NEW d \in Digest
        PROVE  L[i][d] = L[i - 1][d] + Effect(r[i], d)
    <2>1. CASE i = Len(q) + 1
      <3>1. L[i] = v /\ L[i - 1] = u /\ r[i] = e
        BY <1>1, <2>1 DEF IsTrail
      <3> QED BY <3>1
    <2>2. CASE i # Len(q) + 1
      <3>1. i \in 1 .. Len(q) /\ L[i] = K[i] /\ L[i - 1] = K[i - 1] /\ r[i] = q[i]
        BY <1>1, <2>2
      <3> QED BY <3>1 DEF IsTrail
    <2> QED BY <2>1, <2>2
  <1>4. IsTrail(L, r, v)
    BY <1>2, <1>3 DEF IsTrail
  <1> QED BY <1>2, <1>4 DEF r

LEMMA TrailTail ==
    ASSUME NEW q \in Seq(Events), q # <<>>, NEW K, NEW u, IsTrail(K, q, u)
    PROVE  \E L : IsTrail(L, Tail(q), u) /\ L[0] = K[1]
  <1> DEFINE r == Tail(q)
             L == [i \in 0 .. Len(r) |-> K[i + 1]]
  <1>1. Len(q) \in Nat \ {0} /\ Len(r) = Len(q) - 1 /\ \A i \in 1 .. Len(r) : r[i] = q[i + 1]
    BY EmptySeq, HeadTailProperties
  <1> HIDE DEF r
  <1>2. L \in [0 .. Len(r) -> [Digest -> Nat]] /\ L[Len(r)] = u /\ L[0] = K[1]
    BY <1>1 DEF IsTrail
  <1>3. ASSUME NEW i \in 1 .. Len(r), NEW d \in Digest
        PROVE  L[i][d] = L[i - 1][d] + Effect(r[i], d)
    <2>1. i + 1 \in 1 .. Len(q) /\ L[i] = K[i + 1] /\ L[i - 1] = K[i] /\ r[i] = q[i + 1]
      BY <1>1
    <2>2. K[i + 1][d] = K[(i + 1) - 1][d] + Effect(q[i + 1], d)
      BY <2>1 DEF IsTrail
    <2>3. (i + 1) - 1 = i
      BY <1>1
    <2> QED BY <2>1, <2>2, <2>3
  <1>4. IsTrail(L, r, u)
    BY <1>2, <1>3 DEF IsTrail
  <1> QED BY <1>2, <1>4 DEF r

LEMMA TrailInitial ==
    ASSUME NEW q \in Seq(Events), \A i \in 1 .. Len(q) : q[i].initial, NEW u \in [Digest -> Nat]
    PROVE  \E L : IsTrail(L, q, u) /\ L[0] = u
  <1> DEFINE L == [i \in 0 .. Len(q) |-> u]
  <1>1. Len(q) \in Nat
    OBVIOUS
  <1>2. L \in [0 .. Len(q) -> [Digest -> Nat]] /\ L[Len(q)] = u /\ L[0] = u
    BY <1>1
  <1>3. ASSUME NEW i \in 1 .. Len(q), NEW d \in Digest
        PROVE  L[i][d] = L[i - 1][d] + Effect(q[i], d)
    <2>1. L[i] = u /\ L[i - 1] = u /\ u[d] \in Nat
      BY <1>1
    <2>2. Effect(q[i], d) = 0
      BY DEF Effect
    <2> QED BY <2>1, <2>2
  <1> QED BY <1>2, <1>3 DEF IsTrail

-----------------------------------------------------------------------------
(* The cluster.                                                            *)

\* e is the notification of a change, and moves the uses by its effect.
Announces(e) ==
    /\ e \in Events /\ ~e.initial
    /\ e.kind = "add" => e.old = <<>>
    /\ e.kind = "delete" => e.new = <<>>
    /\ queue' = IF informer = "off" THEN queue ELSE Append(queue, e)
    /\ \A d \in Digest : UsesBy(pods')[d] = UsesBy(pods)[d] + Effect(e, d)

LEMMA Announced ==
    ASSUME NEW p \in Pod, NEW kind \in {"add", "update", "delete"},
           NEW old \in Image \union {<<>>}, NEW new \in Image \union {<<>>},
           kind = "add" => old = <<>>, kind = "delete" => new = <<>>,
           \A d \in Digest : UsesBy(pods)[d] \in Nat /\ UsesBy(pods')[d] \in Nat,
           \A d \in Digest : UsesBy(pods')[d] + Uses(old)[d] = UsesBy(pods)[d] + Uses(new)[d],
           Notify(kind, p, old, new)
    PROVE  \E e : Announces(e)
  <1> DEFINE e == Event(kind, p, old, new, FALSE)
  <1>1. e \in Events /\ e.kind = kind /\ e.old = old /\ e.new = new /\ e.initial = FALSE
    BY DEF Event, Events
  <1>2. queue' = IF informer = "off" THEN queue ELSE Append(queue, e)
    BY DEF Notify
  <1> HIDE DEF e
  <1>3. ASSUME NEW d \in Digest PROVE UsesBy(pods')[d] = UsesBy(pods)[d] + Effect(e, d)
    <2>1. Effect(e, d) = Uses(new)[d] - Uses(old)[d]
      BY <1>1 DEF Effect
    <2>2. Uses(new)[d] \in Nat /\ Uses(old)[d] \in Nat
      BY ImageUses
    <2> QED BY <2>1, <2>2
  <1> QED BY <1>1, <1>2, <1>3, Zenon DEF Announces

(* A change of one pod is announced by an event. *)
LEMMA ChangeEffect ==
    ASSUME CveInv, NEW p \in Pod, Change(p)
    PROVE  PodMaps(pods') /\ \E e : Announces(e)
  <1>1. PodMaps(pods) /\ \A d \in Digest : UsesBy(pods)[d] \in Nat
    BY OccSize DEF CveInv, CveTypeOK, PodMaps
  <1>2. <<>> \in Image \union {<<>>} /\ Image \subseteq Image \union {<<>>}
    OBVIOUS
  <1>3. ASSUME p \notin DOMAIN pods, NEW image \in Image,
               pods' = [q \in DOMAIN pods \union {p} |-> IF q = p THEN image ELSE pods[q]],
               Notify("add", p, <<>>, image)
        PROVE  PodMaps(pods') /\ \E e : Announces(e)
    <2>1. /\ PodMaps(pods') /\ p \in DOMAIN pods' /\ pods'[p] = image
          /\ DOMAIN pods = DOMAIN pods' \ {p} /\ \A q \in DOMAIN pods : pods[q] = pods'[q]
      BY <1>1, <1>3 DEF PodMaps
    <2>2. ASSUME NEW d \in Digest
          PROVE  /\ UsesBy(pods')[d] \in Nat
                 /\ UsesBy(pods')[d] + Uses(<<>>)[d] = UsesBy(pods)[d] + Uses(image)[d]
      <3>1. UsesBy(pods')[d] = UsesBy(pods)[d] + Uses(image)[d]
        BY <1>1, <2>1, OccSplit
      <3>2. UsesBy(pods')[d] \in Nat
        BY <2>1, OccSize
      <3>3. UsesBy(pods')[d] + Uses(<<>>)[d] = UsesBy(pods')[d]
        BY <3>2, UsesNone
      <3> QED BY <3>1, <3>2, <3>3
    <2>3. "add" \in {"add", "update", "delete"} /\ "add" # "delete" /\ image \in Image \union {<<>>}
      BY <1>3
    <2>4. \E e : Announces(e)
      BY <1>1, <1>2, <1>3, <2>2, <2>3, Announced, Zenon
    <2> QED BY <2>1, <2>4
  <1>4. ASSUME p \in DOMAIN pods, NEW image \in Image,
               pods' = [pods EXCEPT ![p] = image],
               Notify("update", p, pods[p], image)
        PROVE  PodMaps(pods') /\ \E e : Announces(e)
    <2> DEFINE rest == [q \in DOMAIN pods \ {p} |-> pods[q]]
    <2>1. /\ PodMaps(pods') /\ p \in DOMAIN pods' /\ pods'[p] = image
          /\ DOMAIN pods' = DOMAIN pods /\ \A q \in DOMAIN pods \ {p} : pods[q] = pods'[q]
          /\ pods[p] \in Image
      BY <1>1, <1>4 DEF PodMaps
    <2>2. /\ PodMaps(rest) /\ DOMAIN rest = DOMAIN pods \ {p} /\ DOMAIN rest = DOMAIN pods' \ {p}
          /\ \A q \in DOMAIN rest : rest[q] = pods[q]
          /\ \A q \in DOMAIN rest : rest[q] = pods'[q]
      BY <1>1, <2>1 DEF PodMaps
    <2> HIDE DEF rest
    <2>3. ASSUME NEW d \in Digest
          PROVE  /\ UsesBy(pods')[d] \in Nat
                 /\ UsesBy(pods')[d] + Uses(pods[p])[d] = UsesBy(pods)[d] + Uses(image)[d]
      <3>1. UsesBy(pods')[d] = UsesBy(rest)[d] + Uses(pods'[p])[d]
        <4>1. PodMaps(pods') /\ PodMaps(rest) /\ p \in DOMAIN pods' /\ DOMAIN rest = DOMAIN pods' \ {p}
          BY <2>1, <2>2
        <4>2. \A q \in DOMAIN rest : rest[q] = pods'[q]
          BY <2>2
        <4> QED BY <4>1, <4>2, OccSplit
      <3>2. UsesBy(pods)[d] = UsesBy(rest)[d] + Uses(pods[p])[d]
        <4>1. PodMaps(pods) /\ PodMaps(rest) /\ p \in DOMAIN pods /\ DOMAIN rest = DOMAIN pods \ {p}
          BY <1>1, <1>4, <2>2
        <4>2. \A q \in DOMAIN rest : rest[q] = pods[q]
          BY <2>2
        <4> QED BY <4>1, <4>2, OccSplit
      <3>3. Uses(image)[d] \in Nat /\ Uses(pods[p])[d] \in Nat /\ UsesBy(rest)[d] \in Nat
        BY <1>4, <2>1, <2>2, OccSize, ImageUses
      <3> QED BY <2>1, <3>1, <3>2, <3>3
    <2>4. /\ "update" \in {"add", "update", "delete"} /\ "update" # "add" /\ "update" # "delete"
          /\ image \in Image \union {<<>>} /\ pods[p] \in Image \union {<<>>}
      BY <1>4, <2>1
    <2>5. \E e : Announces(e)
      BY <1>1, <1>4, <2>3, <2>4, Announced, Zenon
    <2> QED BY <2>1, <2>5
  <1>5. ASSUME p \in DOMAIN pods, pods' = [q \in DOMAIN pods \ {p} |-> pods[q]],
               Notify("delete", p, pods[p], <<>>)
        PROVE  PodMaps(pods') /\ \E e : Announces(e)
    <2>1. /\ PodMaps(pods') /\ DOMAIN pods' = DOMAIN pods \ {p}
          /\ \A q \in DOMAIN pods' : pods'[q] = pods[q]
          /\ pods[p] \in Image
      BY <1>1, <1>5 DEF PodMaps
    <2>2. ASSUME NEW d \in Digest
          PROVE  /\ UsesBy(pods')[d] \in Nat
                 /\ UsesBy(pods')[d] + Uses(pods[p])[d] = UsesBy(pods)[d] + Uses(<<>>)[d]
      <3>1. UsesBy(pods)[d] = UsesBy(pods')[d] + Uses(pods[p])[d]
        <4>1. PodMaps(pods) /\ PodMaps(pods') /\ p \in DOMAIN pods /\ DOMAIN pods' = DOMAIN pods \ {p}
          BY <1>1, <1>5, <2>1
        <4>2. \A q \in DOMAIN pods' : pods'[q] = pods[q]
          BY <2>1
        <4> QED BY <4>1, <4>2, OccSplit
      <3>2. UsesBy(pods')[d] \in Nat
        BY <2>1, OccSize
      <3>3. UsesBy(pods)[d] + Uses(<<>>)[d] = UsesBy(pods)[d]
        BY <1>1, UsesNone
      <3> QED BY <3>1, <3>2, <3>3
    <2>3. /\ "delete" \in {"add", "update", "delete"} /\ "delete" # "add"
          /\ pods[p] \in Image \union {<<>>}
      BY <2>1
    <2>4. \E e : Announces(e)
      BY <1>1, <1>2, <1>5, <2>2, <2>3, Announced, Zenon
    <2> QED BY <2>1, <2>4
  <1> QED BY <1>3, <1>4, <1>5 DEF Change

(* A pod is created, changed or deleted. *)
LEMMA ChangeStep ==
    ASSUME CountInv, NEW p \in Pod, Change(p)
    PROVE  CountInv'
  <1>1. PodMaps(pods') /\ \E e : Announces(e)
    BY ChangeEffect DEF CountInv
  <1>2. PICK e : Announces(e)
    BY <1>1
  <1>3. /\ changes < MaxChanges /\ changes' = changes + 1
        /\ UNCHANGED <<hyd, listed, informer, store, jobs, loop, low, high>>
    BY DEF Change, hydrate
  <1>4. CveTypeOK'
    <2>1. changes' \in 0 .. MaxChanges
      BY <1>3, CveAssumption DEF CountInv, CveInv, CveTypeOK
    <2> QED BY <1>1, <1>3, <2>1 DEF CountInv, CveInv, CveTypeOK, PodMaps
  <1>5. queue \in Seq(Events) /\ e \in Events /\ ~e.initial
    BY <1>2 DEF CountInv, CveInv, QueueOK, Announces
  <1>6. QueueOK'
    <2>1. CASE queue' = queue
      BY <2>1 DEF CountInv, CveInv, QueueOK
    <2>2. CASE queue' = Append(queue, e)
      <3>1. /\ queue' \in Seq(Events) /\ Len(queue') = Len(queue) + 1 /\ Len(queue) \in Nat
            /\ queue'[Len(queue) + 1] = e /\ \A i \in 1 .. Len(queue) : queue'[i] = queue[i]
        BY <1>5, <2>2
      <3>2. ASSUME NEW i \in 1 .. Len(queue')
            PROVE  /\ queue'[i].kind = "add" => queue'[i].old = <<>>
                   /\ queue'[i].kind = "delete" => queue'[i].new = <<>>
                   /\ queue'[i].initial => queue'[i].kind = "add"
        <4>1. CASE i = Len(queue) + 1
          BY <1>2, <3>1, <4>1 DEF Announces
        <4>2. CASE i # Len(queue) + 1
          <5>1. i \in 1 .. Len(queue) /\ queue'[i] = queue[i]
            BY <3>1, <4>2
          <5> QED BY <5>1 DEF CountInv, CveInv, QueueOK
        <4> QED BY <4>1, <4>2
      <3> QED BY <3>1, <3>2 DEF QueueOK
    <2> QED BY <1>2, <2>1, <2>2 DEF Announces
  <1>7. PhaseOK'
    BY <1>2, <1>3 DEF CountInv, CveInv, PhaseOK, Announces
  <1>8. CountOK'
    <2>1. CASE informer = "off"
      BY <1>3, <2>1 DEF CountInv, CountOK, Bounded, Refs
    <2>2. CASE informer # "off"
      <3>1. PICK K : IsTrail(K, queue, UsesBy(pods)) /\ Bounded(K[0])
        BY <2>2 DEF CountInv, CountOK
      <3>2. UsesBy(pods') \in [Digest -> Nat] /\ \A d \in Digest : UsesBy(pods')[d] = UsesBy(pods)[d] + Effect(e, d)
        BY <1>1, <1>2, UsesByTyped DEF Announces
      <3>3. PICK L : IsTrail(L, Append(queue, e), UsesBy(pods')) /\ L[0] = K[0]
        BY <1>5, <3>1, <3>2, TrailAppend
      <3>4. queue' = Append(queue, e)
        BY <1>2, <2>2 DEF Announces
      <3>5. \A d \in Digest : (~low' => Refs(d)' >= L[0][d]) /\ (~high' => Refs(d)' <= L[0][d])
        BY <1>3, <3>1, <3>3 DEF Bounded, Refs
      <3>6. IsTrail(L, queue', UsesBy(pods'))
        BY <3>3, <3>4
      <3> QED BY <1>3, <2>2, <3>5, <3>6 DEF CountOK, Bounded
    <2> QED BY <2>1, <2>2
  <1> QED BY <1>4, <1>6, <1>7, <1>8 DEF CountInv, CveInv

-----------------------------------------------------------------------------
(* The hydrate.                                                            *)

(* Hydrate steps that only move on. *)
LEMMA HydrateMoves ==
    ASSUME CountInv, EnsureHydrated \/ Probe \/ HydrateListFails
    PROVE  CountInv'
  <1>1. /\ hyd \in {"cold", "probe", "list"} /\ hyd' \in {"probe", "list", "off", "failed", "ready"}
        /\ UNCHANGED <<pods, changes, listed, informer, queue, store, jobs, loop, low, high>>
    BY DEF EnsureHydrated, Probe, HydrateListFails, cluster
  <1>2. CveTypeOK'
    BY <1>1 DEF CountInv, CveInv, CveTypeOK
  <1>3. QueueOK' /\ PhaseOK'
    BY <1>1 DEF CountInv, CveInv, QueueOK, PhaseOK
  <1>4. CountOK'
    BY <1>1, CountKept DEF CountInv, Refs
  <1> QED BY <1>2, <1>3, <1>4 DEF CountInv, CveInv

(* Everything the hydrate lists is counted, and nothing was before. *)
LEMMA HydrateListStep ==
    ASSUME CountInv, HydrateList
    PROVE  CountInv'
  <1> DEFINE D == {d \in Digest : Live(d) > 0}
  <1>1. /\ hyd = "list" /\ hyd' = "fetch" /\ listed' = pods
        /\ store' = IncDigestRef(store, D, UsesBy(pods))
        /\ UNCHANGED <<pods, changes, informer, queue, jobs, loop, low, high>>
    BY DEF HydrateList, cluster
  <1>2. PodMaps(pods) /\ StoreOK(store) /\ DOMAIN store = {} /\ informer = "off"
    BY <1>1 DEF CountInv, CveInv, CveTypeOK, PhaseOK, PodMaps
  <1>3. \A d \in Digest : UsesBy(pods)[d] \in Nat /\ Live(d) = UsesBy(pods)[d]
    BY <1>2, OccSize DEF Live
  <1>4. /\ StoreOK(store')
        /\ \A d \in Digest : Row(store', d).refs = Row(store, d).refs + (IF d \in D THEN UsesBy(pods)[d] ELSE 0)
    <2>1. D \subseteq Digest /\ \A d \in D : UsesBy(pods)[d] \in Nat
      BY <1>3
    <2> HIDE DEF D
    <2> QED BY <1>1, <1>2, <2>1, IncFacts
  <1>5. \A d \in Digest : Row(store', d).refs = UsesBy(pods)[d]
    <2>1. \A d \in Digest : Row(store, d).refs = 0
      BY <1>2 DEF Row
    <2> QED BY <1>3, <1>4, <2>1
  <1>6. CveTypeOK'
    BY <1>1, <1>4 DEF CountInv, CveInv, CveTypeOK
  <1>7. QueueOK' /\ PhaseOK'
    BY <1>1, <1>2 DEF CountInv, CveInv, QueueOK, PhaseOK, PodMaps
  <1>8. CountOK'
    BY <1>1, <1>2, <1>3, <1>5 DEF CountOK, Bounded, Refs
  <1> QED BY <1>6, <1>7, <1>8 DEF CountInv, CveInv

(* A store that only gets findings keeps its counts. *)
LEMMA FindingsStep ==
    ASSUME CountInv, StoreOK(store'), \A d \in Digest : Row(store', d).refs = Row(store, d).refs,
           UNCHANGED <<pods, changes, listed, informer, queue, low, high>>,
           hyd' = hyd \/ (hyd = "fetch" /\ hyd' = "ready"),
           hyd = "fetch" \/ hyd' = "ready",
           jobs' \subseteq Digest, loop' \in [pc : {"idle", "ttl", "evict"}, keys : SUBSET Digest],
           hyd # "ready" => jobs' = jobs /\ loop' = loop
    PROVE  CountInv'
  <1>1. CveTypeOK'
    BY DEF CountInv, CveInv, CveTypeOK
  <1>2. QueueOK' /\ PhaseOK'
    BY DEF CountInv, CveInv, QueueOK, PhaseOK
  <1>3. CountOK'
    BY CountKept DEF CountInv, Refs
  <1> QED BY <1>1, <1>2, <1>3 DEF CountInv, CveInv

-----------------------------------------------------------------------------
(* The informer.                                                           *)

(* The initial notifications, one for each pod, in some order. *)
LEMMA InitialQueue ==
    ASSUME PodMaps(pods)
    PROVE  LET q == SetToSeq({Event("add", p, <<>>, pods[p], TRUE) : p \in DOMAIN pods})
           IN  q \in Seq(Events) /\ \A i \in 1 .. Len(q) :
                 q[i].initial /\ q[i].kind = "add" /\ q[i].old = <<>>
  <1> DEFINE S == {Event("add", p, <<>>, pods[p], TRUE) : p \in DOMAIN pods}
             f == [p \in DOMAIN pods |-> Event("add", p, <<>>, pods[p], TRUE)]
             q == SetToSeq(S)
  <1>1. IsFiniteSet(DOMAIN pods)
    BY CveAssumption, FS_Subset DEF PodMaps
  <1>2. f \in Surjection(DOMAIN pods, S)
    BY DEF Surjection
  <1>3. \A e \in S : e \in Events /\ e.initial /\ e.kind = "add" /\ e.old = <<>>
    <2>1. ASSUME NEW p \in DOMAIN pods
          PROVE  LET e == Event("add", p, <<>>, pods[p], TRUE)
                 IN  e \in Events /\ e.initial /\ e.kind = "add" /\ e.old = <<>>
      BY DEF PodMaps, Event, Events
    <2> QED BY <2>1
  <1> HIDE DEF S, f
  <1>4. IsFiniteSet(S)
    BY <1>1, <1>2, FS_Surjection
  <1>5. Cardinality(S) \in Nat /\ ExistsBijection(1 .. Cardinality(S), S)
    BY <1>4, FS_CardinalityType
  <1>6. \E g \in [1 .. Cardinality(S) -> S] : IsInjective(g)
    BY <1>5 DEF ExistsBijection, Bijection, Injection
  <1>7. q \in [1 .. Cardinality(S) -> S]
    BY <1>6 DEF SetToSeq
  <1> HIDE DEF q
  <1>8. q \in Seq(S) /\ Len(q) = Cardinality(S)
    BY <1>5, <1>7
  <1>9. \A i \in 1 .. Len(q) : q[i] \in S
    BY <1>8
  <1>10. q \in Seq(Events)
    BY <1>3, <1>8
  <1> QED BY <1>3, <1>9, <1>10 DEF q, S

(* The two lists are compared: from here the counts are against the cluster. *)
LEMMA InformerListStep ==
    ASSUME CountInv, InformerList
    PROVE  CountInv'
  <1>1. /\ hyd = "ready" /\ informer = "off" /\ informer' = "listed"
        /\ queue' = SetToSeq({Event("add", p, <<>>, pods[p], TRUE) : p \in DOMAIN pods})
        /\ low' = (low \/ \E d \in Digest : UsesBy(listed)[d] < Live(d))
        /\ high' = (high \/ \E d \in Digest : UsesBy(listed)[d] > Live(d))
        /\ UNCHANGED <<pods, changes, hyd, listed, store, jobs, loop>>
    BY DEF InformerList, cluster, hydrate
  <1>2. PodMaps(pods) /\ PodMaps(listed) /\ Bounded(UsesBy(listed)) /\ StoreOK(store)
    BY <1>1 DEF CountInv, CveInv, CveTypeOK, PhaseOK, CountOK, PodMaps
  <1>3. queue' \in Seq(Events) /\ \A i \in 1 .. Len(queue') :
          queue'[i].initial /\ queue'[i].kind = "add" /\ queue'[i].old = <<>>
    BY <1>1, <1>2, InitialQueue
  <1>4. low' \in BOOLEAN /\ high' \in BOOLEAN
    BY <1>1
  <1>5. CveTypeOK'
    BY <1>1, <1>4 DEF CountInv, CveInv, CveTypeOK
  <1>6. QueueOK'
    BY <1>3 DEF QueueOK
  <1>7. PhaseOK'
    BY <1>1 DEF CountInv, CveInv, PhaseOK
  <1>8. CountOK'
    <2>1. UsesBy(pods) \in [Digest -> Nat]
      BY <1>2, UsesByTyped
    <2>2. PICK L : IsTrail(L, queue', UsesBy(pods)) /\ L[0] = UsesBy(pods)
      BY <1>3, <2>1, TrailInitial
    <2>3. ASSUME NEW d \in Digest
          PROVE  (~low' => Refs(d)' >= L[0][d]) /\ (~high' => Refs(d)' <= L[0][d])
      <3>1. UsesBy(listed)[d] \in Nat /\ UsesBy(pods)[d] \in Nat /\ Refs(d) \in Nat /\ Refs(d)' = Refs(d)
        BY <1>1, <1>2, OccSize, RowTyped DEF Refs
      <3>2. ~low' => ~low /\ ~(UsesBy(listed)[d] < UsesBy(pods)[d])
        BY <1>1 DEF Live
      <3>3. ~high' => ~high /\ ~(UsesBy(listed)[d] > UsesBy(pods)[d])
        BY <1>1 DEF Live
      <3> QED BY <1>2, <2>2, <3>1, <3>2, <3>3 DEF Bounded
    <2>4. IsTrail(L, queue', UsesBy(pods')) /\ informer' # "off"
      BY <1>1, <2>2
    <2> QED BY <2>3, <2>4 DEF CountOK, Bounded
  <1> QED BY <1>5, <1>6, <1>7, <1>8 DEF CountInv, CveInv

LEMMA SyncDoneStep ==
    ASSUME CountInv, SyncDone
    PROVE  CountInv'
  <1>1. /\ informer = "listed" /\ informer' = "synced"
        /\ UNCHANGED <<pods, changes, hyd, listed, queue, store, jobs, loop, low, high>>
    BY DEF SyncDone, cluster, hydrate
  <1>2. CveTypeOK'
    BY <1>1 DEF CountInv, CveInv, CveTypeOK
  <1>3. QueueOK' /\ PhaseOK'
    BY <1>1 DEF CountInv, CveInv, QueueOK, PhaseOK
  <1>4. CountOK'
    BY <1>1 DEF CountInv, CountOK, Bounded, Refs
  <1> QED BY <1>2, <1>3, <1>4 DEF CountInv, CveInv

-----------------------------------------------------------------------------
(* The hook handles the first event: from the uses u to the uses v.        *)

Counted(v) ==
    /\ StoreOK(store') /\ jobs' \subseteq Digest /\ low' \in BOOLEAN /\ high' \in BOOLEAN
    /\ \A d \in Digest : (~low' => Row(store', d).refs >= v[d]) /\ (~high' => Row(store', d).refs <= v[d])

(* onAdd: a pod counted too often or not at all is noted. *)
LEMMA OnAddCounts ==
    ASSUME CveInv, NEW e \in Events, e.old = <<>>, OnAdd(e),
           NEW u \in [Digest -> Nat], NEW v \in [Digest -> Nat],
           \A d \in Digest : v[d] = u[d] + Effect(e, d), Bounded(u)
    PROVE  Counted(v)
  <1> DEFINE D == {d \in Digest : Uses(e.new)[d] > 0}
             counted == informer = "synced"
             s == IF counted THEN IncDigestRef(store, D, Uses(e.new)) ELSE store
  <1>1. StoreOK(store) /\ jobs \subseteq Digest /\ low \in BOOLEAN /\ high \in BOOLEAN
    BY DEF CveInv, CveTypeOK
  <1>2. /\ store' = s /\ jobs' = jobs \union {d \in D : NoFindings(s, d)}
        /\ low' = (low \/ (D # {} /\ ~counted /\ ~e.initial))
        /\ high' = (high \/ (D # {} /\ counted /\ e.initial))
    BY DEF OnAdd
  <1>3. \A d \in Digest : Uses(e.new)[d] \in Nat /\ (d \notin D => Uses(e.new)[d] = 0)
    <2>1. e.new \in Image \union {<<>>}
      BY DEF Events
    <2>2. \A d \in Digest : Uses(e.new)[d] \in Nat
      BY <2>1, ImageUses
    <2> QED BY <2>2
  <1>4. \A d \in Digest : v[d] = u[d] + (IF e.initial THEN 0 ELSE Uses(e.new)[d])
    <2>1. \A d \in Digest : Uses(e.old)[d] = 0
      BY UsesNone, Zenon
    <2> QED BY <1>3, <2>1 DEF Effect
  <1>5. D \subseteq Digest /\ \A d \in D : d \in Digest /\ Uses(e.new)[d] > 0
    OBVIOUS
  <1> HIDE DEF D
  <1>6. /\ StoreOK(s)
        /\ \A d \in Digest : Row(s, d).refs = Row(store, d).refs + (IF counted THEN Uses(e.new)[d] ELSE 0)
    <2>1. CASE counted
      <3>1. /\ StoreOK(IncDigestRef(store, D, Uses(e.new)))
            /\ \A d \in Digest : Row(IncDigestRef(store, D, Uses(e.new)), d).refs
                                   = Row(store, d).refs + (IF d \in D THEN Uses(e.new)[d] ELSE 0)
        <4> DEFINE n == Uses(e.new)
        <4>1. StoreOK(store) /\ D \subseteq Digest /\ \A d \in D : n[d] \in Nat
          BY <1>1, <1>3, <1>5
        <4>2. Amounts(n, D)
          BY <4>1 DEF Amounts
        <4> HIDE DEF n, s, counted
        <4>3. Adds(store, IncDigestRef(store, D, n), D, n)
          BY <4>1, <4>2, IncAdds
        <4> QED BY <4>3 DEF n, Adds
      <3>2. s = IncDigestRef(store, D, Uses(e.new))
        BY <2>1
      <3>3. \A d \in Digest : (IF d \in D THEN Uses(e.new)[d] ELSE 0) = Uses(e.new)[d]
        BY <1>3
      <3> HIDE DEF s, counted
      <3>4. StoreOK(s) /\ \A d \in Digest : Row(s, d).refs = Row(store, d).refs + Uses(e.new)[d]
        BY <3>1, <3>2, <3>3
      <3> QED BY <2>1, <3>4
    <2>2. CASE ~counted
      <3>1. \A d \in Digest : Row(store, d).refs \in Nat
        BY <1>1, RowTyped
      <3>2. s = store
        BY <2>2
      <3> HIDE DEF s, counted
      <3> QED BY <1>1, <2>2, <3>1, <3>2
    <2> QED BY <2>1, <2>2
  <1>7. jobs' \subseteq Digest /\ low' \in BOOLEAN /\ high' \in BOOLEAN
    BY <1>1, <1>2, <1>5
  <1>8. ASSUME NEW d \in Digest
        PROVE  (~low' => Row(s, d).refs >= v[d]) /\ (~high' => Row(s, d).refs <= v[d])
    <2>1. /\ Row(store, d).refs \in Nat /\ u[d] \in Nat /\ Uses(e.new)[d] \in Nat
          /\ Row(s, d).refs = Row(store, d).refs + (IF counted THEN Uses(e.new)[d] ELSE 0)
          /\ v[d] = u[d] + (IF e.initial THEN 0 ELSE Uses(e.new)[d])
      BY <1>1, <1>3, <1>4, <1>6, RowTyped
    <2>2. (~low => Row(store, d).refs >= u[d]) /\ (~high => Row(store, d).refs <= u[d])
      BY DEF Bounded, Refs
    <2>3. D = {} => Uses(e.new)[d] = 0
      BY <1>3
    <2>4. ~low' => ~low /\ (D = {} \/ counted \/ e.initial)
      BY <1>2
    <2>5. ~high' => ~high /\ (D = {} \/ ~counted \/ ~e.initial)
      BY <1>2
    <2> HIDE DEF s, counted
    <2>6. ~low' => Row(s, d).refs >= v[d]
      BY <2>1, <2>2, <2>3, <2>4
    <2>7. ~high' => Row(s, d).refs <= v[d]
      BY <2>1, <2>2, <2>3, <2>5
    <2> QED BY <2>6, <2>7
  <1> QED BY <1>2, <1>6, <1>7, <1>8 DEF Counted

(* onUpdate moves a count by at most one; more is noted. *)
LEMMA OnUpdateCounts ==
    ASSUME CveInv, NEW e \in Events, ~e.initial, OnUpdate(e),
           NEW u \in [Digest -> Nat], NEW v \in [Digest -> Nat],
           \A d \in Digest : v[d] = u[d] + Effect(e, d), Bounded(u)
    PROVE  Counted(v)
  <1> DEFINE old == Range(e.old)
             new == Range(e.new)
             A == new \ old
             B == old \ new
             s == IncDigestRef(store, A, One(A))
             t == DecDigestRef(s, One(B))
  <1>1. StoreOK(store) /\ jobs \subseteq Digest /\ low \in BOOLEAN /\ high \in BOOLEAN
    BY DEF CveInv, CveTypeOK
  <1>2. e.old \in Seq(Digest) /\ e.new \in Seq(Digest)
        /\ \A d \in Digest : Uses(e.new)[d] \in Nat /\ Uses(e.old)[d] \in Nat
    <2>1. e.old \in Image \union {<<>>} /\ e.new \in Image \union {<<>>}
      BY DEF Events
    <2> QED BY <2>1, ImageUses
  <1>3. A \subseteq Digest /\ B \subseteq Digest /\ A \cap B = {}
    BY <1>2 DEF Range
  <1>4. /\ store' = t /\ jobs' = jobs \union A
        /\ low' = (low \/ \E d \in Digest : Uses(e.new)[d] - Uses(e.old)[d] > One(A)[d] - One(B)[d])
        /\ high' = (high \/ \E d \in Digest : Uses(e.new)[d] - Uses(e.old)[d] < One(A)[d] - One(B)[d])
    BY DEF OnUpdate
  <1> HIDE DEF A, B, s, t
  <1>5. \A d \in Digest : One(A)[d] \in Nat /\ One(B)[d] \in Nat /\ One(A)[d] = (IF d \in A THEN 1 ELSE 0)
                           /\ One(B)[d] = (IF d \in B THEN 1 ELSE 0)
    BY DEF One
  <1>6. StoreOK(s) /\ \A d \in Digest : Row(s, d).refs = Row(store, d).refs + One(A)[d]
    <2>1. \A d \in A : One(A)[d] \in Nat
      BY <1>3, <1>5
    <2>2. /\ StoreOK(s)
          /\ \A d \in Digest : Row(s, d).refs = Row(store, d).refs + (IF d \in A THEN One(A)[d] ELSE 0)
      BY <1>1, <1>3, <2>1, IncFacts DEF s
    <2> QED BY <1>5, <2>2
  <1>7. /\ StoreOK(t)
        /\ \A d \in Digest : Row(t, d).refs = IF Row(s, d).refs > One(B)[d] THEN Row(s, d).refs - One(B)[d] ELSE 0
    <2>1. \A d \in Digest : One(B)[d] \in Nat
      BY <1>5
    <2> QED BY <1>6, <2>1, DecFacts DEF t
  <1>8. ASSUME NEW d \in Digest
        PROVE  (~low' => Row(t, d).refs >= v[d]) /\ (~high' => Row(t, d).refs <= v[d])
    <2>1. /\ Row(store, d).refs \in Nat /\ u[d] \in Nat /\ v[d] \in Nat
          /\ Row(s, d).refs = Row(store, d).refs + One(A)[d]
          /\ Row(t, d).refs = IF Row(s, d).refs > One(B)[d] THEN Row(s, d).refs - One(B)[d] ELSE 0
      BY <1>1, <1>6, <1>7, RowTyped
    <2>2. v[d] = u[d] + (Uses(e.new)[d] - Uses(e.old)[d])
      BY <1>2 DEF Effect
    <2>3. One(A)[d] \in {0, 1} /\ One(B)[d] \in {0, 1} /\ (One(A)[d] = 0 \/ One(B)[d] = 0)
      BY <1>3, <1>5
    <2>4. (~low => Row(store, d).refs >= u[d]) /\ (~high => Row(store, d).refs <= u[d])
      BY DEF Bounded, Refs
    <2>5. ~low' => ~low /\ ~(Uses(e.new)[d] - Uses(e.old)[d] > One(A)[d] - One(B)[d])
      BY <1>4
    <2>6. ~high' => ~high /\ ~(Uses(e.new)[d] - Uses(e.old)[d] < One(A)[d] - One(B)[d])
      BY <1>4
    <2>7. ~low' => Row(t, d).refs >= v[d]
      BY <1>2, <2>1, <2>2, <2>3, <2>4, <2>5
    <2>8. ~high' => Row(t, d).refs <= v[d]
      BY <1>2, <2>1, <2>2, <2>3, <2>4, <2>6
    <2> QED BY <2>7, <2>8
  <1>9. jobs' \subseteq Digest /\ low' \in BOOLEAN /\ high' \in BOOLEAN
    BY <1>1, <1>3, <1>4
  <1> QED BY <1>4, <1>7, <1>8, <1>9 DEF Counted

(* onDelete drops what the pod had; the floor at zero costs nothing. *)
LEMMA OnDeleteCounts ==
    ASSUME CveInv, NEW e \in Events, e.new = <<>>, ~e.initial, OnDelete(e),
           NEW u \in [Digest -> Nat], NEW v \in [Digest -> Nat],
           \A d \in Digest : v[d] = u[d] + Effect(e, d), Bounded(u)
    PROVE  Counted(v)
  <1>1. StoreOK(store) /\ jobs \subseteq Digest /\ low \in BOOLEAN /\ high \in BOOLEAN
    BY DEF CveInv, CveTypeOK
  <1>2. store' = DecDigestRef(store, Uses(e.old)) /\ UNCHANGED <<jobs, low, high>>
    BY DEF OnDelete
  <1>3. \A d \in Digest : Uses(e.old)[d] \in Nat
    <2>1. e.old \in Image \union {<<>>}
      BY DEF Events
    <2> QED BY <2>1, ImageUses
  <1>4. \A d \in Digest : v[d] = u[d] + (0 - Uses(e.old)[d])
    <2>1. \A d \in Digest : Uses(e.new)[d] = 0
      BY UsesNone, Zenon
    <2> QED BY <2>1 DEF Effect
  <1>5. /\ StoreOK(store')
        /\ \A d \in Digest : Row(store', d).refs = IF Row(store, d).refs > Uses(e.old)[d]
                                                   THEN Row(store, d).refs - Uses(e.old)[d] ELSE 0
    BY <1>1, <1>2, <1>3, DecFacts
  <1>6. ASSUME NEW d \in Digest
        PROVE  (~low' => Row(store', d).refs >= v[d]) /\ (~high' => Row(store', d).refs <= v[d])
    <2>1. Row(store, d).refs \in Nat /\ u[d] \in Nat /\ v[d] \in Nat /\ Uses(e.old)[d] \in Nat
      BY <1>1, <1>3, RowTyped
    <2>2. (~low' => Row(store, d).refs >= u[d]) /\ (~high' => Row(store, d).refs <= u[d])
      BY <1>2 DEF Bounded, Refs
    <2>3. v[d] = u[d] + (0 - Uses(e.old)[d])
      BY <1>4
    <2>4. Row(store', d).refs = IF Row(store, d).refs > Uses(e.old)[d]
                                THEN Row(store, d).refs - Uses(e.old)[d] ELSE 0
      BY <1>5
    <2>5. ~low' => Row(store', d).refs >= v[d]
      BY <2>1, <2>2, <2>3, <2>4
    <2>6. ~high' => Row(store', d).refs <= v[d]
      BY <2>1, <2>2, <2>3, <2>4
    <2> QED BY <2>5, <2>6
  <1> QED BY <1>1, <1>2, <1>5, <1>6 DEF Counted

(* The first event of the queue. *)
LEMMA HandleStep ==
    ASSUME CountInv, Handle
    PROVE  CountInv'
  <1> DEFINE e == Head(queue)
  <1>1. /\ queue # <<>> /\ queue' = Tail(queue) /\ (OnAdd(e) \/ OnUpdate(e) \/ OnDelete(e))
        /\ UNCHANGED <<pods, changes, hyd, listed, informer, loop>>
    BY DEF Handle, cluster, hydrate
  <1>2. /\ queue \in Seq(Events) /\ Len(queue) \in Nat \ {0} /\ e = queue[1] /\ e \in Events
        /\ Tail(queue) \in Seq(Events) /\ Len(Tail(queue)) = Len(queue) - 1
        /\ \A i \in 1 .. Len(Tail(queue)) : Tail(queue)[i] = queue[i + 1]
    <2>1. queue \in Seq(Events)
      BY DEF CountInv, CveInv, QueueOK
    <2> QED BY <1>1, <2>1, EmptySeq, HeadTailProperties, ElementOfSeq
  <1>3. /\ e.kind = "add" => e.old = <<>>
        /\ e.kind = "delete" => e.new = <<>>
        /\ e.initial => e.kind = "add"
    <2>1. 1 \in 1 .. Len(queue)
      BY <1>2
    <2> QED BY <1>2, <2>1 DEF CountInv, CveInv, QueueOK
  <1>4. informer # "off" /\ hyd = "ready"
    BY <1>1 DEF CountInv, CveInv, PhaseOK
  <1>5. PICK K : IsTrail(K, queue, UsesBy(pods)) /\ Bounded(K[0])
    BY <1>4 DEF CountInv, CountOK
  <1>6. /\ K[0] \in [Digest -> Nat] /\ K[1] \in [Digest -> Nat]
        /\ \A d \in Digest : K[1][d] = K[0][d] + Effect(e, d)
    <2>1. 0 \in 0 .. Len(queue) /\ 1 \in 0 .. Len(queue) /\ 1 \in 1 .. Len(queue) /\ 1 - 1 = 0
      BY <1>2
    <2>2. K[0] \in [Digest -> Nat] /\ K[1] \in [Digest -> Nat]
      BY <1>5, <2>1 DEF IsTrail
    <2>3. \A d \in Digest : K[1][d] = K[1 - 1][d] + Effect(queue[1], d)
      BY <1>5, <2>1 DEF IsTrail
    <2> QED BY <1>2, <2>1, <2>2, <2>3
  <1>7. Counted(K[1])
    <2>0. CveInv
      BY DEF CountInv
    <2>1. CASE OnAdd(e)
      <3>1. e.old = <<>>
        BY <1>3, <2>1 DEF OnAdd
      <3> QED BY <1>2, <1>5, <1>6, <2>0, <2>1, <3>1, OnAddCounts
    <2>2. CASE OnUpdate(e)
      <3>1. ~e.initial
        BY <1>3, <2>2 DEF OnUpdate
      <3> QED BY <1>2, <1>5, <1>6, <2>0, <2>2, <3>1, OnUpdateCounts
    <2>3. CASE OnDelete(e)
      <3>1. e.new = <<>> /\ ~e.initial
        BY <1>3, <2>3 DEF OnDelete
      <3> QED BY <1>2, <1>5, <1>6, <2>0, <2>3, <3>1, OnDeleteCounts
    <2> QED BY <1>1, <2>1, <2>2, <2>3
  <1>8. CveTypeOK'
    BY <1>1, <1>7 DEF CountInv, CveInv, CveTypeOK, Counted
  <1>9. QueueOK'
    <2>1. ASSUME NEW i \in 1 .. Len(queue')
          PROVE  i + 1 \in 1 .. Len(queue) /\ queue'[i] = queue[i + 1]
      BY <1>1, <1>2
    <2> QED BY <1>1, <1>2, <2>1 DEF CountInv, CveInv, QueueOK
  <1>10. PhaseOK'
    BY <1>1, <1>4 DEF CountInv, CveInv, PhaseOK
  <1>11. CountOK'
    <2>1. PICK L : IsTrail(L, Tail(queue), UsesBy(pods)) /\ L[0] = K[1]
      BY <1>1, <1>2, <1>5, TrailTail
    <2>2. IsTrail(L, queue', UsesBy(pods')) /\ informer' # "off"
      BY <1>1, <1>4, <2>1
    <2>3. \A d \in Digest : (~low' => Row(store', d).refs >= L[0][d]) /\ (~high' => Row(store', d).refs <= L[0][d])
      BY <1>7, <2>1 DEF Counted
    <2> QED BY <2>2, <2>3 DEF CountOK, Bounded, Refs
  <1> QED BY <1>8, <1>9, <1>10, <1>11 DEF CountInv, CveInv

-----------------------------------------------------------------------------
(* Fetches, the loop and time.                                             *)

(* A fetch is asked for, ends, or a pass begins: findings at most. *)
LEMMA FetchStep ==
    ASSUME CountInv, HydrateFetch \/ FetchDigests \/ \E d \in Digest : Refresh(d) \/ JobEnds(d)
    PROVE  CountInv'
  <1>1. /\ StoreOK(store) /\ jobs \subseteq Digest /\ DOMAIN store \subseteq Digest
        /\ loop \in [pc : {"idle", "ttl", "evict"}, keys : SUBSET Digest]
        /\ hyd # "ready" => jobs = {} /\ loop = Idle
    BY DEF CountInv, CveInv, CveTypeOK, PhaseOK, StoreOK
  <1>2. Idle \in [pc : {"idle", "ttl", "evict"}, keys : SUBSET Digest] /\ Idle.pc # "ttl"
    BY DEF Idle
  <1>3. loop.keys \subseteq Digest
    BY <1>1
  <1>4. /\ \E D \in SUBSET Digest : store' \in {store, UpsertDigest(store, D)}
        /\ jobs' \subseteq Digest /\ loop' \in [pc : {"idle", "ttl", "evict"}, keys : SUBSET Digest]
        /\ UNCHANGED <<pods, changes, listed, informer, queue, low, high>>
        /\ hyd' = hyd \/ (hyd = "fetch" /\ hyd' = "ready")
        /\ hyd = "fetch" \/ hyd' = "ready"
        /\ hyd # "ready" => jobs' = jobs /\ loop' = loop
    <2>1. CASE HydrateFetch
      <3>1. DOMAIN store \in SUBSET Digest
        BY <1>1
      <3> QED BY <1>1, <2>1, <3>1 DEF HydrateFetch, cluster
    <2>2. CASE \E d \in Digest : Refresh(d)
      BY <1>1, <2>2 DEF Refresh, cluster, hydrate
    <2>3. CASE \E d \in Digest : JobEnds(d)
      <3>1. PICK d \in Digest : JobEnds(d)
        BY <2>3
      <3>2. {d} \in SUBSET Digest /\ hyd = "ready"
        BY <1>1, <3>1 DEF JobEnds
      <3> QED BY <1>1, <3>1, <3>2 DEF JobEnds, cluster, hydrate
    <2>4. CASE FetchDigests
      <3>1. loop.keys \in SUBSET Digest /\ hyd = "ready"
        BY <1>1, <1>2, <1>3, <2>4 DEF FetchDigests
      <3> QED BY <1>1, <1>2, <2>4, <3>1 DEF FetchDigests, cluster, hydrate
    <2> QED BY <2>1, <2>2, <2>3, <2>4
  <1>5. PICK D \in SUBSET Digest : store' \in {store, UpsertDigest(store, D)}
    BY <1>4
  <1>6. StoreOK(UpsertDigest(store, D)) /\ \A k \in Digest : Row(UpsertDigest(store, D), k).refs = Row(store, k).refs
    BY <1>1, UpsertFacts
  <1>7. StoreOK(store') /\ \A k \in Digest : Row(store', k).refs = Row(store, k).refs
    BY <1>1, <1>5, <1>6
  <1> QED BY <1>4, <1>7, FindingsStep

(* The loop picks its digests. *)
LEMMA ScanStep ==
    ASSUME CountInv, ScanTTL \/ ScanEvict
    PROVE  CountInv'
  <1>1. /\ StoreOK(store) /\ jobs \subseteq Digest
    BY DEF CountInv, CveInv, CveTypeOK
  <1>2. Stale \subseteq Digest /\ Evictable \subseteq Digest
    BY <1>1 DEF Stale, Evictable, StoreOK
  <1>3. /\ hyd = "ready" /\ loop' \in [pc : {"idle", "ttl", "evict"}, keys : SUBSET Digest]
        /\ UNCHANGED <<pods, changes, hyd, listed, informer, queue, store, jobs, low, high>>
    BY <1>2 DEF ScanTTL, ScanEvict, cluster, hydrate
  <1>4. StoreOK(store') /\ \A d \in Digest : Row(store', d).refs = Row(store, d).refs
    BY <1>1, <1>3
  <1> QED BY <1>1, <1>3, <1>4, FindingsStep

(* A store whose rows only change their ages keeps its counts. *)
LEMMA AgesOnly ==
    ASSUME NEW s, StoreOK(s), NEW t, DOMAIN t = DOMAIN s,
           \A d \in DOMAIN s : \E a \in Ages : t[d] = [s[d] EXCEPT !.age = a]
    PROVE  StoreOK(t) /\ \A d \in Digest : Row(t, d).refs = Row(s, d).refs
  <1>1. ASSUME NEW d \in DOMAIN s
        PROVE  t[d] \in [refs : Nat, age : Ages] /\ t[d].refs = s[d].refs
    <2>1. PICK a \in Ages : t[d] = [s[d] EXCEPT !.age = a]
      OBVIOUS
    <2>2. s[d] \in [refs : Nat, age : Ages]
      BY DEF StoreOK
    <2> QED BY <2>1, <2>2
  <1> QED BY <1>1 DEF StoreOK, Row

LEMMA FetchFailsStep ==
    ASSUME CountInv, FetchFails
    PROVE  CountInv'
  <1>1. /\ StoreOK(store) /\ jobs \subseteq Digest /\ (hyd # "ready" => loop = Idle)
    BY DEF CountInv, CveInv, CveTypeOK, PhaseOK
  <1>2. Idle \in [pc : {"idle", "ttl", "evict"}, keys : SUBSET Digest] /\ Idle.pc # "ttl"
    BY DEF Idle
  <1>3. /\ loop.pc = "ttl" /\ loop' = Idle
        /\ store' = [d \in DOMAIN store |->
                 [store[d] EXCEPT !.age = IF d \in loop.keys /\ @ = "stale" THEN "missed" ELSE @]]
        /\ UNCHANGED <<pods, changes, hyd, listed, informer, queue, jobs, low, high>>
    BY DEF FetchFails, cluster, hydrate
  <1>4. ASSUME NEW d \in DOMAIN store
        PROVE  \E a \in Ages : store'[d] = [store[d] EXCEPT !.age = a]
    <2> DEFINE a == IF d \in loop.keys /\ store[d].age = "stale" THEN "missed" ELSE store[d].age
    <2>1. store[d].age \in Ages
      BY <1>1 DEF StoreOK
    <2>2. a \in Ages
      BY <2>1 DEF Ages
    <2>3. store'[d] = [store[d] EXCEPT !.age = a]
      BY <1>3
    <2> QED BY <2>2, <2>3
  <1>5. DOMAIN store' = DOMAIN store
    BY <1>3
  <1>6. StoreOK(store') /\ \A d \in Digest : Row(store', d).refs = Row(store, d).refs
    BY <1>1, <1>4, <1>5, AgesOnly
  <1>7. hyd = "ready"
    BY <1>1, <1>2, <1>3
  <1> QED BY <1>1, <1>2, <1>3, <1>6, <1>7, FindingsStep

LEMMA GrowStep ==
    ASSUME CountInv, NEW d \in Digest, Grow(d)
    PROVE  CountInv'
  <1>1. /\ StoreOK(store) /\ jobs \subseteq Digest
        /\ loop \in [pc : {"idle", "ttl", "evict"}, keys : SUBSET Digest]
        /\ (hyd \notin {"fetch", "ready"} => DOMAIN store = {})
    BY DEF CountInv, CveInv, CveTypeOK, PhaseOK
  <1>2. /\ d \in DOMAIN store
        /\ UNCHANGED <<pods, changes, hyd, listed, informer, queue, jobs, loop, low, high>>
        /\ \E a \in Ages : store' = [store EXCEPT ![d].age = a]
    BY DEF Grow, cluster, hydrate, Ages
  <1>3. PICK a \in Ages : store' = [store EXCEPT ![d].age = a]
    BY <1>2
  <1>4. DOMAIN store' = DOMAIN store
    BY <1>3
  <1>5. ASSUME NEW k \in DOMAIN store
        PROVE  \E b \in Ages : store'[k] = [store[k] EXCEPT !.age = b]
    <2>1. CASE k = d
      BY <1>3, <2>1
    <2>2. CASE k # d
      <3>1. store[k] \in [refs : Nat, age : Ages] /\ store'[k] = store[k]
        BY <1>1, <1>3, <2>2 DEF StoreOK
      <3>2. store[k].age \in Ages /\ store[k] = [store[k] EXCEPT !.age = store[k].age]
        BY <3>1
      <3> QED BY <3>1, <3>2
    <2> QED BY <2>1, <2>2
  <1>6. StoreOK(store') /\ \A k \in Digest : Row(store', k).refs = Row(store, k).refs
    BY <1>1, <1>4, <1>5, AgesOnly
  <1>7. hyd \in {"fetch", "ready"}
    BY <1>1, <1>2
  <1> QED BY <1>1, <1>2, <1>6, <1>7, FindingsStep

(* A row is dropped: with it the count, which is noted unless it was zero. *)
LEMMA EvictStep ==
    ASSUME CountInv, NEW d \in Digest, EvictDigest(d)
    PROVE  CountInv'
  <1>1. /\ loop.pc = "evict" /\ d \in loop.keys /\ store' = [k \in DOMAIN store \ {d} |-> store[k]]
        /\ loop' = (IF loop.keys = {d} THEN Idle ELSE [loop EXCEPT !.keys = @ \ {d}])
        /\ low' = (low \/ Refs(d) > 0)
        /\ UNCHANGED <<pods, changes, hyd, listed, informer, queue, jobs, high>>
    BY DEF EvictDigest, cluster, hydrate
  <1>2. /\ StoreOK(store) /\ loop \in [pc : {"idle", "ttl", "evict"}, keys : SUBSET Digest]
        /\ (hyd # "ready" => loop = Idle) /\ low \in BOOLEAN
    BY DEF CountInv, CveInv, CveTypeOK, PhaseOK
  <1>3. hyd = "ready"
    BY <1>1, <1>2 DEF Idle
  <1>4. StoreOK(store')
    BY <1>1, <1>2 DEF StoreOK
  <1>5. loop' \in [pc : {"idle", "ttl", "evict"}, keys : SUBSET Digest]
    BY <1>1, <1>2 DEF Idle
  <1>6. CveTypeOK'
    <2>1. low' \in BOOLEAN
      BY <1>1, <1>2
    <2> QED BY <1>1, <1>4, <1>5, <2>1 DEF CountInv, CveInv, CveTypeOK
  <1>7. QueueOK' /\ PhaseOK'
    BY <1>1, <1>3 DEF CountInv, CveInv, QueueOK, PhaseOK
  <1>8. \A k \in Digest : Refs(k) \in Nat /\ Refs(k)' = (IF k = d THEN 0 ELSE Refs(k))
    <2>1. \A k \in Digest : Refs(k) \in Nat
      BY <1>2, RowTyped DEF Refs
    <2>2. \A k \in Digest : Row(store', k).refs = (IF k = d THEN 0 ELSE Row(store, k).refs)
      BY <1>1 DEF Row
    <2> QED BY <2>1, <2>2 DEF Refs
  <1>9. ASSUME NEW u \in [Digest -> Nat], Bounded(u)
        PROVE  \A k \in Digest : (~low' => Refs(k)' >= u[k]) /\ (~high' => Refs(k)' <= u[k])
    <2>1. ASSUME NEW k \in Digest
          PROVE  (~low' => Refs(k)' >= u[k]) /\ (~high' => Refs(k)' <= u[k])
      <3>1. u[k] \in Nat /\ Refs(k) \in Nat /\ Refs(k)' = (IF k = d THEN 0 ELSE Refs(k))
        BY <1>8, <1>9
      <3>2. (~low => Refs(k) >= u[k]) /\ (~high => Refs(k) <= u[k])
        BY <1>9 DEF Bounded
      <3>3. (~low' => ~low /\ ~(Refs(d) > 0)) /\ high' = high
        BY <1>1
      <3> QED BY <3>1, <3>2, <3>3
    <2> QED BY <2>1
  <1>10. CountOK'
    <2>1. CASE informer = "off"
      <3>1. PodMaps(listed) /\ Bounded(UsesBy(listed))
        BY <2>1 DEF CountInv, CveInv, PhaseOK, CountOK, PodMaps
      <3>2. UsesBy(listed) \in [Digest -> Nat]
        BY <3>1, UsesByTyped
      <3>3. \A k \in Digest : (~low' => Refs(k)' >= UsesBy(listed)[k]) /\ (~high' => Refs(k)' <= UsesBy(listed)[k])
        BY <1>9, <3>1, <3>2
      <3> QED BY <1>1, <2>1, <3>3 DEF CountOK, Bounded
    <2>2. CASE informer # "off"
      <3>1. PICK K : IsTrail(K, queue, UsesBy(pods)) /\ Bounded(K[0])
        BY <2>2 DEF CountInv, CountOK
      <3>2. K[0] \in [Digest -> Nat]
        <4>1. queue \in Seq(Events)
          BY DEF CountInv, CveInv, QueueOK
        <4>2. 0 \in 0 .. Len(queue)
          BY <4>1
        <4> QED BY <3>1, <4>2 DEF IsTrail
      <3>3. \A k \in Digest : (~low' => Refs(k)' >= K[0][k]) /\ (~high' => Refs(k)' <= K[0][k])
        BY <1>9, <3>1, <3>2
      <3>4. IsTrail(K, queue', UsesBy(pods')) /\ informer' # "off"
        BY <1>1, <2>2, <3>1
      <3> QED BY <3>3, <3>4 DEF CountOK, Bounded
    <2> QED BY <2>1, <2>2
  <1> QED BY <1>6, <1>7, <1>10 DEF CountInv, CveInv

-----------------------------------------------------------------------------
(* The theorems.                                                           *)

(* A cluster that has not been listed uses nothing. *)
LEMMA NothingUsed ==
    ASSUME NEW ps, DOMAIN ps = {}, NEW d \in Digest
    PROVE  UsesBy(ps)[d] = 0
  <1>1. Occ(ps, d) = {}
    BY DEF Occ
  <1>2. UsesBy(ps)[d] = Cardinality(Occ(ps, d))
    BY DEF UsesBy, Occ, At
  <1> QED BY <1>1, <1>2, FS_EmptySet

LEMMA CountInitially ==
    ASSUME CveInit
    PROVE  CountInv
  <1>1. PodMaps(pods)
    BY DEF CveInit, PodMaps
  <1>2. /\ changes = 0 /\ hyd = "cold" /\ listed = [p \in {} |-> <<>>] /\ informer = "off"
        /\ queue = <<>> /\ store = [d \in {} |-> [refs |-> 0, age |-> "never"]]
        /\ jobs = {} /\ loop = Idle /\ low = FALSE /\ high = FALSE
    BY DEF CveInit
  <1>3. DOMAIN listed = {} /\ DOMAIN store = {}
    BY <1>2
  <1>4. loop \in [pc : {"idle", "ttl", "evict"}, keys : SUBSET Digest] /\ 0 \in 0 .. MaxChanges
    BY <1>2, CveAssumption DEF Idle
  <1>5. CveTypeOK
    BY <1>1, <1>2, <1>3, <1>4 DEF CveTypeOK, PodMaps, StoreOK
  <1>6. QueueOK
    <2>1. queue \in Seq(Events) /\ Len(queue) = 0
      BY <1>2
    <2> QED BY <2>1 DEF QueueOK
  <1>7. PhaseOK
    BY <1>2, <1>3 DEF PhaseOK
  <1>8. CountOK
    <2>1. \A d \in Digest : Refs(d) = 0 /\ UsesBy(listed)[d] = 0
      BY <1>3, NothingUsed DEF Refs, Row
    <2> QED BY <1>2, <2>1 DEF CountOK, Bounded
  <1> QED BY <1>5, <1>6, <1>7, <1>8 DEF CountInv, CveInv

LEMMA CountStep ==
    ASSUME CountInv, [CveNext]_cveVars
    PROVE  CountInv'
  <1>1. CASE \E p \in Pod : Change(p)
    BY <1>1, ChangeStep
  <1>2. CASE EnsureHydrated \/ Probe \/ HydrateListFails
    BY <1>2, HydrateMoves
  <1>3. CASE HydrateList
    BY <1>3, HydrateListStep
  <1>4. CASE InformerList
    BY <1>4, InformerListStep
  <1>5. CASE SyncDone
    BY <1>5, SyncDoneStep
  <1>6. CASE Handle
    BY <1>6, HandleStep
  <1>7. CASE HydrateFetch \/ FetchDigests
    BY <1>7, FetchStep
  <1>8. CASE \E d \in Digest : Refresh(d) \/ JobEnds(d)
    BY <1>8, FetchStep
  <1>9. CASE \E d \in Digest : EvictDigest(d)
    BY <1>9, EvictStep
  <1>10. CASE \E d \in Digest : Grow(d)
    BY <1>10, GrowStep
  <1>11. CASE ScanTTL \/ ScanEvict
    BY <1>11, ScanStep
  <1>12. CASE FetchFails
    BY <1>12, FetchFailsStep
  <1>13. CASE UNCHANGED cveVars
    <2>1. UNCHANGED <<pods, changes, hyd, listed, informer, queue, store, jobs, loop, low, high>>
      BY <1>13 DEF cveVars
    <2>2. CveTypeOK' /\ QueueOK' /\ PhaseOK'
      BY <2>1 DEF CountInv, CveInv, CveTypeOK, QueueOK, PhaseOK
    <2>3. CountOK'
      BY <2>1, CountKept DEF CountInv, Refs
    <2> QED BY <2>2, <2>3 DEF CountInv, CveInv
  <1> QED BY <1>1, <1>2, <1>3, <1>4, <1>5, <1>6, <1>7, <1>8, <1>9, <1>10, <1>11, <1>12, <1>13
       DEF CveNext

LEMMA CountInvariant == CveSpec => []CountInv
  <1>1. CveInit => CountInv
    BY CountInitially
  <1>2. CountInv /\ [CveNext]_cveVars => CountInv'
    BY CountStep
  <1> QED BY <1>1, <1>2, PTL DEF CveSpec

(* The store, the queue of the pod informer and the phases of the cold     *)
(* hydrate are well formed, counts never go below zero, and nothing is     *)
(* counted, fetched, swept or queued before the hydrate (store.go          *)
(* DecDigestRef, hydrate.go, watch_hook.go): for any number of pods.       *)
THEOREM StoreInvariant == CveSpec => []CveInv
  <1>1. CountInv => CveInv
    BY DEF CountInv
  <1> QED BY <1>1, CountInvariant, PTL

(* With an empty queue the uses the hook has caught up with are those now. *)
LEMMA SettledCounts ==
    ASSUME CountInv, Settled
    PROVE  Bounded(UsesBy(pods))
  <1>1. informer # "off" /\ queue = <<>> /\ Len(queue) = 0
    BY DEF Settled
  <1>2. PICK K : IsTrail(K, queue, UsesBy(pods)) /\ Bounded(K[0])
    BY <1>1 DEF CountInv, CountOK
  <1>3. K[0] = UsesBy(pods)
    BY <1>1, <1>2 DEF IsTrail
  <1> QED BY <1>2, <1>3

(* Reference counts are exact once the hook has caught up, unless one of   *)
(* the races the history names has happened (watch_hook.go, store.go).     *)
THEOREM CountsExact == CveSpec => []CountsDriftOnlyWhenRaced
  <1>1. CountInv => CountsDriftOnlyWhenRaced
    BY SettledCounts DEF CountsDriftOnlyWhenRaced, Bounded, Live
  <1> QED BY <1>1, CountInvariant, PTL

(* The sweep picks only digests no container runs, when the hook has       *)
(* caught up and no race has lost a count (manager.go scanEvict).          *)
THEOREM SweepSafe == CveSpec => SweepPicksUnused
  <1>1. CountInv /\ [CveNext]_cveVars
          => [ScanEvict => \A d \in loop'.keys : Live(d) = 0 \/ low \/ ~Settled]_cveVars
    <2>1. SUFFICES ASSUME CountInv, ScanEvict, NEW d \in loop'.keys, ~low, Settled
                   PROVE  Live(d) = 0
      OBVIOUS
    <2>2. loop'.keys = Evictable
      BY <2>1 DEF ScanEvict
    <2>3. PodMaps(pods) /\ StoreOK(store)
      BY <2>1 DEF CountInv, CveInv, CveTypeOK, PodMaps
    <2>4. d \in Digest /\ Refs(d) = 0
      BY <2>1, <2>2, <2>3 DEF Evictable, StoreOK, Refs, Row
    <2>5. Live(d) \in Nat
      BY <2>3, <2>4, OccSize DEF Live
    <2>6. Refs(d) >= Live(d)
      BY <2>1, <2>4, SettledCounts DEF Bounded, Live
    <2> QED BY <2>4, <2>5, <2>6
  <1> QED BY <1>1, CountInvariant, PTL DEF CveSpec, SweepPicksUnused
=============================================================================
