-------------------------- MODULE LogStreamProofs ---------------------------
(***************************************************************************)
(* LogStream for any names and bounds: LogInv is inductive, and what the   *)
(* reader sees is in order and, in a closed pod view, complete.            *)
(***************************************************************************)
EXTENDS LogStream, SequenceTheorems, TLAPS

-----------------------------------------------------------------------------
(* Entries and sequences of them.                                          *)

LEMMA Constants ==
    MaxBirths \in Nat \ {0} /\ MaxLines \in Nat \ {0} /\ Cap \in Nat \ {0} /\ BufferCap \in Nat \ {0}
  BY LogAssumption

LEMMA EntryKinds ==
    /\ Lines \subseteq Entries /\ \A e \in Lines : e.kind = "line" /\ e.pod \in Nat /\ e.n \in Nat /\ e.own \in BOOLEAN
    /\ PodSet \in Entries /\ PodSet.kind = "meta"
    /\ \A err \in BOOLEAN : Eof(err) \in Entries /\ Eof(err).kind = "eof" /\ Eof(err).err = err
    /\ \A e \in Entries : \/ e \in Lines /\ e.kind = "line"
                          \/ e = PodSet /\ e.kind = "meta"
                          \/ e.kind = "eof" /\ e.err \in BOOLEAN /\ e = Eof(e.err)
  <1>1. \A e \in Lines : e.kind = "line" /\ e.pod \in Nat /\ e.n \in Nat /\ e.own \in BOOLEAN
    BY DEF Lines
  <1>2. PodSet.kind = "meta"
    BY DEF PodSet
  <1>3. ASSUME NEW err \in BOOLEAN PROVE Eof(err) \in Entries /\ Eof(err).kind = "eof" /\ Eof(err).err = err
    <2>1. Eof(err).kind = "eof" /\ Eof(err).err = err
      BY DEF Eof
    <2>2. err = TRUE \/ err = FALSE
      OBVIOUS
    <2>3. Eof(err) = Eof(TRUE) \/ Eof(err) = Eof(FALSE)
      BY <2>2
    <2> QED BY <2>1, <2>3 DEF Entries
  <1>4. Lines \subseteq Entries /\ PodSet \in Entries
    BY DEF Entries
  <1>5. \A e \in Entries : e \in Lines \/ e = PodSet \/ e = Eof(TRUE) \/ e = Eof(FALSE)
    BY DEF Entries
  <1>6. TRUE \in BOOLEAN /\ FALSE \in BOOLEAN
    OBVIOUS
  <1>7. \A e \in Entries : e \in Lines \/ e = PodSet \/ (e.kind = "eof" /\ e.err \in BOOLEAN /\ e = Eof(e.err))
    BY <1>3, <1>5, <1>6
  <1> QED BY <1>1, <1>2, <1>3, <1>4, <1>7

(* A new line by its fields. *)
LEMMA LineFields ==
    ASSUME NEW i \in Nat, NEW n \in Nat, NEW own \in BOOLEAN
    PROVE  /\ Line(i, n, own) \in Lines /\ Line(i, n, own).kind = "line" /\ Line(i, n, own).pod = i
           /\ Line(i, n, own).n = n /\ Line(i, n, own).own = own
  BY DEF Line, Lines

\* t is s with some elements left out.
Thin(t, s) ==
    \E m \in [1 .. Len(t) -> 1 .. Len(s)] :
      (\A i \in 1 .. Len(t) : t[i] = s[m[i]]) /\ (\A i, j \in 1 .. Len(t) : i < j => m[i] < m[j])

\* t is the end of s.
Suffix(t, s) ==
    Len(t) <= Len(s) /\ \A i \in 1 .. Len(t) : t[i] = s[i + (Len(s) - Len(t))]

LEMMA SuffixThin ==
    ASSUME NEW S, NEW s \in Seq(S), NEW t \in Seq(S), Suffix(t, s)
    PROVE  Thin(t, s)
  <1> DEFINE d == Len(s) - Len(t)
             m == [i \in 1 .. Len(t) |-> i + d]
  <1>1. Len(s) \in Nat /\ Len(t) \in Nat /\ d \in Nat /\ Len(s) = Len(t) + d
    BY DEF Suffix
  <1>2. \A i \in 1 .. Len(t) : t[i] = s[i + d]
    BY DEF Suffix
  <1> HIDE DEF d
  <1>3. m \in [1 .. Len(t) -> 1 .. Len(s)]
    BY <1>1
  <1>4. (\A i \in 1 .. Len(t) : t[i] = s[m[i]]) /\ (\A i, j \in 1 .. Len(t) : i < j => m[i] < m[j])
    BY <1>1, <1>2
  <1> HIDE DEF m
  <1> QED BY <1>3, <1>4 DEF Thin

LEMMA SameThin ==
    ASSUME NEW S, NEW s \in Seq(S)
    PROVE  Thin(s, s)
  <1>1. Suffix(s, s)
    BY DEF Suffix
  <1> QED BY <1>1, SuffixThin

LEMMA ThinThin ==
    ASSUME NEW S, NEW s \in Seq(S), NEW t \in Seq(S), NEW u \in Seq(S), Thin(t, s), Thin(u, t)
    PROVE  Thin(u, s)
  <1>1. PICK m \in [1 .. Len(t) -> 1 .. Len(s)] :
          (\A i \in 1 .. Len(t) : t[i] = s[m[i]]) /\ (\A i, j \in 1 .. Len(t) : i < j => m[i] < m[j])
    BY DEF Thin
  <1>2. PICK n \in [1 .. Len(u) -> 1 .. Len(t)] :
          (\A i \in 1 .. Len(u) : u[i] = t[n[i]]) /\ (\A i, j \in 1 .. Len(u) : i < j => n[i] < n[j])
    BY DEF Thin
  <1> DEFINE mn == [i \in 1 .. Len(u) |-> m[n[i]]]
  <1>3. mn \in [1 .. Len(u) -> 1 .. Len(s)]
    OBVIOUS
  <1>4. (\A i \in 1 .. Len(u) : u[i] = s[mn[i]]) /\ (\A i, j \in 1 .. Len(u) : i < j => mn[i] < mn[j])
    BY <1>1, <1>2
  <1> HIDE DEF mn
  <1> QED BY <1>3, <1>4 DEF Thin

(* One element at the end of the second of two sequences. *)
LEMMA ConcatAppend ==
    ASSUME NEW S, NEW s \in Seq(S), NEW t \in Seq(S), NEW e \in S
    PROVE  s \o Append(t, e) = Append(s \o t, e)
  <1>1. Append(t, e) = t \o <<e>> /\ s \o t \in Seq(S) /\ <<e>> \in Seq(S)
    BY AppendIsConcat, ConcatProperties
  <1>2. Append(s \o t, e) = (s \o t) \o <<e>>
    BY <1>1, AppendIsConcat
  <1>3. (s \o t) \o <<e>> = s \o (t \o <<e>>)
    BY <1>1, ConcatAssociative
  <1> QED BY <1>1, <1>2, <1>3

(* The first element of the second moves to the end of the first. *)
LEMMA ConcatMove ==
    ASSUME NEW S, NEW s \in Seq(S), NEW t \in Seq(S), t # <<>>
    PROVE  Append(s, Head(t)) \o Tail(t) = s \o t
  <1> DEFINE l == Append(s, Head(t)) \o Tail(t)
             r == s \o t
  <1>1. /\ Head(t) \in S /\ Tail(t) \in Seq(S) /\ Len(Tail(t)) = Len(t) - 1 /\ Len(t) \in Nat \ {0}
        /\ \A i \in 1 .. Len(Tail(t)) : Tail(t)[i] = t[i + 1]
        /\ Head(t) = t[1] /\ Len(s) \in Nat
    BY HeadTailProperties, EmptySeq, LenProperties
  <1>2. /\ Append(s, Head(t)) \in Seq(S) /\ Len(Append(s, Head(t))) = Len(s) + 1
        /\ \A i \in 1 .. Len(s) : Append(s, Head(t))[i] = s[i]
        /\ Append(s, Head(t))[Len(s) + 1] = t[1]
    BY <1>1, AppendProperties
  <1>3. /\ l \in Seq(S) /\ Len(l) = (Len(s) + 1) + (Len(t) - 1)
        /\ \A i \in 1 .. (Len(s) + 1) + (Len(t) - 1) :
             l[i] = IF i <= Len(s) + 1 THEN Append(s, Head(t))[i] ELSE Tail(t)[i - (Len(s) + 1)]
    BY <1>1, <1>2, ConcatProperties
  <1>4. /\ r \in Seq(S) /\ Len(r) = Len(s) + Len(t)
        /\ \A i \in 1 .. Len(s) + Len(t) : r[i] = IF i <= Len(s) THEN s[i] ELSE t[i - Len(s)]
    BY ConcatProperties
  <1> HIDE DEF l, r
  <1>5. ASSUME NEW i \in 1 .. Len(l) PROVE l[i] = r[i]
    <2>0. i \in 1 .. Len(s) + Len(t) /\ i \in 1 .. (Len(s) + 1) + (Len(t) - 1)
      BY <1>1, <1>3
    <2>1. CASE i <= Len(s)
      <3>1. i \in 1 .. Len(s) /\ i <= Len(s) + 1
        BY <1>1, <2>1, <2>0
      <3> QED BY <1>2, <1>3, <1>4, <2>0, <2>1, <3>1
    <2>2. CASE i = Len(s) + 1
      <3>1. ~(i <= Len(s)) /\ i <= Len(s) + 1 /\ i - Len(s) = 1
        BY <1>1, <2>2
      <3> QED BY <1>2, <1>3, <1>4, <2>0, <2>2, <3>1
    <2>3. CASE i > Len(s) + 1
      <3>1. /\ ~(i <= Len(s)) /\ ~(i <= Len(s) + 1) /\ i - (Len(s) + 1) \in 1 .. Len(Tail(t))
            /\ (i - (Len(s) + 1)) + 1 = i - Len(s)
        BY <1>1, <2>0, <2>3
      <3>2. Tail(t)[i - (Len(s) + 1)] = t[i - Len(s)]
        BY <1>1, <3>1
      <3> QED BY <1>3, <1>4, <2>0, <3>1, <3>2
    <2> QED BY <1>1, <2>0, <2>1, <2>2, <2>3
  <1>6. Len(l) = Len(r)
    BY <1>1, <1>3, <1>4
  <1>7. l = r
    BY <1>3, <1>4, <1>5, <1>6, SeqEqual
  <1> QED BY <1>7 DEF l, r

(* The first element of the second is left out. *)
LEMMA ConcatDrop ==
    ASSUME NEW S, NEW s \in Seq(S), NEW t \in Seq(S), t # <<>>
    PROVE  Thin(s \o Tail(t), s \o t)
  <1> DEFINE l == s \o Tail(t)
             r == s \o t
             m == [i \in 1 .. Len(l) |-> IF i <= Len(s) THEN i ELSE i + 1]
  <1>1. /\ Tail(t) \in Seq(S) /\ Len(Tail(t)) = Len(t) - 1 /\ Len(t) \in Nat \ {0}
        /\ \A i \in 1 .. Len(Tail(t)) : Tail(t)[i] = t[i + 1]
        /\ Len(s) \in Nat
    BY HeadTailProperties, EmptySeq, LenProperties
  <1>2. /\ Len(l) = Len(s) + (Len(t) - 1)
        /\ \A i \in 1 .. Len(s) + (Len(t) - 1) : l[i] = IF i <= Len(s) THEN s[i] ELSE Tail(t)[i - Len(s)]
    BY <1>1, ConcatProperties
  <1>3. /\ Len(r) = Len(s) + Len(t)
        /\ \A i \in 1 .. Len(s) + Len(t) : r[i] = IF i <= Len(s) THEN s[i] ELSE t[i - Len(s)]
    BY ConcatProperties
  <1> HIDE DEF l, r
  <1>4. m \in [1 .. Len(l) -> 1 .. Len(r)]
    BY <1>1, <1>2, <1>3
  <1>5. \A i, j \in 1 .. Len(l) : i < j => m[i] < m[j]
    BY <1>1, <1>2
  <1>6. ASSUME NEW i \in 1 .. Len(l) PROVE l[i] = r[m[i]]
    <2>1. CASE i <= Len(s)
      <3>1. m[i] = i /\ i \in 1 .. Len(s) + Len(t) /\ i \in 1 .. Len(s) + (Len(t) - 1)
        BY <1>1, <1>2, <2>1
      <3> QED BY <1>2, <1>3, <2>1, <3>1
    <2>2. CASE i > Len(s)
      <3>1. /\ m[i] = i + 1 /\ i + 1 \in 1 .. Len(s) + Len(t) /\ i \in 1 .. Len(s) + (Len(t) - 1)
            /\ ~(i <= Len(s)) /\ ~(i + 1 <= Len(s)) /\ i - Len(s) \in 1 .. Len(Tail(t))
            /\ (i - Len(s)) + 1 = (i + 1) - Len(s)
        BY <1>1, <1>2, <2>2
      <3>2. Tail(t)[i - Len(s)] = t[(i + 1) - Len(s)]
        BY <1>1, <3>1
      <3> QED BY <1>2, <1>3, <3>1, <3>2
    <2> QED BY <1>1, <1>2, <2>1, <2>2
  <1> HIDE DEF m
  <1>7. Thin(l, r)
    BY <1>4, <1>5, <1>6 DEF Thin
  <1> QED BY <1>7 DEF l, r

(* The end of the first, then the second. *)
LEMMA ConcatSuffix ==
    ASSUME NEW S, NEW s \in Seq(S), NEW t \in Seq(S), NEW u \in Seq(S), Suffix(u, s)
    PROVE  Suffix(u \o t, s \o t)
  <1>1. Len(s) \in Nat /\ Len(t) \in Nat /\ Len(u) \in Nat /\ Len(u) <= Len(s)
    BY DEF Suffix
  <1>2. /\ Len(u \o t) = Len(u) + Len(t)
        /\ \A i \in 1 .. Len(u) + Len(t) : (u \o t)[i] = IF i <= Len(u) THEN u[i] ELSE t[i - Len(u)]
    BY ConcatProperties
  <1>3. /\ Len(s \o t) = Len(s) + Len(t)
        /\ \A i \in 1 .. Len(s) + Len(t) : (s \o t)[i] = IF i <= Len(s) THEN s[i] ELSE t[i - Len(s)]
    BY ConcatProperties
  <1> DEFINE d == Len(s) - Len(u)
  <1>4. d \in Nat /\ d = Len(s \o t) - Len(u \o t) /\ Len(s) = Len(u) + d
    BY <1>1, <1>2, <1>3
  <1>5. \A i \in 1 .. Len(u) : u[i] = s[i + d]
    BY DEF Suffix
  <1> HIDE DEF d
  <1>6. ASSUME NEW i \in 1 .. Len(u \o t) PROVE (u \o t)[i] = (s \o t)[i + d]
    <2>1. CASE i <= Len(u)
      <3>1. i \in 1 .. Len(u) /\ i \in 1 .. Len(u) + Len(t) /\ i + d \in 1 .. Len(s) + Len(t) /\ i + d <= Len(s)
        BY <1>1, <1>2, <1>4, <2>1
      <3>2. (u \o t)[i] = u[i]
        BY <1>2, <2>1, <3>1
      <3>3. (s \o t)[i + d] = s[i + d]
        BY <1>3, <3>1
      <3> QED BY <1>5, <3>1, <3>2, <3>3
    <2>2. CASE i > Len(u)
      <3>1. /\ ~(i <= Len(u)) /\ i \in 1 .. Len(u) + Len(t) /\ i + d \in 1 .. Len(s) + Len(t)
            /\ ~(i + d <= Len(s)) /\ (i + d) - Len(s) = i - Len(u)
        BY <1>1, <1>2, <1>4, <2>2
      <3>2. (u \o t)[i] = t[i - Len(u)]
        BY <1>2, <3>1
      <3>3. (s \o t)[i + d] = t[(i + d) - Len(s)]
        BY <1>3, <3>1
      <3> QED BY <3>1, <3>2, <3>3
    <2>3. i \in Int /\ (i <= Len(u) \/ i > Len(u))
      BY <1>1, <1>2
    <2> QED BY <2>1, <2>2, <2>3
  <1> QED BY <1>1, <1>2, <1>3, <1>4, <1>6 DEF Suffix

-----------------------------------------------------------------------------
(* What is shown and what is on its way.                                   *)

(* The stream of a view v and a channel c. *)
LEMMA Flow ==
    ASSUME NEW v \in Views, NEW c \in Seq(Entries)
    PROVE  /\ v.buffer \in Seq(Lines) /\ v.pending \in Seq(Lines)
           /\ v.buffer \in Seq(Entries) /\ v.pending \in Seq(Entries)
           /\ v.buffer \o v.pending \in Seq(Lines) /\ v.buffer \o v.pending \in Seq(Entries)
           /\ v.buffer \o v.pending \o c \in Seq(Entries)
           /\ Len(v.buffer) \in Nat /\ Len(v.pending) \in Nat /\ Len(c) \in Nat
           /\ Len(v.buffer \o v.pending) = Len(v.buffer) + Len(v.pending)
           /\ Len(v.buffer \o v.pending) \in Nat
           /\ Len(v.buffer \o v.pending \o c) = Len(v.buffer \o v.pending) + Len(c)
           /\ Len(v.buffer \o v.pending \o c) \in Nat
           /\ \A k \in 1 .. Len(v.buffer \o v.pending \o c) :
                (v.buffer \o v.pending \o c)[k] =
                  IF k <= Len(v.buffer \o v.pending) THEN (v.buffer \o v.pending)[k]
                                                     ELSE c[k - Len(v.buffer \o v.pending)]
  <1>1. v.buffer \in Seq(Lines) /\ v.pending \in Seq(Lines)
    BY DEF Views
  <1>2. Seq(Lines) \subseteq Seq(Entries)
    BY EntryKinds
  <1>3. v.buffer \o v.pending \in Seq(Lines) /\ Len(v.buffer \o v.pending) = Len(v.buffer) + Len(v.pending)
    BY <1>1, ConcatProperties
  <1>4. v.buffer \o v.pending \in Seq(Entries) /\ v.buffer \in Seq(Entries) /\ v.pending \in Seq(Entries)
    BY <1>1, <1>2, <1>3
  <1>5. /\ v.buffer \o v.pending \o c \in Seq(Entries)
        /\ Len(v.buffer \o v.pending \o c) = Len(v.buffer \o v.pending) + Len(c)
        /\ \A k \in 1 .. Len(v.buffer \o v.pending) + Len(c) :
             (v.buffer \o v.pending \o c)[k] =
               IF k <= Len(v.buffer \o v.pending) THEN (v.buffer \o v.pending)[k]
                                                  ELSE c[k - Len(v.buffer \o v.pending)]
    BY <1>4, ConcatProperties
  <1>6. /\ Len(v.buffer) \in Nat /\ Len(v.pending) \in Nat /\ Len(c) \in Nat
        /\ Len(v.buffer \o v.pending) \in Nat /\ Len(v.buffer \o v.pending \o c) \in Nat
    BY <1>1, <1>4, <1>5, LenProperties
  <1> QED BY <1>1, <1>3, <1>4, <1>5, <1>6

(* What AnnouncedOnce and ReadInOrder say of a stream s, with positions as *)
(* numbers: every own line is of a pod in P, behind the goroutine that     *)
(* reads it, and after the pod's earlier lines.                            *)
InOrder(s, P, g) ==
    \A k \in 1 .. Len(s) : s[k].kind = "line" /\ s[k].own =>
      /\ s[k].pod \in P
      /\ s[k].pod \in DOMAIN g =>
           g[s[k].pod].pc # "open" /\ g[s[k].pod].from = s[k].pod /\ s[k].n <= g[s[k].pod].pos
      /\ \A j \in 1 .. Len(s) : j < k /\ Own(s[j], s[k].pod) => s[j].n < s[k].n

Unread(s, i) == \A k \in 1 .. Len(s) : ~Own(s[k], i)

LEMMA OrderForm ==
    ASSUME Stream \in Seq(Entries)
    PROVE  ReadInOrder <=> InOrder(Stream, Pods, gor)
  <1>1. Len(Stream) \in Nat /\ DOMAIN Stream = 1 .. Len(Stream)
    BY LenProperties
  <1>2. ASSUME NEW k \in 1 .. Len(Stream), NEW j
        PROVE  j \in 1 .. k - 1 <=> j \in 1 .. Len(Stream) /\ j < k
    BY <1>1
  <1> HIDE DEF Stream
  <1> QED BY <1>1, <1>2 DEF ReadInOrder, InOrder

LEMMA OrderFormNext ==
    ASSUME Stream' \in Seq(Entries)
    PROVE  ReadInOrder' <=> InOrder(Stream', Pods', gor')
  <1>1. Len(Stream') \in Nat /\ DOMAIN Stream' = 1 .. Len(Stream')
    BY LenProperties
  <1>2. ASSUME NEW k \in 1 .. Len(Stream'), NEW j
        PROVE  j \in 1 .. k - 1 <=> j \in 1 .. Len(Stream') /\ j < k
    BY <1>1
  <1> HIDE DEF Stream
  <1> QED BY <1>1, <1>2 DEF ReadInOrder, InOrder, Own

Typed(g) == \A i \in DOMAIN g : g[i] \in Goroutines

\* A goroutine of h is further than in g, or has read nothing of s.
Further(s, g, h) ==
    \A i \in DOMAIN h :
      \/ Unread(s, i)
      \/ i \in DOMAIN g /\ (g[i].pc # "open" => h[i].pc # "open" /\ h[i].from = g[i].from /\ g[i].pos <= h[i].pos)

(* Leaving entries out keeps the order, whoever is added that has none. *)
LEMMA ThinInOrder ==
    ASSUME NEW s \in Seq(Entries), NEW t \in Seq(Entries), Thin(t, s),
           NEW P, NEW Q, P \subseteq Q, NEW g, NEW h, InOrder(s, P, g),
           Typed(g), Typed(h), Further(s, g, h)
    PROVE  InOrder(t, Q, h) /\ \A i : Unread(s, i) => Unread(t, i)
  <1>0. Len(s) \in Nat /\ Len(t) \in Nat
    OBVIOUS
  <1>1. PICK m \in [1 .. Len(t) -> 1 .. Len(s)] :
          (\A i \in 1 .. Len(t) : t[i] = s[m[i]]) /\ (\A i, j \in 1 .. Len(t) : i < j => m[i] < m[j])
    BY DEF Thin
  <1>2. ASSUME NEW k \in 1 .. Len(t), t[k].kind = "line", t[k].own
        PROVE  /\ t[k].pod \in Q
               /\ t[k].pod \in DOMAIN h =>
                    h[t[k].pod].pc # "open" /\ h[t[k].pod].from = t[k].pod /\ t[k].n <= h[t[k].pod].pos
               /\ \A j \in 1 .. Len(t) : j < k /\ Own(t[j], t[k].pod) => t[j].n < t[k].n
    <2> DEFINE i == t[k].pod
    <2>1. m[k] \in 1 .. Len(s) /\ t[k] = s[m[k]]
      BY <1>1
    <2>2. /\ i \in P
          /\ i \in DOMAIN g => g[i].pc # "open" /\ g[i].from = i /\ t[k].n <= g[i].pos
          /\ \A j \in 1 .. Len(s) : j < m[k] /\ Own(s[j], i) => s[j].n < t[k].n
      BY <1>2, <2>1 DEF InOrder
    <2>3. Own(s[m[k]], i)
      BY <1>2, <2>1 DEF Own
    <2>4. t[k].n \in Nat
      <3>1. t[k] \in Entries
        OBVIOUS
      <3> QED BY <1>2, <3>1, EntryKinds
    <2>5. ASSUME i \in DOMAIN h PROVE h[i].pc # "open" /\ h[i].from = i /\ t[k].n <= h[i].pos
      <3>1. i \in DOMAIN g /\ (g[i].pc # "open" => h[i].pc # "open" /\ h[i].from = g[i].from /\ g[i].pos <= h[i].pos)
        BY <2>1, <2>3, <2>5 DEF Unread, Further
      <3>2. g[i].pos \in Nat /\ h[i].pos \in Nat
        BY <2>5, <3>1 DEF Goroutines, Typed
      <3> HIDE DEF i
      <3> QED BY <2>2, <2>4, <3>1, <3>2
    <2>6. ASSUME NEW j \in 1 .. Len(t), j < k, Own(t[j], i) PROVE t[j].n < t[k].n
      <3>1. m[j] \in 1 .. Len(s) /\ t[j] = s[m[j]] /\ m[j] < m[k]
        BY <1>1, <2>6
      <3> HIDE DEF i
      <3> QED BY <2>2, <2>6, <3>1
    <2> QED BY <2>2, <2>5, <2>6
  <1>3. ASSUME NEW i, Unread(s, i) PROVE Unread(t, i)
    <2>1. ASSUME NEW k \in 1 .. Len(t) PROVE ~Own(t[k], i)
      <3>1. m[k] \in 1 .. Len(s) /\ t[k] = s[m[k]]
        BY <1>1
      <3> QED BY <1>3, <3>1 DEF Unread
    <2> QED BY <2>1 DEF Unread
  <1> QED BY <1>2, <1>3 DEF InOrder

\* From g to h goroutine b reads one line, e.
OneMore(e, g, h, b) ==
    /\ b \in DOMAIN g /\ DOMAIN h \subseteq DOMAIN g
    /\ \A i \in DOMAIN h : i # b => h[i] = g[i]
    /\ b \in DOMAIN h => h[b].pc = g[b].pc /\ h[b].from = g[b].from /\ h[b].pos = g[b].pos + 1
    /\ (e.kind = "line" /\ e.own) =>
         e.pod = b /\ b \in DOMAIN h /\ g[b].pc # "open" /\ g[b].from = b /\ e.n = g[b].pos + 1

(* One more line at the end: of another pod, or read for b and one further. *)
LEMMA AppendInOrder ==
    ASSUME NEW s \in Seq(Entries), NEW e \in Entries, NEW P, NEW g, NEW h, NEW b, b \in P, InOrder(s, P, g),
           Typed(g), Typed(h), OneMore(e, g, h, b)
    PROVE  InOrder(Append(s, e), P, h) /\ \A i : Unread(s, i) /\ i # b => Unread(Append(s, e), i)
  <1> DEFINE t == Append(s, e)
  <1>0. Len(s) \in Nat
    OBVIOUS
  <1>1. Len(t) = Len(s) + 1 /\ t[Len(s) + 1] = e /\ \A k \in 1 .. Len(s) : t[k] = s[k]
    BY AppendProperties
  <1>2. \A k \in 1 .. Len(t) : k \in 1 .. Len(s) \/ k = Len(s) + 1
    BY <1>0, <1>1
  <1> HIDE DEF t
  <1>3. \A i \in DOMAIN g : g[i].pos \in Nat
    BY DEF Goroutines, Typed
  <1>4. \A k \in 1 .. Len(s) : s[k] \in Entries
    OBVIOUS
  <1>5. ASSUME NEW k \in 1 .. Len(t), t[k].kind = "line", t[k].own
        PROVE  /\ t[k].pod \in P
               /\ t[k].pod \in DOMAIN h =>
                    h[t[k].pod].pc # "open" /\ h[t[k].pod].from = t[k].pod /\ t[k].n <= h[t[k].pod].pos
               /\ \A j \in 1 .. Len(t) : j < k /\ Own(t[j], t[k].pod) => t[j].n < t[k].n
    <2>1. CASE k \in 1 .. Len(s)
      <3>1. /\ t[k] = s[k] /\ s[k].n \in Nat
            /\ s[k].pod \in P
            /\ s[k].pod \in DOMAIN g =>
                 g[s[k].pod].pc # "open" /\ g[s[k].pod].from = s[k].pod /\ s[k].n <= g[s[k].pod].pos
            /\ \A j \in 1 .. Len(s) : j < k /\ Own(s[j], s[k].pod) => s[j].n < s[k].n
        BY <1>1, <1>4, <1>5, <2>1, EntryKinds DEF InOrder
      <3>2. ASSUME s[k].pod \in DOMAIN h
            PROVE  h[s[k].pod].pc # "open" /\ h[s[k].pod].from = s[k].pod /\ s[k].n <= h[s[k].pod].pos
        <4>1. CASE s[k].pod = b
          BY <1>3, <3>1, <3>2, <4>1 DEF OneMore
        <4>2. CASE s[k].pod # b
          BY <3>1, <3>2, <4>2 DEF OneMore
        <4> QED BY <4>1, <4>2
      <3>3. ASSUME NEW j \in 1 .. Len(t), j < k PROVE j \in 1 .. Len(s) /\ t[j] = s[j]
        <4>1. j \in 1 .. Len(s)
          BY <1>0, <1>1, <2>1, <3>3
        <4> QED BY <1>1, <4>1
      <3> QED BY <3>1, <3>2, <3>3
    <2>2. CASE k = Len(s) + 1
      <3>1. t[k] = e /\ e.kind = "line" /\ e.own
        BY <1>1, <1>5, <2>2
      <3>2. e.pod = b /\ b \in DOMAIN h /\ g[b].pc # "open" /\ g[b].from = b /\ e.n = g[b].pos + 1
        BY <3>1 DEF OneMore
      <3>3. h[b].pc # "open" /\ h[b].from = b /\ e.n <= h[b].pos
        BY <1>3, <3>2 DEF OneMore
      <3>4. ASSUME NEW j \in 1 .. Len(t), j < k, Own(t[j], b) PROVE t[j].n < e.n
        <4>1. j \in 1 .. Len(s) /\ t[j] = s[j]
          BY <1>0, <1>1, <2>2, <3>4
        <4>2. s[j].kind = "line" /\ s[j].own /\ s[j].pod = b
          BY <3>4, <4>1 DEF Own
        <4>3. s[j].n <= g[b].pos /\ s[j].n \in Nat
          BY <1>4, <4>1, <4>2, EntryKinds DEF InOrder, OneMore
        <4> QED BY <1>3, <3>2, <4>1, <4>3 DEF OneMore
      <3> QED BY <3>1, <3>2, <3>3, <3>4
    <2> QED BY <1>2, <2>1, <2>2
  <1>6. ASSUME NEW i, Unread(s, i), i # b PROVE Unread(t, i)
    BY <1>1, <1>2, <1>6 DEF Unread, Own, OneMore
  <1>7. InOrder(t, P, h) /\ \A i : Unread(s, i) /\ i # b => Unread(t, i)
    BY <1>5, <1>6 DEF InOrder
  <1> QED BY <1>7 DEF t

\* AnnouncedOnce of a queue of events and a stream.
Announced(ev, s, P, G) ==
    \A j \in 1 .. Len(ev) :
      /\ ev[j].pod \in P
      /\ ev[j].type = "Added" =>
           /\ ev[j].pod \notin G /\ Unread(s, ev[j].pod)
           /\ \A k \in 1 .. Len(ev) : ev[k].type = "Added" /\ ev[k].pod = ev[j].pod => k = j

LEMMA AnnouncedForm ==
    ASSUME Stream \in Seq(Entries), events \in Seq(Events)
    PROVE  AnnouncedOnce <=> Announced(events, Stream, Pods, DOMAIN gor)
  <1>1. DOMAIN Stream = 1 .. Len(Stream) /\ DOMAIN events = 1 .. Len(events)
    OBVIOUS
  <1> HIDE DEF Stream
  <1> QED BY <1>1 DEF AnnouncedOnce, Announced, Unread

LEMMA AnnouncedFormNext ==
    ASSUME Stream' \in Seq(Entries), events' \in Seq(Events)
    PROVE  AnnouncedOnce' <=> Announced(events', Stream', Pods', DOMAIN gor')
  <1>1. DOMAIN Stream' = 1 .. Len(Stream') /\ DOMAIN events' = 1 .. Len(events')
    OBVIOUS
  <1> HIDE DEF Stream
  <1> QED BY <1>1 DEF AnnouncedOnce, Announced, Unread, Own

LEMMA StreamTyped ==
    ASSUME LogTypeOK
    PROVE  Stream \in Seq(Entries) /\ Len(Stream) \in Nat
  BY Flow DEF LogTypeOK, Stream

LEMMA StreamTypedNext ==
    ASSUME LogTypeOK'
    PROVE  Stream' \in Seq(Entries) /\ Len(Stream') \in Nat
  BY Flow DEF LogTypeOK, Stream

(* A step that reads no line for a pod: entries of the stream may be left   *)
(* out, goroutines may end or go on.                                       *)
LEMMA Carry ==
    ASSUME LogInv, LogTypeOK', Thin(Stream', Stream), Pods \subseteq Pods', UNCHANGED events,
           DOMAIN gor' \subseteq DOMAIN gor,
           \A i \in DOMAIN gor' :
             \/ Unread(Stream, i)
             \/ gor[i].pc # "open" => gor'[i].pc # "open" /\ gor'[i].from = gor[i].from /\ gor[i].pos <= gor'[i].pos
    PROVE  AnnouncedOnce' /\ ReadInOrder'
  <1>1. Stream \in Seq(Entries) /\ Stream' \in Seq(Entries) /\ events \in Seq(Events) /\ events' \in Seq(Events)
    BY StreamTyped, StreamTypedNext DEF LogInv, LogTypeOK
  <1>2. InOrder(Stream, Pods, gor) /\ Announced(events, Stream, Pods, DOMAIN gor)
    BY <1>1, OrderForm, AnnouncedForm DEF LogInv
  <1>3. Typed(gor) /\ Typed(gor')
    BY DEF LogInv, LogTypeOK, Typed
  <1>4. Further(Stream, gor, gor')
    BY DEF Further
  <1> HIDE DEF Stream, Pods
  <1>5. InOrder(Stream', Pods', gor') /\ \A i : Unread(Stream, i) => Unread(Stream', i)
    BY <1>1, <1>2, <1>3, <1>4, ThinInOrder
  <1>6. Announced(events', Stream', Pods', DOMAIN gor')
    BY <1>2, <1>5 DEF Announced
  <1> QED BY <1>1, <1>5, <1>6, OrderFormNext, AnnouncedFormNext

-----------------------------------------------------------------------------
(* Steps of the control alone, and of what the browser shows.              *)

LEMMA ControlStep ==
    ASSUME LogInv, UNCHANGED <<cluster, source, gone, events, streamers, gor, channel, view>>,
           engine' \in {"begin", "podset", "watch", "loop", "degraded", "wait", "follow", "failed", "done"},
           next' \in {"watch", "loop"}, handler' \in {"serve", "waiting", "returned"},
           engine' = "begin" => engine = "begin", engine = "done" => engine' = "done",
           source = "pod" => engine' = engine \/ (engine' \in {"failed", "done"} /\ DOMAIN gor = {})
    PROVE  LogInv'
  <1>1. LogTypeOK /\ StreamersOK /\ PhaseOK /\ ReadToTheEnd
    BY DEF LogInv
  <1>2. LogTypeOK'
    BY <1>1 DEF LogTypeOK, cluster, Pods
  <1>3. StreamersOK'
    BY <1>1 DEF StreamersOK, cluster, Pods
  <1>4. PhaseOK'
    BY <1>1 DEF PhaseOK
  <1>5. Stream' = Stream /\ Pods' = Pods /\ gor' = gor /\ events' = events
    BY DEF Stream, cluster, Pods
  <1>6. Thin(Stream', Stream)
    BY <1>1, <1>5, StreamTyped, SameThin
  <1>7. gor' = gor /\ \A i \in DOMAIN gor : gor[i].pos \in Nat
    BY <1>1 DEF LogTypeOK, Goroutines
  <1>8. AnnouncedOnce' /\ ReadInOrder'
    <2> HIDE DEF Stream, Pods
    <2> QED BY <1>2, <1>5, <1>6, <1>7, Carry
  <1>9. ReadToTheEnd'
    BY <1>1, <1>5 DEF ReadToTheEnd, Final, cluster, Last
  <1> QED BY <1>2, <1>3, <1>4, <1>8, <1>9 DEF LogInv

LEMMA ControlActions ==
    ASSUME LogInv,
           \/ BeginFails \/ OpenWatch \/ WatchEnds \/ EngineStops \/ EngineReturns \/ OpenPodFails
           \/ HandlerStops \/ HandlerReturns
    PROVE  LogInv'
  <1>0. LogTypeOK /\ PhaseOK
    BY DEF LogInv
  <1>1. UNCHANGED <<cluster, source, gone, events, streamers, gor, channel, view>>
    BY DEF BeginFails, OpenWatch, WatchEnds, EngineStops, EngineReturns, OpenPodFails, HandlerStops, HandlerReturns, server
  <1>2. /\ engine' \in {"begin", "podset", "watch", "loop", "degraded", "wait", "follow", "failed", "done"}
        /\ next' \in {"watch", "loop"} /\ handler' \in {"serve", "waiting", "returned"}
    BY <1>0 DEF LogTypeOK, BeginFails, OpenWatch, WatchEnds, EngineStops, EngineReturns, OpenPodFails,
                HandlerStops, HandlerReturns, server
  <1>3. /\ engine' = "begin" => engine = "begin" 
        /\ engine = "done" => engine' = "done"
        /\ source = "pod" => engine' = engine \/ (engine' \in {"failed", "done"} /\ DOMAIN gor = {})
    BY <1>0 DEF PhaseOK, BeginFails, OpenWatch, WatchEnds, EngineStops, EngineReturns, OpenPodFails,
                HandlerStops, HandlerReturns, server
  <1> QED BY <1>1, <1>2, <1>3, ControlStep

(* The end of a stream keeps what ReadToTheEnd says of the stream's end. *)
LEMMA SuffixEnd ==
    ASSUME NEW s \in Seq(Entries), NEW t \in Seq(Entries), Suffix(t, s)
    PROVE  /\ t # <<>> => s # <<>> /\ t[Len(t)] = s[Len(s)]
           /\ Len(t) > 1 => Len(s) > 1 /\ t[Len(t) - 1] = s[Len(s) - 1]
  <1>1. Len(s) \in Nat /\ Len(t) \in Nat /\ Len(t) <= Len(s)
    BY DEF Suffix
  <1>2. t # <<>> => Len(t) # 0
    OBVIOUS
  <1>3. s # <<>> <=> Len(s) # 0
    OBVIOUS
  <1>4. ASSUME Len(t) # 0 PROVE t[Len(t)] = s[Len(s)]
    <2>1. Len(t) \in 1 .. Len(t) /\ Len(t) + (Len(s) - Len(t)) = Len(s)
      BY <1>1, <1>4
    <2> QED BY <2>1 DEF Suffix
  <1>5. ASSUME Len(t) > 1 PROVE t[Len(t) - 1] = s[Len(s) - 1]
    <2>1. Len(t) - 1 \in 1 .. Len(t) /\ (Len(t) - 1) + (Len(s) - Len(t)) = Len(s) - 1
      BY <1>1, <1>5
    <2> QED BY <2>1 DEF Suffix
  <1> QED BY <1>1, <1>2, <1>3, <1>4, <1>5

LEMMA ViewStep ==
    ASSUME LogInv, UNCHANGED <<cluster, source, server, channel>>,
           view' \in Views, Len(view'.buffer) <= BufferCap, view'.status # "closed",
           Suffix(view'.buffer \o view'.pending, view.buffer \o view.pending),
           gone' \in BOOLEAN, handler' \in {"serve", "waiting", "returned"}
    PROVE  LogInv'
  <1>1. LogTypeOK /\ StreamersOK /\ PhaseOK /\ ReadToTheEnd
    BY DEF LogInv
  <1>2. LogTypeOK'
    BY <1>1 DEF LogTypeOK, cluster, server, Pods
  <1>3. StreamersOK'
    BY <1>1 DEF StreamersOK, cluster, server, Pods
  <1>4. /\ Suffix(Stream', Stream)
        /\ (view.pending = <<>> /\ view.buffer = <<>>) => view'.pending = <<>> /\ view'.buffer = <<>>
    <2>1. view \in Views /\ view' \in Views /\ channel \in Seq(Entries) /\ channel' = channel
      BY <1>1 DEF LogTypeOK
    <2>2. /\ view.buffer \o view.pending \in Seq(Entries) /\ view'.buffer \o view'.pending \in Seq(Entries)
          /\ Len(view.buffer \o view.pending) = Len(view.buffer) + Len(view.pending)
          /\ Len(view'.buffer \o view'.pending) = Len(view'.buffer) + Len(view'.pending)
          /\ Len(view'.buffer) \in Nat /\ Len(view'.pending) \in Nat
          /\ view'.buffer \in Seq(Lines) /\ view'.pending \in Seq(Lines)
      BY <2>1, Flow
    <2>3. Suffix((view'.buffer \o view'.pending) \o channel, (view.buffer \o view.pending) \o channel)
      BY <2>1, <2>2, ConcatSuffix
    <2>4. ASSUME view.pending = <<>>, view.buffer = <<>> PROVE view'.pending = <<>> /\ view'.buffer = <<>>
      <3>1. Len(view.pending) = 0 /\ Len(view.buffer) = 0
        BY <2>4
      <3>2. Len(view'.buffer) = 0 /\ Len(view'.pending) = 0
        <4> DEFINE l == Len(view'.buffer \o view'.pending)
                   r == Len(view.buffer \o view.pending)
                   x == Len(view'.buffer)
                   y == Len(view'.pending)
        <4>1. l <= r
          BY DEF Suffix
        <4>2. l = x + y /\ r = 0 /\ x \in Nat /\ y \in Nat
          BY <2>2, <3>1
        <4> HIDE DEF l, r, x, y
        <4>3. x = 0 /\ y = 0
          BY <4>1, <4>2
        <4> QED BY <4>3 DEF x, y
      <3> QED BY <2>2, <3>2
    <2> QED BY <2>1, <2>3, <2>4 DEF Stream
  <1>5. PhaseOK'
    BY <1>1, <1>4 DEF PhaseOK, server
  <1>6. Stream \in Seq(Entries) /\ Stream' \in Seq(Entries)
    BY <1>1, <1>2, StreamTyped, StreamTypedNext
  <1>7. Pods' = Pods /\ gor' = gor /\ events' = events /\ \A i \in DOMAIN gor : gor[i].pos \in Nat
    BY <1>1 DEF cluster, server, Pods, LogTypeOK, Goroutines
  <1> HIDE DEF Stream, Pods
  <1>8. AnnouncedOnce' /\ ReadInOrder'
    BY <1>2, <1>4, <1>6, <1>7, Carry, SuffixThin
  <1>9. ReadToTheEnd'
    <2>1. /\ Stream' # <<>> => Stream # <<>> /\ Stream'[Len(Stream')] = Stream[Len(Stream)]
          /\ Len(Stream') > 1 => Len(Stream) > 1 /\ Stream'[Len(Stream') - 1] = Stream[Len(Stream) - 1]
      BY <1>4, <1>6, SuffixEnd
    <2>2. ASSUME NEW e PROVE Final(e)' <=> Final(e)
      BY <1>7 DEF Final, cluster
    <2> QED BY <1>1, <1>7, <2>1, <2>2 DEF ReadToTheEnd, server, Last
  <1> QED BY <1>2, <1>3, <1>5, <1>8, <1>9 DEF LogInv

(* flush keeps the newest lines. *)
LEMMA FlushSuffix ==
    ASSUME NEW v \in Views
    PROVE  /\ Flush(v, v.pending) \in Seq(Lines) /\ Len(Flush(v, v.pending)) <= BufferCap
           /\ Suffix(Flush(v, v.pending), v.buffer \o v.pending)
           /\ v.buffer \o v.pending # <<>> => Flush(v, v.pending) # <<>>
  <1> DEFINE all == v.buffer \o v.pending
             f == Flush(v, v.pending)
  <1>1. all \in Seq(Lines) /\ Len(all) \in Nat /\ BufferCap \in Nat \ {0}
    <2>1. v.buffer \in Seq(Lines) /\ v.pending \in Seq(Lines)
      BY DEF Views
    <2> QED BY <2>1, ConcatProperties, LenProperties, Constants
  <1>2. f = IF Len(all) > BufferCap THEN SubSeq(all, Len(all) - BufferCap + 1, Len(all)) ELSE all
    BY DEF Flush
  <1>3. all # <<>> <=> Len(all) # 0
    BY <1>1, EmptySeq
  <1> HIDE DEF all, f
  <1>4. CASE Len(all) > BufferCap
    <2> DEFINE m == Len(all) - BufferCap + 1
               n == Len(all)
    <2>1. m \in 1 .. n + 1 /\ n \in m - 1 .. Len(all) /\ n - m + 1 = BufferCap /\ m \in Int /\ n \in Int
      BY <1>1, <1>4
    <2>2. f = SubSeq(all, m, n)
      BY <1>2, <1>4
    <2>3. /\ SubSeq(all, m, n) \in Seq(Lines) /\ Len(SubSeq(all, m, n)) = n - m + 1
          /\ \A i \in 1 .. n - m + 1 : SubSeq(all, m, n)[i] = all[m + i - 1]
      <3> HIDE DEF m, n
      <3>1. m \in 1 .. Len(all) + 1 /\ n \in m - 1 .. Len(all)
        BY <2>1 DEF n
      <3> QED BY <1>1, <3>1, SubSeqProperties
    <2>4. Len(f) = BufferCap /\ f \in Seq(Lines)
      BY <2>1, <2>2, <2>3
    <2>5. ASSUME NEW i \in 1 .. Len(f) PROVE f[i] = all[i + (Len(all) - Len(f))]
      <3>1. i \in 1 .. n - m + 1 /\ m + i - 1 = i + (Len(all) - Len(f))
        BY <1>1, <2>4, <2>1
      <3> HIDE DEF m, n
      <3> QED BY <2>2, <2>3, <3>1
    <2>6. Len(f) <= Len(all) /\ f # <<>>
      BY <1>1, <1>4, <2>4
    <2>7. Suffix(f, all)
      BY <2>5, <2>6 DEF Suffix
    <2> QED BY <1>1, <2>4, <2>6, <2>7 DEF f, all
  <1>5. CASE ~(Len(all) > BufferCap)
    <2>1. f = all /\ Len(all) <= BufferCap
      BY <1>1, <1>2, <1>5
    <2>2. Suffix(all, all)
      BY <1>1 DEF Suffix
    <2> QED BY <1>1, <2>1, <2>2 DEF f, all
  <1> QED BY <1>4, <1>5

(* The view after a flush. *)
LEMMA FlushedView ==
    ASSUME LogTypeOK, NEW st \in {"connecting", "streaming", "closed", "error", "left"}
    PROVE  /\ Flushed(st) \in Views /\ Flushed(st).status = st
           /\ Flushed(st).pending = <<>> /\ Len(Flushed(st).buffer) <= BufferCap
           /\ Flushed(st).buffer = Flush(view, view.pending)
           /\ Flushed(st).buffer \o Flushed(st).pending = Flush(view, view.pending)
           /\ Suffix(Flushed(st).buffer \o Flushed(st).pending, view.buffer \o view.pending)
  <1>1. view \in Views
    BY DEF LogTypeOK
  <1>2. /\ Flush(view, view.pending) \in Seq(Lines) /\ Len(Flush(view, view.pending)) <= BufferCap
        /\ Suffix(Flush(view, view.pending), view.buffer \o view.pending)
    BY <1>1, FlushSuffix
  <1>3. Flush(view, view.pending) \o <<>> = Flush(view, view.pending)
    BY <1>2, ConcatEmptySeq
  <1>4. <<>> \in Seq(Lines)
    OBVIOUS
  <1> DEFINE fl == Flush(view, view.pending)
  <1> HIDE DEF fl
  <1>5. Flushed(st) = [status |-> st, pending |-> <<>>, buffer |-> fl]
    BY DEF Flushed, fl
  <1>6. fl \in Seq(Lines) /\ Len(fl) <= BufferCap /\ Suffix(fl, view.buffer \o view.pending) /\ fl \o <<>> = fl
    BY <1>2, <1>3 DEF fl
  <1>7. Flushed(st).status = st /\ Flushed(st).pending = <<>> /\ Flushed(st).buffer = fl
    BY <1>5
  <1>8. Flushed(st) \in Views
    BY <1>4, <1>5, <1>6 DEF Views
  <1> QED BY <1>6, <1>7, <1>8 DEF fl

LEMMA ViewActions ==
    ASSUME LogInv, OnOpen \/ ServeFailure \/ FlushTimer \/ ConnectionLost \/ Leave
    PROVE  LogInv'
  <1>0. LogTypeOK /\ view \in Views /\ gone \in BOOLEAN /\ handler \in {"serve", "waiting", "returned"}
    BY DEF LogInv, LogTypeOK
  <1>1. UNCHANGED <<cluster, source, server, channel>>
    BY DEF OnOpen, ServeFailure, FlushTimer, ConnectionLost, Leave
  <1>2. gone' \in BOOLEAN /\ handler' \in {"serve", "waiting", "returned"}
    BY <1>0 DEF OnOpen, ServeFailure, FlushTimer, ConnectionLost, Leave
  <1>3. CASE OnOpen
    <2>1. view' = [view EXCEPT !.status = "streaming"]
      BY <1>3 DEF OnOpen
    <2>2. view' \in Views /\ view'.status = "streaming" /\ view'.buffer = view.buffer /\ view'.pending = view.pending
      BY <1>0, <2>1 DEF Views
    <2>3. view.buffer \o view.pending \in Seq(Lines) /\ Len(view.buffer) <= BufferCap
      BY <1>0, Flow, ConcatProperties DEF LogTypeOK, Views
    <2>4. Suffix(view.buffer \o view.pending, view.buffer \o view.pending)
      BY <2>3 DEF Suffix
    <2>5. Suffix(view'.buffer \o view'.pending, view.buffer \o view.pending) /\ Len(view'.buffer) <= BufferCap
      BY <2>2, <2>3, <2>4
    <2> HIDE <2>1
    <2> QED BY <1>1, <1>2, <2>2, <2>5, ViewStep
  <1>4. CASE ServeFailure \/ FlushTimer \/ ConnectionLost
    <2>1. PICK st \in {"connecting", "streaming", "error"} : view' = Flushed(st)
      BY <1>4 DEF ServeFailure, FlushTimer, ConnectionLost, Open
    <2>2. /\ view' \in Views /\ view'.status = st /\ Len(view'.buffer) <= BufferCap
          /\ Suffix(view'.buffer \o view'.pending, view.buffer \o view.pending)
      BY <1>0, <2>1, FlushedView
    <2> HIDE <2>1
    <2> QED BY <1>1, <1>2, <2>1, <2>2, ViewStep
  <1>5. CASE Leave
    <2>1. view' = [status |-> "left", pending |-> <<>>, buffer |-> <<>>]
      BY <1>5 DEF Leave
    <2>2. <<>> \in Seq(Lines) /\ Len(<<>>) = 0
      OBVIOUS
    <2>3. view' \in Views /\ view'.status = "left" /\ view'.pending = <<>> /\ view'.buffer = <<>>
      BY <2>1, <2>2 DEF Views
    <2>4. Len(<<>> \o <<>>) = 0
      OBVIOUS
    <2>5. Suffix(<<>> \o <<>>, view.buffer \o view.pending)
      <3>1. Len(view.buffer \o view.pending) \in Nat
        BY <1>0, ConcatProperties, LenProperties DEF Views
      <3> DEFINE none == <<>> \o <<>>
      <3>2. Len(none) = 0
        BY <2>4
      <3> HIDE DEF none
      <3>3. Suffix(none, view.buffer \o view.pending)
        <4> DEFINE all == view.buffer \o view.pending
        <4>0. Len(all) \in Nat
          BY <3>1
        <4> HIDE DEF all
        <4>1. Len(none) <= Len(all) /\ 1 .. Len(none) = {}
          BY <3>2, <4>0
        <4>2. Suffix(none, all)
          BY <4>1 DEF Suffix
        <4> QED BY <4>2 DEF all
      <3> QED BY <3>3 DEF none
    <2>6. Suffix(view'.buffer \o view'.pending, view.buffer \o view.pending)
      BY <2>3, <2>5
    <2>7. Len(view'.buffer) <= BufferCap
      BY <2>2, <2>3, Constants
    <2> HIDE <2>1
    <2> QED BY <1>1, <1>2, <2>3, <2>6, <2>7, ViewStep
  <1> QED BY <1>3, <1>4, <1>5

-----------------------------------------------------------------------------
(* The pods, and the goroutines of a workload view.                        *)

LEMMA ClusterActions ==
    ASSUME LogInv,
           \/ \E n \in Name : Create(n)
           \/ \E i \in Pods : Starts(i) \/ Writes(i) \/ Restart(i) \/ Delete(i)
    PROVE  LogInv'
  <1>0. LogTypeOK /\ StreamersOK /\ PhaseOK /\ AnnouncedOnce /\ ReadInOrder /\ ReadToTheEnd
    BY DEF LogInv
  <1>a. /\ home \in Seq(Name) /\ alive \subseteq Pods /\ ready \subseteq alive
        /\ written \in Seq(Nat) /\ Len(written) = Len(home) /\ events \in Seq(Events) /\ Len(home) \in Nat
        /\ Pods = 1 .. Len(home) /\ DOMAIN written = 1 .. Len(home)
        /\ Typed(gor) /\ DOMAIN gor \subseteq Pods
    BY <1>0 DEF LogTypeOK, Pods, Typed
  <1>1. /\ UNCHANGED <<source, gone, engine, next, streamers, gor, channel, handler, view>>
        /\ Stream' = Stream
    BY DEF Create, Starts, Writes, Restart, Delete, Stream, server
  <1>b. Stream \in Seq(Entries) /\ Thin(Stream, Stream)
    BY <1>0, StreamTyped, SameThin
  <1>c. InOrder(Stream, Pods, gor) /\ Announced(events, Stream, Pods, DOMAIN gor)
    BY <1>0, <1>a, <1>b, OrderForm, AnnouncedForm
  \* What any of them leaves to be shown once the cluster's part is typed.
  <1>2. ASSUME home' \in Seq(Name), Pods \subseteq Pods', alive' \subseteq Pods', ready' \subseteq alive',
               written' \in Seq(Nat), Len(written') = Len(home'), events' \in Seq(Events),
               \A i \in Pods : home'[i] = home[i] /\ written[i] <= written'[i],
               \A i \in Pods \ alive : i \notin alive' /\ written'[i] = written[i],
               engine = "begin" => events' = events,
               Announced(events', Stream, Pods', DOMAIN gor)
        PROVE  LogInv'
    <2>1. LogTypeOK'
      <3>1. DOMAIN gor' \subseteq Pods' /\ \A b \in DOMAIN gor' : gor'[b] \in Goroutines
        BY <1>a, <1>1, <1>2 DEF Typed
      <3> QED BY <1>0, <1>1, <1>2, <3>1 DEF LogTypeOK
    <2>2. StreamersOK'
      <3>1. ASSUME NEW b \in DOMAIN gor, gor[b].pc = "read"
            PROVE  gor[b].from \in Pods' /\ gor[b].pos <= written'[gor[b].from]
        <4>1. gor[b].from \in Pods /\ gor[b].pos <= written[gor[b].from] /\ gor[b].pos \in Nat
          BY <1>0, <1>a, <3>1 DEF StreamersOK, Typed, Goroutines
        <4>2. /\ gor[b].from \in DOMAIN written /\ gor[b].from \in Pods' /\ Pods' = 1 .. Len(home')
              /\ Len(written') = Len(home')
          BY <1>a, <1>2, <4>1 DEF Pods
        <4>3. written[gor[b].from] \in Nat /\ written'[gor[b].from] \in Nat
          <5> DEFINE f == gor[b].from
          <5>1. f \in 1 .. Len(written) /\ f \in 1 .. Len(written')
            BY <1>a, <4>2
          <5> HIDE DEF f
          <5>2. written[f] \in Nat
            BY <1>a, <5>1
          <5>3. written'[f] \in Nat
            BY <1>2, <5>1
          <5> QED BY <5>2, <5>3 DEF f
        <4> QED BY <1>2, <4>1, <4>2, <4>3
      <3>2. ASSUME NEW n \in DOMAIN streamers PROVE streamers[n] \in DOMAIN gor /\ home'[streamers[n]] = n
        BY <1>0, <1>a, <1>2 DEF StreamersOK
      <3> QED BY <1>1, <3>1, <3>2 DEF StreamersOK
    <2>3. PhaseOK'
      BY <1>0, <1>1, <1>2 DEF PhaseOK
    <2>4. AnnouncedOnce' /\ ReadInOrder'
      <3>1. Further(Stream, gor, gor) 
        <4>1. \A i \in DOMAIN gor : gor[i].pos \in Nat
          BY <1>a DEF Typed, Goroutines
        <4> QED BY <4>1 DEF Further
      <3> HIDE DEF Stream, Pods
      <3>2. InOrder(Stream, Pods', gor)
        BY <1>a, <1>b, <1>c, <1>2, <3>1, ThinInOrder
      <3> QED BY <1>b, <1>1, <1>2, <3>2, OrderFormNext, AnnouncedFormNext
    <2>5. ReadToTheEnd'
      <3>1. ASSUME NEW e, Final(e) PROVE Final(e)'
        BY <1>2, <3>1 DEF Final
      <3> HIDE DEF Stream
      <3> QED BY <1>0, <1>1, <3>1 DEF ReadToTheEnd, Last
    <2> QED BY <2>1, <2>2, <2>3, <2>4, <2>5 DEF LogInv
  <1>3. CASE \E n \in Name : Create(n)
    <2>1. PICK n \in Name : Create(n)
      BY <1>3
    <2> DEFINE new == Len(home) + 1
    <2>2. home' = Append(home, n) /\ written' = Append(written, 0) /\ alive' = alive \union {new} /\ ready' = ready
      BY <2>1 DEF Create
    <2>3. /\ home' \in Seq(Name) /\ Len(home') = new /\ \A i \in 1 .. Len(home) : home'[i] = home[i]
          /\ written' \in Seq(Nat) /\ Len(written') = new /\ \A i \in 1 .. Len(home) : written'[i] = written[i]
      BY <1>a, <2>2, AppendProperties
    <2>4. Pods' = 1 .. new /\ new \in Nat /\ new \notin Pods /\ Pods \subseteq Pods' /\ new \in Pods'
      BY <1>a, <2>3 DEF Pods
    <2>5. alive' \subseteq Pods' /\ ready' \subseteq alive' /\ \A i \in Pods \ alive : i \notin alive'
      BY <1>a, <2>2, <2>4
    <2>6. \A i \in Pods : written[i] \in Nat
      BY <1>a
    <2>7. \A i \in Pods : home'[i] = home[i] /\ written'[i] = written[i] /\ written[i] <= written'[i]
      BY <1>a, <2>3, <2>6
    <2> HIDE <2>2 
    <2>8. events' \in Seq(Events) /\ (engine = "begin" => events' = events) /\ Announced(events', Stream, Pods', DOMAIN gor)
      <3>1. CASE engine = "begin"
        <4>1. events' = events
          BY <2>1, <3>1 DEF Create, Notify
        <4> QED BY <1>a, <1>c, <2>4, <4>1 DEF Announced
      <3>2. CASE engine # "begin"
        <4> DEFINE ev == [type |-> "Added", pod |-> new]
        <4>1. events' = Append(events, ev)
          BY <2>1, <3>2 DEF Create, Notify
        <4>2. ev \in Events /\ ev.type = "Added" /\ ev.pod = new
          BY <2>4 DEF Events
        <4> HIDE DEF ev, new
        <4>3. /\ events' \in Seq(Events) /\ Len(events') = Len(events) + 1 /\ events'[Len(events) + 1] = ev
              /\ Len(events) \in Nat
              /\ \A j \in 1 .. Len(events) : events'[j] = events[j]
          BY <1>a, <4>1, <4>2, AppendProperties
        <4>4. \A j \in 1 .. Len(events') : j \in 1 .. Len(events) \/ j = Len(events) + 1
          BY <4>3
        <4>5. new \notin DOMAIN gor
          BY <1>a, <2>4
        <4>6. Unread(Stream, new)
          <5>1. ASSUME NEW k \in 1 .. Len(Stream), Own(Stream[k], new) PROVE FALSE
            <6> HIDE DEF Stream, Pods
            <6>1. new \in Pods
              BY <1>c, <5>1 DEF InOrder, Own
            <6> QED BY <2>4, <6>1
          <5> QED BY <5>1 DEF Unread
        <4>7. \A j \in 1 .. Len(events) : events[j].pod \in Pods /\ events[j].pod # new
          BY <1>c, <2>4 DEF Announced
        <4> HIDE DEF Stream, Pods
        <4>8. Announced(events', Stream, Pods', DOMAIN gor)
          <5>1. ASSUME NEW j \in 1 .. Len(events')
                PROVE /\ events'[j].pod \in Pods'
                      /\ events'[j].type = "Added" =>
                           /\ events'[j].pod \notin DOMAIN gor /\ Unread(Stream, events'[j].pod)
                           /\ \A k \in 1 .. Len(events') :
                                events'[k].type = "Added" /\ events'[k].pod = events'[j].pod => k = j
            <6>1. CASE j \in 1 .. Len(events)
              BY <1>c, <2>4, <4>2, <4>3, <4>4, <4>7, <6>1 DEF Announced
            <6>2. CASE j = Len(events) + 1
              BY <2>4, <4>2, <4>3, <4>4, <4>5, <4>6, <4>7, <6>2
            <6> QED BY <4>4, <6>1, <6>2
          <5> QED BY <5>1 DEF Announced
        <4> QED BY <3>2, <4>3, <4>8
      <3> QED BY <3>1, <3>2
    <2>9. Len(written') = Len(home')
      BY <2>3
    <2> QED BY <1>2, <2>3, <2>4, <2>5, <2>7, <2>8, <2>9
  <1>4. ASSUME NEW i \in Pods, Starts(i) PROVE LogInv'
    <2>1. UNCHANGED <<home, alive, written, events>> /\ ready' = ready \union {i} /\ i \in alive
      BY <1>4 DEF Starts, server
    <2>2. Pods' = Pods /\ ready' \subseteq alive'
      BY <1>a, <2>1 DEF Pods
    <2>3. \A p \in Pods : home'[p] = home[p] /\ written[p] <= written'[p]
      BY <1>a, <2>1
    <2> QED BY <1>a, <1>c, <1>2, <2>1, <2>2, <2>3
  <1>5. ASSUME NEW i \in Pods, Writes(i) PROVE LogInv'
    <2>1. UNCHANGED <<home, alive, ready, events>> /\ written' = [written EXCEPT ![i] = @ + 1] /\ i \in ready
      BY <1>5 DEF Writes, server
    <2>2. Pods' = Pods
      BY <2>1 DEF Pods
    <2>3. \A p \in Pods : written[p] \in Nat
      BY <1>a
    <2>4. \A p \in Pods : written'[p] = IF p = i THEN written[p] + 1 ELSE written[p]
      BY <1>a, <2>1
    <2>5. written' \in Seq(Nat) /\ Len(written') = Len(home')
      BY <1>a, <2>1, <2>3
    <2> HIDE <2>1
    <2>6. \A p \in Pods : written[p] <= written'[p]
      BY <2>3, <2>4
    <2>7. \A p \in Pods \ alive : p \notin alive' /\ written'[p] = written[p]
      BY <1>a, <2>1, <2>4
    <2>8. UNCHANGED <<home, alive, ready, events>>
      BY <2>1
    <2> QED BY <1>a, <1>c, <1>2, <2>2, <2>5, <2>6, <2>7, <2>8
  <1>6. ASSUME NEW i \in Pods, Delete(i) PROVE LogInv'
    <2>1. UNCHANGED <<home, written>> /\ alive' = alive \ {i} /\ ready' = ready \ {i}
      BY <1>6 DEF Delete
    <2>2. Pods' = Pods /\ alive' \subseteq Pods' /\ ready' \subseteq alive'
      BY <1>a, <2>1 DEF Pods
    <2>3. \A p \in Pods : home'[p] = home[p] /\ written[p] <= written'[p]
      BY <1>a, <2>1
    <2>4. \A p \in Pods \ alive : p \notin alive' /\ written'[p] = written[p]
      BY <2>1
    <2>5. events' \in Seq(Events) /\ (engine = "begin" => events' = events) /\ Announced(events', Stream, Pods', DOMAIN gor)
      <3>1. CASE engine = "begin"
        <4>1. events' = events
          BY <1>6, <3>1 DEF Delete, Notify
        <4> QED BY <1>a, <1>c, <2>2, <4>1
      <3>2. CASE engine # "begin"
        <4> DEFINE ev == [type |-> "Deleted", pod |-> i]
        <4>1. events' = Append(events, ev)
          BY <1>6, <3>2 DEF Delete, Notify
        <4>2. ev \in Events /\ ev.type = "Deleted" /\ ev.pod = i
          BY <1>a DEF Events
        <4> HIDE DEF ev
        <4>3. /\ events' \in Seq(Events) /\ Len(events') = Len(events) + 1 /\ events'[Len(events) + 1] = ev
              /\ Len(events) \in Nat
              /\ \A j \in 1 .. Len(events) : events'[j] = events[j]
          BY <1>a, <4>1, <4>2, AppendProperties
        <4>4. \A j \in 1 .. Len(events') : j \in 1 .. Len(events) \/ j = Len(events) + 1
          BY <4>3
        <4> HIDE DEF Stream, Pods
        <4>5. Announced(events', Stream, Pods', DOMAIN gor)
          BY <1>c, <2>2, <4>2, <4>3, <4>4 DEF Announced
        <4> QED BY <3>2, <4>3, <4>5
      <3> QED BY <3>1, <3>2
    <2> QED BY <1>a, <1>2, <2>1, <2>2, <2>3, <2>4, <2>5
  <1>7. ASSUME NEW i \in Pods, Restart(i) PROVE LogInv'
    <2> DEFINE new == Len(home) + 1
    <2>1. /\ home' = Append(home, home[i]) /\ written' = Append(written, 0)
          /\ alive' = (alive \ {i}) \union {new} /\ ready' = ready \ {i} /\ events' = events
      BY <1>7 DEF Restart, server
    <2>2. home[i] \in Name
      BY <1>a
    <2>3. /\ home' \in Seq(Name) /\ Len(home') = new /\ \A p \in 1 .. Len(home) : home'[p] = home[p]
          /\ written' \in Seq(Nat) /\ Len(written') = new /\ \A p \in 1 .. Len(home) : written'[p] = written[p]
      BY <1>a, <2>1, <2>2, AppendProperties
    <2>4. Pods' = 1 .. new /\ new \in Nat /\ new \notin Pods /\ Pods \subseteq Pods' /\ new \in Pods'
      BY <1>a, <2>3 DEF Pods
    <2>5. alive' \subseteq Pods' /\ ready' \subseteq alive' /\ \A p \in Pods \ alive : p \notin alive'
      BY <1>a, <2>1, <2>4
    <2>6. \A p \in Pods : written[p] \in Nat
      BY <1>a
    <2>7. \A p \in Pods : home'[p] = home[p] /\ written'[p] = written[p] /\ written[p] <= written'[p]
      BY <1>a, <2>3, <2>6
    <2>8. events' = events
      BY <2>1
    <2> HIDE <2>1
    <2>9. Announced(events', Stream, Pods', DOMAIN gor)
      BY <1>c, <2>4, <2>8 DEF Announced
    <2>10. Len(written') = Len(home')
      BY <2>3
    <2> QED BY <1>a, <1>2, <2>3, <2>4, <2>5, <2>7, <2>8, <2>9, <2>10
  <1> QED BY <1>3, <1>4, <1>5, <1>6, <1>7

(* What a step of the engine or of a goroutine leaves as it was. *)
LEMMA WorkloadRest ==
    ASSUME LogInv, source = "workload", UNCHANGED <<cluster, source, channel, view>>, engine' # "begin"
    PROVE  PhaseOK' /\ ReadToTheEnd' /\ Stream' = Stream /\ Pods' = Pods
  <1>1. PhaseOK /\ ReadToTheEnd /\ Stream' = Stream /\ Pods' = Pods
    BY DEF LogInv, Stream, Pods, cluster
  <1>2. PhaseOK'
    BY <1>1 DEF PhaseOK
  <1> HIDE DEF Stream
  <1>3. ReadToTheEnd'
    BY <1>1 DEF ReadToTheEnd, Final, cluster, Last
  <1> QED BY <1>1, <1>2, <1>3

LEMMA GoroutineStep ==
    ASSUME LogInv, source = "workload",
           UNCHANGED <<cluster, source, gone, engine, next, events, channel, handler, view>>, engine # "begin",
           DOMAIN gor' \subseteq DOMAIN gor, Typed(gor'), Further(Stream, gor, gor'), StreamersOK'
    PROVE  LogInv'
  <1>1. LogTypeOK
    BY DEF LogInv
  <1>2. PhaseOK' /\ ReadToTheEnd' /\ Stream' = Stream /\ Pods' = Pods
    BY WorkloadRest
  <1>3. LogTypeOK'
    BY <1>1, <1>2 DEF LogTypeOK, cluster, Typed
  <1>4. Stream \in Seq(Entries) /\ Thin(Stream', Stream)
    BY <1>1, <1>2, StreamTyped, SameThin
  <1> HIDE DEF Stream, Pods
  <1>5. AnnouncedOnce' /\ ReadInOrder'
    BY <1>2, <1>3, <1>4, Carry DEF Further
  <1> QED BY <1>2, <1>3, <1>5 DEF LogInv

LEMMA GoroutineActions ==
    ASSUME LogInv, NEW b \in Pods, OpenLogs(b) \/ OpenFails(b) \/ LogEnds(b) \/ GoroutineEnds(b)
    PROVE  LogInv'
  <1>0. LogTypeOK /\ StreamersOK /\ PhaseOK
    BY DEF LogInv
  <1>1. /\ Typed(gor) /\ b \in DOMAIN gor /\ DOMAIN gor \subseteq Pods
        /\ gor[b] \in Goroutines /\ \A i \in DOMAIN gor : gor[i].pos \in Nat
    BY <1>0 DEF LogTypeOK, Typed, Goroutines, OpenLogs, OpenFails, LogEnds, GoroutineEnds
  <1>2. source = "workload" /\ engine # "begin"
    BY <1>0, <1>1 DEF LogTypeOK, PhaseOK, OpenLogs, OpenFails, LogEnds, GoroutineEnds
  <1>3. UNCHANGED <<cluster, source, gone, engine, next, events, channel, handler, view>> /\ Pods' = Pods /\ home' = home
    BY DEF OpenLogs, OpenFails, LogEnds, GoroutineEnds, cluster, Pods
  <1>4. CASE OpenLogs(b)
    <2>a. PICK i \in ready :
            \E n \in {0, written[i]} : gor' = [gor EXCEPT ![b].pc = "read", ![b].from = i, ![b].pos = n]
      BY <1>4 DEF OpenLogs
    <2>1. PICK n \in {0, written[i]} : gor' = [gor EXCEPT ![b].pc = "read", ![b].from = i, ![b].pos = n]
      BY <2>a
    <2>2. i \in Pods /\ i \in Nat /\ n \in Nat /\ written[i] \in Nat /\ n <= written[i] /\ written' = written
          /\ streamers' = streamers /\ gor[b].pc = "open"
      <3>1. i \in Pods /\ i \in DOMAIN written /\ i \in Nat
        BY <1>0 DEF LogTypeOK, Pods
      <3>2. written[i] \in Nat
        BY <1>0, <3>1 DEF LogTypeOK
      <3>3. n \in Nat /\ n <= written[i]
        BY <2>1, <3>2
      <3>4. written' = written /\ streamers' = streamers /\ gor[b].pc = "open"
        BY <1>4 DEF OpenLogs, cluster
      <3> QED BY <3>1, <3>2, <3>3, <3>4
    <2>3. /\ DOMAIN gor' = DOMAIN gor /\ (\A j \in DOMAIN gor : j # b => gor'[j] = gor[j])
          /\ gor'[b].pc = "read" /\ gor'[b].from = i /\ gor'[b].pos = n
          /\ gor'[b] \in Goroutines
      BY <1>1, <2>1, <2>2 DEF Goroutines
    <2> HIDE <2>1
    <2>4. Typed(gor') /\ DOMAIN gor' \subseteq DOMAIN gor
      BY <1>1, <2>3 DEF Typed
    <2>5. Further(Stream, gor, gor')
      BY <1>1, <2>2, <2>3 DEF Further
    <2>6. StreamersOK'
      <3>1. \A c \in DOMAIN gor' : gor'[c].pc = "read" => gor'[c].from \in Pods /\ gor'[c].pos <= written[gor'[c].from]
        BY <1>0, <2>2, <2>3 DEF StreamersOK
      <3> QED BY <1>0, <1>3, <2>2, <2>3, <3>1 DEF StreamersOK
    <2> QED BY <1>2, <1>3, <2>4, <2>5, <2>6, GoroutineStep
  <1>5. CASE OpenFails(b) \/ LogEnds(b)
    <2>1. gor' = [gor EXCEPT ![b].pc = "end"] /\ streamers' = streamers /\ written' = written
      BY <1>3, <1>5 DEF OpenFails, LogEnds, cluster
    <2>3. /\ DOMAIN gor' = DOMAIN gor /\ (\A j \in DOMAIN gor : j # b => gor'[j] = gor[j])
          /\ gor'[b].pc = "end" /\ gor'[b].from = gor[b].from /\ gor'[b].pos = gor[b].pos
          /\ gor'[b] \in Goroutines
      BY <1>1, <2>1 DEF Goroutines
    <2> HIDE <2>1
    <2>4. Typed(gor') /\ DOMAIN gor' \subseteq DOMAIN gor
      BY <1>1, <2>3 DEF Typed
    <2>5. Further(Stream, gor, gor')
      BY <1>1, <2>3 DEF Further
    <2>6. StreamersOK'
      BY <1>0, <1>3, <2>1, <2>3 DEF StreamersOK
    <2> QED BY <1>2, <1>3, <2>4, <2>5, <2>6, GoroutineStep
  <1>6. CASE GoroutineEnds(b)
    <2> DEFINE d == IF home[b] \in DOMAIN streamers THEN streamers[home[b]] ELSE b
    <2>1. /\ streamers' = Without(home[b]) /\ gor' = [i \in DOMAIN gor \ {b} |-> Cancelled(d)[i]]
          /\ written' = written
      BY <1>3, <1>6 DEF GoroutineEnds, cluster
    <2>2. d \in DOMAIN gor
      BY <1>0, <1>1 DEF StreamersOK
    <2> HIDE DEF d
    <2>3. /\ DOMAIN gor' = DOMAIN gor \ {b}
          /\ \A i \in DOMAIN gor' : /\ gor'[i].pc = gor[i].pc /\ gor'[i].from = gor[i].from /\ gor'[i].pos = gor[i].pos
                                    /\ gor'[i] \in Goroutines
      <3>1. ASSUME NEW i \in DOMAIN gor \ {b}
            PROVE  /\ gor'[i].pc = gor[i].pc /\ gor'[i].from = gor[i].from /\ gor'[i].pos = gor[i].pos
                   /\ gor'[i] \in Goroutines
        <4>1. gor'[i] = Cancelled(d)[i] /\ gor[i] \in Goroutines
          BY <1>1, <2>1 DEF Typed
        <4>2. CASE i = d
          <5>1. gor'[i] = [gor[i] EXCEPT !.cancelled = TRUE]
            BY <2>2, <4>1, <4>2 DEF Cancelled
          <5> QED BY <4>1, <5>1 DEF Goroutines
        <4>3. CASE i # d
          <5>1. gor'[i] = gor[i]
            BY <2>2, <4>1, <4>3 DEF Cancelled
          <5> QED BY <4>1, <5>1
        <4> QED BY <4>2, <4>3
      <3> QED BY <2>1, <3>1
    <2>4. DOMAIN streamers' = DOMAIN streamers \ {home[b]} /\ \A n \in DOMAIN streamers' : streamers'[n] = streamers[n]
      BY <2>1 DEF Without
    <2> HIDE <2>1
    <2>5. Typed(gor') /\ DOMAIN gor' \subseteq DOMAIN gor
      BY <2>3 DEF Typed
    <2>6. Further(Stream, gor, gor')
      BY <1>1, <2>3 DEF Further
    <2>7. StreamersOK'
      BY <1>0, <1>3, <2>1, <2>3, <2>4 DEF StreamersOK
    <2> QED BY <1>2, <1>3, <2>5, <2>6, <2>7, GoroutineStep
  <1> QED BY <1>4, <1>5, <1>6

-----------------------------------------------------------------------------
(* The start of a view, and the watch.                                     *)

LEMMA StartActions ==
    ASSUME LogInv, List \/ \E i \in Pods : OpenPodLogStream(i)
    PROVE  LogInv'
  <1>0. LogTypeOK /\ StreamersOK /\ PhaseOK /\ ReadToTheEnd /\ engine = "begin"
    BY DEF LogInv, List, OpenPodLogStream
  <1>1. /\ UNCHANGED <<cluster, source, gone, next, events, channel, handler, view>>
        /\ Pods' = Pods /\ home' = home /\ alive' = alive /\ ready' = ready /\ written' = written
    BY DEF List, OpenPodLogStream, cluster, Pods
  <1>2. channel = <<>> /\ view.pending = <<>> /\ view.buffer = <<>> /\ events = <<>>
    BY <1>0 DEF PhaseOK
  <1>3. Stream = <<>> /\ Stream' = <<>>
    <2>1. Stream = <<>> \o <<>> \o <<>> /\ Stream' = <<>> \o <<>> \o <<>>
      BY <1>1, <1>2, Zenon DEF Stream
    <2>2. <<>> \o <<>> = <<>>
      OBVIOUS
    <2> QED BY <2>1, <2>2
  <1>4. AnnouncedOnce' /\ ReadInOrder'
    <2>1. DOMAIN events' = {} /\ DOMAIN Stream' = {}
      BY <1>1, <1>2, <1>3
    <2> HIDE DEF Stream
    <2> QED BY <2>1 DEF AnnouncedOnce, ReadInOrder
  <1>5. alive \subseteq Pods /\ ready \subseteq alive /\ Pods \subseteq Nat /\ \A i \in Pods : written[i] \in Nat
    <2>1. DOMAIN written = Pods
      BY <1>0 DEF LogTypeOK, Pods
    <2> QED BY <1>0, <2>1 DEF LogTypeOK, Pods
  <1>6. CASE List
    <2>1. /\ streamers' = [n \in {home[i] : i \in alive} |-> CHOOSE i \in alive : home[i] = n]
          /\ gor' = [i \in alive |-> Opening] /\ engine' = "podset" /\ source = "workload"
      BY <1>6 DEF List
    <2>2. Opening \in Goroutines /\ Opening.pc = "open"
      BY DEF Opening, Goroutines
    <2>3. DOMAIN gor' = alive /\ \A i \in alive : gor'[i] \in Goroutines /\ gor'[i].pc = "open"
      BY <2>1, <2>2
    <2>4. \A n \in DOMAIN streamers' : streamers'[n] \in alive /\ home[streamers'[n]] = n
      BY <2>1
    <2> HIDE <2>1
    <2>5. StreamersOK'
      BY <1>1, <2>3, <2>4 DEF StreamersOK
    <2>6. LogTypeOK'
      BY <1>0, <1>1, <1>5, <2>1, <2>3 DEF LogTypeOK
    <2>7. PhaseOK' /\ ReadToTheEnd'
      BY <1>1, <2>1, WorkloadRest
    <2> QED BY <1>4, <2>5, <2>6, <2>7 DEF LogInv
  <1>7. ASSUME NEW i \in Pods, OpenPodLogStream(i) PROVE LogInv'
    <2>0. source = "pod" /\ i \in ready /\ engine' = "follow" /\ streamers' = streamers
      BY <1>7 DEF OpenPodLogStream
    <2>1. PICK n \in {0, written[i]} : gor' = [b \in {i} |-> [Opening EXCEPT !.pc = "read", !.from = i, !.pos = n]]
      BY <1>7 DEF OpenPodLogStream
    <2>2. n \in Nat /\ written[i] \in Nat /\ n <= written[i] /\ i \in Nat
      BY <1>5
    <2>3. /\ DOMAIN gor' = {i} /\ gor'[i].pc = "read" /\ gor'[i].from = i /\ gor'[i].pos = n
          /\ gor'[i] \in Goroutines
      BY <2>1, <2>2 DEF Opening, Goroutines
    <2> HIDE <2>1
    <2>4. DOMAIN streamers = {}
      BY <1>0 DEF PhaseOK
    <2>5. StreamersOK'
      BY <1>1, <2>0, <2>2, <2>3, <2>4 DEF StreamersOK
    <2>6. LogTypeOK'
      BY <1>0, <1>1, <1>5, <2>0, <2>3 DEF LogTypeOK
    <2>7. PhaseOK'
      <3>1. DOMAIN channel' = {}
        BY <1>1, <1>2
      <3> QED BY <1>1, <2>0, <2>3, <2>4, <3>1 DEF PhaseOK
    <2>8. ReadToTheEnd'
      <3>1. view'.status # "closed"
        BY <1>0, <1>1 DEF ReadToTheEnd
      <3> HIDE DEF Stream
      <3> QED BY <1>1, <1>2, <1>3, <3>1 DEF ReadToTheEnd
    <2> QED BY <1>4, <2>5, <2>6, <2>7, <2>8 DEF LogInv
  <1> QED BY <1>6, <1>7

(* The first event is taken off; it may start a goroutine for the pod it   *)
(* announces, and cancel one.                                              *)
LEMMA WatchEventAction ==
    ASSUME LogInv, WatchEvent
    PROVE  LogInv'
  <1>0. LogTypeOK /\ StreamersOK /\ PhaseOK /\ AnnouncedOnce /\ ReadInOrder
    BY DEF LogInv
  <1>1. /\ UNCHANGED <<cluster, source, gone, next, channel, handler, view>> /\ home' = home /\ written' = written
        /\ engine = "loop" /\ engine' = "podset" /\ events # <<>> /\ events' = Tail(events)
    BY DEF WatchEvent, cluster
  <1>2. source = "workload"
    BY <1>0, <1>1 DEF LogTypeOK, PhaseOK
  <1>3. PhaseOK' /\ ReadToTheEnd' /\ Stream' = Stream /\ Pods' = Pods
    BY <1>1, <1>2, WorkloadRest
  <1>4. Stream \in Seq(Entries) /\ Thin(Stream, Stream)
    BY <1>0, StreamTyped, SameThin
  <1>5. /\ events \in Seq(Events) /\ Len(events) \in Nat \ {0} /\ Head(events) = events[1]
        /\ events' \in Seq(Events) /\ Len(events') = Len(events) - 1 /\ \A j \in 1 .. Len(events') : events'[j] = events[j + 1]
    BY <1>0, <1>1, HeadTailProperties, EmptySeq DEF LogTypeOK
  <1>6. InOrder(Stream, Pods, gor) /\ Announced(events, Stream, Pods, DOMAIN gor)
    BY <1>0, <1>4, <1>5, OrderForm, AnnouncedForm
  <1>7. \A j \in 1 .. Len(events') : j + 1 \in 1 .. Len(events) /\ j + 1 # 1 /\ events'[j] = events[j + 1]
    BY <1>5
  <1>8. 1 \in 1 .. Len(events)
    BY <1>5
  <1>9. Typed(gor) /\ DOMAIN gor \subseteq Pods /\ \A i \in DOMAIN gor : gor[i].pos \in Nat
    BY <1>0 DEF LogTypeOK, Typed, Goroutines
  <1> DEFINE i == events[1].pod
  <1>10. i \in Pods
    BY <1>6, <1>8 DEF Announced
  <1>11. \/ events[1].type = "Added" /\ StartStreamer(i)
         \/ StopStreamer(i)
    BY <1>5 DEF WatchEvent
  <1>12. /\ Typed(gor') /\ StreamersOK'
         /\ \/ DOMAIN gor' = DOMAIN gor
            \/ DOMAIN gor' = DOMAIN gor \union {i} /\ events[1].type = "Added"
         /\ \A b \in DOMAIN gor' : b \in DOMAIN gor =>
              gor'[b].pc = gor[b].pc /\ gor'[b].from = gor[b].from /\ gor'[b].pos = gor[b].pos
    <2> HIDE DEF i
    <2>1. CASE home[i] \in DOMAIN streamers /\ StartStreamer(i)
      <3>1. gor' = gor /\ streamers' = streamers
        BY <2>1 DEF StartStreamer
      <3> QED BY <1>0, <1>1, <1>3, <1>9, <3>1 DEF StreamersOK
    <2>2. CASE home[i] \notin DOMAIN streamers /\ StartStreamer(i) /\ events[1].type = "Added"
      <3>1. /\ streamers' = [n \in DOMAIN streamers \union {home[i]} |-> IF n = home[i] THEN i ELSE streamers[n]]
            /\ gor' = [b \in DOMAIN gor \union {i} |-> IF b = i THEN Opening ELSE gor[b]]
        BY <2>2 DEF StartStreamer
      <3>2. i \notin DOMAIN gor
        BY <1>6, <1>8, <2>2 DEF Announced, i
      <3>3. Opening \in Goroutines /\ Opening.pc = "open"
        BY DEF Opening, Goroutines
      <3>4. DOMAIN gor' = DOMAIN gor \union {i} /\ gor'[i] = Opening /\ \A b \in DOMAIN gor : gor'[b] = gor[b]
        BY <3>1, <3>2
      <3>5. /\ DOMAIN streamers' = DOMAIN streamers \union {home[i]} /\ streamers'[home[i]] = i
            /\ \A n \in DOMAIN streamers : streamers'[n] = streamers[n]
        BY <2>2, <3>1
      <3> HIDE <3>1
      <3>6. Typed(gor')
        BY <1>9, <3>3, <3>4 DEF Typed
      <3>7. \A n \in DOMAIN streamers' : streamers'[n] \in DOMAIN gor' /\ home[streamers'[n]] = n
        BY <1>0, <3>4, <3>5 DEF StreamersOK
      <3>8. \A b \in DOMAIN gor' : gor'[b].pc = "read" => gor'[b].from \in Pods /\ gor'[b].pos <= written[gor'[b].from]
        BY <1>0, <3>3, <3>4 DEF StreamersOK
      <3>9. StreamersOK'
        BY <1>1, <1>3, <3>7, <3>8 DEF StreamersOK
      <3> QED BY <2>2, <3>4, <3>6, <3>9
    <2>3. CASE StopStreamer(i)
      <3>1. DOMAIN streamers' \subseteq DOMAIN streamers /\ \A n \in DOMAIN streamers' : streamers'[n] = streamers[n]
        BY <2>3 DEF StopStreamer, Without
      <3>2. /\ DOMAIN gor' = DOMAIN gor
            /\ \A b \in DOMAIN gor : /\ gor'[b].pc = gor[b].pc /\ gor'[b].from = gor[b].from /\ gor'[b].pos = gor[b].pos
                                     /\ gor'[b] \in Goroutines
        <4>1. CASE home[i] \in DOMAIN streamers
          <5> DEFINE d == streamers[home[i]]
          <5>1. gor' = Cancelled(d) /\ d \in DOMAIN gor
            BY <1>0, <2>3, <4>1 DEF StopStreamer, StreamersOK
          <5> HIDE DEF d
          <5>2. DOMAIN gor' = DOMAIN gor
            BY <5>1 DEF Cancelled
          <5>3. ASSUME NEW b \in DOMAIN gor
                PROVE  /\ gor'[b].pc = gor[b].pc /\ gor'[b].from = gor[b].from /\ gor'[b].pos = gor[b].pos
                       /\ gor'[b] \in Goroutines
            <6>1. gor[b] \in Goroutines
              BY <1>9 DEF Typed
            <6>2. CASE b = d
              <7>1. gor'[b] = [gor[b] EXCEPT !.cancelled = TRUE]
                BY <5>1, <6>2 DEF Cancelled
              <7> QED BY <6>1, <7>1 DEF Goroutines
            <6>3. CASE b # d
              <7>1. gor'[b] = gor[b]
                BY <5>1, <6>3 DEF Cancelled
              <7> QED BY <6>1, <7>1
            <6> QED BY <6>2, <6>3
          <5> QED BY <5>2, <5>3
        <4>2. CASE home[i] \notin DOMAIN streamers
          <5>1. gor' = gor
            BY <2>3, <4>2 DEF StopStreamer
          <5> QED BY <1>9, <5>1 DEF Typed
        <4> QED BY <4>1, <4>2
      <3>3. Typed(gor')
        BY <3>2 DEF Typed
      <3>4. StreamersOK'
        BY <1>0, <1>1, <1>3, <3>1, <3>2 DEF StreamersOK
      <3> QED BY <3>2, <3>3, <3>4
    <2> QED BY <1>11, <2>1, <2>2, <2>3
  <1>13. LogTypeOK'
    <2>1. DOMAIN gor' \subseteq Pods' /\ \A b \in DOMAIN gor' : gor'[b] \in Goroutines
      BY <1>3, <1>9, <1>10, <1>12 DEF Typed
    <2> HIDE DEF i
    <2>2. UNCHANGED <<home, alive, ready, written>>
      BY <1>1 DEF cluster
    <2>3. engine' = "podset" /\ events' \in Seq(Events) /\ UNCHANGED <<source, gone, next, channel, handler, view>>
      BY <1>1, <1>5
    <2> QED BY <1>0, <1>3, <2>1, <2>2, <2>3 DEF LogTypeOK
  <1>14. events[1].type = "Added" => Unread(Stream, i)
    BY <1>6, <1>8 DEF Announced
  <1>15. Further(Stream, gor, gor')
    BY <1>9, <1>12, <1>14 DEF Further
  <1>16. Announced(events', Stream', Pods', DOMAIN gor')
    <2>1. ASSUME NEW j \in 1 .. Len(events')
          PROVE  /\ events'[j].pod \in Pods
                 /\ events'[j].type = "Added" =>
                      /\ events'[j].pod \notin DOMAIN gor' /\ Unread(Stream, events'[j].pod)
                      /\ \A k \in 1 .. Len(events') : events'[k].type = "Added" /\ events'[k].pod = events'[j].pod => k = j
      <3>1. /\ events[j + 1].pod \in Pods
            /\ events[j + 1].type = "Added" =>
                 /\ events[j + 1].pod \notin DOMAIN gor /\ Unread(Stream, events[j + 1].pod)
                 /\ \A k \in 1 .. Len(events) : events[k].type = "Added" /\ events[k].pod = events[j + 1].pod => k = j + 1
        BY <1>6, <1>7 DEF Announced
      <3>2. events[j + 1].type = "Added" => events[j + 1].pod \notin DOMAIN gor'
        BY <1>7, <1>8, <1>12, <3>1
      <3>3. ASSUME events[j + 1].type = "Added",
                   NEW k \in 1 .. Len(events'), events'[k].type = "Added", events'[k].pod = events'[j].pod
            PROVE  k = j
        <4>1. k + 1 = j + 1
          BY <1>7, <3>1, <3>3
        <4> QED BY <4>1
      <3> QED BY <1>7, <3>1, <3>2, <3>3
    <2> QED BY <1>3, <2>1 DEF Announced
  <1> HIDE DEF Stream, Pods, i
  <1>17. InOrder(Stream, Pods', gor')
    <2>1. Pods \subseteq Pods'
      BY <1>3
    <2> QED BY <1>4, <1>6, <1>9, <1>12, <1>15, <2>1, ThinInOrder
  <1>18. AnnouncedOnce' /\ ReadInOrder'
    BY <1>3, <1>4, <1>5, <1>16, <1>17, OrderFormNext, AnnouncedFormNext
  <1> QED BY <1>3, <1>12, <1>13, <1>18 DEF LogInv

-----------------------------------------------------------------------------
(* What goes into the channel.                                             *)

LEMMA Appended ==
    ASSUME LogTypeOK, NEW e \in Entries, Room, channel' = Append(channel, e), view' = view
    PROVE  /\ Stream \in Seq(Entries) /\ Len(Stream) \in Nat
           /\ Stream' = Append(Stream, e) /\ Stream' \in Seq(Entries) /\ Len(Stream') = Len(Stream) + 1
           /\ Stream'[Len(Stream')] = e /\ Stream' # <<>> /\ \A k \in 1 .. Len(Stream) : Stream'[k] = Stream[k]
           /\ channel' \in Seq(Entries) /\ Len(channel) \in Nat /\ Len(channel') = Len(channel) + 1
           /\ Len(channel') <= Cap /\ channel'[Len(channel')] = e
           /\ DOMAIN channel = 1 .. Len(channel) /\ DOMAIN channel' = 1 .. Len(channel')
           /\ \A j \in 1 .. Len(channel) : channel'[j] = channel[j]
           /\ \A j \in 1 .. Len(channel') : j \in 1 .. Len(channel) \/ j = Len(channel')
  <1>1. view \in Views /\ channel \in Seq(Entries)
    BY DEF LogTypeOK
  <1> DEFINE shown == view.buffer \o view.pending
  <1>2. /\ shown \in Seq(Entries) /\ Stream = shown \o channel
        /\ Stream' = shown \o Append(channel, e) /\ Stream \in Seq(Entries)
    BY <1>1, Flow DEF Stream
  <1> HIDE DEF shown
  <1>3. Stream' = Append(Stream, e)
    <2>1. shown \o Append(channel, e) = Append(shown \o channel, e)
      BY <1>1, <1>2, ConcatAppend
    <2> QED BY <1>2, <2>1
  <1> HIDE DEF Stream
  <1>4. /\ Stream' \in Seq(Entries) /\ Len(Stream') = Len(Stream) + 1 /\ Len(Stream) \in Nat
        /\ Stream'[Len(Stream) + 1] = e /\ \A k \in 1 .. Len(Stream) : Stream'[k] = Stream[k]
    <2> DEFINE s == Stream
               r == Append(s, e)
    <2>1. s \in Seq(Entries) /\ Stream' = r
      BY <1>2, <1>3
    <2> HIDE DEF s
    <2>2. r \in Seq(Entries) /\ Len(r) = Len(s) + 1 /\ Len(s) \in Nat /\ r[Len(s) + 1] = e
          /\ \A k \in 1 .. Len(s) : r[k] = s[k]
      BY <2>1, AppendProperties
    <2> HIDE DEF r
    <2> QED BY <2>1, <2>2 DEF s
  <1>5. /\ channel' \in Seq(Entries) /\ Len(channel') = Len(channel) + 1 /\ Len(channel) \in Nat
        /\ channel'[Len(channel) + 1] = e /\ \A k \in 1 .. Len(channel) : channel'[k] = channel[k]
    BY <1>1, AppendProperties
  <1>6. Len(channel) < Cap /\ Cap \in Nat
    BY Constants DEF Room
  <1>7. Len(channel') <= Cap /\ \A j \in 1 .. Len(channel') : j \in 1 .. Len(channel) \/ j = Len(channel')
    BY <1>5, <1>6
  <1>8. DOMAIN channel = 1 .. Len(channel) /\ DOMAIN channel' = 1 .. Len(channel')
    BY <1>1, <1>5
  <1>9. Stream' # <<>> /\ Stream'[Len(Stream')] = e /\ channel'[Len(channel')] = e
    BY <1>4, <1>5, EmptySeq
  <1> QED BY <1>2, <1>3, <1>4, <1>5, <1>7, <1>8, <1>9

(* An entry that is not a line, and goroutines that may be gone after it. *)
LEMMA AppendOther ==
    ASSUME NEW s \in Seq(Entries), NEW e \in Entries, e.kind # "line", NEW P, NEW g, NEW h, InOrder(s, P, g),
           DOMAIN h \subseteq DOMAIN g, \A i \in DOMAIN h : h[i] = g[i]
    PROVE  InOrder(Append(s, e), P, h) /\ \A i : Unread(s, i) => Unread(Append(s, e), i)
  <1> DEFINE t == Append(s, e)
  <1>0. Len(s) \in Nat
    OBVIOUS
  <1>1. Len(t) = Len(s) + 1 /\ t[Len(s) + 1] = e /\ \A k \in 1 .. Len(s) : t[k] = s[k]
    BY AppendProperties
  <1>2. \A k \in 1 .. Len(t) : k \in 1 .. Len(s) \/ k = Len(s) + 1
    BY <1>0, <1>1
  <1> HIDE DEF t
  <1>3. ASSUME NEW k \in 1 .. Len(t), t[k].kind = "line", t[k].own
        PROVE  /\ t[k].pod \in P
               /\ t[k].pod \in DOMAIN h =>
                    h[t[k].pod].pc # "open" /\ h[t[k].pod].from = t[k].pod /\ t[k].n <= h[t[k].pod].pos
               /\ \A j \in 1 .. Len(t) : j < k /\ Own(t[j], t[k].pod) => t[j].n < t[k].n
    <2>1. k \in 1 .. Len(s) /\ t[k] = s[k]
      BY <1>1, <1>2, <1>3
    <2>2. ASSUME NEW j \in 1 .. Len(t), j < k PROVE j \in 1 .. Len(s) /\ t[j] = s[j]
      <3>1. j \in 1 .. Len(s)
        BY <1>0, <1>1, <2>1, <2>2
      <3> QED BY <1>1, <3>1
    <2>3. /\ s[k].pod \in P
          /\ s[k].pod \in DOMAIN g =>
               g[s[k].pod].pc # "open" /\ g[s[k].pod].from = s[k].pod /\ s[k].n <= g[s[k].pod].pos
          /\ \A j \in 1 .. Len(s) : j < k /\ Own(s[j], s[k].pod) => s[j].n < s[k].n
      BY <1>3, <2>1 DEF InOrder
    <2> QED BY <2>1, <2>2, <2>3
  <1>4. ASSUME NEW i, Unread(s, i) PROVE Unread(t, i)
    BY <1>1, <1>2, <1>4 DEF Unread, Own
  <1>5. InOrder(t, P, h) /\ \A i : Unread(s, i) => Unread(t, i)
    BY <1>3, <1>4 DEF InOrder
  <1> QED BY <1>5 DEF t

\* The reader's step, by its fields.
LEMMA ScanFields ==
    ASSUME LogInv, NEW b, Scan(b)
    PROVE  /\ b \in DOMAIN gor /\ b \in Pods /\ Typed(gor) /\ Typed(gor')
           /\ gor[b].pc = "read" /\ gor[b].from \in Pods /\ gor[b].pos < written[gor[b].from]
           /\ gor[b].from \in Nat /\ gor[b].pos \in Nat /\ written[gor[b].from] \in Nat
           /\ DOMAIN gor' = DOMAIN gor /\ \A i \in DOMAIN gor : i # b => gor'[i] = gor[i]
           /\ gor'[b].pc = gor[b].pc /\ gor'[b].from = gor[b].from /\ gor'[b].pos = gor[b].pos + 1
           /\ engine # "begin" /\ (source = "pod" => engine = "follow" /\ gor[b].from = b /\ DOMAIN gor = {b})
           /\ \A j \in DOMAIN channel : channel[j].kind # "eof"
           /\ view.status # "closed"
  <1>1. LogTypeOK /\ StreamersOK /\ PhaseOK /\ ReadToTheEnd
    BY DEF LogInv
  <1>2. /\ b \in DOMAIN gor /\ gor[b].pc = "read" /\ gor[b].pos < written[gor[b].from]
        /\ gor' = [gor EXCEPT ![b].pos = @ + 1]
    BY DEF Scan
  <1>3. Typed(gor) /\ gor[b] \in Goroutines /\ DOMAIN gor \subseteq Pods
    BY <1>1, <1>2 DEF LogTypeOK, Typed
  <1>4. gor[b].from \in Pods /\ gor[b].from \in Nat /\ gor[b].pos \in Nat
    BY <1>1, <1>2, <1>3 DEF StreamersOK, Goroutines
  <1>5. written[gor[b].from] \in Nat
    <2>1. gor[b].from \in 1 .. Len(written) /\ written \in Seq(Nat)
      BY <1>1, <1>4 DEF LogTypeOK, Pods
    <2> QED BY <2>1
  <1>6. /\ DOMAIN gor' = DOMAIN gor /\ (\A i \in DOMAIN gor : i # b => gor'[i] = gor[i])
        /\ gor'[b].pc = gor[b].pc /\ gor'[b].from = gor[b].from /\ gor'[b].pos = gor[b].pos + 1
        /\ gor'[b] \in Goroutines
    BY <1>2, <1>3, <1>4 DEF Goroutines
  <1>7. Typed(gor')
    BY <1>3, <1>6 DEF Typed
  <1>8. engine # "begin" /\ (source = "pod" => engine = "follow" /\ gor[b].from = b /\ DOMAIN gor = {b})
    BY <1>1, <1>2 DEF PhaseOK
  <1>9. ~(source = "pod" /\ engine = "done")
    BY <1>1, <1>8 DEF PhaseOK
  <1>10. \A j \in DOMAIN channel : channel[j].kind # "eof"
    BY <1>1, <1>9 DEF PhaseOK
  <1>11. view.status # "closed"
    BY <1>1, <1>9 DEF ReadToTheEnd
  <1> QED BY <1>2, <1>3, <1>4, <1>5, <1>6, <1>7, <1>8, <1>10, <1>11

LEMMA LineStep ==
    ASSUME LogInv, NEW b, Scan(b), Room, channel' = Append(channel, Scanned(b)),
           UNCHANGED <<cluster, source, gone, engine, next, events, streamers, handler, view>>
    PROVE  LogInv'
  <1>1. LogTypeOK /\ StreamersOK /\ PhaseOK /\ AnnouncedOnce /\ ReadInOrder
    BY DEF LogInv
  <1>2. /\ b \in DOMAIN gor /\ b \in Pods /\ Typed(gor) /\ Typed(gor')
        /\ gor[b].pc = "read" /\ gor[b].from \in Pods /\ gor[b].pos < written[gor[b].from]
        /\ gor[b].from \in Nat /\ gor[b].pos \in Nat /\ written[gor[b].from] \in Nat
        /\ DOMAIN gor' = DOMAIN gor /\ \A i \in DOMAIN gor : i # b => gor'[i] = gor[i]
        /\ gor'[b].pc = gor[b].pc /\ gor'[b].from = gor[b].from /\ gor'[b].pos = gor[b].pos + 1
        /\ engine # "begin" /\ (source = "pod" => engine = "follow" /\ gor[b].from = b /\ DOMAIN gor = {b})
        /\ \A j \in DOMAIN channel : channel[j].kind # "eof"
        /\ view.status # "closed"
    BY ScanFields
  <1> DEFINE e == Scanned(b)
             own == gor[b].from = b
  <1>3. own \in BOOLEAN /\ gor[b].pos + 1 \in Nat /\ e = Line(gor[b].from, gor[b].pos + 1, own)
    BY <1>2 DEF Scanned
  <1> HIDE DEF e, own
  <1>4. /\ e \in Lines /\ e.kind = "line" /\ e.pod = gor[b].from /\ e.n = gor[b].pos + 1 /\ e.own = own
    BY <1>2, <1>3, LineFields
  <1>5. e \in Entries /\ e # Eof(FALSE) /\ channel' = Append(channel, e) /\ view' = view
    BY <1>4, EntryKinds DEF e
  <1>6. e.own => e.pod = b /\ gor[b].from = b
    BY <1>4 DEF own
  <1>7. /\ Stream \in Seq(Entries) /\ Len(Stream) \in Nat
        /\ Stream' = Append(Stream, e) /\ Stream' \in Seq(Entries) /\ Len(Stream') = Len(Stream) + 1
        /\ Stream'[Len(Stream')] = e
        /\ channel' \in Seq(Entries) /\ Len(channel) \in Nat /\ Len(channel') = Len(channel) + 1
        /\ Len(channel') <= Cap /\ channel'[Len(channel')] = e
        /\ DOMAIN channel = 1 .. Len(channel) /\ DOMAIN channel' = 1 .. Len(channel')
        /\ \A j \in 1 .. Len(channel) : channel'[j] = channel[j]
        /\ \A j \in 1 .. Len(channel') : j \in 1 .. Len(channel) \/ j = Len(channel')
    BY <1>1, <1>5, Appended
  <1>8. UNCHANGED <<home, alive, ready, written>> /\ Pods' = Pods
    BY DEF cluster, Pods
  <1>9. LogTypeOK'
    <2>1. DOMAIN gor' \subseteq Pods' /\ \A i \in DOMAIN gor' : gor'[i] \in Goroutines
      BY <1>1, <1>2, <1>8 DEF LogTypeOK, Typed
    <2> QED BY <1>1, <1>7, <1>8, <2>1 DEF LogTypeOK
  <1>10. StreamersOK'
    <2>1. ASSUME NEW c \in DOMAIN gor, gor'[c].pc = "read"
          PROVE  gor'[c].from \in Pods /\ gor'[c].pos <= written[gor'[c].from]
      <3>1. CASE c = b
        BY <1>2, <3>1
      <3>2. CASE c # b
        BY <1>1, <1>2, <2>1, <3>2 DEF StreamersOK
      <3> QED BY <3>1, <3>2
    <2> QED BY <1>1, <1>2, <1>8, <2>1 DEF StreamersOK
  <1>11. PhaseOK'
    <2>1. ASSUME NEW j \in DOMAIN channel'
          PROVE  (channel'[j].kind = "meta" => source = "workload") /\ channel'[j].kind # "eof"
      BY <1>1, <1>2, <1>4, <1>7 DEF PhaseOK
    <2>2. source = "pod" => \A c \in DOMAIN gor' : gor'[c].pc = "read" /\ gor'[c].from = c /\ DOMAIN gor' = {c}
      BY <1>2
    <2> QED BY <1>1, <1>2, <2>1, <2>2 DEF PhaseOK
  <1> HIDE DEF Stream, Pods
  <1>12. InOrder(Stream, Pods, gor) /\ Announced(events, Stream, Pods, DOMAIN gor) /\ events \in Seq(Events)
    BY <1>1, <1>7, OrderForm, AnnouncedForm DEF LogTypeOK
  <1>13. OneMore(e, gor, gor', b)
    BY <1>2, <1>4, <1>6 DEF OneMore
  <1>14. InOrder(Append(Stream, e), Pods, gor') /\ \A i : Unread(Stream, i) /\ i # b => Unread(Append(Stream, e), i)
    BY <1>2, <1>5, <1>7, <1>12, <1>13, AppendInOrder
  <1>15. Announced(events', Stream', Pods', DOMAIN gor')
    BY <1>2, <1>7, <1>8, <1>12, <1>14 DEF Announced
  <1>16. AnnouncedOnce' /\ ReadInOrder'
    BY <1>7, <1>8, <1>12, <1>14, <1>15, OrderFormNext, AnnouncedFormNext
  <1>17. ReadToTheEnd'
    <2>1. Last(Stream') = e /\ Last(channel') = e
      BY <1>7 DEF Last
    <2>2. \A c \in DOMAIN gor' : source = "pod" => e.kind = "line" /\ e.pod = c /\ e.n = gor'[c].pos
      BY <1>2, <1>4
    <2> QED BY <1>2, <1>5, <2>1, <2>2 DEF ReadToTheEnd
  <1> QED BY <1>9, <1>10, <1>11, <1>16, <1>17 DEF LogInv

LEMMA LineActions ==
    ASSUME LogInv, NEW b \in Pods, SinkLine(b) \/ PodLine(b)
    PROVE  LogInv'
  <1>1. Scan(b) /\ UNCHANGED <<cluster, source, gone, engine, next, events, streamers, handler, view>>
    BY DEF SinkLine, PodLine
  <1>2. CASE Room
    <2>1. channel' = Append(channel, Scanned(b))
      BY <1>2 DEF SinkLine, PodLine
    <2> QED BY <1>1, <1>2, <2>1, LineStep
  <1>3. CASE ~Room
    <2>1. channel' = channel /\ source = "workload"
      BY <1>3 DEF SinkLine, PodLine
    <2>2. LogTypeOK /\ StreamersOK
      BY DEF LogInv
    <2>3. /\ b \in DOMAIN gor /\ Typed(gor) /\ Typed(gor')
          /\ gor[b].from \in Pods /\ gor[b].pos < written[gor[b].from]
          /\ gor[b].pos \in Nat /\ written[gor[b].from] \in Nat
          /\ DOMAIN gor' = DOMAIN gor /\ \A i \in DOMAIN gor : i # b => gor'[i] = gor[i]
          /\ gor'[b].pc = gor[b].pc /\ gor'[b].from = gor[b].from /\ gor'[b].pos = gor[b].pos + 1
          /\ engine # "begin"
      BY <1>1, ScanFields
    <2>4. Further(Stream, gor, gor') 
      <3>1. \A i \in DOMAIN gor : gor[i].pos \in Nat
        BY <2>3 DEF Typed, Goroutines
      <3> QED BY <2>3, <3>1 DEF Further
    <2>5. StreamersOK'
      <3>1. ASSUME NEW c \in DOMAIN gor, gor'[c].pc = "read"
            PROVE  gor'[c].from \in Pods /\ gor'[c].pos <= written[gor'[c].from]
        <4>1. CASE c = b
          BY <2>3, <4>1
        <4>2. CASE c # b
          BY <2>2, <2>3, <3>1, <4>2 DEF StreamersOK
        <4> QED BY <4>1, <4>2
      <3>2. home' = home /\ written' = written /\ Pods' = Pods
        BY <1>1 DEF cluster, Pods
      <3> QED BY <1>1, <2>2, <2>3, <3>1, <3>2 DEF StreamersOK
    <2> QED BY <1>1, <2>1, <2>3, <2>4, <2>5, GoroutineStep
  <1> QED BY <1>2, <1>3

LEMMA PodSetAction ==
    ASSUME LogInv, SendPodSet
    PROVE  LogInv'
  <1>1. LogTypeOK /\ StreamersOK /\ PhaseOK /\ AnnouncedOnce /\ ReadInOrder /\ ReadToTheEnd
    BY DEF LogInv
  <1>2. /\ engine = "podset" /\ engine' = next /\ next \in {"watch", "loop"}
        /\ UNCHANGED <<cluster, source, gone, next, events, streamers, gor, handler, view>>
    BY <1>1 DEF SendPodSet, LogTypeOK
  <1>3. source = "workload"
    BY <1>1, <1>2 DEF LogTypeOK, PhaseOK
  <1>4. CASE channel' = channel
    <2>1. /\ UNCHANGED <<cluster, source, gone, events, streamers, gor, channel, view>>
          /\ engine' \in {"begin", "podset", "watch", "loop", "degraded", "wait", "follow", "failed", "done"}
          /\ next' \in {"watch", "loop"} /\ handler' \in {"serve", "waiting", "returned"}
          /\ engine' # "begin" /\ engine # "done" /\ source # "pod"
      BY <1>1, <1>2, <1>3, <1>4 DEF LogTypeOK
    <2> QED BY <2>1, ControlStep
  <1>5. CASE Room /\ channel' = Append(channel, PodSet)
    <2> DEFINE e == PodSet
    <2>1. e \in Entries /\ e.kind = "meta" /\ e # Eof(FALSE) /\ channel' = Append(channel, e) /\ view' = view /\ Room
      BY <1>2, <1>5, EntryKinds
    <2> HIDE DEF e
    <2>2. /\ Stream \in Seq(Entries)
          /\ Stream' = Append(Stream, e) /\ Stream' \in Seq(Entries)
          /\ channel' \in Seq(Entries) /\ Len(channel') <= Cap /\ channel'[Len(channel')] = e
          /\ DOMAIN channel = 1 .. Len(channel) /\ DOMAIN channel' = 1 .. Len(channel')
          /\ \A j \in 1 .. Len(channel) : channel'[j] = channel[j]
          /\ \A j \in 1 .. Len(channel') : j \in 1 .. Len(channel) \/ j = Len(channel')
      BY <1>1, <2>1, Appended
    <2>3. UNCHANGED <<home, alive, ready, written>> /\ Pods' = Pods
      BY <1>2 DEF cluster, Pods
    <2>4. LogTypeOK'
      BY <1>1, <1>2, <2>2, <2>3 DEF LogTypeOK
    <2>5. StreamersOK'
      BY <1>1, <1>2, <2>3 DEF StreamersOK
    <2>6. PhaseOK'
      <3>1. ASSUME NEW j \in DOMAIN channel' PROVE channel'[j].kind # "eof"
        BY <1>1, <1>3, <2>1, <2>2 DEF PhaseOK
      <3> QED BY <1>2, <1>3, <3>1 DEF PhaseOK
    <2> HIDE DEF Stream, Pods
    <2>7. InOrder(Stream, Pods, gor) /\ Announced(events, Stream, Pods, DOMAIN gor) /\ events \in Seq(Events)
      BY <1>1, <2>2, OrderForm, AnnouncedForm DEF LogTypeOK
    <2>8. InOrder(Append(Stream, e), Pods, gor) /\ \A i : Unread(Stream, i) => Unread(Append(Stream, e), i)
      BY <2>1, <2>2, <2>7, AppendOther
    <2>9. Announced(events', Stream', Pods', DOMAIN gor')
      BY <1>2, <2>2, <2>3, <2>7, <2>8 DEF Announced
    <2>10. AnnouncedOnce' /\ ReadInOrder'
      BY <1>2, <2>2, <2>3, <2>7, <2>8, <2>9, OrderFormNext, AnnouncedFormNext
    <2>11. ReadToTheEnd'
      <3>1. Last(channel') = e /\ source' = "workload" /\ view'.status # "closed"
        BY <1>1, <1>2, <1>3, <2>2 DEF Last, ReadToTheEnd
      <3> QED BY <2>1, <3>1 DEF ReadToTheEnd
    <2> QED BY <2>4, <2>5, <2>6, <2>10, <2>11 DEF LogInv
  <1> QED BY <1>4, <1>5 DEF SendPodSet

LEMMA PodLogEndsAction ==
    ASSUME LogInv, NEW b \in Pods, PodLogEnds(b)
    PROVE  LogInv'
  <1>1. LogTypeOK /\ StreamersOK /\ PhaseOK /\ AnnouncedOnce /\ ReadInOrder /\ ReadToTheEnd
    BY DEF LogInv
  <1>2. /\ source = "pod" /\ b \in DOMAIN gor /\ engine' = "done" /\ DOMAIN gor' = {}
        /\ UNCHANGED <<cluster, source, gone, next, events, streamers, handler, view>>
        /\ UNCHANGED <<home, alive, ready, written>> /\ Pods' = Pods
    BY DEF PodLogEnds, cluster, Pods
  <1>3. engine = "follow" /\ gor[b].from = b /\ gor[b].pc = "read" /\ DOMAIN streamers = {}
    BY <1>1, <1>2 DEF PhaseOK
  <1>4. view.status # "closed" /\ \A j \in DOMAIN channel : channel[j].kind # "eof" /\ channel[j].kind # "meta"
    BY <1>1, <1>2, <1>3 DEF PhaseOK, ReadToTheEnd
  <1>5. StreamersOK'
    BY <1>2, <1>3 DEF StreamersOK
  <1>6. Stream \in Seq(Entries) /\ events \in Seq(Events) /\ channel \in Seq(Entries)
    BY <1>1, StreamTyped DEF LogTypeOK
  <1>7. InOrder(Stream, Pods, gor) /\ Announced(events, Stream, Pods, DOMAIN gor)
    BY <1>1, <1>6, OrderForm, AnnouncedForm
  <1>8. CASE channel' = channel
    <2>1. LogTypeOK'
      BY <1>1, <1>2, <1>8 DEF LogTypeOK
    <2>2. PhaseOK'
      BY <1>2, <1>3, <1>4, <1>8 DEF PhaseOK
    <2>3. Stream' = Stream /\ Thin(Stream, Stream)
      BY <1>2, <1>6, <1>8, SameThin DEF Stream
    <2> HIDE DEF Stream, Pods
    <2>4. AnnouncedOnce' /\ ReadInOrder'
      BY <1>2, <2>1, <2>3, Carry
    <2>5. ReadToTheEnd'
      <3>1. ASSUME channel # <<>> PROVE Last(channel) # Eof(FALSE)
        <4>1. Len(channel) \in DOMAIN channel
          BY <1>6, <3>1
        <4> QED BY <1>4, <4>1, EntryKinds DEF Last
      <3> QED BY <1>2, <1>4, <1>8, <3>1 DEF ReadToTheEnd
    <2> QED BY <1>5, <2>1, <2>2, <2>4, <2>5 DEF LogInv
  <1>9. ASSUME NEW err \in {TRUE, ~AtEnd(b)}, Room, channel' = Append(channel, Eof(err)) PROVE LogInv'
    <2>0. err \in BOOLEAN
      BY DEF AtEnd
    <2> DEFINE e == Eof(err)
    <2>1. e \in Entries /\ e.kind = "eof" /\ e.err = err
      BY <2>0, EntryKinds
    <2>a. Eof(FALSE).err = FALSE
      BY DEF Eof
    <2>b. e = Eof(FALSE) => AtEnd(b)
      BY <2>1, <2>a
    <2> HIDE DEF e
    <2>c. channel' = Append(channel, e) /\ Room /\ view' = view
      BY <1>2, <1>9 DEF e
    <2>2. /\ Len(Stream) \in Nat /\ Len(Stream') = Len(Stream) + 1 /\ \A k \in 1 .. Len(Stream) : Stream'[k] = Stream[k]
          /\ Stream' = Append(Stream, e) /\ Stream' \in Seq(Entries)
          /\ channel' \in Seq(Entries) /\ Len(channel') <= Cap /\ channel'[Len(channel')] = e
          /\ DOMAIN channel = 1 .. Len(channel) /\ DOMAIN channel' = 1 .. Len(channel')
          /\ \A j \in 1 .. Len(channel) : channel'[j] = channel[j]
          /\ \A j \in 1 .. Len(channel') : j \in 1 .. Len(channel) \/ j = Len(channel')
      BY <1>1, <2>1, <2>c, Appended
    <2>3. LogTypeOK'
      BY <1>1, <1>2, <2>2 DEF LogTypeOK
    <2>4. PhaseOK'
      <3>1. ASSUME NEW j \in DOMAIN channel'
            PROVE  channel'[j].kind # "meta" /\ (channel'[j].kind = "eof" => j = Len(channel'))
        BY <1>4, <2>1, <2>2
      <3> QED BY <1>2, <1>3, <3>1 DEF PhaseOK
    <2> HIDE DEF Stream, Pods
    <2>5. InOrder(Append(Stream, e), Pods, gor') /\ \A i : Unread(Stream, i) => Unread(Append(Stream, e), i)
      <3>1. DOMAIN gor' \subseteq DOMAIN gor /\ \A i \in DOMAIN gor' : gor'[i] = gor[i]
        BY <1>2
      <3>2. e.kind # "line"
        BY <2>1
      <3> QED BY <1>6, <1>7, <2>1, <3>1, <3>2, AppendOther
    <2>6. Announced(events', Stream', Pods', DOMAIN gor')
      BY <1>2, <1>7, <2>2, <2>5 DEF Announced
    <2>7. AnnouncedOnce' /\ ReadInOrder'
      BY <1>2, <1>6, <2>2, <2>5, <2>6, OrderFormNext, AnnouncedFormNext
    <2>8. ReadToTheEnd'
      <3>1. Last(channel') = e /\ view'.status # "closed"
        BY <1>2, <1>4, <2>2 DEF Last
      <3> DEFINE l == Stream'[Len(Stream') - 1]
      <3>2. ASSUME e = Eof(FALSE), Len(Stream') > 1
            PROVE  l.kind = "line" /\ l.pod \in Pods' \ alive' /\ l.n = written'[l.pod]
        <4>1. Len(Stream) \in 1 .. Len(Stream) /\ Len(Stream') - 1 = Len(Stream) /\ Len(Stream) # 0
          <5> DEFINE m == Len(Stream)
                     n == Len(Stream')
          <5>1. m \in Nat /\ n = m + 1 /\ n > 1
            BY <2>2, <3>2
          <5> HIDE DEF m, n
          <5>2. m \in 1 .. m /\ n - 1 = m /\ m # 0
            BY <5>1
          <5> QED BY <5>2 DEF m, n
        <4>2. l = Last(Stream) /\ Stream # <<>>
          BY <1>6, <2>2, <4>1, EmptySeq DEF Last
        <4>3. Last(Stream).kind = "line" /\ Last(Stream).pod = b /\ Last(Stream).n = gor[b].pos
          BY <1>1, <1>2, <4>2 DEF ReadToTheEnd
        <4>4. b \notin alive /\ gor[b].pos = written[b]
          BY <1>3, <2>b, <3>2 DEF AtEnd
        <4> QED BY <1>2, <4>2, <4>3, <4>4
      <3> QED BY <1>2, <3>1, <3>2 DEF ReadToTheEnd, Final
    <2> QED BY <1>5, <2>3, <2>4, <2>7, <2>8 DEF LogInv
  <1> QED BY <1>8, <1>9 DEF PodLogEnds

-----------------------------------------------------------------------------
(* What goes from the channel to the browser.                              *)

LEMMA ServeRest ==
    ASSUME LogInv, Serve, view' \in Views, Len(view'.buffer) <= BufferCap, Thin(Stream', Stream)
    PROVE  /\ LogTypeOK' /\ StreamersOK' /\ PhaseOK' /\ AnnouncedOnce' /\ ReadInOrder'
           /\ channel' # <<>> => Last(channel') = Last(channel)
  <1>1. LogTypeOK /\ StreamersOK /\ PhaseOK
    BY DEF LogInv
  <1>2. /\ channel # <<>> /\ channel' = Tail(channel) /\ UNCHANGED <<cluster, source, server>>
        /\ UNCHANGED <<home, alive, ready, written>> /\ Pods' = Pods
        /\ UNCHANGED <<engine, next, events, streamers, gor>>
    BY DEF Serve, cluster, server, Pods
  <1>3. gone' \in BOOLEAN /\ handler' \in {"serve", "waiting", "returned"}
    BY DEF Serve
  <1>4. /\ channel \in Seq(Entries) /\ Len(channel) <= Cap /\ Len(channel) \in Nat \ {0} /\ Cap \in Nat
        /\ channel' \in Seq(Entries) /\ Len(channel') = Len(channel) - 1
        /\ \A j \in 1 .. Len(channel') : channel'[j] = channel[j + 1]
        /\ DOMAIN channel = 1 .. Len(channel) /\ DOMAIN channel' = 1 .. Len(channel')
    <2>1. channel \in Seq(Entries) /\ Len(channel) <= Cap /\ Cap \in Nat
      BY <1>1, Constants DEF LogTypeOK
    <2>2. /\ Len(channel) \in Nat \ {0} /\ Tail(channel) \in Seq(Entries) /\ Len(Tail(channel)) = Len(channel) - 1
          /\ \A j \in 1 .. Len(Tail(channel)) : Tail(channel)[j] = channel[j + 1]
      BY <1>2, <2>1, HeadTailProperties, EmptySeq
    <2> QED BY <1>2, <2>1, <2>2
  <1> HIDE <1>2
  <1>5. Len(channel') <= Cap
    BY <1>4
  <1>6. LogTypeOK'
    BY <1>1, <1>2, <1>3, <1>4, <1>5 DEF LogTypeOK
  <1>7. StreamersOK'
    BY <1>1, <1>2 DEF StreamersOK
  <1>8. PhaseOK'
    <2>1. engine # "begin"
      BY <1>1, <1>2 DEF PhaseOK
    <2>2. ASSUME NEW j \in DOMAIN channel'
          PROVE  /\ channel'[j].kind = "meta" => source = "workload"
                 /\ channel'[j].kind = "eof" => source = "pod" /\ engine = "done" /\ j = Len(channel')
      <3>1. j + 1 \in DOMAIN channel /\ channel'[j] = channel[j + 1]
        BY <1>4
      <3>2. /\ channel'[j].kind = "meta" => source = "workload"
            /\ channel'[j].kind = "eof" => source = "pod" /\ engine = "done" /\ j + 1 = Len(channel)
        BY <1>1, <3>1 DEF PhaseOK
      <3>3. j + 1 = Len(channel) => j = Len(channel')
        BY <1>4
      <3> QED BY <3>2, <3>3
    <2> QED BY <1>1, <1>2, <2>1, <2>2 DEF PhaseOK
  <1>9. \A i \in DOMAIN gor : gor[i].pos \in Nat
    BY <1>1 DEF LogTypeOK, Goroutines
  <1>10. AnnouncedOnce' /\ ReadInOrder'
    <2> HIDE DEF Stream, Pods
    <2> QED BY <1>2, <1>6, <1>9, Carry
  <1>11. ASSUME channel' # <<>> PROVE Last(channel') = Last(channel)
    <2>1. Len(channel') \in 1 .. Len(channel') /\ Len(channel') + 1 = Len(channel)
      BY <1>4, <1>11
    <2> QED BY <1>4, <2>1 DEF Last
  <1> QED BY <1>6, <1>7, <1>8, <1>10, <1>11

LEMMA ServeAction ==
    ASSUME LogInv, Serve
    PROVE  LogInv'
  <1>1. LogTypeOK /\ StreamersOK /\ PhaseOK /\ ReadToTheEnd /\ view \in Views /\ channel \in Seq(Entries)
    BY DEF LogInv, LogTypeOK
  <1>2. /\ channel # <<>> /\ channel' = Tail(channel) /\ view.status = "streaming"
        /\ UNCHANGED <<source, engine, gor>> /\ UNCHANGED <<home, alive, written>> /\ Pods' = Pods
    BY DEF Serve, cluster, server, Pods
  <1> DEFINE e == Head(channel)
             shown == view.buffer \o view.pending
  <1>3. e \in Entries /\ e = channel[1] /\ Tail(channel) \in Seq(Entries) /\ Len(channel) \in Nat \ {0}
        /\ Len(Tail(channel)) = Len(channel) - 1
    BY <1>1, <1>2, HeadTailProperties, EmptySeq
  <1>4. 1 \in DOMAIN channel
    BY <1>1, <1>3
  <1>5. /\ view.buffer \in Seq(Lines) /\ view.pending \in Seq(Lines) /\ Len(view.buffer) <= BufferCap
        /\ shown \in Seq(Lines) /\ shown \in Seq(Entries) /\ Stream = shown \o channel
        /\ Stream \in Seq(Entries) /\ Len(Stream) \in Nat
    BY <1>1, Flow DEF Stream, LogTypeOK
  <1>6. ASSUME NEW x PROVE Final(x)' <=> Final(x)
    BY <1>2 DEF Final
  <1>7. CASE e.kind = "line"
    <2>1. view' = [view EXCEPT !.pending = Append(@, e)]
      BY <1>7 DEF Serve
    <2>2. e \in Lines
      BY <1>3, <1>7, EntryKinds
    <2>3. Append(view.pending, e) \in Seq(Lines)
      BY <1>5, <2>2, AppendProperties
    <2>4. /\ view' \in Views /\ view'.status = view.status /\ view'.buffer = view.buffer
          /\ view'.pending = Append(view.pending, e)
      BY <1>1, <2>1, <2>3 DEF Views
    <2> HIDE <2>1
    <2>5. view'.buffer \o view'.pending = Append(shown, e)
      <3> DEFINE u == view.buffer
                 w == view.pending
      <3>0. u \in Seq(Lines) /\ w \in Seq(Lines)
        BY <1>5
      <3> HIDE DEF u, w, e
      <3>a. u \o Append(w, e) = Append(u \o w, e)
        BY <2>2, <3>0, ConcatAppend
      <3>1. view.buffer \o Append(view.pending, e) = Append(view.buffer \o view.pending, e)
        BY <3>a DEF u, w
      <3> QED BY <2>4, <3>1
    <2>6. Stream' = Append(shown, e) \o Tail(channel)
      BY <1>2, <2>5 DEF Stream
    <2> HIDE DEF shown
    <2>7. Append(shown, Head(channel)) \o Tail(channel) = shown \o channel
      BY <1>1, <1>2, <1>5, ConcatMove
    <2>8. Stream' = Stream
      BY <1>5, <2>6, <2>7
    <2>9. Thin(Stream', Stream)
      BY <1>5, <2>8, SameThin
    <2>10. /\ LogTypeOK' /\ StreamersOK' /\ PhaseOK' /\ AnnouncedOnce' /\ ReadInOrder'
           /\ channel' # <<>> => Last(channel') = Last(channel)
      BY <1>5, <2>4, <2>9, ServeRest
    <2>11. ReadToTheEnd'
      <3>1. view'.status # "closed"
        BY <1>2, <2>4
      <3> HIDE DEF Stream
      <3> QED BY <1>1, <1>2, <1>6, <2>8, <2>10, <3>1 DEF ReadToTheEnd
    <2> QED BY <2>10, <2>11 DEF LogInv
  <1>8. CASE e.kind = "meta"
    <2>1. view' = view
      BY <1>8 DEF Serve
    <2>2. source = "workload"
      BY <1>1, <1>3, <1>4, <1>8 DEF PhaseOK
    <2>3. Stream' = shown \o Tail(channel)
      BY <1>2, <2>1 DEF Stream
    <2> HIDE DEF shown
    <2>4. Thin(Stream', Stream)
      BY <1>1, <1>2, <1>5, <2>3, ConcatDrop
    <2>5. /\ LogTypeOK' /\ StreamersOK' /\ PhaseOK' /\ AnnouncedOnce' /\ ReadInOrder'
          /\ channel' # <<>> => Last(channel') = Last(channel)
      BY <1>1, <1>5, <2>1, <2>4, ServeRest
    <2>6. ReadToTheEnd'
      <3>1. Last(channel) # Eof(FALSE)
        <4>1. Len(channel) \in DOMAIN channel
          BY <1>1, <1>3
        <4>2. channel[Len(channel)].kind # "eof"
          BY <1>1, <2>2, <4>1 DEF PhaseOK
        <4> QED BY <4>2, EntryKinds DEF Last
      <3>2. view'.status # "closed" /\ source' # "pod"
        BY <1>2, <2>1, <2>2
      <3> QED BY <2>5, <3>1, <3>2 DEF ReadToTheEnd
    <2> QED BY <2>5, <2>6 DEF LogInv
  <1>9. CASE e.kind = "eof"
    <2>0. source = "pod" /\ engine = "done" /\ Len(channel) = 1 /\ DOMAIN gor = {}
      BY <1>1, <1>3, <1>4, <1>9 DEF PhaseOK
    <2> DEFINE st == IF e.err THEN "error" ELSE "closed"
               fl == Flush(view, view.pending)
    <2>1. view' = Flushed(st) /\ st \in {"connecting", "streaming", "closed", "error", "left"}
      BY <1>9 DEF Serve
    <2>2. /\ view' \in Views /\ Len(view'.buffer) <= BufferCap /\ view'.status = st
          /\ view'.buffer \o view'.pending = fl
      <3> HIDE DEF st
      <3> QED BY <1>1, <2>1, FlushedView
    <2>3. fl \in Seq(Lines) /\ Suffix(fl, shown)
      BY <1>1, FlushSuffix
    <2> HIDE <2>1
    <2>4. channel' = <<>>
      <3>1. Len(Tail(channel)) = 0
        BY <1>3, <2>0
      <3> QED BY <1>2, <1>3, <3>1, EmptySeq
    <2>5. Stream' = fl \o <<>>
      BY <2>2, <2>4, Zenon DEF Stream
    <2> HIDE DEF fl, shown
    <2>6. Stream' = fl
      BY <2>3, <2>5, ConcatEmptySeq
    <2>7. fl \in Seq(Entries)
      BY <2>3, EntryKinds
    <2>8. Thin(fl, shown) /\ Thin(shown, Stream)
      <3>1. Thin(fl, shown)
        BY <1>5, <2>3, <2>7, SuffixThin
      <3> DEFINE m == [i \in 1 .. Len(shown) |-> i]
      <3>2. /\ Len(Stream) = Len(shown) + Len(channel) /\ Len(shown) \in Nat
            /\ \A i \in 1 .. Len(shown) + Len(channel) : Stream[i] = IF i <= Len(shown) THEN shown[i] ELSE channel[i - Len(shown)]
        BY <1>1, <1>5, ConcatProperties, LenProperties
      <3> HIDE DEF Stream
      <3>3. m \in [1 .. Len(shown) -> 1 .. Len(Stream)] /\ \A i, j \in 1 .. Len(shown) : i < j => m[i] < m[j]
        BY <1>3, <3>2
      <3>4. \A i \in 1 .. Len(shown) : shown[i] = Stream[m[i]]
        BY <1>3, <3>2
      <3> HIDE DEF m
      <3>5. Thin(shown, Stream)
        BY <3>3, <3>4 DEF Thin
      <3> QED BY <3>1, <3>5
    <2>9. Thin(Stream', Stream)
      <3> HIDE DEF Stream
      <3> QED BY <1>5, <2>6, <2>7, <2>8, ThinThin
    <2>10. LogTypeOK' /\ StreamersOK' /\ PhaseOK' /\ AnnouncedOnce' /\ ReadInOrder'
      BY <2>2, <2>9, ServeRest
    <2>11. ReadToTheEnd'
      <3> DEFINE l == Last(Stream')
      <3>1. ASSUME view'.status = "closed", Stream' # <<>>
            PROVE  l.kind = "line" /\ l.pod \in Pods' \ alive' /\ l.n = written'[l.pod]
        <4>1. ~e.err /\ e = Eof(e.err) /\ e.err \in BOOLEAN
          BY <1>3, <1>9, <2>2, <3>1, EntryKinds
        <4>2. e = Eof(FALSE)
          <5>1. e.err = FALSE
            BY <4>1
          <5> QED BY <4>1, <5>1
        <4>3. Last(channel) = Eof(FALSE)
          BY <1>3, <2>0, <4>2 DEF Last
        <4>4. shown # <<>> /\ fl[Len(fl)] = shown[Len(shown)]
          BY <1>5, <2>3, <2>6, <2>7, <3>1, SuffixEnd
        <4>5. /\ Len(Stream) = Len(shown) + Len(channel) /\ Len(shown) \in Nat \ {0}
              /\ \A i \in 1 .. Len(shown) + Len(channel) : Stream[i] = IF i <= Len(shown) THEN shown[i] ELSE channel[i - Len(shown)]
          BY <1>1, <1>5, <4>4, ConcatProperties, LenProperties, EmptySeq
        <4> HIDE DEF Stream
        <4>6. Len(Stream) > 1 /\ Len(Stream) - 1 = Len(shown) /\ Len(shown) \in 1 .. Len(shown) + Len(channel) /\ Len(shown) <= Len(shown)
          BY <2>0, <4>5
        <4>7. Stream[Len(Stream) - 1] = shown[Len(shown)]
          BY <4>5, <4>6
        <4>8. Final(Stream[Len(Stream) - 1])
          BY <1>1, <1>2, <4>3, <4>6 DEF ReadToTheEnd
        <4>9. l = Stream[Len(Stream) - 1]
          BY <2>6, <4>4, <4>7 DEF Last
        <4> QED BY <1>2, <4>8, <4>9 DEF Final
      <3> HIDE DEF Stream
      <3> QED BY <1>2, <2>0, <2>4, <3>1 DEF ReadToTheEnd, Final
    <2> QED BY <2>10, <2>11 DEF LogInv
  <1> QED BY <1>3, <1>7, <1>8, <1>9, EntryKinds

-----------------------------------------------------------------------------
(* LogInv holds: everything below rests on it.                             *)

LEMMA LogInitInv ==
    ASSUME LogInit
    PROVE  LogInv
  <1>1. /\ home = <<>> /\ written = <<>> /\ alive = {} /\ ready = {} /\ events = <<>> /\ channel = <<>>
        /\ view = [status |-> "connecting", pending |-> <<>>, buffer |-> <<>>]
        /\ DOMAIN gor = {} /\ DOMAIN streamers = {} /\ gone = FALSE /\ source \in {"workload", "pod"}
        /\ engine = "begin" /\ next = "watch" /\ handler = "serve"
    BY DEF LogInit
  <1>2. view.status = "connecting" /\ view.pending = <<>> /\ view.buffer = <<>> /\ view \in Views
    <2>1. <<>> \in Seq(Lines)
      OBVIOUS
    <2> QED BY <1>1, <2>1 DEF Views
  <1> HIDE <1>1
  <1>3. <<>> \in Seq(Name) /\ <<>> \in Seq(Nat) /\ <<>> \in Seq(Events) /\ <<>> \in Seq(Entries) /\ Len(<<>>) = 0
    OBVIOUS
  <1>4. 0 <= Cap /\ 0 <= BufferCap
    BY Constants
  <1>5. LogTypeOK
    BY <1>1, <1>2, <1>3, <1>4 DEF LogTypeOK
  <1>6. Stream = <<>>
    <2>1. Stream = <<>> \o <<>> \o <<>>
      BY <1>1, <1>2, Zenon DEF Stream
    <2>2. <<>> \o <<>> = <<>>
      OBVIOUS
    <2> QED BY <2>1, <2>2
  <1>7. DOMAIN Stream = {} /\ DOMAIN events = {} /\ DOMAIN channel = {}
    BY <1>1, <1>6
  <1>8. StreamersOK
    BY <1>1 DEF StreamersOK
  <1>9. PhaseOK
    BY <1>1, <1>2, <1>7 DEF PhaseOK
  <1> HIDE DEF Stream
  <1>10. AnnouncedOnce /\ ReadInOrder
    BY <1>7 DEF AnnouncedOnce, ReadInOrder
  <1>11. ReadToTheEnd
    BY <1>1, <1>2, <1>6 DEF ReadToTheEnd
  <1> QED BY <1>5, <1>8, <1>9, <1>10, <1>11 DEF LogInv

LEMMA LogNextInv ==
    ASSUME LogInv, LogNext
    PROVE  LogInv'
  <1>1. \/ \E n \in Name : Create(n)
        \/ \E i \in Pods : Starts(i) \/ Writes(i) \/ Restart(i) \/ Delete(i) \/ OpenPodLogStream(i) \/ Goroutine(i)
        \/ List \/ BeginFails \/ SendPodSet \/ OpenWatch \/ WatchEnds \/ WatchEvent
        \/ EngineStops \/ EngineReturns \/ OpenPodFails
        \/ OnOpen \/ Serve \/ ServeFailure \/ FlushTimer \/ ConnectionLost \/ Leave
        \/ HandlerStops \/ HandlerReturns
    BY DEF LogNext
  <1>2. ASSUME NEW b \in Pods, Goroutine(b) PROVE LogInv'
    BY <1>2, GoroutineActions, LineActions, PodLogEndsAction DEF Goroutine
  <1>3. CASE \E i \in Pods : Starts(i) \/ Writes(i) \/ Restart(i) \/ Delete(i) \/ OpenPodLogStream(i) \/ Goroutine(i)
    BY <1>2, <1>3, ClusterActions, StartActions
  <1>4. CASE \E n \in Name : Create(n)
    BY <1>4, ClusterActions
  <1>5. CASE BeginFails \/ OpenWatch \/ WatchEnds \/ EngineStops \/ EngineReturns \/ OpenPodFails \/ HandlerStops \/ HandlerReturns
    BY <1>5, ControlActions
  <1>6. CASE OnOpen \/ ServeFailure \/ FlushTimer \/ ConnectionLost \/ Leave
    BY <1>6, ViewActions
  <1>7. CASE List \/ SendPodSet \/ WatchEvent \/ Serve
    BY <1>7, StartActions, PodSetAction, WatchEventAction, ServeAction
  <1> QED BY <1>1, <1>3, <1>4, <1>5, <1>6, <1>7

LEMMA LogStutter ==
    ASSUME LogInv, UNCHANGED logVars
    PROVE  LogInv'
  <1>1. /\ UNCHANGED <<cluster, source, gone, events, streamers, gor, channel, view>>
        /\ UNCHANGED <<engine, next, handler>>
    BY DEF logVars, server
  <1>2. /\ engine' \in {"begin", "podset", "watch", "loop", "degraded", "wait", "follow", "failed", "done"}
        /\ next' \in {"watch", "loop"} /\ handler' \in {"serve", "waiting", "returned"}
    BY <1>1 DEF LogInv, LogTypeOK
  <1> QED BY <1>1, <1>2, ControlStep

(* The log view as a whole (streamWorkloadLogs, podLogsHandler,            *)
(* useLogStream): in any run, with any names and bounds, the channel and   *)
(* the buffer keep to their capacities, every entry of the streamers map   *)
(* is a running goroutine of that name, a pod is announced once before it  *)
(* is read, what was read for it is in order and behind its reader, and a  *)
(* pod view lacks no line between the last one shown and the reader.       *)
THEOREM LogInvariant == LogSpec => []LogInv
  <1>1. LogInit => LogInv
    BY LogInitInv
  <1>2. LogInv /\ [LogNext]_logVars => LogInv'
    BY LogNextInv, LogStutter
  <1> QED BY <1>1, <1>2, PTL DEF LogSpec

LEMMA InvShown ==
    ASSUME LogInv
    PROVE  ShownInOrder
  <1> DEFINE s == view.buffer \o view.pending
  <1>1. view \in Views /\ channel \in Seq(Entries) /\ ReadToTheEnd /\ ReadInOrder
    BY DEF LogInv, LogTypeOK
  <1>2. /\ s \in Seq(Lines) /\ s \in Seq(Entries) /\ Len(s) \in Nat /\ Len(channel) \in Nat /\ Stream = s \o channel
        /\ Stream \in Seq(Entries) /\ Len(Stream) = Len(s) + Len(channel)
        /\ \A k \in 1 .. Len(Stream) : Stream[k] = IF k <= Len(s) THEN s[k] ELSE channel[k - Len(s)]
    BY <1>1, Flow DEF Stream
  <1>3. InOrder(Stream, Pods, gor)
    BY <1>1, <1>2, OrderForm
  <1> HIDE DEF s, Stream
  <1>4. DOMAIN s = 1 .. Len(s) /\ \A k \in 1 .. Len(s) : s[k] \in Lines /\ s[k].kind = "line"
    <2>1. DOMAIN s = 1 .. Len(s) /\ \A k \in 1 .. Len(s) : s[k] \in Lines
      BY <1>2
    <2> QED BY <2>1, EntryKinds
  <1>5. \A k \in 1 .. Len(s) : k \in 1 .. Len(Stream) /\ k <= Len(s) /\ k \in Int
    BY <1>2
  <1>6. \A k \in 1 .. Len(s) : Stream[k] = s[k]
    BY <1>2, <1>5
  <1>7. ASSUME NEW j \in 1 .. Len(s), NEW k \in 1 .. Len(s), j < k, s[j].pod = s[k].pod, s[j].own, s[k].own
        PROVE  s[j].n < s[k].n
    <2> HIDE DEF s, Stream
    <2>1. Own(Stream[j], Stream[k].pod) /\ Stream[k].kind = "line" /\ Stream[k].own
      BY <1>4, <1>6, <1>7 DEF Own
    <2>2. Stream[j].n < Stream[k].n
      BY <1>3, <1>5, <1>7, <2>1 DEF InOrder
    <2> QED BY <1>6, <2>2
  <1>8. ASSUME view.status = "closed", s # <<>> PROVE Last(s).n = written[Last(s).pod]
    <2>1. channel = <<>> /\ (Stream # <<>> => Final(Last(Stream)))
      BY <1>1, <1>8 DEF ReadToTheEnd
    <2>2. Stream = s \o <<>>
      BY <1>2, <2>1, Zenon
    <2> HIDE DEF s, Stream
    <2>3. Stream = s
      BY <1>2, <2>2, ConcatEmptySeq
    <2> QED BY <1>8, <2>1, <2>3 DEF Final
  <1>9. \A j, k \in DOMAIN s : (j < k /\ s[j].pod = s[k].pod /\ s[j].own /\ s[k].own) => s[j].n < s[k].n
    BY <1>4, <1>7
  <1> QED BY <1>8, <1>9 DEF ShownInOrder, s

(* What the reader sees, for any names and bounds: the lines read for a    *)
(* pod are shown in the order they were written and none twice, and a pod  *)
(* view that says closed goes to the last line the pod wrote.              *)
THEOREM ShownInOrderAlways == LogSpec => []ShownInOrder
  <1>1. LogInv => ShownInOrder
    BY InvShown
  <1> QED BY <1>1, LogInvariant, PTL
=============================================================================
