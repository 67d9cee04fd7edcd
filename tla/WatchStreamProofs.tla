------------------------- MODULE WatchStreamProofs -------------------------
(***************************************************************************)
(* Proofs about WatchStream, and about the browser's hook on top of it     *)
(* (BrowserStream), for every collection, channel capacity, wire capacity, *)
(* error budget and bound.                                                 *)
(***************************************************************************)
EXTENDS BrowserStream, SequenceTheorems, WellFoundedInduction, NaturalsInduction, TLAPS

-----------------------------------------------------------------------------
(* Sequences: what the indices of an extended or shortened one hold. *)

LEMMA AppendFacts ==
    ASSUME NEW S, NEW s \in Seq(S), NEW e \in S
    PROVE  /\ Append(s, e) \in Seq(S)
           /\ Len(Append(s, e)) = Len(s) + 1
           /\ \A i \in 1..Len(s) : Append(s, e)[i] = s[i]
           /\ Append(s, e)[Len(s) + 1] = e
           /\ Append(s, e) # <<>>
  OBVIOUS

LEMMA EmptyFacts ==
    ASSUME NEW S, NEW s \in Seq(S)
    PROVE  /\ Len(s) \in Nat
           /\ s = <<>> <=> Len(s) = 0
           /\ \A i \in 1..Len(s) : s[i] \in S
  OBVIOUS

LEMMA TailFacts ==
    ASSUME NEW S, NEW s \in Seq(S), s # <<>>
    PROVE  /\ Tail(s) \in Seq(S)
           /\ Len(s) >= 1
           /\ Len(Tail(s)) = Len(s) - 1
           /\ \A i \in 1..(Len(s) - 1) : Tail(s)[i] = s[i + 1]
           /\ Head(s) = s[1] /\ s[1] \in S
           /\ Tail(s) = <<>> <=> Len(s) = 1
  <1>1. Len(s) \in Nat \ {0}
    BY EmptySeq
  <1>2. Tail(s) \in Seq(S) /\ Len(Tail(s)) = Len(s) - 1
    BY HeadTailProperties
  <1>3. \A i \in 1..(Len(s) - 1) : Tail(s)[i] = s[i + 1]
    BY <1>2, HeadTailProperties
  <1>4. Tail(s) = <<>> <=> Len(s) = 1
    BY <1>1, <1>2, EmptyFacts
  <1>5. Head(s) = s[1] /\ s[1] \in S
    BY <1>1, ElementOfSeq
  <1> QED BY <1>1, <1>2, <1>3, <1>4, <1>5

LEMMA ForgetsTyped ==
    ASSUME ServerForgets
    PROVE  overflow' \in BOOLEAN /\ streamErr' \in BOOLEAN
  BY Zenon DEF ServerForgets

LEMMA NoEvents == <<>> \in Seq(Events) /\ Len(<<>>) = 0
  OBVIOUS

LEMMA AtNat ==
    ASSUME NEW e \in Events
    PROVE  e.at \in Nat
  BY DEF Events

LEMMA SnapshotRows ==
    ASSUME NEW e \in Events, e.type = "snapshot"
    PROVE  e.rows \in Rows
  BY DEF Events, Writes, Goodbyes

(* The events the server sends are events. *)
LEMMA EventsTyped ==
    ASSUME TypeOK, NEW r \in 1..RV
    PROVE  Snapshot(hist, r) \in Events /\ Delta(hist, r) \in Events /\ Relist(r) \in Events
  <1>1. hist[r] \in Entries /\ r \in Nat
    BY EmptyFacts DEF TypeOK, RV
  <1> QED BY <1>1 DEF Snapshot, Delta, Relist, Events, Entries

(* One more event at the end of a chain. *)
LEMMA ChainAppend ==
    ASSUME NEW p \in Nat, NEW s \in Seq(Events), NEW e \in Events,
           NEW h, Chain(h, p, s), Follows(h, End(p, s), e)
    PROVE  Chain(h, p, Append(s, e)) /\ End(p, Append(s, e)) = e.at
  <1>1. \A i \in 1..(Len(s) + 1) :
           Follows(h, IF i = 1 THEN p ELSE Append(s, e)[i - 1].at, Append(s, e)[i])
    <2> TAKE i \in 1..(Len(s) + 1)
    <2>1. CASE i <= Len(s)
      BY <2>1, AppendFacts, EmptyFacts DEF Chain
    <2>2. CASE i = Len(s) + 1
      BY <2>2, AppendFacts, EmptyFacts DEF End
    <2> QED BY <2>1, <2>2, EmptyFacts
  <1>2. Chain(h, p, Append(s, e))
    BY <1>1, AppendFacts DEF Chain
  <1> QED BY <1>2, AppendFacts DEF End

(* Without its first event a chain starts from where that event led. *)
LEMMA ChainTail ==
    ASSUME NEW p \in Nat, NEW s \in Seq(Events), s # <<>>,
           NEW h, Chain(h, p, s)
    PROVE  /\ Follows(h, p, Head(s))
           /\ Chain(h, Head(s).at, Tail(s))
           /\ End(Head(s).at, Tail(s)) = End(p, s)
  <1>1. Follows(h, p, Head(s))
    BY TailFacts, EmptyFacts DEF Chain
  <1>2. \A i \in 1..(Len(s) - 1) :
           Follows(h, IF i = 1 THEN Head(s).at ELSE Tail(s)[i - 1].at, Tail(s)[i])
    <2> TAKE i \in 1..(Len(s) - 1)
    <2>1. Follows(h, s[i].at, s[i + 1])
      BY TailFacts, EmptyFacts DEF Chain
    <2> QED BY <2>1, TailFacts, EmptyFacts
  <1>3. End(Head(s).at, Tail(s)) = End(p, s)
    BY TailFacts, EmptyFacts DEF End
  <1> QED BY <1>1, <1>2, <1>3, TailFacts DEF Chain

(* The empty chain. *)
LEMMA ChainEmpty ==
    ASSUME NEW h, NEW p
    PROVE  Chain(h, p, <<>>) /\ End(p, <<>>) = p
  BY DEF Chain, End

(* A write appends one version and changes no earlier one. *)
LEMMA WriteFacts ==
    ASSUME TypeOK, NEW k \in Keys, NEW type \in DeltaTypes, Mutate(k, type)
    PROVE  /\ hist' \in Seq(Entries)
           /\ Len(hist) \in Nat /\ Len(hist') = Len(hist) + 1
           /\ \A r \in 1..Len(hist) : hist'[r] = hist[r]
           /\ hist'[Len(hist) + 1] =
                [type |-> type, key |-> k,
                 rows |-> [hist[Len(hist)].rows EXCEPT ![k] =
                             IF type = "deleted" THEN 0 ELSE Len(hist) + 1]]
           /\ (type = "added") = (hist[Len(hist)].rows[k] = 0)
  <1> DEFINE w == [type |-> type, key |-> k,
                   rows |-> [hist[Len(hist)].rows EXCEPT ![k] =
                               IF type = "deleted" THEN 0 ELSE Len(hist) + 1]]
  <1>1. hist \in Seq(Entries) /\ Len(hist) \in Nat /\ Len(hist) >= 1
    BY EmptyFacts DEF TypeOK
  <1>2. hist[Len(hist)] \in Entries
    BY <1>1, EmptyFacts
  <1>3. w \in Entries
    BY <1>1, <1>2 DEF Entries, Rows, Writes, DeltaTypes
  <1>4. hist' = Append(hist, w) /\ (type = "added") = (hist[Len(hist)].rows[k] = 0)
    BY DEF Mutate, Store, RV
  <1> HIDE DEF w
  <1>5. /\ hist' \in Seq(Entries) /\ Len(hist') = Len(hist) + 1
        /\ \A r \in 1..Len(hist) : hist'[r] = hist[r]
        /\ hist'[Len(hist) + 1] = w
    BY <1>1, <1>3, <1>4, AppendFacts
  <1> QED BY <1>1, <1>4, <1>5 DEF w

(* A longer history leaves every event that follows right. *)
LEMMA ChainExtends ==
    ASSUME NEW h, NEW h2, Len(h) \in Nat, Len(h2) \in Nat, Len(h) <= Len(h2),
           \A r \in 1..Len(h) : h2[r] = h[r],
           NEW p \in Nat, NEW s \in Seq(Events), Chain(h, p, s)
    PROVE  Chain(h2, p, s)
  <1>1. ASSUME NEW q \in Nat, NEW e, Follows(h, q, e)
        PROVE  Follows(h2, q, e)
    <2>1. CASE e.at \in 1..Len(h) /\ e.at >= q /\ e = Snapshot(h, e.at)
      BY <2>1 DEF Follows, Snapshot
    <2>2. CASE q >= 1 /\ q < Len(h) /\ e.at = q + 1 /\ e = Delta(h, e.at)
      <3>1. e.at \in 1..Len(h) /\ h2[e.at] = h[e.at]
        BY <2>2
      <3>2. e = Delta(h2, e.at)
        BY <2>2, <3>1 DEF Delta
      <3> QED BY <2>2, <3>2 DEF Follows
    <2>3. CASE q \in 1..Len(h) /\ e = Relist(q)
      BY <2>3 DEF Follows
    <2>4. CASE e.type \in Goodbyes /\ e = Goodbye(e.type)
      BY <2>4 DEF Follows
    <2> QED BY <1>1, <2>1, <2>2, <2>3, <2>4 DEF Follows
  <1>2. ASSUME NEW i \in 1..Len(s)
        PROVE  (IF i = 1 THEN p ELSE s[i - 1].at) \in Nat
    <2>1. CASE i = 1
      BY <2>1
    <2>2. CASE i # 1
      BY <2>2, <1>2, EmptyFacts DEF Events
    <2> QED BY <2>1, <2>2
  <1> QED BY <1>1, <1>2 DEF Chain

(* One delta keeps rows rows, and leads from its version's predecessor to it. *)
LEMMA ApplyDeltaTyped ==
    ASSUME NEW rows \in Rows, NEW e \in Events, e.type \in DeltaTypes
    PROVE  ApplyDelta(rows, e) \in Rows
  BY DEF ApplyDelta, Rows, Events, DeltaTypes, Goodbyes, Writes

LEMMA ApplyDeltaCorrect ==
    ASSUME TypeOK, HistoryOK, NEW p \in 1..(Len(hist) - 1)
    PROVE  /\ Delta(hist, p + 1).type \in DeltaTypes
           /\ ApplyDelta(hist[p].rows, Delta(hist, p + 1)) = hist[p + 1].rows
  <1> DEFINE old == hist[p]
             new == hist[p + 1]
  <1>1. old \in Entries /\ new \in Entries
    BY EmptyFacts DEF TypeOK
  <1>2. /\ new.type \in DeltaTypes
        /\ (new.type = "added") = (old.rows[new.key] = 0)
        /\ new.rows = [old.rows EXCEPT ![new.key] =
                         IF new.type = "deleted" THEN 0 ELSE p + 1]
    <2>1. p + 1 \in 2..Len(hist) /\ (p + 1) - 1 = p
      BY EmptyFacts DEF TypeOK
    <2> QED BY <2>1 DEF HistoryOK, RV
  <1>3. Delta(hist, p + 1) = [type |-> new.type, at |-> p + 1, key |-> new.key]
    BY DEF Delta
  <1> HIDE DEF old, new
  <1>4. old.rows \in Rows /\ new.key \in Keys
    BY <1>1 DEF Entries
  <1>5. ApplyDelta(old.rows, [type |-> new.type, at |-> p + 1, key |-> new.key]) = new.rows
    BY <1>2, <1>4 DEF ApplyDelta, DeltaTypes, Rows
  <1> QED BY <1>2, <1>3, <1>5 DEF old, new

-----------------------------------------------------------------------------
(* Type correctness *)

LEMMA InitType == Init => TypeOK
  <1> SUFFICES ASSUME Init PROVE TypeOK
    OBVIOUS
  <1>1. PICK rows \in [Keys -> {0, 1}] :
           hist = <<[type |-> "initial", key |-> CHOOSE k \in Keys : TRUE, rows |-> rows]>>
    BY DEF Init
  <1>2. (CHOOSE k \in Keys : TRUE) \in Keys
    BY StreamAssumption
  <1>3. [type |-> "initial", key |-> CHOOSE k \in Keys : TRUE, rows |-> rows] \in Entries
    BY <1>2 DEF Entries, Writes, Rows
  <1>4. hist \in Seq(Entries) /\ Len(hist) = 1
    BY <1>1, <1>3
  <1>5. view \in Rows
    BY DEF Init, Rows
  <1>6. overflow \in BOOLEAN /\ streamErr \in BOOLEAN
    BY Zenon DEF Init
  <1> QED BY <1>4, <1>5, <1>6, NoEvents, StreamAssumption DEF Init, TypeOK

LEMMA SendType ==
    ASSUME TypeOK, NEW e \in Events, NEW next \in {"top", "open", "drain"}, Send(e, next)
    PROVE  /\ ch' \in Seq(Events) /\ Len(ch') <= ChanCap
           /\ overflow' \in BOOLEAN
           /\ loop' \in {"none", "top", "open", "drain", "done"}
  <1>1. ch \in Seq(Events) /\ Len(ch) \in Nat /\ ChanCap \in Nat
    BY EmptyFacts, StreamAssumption DEF TypeOK
  <1>2. CASE Len(ch) < ChanCap
    <2>1. ch' = Append(ch, e) /\ loop' = next /\ overflow' = overflow
      BY <1>2 DEF Send
    <2>2. ch' \in Seq(Events) /\ Len(ch') = Len(ch) + 1
      BY <1>1, <2>1, AppendFacts
    <2> QED BY <1>1, <1>2, <2>1, <2>2 DEF TypeOK
  <1>3. CASE ~(Len(ch) < ChanCap)
    BY <1>3 DEF Send, TypeOK
  <1> QED BY <1>2, <1>3

LEMMA GoodbyeTyped ==
    ASSUME TypeOK, Room, NEW t \in Goodbyes
    PROVE  /\ Goodbye(t) \in Events
           /\ Append(wire, Goodbye(t)) \in Seq(Events)
           /\ Len(Append(wire, Goodbye(t))) <= WireCap
  <1>1. Goodbye(t) \in Events
    BY DEF Goodbye, Events
  <1> QED BY <1>1, AppendFacts, EmptyFacts, StreamAssumption DEF TypeOK, Room

LEMMA TypeStep == TypeOK /\ [Next]_vars => TypeOK'
  <1> SUFFICES ASSUME TypeOK, [Next]_vars PROVE TypeOK'
    OBVIOUS
  <1> USE StreamAssumption
  <1>1. ASSUME NEW k \in Keys, NEW type \in DeltaTypes, Mutate(k, type) PROVE TypeOK'
    <2>1. hist' \in Seq(Entries) /\ Len(hist) \in Nat /\ Len(hist') = Len(hist) + 1
      BY <1>1, WriteFacts
    <2> QED BY <1>1, <2>1 DEF TypeOK, Mutate, serverVars, clientVars
  <1>2. CASE Compact
    BY <1>2, EmptyFacts DEF TypeOK, Compact, RV, serverVars, clientVars
  <1>3. CASE Resume
    BY <1>3 DEF TypeOK, Resume, apiVars, clientVars
  <1>4. CASE ListFresh
    <2>1. RV \in 1..RV
      BY EmptyFacts DEF TypeOK, RV
    <2>2. Snapshot(hist, RV) \in Events
      BY <2>1, EventsTyped
    <2> QED BY <1>4, <2>1, <2>2, SendType DEF TypeOK, ListFresh, apiVars, clientVars
  <1>5. CASE LoopFails
    BY <1>5 DEF TypeOK, LoopFails, Disrupt, apiVars, clientVars
  <1>6. CASE OpenWatch
    BY <1>6 DEF TypeOK, OpenWatch, apiVars, clientVars
  <1>7. CASE DrainEvent
    <2>1. watchRV + 1 \in 1..RV
      BY <1>7, EmptyFacts DEF TypeOK, DrainEvent, RV
    <2>2. Delta(hist, watchRV + 1) \in Events
      BY <2>1, EventsTyped
    <2> QED BY <1>7, <2>1, <2>2, SendType DEF TypeOK, DrainEvent, apiVars, clientVars
  <1>8. CASE DrainGone
    <2>1. Relist(watchRV) \in Events
      BY DEF TypeOK, Relist, Events
    <2> QED BY <1>8, <2>1, SendType DEF TypeOK, DrainGone, apiVars, clientVars
  <1>9. CASE DrainClosed
    BY <1>9 DEF TypeOK, DrainClosed, Disrupt, apiVars, clientVars
  <1>10. CASE Emit
    <2>1. /\ ch' \in Seq(Events) /\ Len(ch') <= ChanCap
          /\ wire' \in Seq(Events) /\ Len(wire') <= WireCap
      BY <1>10, TailFacts, AppendFacts, EmptyFacts DEF TypeOK, Emit, Room
    <2> QED BY <1>10, <2>1 DEF TypeOK, Emit, apiVars, clientVars
  <1>11. ASSUME NEW w, HandlerReturns(w), w \in Seq(Events), Len(w) <= WireCap,
                faults' \in 0..MaxFaults
         PROVE  TypeOK'
    <2>1. overflow' \in BOOLEAN /\ streamErr' \in BOOLEAN
      BY <1>11, ForgetsTyped DEF HandlerReturns
    <2> QED BY <1>11, <2>1, NoEvents DEF TypeOK, HandlerReturns, ServerForgets, apiVars
  <1>12. CASE ChannelClosed
    <2> DEFINE w == CASE streamErr              -> Append(wire, Goodbye("error"))
                      [] overflow /\ ~streamErr -> Append(wire, Goodbye("backpressure"))
                      [] OTHER                  -> wire
    <2>1. HandlerReturns(w) /\ faults' = faults
      BY <1>12 DEF ChannelClosed
    <2>2. w \in Seq(Events) /\ Len(w) <= WireCap
      BY <1>12, GoodbyeTyped DEF TypeOK, ChannelClosed, Goodbyes
    <2> HIDE DEF w
    <2> QED BY <2>1, <2>2, <1>11 DEF TypeOK
  <1>13. ASSUME NEW t \in Goodbyes, HandlerStops(t) PROVE TypeOK'
    <2> DEFINE w == Append(wire, Goodbye(t))
    <2>1. HandlerReturns(w) /\ faults' \in 0..MaxFaults
      BY <1>13 DEF HandlerStops, Disrupt, TypeOK
    <2>2. w \in Seq(Events) /\ Len(w) <= WireCap
      BY <1>13, GoodbyeTyped DEF HandlerStops
    <2> HIDE DEF w
    <2> QED BY <2>1, <2>2, <1>11
  <1>14. CASE Connect
    BY <1>14 DEF TypeOK, Connect, apiVars
  <1>15. CASE Reject
    BY <1>15 DEF TypeOK, Reject, Disrupt, apiVars, serverVars
  <1>16. CASE Deliver
    <2>1. Head(wire) \in Events /\ Tail(wire) \in Seq(Events) /\ Len(Tail(wire)) <= WireCap
      BY <1>16, TailFacts, EmptyFacts DEF TypeOK, Deliver
    <2>2. Head(wire).at \in Nat
      BY <2>1 DEF Events
    <2>3. view' \in Rows
      <3>1. CASE Head(wire).type = "snapshot"
        BY <1>16, <2>1, <3>1, SnapshotRows DEF Deliver, DeltaTypes
      <3>2. CASE Head(wire).type \in DeltaTypes
        BY <1>16, <2>1, <3>2, ApplyDeltaTyped DEF Deliver, TypeOK, DeltaTypes
      <3>3. CASE Head(wire).type \notin DeltaTypes \cup {"snapshot"}
        BY <1>16, <3>3 DEF Deliver, TypeOK
      <3> QED BY <3>1, <3>2, <3>3
    <2> QED BY <1>16, <2>1, <2>2, <2>3 DEF TypeOK, Deliver, apiVars, serverVars
  <1>17. CASE Eof
    BY <1>17 DEF TypeOK, Eof, apiVars, serverVars
  <1>18. CASE Drop
    <2>1. overflow' \in BOOLEAN /\ streamErr' \in BOOLEAN
      BY <1>18, ForgetsTyped DEF Drop
    <2> QED BY <1>18, <2>1, NoEvents DEF TypeOK, Drop, Disrupt, ServerForgets, apiVars
  <1>19. CASE Close
    <2>1. overflow' \in BOOLEAN /\ streamErr' \in BOOLEAN
      BY <1>19, ForgetsTyped DEF Close
    <2> QED BY <1>19, <2>1, NoEvents DEF TypeOK, Close, Disrupt, ServerForgets, apiVars
  <1>20. CASE Reopen
    BY <1>20 DEF TypeOK, Reopen, apiVars, serverVars
  <1>21. CASE UNCHANGED vars
    BY <1>21 DEF TypeOK, vars, apiVars, serverVars, clientVars
  <1> QED
    BY <1>1, <1>2, <1>3, <1>4, <1>5, <1>6, <1>7, <1>8, <1>9, <1>10, <1>12, <1>13, <1>14,
       <1>15, <1>16, <1>17, <1>18, <1>19, <1>20, <1>21
    DEF Next, LoopStep, HandlerStep, BrowserStep, Goodbyes

-----------------------------------------------------------------------------
(* The inductive invariant *)

(* A chain ends at a version of the history. *)
LEMMA EndBound ==
    ASSUME NEW h, Len(h) \in Nat, NEW p \in 0..Len(h), NEW s \in Seq(Events), Chain(h, p, s)
    PROVE  End(p, s) \in 0..Len(h)
  <1>1. CASE s = <<>>
    BY <1>1 DEF End
  <1>2. CASE s # <<>>
    <2>1. Len(s) \in 1..Len(s) /\ s[Len(s)] \in Events
      BY <1>2, EmptyFacts
    <2> DEFINE q == IF Len(s) = 1 THEN p ELSE s[Len(s) - 1].at
               e == s[Len(s)]
    <2>2. Follows(h, q, e)
      BY <2>1 DEF Chain
    <2>3. q \in Nat
      <3>1. CASE Len(s) = 1
        BY <3>1
      <3>2. CASE Len(s) # 1
        <4>1. Len(s) - 1 \in 1..Len(s)
          <5>1. Len(s) \in Nat /\ Len(s) >= 1
            BY <1>2, TailFacts, EmptyFacts
          <5>2. ASSUME NEW n \in Nat, n >= 1, n # 1 PROVE n - 1 \in 1..n
            BY <5>2
          <5> QED BY <5>1, <5>2, <3>2, Zenon
        <4>2. s[Len(s) - 1] \in Events
          BY <4>1, EmptyFacts
        <4> QED BY <3>2, <4>2, AtNat
      <3> QED BY <3>1, <3>2
    <2> HIDE DEF q, e
    <2>4. e.at \in 0..Len(h)
      BY <2>2, <2>3 DEF Follows, Relist, Goodbye
    <2> QED BY <1>2, <2>4 DEF End, e
  <1> QED BY <1>1, <1>2

LEMMA PipeFacts ==
    ASSUME IInv
    PROVE  /\ Len(hist) \in Nat /\ Len(hist) >= 1
           /\ lastId \in 0..Len(hist) /\ shown \in 0..Len(hist)
           /\ End(lastId, wire) \in 0..Len(hist)
           /\ End(End(lastId, wire), ch) \in 0..Len(hist)
  <1>1. Len(hist) \in Nat /\ Len(hist) >= 1
    BY EmptyFacts DEF IInv, TypeOK
  <1>2. lastId \in 0..Len(hist) /\ shown \in 0..Len(hist)
    BY <1>1 DEF IInv, TypeOK, ViewConsistent, RV
  <1>3. End(lastId, wire) \in 0..Len(hist)
    BY <1>1, <1>2, EndBound DEF IInv, TypeOK, PipelineOK
  <1>4. End(End(lastId, wire), ch) \in 0..Len(hist)
    BY <1>1, <1>3, EndBound DEF IInv, TypeOK, PipelineOK
  <1> QED BY <1>1, <1>2, <1>3, <1>4

LEMMA InitInv == Init => IInv
  <1> SUFFICES ASSUME Init PROVE IInv
    OBVIOUS
  <1>1. TypeOK
    BY InitType
  <1>2. Len(hist) = 1
    BY DEF Init
  <1>3. wire = <<>> /\ ch = <<>> /\ loop = "none" /\ es = "connecting" /\ lastId = 0 /\ shown = 0
    BY DEF Init
  <1>4. HistoryOK
    BY <1>2 DEF HistoryOK, RV
  <1>5. ConnectionOK
    BY <1>3, NoEvents DEF ConnectionOK
  <1>6. PipelineOK
    BY <1>3, ChainEmpty DEF PipelineOK
  <1>7. FreshStartOK /\ ViewConsistent
    BY <1>3 DEF FreshStartOK, ViewConsistent
  <1> QED BY <1>1, <1>4, <1>5, <1>6, <1>7 DEF IInv

(* A Send of the right event, queued or refused, leaves the pipeline in order. *)
LEMMA SendInv ==
    ASSUME IInv, loop # "none", NEW e \in Events, e.type \notin Goodbyes,
           Follows(hist, End(End(lastId, wire), ch), e),
           e.type = "snapshot" => e.at >= shown,
           NEW next \in {"top", "open", "drain"}, Send(e, next),
           UNCHANGED <<hist, wire, es, lastId, view, shown>>
    PROVE  /\ ConnectionOK'
           /\ Chain(hist', lastId', wire') /\ Chain(hist', End(lastId', wire'), ch')
           /\ loop' = next => End(End(lastId', wire'), ch') = e.at
           /\ loop' \in {next, "done"}
           /\ FreshStartOK'
  <1>1. ch \in Seq(Events) /\ Len(ch) \in Nat /\ End(lastId, wire) \in Nat
    BY PipeFacts, EmptyFacts DEF IInv, TypeOK
  <1>2. CASE Len(ch) < ChanCap
    <2>1. ch' = Append(ch, e) /\ loop' = next
      BY <1>2 DEF Send
    <2>2. Chain(hist, End(lastId, wire), ch') /\ End(End(lastId, wire), ch') = e.at
      BY <1>1, <2>1, ChainAppend DEF IInv, PipelineOK
    <2>3. \A i \in 1..Len(ch') : ch'[i].type \notin Goodbyes
      BY <1>1, <2>1, AppendFacts DEF IInv, ConnectionOK
    <2>4. ConnectionOK'
      BY <2>1, <2>3 DEF IInv, ConnectionOK
    <2>5. FreshStartOK'
      BY <1>1, <2>1, AppendFacts, EmptyFacts DEF IInv, FreshStartOK
    <2> QED BY <2>1, <2>2, <2>4, <2>5 DEF IInv, PipelineOK
  <1>3. CASE ~(Len(ch) < ChanCap)
    <2>1. ch' = ch /\ loop' = "done"
      BY <1>3 DEF Send
    <2> QED BY <2>1 DEF IInv, ConnectionOK, PipelineOK, FreshStartOK
  <1> QED BY <1>2, <1>3

(* What is left to show for a step that does not touch the history. *)
LEMMA SameHistory == ASSUME HistoryOK, hist' = hist PROVE HistoryOK'
  BY DEF HistoryOK, RV

LEMMA SameView ==
    ASSUME ViewConsistent, UNCHANGED <<hist, lastId, view, shown>>
    PROVE  ViewConsistent'
  BY DEF ViewConsistent, RV

(* A write. *)
LEMMA MutateInv ==
    ASSUME IInv, NEW k \in Keys, NEW type \in DeltaTypes, Mutate(k, type)
    PROVE  HistoryOK' /\ ConnectionOK' /\ PipelineOK' /\ FreshStartOK' /\ ViewConsistent'
  <1> DEFINE n == Len(hist)
  <1>1. /\ n \in Nat /\ Len(hist') = n + 1
        /\ \A r \in 1..n : hist'[r] = hist[r]
        /\ hist'[n + 1] = [type |-> type, key |-> k,
                           rows |-> [hist[n].rows EXCEPT ![k] =
                                       IF type = "deleted" THEN 0 ELSE n + 1]]
        /\ (type = "added") = (hist[n].rows[k] = 0)
    BY WriteFacts DEF IInv
  <1>2. n >= 1
    BY DEF IInv, TypeOK
  <1>3. UNCHANGED <<loop, resumeFrom, watchRV, ch, overflow, streamErr, wire, es, lastId, view, shown>>
    BY DEF Mutate, serverVars, clientVars
  <1> HIDE DEF n
  <1>4. HistoryOK'
    <2> SUFFICES ASSUME NEW r \in 2..(n + 1)
                 PROVE  /\ hist'[r].type \in DeltaTypes
                        /\ (hist'[r].type = "added") = (hist'[r - 1].rows[hist'[r].key] = 0)
                        /\ hist'[r].rows = [hist'[r - 1].rows EXCEPT ![hist'[r].key] =
                              IF hist'[r].type = "deleted" THEN 0 ELSE r]
      BY <1>1 DEF HistoryOK, RV
    <2>1. CASE r \in 2..n
      <3>1. r \in 1..n /\ r - 1 \in 1..n
        BY <1>1, <2>1
      <3>2. hist'[r] = hist[r] /\ hist'[r - 1] = hist[r - 1]
        BY <1>1, <3>1
      <3> QED BY <2>1, <3>2 DEF IInv, HistoryOK, RV, n
    <2>2. CASE r = n + 1
      <3>1. r - 1 = n /\ hist'[n] = hist[n]
        BY <1>1, <1>2, <2>2
      <3> QED BY <1>1, <2>2, <3>1
    <2> QED BY <1>1, <2>1, <2>2
  <1>5. ConnectionOK' /\ FreshStartOK'
    BY <1>3 DEF IInv, ConnectionOK, FreshStartOK
  <1>6. Chain(hist', lastId, wire) /\ Chain(hist', End(lastId, wire), ch)
    <2>1. lastId \in Nat /\ End(lastId, wire) \in Nat /\ wire \in Seq(Events) /\ ch \in Seq(Events)
      BY PipeFacts DEF IInv, TypeOK
    <2>2. Len(hist) \in Nat /\ Len(hist') \in Nat /\ Len(hist) <= Len(hist')
          /\ \A r \in 1..Len(hist) : hist'[r] = hist[r]
      BY <1>1 DEF n
    <2>3. Chain(hist, lastId, wire) /\ Chain(hist, End(lastId, wire), ch)
      BY DEF IInv, PipelineOK
    <2> QED BY <2>1, <2>2, <2>3, ChainExtends
  <1>7. PipelineOK'
    BY <1>1, <1>3, <1>6 DEF IInv, PipelineOK, RV, n
  <1>8. ViewConsistent'
    BY <1>1, <1>3, PipeFacts DEF IInv, ViewConsistent, RV, n
  <1> QED BY <1>4, <1>5, <1>7, <1>8

(* A connection that ends without a word. *)
LEMMA ForgetInv ==
    ASSUME IInv, ServerForgets, wire' = <<>>, es' \in {"connecting", "closed"},
           UNCHANGED <<hist, lastId, view, shown>>
    PROVE  HistoryOK' /\ ConnectionOK' /\ PipelineOK' /\ FreshStartOK' /\ ViewConsistent'
  <1>1. loop' = "none" /\ ch' = <<>>
    BY DEF ServerForgets
  <1>2. ConnectionOK'
    BY <1>1, NoEvents DEF ConnectionOK
  <1>3. PipelineOK'
    BY <1>1, ChainEmpty DEF PipelineOK
  <1>4. FreshStartOK'
    BY <1>1 DEF FreshStartOK
  <1> QED BY <1>2, <1>3, <1>4, SameHistory, SameView DEF IInv

(* A handler that returns, with or without a last event. *)
LEMMA ReturnInv ==
    ASSUME IInv, loop # "none", NEW w \in Seq(Events), HandlerReturns(w),
           \/ w = wire
           \/ \E t \in Goodbyes : w = Append(wire, Goodbye(t))
    PROVE  HistoryOK' /\ ConnectionOK' /\ PipelineOK' /\ FreshStartOK' /\ ViewConsistent'
  <1>1. /\ loop' = "none" /\ ch' = <<>> /\ wire' = w /\ es' = "ended"
        /\ UNCHANGED <<hist, lastId, view, shown>>
    BY DEF HandlerReturns, ServerForgets, apiVars
  <1>2. wire \in Seq(Events) /\ lastId \in Nat /\ \A i \in 1..Len(wire) : wire[i].type \notin Goodbyes
    BY DEF IInv, TypeOK, ConnectionOK
  <1>3. Chain(hist, lastId, wire)
    BY DEF IInv, PipelineOK
  <1>4. /\ Chain(hist, lastId, w)
        /\ \A i \in 1..Len(w) : w[i].type \in Goodbyes => i = Len(w)
        /\ (lastId = 0 /\ w # <<>> /\ w[1].type = "snapshot") => w[1].at >= shown
    <2>1. CASE w = wire
      BY <2>1, <1>2, <1>3 DEF IInv, FreshStartOK
    <2>2. CASE \E t \in Goodbyes : w = Append(wire, Goodbye(t))
      <3>1. PICK t \in Goodbyes : w = Append(wire, Goodbye(t))
        BY <2>2
      <3> DEFINE e == Goodbye(t)
      <3>2. e \in Events /\ Follows(hist, End(lastId, wire), e) /\ e.type # "snapshot"
        BY DEF Goodbye, Events, Follows, Goodbyes
      <3> HIDE DEF e
      <3>3. w = Append(wire, e)
        BY <3>1 DEF e
      <3>4. Chain(hist, lastId, w)
        BY <1>2, <1>3, <3>2, <3>3, ChainAppend
      <3>5. /\ Len(w) = Len(wire) + 1 /\ Len(wire) \in Nat
            /\ \A i \in 1..Len(wire) : w[i] = wire[i]
            /\ w[Len(wire) + 1] = e
        BY <1>2, <3>2, <3>3, AppendFacts, EmptyFacts
      <3>6. \A i \in 1..Len(w) : w[i].type \in Goodbyes => i = Len(w)
        BY <1>2, <3>5
      <3>7. (lastId = 0 /\ w # <<>> /\ w[1].type = "snapshot") => w[1].at >= shown
        BY <1>2, <3>2, <3>5, EmptyFacts DEF IInv, FreshStartOK
      <3> QED BY <3>4, <3>6, <3>7
    <2> QED BY <2>1, <2>2
  <1>5. ConnectionOK'
    BY <1>1, <1>4, NoEvents DEF ConnectionOK
  <1>6. PipelineOK'
    BY <1>1, <1>4, ChainEmpty DEF PipelineOK
  <1>7. FreshStartOK'
    BY <1>1, <1>4 DEF FreshStartOK
  <1> QED BY <1>1, <1>5, <1>6, <1>7, SameHistory, SameView DEF IInv

(* The handler writes the next queued event. *)
LEMMA EmitInv ==
    ASSUME IInv, Emit
    PROVE  HistoryOK' /\ ConnectionOK' /\ PipelineOK' /\ FreshStartOK' /\ ViewConsistent'
  <1> DEFINE e == Head(ch)
  <1>1. /\ loop # "none" /\ ch # <<>> /\ wire' = Append(wire, e) /\ ch' = Tail(ch)
        /\ UNCHANGED <<hist, loop, resumeFrom, watchRV, es, lastId, view, shown>>
    BY DEF Emit, Serving, apiVars, clientVars
  <1>2. ch \in Seq(Events) /\ wire \in Seq(Events) /\ lastId \in Nat /\ End(lastId, wire) \in Nat
    BY PipeFacts DEF IInv, TypeOK
  <1>3. /\ e = ch[1] /\ e \in Events /\ Len(ch) >= 1 /\ Len(ch) \in Nat
        /\ Len(ch') = Len(ch) - 1 /\ \A i \in 1..(Len(ch) - 1) : ch'[i] = ch[i + 1]
    BY <1>1, <1>2, TailFacts, EmptyFacts
  <1>4. /\ Follows(hist, End(lastId, wire), e)
        /\ Chain(hist, e.at, ch') /\ End(e.at, ch') = End(End(lastId, wire), ch)
    BY <1>1, <1>2, ChainTail DEF IInv, PipelineOK
  <1> HIDE DEF e
  <1>5. Chain(hist, lastId, wire') /\ End(lastId, wire') = e.at
    BY <1>1, <1>2, <1>3, <1>4, ChainAppend DEF IInv, PipelineOK
  <1>6. /\ Len(wire') = Len(wire) + 1 /\ Len(wire) \in Nat /\ wire' # <<>>
        /\ \A i \in 1..Len(wire) : wire'[i] = wire[i]
        /\ wire'[Len(wire) + 1] = e
    BY <1>1, <1>2, <1>3, AppendFacts, EmptyFacts
  <1>7. e.type \notin Goodbyes /\ \A i \in 1..Len(wire) : wire[i].type \notin Goodbyes
    BY <1>1, <1>3 DEF IInv, ConnectionOK
  <1>8. \A i \in 1..Len(ch') : ch'[i].type \notin Goodbyes
    BY <1>3 DEF IInv, ConnectionOK
  <1>9. \A i \in 1..Len(wire') : wire'[i].type \notin Goodbyes
    BY <1>6, <1>7
  <1>10. es' \notin {"connecting", "closed"}
    BY <1>1 DEF IInv, ConnectionOK
  <1>11. ConnectionOK'
    BY <1>1, <1>8, <1>9, <1>10 DEF IInv, ConnectionOK
  <1>12. PipelineOK'
    BY <1>1, <1>4, <1>5 DEF IInv, PipelineOK, RV
  <1>13. FreshStartOK'
    <2>1. CASE wire = <<>>
      BY <1>1, <1>2, <1>3, <1>6, <2>1, EmptyFacts DEF IInv, FreshStartOK
    <2>2. CASE wire # <<>>
      <3>1. wire'[1] = wire[1]
        BY <1>2, <1>6, <2>2, EmptyFacts
      <3> QED BY <1>1, <1>6, <2>2, <3>1 DEF IInv, FreshStartOK
    <2> QED BY <2>1, <2>2
  <1> QED BY <1>1, <1>11, <1>12, <1>13, SameHistory, SameView DEF IInv

(* The browser reads the next event. *)
LEMMA DeliverInv ==
    ASSUME IInv, Deliver
    PROVE  /\ HistoryOK' /\ ConnectionOK' /\ PipelineOK' /\ FreshStartOK' /\ ViewConsistent'
           /\ \/ UNCHANGED <<shown, view>>
              \/ shown' \in 1..Len(hist) /\ shown' >= shown /\ view' = hist[shown'].rows
  <1> DEFINE e == Head(wire)
  <1>1. /\ wire # <<>> /\ es \in {"open", "ended"}
        /\ UNCHANGED <<hist, loop, resumeFrom, watchRV, ch>>
        /\ lastId' = (IF HasId(e) THEN e.at ELSE lastId)
        /\ shown' = (IF HasId(e) THEN e.at ELSE shown)
        /\ e.type = "snapshot" => view' = e.rows
        /\ e.type \in DeltaTypes => view' = ApplyDelta(view, e)
        /\ ~HasId(e) => view' = view
        /\ es' = (IF e.type = "auth_expired" THEN "closed" ELSE es)
        /\ wire' = (IF e.type = "auth_expired" THEN <<>> ELSE Tail(wire))
    BY DEF Deliver, HasId, DeltaTypes, apiVars, serverVars
  <1>2. wire \in Seq(Events) /\ ch \in Seq(Events) /\ lastId \in Nat /\ shown \in Nat
    BY DEF IInv, TypeOK
  <1>3. /\ e = wire[1] /\ e \in Events /\ Len(wire) >= 1 /\ Len(wire) \in Nat
        /\ Tail(wire) \in Seq(Events) /\ Len(Tail(wire)) = Len(wire) - 1
        /\ \A i \in 1..(Len(wire) - 1) : Tail(wire)[i] = wire[i + 1]
        /\ Tail(wire) = <<>> <=> Len(wire) = 1
    BY <1>1, <1>2, TailFacts, EmptyFacts
  <1>4. /\ Follows(hist, lastId, e)
        /\ Chain(hist, e.at, Tail(wire)) /\ End(e.at, Tail(wire)) = End(lastId, wire)
    BY <1>1, <1>2, ChainTail DEF IInv, PipelineOK
  <1> HIDE DEF e
  <1>5. /\ Len(hist) \in Nat /\ lastId \in 0..Len(hist) /\ shown \in 0..Len(hist)
    BY PipeFacts
  <1>6. CASE e.type \in Goodbyes
    <2>1. Len(wire) = 1 /\ loop = "none" /\ ch = <<>> /\ es = "ended"
      <3>1. 1 \in 1..Len(wire) /\ wire[1].type \in Goodbyes
        BY <1>3, <1>6
      <3>2. 1 = Len(wire) /\ loop = "none"
        BY <3>1 DEF IInv, ConnectionOK
      <3> QED BY <1>1, <3>2 DEF IInv, ConnectionOK
    <2>2. wire' = <<>> /\ lastId' = lastId /\ shown' = shown /\ view' = view
      BY <1>1, <1>3, <1>6, <2>1 DEF HasId, DeltaTypes, Goodbyes
    <2>3. ConnectionOK'
      BY <1>1, <2>1, <2>2, NoEvents DEF ConnectionOK
    <2>4. PipelineOK'
      BY <1>1, <2>1, <2>2, ChainEmpty DEF PipelineOK
    <2>5. FreshStartOK'
      BY <1>1, <2>1, <2>2 DEF FreshStartOK
    <2> QED BY <1>1, <2>2, <2>3, <2>4, <2>5, SameHistory, SameView DEF IInv
  <1>7. CASE e.type \notin Goodbyes
    <2>1. wire' = Tail(wire) /\ es' = es
      BY <1>1, <1>7 DEF Goodbyes
    <2>2. lastId' = e.at
      <3>1. CASE HasId(e)
        BY <1>1, <3>1
      <3>2. CASE ~HasId(e)
        <4>1. e = Relist(lastId)
          <5>1. ~(e.at \in 1..Len(hist) /\ e.at >= lastId /\ e = Snapshot(hist, e.at))
            BY <3>2 DEF HasId, Snapshot
          <5>2. ~(lastId >= 1 /\ lastId < Len(hist) /\ e.at = lastId + 1 /\ e = Delta(hist, e.at))
            <6> SUFFICES ASSUME lastId >= 1, lastId < Len(hist), e = Delta(hist, lastId + 1)
                         PROVE  FALSE
              OBVIOUS
            <6>1. lastId \in 1..(Len(hist) - 1)
              BY <1>5
            <6>2. e.type \in DeltaTypes
              BY <6>1, ApplyDeltaCorrect DEF IInv
            <6> QED BY <3>2, <6>2 DEF HasId
          <5> QED BY <1>4, <1>7, <5>1, <5>2 DEF Follows
        <4> QED BY <1>1, <3>2, <4>1 DEF Relist
      <3> QED BY <3>1, <3>2
    <2>3. ConnectionOK'
      <3>1. \A i \in 1..Len(wire') :
               wire'[i].type \in Goodbyes => i = Len(wire') /\ loop' = "none"
        <4> TAKE i \in 1..Len(wire')
        <4>1. i + 1 \in 1..Len(wire) /\ wire'[i] = wire[i + 1] /\ Len(wire') = Len(wire) - 1
          BY <1>3, <2>1
        <4>2. wire[i + 1].type \in Goodbyes => i + 1 = Len(wire) /\ loop = "none"
          BY <4>1 DEF IInv, ConnectionOK
        <4>3. i + 1 = Len(wire) => i = Len(wire')
          <5>1. Len(wire) \in Nat /\ i \in Nat
            BY <1>3, <2>1
          <5>2. ASSUME NEW a \in Nat, NEW b \in Nat, a + 1 = b PROVE a = b - 1
            BY <5>2
          <5> QED BY <4>1, <5>1, <5>2
        <4> QED BY <1>1, <4>1, <4>2, <4>3
      <3> QED BY <1>1, <2>1, <3>1 DEF IInv, ConnectionOK
    <2>4. PipelineOK'
      BY <1>1, <1>4, <2>1, <2>2 DEF IInv, PipelineOK, RV
    <2>5. /\ \/ e.at \in 1..Len(hist) /\ e = Snapshot(hist, e.at) /\ e.at >= lastId
             \/ lastId \in 1..(Len(hist) - 1) /\ e.at = lastId + 1 /\ e = Delta(hist, lastId + 1)
             \/ lastId >= 1 /\ e = Relist(lastId)
      BY <1>4, <1>5, <1>7 DEF Follows
    <2>6. FreshStartOK'
      <3>1. e.at # 0
        BY <1>5, <2>5 DEF Relist
      <3> QED BY <2>2, <3>1 DEF FreshStartOK
    <2>7. /\ ViewConsistent'
          /\ \/ UNCHANGED <<shown, view>>
             \/ shown' \in 1..Len(hist) /\ shown' >= shown /\ view' = hist[shown'].rows
      <3>1. CASE e.at \in 1..Len(hist) /\ e = Snapshot(hist, e.at) /\ e.at >= lastId
        <4>1. e.type = "snapshot" /\ e.rows = hist[e.at].rows
          BY <3>1 DEF Snapshot
        <4>2. shown' = e.at /\ view' = hist[e.at].rows
          BY <1>1, <4>1 DEF HasId
        <4>3. e.at >= shown
          BY <1>1, <1>3, <3>1, <4>1 DEF IInv, FreshStartOK, ViewConsistent
        <4> QED BY <1>1, <2>2, <3>1, <4>2, <4>3 DEF ViewConsistent, RV
      <3>2. CASE lastId \in 1..(Len(hist) - 1) /\ e.at = lastId + 1 /\ e = Delta(hist, lastId + 1)
        <4>1. e.type \in DeltaTypes /\ ApplyDelta(hist[lastId].rows, e) = hist[lastId + 1].rows
          BY <3>2, ApplyDeltaCorrect DEF IInv
        <4>2. lastId = shown /\ view = hist[lastId].rows
          BY <1>5, <3>2 DEF IInv, ViewConsistent
        <4>3. shown' = e.at /\ view' = ApplyDelta(view, e)
          BY <1>1, <4>1 DEF HasId
        <4>4. view' = hist[e.at].rows /\ e.at \in 1..Len(hist) /\ e.at >= shown
          BY <1>5, <3>2, <4>1, <4>2, <4>3
        <4> QED BY <1>1, <2>2, <4>3, <4>4 DEF ViewConsistent, RV
      <3>3. CASE lastId >= 1 /\ e = Relist(lastId)
        <4>1. ~HasId(e) /\ e.at = lastId
          BY <3>3 DEF HasId, Relist, DeltaTypes
        <4> QED BY <1>1, <2>2, <4>1 DEF IInv, ViewConsistent, RV
      <3> QED BY <2>5, <3>1, <3>2, <3>3
    <2> QED BY <1>1, <2>3, <2>4, <2>6, <2>7, SameHistory DEF IInv
  <1> QED BY <1>6, <1>7

(* Every step keeps the invariant, and moves the browser as CollectionView *)
(* allows.                                                                 *)
AbstractStep ==
    \/ UNCHANGED <<hist, shown, view>>
    \/ CV!Write
    \/ CV!Advance

LEMMA InvStep == IInv /\ [Next]_vars => IInv' /\ AbstractStep
  <1> SUFFICES ASSUME IInv, [Next]_vars
               PROVE  /\ HistoryOK' /\ ConnectionOK' /\ PipelineOK' /\ FreshStartOK'
                      /\ ViewConsistent' /\ AbstractStep
    BY TypeStep DEF IInv
  <1> DEFINE Goal == /\ HistoryOK' /\ ConnectionOK' /\ PipelineOK' /\ FreshStartOK'
                     /\ ViewConsistent' /\ AbstractStep
  <1>1. ASSUME NEW k \in Keys, NEW type \in DeltaTypes, Mutate(k, type) PROVE Goal
    <2>1. CV!Write
      <3>1. /\ Len(hist') = Len(hist) + 1
            /\ \A r \in 1..Len(hist) : hist'[r] = hist[r]
        BY <1>1, WriteFacts DEF IInv
      <3> QED BY <1>1, <3>1 DEF CV!Write, Mutate, clientVars
    <2> QED BY <1>1, <2>1, MutateInv DEF AbstractStep
  <1>2. CASE Compact
    <2>1. UNCHANGED <<hist, serverVars, wire, clientVars>>
      BY <1>2 DEF Compact
    <2> QED BY <2>1, SameHistory, SameView
        DEF IInv, ConnectionOK, PipelineOK, FreshStartOK, RV, AbstractStep, serverVars, clientVars
  <1>3. CASE Resume
    <2>1. /\ loop = "top" /\ resumeFrom # 0 /\ loop' = "open"
          /\ watchRV' = resumeFrom /\ resumeFrom' = 0
          /\ UNCHANGED <<hist, ch, wire, es, lastId, view, shown>>
      BY <1>3 DEF Resume, apiVars, clientVars
    <2>2. ch = <<>> /\ wire = <<>> /\ resumeFrom = lastId
      BY <2>1 DEF IInv, PipelineOK
    <2>3. watchRV' \in 1..Len(hist)
      BY <2>1, <2>2, PipeFacts
    <2>4. ConnectionOK'
      BY <2>1 DEF IInv, ConnectionOK
    <2>5. PipelineOK'
      BY <2>1, <2>2, <2>3, ChainEmpty DEF IInv, PipelineOK, RV
    <2>6. FreshStartOK' /\ AbstractStep
      BY <2>1 DEF IInv, FreshStartOK, AbstractStep
    <2> QED BY <2>1, <2>4, <2>5, <2>6, SameHistory, SameView DEF IInv
  <1>4. CASE ListFresh
    <2> DEFINE e == Snapshot(hist, Len(hist))
    <2>1. /\ loop = "top" /\ resumeFrom = 0 /\ resumeFrom' = 0 /\ watchRV' = Len(hist)
          /\ Send(e, "open") /\ UNCHANGED <<hist, wire, es, lastId, view, shown>>
      BY <1>4 DEF ListFresh, RV, apiVars, clientVars
    <2>2. Len(hist) \in 1..Len(hist)
      BY PipeFacts
    <2>3. /\ e \in Events /\ e.type \notin Goodbyes /\ e.at = Len(hist)
          /\ Follows(hist, End(End(lastId, wire), ch), e)
      <3>1. e \in Events
        BY <2>2, EventsTyped DEF IInv, RV
      <3>2. e.at = Len(hist) /\ e.type = "snapshot" /\ e = Snapshot(hist, e.at)
        BY DEF Snapshot
      <3>3. Follows(hist, End(End(lastId, wire), ch), e)
        BY <2>2, <3>2, PipeFacts DEF Follows
      <3> QED BY <3>1, <3>2, <3>3 DEF Goodbyes
    <2> HIDE DEF e
    <2>4. e.at >= shown
      BY <2>3, PipeFacts
    <2>5. /\ ConnectionOK'
          /\ Chain(hist', lastId', wire') /\ Chain(hist', End(lastId', wire'), ch')
          /\ loop' = "open" => End(End(lastId', wire'), ch') = e.at
          /\ loop' \in {"open", "done"}
          /\ FreshStartOK'
      BY <2>1, <2>3, <2>4, SendInv
    <2>6. PipelineOK'
      BY <2>1, <2>2, <2>3, <2>5 DEF PipelineOK, RV
    <2> QED BY <2>1, <2>5, <2>6, SameHistory, SameView DEF IInv, AbstractStep
  <1>5. CASE LoopFails
    <2>1. loop # "none" /\ loop' = "done" /\ UNCHANGED <<hist, resumeFrom, watchRV, ch, wire, es, lastId, view, shown>>
      BY <1>5 DEF LoopFails, apiVars, clientVars
    <2> QED BY <2>1, SameHistory, SameView
        DEF IInv, ConnectionOK, PipelineOK, FreshStartOK, AbstractStep
  <1>6. CASE OpenWatch
    <2>1. /\ loop = "open" /\ loop' \in {"drain", "top"}
          /\ UNCHANGED <<hist, resumeFrom, watchRV, ch, wire, es, lastId, view, shown>>
      BY <1>6 DEF OpenWatch, apiVars, clientVars
    <2>2. resumeFrom = 0
      BY <2>1 DEF IInv, PipelineOK
    <2>3. PipelineOK'
      BY <2>1, <2>2 DEF IInv, PipelineOK, RV
    <2> QED BY <2>1, <2>3, SameHistory, SameView DEF IInv, ConnectionOK, FreshStartOK, AbstractStep
  <1>7. CASE DrainEvent
    <2> DEFINE e == Delta(hist, watchRV + 1)
    <2>1. /\ loop = "drain" /\ watchRV < Len(hist) /\ watchRV' = watchRV + 1 /\ resumeFrom' = resumeFrom
          /\ Send(e, "drain") /\ UNCHANGED <<hist, wire, es, lastId, view, shown>>
      BY <1>7 DEF DrainEvent, RV, apiVars, clientVars
    <2>2. /\ resumeFrom = 0 /\ watchRV \in 1..Len(hist) /\ watchRV = End(End(lastId, wire), ch)
      BY <2>1 DEF IInv, PipelineOK, RV
    <2>3. watchRV \in 1..(Len(hist) - 1) /\ watchRV + 1 \in 1..Len(hist)
      BY <2>1, <2>2, PipeFacts
    <2>4. /\ e \in Events /\ e.type \in DeltaTypes /\ e.at = watchRV + 1
          /\ Follows(hist, End(End(lastId, wire), ch), e)
      <3>1. e \in Events
        BY <2>3, EventsTyped DEF IInv, RV
      <3>2. e.at = watchRV + 1 /\ e = Delta(hist, e.at)
        BY DEF Delta
      <3>3. e.type \in DeltaTypes
        BY <2>3, ApplyDeltaCorrect DEF IInv
      <3>4. Follows(hist, End(End(lastId, wire), ch), e)
        BY <2>1, <2>2, <3>2 DEF Follows
      <3> QED BY <3>1, <3>2, <3>3, <3>4
    <2> HIDE DEF e
    <2>5. e.type \notin Goodbyes /\ e.type # "snapshot"
      BY <2>4 DEF DeltaTypes, Goodbyes
    <2>6. /\ ConnectionOK'
          /\ Chain(hist', lastId', wire') /\ Chain(hist', End(lastId', wire'), ch')
          /\ loop' = "drain" => End(End(lastId', wire'), ch') = e.at
          /\ loop' \in {"drain", "done"}
          /\ FreshStartOK'
      BY <2>1, <2>4, <2>5, SendInv
    <2>7. PipelineOK'
      BY <2>1, <2>2, <2>3, <2>4, <2>6 DEF PipelineOK, RV
    <2> QED BY <2>1, <2>6, <2>7, SameHistory, SameView DEF IInv, AbstractStep
  <1>8. CASE DrainGone
    <2> DEFINE e == Relist(watchRV)
    <2>1. /\ loop = "drain" /\ watchRV' = watchRV /\ resumeFrom' = resumeFrom
          /\ Send(e, "top") /\ UNCHANGED <<hist, wire, es, lastId, view, shown>>
      BY <1>8 DEF DrainGone, apiVars, clientVars
    <2>2. /\ resumeFrom = 0 /\ watchRV \in 1..Len(hist) /\ watchRV = End(End(lastId, wire), ch)
      BY <2>1 DEF IInv, PipelineOK, RV
    <2>3. /\ e \in Events /\ e.type \notin Goodbyes /\ e.type # "snapshot"
          /\ Follows(hist, End(End(lastId, wire), ch), e)
      <3>1. e \in Events
        BY <2>2, EventsTyped DEF IInv, RV
      <3>2. e.type = "relist"
        BY DEF Relist
      <3> QED BY <2>2, <3>1, <3>2 DEF Follows, Goodbyes
    <2> HIDE DEF e
    <2>4. /\ ConnectionOK'
          /\ Chain(hist', lastId', wire') /\ Chain(hist', End(lastId', wire'), ch')
          /\ loop' \in {"top", "done"}
          /\ FreshStartOK'
      BY <2>1, <2>3, SendInv
    <2>5. PipelineOK'
      BY <2>1, <2>2, <2>4 DEF PipelineOK
    <2> QED BY <2>1, <2>4, <2>5, SameHistory, SameView DEF IInv, AbstractStep
  <1>9. CASE DrainClosed
    <2>1. /\ loop = "drain" /\ loop' = "top"
          /\ UNCHANGED <<hist, resumeFrom, watchRV, ch, wire, es, lastId, view, shown>>
      BY <1>9 DEF DrainClosed, apiVars, clientVars
    <2>2. PipelineOK'
      BY <2>1 DEF IInv, PipelineOK, RV
    <2> QED BY <2>1, <2>2, SameHistory, SameView DEF IInv, ConnectionOK, FreshStartOK, AbstractStep
  <1>10. CASE Emit
    <2>1. UNCHANGED <<hist, shown, view>>
      BY <1>10 DEF Emit, apiVars, clientVars
    <2> QED BY <1>10, <2>1, EmitInv DEF AbstractStep
  <1>11. CASE ChannelClosed
    <2> DEFINE w == CASE streamErr              -> Append(wire, Goodbye("error"))
                      [] overflow /\ ~streamErr -> Append(wire, Goodbye("backpressure"))
                      [] OTHER                  -> wire
    <2>1. HandlerReturns(w) /\ loop = "done" /\ Room
      BY <1>11 DEF ChannelClosed
    <2>2. w \in {wire, Append(wire, Goodbye("error")), Append(wire, Goodbye("backpressure"))}
      OBVIOUS
    <2>3. w \in Seq(Events) /\ (w = wire \/ \E t \in Goodbyes : w = Append(wire, Goodbye(t)))
      BY <2>1, <2>2, GoodbyeTyped DEF IInv, TypeOK, Goodbyes
    <2> HIDE DEF w
    <2>4. UNCHANGED <<hist, shown, view>>
      BY <2>1 DEF HandlerReturns, apiVars
    <2> QED BY <2>1, <2>3, <2>4, ReturnInv DEF AbstractStep
  <1>12. ASSUME NEW t \in Goodbyes, HandlerStops(t) PROVE Goal
    <2> DEFINE w == Append(wire, Goodbye(t))
    <2>1. HandlerReturns(w) /\ loop # "none" /\ Room
      BY <1>12 DEF HandlerStops, Serving
    <2>2. w \in Seq(Events)
      BY <2>1, GoodbyeTyped DEF IInv
    <2>3. UNCHANGED <<hist, shown, view>>
      BY <2>1 DEF HandlerReturns, apiVars
    <2> QED BY <2>1, <2>2, <2>3, ReturnInv DEF AbstractStep
  <1>13. CASE Connect
    <2>1. /\ es = "connecting" /\ es' = "open" /\ loop' = "top" /\ resumeFrom' = lastId
          /\ UNCHANGED <<hist, ch, wire, lastId, view, shown>>
      BY <1>13 DEF Connect, apiVars
    <2>2. loop = "none" /\ ch = <<>> /\ wire = <<>>
      BY <2>1 DEF IInv, TypeOK, ConnectionOK
    <2>3. ConnectionOK'
      BY <2>1, <2>2, NoEvents DEF ConnectionOK
    <2>4. PipelineOK'
      BY <2>1, <2>2, ChainEmpty DEF PipelineOK
    <2>5. FreshStartOK' /\ AbstractStep
      BY <2>1, <2>2 DEF FreshStartOK, AbstractStep
    <2> QED BY <2>1, <2>3, <2>4, <2>5, SameHistory, SameView DEF IInv
  <1>14. CASE Reject \/ Eof
    <2>1. /\ es \in {"connecting", "ended"} /\ es' \in {"closed", "connecting"} /\ wire' = wire
          /\ (es = "ended" => wire = <<>>)
          /\ UNCHANGED <<hist, loop, resumeFrom, watchRV, ch, lastId, view, shown>>
      BY <1>14 DEF Reject, Eof, apiVars, serverVars
    <2>2. wire = <<>> /\ loop = "none" /\ ch = <<>>
      BY <2>1 DEF IInv, ConnectionOK, TypeOK
    <2>3. ConnectionOK'
      BY <2>1, <2>2, NoEvents DEF ConnectionOK
    <2>4. PipelineOK'
      BY <2>1, <2>2, ChainEmpty DEF PipelineOK
    <2>5. FreshStartOK' /\ AbstractStep
      BY <2>1, <2>2 DEF FreshStartOK, AbstractStep
    <2> QED BY <2>1, <2>3, <2>4, <2>5, SameHistory, SameView DEF IInv
  <1>15. CASE Deliver
    <2>1. hist' = hist
      BY <1>15 DEF Deliver, apiVars
    <2>2. AbstractStep
      BY <1>15, <2>1, DeliverInv DEF AbstractStep, CV!Advance
    <2> QED BY <1>15, <2>2, DeliverInv
  <1>16. CASE Drop \/ Close
    <2>1. /\ ServerForgets /\ wire' = <<>> /\ es' \in {"connecting", "closed"}
          /\ UNCHANGED <<hist, lastId, view, shown>>
      BY <1>16 DEF Drop, Close, apiVars
    <2> QED BY <2>1, ForgetInv DEF AbstractStep
  <1>17. CASE Reopen
    <2>1. /\ es = "closed" /\ es' = "connecting" /\ lastId' = 0
          /\ UNCHANGED <<hist, loop, resumeFrom, watchRV, ch, wire, view, shown>>
      BY <1>17 DEF Reopen, apiVars, serverVars
    <2>2. wire = <<>> /\ loop = "none" /\ ch = <<>>
      BY <2>1 DEF IInv, ConnectionOK, TypeOK
    <2>3. ConnectionOK'
      BY <2>1, <2>2, NoEvents DEF ConnectionOK
    <2>4. PipelineOK'
      BY <2>1, <2>2, ChainEmpty DEF PipelineOK
    <2>5. FreshStartOK' /\ AbstractStep
      BY <2>1, <2>2 DEF FreshStartOK, AbstractStep
    <2>6. ViewConsistent'
      BY <2>1 DEF IInv, ViewConsistent, RV
    <2> QED BY <2>1, <2>3, <2>4, <2>5, <2>6, SameHistory DEF IInv
  <1>18. CASE UNCHANGED vars
    <2>1. UNCHANGED <<hist, loop, resumeFrom, watchRV, ch, wire, es, lastId, view, shown>>
      BY <1>18 DEF vars, apiVars, serverVars, clientVars
    <2> QED BY <2>1, SameHistory, SameView
        DEF IInv, ConnectionOK, PipelineOK, FreshStartOK, RV, AbstractStep
  <1> QED
    BY <1>1, <1>2, <1>3, <1>4, <1>5, <1>6, <1>7, <1>8, <1>9, <1>10, <1>11, <1>12, <1>13,
       <1>14, <1>15, <1>16, <1>17, <1>18
    DEF Next, LoopStep, HandlerStep, BrowserStep, Goodbyes

-----------------------------------------------------------------------------
(* Every reachable state is type correct: no queue outgrows its capacity,   *)
(* every event carries a version, for every collection and every bound.     *)
THEOREM TypeCorrect == Spec => []TypeOK
  <1>1. Init => TypeOK
    BY InitType
  <1>2. TypeOK /\ [Next]_vars => TypeOK'
    BY TypeStep
  <1> QED BY <1>1, <1>2, PTL DEF Spec

(* The inductive invariant: the pipeline from the apiserver's watch to the  *)
(* browser is contiguous from the browser's last event id, across resumes,  *)
(* relists, overflows and reconnects.                                       *)
THEOREM Invariance == Spec => []IInv
  <1>1. Init => IInv
    BY InitInv
  <1>2. IInv /\ [Next]_vars => IInv'
    BY InvStep
  <1> QED BY <1>1, <1>2, PTL DEF Spec

(* What the browser shows is the collection at the version of its last id.  *)
THEOREM Consistency == Spec => []ViewConsistent
  <1>1. IInv => ViewConsistent
    BY DEF IInv
  <1> QED BY <1>1, Invariance, PTL

(* The stream implements CollectionView. *)
THEOREM Refinement == Spec => ShowsCollection
  <1>1. Init => CV!Init
    BY DEF Init, CV!Init
  <1>2. IInv /\ [Next]_vars => [CV!Write \/ CV!Advance]_<<hist, shown, view>>
    BY InvStep DEF AbstractStep
  <1> QED BY <1>1, <1>2, Invariance, PTL DEF Spec, ShowsCollection, CV!Spec

-----------------------------------------------------------------------------
(* Relist, then Snapshot.                                                  *)

\* In s no relist is followed by anything but a snapshot or the end of the stream,
\* and e may come after s.
Renews(e) == e.type \in {"snapshot"} \cup Goodbyes
InOrder(s) == \A i \in 1..(Len(s) - 1) : s[i].type = "relist" => Renews(s[i + 1])
EndsInRelist(s) == s # <<>> /\ s[Len(s)].type = "relist"

(* One event more. *)
LEMMA InOrderAppend ==
    ASSUME NEW s \in Seq(Events), NEW e \in Events, InOrder(s), EndsInRelist(s) => Renews(e)
    PROVE  /\ InOrder(Append(s, e))
           /\ EndsInRelist(Append(s, e)) => e.type = "relist"
  <1> DEFINE t == Append(s, e)
  <1>1. /\ t \in Seq(Events) /\ Len(t) = Len(s) + 1 /\ Len(s) \in Nat
        /\ \A i \in 1..Len(s) : t[i] = s[i]
        /\ t[Len(s) + 1] = e
    BY AppendFacts, EmptyFacts
  <1> HIDE DEF t
  <1>2. Len(s) # 0 => s # <<>>
    BY EmptyFacts
  <1>3. ASSUME NEW i \in 1..(Len(t) - 1), t[i].type = "relist" PROVE Renews(t[i + 1])
    <2>1. CASE i = Len(s)
      BY <1>1, <1>2, <1>3, <2>1 DEF EndsInRelist
    <2>2. CASE i # Len(s)
      BY <1>1, <1>3, <2>2 DEF InOrder
    <2> QED BY <2>1, <2>2
  <1>4. EndsInRelist(t) => e.type = "relist"
    BY <1>1 DEF EndsInRelist
  <1> QED BY <1>3, <1>4 DEF InOrder, t

(* One event less. *)
LEMMA InOrderTail ==
    ASSUME NEW s \in Seq(Events), s # <<>>, InOrder(s)
    PROVE  InOrder(Tail(s)) /\ (EndsInRelist(Tail(s)) => EndsInRelist(s))
  <1>1. /\ Tail(s) \in Seq(Events) /\ Len(s) \in Nat \ {0} /\ Len(Tail(s)) = Len(s) - 1
        /\ \A i \in 1..(Len(s) - 1) : Tail(s)[i] = s[i + 1]
        /\ Tail(s) = <<>> <=> Len(s) = 1
    BY TailFacts, EmptyFacts
  <1>2. InOrder(Tail(s))
    BY <1>1 DEF InOrder
  <1>3. EndsInRelist(Tail(s)) => EndsInRelist(s)
    BY <1>1 DEF EndsInRelist
  <1> QED BY <1>2, <1>3

(* What the stages of the pipeline hold together. *)
LEMMA PipeShape ==
    ASSUME NEW w \in Seq(Events), NEW c \in Seq(Events)
    PROVE  /\ w \o c \in Seq(Events) /\ w \o <<>> = w /\ <<>> \o c = c
           /\ Len(w \o c) = Len(w) + Len(c)
           /\ \A i \in 1..Len(w) : (w \o c)[i] = w[i]
           /\ \A i \in 1..Len(c) : (w \o c)[Len(w) + i] = c[i]
  OBVIOUS

(* Sending, writing and reading move events along. *)
LEMMA PipeMoves ==
    ASSUME NEW w \in Seq(Events), NEW c \in Seq(Events)
    PROVE  /\ \A e \in Events : w \o Append(c, e) = Append(w \o c, e)
           /\ c # <<>> => Append(w, Head(c)) \o Tail(c) = w \o c
           /\ w # <<>> => Tail(w) \o c = Tail(w \o c) /\ w \o c # <<>>
  <1>1. ASSUME NEW e \in Events PROVE w \o Append(c, e) = Append(w \o c, e)
    OBVIOUS
  <1>2. ASSUME c # <<>> PROVE Append(w, Head(c)) \o Tail(c) = w \o c
    BY <1>2
  <1>3. ASSUME w # <<>> PROVE Tail(w) \o c = Tail(w \o c) /\ w \o c # <<>>
    BY <1>3
  <1> QED BY <1>1, <1>2, <1>3

(* What is on the wire is in order. *)
LEMMA InOrderPrefix ==
    ASSUME NEW w \in Seq(Events), NEW c \in Seq(Events), InOrder(w \o c)
    PROVE  InOrder(w)
  <1>1. Len(w \o c) = Len(w) + Len(c) /\ Len(w) \in Nat /\ Len(c) \in Nat
    BY PipeShape, EmptyFacts
  <1>2. \A i \in 1..Len(w) : (w \o c)[i] = w[i]
    BY PipeShape
  <1> QED BY <1>1, <1>2 DEF InOrder

(* Behind RelistThenSnapshot: while a relist is the last event on its way,   *)
(* the loop is about to list, or the stream is over.                         *)
RelistOK ==
    EndsInRelist(wire \o ch) =>
        loop \in {"none", "done"} \/ (loop = "top" /\ resumeFrom = 0)
RelistInv == InOrder(wire \o ch) /\ RelistOK

(* Nothing on its way. *)
LEMMA RelistEmpty ==
    ASSUME wire = <<>>, ch = <<>>
    PROVE  RelistInv
  <1>1. wire \o ch = <<>> /\ Len(<<>>) = 0
    BY NoEvents, PipeShape
  <1> QED BY <1>1 DEF RelistInv, RelistOK, InOrder, EndsInRelist

(* A loop that is past the end of its pipeline sends e, or the channel is full. *)
LEMMA RelistSend ==
    ASSUME TypeOK, RelistInv, NEW e \in Events, NEW next, Send(e, next),
           UNCHANGED wire, EndsInRelist(wire \o ch) => Renews(e),
           e.type = "relist" => next = "top" /\ resumeFrom' = 0
    PROVE  RelistInv'
  <1>1. wire \in Seq(Events) /\ ch \in Seq(Events) /\ wire \o ch \in Seq(Events)
    BY PipeShape DEF TypeOK
  <1>2. CASE ch' = Append(ch, e) /\ loop' = next
    <2>1. wire' \o ch' = Append(wire \o ch, e)
      BY <1>1, <1>2, PipeMoves
    <2>2. InOrder(wire' \o ch') /\ (EndsInRelist(wire' \o ch') => e.type = "relist")
      BY <1>1, <2>1, InOrderAppend DEF RelistInv
    <2> QED BY <1>2, <2>2 DEF RelistInv, RelistOK, EndsInRelist
  <1>3. CASE ch' = ch /\ loop' = "done"
    BY <1>3 DEF RelistInv, RelistOK
  <1> QED BY <1>2, <1>3 DEF Send

(* The handler returns: what it did not write is gone. *)
LEMMA RelistReturn ==
    ASSUME TypeOK, RelistInv, NEW w \in Seq(Events), HandlerReturns(w),
           \/ w = wire
           \/ \E t \in Goodbyes : w = Append(wire, Goodbye(t))
    PROVE  RelistInv'
  <1>1. wire \in Seq(Events) /\ ch \in Seq(Events) /\ InOrder(wire)
    BY InOrderPrefix DEF TypeOK, RelistInv
  <1>2. wire' \o ch' = w /\ loop' = "none"
    BY PipeShape DEF HandlerReturns, ServerForgets
  <1>3. InOrder(w)
    <2>1. CASE w = wire
      BY <1>1, <2>1
    <2>2. ASSUME NEW t \in Goodbyes, w = Append(wire, Goodbye(t)) PROVE InOrder(w)
      <3>1. Goodbye(t) \in Events /\ Renews(Goodbye(t))
        BY DEF Goodbye, Events, Goodbyes, Renews
      <3> QED BY <1>1, <2>2, <3>1, InOrderAppend
    <2> QED BY <2>1, <2>2
  <1> QED BY <1>2, <1>3 DEF RelistInv, RelistOK

(* Every step keeps it: only DrainGone sends a relist, and it leaves the    *)
(* loop where the next thing it sends is a snapshot.                        *)
LEMMA RelistStep ==
    ASSUME IInv, RelistInv, [Next]_vars
    PROVE  RelistInv'
  <1>0. TypeOK /\ wire \in Seq(Events) /\ ch \in Seq(Events) /\ wire \o ch \in Seq(Events)
    BY PipeShape DEF IInv, TypeOK
  <1>1. ASSUME UNCHANGED <<wire, ch, loop, resumeFrom>> PROVE RelistInv'
    BY <1>1 DEF RelistInv, RelistOK
  <1>2. ASSUME ServerForgets, wire' = <<>> PROVE RelistInv'
    <2>1. wire' = <<>> /\ ch' = <<>>
      BY <1>2 DEF ServerForgets
    <2> QED BY <2>1, RelistEmpty DEF RelistInv, RelistOK, EndsInRelist, InOrder, Renews
  <1>3. CASE Resume
    <2>1. wire = <<>> /\ ch = <<>> /\ UNCHANGED <<wire, ch>>
      BY <1>3 DEF IInv, PipelineOK, Resume
    <2>2. wire' \o ch' = <<>> /\ Len(<<>>) = 0
      BY <2>1, NoEvents, PipeShape
    <2> QED BY <2>2 DEF RelistInv, RelistOK, InOrder, EndsInRelist
  <1>4. CASE ListFresh
    <2>1. Snapshot(hist, RV) \in Events /\ Renews(Snapshot(hist, RV))
          /\ Snapshot(hist, RV).type # "relist"
      BY PipeFacts, EventsTyped DEF IInv, RV, Snapshot, Renews
    <2>2. Send(Snapshot(hist, RV), "open") /\ UNCHANGED wire
      BY <1>4 DEF ListFresh
    <2> QED BY <1>0, <2>1, <2>2, RelistSend
  <1>5. CASE LoopFails \/ DrainClosed \/ OpenWatch
    <2>1. UNCHANGED <<wire, ch, resumeFrom>> /\ loop' \in {"top", "done", "drain"}
      BY <1>5 DEF LoopFails, DrainClosed, OpenWatch
    <2>2. EndsInRelist(wire \o ch) => loop' \in {"none", "done"} \/ (loop' = "top" /\ resumeFrom' = 0)
      BY <1>5, <2>1 DEF RelistInv, RelistOK, EndsInRelist, LoopFails, DrainClosed, OpenWatch
    <2> QED BY <2>1, <2>2 DEF RelistInv, RelistOK, EndsInRelist
  <1>6. CASE DrainEvent
    <2> DEFINE e == Delta(hist, watchRV + 1)
    <2>1. e \in Events /\ e.type # "relist"
      <3>1. watchRV \in 1..RV /\ watchRV < RV
        BY <1>6 DEF IInv, PipelineOK, DrainEvent
      <3>2. watchRV + 1 \in 2..Len(hist) /\ watchRV + 1 \in 1..Len(hist)
        BY <3>1, PipeFacts DEF RV
      <3>3. hist[watchRV + 1].type \in DeltaTypes
        BY <3>2 DEF IInv, HistoryOK, RV
      <3>4. e \in Events
        BY <3>2, EventsTyped DEF IInv, RV
      <3>5. e.type = hist[watchRV + 1].type
        BY DEF Delta
      <3> QED BY <3>3, <3>4, <3>5 DEF DeltaTypes
    <2>2. Send(e, "drain") /\ UNCHANGED wire /\ loop = "drain"
      BY <1>6 DEF DrainEvent
    <2>3. ~EndsInRelist(wire \o ch)
      BY <2>2 DEF RelistInv, RelistOK, EndsInRelist
    <2> HIDE DEF e
    <2> QED BY <1>0, <2>1, <2>2, <2>3, RelistSend
  <1>7. CASE DrainGone
    <2>1. /\ Send(Relist(watchRV), "top") /\ UNCHANGED <<wire, resumeFrom>>
          /\ loop = "drain" /\ resumeFrom = 0
      BY <1>7 DEF IInv, PipelineOK, DrainGone
    <2>2. ~EndsInRelist(wire \o ch)
      BY <2>1 DEF RelistInv, RelistOK, EndsInRelist
    <2>3. Relist(watchRV) \in Events
      BY DEF IInv, TypeOK, Relist, Events
    <2> QED BY <1>0, <2>1, <2>2, <2>3, RelistSend
  <1>8. CASE Emit
    <2>1. wire' \o ch' = wire \o ch
      BY <1>0, <1>8, PipeMoves DEF Emit
    <2> QED BY <1>8, <2>1 DEF Emit, RelistInv, RelistOK
  <1>9. CASE ChannelClosed
    <2> DEFINE w == CASE streamErr              -> Append(wire, Goodbye("error"))
                      [] overflow /\ ~streamErr -> Append(wire, Goodbye("backpressure"))
                      [] OTHER                  -> wire
    <2>1. \/ w = wire
          \/ \E t \in Goodbyes : w = Append(wire, Goodbye(t))
      BY DEF Goodbyes
    <2>2. w \in Seq(Events)
      <3>1. \A t \in Goodbyes : Goodbye(t) \in Events
        BY DEF Goodbye, Events
      <3> HIDE DEF w
      <3> QED BY <1>0, <2>1, <3>1, AppendFacts
    <2>3. HandlerReturns(w)
      BY <1>9 DEF ChannelClosed
    <2> HIDE DEF w
    <2> QED BY <1>0, <2>1, <2>2, <2>3, RelistReturn
  <1>10. ASSUME NEW t \in Goodbyes, HandlerStops(t) PROVE RelistInv'
    <2>1. Goodbye(t) \in Events
      BY DEF Goodbye, Events
    <2>2. Append(wire, Goodbye(t)) \in Seq(Events)
      BY <1>0, <2>1, AppendFacts
    <2>3. HandlerReturns(Append(wire, Goodbye(t)))
      BY <1>10 DEF HandlerStops
    <2> QED BY <1>0, <2>2, <2>3, RelistReturn
  <1>11. CASE Connect
    <2>1. wire = <<>> /\ ch = <<>> /\ UNCHANGED <<wire, ch>>
      BY <1>11 DEF IInv, ConnectionOK, Connect
    <2>2. wire' \o ch' = <<>> /\ Len(<<>>) = 0
      BY <2>1, NoEvents, PipeShape
    <2> QED BY <2>2 DEF RelistInv, RelistOK, InOrder, EndsInRelist
  <1>12. CASE Deliver
    <2>1. wire # <<>> /\ UNCHANGED <<ch, loop, resumeFrom>>
      BY <1>12 DEF Deliver, serverVars
    <2>2. CASE wire' = Tail(wire)
      <3>1. wire' \o ch' = Tail(wire \o ch) /\ wire \o ch # <<>>
        BY <1>0, <2>1, <2>2, PipeMoves
      <3>2. InOrder(wire' \o ch') /\ (EndsInRelist(wire' \o ch') => EndsInRelist(wire \o ch))
        BY <1>0, <3>1, InOrderTail DEF RelistInv
      <3> QED BY <2>1, <3>2 DEF RelistInv, RelistOK, EndsInRelist
    <2>3. CASE wire' = <<>> /\ Head(wire).type = "auth_expired"
      <3>1. ch = <<>>
        <4>1. Head(wire) = wire[1] /\ 1 \in 1..Len(wire)
          BY <1>0, <2>1, TailFacts, EmptyFacts
        <4>2. loop = "none"
          BY <2>3, <4>1 DEF IInv, ConnectionOK, Goodbyes
        <4> QED BY <4>2 DEF IInv, ConnectionOK
      <3>2. wire' \o ch' = <<>> /\ Len(<<>>) = 0
        BY <2>1, <2>3, <3>1, NoEvents, PipeShape
      <3> QED BY <3>2 DEF RelistInv, RelistOK, InOrder, EndsInRelist
    <2> QED BY <1>12, <2>2, <2>3 DEF Deliver
  <1>13. CASE Drop \/ Close
    BY <1>2, <1>13 DEF Drop, Close
  <1>14. CASE Compact \/ Eof \/ Reject \/ Reopen \/ UNCHANGED vars
    BY <1>1, <1>14 DEF Compact, Eof, Reject, Reopen, vars, serverVars
  <1>15. ASSUME NEW k \in Keys, NEW type \in DeltaTypes, Mutate(k, type) PROVE RelistInv'
    BY <1>1, <1>15 DEF Mutate, serverVars
  <1>16. "server_shutdown" \in Goodbyes /\ "auth_expired" \in Goodbyes
    BY DEF Goodbyes
  <1> QED
    BY <1>3, <1>4, <1>5, <1>6, <1>7, <1>8, <1>9, <1>10, <1>11, <1>12, <1>13, <1>14, <1>15,
      <1>16 DEF Next, LoopStep, HandlerStep, BrowserStep

(* A relist on its way is followed by a snapshot or by the end of the       *)
(* stream, never by a delta on the abandoned base (watchKind and            *)
(* drainWatcher after a 410, with a full channel or an error in between).   *)
THEOREM RelistRenews == Spec => []RelistThenSnapshot
  <1>1. Init => RelistInv
    BY RelistEmpty DEF Init
  <1>2. IInv /\ RelistInv /\ [Next]_vars => RelistInv'
    BY RelistStep
  <1>3. RelistInv => RelistThenSnapshot
    BY DEF RelistInv, RelistThenSnapshot, InOrder, Renews
  <1> QED BY <1>1, <1>2, <1>3, Invariance, PTL DEF Spec
-----------------------------------------------------------------------------
(* The browser's hook.  First: what a buffer of deltas does to a list.     *)

(* A delta on rows makes rows. *)
LEMMA ApplyTyped ==
    ASSUME NEW rows \in Rows, NEW e \in Deltas
    PROVE  ApplyDelta(rows, e) \in Rows
  BY DEF ApplyDelta, Rows, Deltas, DeltaTypes, Events, Writes, Goodbyes

(* f is the list after each of the first n of the deltas d. *)
IsRun(f, list, d, n) ==
    /\ f \in [0..n -> Rows]
    /\ f[0] = list
    /\ \A i \in 1..n : f[i] = ApplyDelta(f[i - 1], d[i])

(* Induction, as the least counterexample. *)
LEMMA LeastNat ==
    ASSUME NEW T, T \subseteq Nat, T # {}
    PROVE  \E n \in T : \A m \in T : n <= m
  <1>1. IsWellFoundedOn(OpToRel(<, Nat), Nat)
    BY NatLessThanWellFounded
  <1>2. \A m, n \in Nat : m < n => <<m, n>> \in OpToRel(<, Nat)
    BY Zenon DEF OpToRel
  <1>3. \E n \in T : \A m \in T : ~(<<m, n>> \in OpToRel(<, Nat))
    BY <1>1, WFMin, Zenon
  <1>4. PICK n \in T : \A m \in T : ~(m < n)
    BY <1>2, <1>3, Zenon
  <1> QED BY <1>4

(* There is such a run, and AfterEach is one. *)
LEMMA RunExists ==
    ASSUME NEW list \in Rows, NEW d \in Seq(Deltas)
    PROVE  \A n \in 0..Len(d) : \E f : IsRun(f, list, d, n)
  <1> DEFINE Bad == {n \in 0..Len(d) : ~(\E f : IsRun(f, list, d, n))}
  <1>1. SUFFICES ASSUME Bad # {} PROVE FALSE
    OBVIOUS
  <1>2. PICK n \in Bad : \A m \in Bad : n <= m
    <2>1. Bad \subseteq Nat
      OBVIOUS
    <2> QED BY <1>1, <2>1, LeastNat, Zenon
  <1>3. n # 0
    <2>1. IsRun([i \in 0..0 |-> list], list, d, 0)
      BY DEF IsRun
    <2> QED BY <2>1, <1>2
  <1>4. n - 1 \in 0..Len(d) /\ n - 1 \notin Bad /\ n \in 1..Len(d)
    BY <1>2, <1>3
  <1>5. PICK f : IsRun(f, list, d, n - 1)
    BY <1>4
  <1> DEFINE g == [i \in 0..n |-> IF i = n THEN ApplyDelta(f[n - 1], d[n]) ELSE f[i]]
  <1>6. d[n] \in Deltas /\ f[n - 1] \in Rows
    BY <1>4, <1>5 DEF IsRun
  <1>7. ApplyDelta(f[n - 1], d[n]) \in Rows
    BY <1>6, ApplyTyped
  <1>8. g \in [0..n -> Rows] /\ g[0] = list
    BY <1>4, <1>5, <1>7 DEF IsRun
  <1>9. ASSUME NEW i \in 1..n PROVE g[i] = ApplyDelta(g[i - 1], d[i])
    BY <1>4, <1>5 DEF IsRun
  <1> QED BY <1>2, <1>8, <1>9 DEF IsRun

(* The recursive definition has a solution, and it is the run. *)
LEMMA AfterEachRuns ==
    ASSUME NEW list \in Rows, NEW d \in Seq(Deltas)
    PROVE  IsRun(AfterEach(list, d), list, d, Len(d))
  <1> DEFINE Def(f) == f = [i \in 0..Len(d) |-> IF i = 0 THEN list ELSE ApplyDelta(f[i - 1], d[i])]
  <1>1. PICK f : IsRun(f, list, d, Len(d))
    BY RunExists
  <1>2. Def(f)
    BY <1>1 DEF IsRun
  <1>3. AfterEach(list, d) = CHOOSE rows : Def(rows)
    BY DEF AfterEach
  <1>4. Def(AfterEach(list, d))
    BY <1>2, <1>3
  <1> DEFINE g == AfterEach(list, d)
  <1> HIDE DEF g
  <1>5. g = [i \in 0..Len(d) |-> IF i = 0 THEN list ELSE ApplyDelta(g[i - 1], d[i])]
    BY <1>4 DEF g
  <1>6. Len(d) \in Nat
    OBVIOUS
  <1>7. g[0] = list /\ \A i \in 1..Len(d) : g[i] = ApplyDelta(g[i - 1], d[i])
    BY <1>5, <1>6
  <1>8. \A n \in 0..Len(d) : g[n] = f[n]
    <2> DEFINE Bad == {n \in 0..Len(d) : g[n] # f[n]}
    <2>1. SUFFICES ASSUME Bad # {} PROVE FALSE
      OBVIOUS
    <2>2. PICK n \in Bad : \A m \in Bad : n <= m
      <3>1. Bad \subseteq Nat
        OBVIOUS
      <3> QED BY <2>1, <3>1, LeastNat, Zenon
    <2>3. n # 0 /\ n \in 1..Len(d)
      BY <1>1, <1>7 DEF IsRun
    <2>4. n - 1 \notin Bad /\ n - 1 \in 0..Len(d)
      BY <2>2, <2>3
    <2> QED BY <1>1, <1>7, <2>2, <2>3, <2>4 DEF IsRun
  <1>9. g = f
    BY <1>1, <1>5, <1>8 DEF IsRun
  <1> QED BY <1>1, <1>9 DEF g

(* Two runs over the same deltas agree. *)
LEMMA RunsAgree ==
    ASSUME NEW list, NEW d, NEW n \in Nat, NEW f, NEW g, NEW k \in Nat, NEW c,
           IsRun(f, list, d, n), IsRun(g, list, c, k), n <= k,
           \A i \in 1..n : c[i] = d[i]
    PROVE  \A i \in 0..n : f[i] = g[i]
  <1> DEFINE Bad == {i \in 0..n : g[i] # f[i]}
  <1>1. SUFFICES ASSUME Bad # {} PROVE FALSE
    OBVIOUS
  <1>2. PICK i \in Bad : \A m \in Bad : i <= m
    <2>1. Bad \subseteq Nat
      OBVIOUS
    <2> QED BY <1>1, <2>1, LeastNat, Zenon
  <1>3. i # 0 /\ i \in 1..n
    BY <1>2 DEF IsRun
  <1>4. i - 1 \notin Bad /\ i - 1 \in 0..n
    BY <1>2, <1>3
  <1> QED BY <1>2, <1>3, <1>4 DEF IsRun

(* One delta more in the buffer is one more applied. *)
LEMMA ApplyOneMore ==
    ASSUME NEW list \in Rows, NEW d \in Seq(Deltas), NEW e \in Deltas, HaveList(list)
    PROVE  /\ ApplyDeltas(list, d) \in Rows
           /\ ApplyDeltas(list, Append(d, e)) = ApplyDelta(ApplyDeltas(list, d), e)
  <1> DEFINE c == Append(d, e)
  <1>1. c \in Seq(Deltas) /\ Len(c) = Len(d) + 1 /\ c[Len(d) + 1] = e
        /\ Len(d) \in Nat /\ \A i \in 1..Len(d) : c[i] = d[i]
    OBVIOUS
  <1> HIDE DEF c
  <1>2. IsRun(AfterEach(list, d), list, d, Len(d))
    BY AfterEachRuns
  <1>3. IsRun(AfterEach(list, c), list, c, Len(c))
    BY <1>1, AfterEachRuns
  <1>4. \A i \in 0..Len(d) : AfterEach(list, d)[i] = AfterEach(list, c)[i]
    BY <1>1, <1>2, <1>3, RunsAgree
  <1>5. AfterEach(list, c)[Len(c)] = ApplyDelta(AfterEach(list, c)[Len(d)], e)
    BY <1>1, <1>3 DEF IsRun
  <1>6. AfterEach(list, d)[Len(d)] \in Rows
    BY <1>1, <1>2 DEF IsRun
  <1> QED BY <1>1, <1>4, <1>5, <1>6 DEF ApplyDeltas, c

(* An empty buffer changes nothing. *)
LEMMA ApplyNone ==
    ASSUME NEW list \in Rows
    PROVE  ApplyDeltas(list, <<>>) = list
  <1>1. <<>> \in Seq(Deltas) /\ Len(<<>>) = 0
    OBVIOUS
  <1>2. IsRun(AfterEach(list, <<>>), list, <<>>, 0)
    BY <1>1, AfterEachRuns
  <1> QED BY <1>1, <1>2 DEF IsRun, ApplyDeltas
-----------------------------------------------------------------------------
(* The stream under the hook: es.close() and a remount end a connection     *)
(* like a lost one, the rest are steps of WatchStream.                      *)

(* A connection that is given up, with or without the last id. *)
LEMMA CutInv ==
    ASSUME IInv, ServerForgets, wire' = <<>>, es' \in {"connecting", "closed"},
           lastId' \in {lastId, 0}, UNCHANGED <<apiVars, view, shown>>,
           faults' = faults \/ Disrupt
    PROVE  IInv'
  <1>1. /\ loop' = "none" /\ resumeFrom' = 0 /\ watchRV' = 0 /\ ch' = <<>>
        /\ hist' = hist /\ compacted' = compacted
    BY DEF ServerForgets, apiVars
  <1>2. TypeOK'
    <2>1. lastId' \in Nat /\ faults' \in 0..MaxFaults
      BY StreamAssumption DEF IInv, TypeOK, Disrupt
    <2>2. ch' \in Seq(Events) /\ Len(ch') <= ChanCap /\ wire' \in Seq(Events) /\ Len(wire') <= WireCap
      BY <1>1, NoEvents, StreamAssumption
    <2> QED BY <1>1, <2>1, <2>2, ForgetsTyped DEF IInv, TypeOK
  <1>3. ConnectionOK'
    BY <1>1, NoEvents DEF ConnectionOK
  <1>4. PipelineOK'
    BY <1>1, ChainEmpty DEF PipelineOK
  <1>5. FreshStartOK'
    BY <1>1 DEF FreshStartOK
  <1>6. ViewConsistent'
    BY <1>1 DEF IInv, ViewConsistent, RV
  <1> QED BY <1>1, <1>2, <1>3, <1>4, <1>5, <1>6, SameHistory DEF IInv

(* Every step of the page keeps the stream's invariant. *)
LEMMA StreamStep ==
    ASSUME IInv, [BNext]_allVars
    PROVE  IInv' /\ AbstractStep
  <1>1. ASSUME Next \/ UNCHANGED vars PROVE IInv' /\ AbstractStep
    BY <1>1, InvStep
  <1>2. ASSUME EsClosed, lastId' = lastId, UNCHANGED <<apiVars, view, shown>>,
               faults' = faults \/ Disrupt
        PROVE  IInv' /\ AbstractStep
    BY <1>2, CutInv DEF EsClosed, AbstractStep, apiVars
  <1>3. CASE BehindTheScenes
    BY <1>1, <1>3 DEF BehindTheScenes, Next, BrowserStep
  <1>4. CASE HookStep
    <2>1. CASE Deliver
      BY <1>1, <2>1 DEF Next, BrowserStep
    <2>2. CASE ~Deliver
      <3>1. PICK counted \in BOOLEAN : OnServerError(counted)
        BY <1>4, <2>2 DEF HookStep, OnSnapshot, OnDelta, OnDegraded, OnAuthExpired
      <3> QED BY <1>2, <2>2, <3>1 DEF OnServerError
    <2> QED BY <2>1, <2>2
  <1>5. ASSUME NEW counted \in BOOLEAN, OnNativeError(counted) PROVE IInv' /\ AbstractStep
    <2>1. CASE GivesUp(counted)
      BY <1>2, <1>5, <2>1 DEF OnNativeError
    <2>2. CASE Eof \/ Drop
      BY <1>1, <2>2 DEF Next, BrowserStep
    <2>3. CASE Disrupt /\ UNCHANGED <<apiVars, serverVars, wire, clientVars>>
      <3>1. TypeOK'
        BY <2>3, StreamAssumption DEF IInv, TypeOK, Disrupt, apiVars, serverVars, clientVars
      <3>2. HistoryOK' /\ ViewConsistent' /\ AbstractStep
        BY <2>3, SameHistory, SameView DEF IInv, AbstractStep, apiVars, clientVars
      <3>3. ConnectionOK' /\ PipelineOK' /\ FreshStartOK'
        BY <2>3 DEF IInv, ConnectionOK, PipelineOK, FreshStartOK, RV, apiVars, serverVars, clientVars
      <3> QED BY <3>1, <3>2, <3>3 DEF IInv
    <2> QED BY <1>5, <2>1, <2>2, <2>3 DEF OnNativeError
  <1>6. CASE Rejected
    BY <1>1, <1>6 DEF Rejected, OnRejected, Next
  <1>7. CASE Flush \/ Hide \/ Poll
    BY <1>1, <1>7 DEF Flush, Hide, Poll, PollStart, PollServed, PollLands
  <1>8. CASE HideTimeout
    BY <1>1, <1>8 DEF HideTimeout, Next
  <1>9. CASE Show
    BY <1>1, <1>9 DEF Show, Next
  <1>10. CASE Remount
    BY <1>10, CutInv DEF Remount, AbstractStep, apiVars
  <1>11. CASE UNCHANGED allVars
    BY <1>1, <1>11 DEF allVars
  <1> QED BY <1>3, <1>4, <1>5, <1>6, <1>7, <1>8, <1>9, <1>10, <1>11 DEF BNext, NativeError

-----------------------------------------------------------------------------
(* The hook's own state.                                                   *)

HookInv == BTypeOK /\ HookOK /\ TableIsView

(* The stream moves behind the hook: the browser's last id and rows stay,   *)
(* and only a connection under way can go on.                               *)
LEMMA BehindInv ==
    ASSUME HookInv, UNCHANGED hookVars, UNCHANGED <<lastId, view>>,
           es = "closed" => es' = "closed"
    PROVE  HookInv'
  <1>1. BTypeOK'
    BY DEF HookInv, BTypeOK, hookVars
  <1>2. HookOK'
    BY DEF HookInv, HookOK, hookVars
  <1>3. TableIsView'
    BY DEF HookInv, TableIsView, hookVars
  <1> QED BY <1>1, <1>2, <1>3 DEF HookInv

(* The steps the hook does not see are of this kind. *)
LEMMA BehindKeeps ==
    ASSUME IInv, BehindTheScenes
    PROVE  UNCHANGED <<lastId, view>> /\ (es = "closed" => es' = "closed")
  <1>1. CASE LoopStep \/ LoopFails \/ DrainClosed \/ Compact
    BY <1>1 DEF LoopStep, LoopFails, DrainClosed, Compact, Resume, ListFresh, OpenWatch,
      DrainEvent, DrainGone, clientVars
  <1>2. ASSUME NEW k \in Keys, NEW type \in DeltaTypes, Mutate(k, type)
        PROVE  UNCHANGED <<lastId, view>> /\ (es = "closed" => es' = "closed")
    BY <1>2 DEF Mutate, clientVars
  <1>3. CASE Emit \/ Connect
    BY <1>3 DEF Emit, Connect, clientVars
  <1>4. CASE ChannelClosed \/ HandlerStops("server_shutdown") \/ HandlerStops("auth_expired")
    <2>1. loop # "none" /\ UNCHANGED <<lastId, view>>
      BY <1>4 DEF ChannelClosed, HandlerStops, HandlerReturns, Serving
    <2>2. es = "open"
      BY <2>1 DEF IInv, ConnectionOK
    <2> QED BY <2>1, <2>2
  <1> QED BY <1>1, <1>2, <1>3, <1>4 DEF BehindTheScenes, HandlerStep

(* A hook that listens has not given up, and its stream is not closed. *)
LEMMA Listening ==
    ASSUME IInv, HookInv, wire # <<>> \/ es # "closed"
    PROVE  /\ es # "closed" /\ handle = TRUE /\ hookClosed = FALSE
           /\ status # "polling_fallback" /\ attempts \in 0..(MaxReconnectAttempts - 1)
  <1>1. es # "closed"
    BY DEF IInv, ConnectionOK
  <1>2. handle = TRUE /\ hookClosed = FALSE /\ status # "polling_fallback"
    BY <1>1, Zenon DEF HookInv, HookOK, BTypeOK
  <1>3. attempts \in 0..(MaxReconnectAttempts - 1)
    BY <1>2, BrowserAssumption DEF HookInv, HookOK, BTypeOK
  <1> QED BY <1>1, <1>2, <1>3

(* The first event on the wire follows the browser's last id. *)
LEMMA HeadFollows ==
    ASSUME IInv, wire # <<>>
    PROVE  /\ Head(wire) \in Events /\ Head(wire).at \in Nat
           /\ Follows(hist, lastId, Head(wire))
           /\ Head(wire).type \in DeltaTypes => lastId # 0
  <1>1. wire \in Seq(Events) /\ Head(wire) = wire[1] /\ 1 \in 1..Len(wire) /\ Head(wire) \in Events
    BY TailFacts, EmptyFacts DEF IInv, TypeOK
  <1>2. Follows(hist, lastId, Head(wire))
    BY <1>1 DEF IInv, PipelineOK, Chain
  <1>3. Head(wire).type \in DeltaTypes => lastId # 0
    BY <1>2 DEF Follows, Snapshot, Relist, Goodbyes, DeltaTypes
  <1> QED BY <1>1, <1>2, <1>3, AtNat

(* A snapshot with nothing buffered is the view. *)
LEMMA OnSnapshotInv ==
    ASSUME IInv, HookInv, OnSnapshot
    PROVE  HookInv'
  <1> DEFINE e == Head(wire)
  <1>1. /\ es # "closed" /\ handle = TRUE /\ hookClosed = FALSE
        /\ e \in Events /\ e.type = "snapshot" /\ e.rows \in Rows
    BY Listening, HeadFollows, SnapshotRows DEF OnSnapshot
  <1>2. view' = e.rows /\ cache' = e.rows /\ es' = es
    <2>1. e.type = "snapshot" /\ e.type \notin DeltaTypes /\ e.type # "auth_expired"
      BY <1>1 DEF DeltaTypes
    <2> HIDE DEF e
    <2> QED BY <2>1 DEF OnSnapshot, Deliver, e
  <1>3. /\ status' = "live" /\ attempts' = 0
        /\ overrun' = IF buffer # <<>> THEN "deltas" ELSE "no"
        /\ UNCHANGED <<buffer, hookClosed, handle, page, fetch, answer>>
    BY DEF OnSnapshot
  <1>4. BTypeOK'
    BY <1>1, <1>2, <1>3, BrowserAssumption DEF HookInv, BTypeOK
  <1>5. HookOK'
    BY <1>1, <1>2, <1>3, BrowserAssumption DEF HookInv, HookOK
  <1>6. TableIsView'
    BY <1>1, <1>2, <1>3, ApplyNone, BrowserAssumption DEF TableIsView
  <1> QED BY <1>4, <1>5, <1>6 DEF HookInv

(* A delta goes to the end of the buffer, and to the view. *)
LEMMA OnDeltaInv ==
    ASSUME IInv, HookInv, OnDelta
    PROVE  HookInv'
  <1> DEFINE e == Head(wire)
  <1>1. e \in Deltas /\ lastId # 0 /\ es # "closed" /\ hookClosed = FALSE
    BY Listening, HeadFollows DEF OnDelta, Deltas
  <1>2. e.type \in DeltaTypes /\ e.type # "snapshot" /\ e.type # "auth_expired"
    BY <1>1 DEF Deltas, DeltaTypes
  <1>3. view' = ApplyDelta(view, e) /\ es' = es
    BY <1>2 DEF OnDelta, Deliver
  <1>4. /\ buffer' = Append(buffer, e)
        /\ UNCHANGED <<cache, hookClosed, handle, status, attempts, page, fetch, answer, overrun>>
    BY DEF OnDelta
  <1>5. BTypeOK'
    <2>1. buffer' \in Seq(Deltas)
      BY <1>1, <1>4 DEF HookInv, BTypeOK
    <2> QED BY <1>4, <2>1 DEF HookInv, BTypeOK
  <1>6. HookOK'
    BY <1>3, <1>4 DEF HookInv, HookOK
  <1>7. ASSUME overrun = "no" PROVE cache # NoList /\ ApplyDeltas(cache, buffer') = view'
    <2>1. cache # NoList /\ ApplyDeltas(cache, buffer) = view
      BY <1>1, <1>7 DEF HookInv, TableIsView
    <2>2. cache \in Rows /\ buffer \in Seq(Deltas) /\ HaveList(cache)
      BY <2>1 DEF HookInv, BTypeOK, HaveList
    <2>3. ApplyDeltas(cache, Append(buffer, e)) = ApplyDelta(ApplyDeltas(cache, buffer), e)
      BY <1>1, <2>2, ApplyOneMore
    <2> QED BY <1>3, <1>4, <2>1, <2>3
  <1>8. TableIsView'
    BY <1>4, <1>7 DEF TableIsView
  <1> QED BY <1>5, <1>6, <1>8 DEF HookInv

(* Notices change the status only. *)
LEMMA OnDegradedInv ==
    ASSUME IInv, HookInv, OnDegraded
    PROVE  HookInv'
  <1>1. /\ Head(wire).type \in {"relist", "server_shutdown", "backpressure"}
        /\ es # "closed" /\ handle = TRUE /\ hookClosed = FALSE
    BY Listening DEF OnDegraded
  <1>2. lastId' = lastId /\ view' = view /\ es' = es
    BY <1>1 DEF OnDegraded, Deliver, HasId, DeltaTypes
  <1>3. /\ status' = "reconnecting"
        /\ UNCHANGED <<cache, buffer, hookClosed, handle, attempts, page, fetch, answer, overrun>>
    BY DEF OnDegraded
  <1>4. BTypeOK'
    BY <1>3 DEF HookInv, BTypeOK
  <1>5. HookOK' /\ TableIsView'
    BY <1>1, <1>2, <1>3 DEF HookInv, HookOK, TableIsView
  <1> QED BY <1>4, <1>5 DEF HookInv

(* The session is over. *)
LEMMA OnAuthExpiredInv ==
    ASSUME IInv, HookInv, OnAuthExpired
    PROVE  HookInv'
  <1>1. /\ Head(wire).type = "auth_expired"
        /\ es # "closed" /\ handle = TRUE /\ hookClosed = FALSE /\ status # "polling_fallback"
    BY Listening DEF OnAuthExpired
  <1>2. es' = "closed"
    BY <1>1 DEF OnAuthExpired, Deliver
  <1>3. /\ hookClosed' = TRUE /\ handle' = FALSE
        /\ UNCHANGED <<cache, buffer, status, attempts, page, fetch, answer, overrun>>
    BY DEF OnAuthExpired
  <1>4. BTypeOK'
    BY <1>3 DEF HookInv, BTypeOK
  <1>5. HookOK' /\ TableIsView'
    BY <1>1, <1>2, <1>3 DEF HookInv, HookOK, TableIsView
  <1> QED BY <1>4, <1>5 DEF HookInv

(* An error is counted, or ends the stream for good. *)
LEMMA OnErrorInv ==
    ASSUME IInv, HookInv, NEW counted \in BOOLEAN, OnError(counted), es # "closed",
           GivesUp(counted) => es' = "closed",
           ~GivesUp(counted) => UNCHANGED <<lastId, view>>
    PROVE  HookInv'
  <1>1. /\ handle = TRUE /\ hookClosed = FALSE /\ attempts \in 0..(MaxReconnectAttempts - 1)
    BY Listening
  <1>2. UNCHANGED <<cache, buffer, page, fetch, answer, overrun>>
    BY DEF OnError
  <1>3. attempts' \in 0..MaxReconnectAttempts
    BY <1>1, BrowserAssumption DEF OnError
  <1>4. CASE GivesUp(counted)
    <2>1. hookClosed' = TRUE /\ handle' = FALSE /\ status' = "polling_fallback"
      BY <1>4 DEF OnError
    <2>2. BTypeOK'
      BY <1>2, <1>3, <2>1 DEF HookInv, BTypeOK
    <2>3. HookOK' /\ TableIsView'
      BY <1>4, <2>1 DEF HookOK, TableIsView
    <2> QED BY <2>2, <2>3 DEF HookInv
  <1>5. CASE ~GivesUp(counted)
    <2>1. status' = "reconnecting" /\ UNCHANGED <<hookClosed, handle>>
      BY <1>5 DEF OnError
    <2>2. attempts' < MaxReconnectAttempts
      <3>1. CASE counted
        BY <1>1, <1>5, <3>1, BrowserAssumption DEF OnError, GivesUp
      <3>2. CASE ~counted
        BY <1>1, <3>2, BrowserAssumption DEF OnError
      <3> QED BY <3>1, <3>2
    <2>3. BTypeOK'
      BY <1>2, <1>3, <2>1 DEF HookInv, BTypeOK
    <2>4. HookOK'
      BY <1>1, <2>1, <2>2 DEF HookOK
    <2>5. TableIsView'
      BY <1>2, <1>5, <2>1 DEF HookInv, TableIsView
    <2> QED BY <2>3, <2>4, <2>5 DEF HookInv
  <1> QED BY <1>4, <1>5

(* The three ways an error reaches the listener. *)
LEMMA ErrorInv ==
    ASSUME IInv, HookInv, NEW counted \in BOOLEAN,
           OnServerError(counted) \/ OnNativeError(counted) \/ OnRejected(counted)
    PROVE  HookInv'
  <1>1. OnError(counted) /\ es # "closed"
    <2>1. CASE OnServerError(counted)
      BY <2>1, Listening DEF OnServerError
    <2>2. CASE OnNativeError(counted)
      BY <2>2 DEF OnNativeError, Eof, Drop
    <2>3. CASE OnRejected(counted)
      BY <2>3 DEF OnRejected, Reject
    <2> QED BY <2>1, <2>2, <2>3
  <1>2. GivesUp(counted) => es' = "closed"
    BY DEF OnServerError, OnNativeError, OnRejected, EsClosed, Reject
  <1>3. ~GivesUp(counted) => UNCHANGED <<lastId, view>>
    <2>1. CASE OnServerError(counted) /\ ~GivesUp(counted)
      <3>1. Head(wire).type = "error" /\ Deliver
        BY <2>1 DEF OnServerError
      <3> QED BY <3>1 DEF Deliver, HasId, DeltaTypes
    <2>2. CASE OnNativeError(counted) /\ ~GivesUp(counted)
      BY <2>2 DEF OnNativeError, Eof, Drop, clientVars
    <2>3. CASE OnRejected(counted)
      BY <2>3 DEF OnRejected, Reject
    <2> QED BY <2>1, <2>2, <2>3
  <1> QED BY <1>1, <1>2, <1>3, OnErrorInv

(* Applied deltas leave rows. *)
LEMMA AppliedTyped ==
    ASSUME NEW list \in Rows, NEW d \in Seq(Deltas), HaveList(list)
    PROVE  ApplyDeltas(list, d) \in Rows
  <1>1. IsRun(AfterEach(list, d), list, d, Len(d)) /\ Len(d) \in Nat
    BY AfterEachRuns
  <1> QED BY <1>1 DEF IsRun, ApplyDeltas

(* The flush applies the buffer, once. *)
LEMMA FlushInv ==
    ASSUME IInv, HookInv, Flush
    PROVE  HookInv'
  <1>1. /\ ~hookClosed /\ cache' = ApplyDeltas(cache, buffer) /\ buffer' = <<>>
        /\ status' = "live" /\ attempts' = 0
        /\ UNCHANGED <<es, lastId, view, hookClosed, handle, page, fetch, answer, overrun>>
    BY DEF Flush, vars, clientVars
  <1>2. cache' \in Rows \cup {NoList} /\ (cache # NoList => cache' \in Rows)
    <2>1. CASE cache = NoList
      BY <1>1, <2>1 DEF ApplyDeltas, HaveList
    <2>2. CASE cache # NoList
      <3>1. cache \in Rows /\ buffer \in Seq(Deltas) /\ HaveList(cache)
        BY <2>2 DEF HookInv, BTypeOK, HaveList
      <3>2. ApplyDeltas(cache, buffer) \in Rows
        BY <3>1, AppliedTyped
      <3> QED BY <1>1, <3>2
    <2> QED BY <2>1, <2>2
  <1>3. BTypeOK'
    <2>1. buffer' \in Seq(Deltas)
      BY <1>1
    <2>2. attempts' \in 0..MaxReconnectAttempts
      BY <1>1, BrowserAssumption
    <2> QED BY <1>1, <1>2, <2>1, <2>2 DEF HookInv, BTypeOK
  <1>4. HookOK'
    BY <1>1, BrowserAssumption DEF HookInv, HookOK
  <1>5. TableIsView'
    BY <1>1, <1>2, ApplyNone, BrowserAssumption DEF HookInv, TableIsView
  <1> QED BY <1>3, <1>4, <1>5 DEF HookInv

(* The tab is hidden; after the grace period the stream is closed. *)
LEMMA HideInv ==
    ASSUME IInv, HookInv, Hide \/ HideTimeout
    PROVE  HookInv'
  <1>1. /\ UNCHANGED <<lastId, view, cache, buffer, hookClosed, status, attempts, fetch, answer, overrun>>
        /\ page' \in {"grace", "hidden"} /\ handle' \in {handle, FALSE}
        /\ es' = "closed" \/ (es' = es /\ handle' = handle)
    BY DEF Hide, HideTimeout, Close, vars, clientVars
  <1>2. BTypeOK'
    BY <1>1 DEF HookInv, BTypeOK
  <1>3. HookOK'
    <2>1. hookClosed' => ~handle'
      BY <1>1, Zenon DEF HookInv, HookOK
    <2>2. ~handle' => es' = "closed"
      <3>1. CASE es' = "closed"
        BY <3>1
      <3>2. CASE es' = es /\ handle' = handle
        BY <3>2 DEF HookInv, HookOK
      <3> QED BY <1>1, <3>1, <3>2
    <2> QED BY <1>1, <2>1, <2>2 DEF HookInv, HookOK
  <1>4. TableIsView'
    BY <1>1 DEF HookInv, TableIsView
  <1> QED BY <1>2, <1>3, <1>4 DEF HookInv

(* The tab is back: a stream that is opened anew has no last id. *)
LEMMA ShowInv ==
    ASSUME IInv, HookInv, Show
    PROVE  HookInv'
  <1>1. page' = "visible" /\ UNCHANGED <<cache, buffer, hookClosed, fetch, answer, overrun>>
    BY DEF Show
  <1>2. CASE ~handle /\ ~hookClosed
    <2>1. lastId' = 0 /\ handle' = TRUE /\ status' = "connecting" /\ attempts' = 0
      BY <1>2 DEF Show, Reopen
    <2>2. BTypeOK'
      BY <1>1, <2>1, BrowserAssumption DEF HookInv, BTypeOK
    <2>3. HookOK' /\ TableIsView'
      BY <1>1, <1>2, <2>1, BrowserAssumption DEF HookOK, TableIsView
    <2> QED BY <2>2, <2>3 DEF HookInv
  <1>3. CASE ~(~handle /\ ~hookClosed)
    <2>1. UNCHANGED <<es, lastId, view, handle, status, attempts>>
      BY <1>3 DEF Show, vars, clientVars
    <2>2. BTypeOK'
      BY <1>1, <2>1 DEF HookInv, BTypeOK
    <2>3. HookOK' /\ TableIsView'
      BY <1>1, <2>1 DEF HookInv, HookOK, TableIsView
    <2> QED BY <2>2, <2>3 DEF HookInv
  <1> QED BY <1>2, <1>3

(* A remounted hook starts over on the list it finds. *)
LEMMA RemountInv ==
    ASSUME IInv, HookInv, Remount
    PROVE  HookInv'
  <1>1. /\ lastId' = 0 /\ buffer' = <<>> /\ hookClosed' = FALSE /\ handle' = TRUE
        /\ status' = "connecting" /\ attempts' = 0 /\ fetch' = "idle"
        /\ UNCHANGED <<cache, answer, overrun>>
    BY DEF Remount
  <1>2. page' \in {"visible", "grace", "hidden"}
    BY DEF HookInv, BTypeOK, Remount
  <1>3. BTypeOK'
    <2>1. buffer' \in Seq(Deltas)
      BY <1>1
    <2>2. attempts' \in 0..MaxReconnectAttempts
      BY <1>1, BrowserAssumption
    <2> QED BY <1>1, <1>2, <2>1, <2>2 DEF HookInv, BTypeOK
  <1>4. HookOK' /\ TableIsView'
    BY <1>1, BrowserAssumption DEF HookOK, TableIsView
  <1> QED BY <1>3, <1>4 DEF HookInv

(* A polled List that lands on a stream's table is an overrun. *)
LEMMA PollInv ==
    ASSUME IInv, HookInv, Poll
    PROVE  HookInv'
  <1>1. /\ UNCHANGED <<es, lastId, view, buffer, hookClosed, handle, status, attempts, page>>
    BY DEF Poll, PollStart, PollServed, PollLands, vars, clientVars
  <1>2. Store \in Rows
    <2>1. hist[RV] \in Entries
      BY PipeFacts, EmptyFacts DEF IInv, TypeOK, RV
    <2> QED BY <2>1 DEF Store, Entries
  <1>3. /\ fetch' \in {"idle", "sent", "answered"} /\ answer' \in Rows
        /\ cache' \in Rows \cup {NoList} /\ overrun' \in {"no", "deltas", "list"}
    BY <1>2 DEF HookInv, BTypeOK, Poll, PollStart, PollServed, PollLands
  <1>4. BTypeOK'
    BY <1>1, <1>3 DEF HookInv, BTypeOK
  <1>5. HookOK'
    BY <1>1 DEF HookInv, HookOK
  <1>6. TableIsView'
    <2>1. CASE PollLands /\ ~hookClosed
      BY <2>1 DEF PollLands, TableIsView
    <2>2. CASE hookClosed
      BY <1>1, <2>2 DEF TableIsView
    <2>3. CASE PollStart \/ PollServed
      BY <1>1, <2>3 DEF HookInv, TableIsView, PollStart, PollServed
    <2> QED BY <2>1, <2>2, <2>3 DEF Poll
  <1> QED BY <1>4, <1>5, <1>6 DEF HookInv

-----------------------------------------------------------------------------
(* A mounted hook starts in its invariant. *)
LEMMA BInitInv ==
    BInit => BInv
  <1> SUFFICES ASSUME BInit PROVE BInv
    OBVIOUS
  <1>1. IInv /\ lastId = 0
    BY InitInv DEF BInit, Init
  <1>2. BTypeOK
    <2>1. buffer \in Seq(Deltas) /\ answer \in Rows
      BY DEF BInit, Rows
    <2>2. attempts \in 0..MaxReconnectAttempts
      BY BrowserAssumption DEF BInit
    <2> QED BY <2>1, <2>2 DEF BInit, BTypeOK
  <1>3. HookOK /\ TableIsView
    BY <1>1, BrowserAssumption DEF BInit, HookOK, TableIsView
  <1> QED BY <1>1, <1>2, <1>3 DEF BInv

(* Every step of the page keeps it. *)
LEMMA BStep ==
    ASSUME BInv, [BNext]_allVars
    PROVE  BInv'
  <1>1. IInv /\ HookInv /\ IInv'
    BY StreamStep DEF BInv, HookInv
  <1>2. CASE BehindTheScenes
    BY <1>1, <1>2, BehindKeeps, BehindInv DEF BInv, HookInv, BehindTheScenes
  <1>3. CASE UNCHANGED allVars
    <2>1. UNCHANGED hookVars /\ UNCHANGED <<lastId, view, es>>
      BY <1>3 DEF allVars, vars, clientVars
    <2> QED BY <1>1, <2>1, BehindInv DEF BInv, HookInv
  <1>4. CASE HookStep
    BY <1>1, <1>4, OnSnapshotInv, OnDeltaInv, OnDegradedInv, OnAuthExpiredInv, ErrorInv
      DEF BInv, HookInv, HookStep
  <1>5. CASE NativeError \/ Rejected
    BY <1>1, <1>5, ErrorInv DEF BInv, HookInv, NativeError, Rejected
  <1>6. CASE Flush \/ Hide \/ HideTimeout \/ Show \/ Remount \/ Poll
    BY <1>1, <1>6, FlushInv, HideInv, ShowInv, RemountInv, PollInv DEF BInv, HookInv
  <1> QED BY <1>2, <1>3, <1>4, <1>5, <1>6 DEF BNext

(***************************************************************************)
(* The hook on top of the stream, for every error budget, buffer and       *)
(* number of streams, polls and remounts (useResourceStream.ts).           *)
(***************************************************************************)
THEOREM HookInvariance == BSpec => []BInv
  <1>1. BInit => BInv
    BY BInitInv
  <1>2. BInv /\ [BNext]_allVars => BInv'
    BY BStep
  <1> QED BY <1>1, <1>2, PTL DEF BSpec

(***************************************************************************)
(* Batching loses, repeats and reorders nothing: outside the two overlaps  *)
(* the table and its buffer are the collection at the browser's last event *)
(* id (flush, the snapshot listener and enqueueDelta).                     *)
(***************************************************************************)
THEOREM TableFollows == BSpec => []TableFollowsUnlessOverrun
  <1>1. BInv => TableFollowsUnlessOverrun
    BY DEF BInv, IInv, ViewConsistent, TableIsView, TableFollowsUnlessOverrun, TableFollowsStream
  <1> QED BY <1>1, HookInvariance, PTL

(***************************************************************************)
(* A hook that has given up neither comes back nor writes the table, until *)
(* it is mounted anew (the guards of flush, onVisibility and the           *)
(* listeners).                                                             *)
(***************************************************************************)
THEOREM GivenUpStays == BSpec => GivenUpIsFinal
  <1> DEFINE A == hookClosed /\ hookClosed' =>
                      /\ status' = status /\ ~handle'
                      /\ cache' # cache => fetch = "answered"
  <1>1. BInv /\ [BNext]_allVars => [A]_allVars
    <2> SUFFICES ASSUME BInv, BNext, hookClosed, hookClosed'
                 PROVE  /\ status' = status /\ ~handle'
                        /\ cache' # cache => fetch = "answered"
      OBVIOUS
    <2>1. ~handle /\ es = "closed" /\ wire = <<>>
      BY DEF BInv, HookOK, IInv, ConnectionOK
    <2>2. CASE BehindTheScenes
      BY <2>1, <2>2 DEF BehindTheScenes, hookVars
    <2>3. ~HookStep
      BY <2>1 DEF HookStep, OnSnapshot, OnDelta, OnDegraded, OnAuthExpired, OnServerError
    <2>4. ~NativeError /\ ~Rejected
      BY <2>1 DEF NativeError, Rejected, OnNativeError, OnRejected, Eof, Drop, Reject
    <2>5. CASE Hide \/ HideTimeout \/ Show
      BY <2>1, <2>5 DEF Hide, HideTimeout, Show
    <2>6. ~Flush /\ ~Remount
      BY DEF Flush, Remount
    <2>7. CASE Poll
      BY <2>1, <2>7 DEF Poll, PollStart, PollServed, PollLands
    <2> QED BY <2>2, <2>3, <2>4, <2>5, <2>6, <2>7 DEF BNext
  <1> QED BY <1>1, HookInvariance, PTL DEF BSpec, GivenUpIsFinal

(***************************************************************************)
(* The page as a whole implements CollectionView too: what the hook does   *)
(* to its EventSource never takes the browser back to an older version.    *)
(***************************************************************************)
THEOREM PageRefinement == BSpec => ShowsCollection
  <1>1. BInit => CV!Init
    BY DEF BInit, Init, CV!Init
  <1>2. BInv /\ [BNext]_allVars => [CV!Write \/ CV!Advance]_<<hist, shown, view>>
    BY StreamStep DEF BInv, AbstractStep
  <1> QED BY <1>1, <1>2, HookInvariance, PTL DEF BSpec, ShowsCollection, CV!Spec
=============================================================================
