----------------------- MODULE StreamLifecycleProofs -----------------------
(***************************************************************************)
(* LInv is inductive, for every set of requests, actors and cap; the cap   *)
(* and the order "goroutine first" follow from it.                         *)
(***************************************************************************)
EXTENDS StreamLifecycle, FiniteSetTheorems, TLAPS

Held(h, a) == {r \in Requests : ActorOf[r] = a /\ h[r] \in Holding}

LEMMA HeldFinite == ASSUME NEW h, NEW a PROVE IsFiniteSet(Held(h, a))
  BY LifecycleAssumption, FS_Subset DEF Held

(* One request moves; the set of its actor's slots gains it, loses it or    *)
(* stays, and no other actor's set changes.                                 *)
LEMMA HeldMoves ==
  ASSUME NEW h \in [Requests -> Stages], NEW r \in Requests, NEW stage \in Stages,
         NEW a \in Actors
  PROVE  LET g == [h EXCEPT ![r] = stage]
         IN  /\ a # ActorOf[r] => Held(g, a) = Held(h, a)
             /\ (h[r] \in Holding) = (stage \in Holding) => Held(g, a) = Held(h, a)
             /\ a = ActorOf[r] /\ h[r] \notin Holding /\ stage \in Holding
                   => Cardinality(Held(g, a)) = Cardinality(Held(h, a)) + 1
             /\ a = ActorOf[r] /\ h[r] \in Holding /\ stage \notin Holding
                   => Cardinality(Held(g, a)) = Cardinality(Held(h, a)) - 1
<1> DEFINE g == [h EXCEPT ![r] = stage]
<1>1. \A q \in Requests : g[q] = IF q = r THEN stage ELSE h[q]
  OBVIOUS
<1> HIDE DEF g
<1>2. a # ActorOf[r] => Held(g, a) = Held(h, a)
  BY <1>1 DEF Held
<1>3. (h[r] \in Holding) = (stage \in Holding) => Held(g, a) = Held(h, a)
  BY <1>1 DEF Held
<1>4. ASSUME a = ActorOf[r], h[r] \notin Holding, stage \in Holding
      PROVE  Cardinality(Held(g, a)) = Cardinality(Held(h, a)) + 1
  <2>1. Held(g, a) = Held(h, a) \cup {r} /\ r \notin Held(h, a)
    BY <1>1, <1>4 DEF Held
  <2> QED
    BY <2>1, HeldFinite, FS_AddElement
<1>5. ASSUME a = ActorOf[r], h[r] \in Holding, stage \notin Holding
      PROVE  Cardinality(Held(g, a)) = Cardinality(Held(h, a)) - 1
  <2>1. Held(g, a) = Held(h, a) \ {r} /\ r \in Held(h, a)
    BY <1>1, <1>5 DEF Held
  <2> QED
    BY <2>1, HeldFinite, FS_RemoveElement
<1> QED
  BY <1>2, <1>3, <1>4, <1>5 DEF g

LEMMA HeldCount == ASSUME NEW h, NEW a PROVE Cardinality(Held(h, a)) \in Nat
  BY HeldFinite, FS_CardinalityType

LEMMA HeldByHeld == \A a : HeldBy(a) = Held(handler, a) /\ HeldBy(a)' = Held(handler', a)
  BY DEF HeldBy, Held

(* The accounting part of LInv over one step, from what the step does to    *)
(* the stage of one request and to its actor's count.                       *)
Accounts == SlotsExact /\ (MaxPerUser # 0 => \A a \in Actors : counts[a] <= MaxPerUser)

LEMMA SlotsKept ==
  ASSUME LTypeOK, Accounts, NEW r \in Requests, NEW stage \in Stages,
         Goto(r, stage), (handler[r] \in Holding) = (stage \in Holding), UNCHANGED counts
  PROVE  Accounts'
<1>1. \A a \in Actors : Held(handler', a) = Held(handler, a)
  BY HeldMoves DEF LTypeOK, Goto
<1> QED
  BY <1>1, HeldByHeld DEF Accounts, SlotsExact

LEMMA SlotsUntouched ==
  ASSUME Accounts, UNCHANGED <<handler, counts>> PROVE Accounts'
  BY HeldByHeld DEF Accounts, SlotsExact

LEMMA SlotTaken ==
  ASSUME LTypeOK, Accounts, NEW r \in Requests, handler[r] = "idle",
         Goto(r, "acquired"), AcquireOf(ActorOf[r])
  PROVE  Accounts' /\ counts' \in [Actors -> Nat]
<1>1. counts \in [Actors -> Nat] /\ handler \in [Requests -> Stages] /\ ActorOf[r] \in Actors
  BY LifecycleAssumption DEF LTypeOK
<1>2. "idle" \notin Holding /\ "acquired" \in Holding /\ "acquired" \in Stages
  BY DEF Holding, Stages
<1>3. counts' \in [Actors -> Nat]
  BY <1>1 DEF AcquireOf
<1>4. ASSUME MaxPerUser # 0, NEW a \in Actors
      PROVE  counts'[a] = Cardinality(HeldBy(a)') /\ counts'[a] <= MaxPerUser
  <2>1. counts[a] = Cardinality(Held(handler, a)) /\ counts[a] <= MaxPerUser
    BY <1>4, HeldByHeld DEF Accounts, SlotsExact
  <2>2. /\ MaxPerUser \in Nat /\ counts[a] \in Nat
        /\ counts[ActorOf[r]] < MaxPerUser
        /\ counts' = [counts EXCEPT ![ActorOf[r]] = @ + 1]
    BY <1>1, <1>4, LifecycleAssumption DEF AcquireOf
  <2>3. handler' = [handler EXCEPT ![r] = "acquired"]
    BY DEF Goto
  <2>4. CASE a = ActorOf[r]
    <3>1. Cardinality(Held(handler', a)) = Cardinality(Held(handler, a)) + 1
      BY <1>1, <1>2, <2>3, <2>4, HeldMoves
    <3> QED
      BY <1>1, <2>1, <2>2, <2>4, <3>1, HeldByHeld
  <2>5. CASE a # ActorOf[r]
    <3>1. Held(handler', a) = Held(handler, a)
      BY <1>1, <1>2, <2>3, <2>5, HeldMoves
    <3> QED
      BY <1>1, <2>1, <2>2, <2>5, <3>1, HeldByHeld
  <2> QED
    BY <2>4, <2>5
<1> QED
  BY <1>3, <1>4 DEF Accounts, SlotsExact

LEMMA SlotGiven ==
  ASSUME LTypeOK, Accounts, NEW r \in Requests, handler[r] = "releasing",
         Goto(r, "returned"), ReleaseOf(ActorOf[r])
  PROVE  Accounts' /\ counts' \in [Actors -> Nat]
<1>1. counts \in [Actors -> Nat] /\ handler \in [Requests -> Stages] /\ ActorOf[r] \in Actors
  BY LifecycleAssumption DEF LTypeOK
<1>2. "returned" \notin Holding /\ "releasing" \in Holding /\ "returned" \in Stages
  BY DEF Holding, Stages
<1>3. counts' \in [Actors -> Nat]
  BY <1>1 DEF ReleaseOf
<1>4. ASSUME MaxPerUser # 0, NEW a \in Actors
      PROVE  counts'[a] = Cardinality(HeldBy(a)') /\ counts'[a] <= MaxPerUser
  <2>1. \A b \in Actors : counts[b] = Cardinality(Held(handler, b)) /\ counts[b] <= MaxPerUser
    BY <1>4, HeldByHeld DEF Accounts, SlotsExact
  <2>2. handler' = [handler EXCEPT ![r] = "returned"]
    BY DEF Goto
  <2>3. /\ Cardinality(Held(handler', ActorOf[r])) = Cardinality(Held(handler, ActorOf[r])) - 1
        /\ Cardinality(Held(handler', ActorOf[r])) \in Nat
    BY <1>1, <1>2, <2>2, HeldMoves, HeldCount
  <2>4. counts[ActorOf[r]] > 0
    BY <1>1, <2>1, <2>3
  <2>5. counts' = [counts EXCEPT ![ActorOf[r]] = @ - 1]
    BY <1>1, <1>4, <2>4 DEF ReleaseOf
  <2>6. MaxPerUser \in Nat /\ counts[a] \in Nat
    BY <1>1, LifecycleAssumption
  <2>7. CASE a = ActorOf[r]
    BY <1>1, <2>1, <2>3, <2>5, <2>6, <2>7, HeldByHeld
  <2>8. CASE a # ActorOf[r]
    <3>1. Held(handler', a) = Held(handler, a)
      BY <1>1, <1>2, <2>2, <2>8, HeldMoves
    <3> QED
      BY <1>1, <2>1, <2>5, <2>8, <3>1, HeldByHeld
  <2> QED
    BY <2>7, <2>8
<1> QED
  BY <1>3, <1>4 DEF Accounts, SlotsExact

-----------------------------------------------------------------------------
LEMMA LInit == Init => LInv
<1> SUFFICES ASSUME Init PROVE LInv
  OBVIOUS
<1>1. LTypeOK
  BY DEF Init, LTypeOK, Stages
<1>2. TrackerExact /\ GoroutineOK /\ DrainOK
  BY DEF Init, TrackerExact, Tracked, GoroutineOK, DrainOK
<1>3. \A a \in Actors : HeldBy(a) = {} /\ counts[a] = 0
  BY DEF Init, HeldBy, Holding
<1>4. SlotsExact /\ (MaxPerUser # 0 => \A a \in Actors : counts[a] <= MaxPerUser)
  BY <1>3, LifecycleAssumption, FS_EmptySet DEF SlotsExact
<1> QED
  BY <1>1, <1>2, <1>4 DEF LInv

LEMMA LStep == LInv /\ [Next]_vars => LInv'
<1> SUFFICES ASSUME LInv, [Next]_vars PROVE LInv'
  OBVIOUS
<1> USE DEF LInv, Accounts
<1> DEFINE Rest == LTypeOK /\ TrackerExact /\ GoroutineOK /\ DrainOK
<1>a. Rest /\ Accounts
  OBVIOUS
<1>1. ASSUME NEW r \in Requests, Arrive(r) PROVE LInv'
  <2>1. Accounts' /\ counts' \in [Actors -> Nat]
    BY <1>1, <1>a, SlotTaken DEF Arrive
  <2>2. Rest'
    BY <1>1, <1>a, <2>1
    DEF Arrive, Goto, LTypeOK, Stages, TrackerExact, Tracked, GoroutineOK, DrainOK
  <2> QED
    BY <2>1, <2>2
<1>2. ASSUME NEW r \in Requests, Release(r) PROVE LInv'
  <2>1. Accounts' /\ counts' \in [Actors -> Nat]
    BY <1>2, <1>a, SlotGiven DEF Release
  <2>2. Rest'
    BY <1>2, <1>a, <2>1
    DEF Release, Alive, Goto, LTypeOK, Stages, TrackerExact, Tracked, GoroutineOK, DrainOK
  <2> QED
    BY <2>1, <2>2
<1>3. ASSUME NEW r \in Requests,
             \/ OpenFails(r) \/ Start(r) \/ SeesEnd(r) \/ WaitOver(r)
             \/ SeesExpiry(r) \/ Deregister(r) \/ Finish(r)
      PROVE  LInv'
  <2> USE DEF OpenFails, Start, SeesEnd, WaitOver, SeesExpiry, Deregister, Finish, Selecting
  <2>1. PICK stage \in Stages :
           Goto(r, stage) /\ (handler[r] \in Holding) = (stage \in Holding) /\ UNCHANGED counts
    BY <1>3 DEF Holding, Stages
  <2>2. Accounts'
    BY <1>a, <2>1, SlotsKept
  <2>3. LTypeOK' /\ DrainOK'
    BY <1>3, <1>a DEF Alive, Goto, LTypeOK, Stages, DrainOK
  <2>4. TrackerExact'
    BY <1>3, <1>a DEF Goto, LTypeOK, TrackerExact, Tracked
  <2>5. GoroutineOK'
    <3>1. ~(Selecting(r) /\ serverCtx)
      BY <1>a DEF Alive, DrainOK
    <3> QED
      BY <1>3, <1>a, <3>1 DEF Goto, LTypeOK, GoroutineOK
  <2> QED
    BY <2>2, <2>3, <2>4, <2>5
<1>4. ASSUME NEW r \in Requests,
             \/ WatchReturns(r) \/ WatchDone(r) \/ WriteBlocks(r) \/ WriteReturns(r)
             \/ ClientLeaves(r) \/ SessionExpires(r)
      PROVE  LInv'
  <2> USE DEF WatchReturns, WatchDone, WriteBlocks, WriteReturns, ClientLeaves,
              SessionExpires, Selecting
  <2>1. UNCHANGED <<handler, counts>>
    BY <1>4
  <2>2. Accounts'
    BY <1>a, <2>1, SlotsUntouched
  <2>3. Rest'
    BY <1>4, <1>a DEF Alive, LTypeOK, TrackerExact, GoroutineOK, DrainOK
  <2> QED
    BY <2>2, <2>3
<1>5. ASSUME Signal \/ Drained \/ DrainTimeout \/ UNCHANGED vars PROVE LInv'
  <2>1. UNCHANGED <<handler, counts>>
    BY <1>5 DEF Signal, Drained, DrainTimeout, vars
  <2>2. Accounts'
    BY <1>a, <2>1, SlotsUntouched
  <2>3. LTypeOK'
    BY <1>5, <1>a DEF Signal, Drained, DrainTimeout, vars, LTypeOK
  <2>4. TrackerExact' /\ GoroutineOK'
    BY <1>5, <1>a DEF Signal, Drained, DrainTimeout, vars, TrackerExact, GoroutineOK
  <2>5. DrainOK'
    <3>1. CASE Signal
      <4>1. server = "up" /\ ~serverCtx
        BY <3>1, <1>a DEF Signal, DrainOK
      <4> QED
        BY <3>1, <4>1 DEF Signal, DrainOK
    <3>2. CASE Drained
      BY <3>2 DEF Drained, DrainOK
    <3>3. CASE DrainTimeout
      <4>1. server = "draining" /\ ~serverCtx
        BY <3>3, <1>a DEF DrainTimeout, DrainOK
      <4> QED
        BY <3>3, <4>1 DEF DrainTimeout, DrainOK
    <3>4. CASE UNCHANGED vars
      BY <3>4, <1>a DEF vars, DrainOK
    <3> QED
      BY <1>5, <3>1, <3>2, <3>3, <3>4
  <2> QED
    BY <2>2, <2>3, <2>4, <2>5
<1> QED
  BY <1>1, <1>2, <1>3, <1>4, <1>5 DEF Next, HandlerSteps

-----------------------------------------------------------------------------
(* The limiter's count is the number of requests that hold a slot, the      *)
(* tracker lists the served ones, for every number of requests.             *)
THEOREM LifecycleInvariance == Spec => []LInv
  BY LInit, LStep, PTL DEF Spec

(* No user ever has more streams than PERISCOPE's per-user cap.             *)
THEOREM CapHolds == Spec => []WithinCap
<1>1. LInv => WithinCap
  <2> SUFFICES ASSUME LInv, MaxPerUser # 0, NEW a \in Actors
               PROVE  Cardinality({r \in active : ActorOf[r] = a}) <= MaxPerUser
    BY DEF WithinCap
  <2> DEFINE mine == {r \in active : ActorOf[r] = a}
  <2>1. mine \subseteq HeldBy(a)
    BY DEF LInv, LTypeOK, TrackerExact, Tracked, Holding, HeldBy
  <2>2. IsFiniteSet(HeldBy(a))
    BY HeldFinite, HeldByHeld
  <2>3. Cardinality(mine) <= Cardinality(HeldBy(a)) /\ IsFiniteSet(mine)
    BY <2>1, <2>2, FS_Subset
  <2>4. Cardinality(HeldBy(a)) <= MaxPerUser
    BY DEF LInv, SlotsExact
  <2>5. Cardinality(mine) \in Nat /\ Cardinality(HeldBy(a)) \in Nat /\ MaxPerUser \in Nat
    BY <2>2, <2>3, FS_CardinalityType, LifecycleAssumption
  <2> QED
    BY <2>3, <2>4, <2>5
<1> QED
  BY <1>1, LifecycleInvariance, PTL

(* The handler reads streamErr only after the goroutine is over.            *)
THEOREM GoroutineFirst == Spec => []LeavesAfterGoroutine
<1>1. LInv => LeavesAfterGoroutine
  BY DEF LInv, GoroutineOK, LeavesAfterGoroutine
<1> QED
  BY <1>1, LifecycleInvariance, PTL
=============================================================================
