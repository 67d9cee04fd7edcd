-------------------------- MODULE ExecServerProofs --------------------------
(***************************************************************************)
(* ExecServer for every finite set of requests, any caps and any threshold *)
(* of the breaker: EInv is inductive, and the two action properties follow *)
(* from it.                                                                *)
(***************************************************************************)
EXTENDS ExecServer, FiniteSetTheorems, TLAPS

(* Counts of requests are numbers, and fewer requests count no more. *)
LEMMA Count ==
    ASSUME NEW S \in SUBSET Requests
    PROVE  IsFiniteSet(S) /\ Cardinality(S) \in Nat
  BY ExecAssumption, FS_Subset, FS_CardinalityType

LEMMA CountMonotone ==
    ASSUME NEW S \in SUBSET Requests, NEW T \in SUBSET S
    PROVE  Cardinality(T) <= Cardinality(S)
  BY Count, FS_Subset

LEMMA CountOneMore ==
    ASSUME NEW S \in SUBSET Requests, NEW r \in Requests
    PROVE  Cardinality(S \cup {r}) <= Cardinality(S) + 1
  <1>1. IsFiniteSet(S) /\ Cardinality(S) \in Nat
    BY Count
  <1>2. Cardinality(S \cup {r}) = IF r \in S THEN Cardinality(S) ELSE Cardinality(S) + 1
    BY <1>1, FS_AddElement
  <1> QED
    BY <1>1, <1>2

LEMMA CapsTyped ==
    ASSUME NEW r \in Requests
    PROVE  UserCap(r) \in Nat /\ TotalCap(r) \in Nat
  BY ExecAssumption DEF UserCap, TotalCap

(* A step that leaves the registry, or only takes from it, keeps every     *)
(* check that was made before it.                                          *)
LEMMA ChecksKept ==
    ASSUME ETypeOK, ChecksHold, sessions' \subseteq sessions,
           NEW q \in Window, q \notin raced
    PROVE  /\ CountForActor(ActorOf[q])' < UserCap(q)
           /\ stage[q] = "admitted" => CountForCluster(ClusterOf[q])' < TotalCap(q)
  <1>1. q \in Requests
    BY DEF Window
  <1>2. SessionsOf(ActorOf[q]) \in SUBSET Requests /\ SessionsOn(ClusterOf[q]) \in SUBSET Requests
    BY DEF ETypeOK, SessionsOf, SessionsOn
  <1>3. /\ SessionsOf(ActorOf[q])' \in SUBSET SessionsOf(ActorOf[q])
        /\ SessionsOn(ClusterOf[q])' \in SUBSET SessionsOn(ClusterOf[q])
    BY DEF SessionsOf, SessionsOn
  <1>4. /\ SessionsOf(ActorOf[q])' \in SUBSET Requests
        /\ SessionsOn(ClusterOf[q])' \in SUBSET Requests
    BY <1>2, <1>3
  <1>5. /\ Cardinality(SessionsOf(ActorOf[q])') <= Cardinality(SessionsOf(ActorOf[q]))
        /\ Cardinality(SessionsOn(ClusterOf[q])') <= Cardinality(SessionsOn(ClusterOf[q]))
    BY <1>2, <1>3, CountMonotone
  <1>6. /\ Cardinality(SessionsOf(ActorOf[q])) \in Nat
        /\ Cardinality(SessionsOf(ActorOf[q])') \in Nat
        /\ Cardinality(SessionsOn(ClusterOf[q])) \in Nat
        /\ Cardinality(SessionsOn(ClusterOf[q])') \in Nat
    BY <1>2, <1>4, Count
  <1>7. /\ CountForActor(ActorOf[q]) < UserCap(q)
        /\ stage[q] = "admitted" => CountForCluster(ClusterOf[q]) < TotalCap(q)
    BY DEF ChecksHold
  <1> QED
    BY <1>1, <1>5, <1>6, <1>7, CapsTyped DEF CountForActor, CountForCluster

(* ... and so does the registration of a session of another user on        *)
(* another cluster.                                                        *)
LEMMA ChecksUnrelated ==
    ASSUME ChecksHold, NEW r \in Requests, sessions' = sessions \cup {r},
           NEW q \in Window, q \notin raced, ~Shares(r, q)
    PROVE  /\ CountForActor(ActorOf[q])' < UserCap(q)
           /\ stage[q] = "admitted" => CountForCluster(ClusterOf[q])' < TotalCap(q)
  <1>1. /\ SessionsOf(ActorOf[q])' = SessionsOf(ActorOf[q])
        /\ SessionsOn(ClusterOf[q])' = SessionsOn(ClusterOf[q])
    BY DEF SessionsOf, SessionsOn, Shares
  <1> QED
    BY <1>1 DEF ChecksHold, CountForActor, CountForCluster

LEMMA EInit == Init => EInv
  <1> SUFFICES ASSUME Init PROVE EInv
    OBVIOUS
  <1>1. ETypeOK
    BY DEF Init, ETypeOK, Stages
  <1>2. RegistryExact
    BY DEF Init, RegistryExact, Listed
  <1>3. ChecksHold
    BY DEF Init, ChecksHold, Window
  <1>4. PinHasCause
    BY DEF Init, PinHasCause
  <1> QED
    BY <1>1, <1>2, <1>3, <1>4 DEF EInv

(* Type and registry over one step. *)
LEMMA TypeStep ==
    ASSUME ETypeOK, RegistryExact, [Next]_vars
    PROVE  ETypeOK' /\ RegistryExact'
  <1> USE DEF ETypeOK, RegistryExact, Stages, Listed, Goto, PolicyUnchanged
  <1>1. ASSUME NEW r \in Requests, CheckUser(r) PROVE ETypeOK' /\ RegistryExact'
    BY <1>1 DEF CheckUser
  <1>2. ASSUME NEW r \in Requests, CheckCluster(r) PROVE ETypeOK' /\ RegistryExact'
    BY <1>2 DEF CheckCluster
  <1>3. ASSUME NEW r \in Requests, UpgradeFails(r) PROVE ETypeOK' /\ RegistryExact'
    BY <1>3 DEF UpgradeFails
  <1>4. ASSUME NEW r \in Requests, Add(r) PROVE ETypeOK' /\ RegistryExact'
    BY <1>4 DEF Add, Window
  <1>5. ASSUME NEW r \in Requests, Fails(r) PROVE ETypeOK' /\ RegistryExact'
    BY <1>5 DEF Fails
  <1>6. ASSUME NEW r \in Requests, Choose(r) PROVE ETypeOK' /\ RegistryExact'
    BY <1>6 DEF Choose
  <1>7. ASSUME NEW r \in Requests, WsSucceeds(r) PROVE ETypeOK' /\ RegistryExact'
    BY <1>7 DEF WsSucceeds, StreamEnds
  <1>8. ASSUME NEW r \in Requests, SpdyFallsBack(r) PROVE ETypeOK' /\ RegistryExact'
    <2>1. ClusterOf[r] \in Clusters
      BY ExecAssumption
    <2>2. Attempts(ClusterOf[r]) \subseteq Requests
      BY DEF Attempts
    <2> QED
      BY <1>8, <2>1, <2>2 DEF SpdyFallsBack, StreamEnds
  <1>9. ASSUME NEW r \in Requests, EndsUncounted(r) PROVE ETypeOK' /\ RegistryExact'
    BY <1>9 DEF EndsUncounted, StreamEnds
  <1>10. ASSUME NEW r \in Requests, Remove(r) PROVE ETypeOK' /\ RegistryExact'
    BY <1>10 DEF Remove
  <1>11. ASSUME NEW c \in Clusters, PinExpires(c) PROVE ETypeOK' /\ RegistryExact'
    BY <1>11 DEF PinExpires
  <1>12. CASE UNCHANGED vars
    BY <1>12 DEF vars
  <1> QED
    BY <1>1, <1>2, <1>3, <1>4, <1>5, <1>6, <1>7, <1>8, <1>9, <1>10, <1>11, <1>12 DEF Next

(* A check is made, kept, or overtaken. *)
LEMMA ChecksStep ==
    ASSUME ETypeOK, ChecksHold, [Next]_vars
    PROVE  ChecksHold'
  <1> SUFFICES ASSUME NEW q \in Window' \ raced'
               PROVE  /\ CountForActor(ActorOf[q])' < UserCap(q)
                      /\ stage'[q] = "admitted"
                            => CountForCluster(ClusterOf[q])' < TotalCap(q)
    BY DEF ChecksHold, UserCap, TotalCap
  <1>q. q \in Requests /\ stage'[q] \in {"user", "admitted"} /\ q \notin raced'
    BY DEF Window
  <1>k. ASSUME q \in Window, q \notin raced, stage'[q] = "admitted" => stage[q] = "admitted",
               sessions' \subseteq sessions
        PROVE  /\ CountForActor(ActorOf[q])' < UserCap(q)
               /\ stage'[q] = "admitted" => CountForCluster(ClusterOf[q])' < TotalCap(q)
    BY <1>k, ChecksKept
  <1> USE DEF ETypeOK, Goto
  <1>1. ASSUME NEW r \in Requests, CheckUser(r) 
        PROVE  /\ CountForActor(ActorOf[q])' < UserCap(q)
               /\ stage'[q] = "admitted" => CountForCluster(ClusterOf[q])' < TotalCap(q)
    <2>1. CASE q = r
      <3>1. CountForActor(ActorOf[q])' = CountForActor(ActorOf[q]) /\ stage'[q] = "user"
        BY <1>1, <2>1 DEF CheckUser, CountForActor, SessionsOf
      <3> QED
        BY <1>1, <2>1, <3>1 DEF CheckUser
    <2>2. CASE q # r
      BY <1>1, <1>q, <1>k, <2>2 DEF CheckUser, Window
    <2> QED
      BY <2>1, <2>2
  <1>2. ASSUME NEW r \in Requests, CheckCluster(r) 
        PROVE  /\ CountForActor(ActorOf[q])' < UserCap(q)
               /\ stage'[q] = "admitted" => CountForCluster(ClusterOf[q])' < TotalCap(q)
    <2>1. CASE q = r
      <3>1. /\ CountForActor(ActorOf[q])' = CountForActor(ActorOf[q])
            /\ CountForCluster(ClusterOf[q])' = CountForCluster(ClusterOf[q])
        BY <1>2 DEF CheckCluster, CountForActor, SessionsOf, CountForCluster, SessionsOn
      <3>2. stage[q] = "user" /\ q \in Window \ raced
        BY <1>2, <1>q, <2>1 DEF CheckCluster, Window
      <3>3. CountForActor(ActorOf[q]) < UserCap(q)
        BY <3>2 DEF ChecksHold
      <3>4. CountForCluster(ClusterOf[q]) < TotalCap(q)
        BY <1>2, <1>q, <2>1 DEF CheckCluster
      <3> QED
        BY <3>1, <3>3, <3>4
    <2>2. CASE q # r
      BY <1>2, <1>q, <1>k, <2>2 DEF CheckCluster, Window
    <2> QED
      BY <2>1, <2>2
  <1>3. ASSUME NEW r \in Requests, UpgradeFails(r)
        PROVE  q \in Window /\ q \notin raced /\ stage'[q] = stage[q] /\ sessions' = sessions
    BY <1>3, <1>q DEF UpgradeFails, Window
  <1>4. ASSUME NEW r \in Requests, Add(r) 
        PROVE  /\ CountForActor(ActorOf[q])' < UserCap(q)
               /\ stage'[q] = "admitted" => CountForCluster(ClusterOf[q])' < TotalCap(q)
    <2>1. q # r /\ stage'[q] = stage[q] /\ q \in Window /\ q \notin raced
      BY <1>4, <1>q DEF Add, Window
    <2>2. ~Shares(r, q)
      BY <1>4, <1>q, <2>1 DEF Add
    <2> QED
      BY <1>4, <2>1, <2>2, ChecksUnrelated DEF Add
  <1>5. ASSUME NEW r \in Requests, Fails(r)
        PROVE  q \in Window /\ q \notin raced /\ stage'[q] = stage[q] /\ sessions' = sessions
    BY <1>5, <1>q DEF Fails, Window
  <1>6. ASSUME NEW r \in Requests, Choose(r)
        PROVE  q \in Window /\ q \notin raced /\ stage'[q] = stage[q] /\ sessions' = sessions
    BY <1>6, <1>q DEF Choose, Window
  <1>7. ASSUME NEW r \in Requests, StreamEnds(r)
        PROVE  q \in Window /\ q \notin raced /\ stage'[q] = stage[q] /\ sessions' = sessions
    BY <1>7, <1>q DEF StreamEnds, Window
  <1>8. ASSUME NEW r \in Requests, Remove(r)
        PROVE  /\ q \in Window /\ q \notin raced /\ stage'[q] = stage[q]
               /\ sessions' \subseteq sessions
    BY <1>8, <1>q DEF Remove, Window
  <1>9. ASSUME NEW c \in Clusters, PinExpires(c)
        PROVE  q \in Window /\ q \notin raced /\ stage'[q] = stage[q] /\ sessions' = sessions
    BY <1>9, <1>q DEF PinExpires, Window
  <1>10. ASSUME UNCHANGED vars
        PROVE  q \in Window /\ q \notin raced /\ stage'[q] = stage[q] /\ sessions' = sessions
    BY <1>10, <1>q DEF vars, Window
  <1> QED
    BY <1>k, <1>1, <1>2, <1>3, <1>4, <1>5, <1>6, <1>7, <1>8, <1>9, <1>10
       DEF Next, WsSucceeds, SpdyFallsBack, EndsUncounted

(* While a cluster is pinned no attempt over WebSocket begins on it. *)
LEMMA PinStep ==
    ASSUME ETypeOK, PinHasCause, [Next]_vars
    PROVE  PinHasCause'
  <1> SUFFICES ASSUME NEW c \in pinned'
               PROVE  fails'[c] >= FailThreshold /\ Attempts(c)' \subseteq atPin'[c]
    BY DEF PinHasCause
  <1> USE DEF ETypeOK, Goto, PolicyUnchanged, Attempts
  <1>c. c \in pinned'
    OBVIOUS
  <1>k. ASSUME Attempts(c)' \subseteq Attempts(c), c \in pinned, UNCHANGED <<fails, atPin>>
        PROVE  fails'[c] >= FailThreshold /\ Attempts(c)' \subseteq atPin'[c]
    BY <1>k DEF PinHasCause
  <1>1. ASSUME NEW r \in Requests, CheckUser(r)
        PROVE  Attempts(c)' \subseteq Attempts(c) /\ c \in pinned /\ UNCHANGED <<fails, atPin>>
    BY <1>1, <1>c DEF CheckUser
  <1>2. ASSUME NEW r \in Requests, CheckCluster(r)
        PROVE  Attempts(c)' \subseteq Attempts(c) /\ c \in pinned /\ UNCHANGED <<fails, atPin>>
    BY <1>2, <1>c DEF CheckCluster
  <1>3. ASSUME NEW r \in Requests, UpgradeFails(r)
        PROVE  Attempts(c)' \subseteq Attempts(c) /\ c \in pinned /\ UNCHANGED <<fails, atPin>>
    BY <1>3, <1>c DEF UpgradeFails
  <1>4. ASSUME NEW r \in Requests, Add(r)
        PROVE  Attempts(c)' \subseteq Attempts(c) /\ c \in pinned /\ UNCHANGED <<fails, atPin>>
    BY <1>4, <1>c DEF Add
  <1>5. ASSUME NEW r \in Requests, Fails(r)
        PROVE  Attempts(c)' \subseteq Attempts(c) /\ c \in pinned /\ UNCHANGED <<fails, atPin>>
    BY <1>5, <1>c DEF Fails
  <1>6. ASSUME NEW r \in Requests, Choose(r)
        PROVE  Attempts(c)' \subseteq Attempts(c) /\ c \in pinned /\ UNCHANGED <<fails, atPin>>
    BY <1>6, <1>c DEF Choose
  <1>7. ASSUME NEW r \in Requests, WsSucceeds(r)
        PROVE  Attempts(c)' \subseteq Attempts(c) /\ c \in pinned /\ fails'[c] = fails[c] /\ UNCHANGED atPin
    BY <1>7, <1>c DEF WsSucceeds, StreamEnds
  <1>8. ASSUME NEW r \in Requests, SpdyFallsBack(r)
        PROVE  fails'[c] >= FailThreshold /\ Attempts(c)' \subseteq atPin'[c]
    <2>1. ClusterOf[r] \in Clusters /\ c \in Clusters
      BY <1>8, ExecAssumption DEF SpdyFallsBack
    <2>2. Attempts(c)' \subseteq Attempts(c)
      BY <1>8 DEF SpdyFallsBack, StreamEnds
    <2>3. CASE c # ClusterOf[r]
      BY <1>8, <2>1, <2>2, <2>3 DEF SpdyFallsBack, PinHasCause
    <2>4. CASE c = ClusterOf[r] /\ c \in pinned
      <3>1. fails[c] >= FailThreshold /\ Attempts(c) \subseteq atPin[c] /\ fails[c] \in Nat
        BY <2>1, <2>4 DEF PinHasCause
      <3>2. fails'[c] = fails[c] + 1 /\ atPin'[c] = atPin[c]
        BY <1>8, <2>1, <2>4 DEF SpdyFallsBack
      <3> QED
        BY <2>2, <3>1, <3>2, ExecAssumption
    <2>5. CASE c = ClusterOf[r] /\ c \notin pinned
      <3>1. fails[c] + 1 >= FailThreshold /\ fails'[c] = fails[c] + 1
        BY <1>8, <2>1, <2>5 DEF SpdyFallsBack
      <3>2. atPin'[c] = Attempts(c)
        BY <1>8, <2>1, <2>5, <3>1 DEF SpdyFallsBack
      <3> QED
        BY <2>2, <3>1, <3>2
    <2> QED
      BY <2>3, <2>4, <2>5
  <1>9. ASSUME NEW r \in Requests, EndsUncounted(r)
        PROVE  Attempts(c)' \subseteq Attempts(c) /\ c \in pinned /\ UNCHANGED <<fails, atPin>>
    BY <1>9, <1>c DEF EndsUncounted, StreamEnds
  <1>10. ASSUME NEW r \in Requests, Remove(r)
        PROVE  fails'[c] >= FailThreshold /\ Attempts(c)' \subseteq atPin'[c]
    <2>1. c \in pinned /\ c \in Clusters /\ fails' = fails /\ atPin'[c] = atPin[c] \ {r}
      BY <1>10 DEF Remove
    <2>2. Attempts(c)' \subseteq Attempts(c) \ {r}
      BY <1>10 DEF Remove
    <2> QED
      BY <2>1, <2>2 DEF PinHasCause
  <1>11. ASSUME NEW d \in Clusters, PinExpires(d)
        PROVE  Attempts(c)' \subseteq Attempts(c) /\ c \in pinned /\ UNCHANGED <<fails, atPin>>
    BY <1>11, <1>c DEF PinExpires
  <1>12. ASSUME UNCHANGED vars
        PROVE  Attempts(c)' \subseteq Attempts(c) /\ c \in pinned /\ UNCHANGED <<fails, atPin>>
    BY <1>12, <1>c DEF vars
  <1>13. ASSUME NEW r \in Requests, WsSucceeds(r)
        PROVE  fails'[c] >= FailThreshold /\ Attempts(c)' \subseteq atPin'[c]
    BY <1>7, <1>13 DEF PinHasCause
  <1> QED
    BY <1>k, <1>1, <1>2, <1>3, <1>4, <1>5, <1>6, <1>8, <1>9, <1>10, <1>11, <1>12, <1>13 DEF Next

(* The registry is exact, checks that nobody overtook still hold, and a pin *)
(* has its cause, for any number of exec requests.                          *)
THEOREM ExecInvariance == Spec => []EInv
  <1>1. Init => EInv
    BY EInit
  <1>2. EInv /\ [Next]_vars => EInv'
    BY TypeStep, ChecksStep, PinStep DEF EInv
  <1> QED
    BY <1>1, <1>2, PTL DEF Spec

(* Only Add puts a session into the registry. *)
LEMMA OnlyAddAdds ==
    ASSUME [Next]_vars, NEW r \in sessions' \ sessions
    PROVE  r \in Requests /\ Add(r)
  <1>1. ASSUME NEW q \in Requests, Add(q) PROVE r = q
    BY <1>1 DEF Add
  <1>2. CASE UNCHANGED sessions
    BY <1>2
  <1>3. ASSUME NEW q \in Requests, Remove(q) PROVE FALSE
    BY <1>3 DEF Remove
  <1> QED
    BY <1>1, <1>2, <1>3
       DEF Next, vars, CheckUser, CheckCluster, UpgradeFails, Fails, Choose, WsSucceeds,
           SpdyFallsBack, EndsUncounted, StreamEnds, PinExpires

(* execHandler's caps hold for every session that was not overtaken between *)
(* its check and its registration.                                          *)
THEOREM CapsHold == Spec => CapUnlessRaced
  <1>1. ASSUME EInv, [Next]_vars, NEW r \in sessions' \ sessions, r \notin raced
        PROVE  /\ Cardinality({q \in sessions' : ActorOf[q] = ActorOf[r]}) <= UserCap(r)
               /\ Cardinality({q \in sessions' : ClusterOf[q] = ClusterOf[r]}) <= TotalCap(r)
    <2>1. r \in Requests /\ Add(r)
      BY <1>1, OnlyAddAdds
    <2>2. /\ CountForActor(ActorOf[r]) < UserCap(r)
          /\ CountForCluster(ClusterOf[r]) < TotalCap(r)
      BY <1>1, <2>1 DEF EInv, ChecksHold, Add, Window
    <2>3. /\ {q \in sessions' : ActorOf[q] = ActorOf[r]} = SessionsOf(ActorOf[r]) \cup {r}
          /\ {q \in sessions' : ClusterOf[q] = ClusterOf[r]} = SessionsOn(ClusterOf[r]) \cup {r}
      BY <2>1 DEF Add, SessionsOf, SessionsOn
    <2>4. SessionsOf(ActorOf[r]) \in SUBSET Requests /\ SessionsOn(ClusterOf[r]) \in SUBSET Requests
      BY <1>1 DEF EInv, ETypeOK, SessionsOf, SessionsOn
    <2>5. /\ Cardinality(SessionsOf(ActorOf[r]) \cup {r}) <= Cardinality(SessionsOf(ActorOf[r])) + 1
          /\ Cardinality(SessionsOn(ClusterOf[r]) \cup {r}) <= Cardinality(SessionsOn(ClusterOf[r])) + 1
      BY <2>1, <2>4, CountOneMore
    <2>6. /\ Cardinality(SessionsOf(ActorOf[r])) \in Nat
          /\ Cardinality(SessionsOn(ClusterOf[r])) \in Nat
          /\ Cardinality(SessionsOf(ActorOf[r]) \cup {r}) \in Nat
          /\ Cardinality(SessionsOn(ClusterOf[r]) \cup {r}) \in Nat
      <3>1. /\ SessionsOf(ActorOf[r]) \cup {r} \in SUBSET Requests
            /\ SessionsOn(ClusterOf[r]) \cup {r} \in SUBSET Requests
        BY <2>1, <2>4
      <3> QED
        BY <2>4, <3>1, Count
    <2>7. ASSUME NEW n \in Nat, NEW m \in Nat, NEW k \in Nat, n <= m + 1, m < k
          PROVE  n <= k
      BY <2>7
    <2>8. UserCap(r) \in Nat /\ TotalCap(r) \in Nat
      BY <2>1, CapsTyped
    <2>9. Cardinality(SessionsOf(ActorOf[r]) \cup {r}) <= UserCap(r)
      BY <2>2, <2>5, <2>6, <2>7, <2>8 DEF CountForActor
    <2>10. Cardinality(SessionsOn(ClusterOf[r]) \cup {r}) <= TotalCap(r)
      BY <2>2, <2>5, <2>6, <2>7, <2>8 DEF CountForCluster
    <2> QED
      BY <2>3, <2>9, <2>10
  <1>2. EInv /\ [Next]_vars =>
          [\A r \in sessions' \ sessions : r \notin raced =>
             /\ Cardinality({q \in sessions' : ActorOf[q] = ActorOf[r]}) <= UserCap(r)
             /\ Cardinality({q \in sessions' : ClusterOf[q] = ClusterOf[r]}) <= TotalCap(r)]_vars
    BY <1>1
  <1> QED
    BY <1>2, ExecInvariance, PTL DEF Spec, CapUnlessRaced

(* No session that was started under a pin ends it: only time, or the       *)
(* success of an attempt older than the pin (Policy.RecordResult).          *)
THEOREM OldSessionsUnpin == Spec => UnpinnedByOldSession
  <1>1. ASSUME EInv, [Next]_vars, NEW c \in pinned \ pinned'
        PROVE  \/ UNCHANGED stage
               \/ \E r \in atPin[c] : stage[r] = "streaming" /\ stage'[r] = "over"
    <2>1. ASSUME NEW r \in Requests, WsSucceeds(r)
          PROVE  r \in atPin[c] /\ stage[r] = "streaming" /\ stage'[r] = "over"
      <3>1. c = ClusterOf[r]
        BY <2>1 DEF WsSucceeds
      <3>2. r \in Attempts(c)
        BY <2>1, <3>1 DEF WsSucceeds, StreamEnds, Attempts
      <3>3. r \in atPin[c]
        BY <1>1, <3>2 DEF EInv, PinHasCause
      <3> QED
        BY <1>1, <2>1, <3>3 DEF WsSucceeds, StreamEnds, Goto, EInv, ETypeOK
    <2>2. ASSUME NEW d \in Clusters, PinExpires(d) PROVE UNCHANGED stage
      BY <2>2 DEF PinExpires
    <2>3. ASSUME NEW r \in Requests, SpdyFallsBack(r) PROVE FALSE
      BY <2>3 DEF SpdyFallsBack
    <2>4. CASE UNCHANGED pinned
      BY <2>4
    <2> QED
      BY <1>1, <2>1, <2>2, <2>3, <2>4
         DEF Next, vars, CheckUser, CheckCluster, UpgradeFails, Add, Fails, Choose,
             EndsUncounted, Remove, PolicyUnchanged
  <1>2. EInv /\ [Next]_vars =>
          [\A c \in pinned \ pinned' :
             \/ UNCHANGED stage
             \/ \E r \in atPin[c] : stage[r] = "streaming" /\ stage'[r] = "over"]_vars
    BY <1>1
  <1> QED
    BY <1>2, ExecInvariance, PTL DEF Spec, UnpinnedByOldSession
=============================================================================
