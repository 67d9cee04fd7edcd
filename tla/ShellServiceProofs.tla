------------------------- MODULE ShellServiceProofs -------------------------
(***************************************************************************)
(* ShellService for any finite set of tabs and any caps and bounds: ShInv  *)
(* is inductive.                                                           *)
(***************************************************************************)
EXTENDS ShellService, FiniteSetTheorems, FunctionTheorems, SequenceTheorems, TLAPS

-----------------------------------------------------------------------------
(* The budget.                                                             *)

Budget(o, f) == o + f

LEMMA Constants ==
    /\ SessionCap \in Nat /\ UserCap \in Nat /\ MaxAttempts \in Nat
    /\ MaxOpens \in Nat /\ MaxFaults \in Nat /\ IsFiniteSet(Tab)
  BY ShellAssumption

(* An opened tab pays for a session, and so does a fault. *)
LEMMA BudgetFacts ==
    ASSUME NEW o \in 0 .. MaxOpens, NEW f \in 0 .. MaxFaults
    PROVE  /\ Budget(o, f) \in Nat
           /\ \A k \in Nat : Budget(o + k, f) = Budget(o, f) + k
           /\ Budget(o, f + 1) = Budget(o, f) + 1
           /\ Budget(o, f) <= MaxOpens + MaxFaults
           /\ Ids = 1 .. MaxOpens + MaxFaults
           /\ MaxOpens + MaxFaults \in Nat
  BY Constants DEF Budget, Ids

LEMMA BudgetGrows ==
    ASSUME NEW o \in 0 .. MaxOpens, NEW p \in 0 .. MaxOpens, o <= p,
           NEW f \in 0 .. MaxFaults, NEW g \in 0 .. MaxFaults, f <= g
    PROVE  Budget(o, f) <= Budget(p, g) /\ Budget(p, g) \in Nat
  BY Constants DEF Budget

-----------------------------------------------------------------------------
(* One session.                                                            *)

Made(pc) == IF pc = "pod" THEN {"secret"}
            ELSE IF pc \in {"wait", "run", "close"} THEN {"pod", "secret"} ELSE {}

\* A session in order: TypeOK and StepOK of one.
RecOK(r) ==
    /\ r \in Sessions /\ r.objs = Made(r.pc)
    /\ \A i \in 1 .. Len(r.wire) : r.wire[i] = "drop" => r.pc = "ended"

LEMMA StepIsRec ==
    ASSUME \A s \in DOMAIN sess : sess[s] \in Sessions
    PROVE  StepOK <=> \A s \in DOMAIN sess : RecOK(sess[s])
  BY DEF StepOK, RecOK, Made, Ended

LEMMA RecFields ==
    ASSUME NEW r, r \in Sessions
    PROVE  /\ r.pc \in Pcs /\ r.peer \in BOOLEAN /\ r.wire \in Seq(Frames)
           /\ r.objs \in SUBSET {"pod", "secret"}
           /\ r = [pc |-> r.pc, peer |-> r.peer, wire |-> r.wire, objs |-> r.objs]
  BY DEF Sessions

LEMMA NewRec == RecOK(NewSession) /\ NewSession.pc = "check" /\ NewSession.peer = TRUE
  <1>1. <<>> \in Seq(Frames) /\ Len(<<>>) = 0
    OBVIOUS
  <1>2. NewSession \in Sessions
    BY <1>1 DEF NewSession, Sessions, Pcs
  <1> QED BY <1>1, <1>2 DEF RecOK, NewSession, Made

(* A frame on the wire, if somebody is there. *)
LEMMA WireAppend ==
    ASSUME NEW w \in Seq(Frames), NEW frame \in Frames, NEW over \in BOOLEAN,
           \A i \in 1 .. Len(w) : w[i] = "drop" => over, frame = "drop" => over
    PROVE  /\ Append(w, frame) \in Seq(Frames)
           /\ \A i \in 1 .. Len(Append(w, frame)) : Append(w, frame)[i] = "drop" => over
  <1>1. Append(w, frame) \in Seq(Frames) /\ Len(Append(w, frame)) = Len(w) + 1 /\ Len(w) \in Nat
    OBVIOUS
  <1>2. ASSUME NEW i \in 1 .. Len(Append(w, frame)), Append(w, frame)[i] = "drop" PROVE over
    <2>1. CASE i = Len(w) + 1
      BY <1>2, <2>1
    <2>2. CASE i # Len(w) + 1
      <3>1. i \in 1 .. Len(w)
        BY <1>1, <2>2
      <3>2. Append(w, frame)[i] = w[i]
        BY <3>1
      <3> QED BY <1>2, <3>1, <3>2
    <2> QED BY <2>1, <2>2
  <1> QED BY <1>1, <1>2

LEMMA TellRec ==
    ASSUME NEW r, RecOK(r), NEW frame \in Frames, frame = "drop" => r.pc = "ended"
    PROVE  /\ RecOK(Tell(r, frame)) /\ Tell(r, frame).pc = r.pc
           /\ Tell(r, frame).peer = r.peer
  <1> DEFINE w == IF r.peer THEN Append(r.wire, frame) ELSE r.wire
             over == r.pc = "ended"
  <1>1. /\ r \in Sessions /\ r.pc \in Pcs /\ r.peer \in BOOLEAN /\ r.wire \in Seq(Frames)
        /\ r.objs \in SUBSET {"pod", "secret"} /\ r.objs = Made(r.pc)
        /\ r = [pc |-> r.pc, peer |-> r.peer, wire |-> r.wire, objs |-> r.objs]
        /\ \A i \in 1 .. Len(r.wire) : r.wire[i] = "drop" => over
    BY RecFields DEF RecOK
  <1>2. over \in BOOLEAN
    OBVIOUS
  <1>3. w \in Seq(Frames) /\ \A i \in 1 .. Len(w) : w[i] = "drop" => over
    <2>1. /\ Append(r.wire, frame) \in Seq(Frames)
          /\ \A i \in 1 .. Len(Append(r.wire, frame)) : Append(r.wire, frame)[i] = "drop" => over
      <3> HIDE DEF over
      <3>1. frame = "drop" => over
        BY DEF over
      <3> QED BY <1>1, <1>2, <3>1, WireAppend
    <2> QED BY <1>1, <2>1
  <1>4. Tell(r, frame) = [r EXCEPT !.wire = w]
    BY DEF Tell
  <1> HIDE DEF w
  <1>5. Tell(r, frame) \in Sessions
    BY <1>1, <1>3, <1>4 DEF Sessions
  <1>6. Tell(r, frame).pc = r.pc /\ Tell(r, frame).peer = r.peer /\ Tell(r, frame).wire = w /\ Tell(r, frame).objs = r.objs
    BY <1>1, <1>4 DEF Sessions
  <1> QED BY <1>1, <1>3, <1>5, <1>6 DEF RecOK

LEMMA OverRec ==
    ASSUME NEW r, RecOK(r)
    PROVE  RecOK(Over(r)) /\ Over(r).pc = "ended" /\ Over(r).peer = r.peer
  <1> DEFINE o == [NewSession EXCEPT !.pc = "ended", !.peer = r.peer, !.wire = r.wire]
  <1>1. r \in Sessions /\ r.peer \in BOOLEAN /\ r.wire \in Seq(Frames)
    BY RecFields DEF RecOK
  <1>2. NewSession \in Sessions /\ NewSession.objs = {} /\ "ended" \in Pcs
    BY NewRec DEF RecOK, NewSession, Pcs
  <1>3. o \in Sessions /\ o.pc = "ended" /\ o.peer = r.peer /\ o.objs = {}
    BY <1>1, <1>2 DEF Sessions
  <1>4. RecOK(o)
    BY <1>3 DEF RecOK, Made
  <1>5. "drop" \in Frames /\ Over(r) = Tell(o, "drop")
    BY DEF Frames, Over
  <1> HIDE DEF o
  <1> QED BY <1>3, <1>4, <1>5, TellRec

(* A session moves on: its pc and its objects. *)
LEMMA MovedRec ==
    ASSUME NEW r, RecOK(r), r.pc # "ended", NEW m \in Sessions, m.pc # "ended",
           m.objs = Made(m.pc), m.wire = r.wire
    PROVE  RecOK(m)
  BY DEF RecOK

(* The browser leaves, or reads a frame. *)
LEMMA LeftRec ==
    ASSUME NEW r, RecOK(r), NEW m \in Sessions, m.pc = r.pc, m.objs = r.objs,
           \A i \in 1 .. Len(m.wire) : \E j \in 1 .. Len(r.wire) : m.wire[i] = r.wire[j]
    PROVE  RecOK(m)
  BY DEF RecOK

(* Sessions that are kept are as they were. *)
LEMMA KeptFacts ==
    ASSUME NEW f, NEW tabs
    PROVE  /\ DOMAIN Kept(f, tabs) \subseteq DOMAIN f
           /\ \A s \in DOMAIN Kept(f, tabs) : Kept(f, tabs)[s] = f[s]
           /\ \A s \in DOMAIN f : s \in DOMAIN Kept(f, tabs)
                <=> (f[s].pc # "ended" \/ \E t \in Tab : tabs[t].session = s)
  BY DEF Kept
-----------------------------------------------------------------------------
(* Steps that open no socket.                                              *)

(* What the invariant says of each session. *)
LEMMA AllRec ==
    ASSUME ShInv
    PROVE  /\ \A s \in DOMAIN sess : RecOK(sess[s]) /\ sess[s] \in Sessions
           /\ tab \in [Tab -> Tabs] /\ recent \subseteq Tab /\ DOMAIN sess \subseteq Ids
           /\ opens \in 0 .. MaxOpens /\ faults \in 0 .. MaxFaults /\ orphans \subseteq {TRUE}
  BY StepIsRec DEF ShInv, ShTypeOK, NoLeakUnlessFault

(* The cardinalities are numbers. *)
LEMMA Sizes ==
    ASSUME ShInv
    PROVE  /\ IsFiniteSet(DOMAIN sess) /\ Cardinality(DOMAIN sess) \in Nat
           /\ IsFiniteSet(Reconnecting) /\ Cardinality(Reconnecting) \in Nat
           /\ Cardinality(DOMAIN sess) + Cardinality(Reconnecting) <= Budget(opens, faults)
           /\ Budget(opens, faults) \in Nat
  <1>1. DOMAIN sess \subseteq Ids /\ opens \in 0 .. MaxOpens /\ faults \in 0 .. MaxFaults
    BY AllRec
  <1>2. IsFiniteSet(Ids)
    <2>1. 1 \in Int /\ MaxOpens + MaxFaults \in Int /\ Ids = 1 .. MaxOpens + MaxFaults
      BY <1>1, BudgetFacts
    <2> QED BY <2>1, FS_Interval
  <1>3. IsFiniteSet(DOMAIN sess) /\ IsFiniteSet(Reconnecting)
    BY <1>1, <1>2, Constants, FS_Subset DEF Reconnecting
  <1>4. Cardinality(DOMAIN sess) + Cardinality(Reconnecting) <= Budget(opens, faults)
    BY DEF ShInv, Paid, Budget
  <1> QED BY <1>1, <1>3, <1>4, BudgetFacts, FS_CardinalityType

(* No new sessions: tabs stay on theirs or leave. *)
LEMMA NoSocket ==
    ASSUME ShInv,
           DOMAIN sess' \subseteq DOMAIN sess, \A s \in DOMAIN sess' : RecOK(sess'[s]),
           tab' \in [Tab -> Tabs], \A t \in Tab : tab'[t].session \in {0, tab[t].session},
           \A t \in Tab : tab'[t].session # 0
              => tab'[t].session \in DOMAIN sess' /\ sess'[tab'[t].session].peer,
           recent' \subseteq Tab, opens' = opens, faults' \in 0 .. MaxFaults, orphans' \subseteq {TRUE},
           Cardinality(DOMAIN sess') + Cardinality(Reconnecting') <= Budget(opens, faults'),
           \A t \in Reconnecting' : tab'[t].attempt < MaxAttempts
    PROVE  ShInv'
  <1>1. \A s \in DOMAIN sess' : sess'[s] \in Sessions
    BY DEF RecOK
  <1>2. ShTypeOK'
    BY <1>1, AllRec DEF ShTypeOK
  <1>3. TabsApart'
    BY DEF ShInv, TabsApart
  <1>4. StepOK'
    BY <1>1 DEF StepOK, RecOK, Made, Ended
  <1>5. Paid'
    BY DEF Paid, Budget
  <1> QED BY <1>2, <1>3, <1>4, <1>5 DEF ShInv, NoLeakUnlessFault

(* The server's steps: no tab moves, and only sessions without one go. *)
LEMMA ServerStep ==
    ASSUME ShInv, UNCHANGED <<tab, recent, opens>>, faults' = faults \/ Fault, orphans' \subseteq {TRUE},
           DOMAIN sess' \subseteq DOMAIN sess,
           \A s \in DOMAIN sess' : RecOK(sess'[s]) /\ sess'[s].peer = sess[s].peer,
           \A t \in Tab : tab[t].session # 0 => tab[t].session \in DOMAIN sess'
    PROVE  ShInv'
  <1>1. tab \in [Tab -> Tabs] /\ recent \subseteq Tab /\ opens \in 0 .. MaxOpens /\ faults \in 0 .. MaxFaults
    BY AllRec
  <1>2. faults' \in 0 .. MaxFaults /\ faults <= faults' /\ faults' \in {faults, faults + 1}
    BY <1>1, Constants DEF Fault
  <1>3. \A t \in Tab : tab'[t].session \in {0, tab[t].session}
    OBVIOUS
  <1>4. \A t \in Tab : tab'[t].session # 0 => tab'[t].session \in DOMAIN sess' /\ sess'[tab'[t].session].peer
    BY DEF ShInv, TabsApart
  <1>5. Reconnecting' = Reconnecting
    BY DEF Reconnecting
  <1>6. Cardinality(DOMAIN sess') + Cardinality(Reconnecting') <= Budget(opens, faults')
    <2>1. Cardinality(DOMAIN sess') \in Nat /\ Cardinality(DOMAIN sess') <= Cardinality(DOMAIN sess)
      BY Sizes, FS_Subset, FS_CardinalityType
    <2>2. Budget(opens, faults) <= Budget(opens, faults') /\ Budget(opens, faults') \in Nat
      <3>1. opens <= opens
        BY <1>1, Constants
      <3> QED BY <1>1, <1>2, <3>1, BudgetGrows
    <2>3. Cardinality(Reconnecting') = Cardinality(Reconnecting)
      BY <1>5
    <2> QED BY <2>1, <2>2, <2>3, Sizes
  <1>7. \A t \in Reconnecting' : tab'[t].attempt < MaxAttempts
    BY <1>5 DEF ShInv, Paid
  <1>8. tab' \in [Tab -> Tabs] /\ recent' \subseteq Tab /\ opens' = opens
    BY <1>1
  <1> QED BY <1>2, <1>3, <1>4, <1>6, <1>7, <1>8, NoSocket

(* One session goes on. *)
LEMMA StepStep ==
    ASSUME ShInv, NEW s, NEW from, NEW rec, s \in DOMAIN sess => RecOK(rec) /\ rec.peer = sess[s].peer,
           Step(s, from, rec), UNCHANGED faults
    PROVE  ShInv'
  <1>1. s \in DOMAIN sess /\ sess' = [sess EXCEPT ![s] = rec] /\ UNCHANGED <<tab, recent, opens, orphans>>
    BY DEF Step
  <1>2. \A k \in DOMAIN sess : RecOK(sess[k])
    BY AllRec
  <1>3. DOMAIN sess' = DOMAIN sess
    BY <1>1
  <1>4. \A k \in DOMAIN sess' : RecOK(sess'[k]) /\ sess'[k].peer = sess[k].peer
    BY <1>1, <1>2
  <1>5. orphans' \subseteq {TRUE}
    BY <1>1, AllRec
  <1>6. \A t \in Tab : tab[t].session # 0 => tab[t].session \in DOMAIN sess'
    BY <1>3 DEF ShInv, TabsApart
  <1>7. UNCHANGED <<tab, recent, opens>>
    BY <1>1
  <1>8. DOMAIN sess' \subseteq DOMAIN sess
    BY <1>3
  <1> HIDE <1>1
  <1> QED BY <1>4, <1>5, <1>6, <1>7, <1>8, ServerStep

(* A handler returns. *)
LEMMA ReturnStep ==
    ASSUME ShInv, NEW s, NEW from, NEW objs, NEW fault \in BOOLEAN, Return(s, from, objs, fault),
           fault \/ objs = {}
    PROVE  ShInv'
  <1> DEFINE f == [sess EXCEPT ![s] = Over(sess[s])]
  <1>1. /\ s \in DOMAIN sess /\ sess' = Kept(f, tab) /\ UNCHANGED <<tab, recent, opens>>
        /\ orphans' = (IF objs = {} THEN orphans ELSE orphans \union {fault})
        /\ faults' = faults \/ Fault
    BY DEF Return
  <1>2. \A k \in DOMAIN sess : RecOK(sess[k])
    BY AllRec
  <1>3. RecOK(Over(sess[s])) /\ Over(sess[s]).peer = sess[s].peer
    BY <1>1, <1>2, OverRec
  <1>4. DOMAIN f = DOMAIN sess /\ \A k \in DOMAIN f : RecOK(f[k]) /\ f[k].peer = sess[k].peer
    BY <1>1, <1>2, <1>3
  <1>5. orphans' \subseteq {TRUE}
    <2>1. orphans \subseteq {TRUE}
      BY AllRec
    <2>2. fault => fault = TRUE
      OBVIOUS
    <2> QED BY <1>1, <2>1, <2>2
  <1> HIDE DEF f
  <1>6. DOMAIN sess' \subseteq DOMAIN sess /\ \A k \in DOMAIN sess' : RecOK(sess'[k]) /\ sess'[k].peer = sess[k].peer
    BY <1>1, <1>4, KeptFacts
  <1>7. \A t \in Tab : tab[t].session # 0 => tab[t].session \in DOMAIN sess'
    BY <1>1, <1>4, KeptFacts DEF ShInv, TabsApart
  <1>8. UNCHANGED <<tab, recent, opens>> /\ (faults' = faults \/ Fault)
    BY <1>1
  <1> QED BY <1>5, <1>6, <1>7, <1>8, ServerStep

LEMMA CrashStep ==
    ASSUME ShInv, Crash
    PROVE  ShInv'
  <1> DEFINE f == [s \in DOMAIN sess |-> IF Ended(s) THEN sess[s] ELSE Over(sess[s])]
  <1>1. /\ sess' = Kept(f, tab) /\ UNCHANGED <<tab, recent, opens>> /\ Fault
        /\ orphans' = (IF \E s \in DOMAIN sess : sess[s].objs # {} THEN orphans \union {TRUE} ELSE orphans)
    BY DEF Crash
  <1>2. \A k \in DOMAIN sess : RecOK(sess[k])
    BY AllRec
  <1>3. \A k \in DOMAIN sess : RecOK(Over(sess[k])) /\ Over(sess[k]).peer = sess[k].peer
    BY <1>2, OverRec
  <1>4. DOMAIN f = DOMAIN sess /\ \A k \in DOMAIN f : RecOK(f[k]) /\ f[k].peer = sess[k].peer
    BY <1>2, <1>3
  <1>5. orphans' \subseteq {TRUE}
    BY <1>1, AllRec
  <1> HIDE DEF f
  <1>6. DOMAIN sess' \subseteq DOMAIN sess /\ \A k \in DOMAIN sess' : RecOK(sess'[k]) /\ sess'[k].peer = sess[k].peer
    BY <1>1, <1>4, KeptFacts
  <1>7. \A t \in Tab : tab[t].session # 0 => tab[t].session \in DOMAIN sess'
    BY <1>1, <1>4, KeptFacts DEF ShInv, TabsApart
  <1>8. UNCHANGED <<tab, recent, opens>> /\ (faults' = faults \/ Fault)
    BY <1>1
  <1> QED BY <1>5, <1>6, <1>7, <1>8, ServerStep

(* Every step of a handler. *)
LEMMA HandlerStep ==
    ASSUME ShInv, NEW s \in DOMAIN sess,
           Serve(s) \/ RunEnds(s) \/ CreateSecretUnanswered(s) \/ CreatePodFailsBadly(s) \/ CloseGivesUp(s)
    PROVE  ShInv'
  <1>1. /\ RecOK(sess[s]) /\ sess[s] \in Sessions /\ sess[s].peer \in BOOLEAN
        /\ sess[s].objs = Made(sess[s].pc) /\ sess[s].objs \subseteq {"pod", "secret"}
    BY AllRec, RecFields DEF RecOK
  <1>2. TRUE \in BOOLEAN /\ FALSE \in BOOLEAN
    OBVIOUS
  \* Returning.
  <1>3. CASE Refuse(s) \/ AcceptFails(s) \/ StartFails(s)
    BY <1>2, <1>3, ReturnStep DEF Refuse, AcceptFails, StartFails
  <1>4. CASE CreateSecretUnanswered(s) \/ CreatePodFailsBadly(s) \/ CloseGivesUp(s)
    BY <1>2, <1>4, ReturnStep DEF CreateSecretUnanswered, CreatePodFailsBadly, CloseGivesUp
  <1>5. CASE CreatePodFails(s)
    <2>1. sess[s].pc = "pod" /\ Return(s, "pod", sess[s].objs \ {"secret"}, FALSE)
      BY <1>5 DEF CreatePodFails, Return
    <2>2. sess[s].objs \ {"secret"} = {}
      BY <1>1, <2>1 DEF Made
    <2> QED BY <1>2, <2>1, <2>2, ReturnStep
  <1>6. CASE PodNotReady(s) \/ CloseSession(s)
    <2>1. sess[s].objs \ {"pod", "secret"} = {}
      BY <1>1
    <2>2. PICK from : DeletePodAndSecret(s, from)
      BY <1>6 DEF PodNotReady, CloseSession
    <2>3. CASE Return(s, from, sess[s].objs \ {"pod", "secret"}, FALSE)
      BY <1>2, <2>1, <2>3, ReturnStep
    <2>4. CASE \E failed \in SUBSET sess[s].objs \ {{}} : Return(s, from, failed, TRUE)
      BY <1>2, <2>4, ReturnStep
    <2> QED BY <2>2, <2>3, <2>4 DEF DeletePodAndSecret
  \* Going on.
  <1>7. ASSUME NEW pc \in Pcs \ {"ended"}, NEW m, m = [sess[s] EXCEPT !.pc = pc], sess[s].pc # "ended",
               Made(pc) = Made(sess[s].pc)
        PROVE  RecOK(m) /\ m.peer = sess[s].peer /\ m.pc = pc
    <2>1. m \in Sessions /\ m.pc = pc /\ m.peer = sess[s].peer /\ m.wire = sess[s].wire /\ m.objs = sess[s].objs
      BY <1>1, <1>7 DEF Sessions
    <2>2. RecOK(m)
      BY <1>1, <1>7, <2>1, MovedRec
    <2> QED BY <2>1, <2>2
  <1>8. CASE Admit(s)
    <2> DEFINE m == [sess[s] EXCEPT !.pc = "accept"]
    <2>1. sess[s].pc = "check" /\ Step(s, "check", m) /\ UNCHANGED faults
      BY <1>8 DEF Admit, Step
    <2>2. "accept" \in Pcs \ {"ended"} /\ Made("accept") = Made("check")
      BY DEF Pcs, Made
    <2>3. RecOK(m) /\ m.peer = sess[s].peer
      BY <1>7, <2>1, <2>2
    <2> HIDE DEF m
    <2> QED BY <2>1, <2>3, StepStep
  <1>9. CASE Accept(s)
    <2> DEFINE m == [sess[s] EXCEPT !.pc = "secret"]
    <2>1. sess[s].pc = "accept" /\ Step(s, "accept", m) /\ UNCHANGED faults
      BY <1>9 DEF Accept, Step
    <2>2. "secret" \in Pcs \ {"ended"} /\ Made("secret") = Made("accept")
      BY DEF Pcs, Made
    <2>3. RecOK(m) /\ m.peer = sess[s].peer
      BY <1>7, <2>1, <2>2
    <2> HIDE DEF m
    <2> QED BY <2>1, <2>3, StepStep
  <1>10. CASE CreateSecret(s)
    <2> DEFINE m == [sess[s] EXCEPT !.pc = "pod", !.objs = {"secret"}]
    <2>1. sess[s].pc = "secret" /\ Step(s, "secret", m) /\ UNCHANGED faults
      BY <1>10 DEF CreateSecret, Step
    <2>2. /\ m \in Sessions /\ m.pc = "pod" /\ m.peer = sess[s].peer /\ m.wire = sess[s].wire
          /\ m.objs = Made("pod")
      BY <1>1 DEF Sessions, Pcs, Made
    <2>3. RecOK(m)
      BY <1>1, <2>1, <2>2, MovedRec
    <2> HIDE DEF m
    <2> QED BY <2>1, <2>2, <2>3, StepStep
  <1>11. CASE CreatePod(s)
    <2> DEFINE m == [sess[s] EXCEPT !.pc = "wait", !.objs = @ \union {"pod"}]
    <2>1. sess[s].pc = "pod" /\ Step(s, "pod", m) /\ UNCHANGED faults
      BY <1>11 DEF CreatePod, Step
    <2>2. sess[s].objs \union {"pod"} = {"pod", "secret"}
      BY <1>1, <2>1 DEF Made
    <2>3. /\ m \in Sessions /\ m.pc = "wait" /\ m.peer = sess[s].peer /\ m.wire = sess[s].wire
          /\ m.objs = {"pod", "secret"}
      BY <1>1, <2>2 DEF Sessions, Pcs
    <2>4. RecOK(m)
      BY <1>1, <2>1, <2>3, MovedRec DEF Made
    <2> HIDE DEF m
    <2> QED BY <2>1, <2>3, <2>4, StepStep
  <1>12. CASE Attach(s)
    <2> DEFINE m == [sess[s] EXCEPT !.pc = "run"]
    <2>1. sess[s].pc = "wait" /\ Step(s, "wait", Tell(m, "hello")) /\ UNCHANGED faults
      BY <1>12 DEF Attach, Step
    <2>2. "run" \in Pcs \ {"ended"} /\ Made("run") = Made("wait") /\ "hello" \in Frames /\ "hello" # "drop"
      BY DEF Pcs, Made, Frames
    <2>3. RecOK(m) /\ m.peer = sess[s].peer
      BY <1>7, <2>1, <2>2
    <2> HIDE DEF m
    <2>4. RecOK(Tell(m, "hello")) /\ Tell(m, "hello").peer = sess[s].peer
      BY <2>2, <2>3, TellRec
    <2> QED BY <2>1, <2>4, StepStep
  <1>13. CASE RunEnds(s)
    <2> DEFINE m == [sess[s] EXCEPT !.pc = "close"]
    <2>1. PICK frame \in {"closed", "error"} : Step(s, "run", Tell(m, frame)) /\ UNCHANGED faults
      BY <1>13 DEF RunEnds
    <2>2. "close" \in Pcs \ {"ended"} /\ Made("close") = Made("run") /\ frame \in Frames /\ frame # "drop"
      BY DEF Pcs, Made, Frames
    <2>3. sess[s].pc = "run"
      BY <2>1 DEF Step
    <2>4. RecOK(m) /\ m.peer = sess[s].peer
      BY <1>7, <2>2, <2>3
    <2> HIDE DEF m
    <2>5. RecOK(Tell(m, frame)) /\ Tell(m, frame).peer = sess[s].peer
      BY <2>2, <2>4, TellRec
    <2> QED BY <2>1, <2>5, StepStep
  <1>14. CASE PeerGone(s)
    <2> DEFINE m == [sess[s] EXCEPT !.pc = "close"]
    <2>1. sess[s].pc = "run" /\ Step(s, "run", m) /\ UNCHANGED faults
      BY <1>14 DEF PeerGone, Step
    <2>2. "close" \in Pcs \ {"ended"} /\ Made("close") = Made("run")
      BY DEF Pcs, Made
    <2>3. RecOK(m) /\ m.peer = sess[s].peer
      BY <1>7, <2>1, <2>2
    <2> HIDE DEF m
    <2> QED BY <2>1, <2>3, StepStep
  <1> QED BY <1>3, <1>4, <1>5, <1>6, <1>8, <1>9, <1>10, <1>11, <1>12, <1>13, <1>14 DEF Serve

-----------------------------------------------------------------------------
(* The browser: frames, lost connections, closed tabs.                     *)

(* A tab off its session, to try again or not. *)
LEMMA Rescheduled ==
    ASSUME NEW c \in Tabs
    PROVE  /\ ScheduleReconnect(c) \in Tabs /\ ScheduleReconnect(c).session = 0
           /\ ScheduleReconnect(c).attempt = c.attempt
           /\ ScheduleReconnect(c).status = "reconnecting" => c.attempt < MaxAttempts
  <1> DEFINE st == IF c.attempt >= MaxAttempts THEN "error" ELSE "reconnecting"
  <1>1. c.attempt \in Nat /\ MaxAttempts \in Nat
    BY Constants DEF Tabs
  <1>2. st \in {"error", "reconnecting"} /\ (st = "reconnecting" => c.attempt < MaxAttempts)
    BY <1>1
  <1>3. ScheduleReconnect(c) = [c EXCEPT !.status = st, !.session = 0]
    BY DEF ScheduleReconnect
  <1> HIDE DEF st
  <1>4. /\ ScheduleReconnect(c) \in Tabs /\ ScheduleReconnect(c).session = 0
        /\ ScheduleReconnect(c).attempt = c.attempt /\ ScheduleReconnect(c).status = st
    BY <1>2, <1>3 DEF Tabs
  <1> QED BY <1>2, <1>4

(* At most one tab more is about to reconnect. *)
LEMMA OneMore ==
    ASSUME ShInv, NEW t \in Tab, \A u \in Tab \ {t} : tab'[u] = tab[u]
    PROVE  /\ IsFiniteSet(Reconnecting') /\ Cardinality(Reconnecting') \in Nat
           /\ Cardinality(Reconnecting') <= Cardinality(Reconnecting) + 1
           /\ tab'[t].status # "reconnecting" => Cardinality(Reconnecting') <= Cardinality(Reconnecting)
  <1>1. /\ IsFiniteSet(Reconnecting \union {t})
        /\ Cardinality(Reconnecting \union {t}) <= Cardinality(Reconnecting) + 1
    <2>1. IsFiniteSet(Reconnecting) /\ Cardinality(Reconnecting) \in Nat
      BY Sizes
    <2>2. /\ IsFiniteSet(Reconnecting \union {t})
          /\ Cardinality(Reconnecting \union {t})
               = IF t \in Reconnecting THEN Cardinality(Reconnecting) ELSE Cardinality(Reconnecting) + 1
      BY <2>1, FS_AddElement
    <2> QED BY <2>1, <2>2
  <1>2. Reconnecting' \in SUBSET (Reconnecting \union {t})
    BY DEF Reconnecting
  <1>3. tab'[t].status # "reconnecting" => Reconnecting' \in SUBSET Reconnecting
    BY DEF Reconnecting
  <1>4. IsFiniteSet(Reconnecting') /\ Cardinality(Reconnecting') <= Cardinality(Reconnecting \union {t})
    BY <1>1, <1>2, FS_Subset
  <1>5. tab'[t].status # "reconnecting" => Cardinality(Reconnecting') <= Cardinality(Reconnecting)
    BY <1>3, Sizes, FS_Subset
  <1>6. Cardinality(Reconnecting') \in Nat /\ Cardinality(Reconnecting \union {t}) \in Nat
    BY <1>1, <1>4, FS_CardinalityType
  <1> QED BY <1>1, <1>4, <1>5, <1>6, Sizes

(* The next frame. *)
LEMMA ReceiveStep ==
    ASSUME ShInv, NEW t \in Tab, Receive(t)
    PROVE  ShInv'
  <1> DEFINE s == tab[t].session
             frame == Head(sess[s].wire)
             c == CASE frame = "hello" -> [tab[t] EXCEPT !.status = "connected", !.attempt = 0]
                    [] frame \in {"closed", "error"} -> [tab[t] EXCEPT !.status = frame, !.session = 0]
                    [] frame = "drop" -> ScheduleReconnect(tab[t])
             f == [sess EXCEPT ![s].wire = Tail(@), ![s].peer = (c.session = s)]
  <1>1. tab \in [Tab -> Tabs] /\ tab[t] \in Tabs
    BY AllRec
  <1>2. /\ s # 0 /\ sess[s].wire # <<>> /\ tab' = [tab EXCEPT ![t] = c]
        /\ UNCHANGED <<recent, opens, faults, orphans>>
    BY <1>1 DEF Receive
  <1>3. tab'[t] = c /\ \A u \in Tab \ {t} : tab'[u] = tab[u]
    BY <1>1, <1>2
  <1>4. sess' = Kept(f, tab')
    BY <1>1, <1>2, <1>3 DEF Receive
  <1>5. /\ s \in DOMAIN sess /\ sess[s].peer /\ \A u \in Tab : tab[u].session = s => u = t
        /\ RecOK(sess[s]) /\ sess[s] \in Sessions /\ \A k \in DOMAIN sess : RecOK(sess[k])
    BY <1>2, AllRec DEF ShInv, TabsApart
  <1> DEFINE w == sess[s].wire
  <1>6. /\ w \in Seq(Frames) /\ Tail(w) \in Seq(Frames) /\ frame = w[1] /\ frame \in Frames
        /\ Len(w) \in Nat \ {0} /\ Len(Tail(w)) = Len(w) - 1
        /\ \A i \in 1 .. Len(Tail(w)) : Tail(w)[i] = w[i + 1]
    <2>1. w \in Seq(Frames) /\ w # <<>>
      BY <1>2, <1>5, RecFields
    <2> HIDE DEF w
    <2> QED BY <2>1, EmptySeq, HeadTailProperties, ElementOfSeq DEF w
  <1>7. /\ c \in Tabs /\ c.session \in {0, s}
        /\ c.session = 0 <=> frame # "hello"
        /\ c.status = "reconnecting" => frame = "drop" /\ c.attempt < MaxAttempts
    <2>1. frame \in {"hello", "closed", "error", "drop"} /\ s \in Ids \union {0}
      BY <1>1, <1>6 DEF Frames, Tabs
    <2>2. CASE frame = "hello"
      <3>1. c = [tab[t] EXCEPT !.status = "connected", !.attempt = 0]
        BY <2>2
      <3>2. 0 \in 0 .. MaxAttempts
        BY Constants
      <3> HIDE DEF c, frame
      <3> QED BY <1>1, <1>2, <2>2, <3>1, <3>2 DEF Tabs
    <2>3. CASE frame \in {"closed", "error"}
      <3>1. c = [tab[t] EXCEPT !.status = frame, !.session = 0] /\ frame # "hello"
        BY <2>3
      <3> HIDE DEF c, frame
      <3> QED BY <1>1, <2>3, <3>1 DEF Tabs
    <2>4. CASE frame = "drop"
      <3>1. c = ScheduleReconnect(tab[t]) /\ frame # "hello"
        BY <2>4
      <3> HIDE DEF c, frame
      <3> QED BY <1>1, <2>4, <3>1, Rescheduled
    <2> HIDE DEF c, frame
    <2> QED BY <2>1, <2>2, <2>3, <2>4
  <1> HIDE DEF c, frame
  <1>8. /\ DOMAIN f = DOMAIN sess /\ \A k \in DOMAIN sess \ {s} : f[k] = sess[k]
        /\ f[s] = [[sess[s] EXCEPT !.wire = Tail(w)] EXCEPT !.peer = (c.session = s)]
    BY <1>5
  <1>9. f[s] \in Sessions /\ f[s].pc = sess[s].pc /\ f[s].objs = sess[s].objs /\ f[s].wire = Tail(w)
        /\ f[s].peer = (c.session = s)
    <2> DEFINE b == (c.session = s)
    <2>1. b \in BOOLEAN
      OBVIOUS
    <2>2. f[s] = [[sess[s] EXCEPT !.wire = Tail(w)] EXCEPT !.peer = b]
      BY <1>8
    <2> HIDE DEF b, f, s
    <2>3. f[s] \in Sessions /\ f[s].pc = sess[s].pc /\ f[s].objs = sess[s].objs /\ f[s].wire = Tail(w)
          /\ f[s].peer = b
      BY <1>5, <1>6, <2>1, <2>2 DEF Sessions
    <2> QED BY <2>3 DEF b
  <1> HIDE DEF f
  <1>10. RecOK(f[s])
    <2>1. \A i \in 1 .. Len(Tail(w)) : i + 1 \in 1 .. Len(w) /\ Tail(w)[i] = w[i + 1]
      BY <1>6
    <2>2. \A i \in 1 .. Len(f[s].wire) : \E j \in 1 .. Len(sess[s].wire) : f[s].wire[i] = sess[s].wire[j]
      BY <1>9, <2>1
    <2> QED BY <1>5, <1>9, <2>2, LeftRec
  <1>11. /\ DOMAIN sess' \subseteq DOMAIN sess
         /\ \A k \in DOMAIN sess' : RecOK(sess'[k])
    BY <1>4, <1>5, <1>8, <1>10, KeptFacts
  <1>12. tab' \in [Tab -> Tabs] /\ \A u \in Tab : tab'[u].session \in {0, tab[u].session}
    BY <1>1, <1>2, <1>3, <1>7
  <1>13. ASSUME NEW u \in Tab, tab'[u].session # 0
         PROVE  tab'[u].session \in DOMAIN sess' /\ sess'[tab'[u].session].peer
    <2>1. tab'[u].session = tab[u].session /\ tab[u].session # 0
      BY <1>12, <1>13
    <2>2. tab[u].session \in DOMAIN sess /\ sess[tab[u].session].peer
      BY <2>1 DEF ShInv, TabsApart
    <2>3. tab'[u].session \in DOMAIN sess'
      BY <1>4, <1>8, <2>1, <2>2, KeptFacts
    <2>4. CASE u = t
      <3>1. tab'[u].session = s /\ c.session = s
        BY <1>3, <2>1, <2>4
      <3>2. sess'[s] = f[s]
        BY <1>4, <2>3, <3>1, KeptFacts
      <3> QED BY <1>9, <2>3, <3>1, <3>2
    <2>5. CASE u # t
      <3>1. tab[u].session # s
        BY <1>5, <2>5
      <3> QED BY <1>4, <1>8, <2>1, <2>2, <2>3, <3>1, KeptFacts
    <2> QED BY <2>3, <2>4, <2>5
  <1>14. Cardinality(DOMAIN sess') + Cardinality(Reconnecting') <= Budget(opens, faults)
    <2>1. /\ Cardinality(Reconnecting') \in Nat /\ Cardinality(Reconnecting') <= Cardinality(Reconnecting) + 1
          /\ c.status # "reconnecting" => Cardinality(Reconnecting') <= Cardinality(Reconnecting)
      BY <1>3, OneMore
    <2>2. Cardinality(DOMAIN sess') \in Nat /\ Cardinality(DOMAIN sess') <= Cardinality(DOMAIN sess)
      BY <1>11, Sizes, FS_Subset, FS_CardinalityType
    <2>3. CASE c.status # "reconnecting"
      BY <2>1, <2>2, <2>3, Sizes
    <2>4. CASE c.status = "reconnecting"
      <3>1. frame = "drop" /\ c.session = 0
        BY <1>7, <2>4
      <3>2. sess[s].pc = "ended"
        <4>1. 1 \in 1 .. Len(w) /\ w[1] = "drop"
          BY <1>6, <3>1
        <4> QED BY <1>5, <4>1 DEF RecOK
      <3>3. s \notin DOMAIN sess'
        <4>1. \A u \in Tab : tab'[u].session # s
          BY <1>2, <1>3, <1>5, <3>1
        <4>2. f[s].pc = "ended"
          BY <1>9, <3>2
        <4>3. s \in DOMAIN f => (s \in DOMAIN Kept(f, tab') <=> (f[s].pc # "ended" \/ \E u \in Tab : tab'[u].session = s))
          BY KeptFacts
        <4> QED BY <1>4, <1>5, <1>8, <4>1, <4>2, <4>3
      <3>4. DOMAIN sess' \in SUBSET (DOMAIN sess \ {s})
        BY <1>11, <3>3
      <3>5. IsFiniteSet(DOMAIN sess \ {s}) /\ Cardinality(DOMAIN sess \ {s}) = Cardinality(DOMAIN sess) - 1
        BY <1>5, Sizes, FS_RemoveElement
      <3>6. Cardinality(DOMAIN sess') <= Cardinality(DOMAIN sess \ {s})
        BY <3>4, <3>5, FS_Subset
      <3> QED BY <2>1, <2>2, <3>5, <3>6, Sizes
    <2> QED BY <2>3, <2>4
  <1>15. \A u \in Reconnecting' : tab'[u].attempt < MaxAttempts
    BY <1>3, <1>7 DEF ShInv, Paid, Reconnecting
  <1>16. /\ recent' \subseteq Tab /\ opens' = opens /\ faults' \in 0 .. MaxFaults /\ orphans' \subseteq {TRUE}
         /\ Budget(opens, faults') = Budget(opens, faults)
    BY <1>2, AllRec
  <1>17. Cardinality(DOMAIN sess') + Cardinality(Reconnecting') <= Budget(opens, faults')
    BY <1>14, <1>16
  <1> HIDE <1>2, <1>3, <1>4
  <1> QED BY <1>11, <1>12, <1>13, <1>15, <1>16, <1>17, NoSocket

(* Sessions whose browser has gone. *)
LEMMA LeftByBrowser ==
    ASSUME NEW r, RecOK(r), NEW m, m = [r EXCEPT !.peer = FALSE, !.wire = <<>>]
    PROVE  RecOK(m) /\ m.pc = r.pc
  <1>1. r \in Sessions /\ <<>> \in Seq(Frames) /\ Len(<<>>) = 0
    BY DEF RecOK
  <1>2. m \in Sessions /\ m.pc = r.pc /\ m.objs = r.objs /\ m.wire = <<>>
    BY <1>1 DEF Sessions
  <1>3. \A i \in 1 .. Len(m.wire) : \E j \in 1 .. Len(r.wire) : m.wire[i] = r.wire[j]
    BY <1>1, <1>2
  <1> QED BY <1>2, <1>3, LeftRec

(* The tabs of T leave their sessions; the sessions do not know it. *)
LEMMA LeaveStep ==
    ASSUME ShInv, NEW T \in SUBSET Tab, NEW f,
           tab' \in [Tab -> Tabs], \A u \in Tab \ T : tab'[u] = tab[u],
           \A u \in T : tab'[u].session = 0,
           DOMAIN f = DOMAIN sess, \A k \in DOMAIN sess : RecOK(f[k]),
           \A k \in DOMAIN sess : (\A u \in T : tab[u].session # k) => f[k] = sess[k],
           sess' = Kept(f, tab'),
           recent' \subseteq Tab, opens' = opens, orphans' = orphans,
           faults' \in 0 .. MaxFaults,
           Cardinality(DOMAIN sess) + Cardinality(Reconnecting') <= Budget(opens, faults'),
           \A u \in Reconnecting' : tab'[u].attempt < MaxAttempts,
           Cardinality(Reconnecting') \in Nat
    PROVE  ShInv'
  <1>1. DOMAIN sess' \subseteq DOMAIN sess /\ \A k \in DOMAIN sess' : RecOK(sess'[k])
    BY KeptFacts
  <1>2. \A u \in Tab : tab'[u].session \in {0, tab[u].session}
    OBVIOUS
  <1>3. ASSUME NEW u \in Tab, tab'[u].session # 0
        PROVE  tab'[u].session \in DOMAIN sess' /\ sess'[tab'[u].session].peer
    <2>1. u \notin T /\ tab'[u].session = tab[u].session /\ tab[u].session # 0
      BY <1>3
    <2>2. /\ tab[u].session \in DOMAIN sess /\ sess[tab[u].session].peer
          /\ \A v \in Tab : tab[v].session = tab[u].session => v = u
      BY <2>1 DEF ShInv, TabsApart
    <2>3. f[tab[u].session] = sess[tab[u].session]
      BY <2>1, <2>2
    <2>4. tab'[u].session \in DOMAIN sess'
      BY <2>1, <2>2, KeptFacts
    <2>5. sess'[tab'[u].session] = f[tab'[u].session]
      BY <2>4, KeptFacts
    <2> QED BY <2>1, <2>2, <2>3, <2>4, <2>5
  <1>4. Cardinality(DOMAIN sess') + Cardinality(Reconnecting') <= Budget(opens, faults')
    <2>1. Cardinality(DOMAIN sess') \in Nat /\ Cardinality(DOMAIN sess') <= Cardinality(DOMAIN sess)
      BY <1>1, Sizes, FS_Subset, FS_CardinalityType
    <2>2. Budget(opens, faults') \in Nat
      BY AllRec, BudgetFacts
    <2> QED BY <2>1, <2>2, Sizes
  <1>5. orphans' \subseteq {TRUE}
    BY AllRec
  <1> QED BY <1>1, <1>2, <1>3, <1>4, <1>5, NoSocket

LEMMA ConnectionLostStep ==
    ASSUME ShInv, NEW t \in Tab, ConnectionLost(t)
    PROVE  ShInv'
  <1> DEFINE s == tab[t].session
             c == ScheduleReconnect(tab[t])
             f == [sess EXCEPT ![s].peer = FALSE, ![s].wire = <<>>]
  <1>1. tab \in [Tab -> Tabs] /\ tab[t] \in Tabs /\ faults \in 0 .. MaxFaults /\ opens \in 0 .. MaxOpens
    BY AllRec
  <1>2. /\ s # 0 /\ tab' = [tab EXCEPT ![t] = c] /\ sess' = Kept(f, tab')
        /\ faults < MaxFaults /\ faults' = faults + 1 /\ UNCHANGED <<recent, opens, orphans>>
    BY <1>1 DEF ConnectionLost, Fault
  <1>3. c \in Tabs /\ c.session = 0 /\ (c.status = "reconnecting" => c.attempt < MaxAttempts)
    BY <1>1, Rescheduled
  <1> HIDE DEF c
  <1>4. tab' \in [Tab -> Tabs] /\ tab'[t] = c /\ \A u \in Tab \ {t} : tab'[u] = tab[u]
    BY <1>1, <1>2, <1>3
  <1>5. s \in DOMAIN sess /\ \A k \in DOMAIN sess : RecOK(sess[k])
    BY <1>2, AllRec DEF ShInv, TabsApart
  <1>6. /\ DOMAIN f = DOMAIN sess /\ \A k \in DOMAIN sess \ {s} : f[k] = sess[k]
        /\ f[s] = [sess[s] EXCEPT !.peer = FALSE, !.wire = <<>>]
    BY <1>5
  <1> HIDE DEF f
  <1>7. \A k \in DOMAIN sess : RecOK(f[k])
    <2>1. RecOK(f[s])
      BY <1>5, <1>6, LeftByBrowser
    <2> QED BY <1>5, <1>6, <2>1
  <1>8. \A k \in DOMAIN sess : (\A u \in {t} : tab[u].session # k) => f[k] = sess[k]
    BY <1>6
  <1>9. Cardinality(Reconnecting') \in Nat /\ Cardinality(Reconnecting') <= Cardinality(Reconnecting) + 1
    BY <1>4, OneMore
  <1>10. faults' \in 0 .. MaxFaults /\ Budget(opens, faults') = Budget(opens, faults) + 1
    BY <1>1, <1>2, Constants, BudgetFacts
  <1>11. Cardinality(DOMAIN sess) + Cardinality(Reconnecting') <= Budget(opens, faults')
    BY <1>9, <1>10, Sizes
  <1>12. \A u \in Reconnecting' : tab'[u].attempt < MaxAttempts
    BY <1>3, <1>4 DEF ShInv, Paid, Reconnecting
  <1>13. recent' \subseteq Tab /\ opens' = opens /\ orphans' = orphans /\ sess' = Kept(f, tab')
    BY <1>2, AllRec
  <1> DEFINE T == {t}
  <1>14. /\ T \in SUBSET Tab /\ (\A u \in T : tab'[u].session = 0) /\ (\A u \in Tab \ T : tab'[u] = tab[u])
         /\ \A k \in DOMAIN sess : (\A u \in T : tab[u].session # k) => f[k] = sess[k]
    BY <1>3, <1>4, <1>8
  <1>15. tab' \in [Tab -> Tabs] /\ DOMAIN f = DOMAIN sess /\ faults' \in 0 .. MaxFaults
    BY <1>4, <1>6, <1>10
  <1> HIDE DEF T
  <1> HIDE <1>2
  <1> QED BY <1>7, <1>9, <1>11, <1>12, <1>13, <1>14, <1>15, LeaveStep

(* Tabs are closed here. *)
LEMMA HangupStep ==
    ASSUME ShInv, NEW T \in SUBSET Tab, Hangup(T), recent' \subseteq Tab, UNCHANGED <<opens, faults, orphans>>
    PROVE  ShInv'
  <1> DEFINE left == {tab[t].session : t \in T}
             f == [s \in DOMAIN sess |->
                     IF s \in left THEN [sess[s] EXCEPT !.peer = FALSE, !.wire = <<>>] ELSE sess[s]]
  <1>1. tab \in [Tab -> Tabs] /\ \A k \in DOMAIN sess : RecOK(sess[k])
    BY AllRec
  <1>2. tab' = Closed(T) /\ sess' = Kept(f, tab')
    BY DEF Hangup
  <1>3. [status |-> "closed", attempt |-> 0, session |-> 0] \in Tabs
    <2>1. 0 \in 0 .. MaxAttempts
      BY Constants
    <2> QED BY <2>1 DEF Tabs
  <1>4. /\ tab' \in [Tab -> Tabs] /\ \A u \in Tab \ T : tab'[u] = tab[u]
        /\ \A u \in T : tab'[u].session = 0 /\ tab'[u].status = "closed"
    BY <1>1, <1>2, <1>3 DEF Closed
  <1>5. DOMAIN f = DOMAIN sess /\ \A k \in DOMAIN sess : (\A u \in T : tab[u].session # k) => f[k] = sess[k]
    OBVIOUS
  <1>6. ASSUME NEW k \in DOMAIN sess PROVE RecOK(f[k])
    <2>1. CASE k \in left
      <3>1. f[k] = [sess[k] EXCEPT !.peer = FALSE, !.wire = <<>>]
        BY <2>1
      <3> HIDE DEF f
      <3> QED BY <1>1, <3>1, LeftByBrowser
    <2>2. CASE k \notin left
      BY <1>1, <2>2
    <2> QED BY <2>1, <2>2
  <1> HIDE DEF f
  <1>7. Reconnecting' \in SUBSET Reconnecting
    BY <1>4 DEF Reconnecting
  <1>8. Cardinality(Reconnecting') <= Cardinality(Reconnecting) /\ Cardinality(Reconnecting') \in Nat
    BY <1>7, Sizes, FS_Subset, FS_CardinalityType
  <1>9. Cardinality(DOMAIN sess) + Cardinality(Reconnecting') <= Budget(opens, faults)
    BY <1>8, Sizes
  <1>10. faults' \in 0 .. MaxFaults /\ Budget(opens, faults') = Budget(opens, faults)
    BY AllRec
  <1>11. Cardinality(DOMAIN sess) + Cardinality(Reconnecting') <= Budget(opens, faults')
    BY <1>9, <1>10
  <1>12. \A u \in Reconnecting' : tab'[u].attempt < MaxAttempts
    BY <1>4, <1>7 DEF ShInv, Paid, Reconnecting
  <1>13. opens' = opens /\ orphans' = orphans /\ sess' = Kept(f, tab') /\ \A u \in T : tab'[u].session = 0
    BY <1>2, <1>4
  <1> HIDE <1>2
  <1> QED BY <1>4, <1>5, <1>6, <1>8, <1>10, <1>11, <1>12, <1>13, LeaveStep

LEMMA GiveUpStep ==
    ASSUME ShInv, NEW t \in Tab, GiveUp(t)
    PROVE  ShInv'
  <1>1. tab \in [Tab -> Tabs] /\ tab[t] \in Tabs
    BY AllRec
  <1>2. tab' = [tab EXCEPT ![t].status = "error"] /\ UNCHANGED <<recent, sess, opens, faults, orphans>>
    BY DEF GiveUp
  <1>3. /\ tab' \in [Tab -> Tabs] /\ \A u \in Tab : tab'[u].session = tab[u].session
        /\ tab'[t].status # "reconnecting" /\ \A u \in Tab \ {t} : tab'[u] = tab[u]
    <2>1. tab'[t] = [tab[t] EXCEPT !.status = "error"] /\ \A u \in Tab \ {t} : tab'[u] = tab[u]
      BY <1>1, <1>2
    <2>2. tab'[t] \in Tabs /\ tab'[t].session = tab[t].session /\ tab'[t].status = "error"
      BY <1>1, <2>1 DEF Tabs
    <2>3. DOMAIN tab' = Tab /\ tab' = [u \in Tab |-> tab'[u]]
      BY <1>1, <1>2
    <2> QED BY <1>1, <2>1, <2>2, <2>3
  <1>4. Reconnecting' \in SUBSET Reconnecting /\ Cardinality(Reconnecting') <= Cardinality(Reconnecting)
        /\ Cardinality(Reconnecting') \in Nat
    <2>1. Reconnecting' \in SUBSET Reconnecting
      BY <1>3 DEF Reconnecting
    <2> QED BY <1>3, <2>1, OneMore
  <1>5. Cardinality(DOMAIN sess') + Cardinality(Reconnecting') <= Budget(opens, faults')
    <2>1. Cardinality(DOMAIN sess) + Cardinality(Reconnecting') <= Budget(opens, faults)
      BY <1>4, Sizes
    <2> QED BY <1>2, <2>1
  <1>6. \A u \in Reconnecting' : tab'[u].attempt < MaxAttempts
    BY <1>3, <1>4 DEF ShInv, Paid, Reconnecting
  <1>7. DOMAIN sess' \subseteq DOMAIN sess /\ \A k \in DOMAIN sess' : RecOK(sess'[k])
    BY <1>2, AllRec
  <1>8. /\ \A u \in Tab : tab'[u].session \in {0, tab[u].session}
        /\ \A u \in Tab : tab'[u].session # 0 => tab'[u].session \in DOMAIN sess' /\ sess'[tab'[u].session].peer
    BY <1>2, <1>3 DEF ShInv, TabsApart
  <1>9. recent' \subseteq Tab /\ opens' = opens /\ faults' \in 0 .. MaxFaults /\ orphans' \subseteq {TRUE}
    BY <1>2, AllRec
  <1>10. tab' \in [Tab -> Tabs]
    BY <1>3
  <1> HIDE <1>2
  <1> QED BY <1>5, <1>6, <1>7, <1>8, <1>9, <1>10, NoSocket

-----------------------------------------------------------------------------
(* The browser: new sockets.                                               *)

(* There are enough numbers for new sessions. *)
LEMMA FreshIds ==
    ASSUME ShInv, NEW T \in SUBSET Tab
    PROVE  /\ NewIds(T) \in [T -> (1 .. Cardinality(DOMAIN sess) + Cardinality(T)) \ DOMAIN sess]
           /\ IsInjective(NewIds(T)) /\ IsFiniteSet(T) /\ Cardinality(T) \in Nat
  <1> DEFINE n == Cardinality(DOMAIN sess)
             k == Cardinality(T)
             I == 1 .. n + k
             S == I \ DOMAIN sess
             m == Cardinality(S)
  <1>1. IsFiniteSet(T) /\ k \in Nat /\ n \in Nat /\ IsFiniteSet(DOMAIN sess)
    BY Constants, Sizes, FS_Subset, FS_CardinalityType
  <1>2. IsFiniteSet(I) /\ Cardinality(I) = n + k
    <2>1. 1 \in Int /\ n + k \in Int /\ n + k >= 0
      BY <1>1
    <2> HIDE DEF n, k
    <2>2. IsFiniteSet(1 .. n + k) /\ Cardinality(1 .. n + k) = IF 1 > n + k THEN 0 ELSE (n + k) - 1 + 1
      BY <2>1, FS_Interval
    <2> QED BY <1>1, <2>1, <2>2
  <1> HIDE DEF I, n, k
  <1>3. Cardinality(I \cap DOMAIN sess) <= n /\ Cardinality(I \cap DOMAIN sess) \in Nat
    <2>1. IsFiniteSet(I \cap DOMAIN sess) /\ Cardinality(I \cap DOMAIN sess) <= Cardinality(DOMAIN sess)
      BY <1>1, FS_Intersection
    <2> QED BY <2>1, FS_CardinalityType DEF n
  <1>4. IsFiniteSet(S) /\ m = n + k - Cardinality(I \cap DOMAIN sess)
    <2>1. /\ IsFiniteSet(I \ DOMAIN sess)
          /\ Cardinality(I \ DOMAIN sess) = Cardinality(I) - Cardinality(I \cap DOMAIN sess)
      BY <1>2, FS_Difference
    <2>2. m = Cardinality(I) - Cardinality(I \cap DOMAIN sess) /\ IsFiniteSet(S)
      BY <2>1
    <2> HIDE DEF m, S
    <2> QED BY <1>1, <1>2, <1>3, <2>2
  <1>5. m \in Nat /\ k <= m
    BY <1>1, <1>3, <1>4
  <1>6. ExistsBijection(1 .. k, T) /\ ExistsBijection(1 .. m, S)
    BY <1>1, <1>4, FS_CardinalityType DEF k
  <1> HIDE DEF S, m
  <1>7. ExistsInjection(T, 1 .. k)
    BY <1>6, Fun_ExistsBijSymmetric DEF ExistsBijection, ExistsInjection, Bijection
  <1>8. ExistsInjection(1 .. k, 1 .. m)
    BY <1>1, <1>5, Fun_NatInjLeq
  <1>9. ExistsInjection(1 .. m, S)
    BY <1>6 DEF ExistsBijection, ExistsInjection, Bijection
  <1>10. ExistsInjection(T, S)
    BY <1>7, <1>8, <1>9, Fun_ExistsInjTransitive
  <1>11. \E f \in [T -> S] : IsInjective(f)
    BY <1>10 DEF ExistsInjection, Injection
  <1>12. NewIds(T) \in [T -> S] /\ IsInjective(NewIds(T))
    BY <1>11 DEF NewIds, S, I, n, k
  <1> QED BY <1>1, <1>12 DEF S, I, n, k

(* Tabs on new sockets, within the budget. *)
LEMMA OpenStep ==
    ASSUME ShInv, NEW T \in SUBSET Tab, NEW attempt \in 0 .. MaxAttempts, OpenSockets(T, attempt),
           recent' \subseteq Tab, opens' \in 0 .. MaxOpens, faults' = faults, orphans' = orphans,
           Cardinality(DOMAIN sess) + Cardinality(T) + Cardinality(Reconnecting \ T) <= Budget(opens', faults)
    PROVE  ShInv'
  <1> DEFINE id == NewIds(T)
             n == Cardinality(DOMAIN sess)
             k == Cardinality(T)
  <1>1. /\ id \in [T -> (1 .. n + k) \ DOMAIN sess] /\ IsInjective(id) /\ IsFiniteSet(T) /\ k \in Nat
    BY FreshIds
  <1>2. /\ tab' = [t \in Tab |-> IF t \in T THEN [status |-> "connecting", attempt |-> attempt, session |-> id[t]]
                                 ELSE tab[t]]
        /\ sess' = [s \in DOMAIN sess \union Range(id) |-> IF s \in DOMAIN sess THEN sess[s] ELSE NewSession]
    BY DEF OpenSockets
  <1>3. /\ tab \in [Tab -> Tabs] /\ opens \in 0 .. MaxOpens /\ faults \in 0 .. MaxFaults
        /\ DOMAIN sess \subseteq Ids /\ \A s \in DOMAIN sess : RecOK(sess[s])
    BY AllRec
  <1>4. /\ n \in Nat /\ IsFiniteSet(DOMAIN sess) /\ IsFiniteSet(Reconnecting \ T)
        /\ Cardinality(Reconnecting \ T) \in Nat
    BY Sizes, FS_Difference, FS_CardinalityType
  <1> HIDE DEF n, k, id
  <1>5. \A i \in 1 .. n + k : i \in Ids
    <2>1. /\ Budget(opens', faults) <= MaxOpens + MaxFaults /\ Ids = 1 .. MaxOpens + MaxFaults
          /\ MaxOpens + MaxFaults \in Nat /\ Budget(opens', faults) \in Nat
      BY <1>3, BudgetFacts
    <2>2. n + k + Cardinality(Reconnecting \ T) <= Budget(opens', faults)
      BY DEF n, k
    <2> DEFINE top == MaxOpens + MaxFaults
    <2>3. Ids = 1 .. top /\ top \in Nat /\ Budget(opens', faults) <= top
      BY <2>1
    <2> HIDE DEF top
    <2>4. n + k <= top
      BY <1>1, <1>4, <2>1, <2>2, <2>3
    <2> QED BY <1>1, <1>4, <2>3, <2>4
  <1>6. \A t \in T : id[t] \in Ids /\ id[t] \notin DOMAIN sess /\ id[t] # 0 /\ id[t] \in Range(id)
    BY <1>1, <1>4, <1>5 DEF Range
  <1>7. Range(id) \subseteq Ids /\ DOMAIN sess' = DOMAIN sess \union Range(id)
    BY <1>1, <1>2, <1>5 DEF Range
  <1>8. \A s \in DOMAIN sess' : RecOK(sess'[s]) /\ sess'[s] \in Sessions
        /\ (s \in DOMAIN sess => sess'[s] = sess[s]) /\ (s \notin DOMAIN sess => sess'[s].peer)
    BY <1>2, <1>3, <1>7, NewRec DEF RecOK
  <1>9. /\ \A t \in T : tab'[t] = [status |-> "connecting", attempt |-> attempt, session |-> id[t]]
        /\ \A t \in Tab \ T : tab'[t] = tab[t]
        /\ DOMAIN tab' = Tab /\ tab' = [t \in Tab |-> tab'[t]]
        /\ \A t \in T : tab'[t].session = id[t] /\ tab'[t].status = "connecting"
    <2>1. \A t \in T : tab'[t] = [status |-> "connecting", attempt |-> attempt, session |-> id[t]]
      BY <1>2
    <2>2. (\A t \in Tab \ T : tab'[t] = tab[t]) /\ DOMAIN tab' = Tab /\ tab' = [t \in Tab |-> tab'[t]]
      BY <1>2
    <2>3. ASSUME NEW t \in T PROVE tab'[t].session = id[t] /\ tab'[t].status = "connecting"
      <3>1. tab'[t] = [status |-> "connecting", attempt |-> attempt, session |-> id[t]]
        BY <2>1
      <3> HIDE <1>2
      <3> QED BY <3>1
    <2> QED BY <2>1, <2>2, <2>3
  <1>10. \A t \in Tab : tab'[t] \in Tabs
    <2>1. ASSUME NEW t \in T PROVE [status |-> "connecting", attempt |-> attempt, session |-> id[t]] \in Tabs
      BY <1>6 DEF Tabs
    <2>2. ASSUME NEW t \in T PROVE tab'[t] \in Tabs
      BY <1>9, <2>1
    <2>3. ASSUME NEW t \in Tab \ T PROVE tab'[t] \in Tabs
      <3>1. tab'[t] = tab[t] /\ tab[t] \in Tabs
        BY <1>3, <1>9
      <3> QED BY <3>1
    <2> QED BY <2>2, <2>3
  <1>11. ShTypeOK'
    <2>1. tab' \in [Tab -> Tabs]
      BY <1>9, <1>10
    <2>2. orphans' \subseteq BOOLEAN
      BY AllRec
    <2>3. faults' \in 0 .. MaxFaults /\ DOMAIN sess' \subseteq Ids
      BY <1>3, <1>7
    <2> QED BY <1>8, <2>1, <2>2, <2>3 DEF ShTypeOK
  <1>12. TabsApart'
    <2>1. ASSUME NEW t \in Tab, tab'[t].session # 0
          PROVE  /\ tab'[t].session \in DOMAIN sess' /\ sess'[tab'[t].session].peer
                 /\ \A u \in Tab : tab'[u].session = tab'[t].session => u = t
      <3>1. CASE t \in T
        <4>1. tab'[t].session = id[t]
          BY <1>9, <3>1
        <4>2. id[t] \in DOMAIN sess' /\ sess'[id[t]].peer
          BY <1>6, <1>7, <1>8, <3>1
        <4>3. ASSUME NEW u \in Tab, tab'[u].session = id[t] PROVE u = t
          <5>1. CASE u \in T
            <6>1. tab'[u].session = id[u]
              BY <1>9, <5>1
            <6> QED BY <1>1, <3>1, <4>3, <5>1, <6>1 DEF IsInjective
          <5>2. CASE u \notin T
            <6>1. tab[u].session = id[t] /\ id[t] # 0 /\ id[t] \notin DOMAIN sess
              BY <1>6, <1>9, <3>1, <4>3, <5>2
            <6> QED BY <6>1 DEF ShInv, TabsApart
          <5> QED BY <5>1, <5>2
        <4> QED BY <4>1, <4>2, <4>3
      <3>2. CASE t \notin T
        <4>1. tab'[t].session = tab[t].session /\ tab[t].session # 0
          BY <1>9, <2>1, <3>2
        <4>2. /\ tab[t].session \in DOMAIN sess /\ sess[tab[t].session].peer
              /\ \A u \in Tab : tab[u].session = tab[t].session => u = t
          BY <4>1 DEF ShInv, TabsApart
        <4>3. tab[t].session \in DOMAIN sess' /\ sess'[tab[t].session].peer
          BY <1>7, <1>8, <4>2
        <4>4. ASSUME NEW u \in Tab, tab'[u].session = tab[t].session PROVE u = t
          <5>1. u \notin T
            <6>1. SUFFICES ASSUME u \in T PROVE FALSE
              OBVIOUS
            <6>2. tab'[u].session = id[u] /\ id[u] \notin DOMAIN sess
              BY <1>6, <1>9, <6>1
            <6> QED BY <4>2, <4>4, <6>2
          <5>2. tab'[u] = tab[u]
            BY <1>9, <5>1
          <5> QED BY <4>2, <4>4, <5>2
        <4> QED BY <4>1, <4>3, <4>4
      <3> QED BY <3>1, <3>2
    <2> QED BY <2>1 DEF TabsApart
  <1>13. StepOK'
    BY <1>8 DEF StepOK, RecOK, Made, Ended
  <1>14. Paid'
    <2>1. Reconnecting' = Reconnecting \ T
      BY <1>9 DEF Reconnecting
    <2>2. id \in Surjection(T, Range(id))
      BY <1>1 DEF Surjection, Range
    <2>3. IsFiniteSet(Range(id)) /\ Cardinality(Range(id)) <= k
      BY <1>1, <2>2, FS_Surjection DEF k
    <2>4. /\ Cardinality(DOMAIN sess \union Range(id))
              = Cardinality(DOMAIN sess) + Cardinality(Range(id)) - Cardinality(DOMAIN sess \cap Range(id))
          /\ IsFiniteSet(DOMAIN sess \union Range(id))
      BY <1>4, <2>3, FS_Union
    <2>5. IsFiniteSet(DOMAIN sess \cap Range(id)) /\ Cardinality(DOMAIN sess \cap Range(id)) \in Nat
          /\ Cardinality(Range(id)) \in Nat /\ Cardinality(DOMAIN sess \union Range(id)) \in Nat
      BY <1>4, <2>3, <2>4, FS_Intersection, FS_CardinalityType
    <2>6. Cardinality(DOMAIN sess') <= n + k /\ Cardinality(DOMAIN sess') \in Nat
      <3>1. Cardinality(DOMAIN sess \union Range(id)) <= n + k
        BY <1>1, <1>4, <2>3, <2>4, <2>5 DEF n
      <3> QED BY <1>7, <2>5, <3>1
    <2>7. Budget(opens', faults) \in Nat
      BY <1>3, BudgetFacts
    <2>8. n + k + Cardinality(Reconnecting \ T) <= Budget(opens', faults)
      BY DEF n, k
    <2>9. Cardinality(DOMAIN sess') + Cardinality(Reconnecting') <= Budget(opens', faults')
      <3>1. Cardinality(DOMAIN sess') + Cardinality(Reconnecting \ T) <= Budget(opens', faults)
        BY <1>1, <1>4, <2>6, <2>7, <2>8
      <3> QED BY <2>1, <3>1
    <2>10. \A t \in Reconnecting' : tab'[t].attempt < MaxAttempts
      BY <1>9, <2>1 DEF ShInv, Paid, Reconnecting
    <2> QED BY <2>9, <2>10 DEF Paid, Budget
  <1>15. NoLeakUnlessFault'
    BY AllRec DEF NoLeakUnlessFault
  <1> QED BY <1>11, <1>12, <1>13, <1>14, <1>15 DEF ShInv

(* The user opens tabs: paid for by the opening. *)
LEMMA OpeningStep ==
    ASSUME ShInv, NEW T \in SUBSET Tab, OpenSockets(T, 0), opens' = opens + Cardinality(T), opens' <= MaxOpens,
           recent' \subseteq Tab, UNCHANGED <<faults, orphans>>
    PROVE  ShInv'
  <1>3. Cardinality(T) \in Nat
    BY Constants, FS_Subset, FS_CardinalityType
  <1>1. opens \in 0 .. MaxOpens /\ faults \in 0 .. MaxFaults /\ opens' \in 0 .. MaxOpens
    BY <1>3, AllRec, Constants
  <1>2. Budget(opens', faults) = Budget(opens, faults) + Cardinality(T)
    BY <1>1, <1>3, BudgetFacts
  <1>4. Cardinality(Reconnecting \ T) <= Cardinality(Reconnecting) /\ Cardinality(Reconnecting \ T) \in Nat
    <2>1. (Reconnecting \ T) \in SUBSET Reconnecting /\ IsFiniteSet(Reconnecting)
      BY Sizes
    <2>2. IsFiniteSet(Reconnecting \ T) /\ Cardinality(Reconnecting \ T) <= Cardinality(Reconnecting)
      BY <2>1, FS_Subset
    <2> QED BY <2>2, FS_CardinalityType
  <1>5. Cardinality(DOMAIN sess) + Cardinality(T) + Cardinality(Reconnecting \ T) <= Budget(opens', faults)
    BY <1>2, <1>3, <1>4, Sizes, Constants
  <1>6. 0 \in 0 .. MaxAttempts
    BY Constants
  <1>7. faults' = faults /\ orphans' = orphans
    OBVIOUS
  <1> QED BY <1>1, <1>5, <1>6, <1>7, OpenStep

(* The reconnect timer: paid for by what the tab lost. *)
LEMMA AttemptStep ==
    ASSUME ShInv, NEW t \in Tab, AttemptReconnect(t)
    PROVE  ShInv'
  <1> DEFINE T == {t}
             a == tab[t].attempt + 1
  <1>1. /\ tab[t].status = "reconnecting" /\ OpenSockets(T, a) /\ UNCHANGED <<recent, opens, faults, orphans>>
    BY DEF AttemptReconnect
  <1>2. t \in Reconnecting /\ tab[t].attempt < MaxAttempts
    BY <1>1 DEF ShInv, Paid, Reconnecting
  <1>3. a \in 0 .. MaxAttempts
    <2>1. tab[t].attempt \in 0 .. MaxAttempts
      BY AllRec DEF Tabs
    <2> QED BY <1>2, <2>1, Constants
  <1>4. Cardinality(T) = 1 /\ T \in SUBSET Tab
    BY FS_Singleton
  <1>5. Cardinality(Reconnecting \ T) = Cardinality(Reconnecting) - 1
    BY <1>2, Sizes, FS_RemoveElement
  <1>6. Cardinality(DOMAIN sess) + Cardinality(T) + Cardinality(Reconnecting \ T) <= Budget(opens, faults)
    BY <1>4, <1>5, Sizes
  <1>7. recent' \subseteq Tab /\ opens' \in 0 .. MaxOpens /\ opens' = opens
        /\ faults' = faults /\ orphans' = orphans
    BY <1>1, AllRec
  <1>8. Cardinality(DOMAIN sess) + Cardinality(T) + Cardinality(Reconnecting \ T) <= Budget(opens', faults)
    BY <1>6, <1>7
  <1>9. OpenSockets(T, a)
    BY <1>1
  <1> HIDE DEF T, a
  <1> HIDE <1>1
  <1> QED BY <1>3, <1>4, <1>7, <1>8, <1>9, OpenStep

(* Nothing but the page and the budget of openings moves. *)
LEMMA PageStep ==
    ASSUME ShInv, UNCHANGED <<tab, sess, faults, orphans>>, recent' \subseteq Tab,
           opens' \in 0 .. MaxOpens, opens <= opens'
    PROVE  ShInv'
  <1>1. opens \in 0 .. MaxOpens /\ faults \in 0 .. MaxFaults
    BY AllRec
  <1>2. Budget(opens', faults) \in Nat /\ Budget(opens, faults) <= Budget(opens', faults)
    <2>1. faults <= faults
      BY <1>1, Constants
    <2> QED BY <1>1, <2>1, BudgetGrows
  <1>3. Cardinality(DOMAIN sess) + Cardinality(Reconnecting) <= Budget(opens', faults)
    BY <1>2, Sizes
  <1>4. Reconnecting' = Reconnecting
    BY DEF Reconnecting
  <1>5. Paid'
    <2>1. Cardinality(DOMAIN sess') + Cardinality(Reconnecting') <= Budget(opens', faults')
      BY <1>3, <1>4
    <2>2. \A t \in Reconnecting' : tab'[t].attempt < MaxAttempts
      BY <1>4 DEF ShInv, Paid
    <2> QED BY <2>1, <2>2 DEF Paid, Budget
  <1>6. ShTypeOK' /\ TabsApart' /\ StepOK' /\ NoLeakUnlessFault'
    BY DEF ShInv, ShTypeOK, TabsApart, StepOK, Ended, NoLeakUnlessFault
  <1> QED BY <1>5, <1>6 DEF ShInv

-----------------------------------------------------------------------------
(* The theorem.                                                            *)

LEMMA ShInitially ==
    ASSUME ShInit
    PROVE  ShInv
  <1>1. /\ tab = [t \in Tab |-> [status |-> "none", attempt |-> 0, session |-> 0]]
        /\ recent = {} /\ sess = [s \in {} |-> NewSession] /\ opens = 0 /\ faults = 0 /\ orphans = {}
    BY DEF ShInit
  <1>2. DOMAIN sess = {}
    BY <1>1
  <1>3. 0 \in 0 .. MaxAttempts /\ 0 \in 0 .. MaxOpens /\ 0 \in 0 .. MaxFaults
    BY Constants
  <1>4. [status |-> "none", attempt |-> 0, session |-> 0] \in Tabs
    BY <1>3 DEF Tabs
  <1>5. ShTypeOK
    BY <1>1, <1>2, <1>3, <1>4 DEF ShTypeOK
  <1>6. TabsApart /\ StepOK /\ NoLeakUnlessFault
    BY <1>1, <1>2 DEF TabsApart, StepOK, NoLeakUnlessFault
  <1>7. Paid
    <2>1. Reconnecting = {}
      BY <1>1 DEF Reconnecting
    <2>2. Cardinality(DOMAIN sess) = 0 /\ Cardinality(Reconnecting) = 0
      BY <1>2, <2>1, FS_EmptySet
    <2>3. Budget(opens, faults) \in Nat
      BY <1>1, <1>3, BudgetFacts
    <2> QED BY <2>1, <2>2, <2>3 DEF Paid, Budget
  <1> QED BY <1>5, <1>6, <1>7 DEF ShInv

LEMMA ShStep ==
    ASSUME ShInv, [ShNext]_shVars
    PROVE  ShInv'
  <1>0. recent \subseteq Tab /\ opens \in 0 .. MaxOpens
    BY AllRec
  <1>1. ASSUME NEW t \in Tab, Client(t) PROVE ShInv'
    <2>1. CASE OpenSession(t)
      <3> DEFINE T == {t}
      <3>1. /\ OpenSockets(T, 0) /\ opens < MaxOpens /\ opens' = opens + 1 /\ recent' \subseteq Tab
            /\ UNCHANGED <<faults, orphans>> /\ T \in SUBSET Tab
        BY <1>0, <2>1 DEF OpenSession
      <3>2. Cardinality(T) = 1
        BY FS_Singleton
      <3>3. opens' = opens + Cardinality(T) /\ opens' <= MaxOpens
        BY <1>0, <3>1, <3>2, Constants
      <3> HIDE DEF T
      <3> QED BY <3>1, <3>3, OpeningStep
    <2>2. CASE Receive(t)
      BY <2>2, ReceiveStep
    <2>3. CASE ConnectionLost(t)
      BY <2>3, ConnectionLostStep
    <2>4. CASE AttemptReconnect(t)
      BY <2>4, AttemptStep
    <2>5. CASE GiveUp(t)
      BY <2>5, GiveUpStep
    <2>6. CASE Close(t)
      <3> DEFINE T == {t}
      <3>1. Hangup(T) /\ recent' \subseteq Tab /\ UNCHANGED <<opens, faults, orphans>> /\ T \in SUBSET Tab
        BY <1>0, <2>6 DEF Close
      <3> HIDE DEF T
      <3> QED BY <3>1, HangupStep
    <2> QED BY <1>1, <2>1, <2>2, <2>3, <2>4, <2>5, <2>6 DEF Client
  <1>2. CASE FireHiddenClose
    <2>1. Hangup(Live) /\ recent' \subseteq Tab /\ UNCHANGED <<opens, faults, orphans>> /\ Live \in SUBSET Tab
      BY <1>2 DEF FireHiddenClose, Live
    <2> QED BY <2>1, HangupStep
  <1>3. CASE AutoRestart
    <2>1. /\ recent' \subseteq Tab /\ opens' = opens + Cardinality(recent) /\ opens' <= MaxOpens
          /\ UNCHANGED <<faults, orphans>>
          /\ OpenSockets(recent, 0) \/ UNCHANGED <<tab, sess>>
      BY <1>3 DEF AutoRestart
    <2>2. opens' \in 0 .. MaxOpens /\ opens <= opens'
      <3>1. Cardinality(recent) \in Nat
        BY <1>0, Constants, FS_Subset, FS_CardinalityType
      <3> QED BY <1>0, <2>1, <3>1, Constants
    <2>3. CASE OpenSockets(recent, 0)
      BY <1>0, <2>1, <2>3, OpeningStep
    <2>4. CASE UNCHANGED <<tab, sess>>
      BY <2>1, <2>2, <2>4, PageStep
    <2> QED BY <2>1, <2>3, <2>4
  <1>4. CASE TooLate
    <2>1. UNCHANGED <<tab, sess, faults, orphans>> /\ recent' \subseteq Tab /\ opens' \in 0 .. MaxOpens /\ opens <= opens'
      BY <1>0, <1>4, Constants DEF TooLate
    <2> QED BY <2>1, PageStep
  <1>5. CASE Crash
    BY <1>5, CrashStep
  <1>6. CASE \E s \in DOMAIN sess :
               \/ Serve(s) \/ RunEnds(s)
               \/ CreateSecretUnanswered(s) \/ CreatePodFailsBadly(s) \/ CloseGivesUp(s)
    BY <1>6, HandlerStep
  <1>7. CASE UNCHANGED shVars
    <2>1. UNCHANGED <<tab, sess, faults, orphans>> /\ recent' \subseteq Tab /\ opens' \in 0 .. MaxOpens /\ opens <= opens'
      BY <1>0, <1>7, Constants DEF shVars
    <2> QED BY <2>1, PageStep
  <1> QED BY <1>1, <1>2, <1>3, <1>4, <1>5, <1>6, <1>7 DEF ShNext

(* Whatever is opened, lost, crashed or left half started: no pod or Secret *)
(* stays behind without a fault, a tab is alone on its session and known   *)
(* to it, tabs never try more than MaxAttempts times, and the server holds *)
(* at most the sessions that openings and lost connections pay for         *)
(* (session.go Start and Close, ExecClient.ts scheduleReconnect).          *)
THEOREM ShellInvariant == ShSpec => []ShInv
  <1>1. ShInit => ShInv
    BY ShInitially
  <1>2. ShInv /\ [ShNext]_shVars => ShInv'
    BY ShStep
  <1> QED BY <1>1, <1>2, PTL DEF ShSpec
=============================================================================
