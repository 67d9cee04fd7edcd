------------------------- MODULE ExecSessionProofs -------------------------
(***************************************************************************)
(* The invariant SInv of an exec session, proved for sessions of any       *)
(* length: for all timeouts the first cause of a session's end is the one  *)
(* Run returns and the client is told at most twice; and where the idle    *)
(* timeouts leave room for a tick (Roomy), an idle close is warned of.     *)
(***************************************************************************)
EXTENDS ExecSession, SequenceTheorems, TLAPS

\* The variables of the idle clock.
clock == <<warned, elapsed, due, warnSent>>

-----------------------------------------------------------------------------
(* What a step that leaves the variables of a part alone keeps.            *)

(* The idle clock untouched, and its goroutine at most past a decision to   *)
(* close.                                                                   *)
LEMMA ClockKept ==
    ASSUME Roomy => WarnedInTime, UNCHANGED clock,
           idle' = idle \/ idle' \in {"closing", "end"}
    PROVE  (Roomy => WarnedInTime)'
  BY DEF WarnedInTime, Roomy, WarnAt, clock

(* Cancelling, and an idle goroutine that ends, do not touch the cause. *)
LEMMA CauseKept ==
    ASSUME OneCause, UNCHANGED <<override, main, result, seen, told, reason, audit>>,
           cancelled => cancelled', idle' = idle \/ idle' # "closing"
    PROVE  OneCause'
  BY DEF OneCause, ToldIdle

(* Nothing is told, and the idle goroutine is not past its closing frame. *)
LEMMA ToldKept ==
    ASSUME ToldAtMostTwice, STypeOK, UNCHANGED <<told, main>>,
           idle' = idle \/ idle # "end"
    PROVE  ToldAtMostTwice'
  BY DEF ToldAtMostTwice, STypeOK

-----------------------------------------------------------------------------
(* One frame more, or none. *)
LEMMA TellsOne ==
    ASSUME STypeOK, NEW why \in Reasons, Tells(why)
    PROVE  /\ told' \in Seq(Reasons)
           /\ Len(told') <= Len(told) + 1
           /\ why # "idle" /\ ToldIdle' => ToldIdle
  <1>1. CASE told' = told
    BY <1>1 DEF STypeOK, ToldIdle
  <1>2. CASE told' = Append(told, why)
    BY <1>2 DEF STypeOK, ToldIdle
  <1> QED BY <1>1, <1>2 DEF Tells

(* A byte went through: the clock starts again. *)
LEMMA ActivityStep ==
    ASSUME SInv, Activity,
           UNCHANGED <<conn, cancelled, override, heart, idle, warned, main, result,
                       seen, told, reason, audit>>,
           reader' \in {"read", "stdin", "end"}, writer' \in {"read", "write", "end"}
    PROVE  SInv'
  <1>1. STypeOK'
    <2>1. elapsed' \in 0..IdleTimeout /\ due' \in 0..Tick
      BY IdleAssumption DEF SInv, STypeOK, Activity
    <2>2. traffic' \in BOOLEAN /\ warnSent' \in BOOLEAN
      BY DEF Activity
    <2> QED BY <2>1, <2>2 DEF SInv, STypeOK
  <1>2. (Roomy => WarnedInTime)'
    BY IdleAssumption DEF SInv, STypeOK, Activity, WarnedInTime, Roomy, WarnAt
  <1>3. OneCause'
    BY CauseKept DEF SInv
  <1>4. ToldAtMostTwice'
    BY ToldKept DEF SInv
  <1> QED BY <1>1, <1>2, <1>3, <1>4 DEF SInv

(* The reader, the writer, the peer and a heartbeat that ends touch neither *)
(* the clock nor the cause.                                                 *)
LEMMA QuietStep ==
    ASSUME SInv, NoActivity, UNCHANGED <<override, warned, main, result, seen, told,
                                         reason, audit>>,
           cancelled' \in BOOLEAN, cancelled => cancelled',
           idle' = idle \/ (idle = "tick" /\ idle' = "end"),
           conn' \in {"up", "stalled", "gone"}, heart' \in {"tick", "end"},
           reader' \in {"read", "stdin", "end"}, writer' \in {"read", "write", "end"}
    PROVE  SInv'
  <1>1. STypeOK'
    BY DEF SInv, STypeOK, NoActivity
  <1>2. (Roomy => WarnedInTime)'
    BY ClockKept DEF SInv, NoActivity, clock
  <1>3. OneCause'
    BY CauseKept DEF SInv
  <1>4. ToldAtMostTwice'
    BY ToldKept DEF SInv
  <1> QED BY <1>1, <1>2, <1>3, <1>4 DEF SInv

-----------------------------------------------------------------------------
(* A failed ping sets the cause if there is none. *)
LEMMA PingFailsStep ==
    ASSUME SInv, PingFails
    PROVE  SInv'
  <1>1. override' = IF override = "none" THEN "heartbeat_timeout" ELSE override
    BY DEF PingFails, SetOverride
  <1>2. STypeOK'
    BY <1>1 DEF SInv, STypeOK, PingFails, NoActivity, Reasons
  <1>3. (Roomy => WarnedInTime)'
    BY ClockKept DEF SInv, PingFails, NoActivity, clock
  <1>4. OneCause'
    BY <1>1 DEF SInv, STypeOK, OneCause, ToldIdle, PingFails
  <1>5. ToldAtMostTwice'
    BY ToldKept DEF SInv, PingFails
  <1> QED BY <1>2, <1>3, <1>4, <1>5 DEF SInv

(* A tick: the idle goroutine looks, and re-arms the warning. *)
LEMMA IdleLookStep ==
    ASSUME SInv, IdleLook
    PROVE  SInv'
  <1> USE DEF SInv
  <1>1. /\ idle = "tick" /\ due = 0 /\ due' = Tick
        /\ idle' \in {"tick", "warning", "over"}
        /\ idle' = "tick" => elapsed < IdleTimeout /\ (elapsed >= WarnAt => warned)
        /\ idle' = "warning" => elapsed >= WarnAt
        /\ warned' = (warned /\ elapsed >= WarnAt)
        /\ UNCHANGED <<conn, cancelled, override, reader, writer, heart, elapsed, warnSent,
                       main, result, traffic, seen, told, reason, audit>>
    BY IdleAssumption DEF IdleLook, STypeOK, WarnAt
  <1>2. STypeOK'
    BY <1>1, IdleAssumption DEF STypeOK
  <1>3. (Roomy => WarnedInTime)'
    <2>1. /\ elapsed \in Nat /\ due' = Tick /\ elapsed' = elapsed
          /\ WarnAt' = WarnAt /\ WarnAt \in Int /\ Tick \in Nat
      BY <1>1, IdleAssumption DEF STypeOK, WarnAt
    <2>2. warned' => elapsed >= WarnAt /\ warned
      BY <1>1
    <2>3. warned /\ elapsed >= WarnAt => warned'
      BY <1>1
    <2>4. Roomy' = Roomy
      BY DEF Roomy, WarnAt
    <2>5. SUFFICES ASSUME WarnedInTime PROVE WarnedInTime'
      BY <2>4
    <2>6. (warned /\ elapsed >= WarnAt => warnSent)'
      BY <1>1, <2>1, <2>2, <2>5 DEF WarnedInTime
    <2>7. ((warned \/ idle = "warning") /\ elapsed < WarnAt => elapsed + due <= Tick)'
      BY <1>1, <2>1, <2>2
    <2>8. (idle = "tick" /\ elapsed + due >= WarnAt + Tick => warned)'
      BY <1>1, <2>1, <2>3
    <2>9. (idle = "tick" /\ elapsed >= IdleTimeout => warnSent)'
      BY <1>1, <2>1, IdleAssumption
    <2> QED BY <2>6, <2>7, <2>8, <2>9 DEF WarnedInTime
  <1>4. OneCause'
    BY <1>1, CauseKept
  <1>5. ToldAtMostTwice'
    BY <1>1, ToldKept
  <1> QED BY <1>2, <1>3, <1>4, <1>5

(* The warning goes out, for this quiet period or for one that is over. *)
LEMMA IdleWarnsStep ==
    ASSUME SInv, IdleWarns
    PROVE  SInv'
  <1> USE DEF SInv, IdleWarns
  <1>1. STypeOK'
    BY DEF STypeOK
  <1>2. (Roomy => WarnedInTime)'
    <2>1. elapsed >= WarnAt => warnSent'
      OBVIOUS
    <2>2. /\ idle = "warning" /\ idle' = "tick" /\ warned' = TRUE
          /\ elapsed' = elapsed /\ due' = due
      OBVIOUS
    <2>3. elapsed \in Nat /\ due \in Nat
      BY IdleAssumption DEF STypeOK
    <2> QED BY <2>1, <2>2, <2>3, IdleAssumption DEF WarnedInTime, Roomy, WarnAt
  <1>3. OneCause'
    BY CauseKept
  <1>4. ToldAtMostTwice'
    BY ToldKept
  <1> QED BY <1>1, <1>2, <1>3, <1>4

(* The idle goroutine sets the cause if there is none. *)
LEMMA IdleTagsStep ==
    ASSUME SInv, IdleTags
    PROVE  SInv'
  <1>1. override' = IF override = "none" THEN "idle" ELSE override
    BY DEF IdleTags, SetOverride
  <1>2. STypeOK'
    BY <1>1 DEF SInv, STypeOK, IdleTags, NoActivity, Reasons
  <1>3. (Roomy => WarnedInTime)'
    BY ClockKept DEF SInv, IdleTags, NoActivity, clock
  <1>4. OneCause'
    BY <1>1 DEF SInv, STypeOK, OneCause, ToldIdle, IdleTags
  <1>5. ToldAtMostTwice'
    BY ToldKept DEF SInv, IdleTags
  <1> QED BY <1>2, <1>3, <1>4, <1>5 DEF SInv

(* The idle goroutine tells the client, once, and cancels. *)
LEMMA IdleClosesStep ==
    ASSUME SInv, IdleCloses
    PROVE  SInv'
  <1>1. /\ told' \in Seq(Reasons)
        /\ Len(told') <= Len(told) + 1
    BY TellsOne DEF SInv, IdleCloses, Reasons
  <1>2. STypeOK'
    BY <1>1 DEF SInv, STypeOK, IdleCloses, NoActivity
  <1>3. (Roomy => WarnedInTime)'
    BY ClockKept DEF SInv, IdleCloses, NoActivity, clock
  <1>4. OneCause'
    BY DEF SInv, IdleCloses, OneCause
  <1>5. ToldAtMostTwice'
    BY <1>1 DEF SInv, STypeOK, IdleCloses, ToldAtMostTwice
  <1> QED BY <1>2, <1>3, <1>4, <1>5 DEF SInv

(* The clock moves: what it gains in age it loses in the time to the next   *)
(* tick.                                                                    *)
LEMMA TimePassesStep ==
    ASSUME SInv, TimePasses
    PROVE  SInv'
  <1> USE DEF SInv
  <1>1. /\ due > 0 /\ due' = due - 1
        /\ elapsed' = IF elapsed < IdleTimeout THEN elapsed + 1 ELSE elapsed
        /\ UNCHANGED <<conn, cancelled, override, reader, writer, heart, idle, warned, warnSent,
                       main, result, traffic, seen, told, reason, audit>>
    BY DEF TimePasses
  <1>2. STypeOK'
    <2>1. elapsed' \in 0..IdleTimeout /\ due' \in 0..Tick
      BY <1>1, IdleAssumption DEF STypeOK
    <2> QED BY <1>1, <2>1 DEF STypeOK
  <1>3. (Roomy => WarnedInTime)'
    BY <1>1, IdleAssumption DEF STypeOK, WarnedInTime, Roomy, WarnAt
  <1>4. OneCause'
    BY <1>1, CauseKept
  <1>5. ToldAtMostTwice'
    BY <1>1, ToldKept
  <1> QED BY <1>2, <1>3, <1>4, <1>5

-----------------------------------------------------------------------------
(* Run *)

(* ExecPod returns. *)
LEMMA ExecEndsStep ==
    ASSUME SInv, NEW res \in Results, ExecEnds(res)
    PROVE  SInv'
  <1>1. STypeOK'
    BY DEF SInv, STypeOK, ExecEnds, NoActivity
  <1>2. (Roomy => WarnedInTime)'
    BY ClockKept DEF SInv, ExecEnds, NoActivity, clock
  <1>3. OneCause'
    BY DEF SInv, ExecEnds, OneCause, ToldIdle, Results
  <1>4. ToldAtMostTwice'
    BY DEF SInv, ExecEnds, ToldAtMostTwice
  <1> QED BY <1>1, <1>2, <1>3, <1>4 DEF SInv

(* Run loads the first cause, if there is one. *)
LEMMA WriterDoneStep ==
    ASSUME SInv, WriterDone
    PROVE  SInv'
  <1>1. STypeOK'
    BY DEF SInv, STypeOK, WriterDone, NoActivity
  <1>2. (Roomy => WarnedInTime)'
    BY ClockKept DEF SInv, WriterDone, NoActivity, clock
  <1>3. OneCause'
    BY DEF SInv, WriterDone, OneCause, ToldIdle
  <1>4. ToldAtMostTwice'
    BY DEF SInv, WriterDone, ToldAtMostTwice
  <1> QED BY <1>1, <1>2, <1>3, <1>4 DEF SInv

(* What the client is told and the caller is returned are reasons, and an   *)
(* override that was loaded is the reason.                                  *)
LEMMA ReasonsNamed ==
    ASSUME STypeOK, result # "none"
    PROVE  /\ Special \in {"none", "agent_upstream", "forbidden", "no_shell"}
           /\ ClosedReason \in Reasons
           /\ ResultReason \in Reasons
           /\ CloseReason(result, ResultReason) \in Reasons
           /\ seen # "none" => Special = "none" /\ ResultReason = seen
  <1>1. /\ Special \in {"none", "agent_upstream", "forbidden", "no_shell"}
        /\ seen # "none" => Special = "none"
    BY DEF Special
  <1>2. ClosedReason \in Reasons
    BY DEF ClosedReason, STypeOK, Reasons, Results
  <1>3. ResultReason \in Reasons /\ (seen # "none" => ResultReason = seen)
    BY <1>1 DEF ResultReason, STypeOK, Reasons, Results
  <1>4. CloseReason(result, ResultReason) \in Reasons
    BY <1>3 DEF CloseReason, Reasons
  <1> QED BY <1>1, <1>2, <1>3, <1>4

(* The second frame, and the end. *)
LEMMA ReportStep ==
    ASSUME SInv, Report
    PROVE  SInv'
  <1> DEFINE why == IF Special # "none" THEN Special ELSE ClosedReason
  <1>1. STypeOK /\ result # "none" /\ main = "report"
    BY DEF SInv, OneCause, Report
  <1>2. /\ Special \in {"none", "agent_upstream", "forbidden", "no_shell"}
        /\ ClosedReason \in Reasons
        /\ ResultReason \in Reasons
        /\ CloseReason(result, ResultReason) \in Reasons
        /\ seen # "none" => Special = "none" /\ ResultReason = seen
    BY <1>1, ReasonsNamed
  <1>3. why \in Reasons /\ Tells(why)
    BY <1>2 DEF Report, Reasons
  <1>4. told' \in Seq(Reasons) /\ Len(told') <= Len(told) + 1
    BY <1>1, <1>3, TellsOne
  <1>5. /\ override' \in Reasons
        /\ seen # "none" => override' = override
    BY <1>1, <1>2 DEF Report, SetOverride, STypeOK, Reasons
  <1>6. /\ reason' = ResultReason /\ audit' = CloseReason(result, ResultReason)
        /\ main' = "returned" /\ cancelled' = TRUE /\ conn' = "gone"
        /\ UNCHANGED <<reader, writer, heart, idle, warned, result, seen, traffic, elapsed,
                       due, warnSent>>
    BY DEF Report, NoActivity
  <1>7. STypeOK'
    BY <1>1, <1>2, <1>4, <1>5, <1>6 DEF STypeOK
  <1>8. (Roomy => WarnedInTime)'
    BY <1>6, ClockKept DEF SInv, clock
  <1>9. OneCause'
    <2>1. idle' = "closing" => override' # "none"
      BY <1>2, <1>6 DEF SInv, OneCause, Report, SetOverride
    <2> QED BY <1>1, <1>2, <1>5, <1>6, <2>1 DEF SInv, OneCause
  <1>10. ToldAtMostTwice'
    BY <1>1, <1>4, <1>6 DEF SInv, STypeOK, ToldAtMostTwice
  <1> QED BY <1>7, <1>8, <1>9, <1>10 DEF SInv

-----------------------------------------------------------------------------
(* The initial state satisfies SInv. *)
LEMMA InitInv ==
    Init => SInv
  <1> SUFFICES ASSUME Init PROVE SInv
    OBVIOUS
  <1>1. STypeOK
    <2>1. told \in Seq(Reasons)
      BY DEF Init
    <2>2. elapsed \in 0..IdleTimeout /\ due \in 0..Tick
      BY IdleAssumption DEF Init
    <2> QED BY <2>1, <2>2 DEF Init, STypeOK, Reasons
  <1>2. Roomy => WarnedInTime
    BY IdleAssumption DEF Init, WarnedInTime, Roomy, WarnAt
  <1>3. OneCause
    BY DEF Init, OneCause, ToldIdle
  <1>4. ToldAtMostTwice
    BY DEF Init, ToldAtMostTwice
  <1> QED BY <1>1, <1>2, <1>3, <1>4 DEF SInv

(* The inductive step: every goroutine's step keeps SInv. *)
LEMMA NextInv ==
    SInv /\ [Next]_vars => SInv'
  <1> SUFFICES ASSUME SInv, [Next]_vars PROVE SInv'
    OBVIOUS
  <1>1. CASE UNCHANGED vars
    <2> USE <1>1 DEF vars
    <2>1. STypeOK'
      BY DEF SInv, STypeOK
    <2>2. (Roomy => WarnedInTime)' /\ OneCause' /\ ToldAtMostTwice'
      BY ClockKept, CauseKept, ToldKept DEF SInv, clock
    <2> QED BY <2>1, <2>2 DEF SInv
  <1>2. CASE StdinTaken
    <2>1. STypeOK
      BY DEF SInv
    <2> QED BY <1>2, <2>1, ActivityStep DEF StdinTaken, STypeOK
  <1>3. CASE WriteOutput
    <2>1. STypeOK
      BY DEF SInv
    <2> QED BY <1>3, <2>1, ActivityStep DEF WriteOutput, STypeOK
  <1>4. CASE ReadInput \/ ReadClose \/ ReaderEnds
    <2>1. STypeOK
      BY DEF SInv
    <2> QED BY <1>4, <2>1, QuietStep DEF ReadInput, ReadClose, ReaderEnds, STypeOK
  <1>5. CASE Output \/ WriterEnds
    <2>1. STypeOK
      BY DEF SInv
    <2> QED BY <1>5, <2>1, QuietStep DEF Output, WriterEnds, STypeOK
  <1>6. CASE HeartEnds \/ IdleEnds
    <2>1. STypeOK
      BY DEF SInv
    <2> QED BY <1>6, <2>1, QuietStep DEF HeartEnds, IdleEnds, STypeOK
  <1>7. ASSUME NEW c \in {"up", "stalled", "gone"}, PeerChanges(c)
        PROVE  SInv'
    <2>1. STypeOK
      BY DEF SInv
    <2> QED BY <1>7, <2>1, QuietStep DEF PeerChanges, STypeOK
  <1> QED
    BY <1>1, <1>2, <1>3, <1>4, <1>5, <1>6, <1>7, PingFailsStep, IdleLookStep,
      IdleWarnsStep, IdleTagsStep, IdleClosesStep, TimePassesStep, ExecEndsStep, WriterDoneStep, ReportStep DEF Next

(***************************************************************************)
(* Every reachable state of a session, whatever its timeouts: the first    *)
(* cause set with closeOverride stays and is what Run returns, and the     *)
(* client is sent at most two closing frames (session.go, Run); and, for   *)
(* timeouts with room for a tick, the idle clock warns in time.            *)
(***************************************************************************)
THEOREM SessionInvariant ==
    Spec => []SInv
  <1>1. Init => SInv
    BY InitInv
  <1>2. SInv /\ [Next]_vars => SInv'
    BY NextInv
  <1> QED BY <1>1, <1>2, PTL DEF Spec

(***************************************************************************)
(* Where the lead and what comes before it leave room for a tick, the idle *)
(* goroutine decides to close only in a quiet period in which idle_warn    *)
(* was sent (session.go, the idle goroutine).                              *)
(***************************************************************************)
THEOREM IdleWarned ==
    ASSUME Roomy
    PROVE  Spec => IdleIsWarned
  <1>1. SInv /\ [Next]_vars => [idle # "over" /\ idle' = "over" => warnSent]_vars
    <2> SUFFICES ASSUME SInv, Next, idle # "over", idle' = "over"
                 PROVE  warnSent
      OBVIOUS
    <2>1. CASE IdleLook
      <3>1. idle = "tick" /\ elapsed >= IdleTimeout
        BY <2>1 DEF IdleLook
      <3> QED BY <3>1, Roomy DEF SInv, WarnedInTime
    <2>2. CASE PingFails \/ Report \/ IdleWarns \/ IdleTags
      BY <2>2 DEF PingFails, Report, IdleWarns, IdleTags
    <2>3. CASE ReadInput \/ StdinTaken \/ ReadClose \/ ReaderEnds \/ Output \/ WriteOutput
               \/ WriterEnds \/ HeartEnds \/ IdleCloses \/ IdleEnds \/ TimePasses
      BY <2>3 DEF ReadInput, StdinTaken, ReadClose, ReaderEnds, Output, WriteOutput,
        WriterEnds, HeartEnds, IdleCloses, IdleEnds, TimePasses
    <2>4. CASE WriterDone \/ (\E res \in Results : ExecEnds(res))
               \/ (\E c \in {"up", "stalled", "gone"} : PeerChanges(c))
      BY <2>4 DEF WriterDone, ExecEnds, PeerChanges
    <2> QED BY <2>1, <2>2, <2>3, <2>4 DEF Next
  <1> QED BY <1>1, SessionInvariant, PTL DEF Spec, IdleIsWarned
=============================================================================
