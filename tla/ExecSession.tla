---------------------------- MODULE ExecSession ----------------------------
(***************************************************************************)
(* One pod-exec session: the five goroutines of exec.Run (reader, writer,  *)
(* heartbeat, idle timer and Run itself) around the browser's WebSocket    *)
(* and the exec stream, and what execHandler records when Run returns.     *)
(*                                                                         *)
(* The exec stream (client-go, apiserver, container) is external: it takes *)
(* stdin when the container reads, it writes output, it ends with a result *)
(* or because its context is done.  Bytes are not modelled, only whether   *)
(* any flowed.  Time is the time since the last byte and the time to the   *)
(* next tick of the idle goroutine, in units of the instance's choosing; a *)
(* tick that is due is looked at before more time passes, and a frame is   *)
(* written (2s at most) before the next tick (5s).                         *)
(***************************************************************************)
EXTENDS Sequences, Integers

CONSTANTS
    Tick,         \* the period of the idle goroutine's ticker, 5s
    IdleTimeout,  \* cfg.IdleTimeout
    IdleWarnLead  \* cfg.IdleWarnLead

(* LoadConfig and ResolveForCluster take any positive values. *)
ASSUME IdleAssumption == {Tick, IdleTimeout, IdleWarnLead} \subseteq Nat \ {0}

VARIABLES
    conn,       \* the WebSocket's peer: "up", "stalled" (not reading) or "gone"
    cancelled,  \* sessionCtx is done
    override,   \* closeOverride
    reader,     \* "read", "stdin" (in stdinW.Write) or "end"
    writer,     \* "read", "write" (in ws.Write) or "end"
    heart,      \* the heartbeat goroutine: "tick" or "end"
    idle,       \* the idle goroutine: "tick", "warning" (about to send idle_warn),
                \* "over" (has seen the timeout), "closing" or "end"
    warned,     \* its local variable
    elapsed,    \* time since lastActivity, up to IdleTimeout
    due,        \* time to the next tick
    warnSent,   \* history: idle_warn was sent for the present quiet period
    main,       \* Run: "exec" (in ExecPod), "drain", "report" or "returned"
    result,     \* how ExecPod ended
    traffic,    \* bytesIn + bytesOut > 0
    seen,       \* the override Run loaded
    told,       \* reasons of the closed and error frames the client was sent
    reason,     \* result.Reason as Run returns it
    audit       \* Reason of the exec_close record, "none" before it

vars == <<conn, cancelled, override, reader, writer, heart, idle, warned, elapsed, due,
          warnSent, main, result, traffic, seen, told, reason, audit>>

Reasons == {"none", "idle", "heartbeat_timeout", "agent_upstream", "forbidden", "no_shell",
            "completed", "container_exit", "stream_canceled", "client", "server_error"}

(* What ExecPod returns; "quick127" is an exit 127 within 1.5s.  The last   *)
(* four come with an error.                                                *)
Results == {"completed", "container_exit", "quick127",
            "stream_canceled", "agent_upstream", "forbidden", "failed"}
IsErr(res) == res \in {"stream_canceled", "agent_upstream", "forbidden", "failed"}

Init ==
    /\ conn = "up" /\ cancelled = FALSE /\ override = "none"
    /\ reader = "read" /\ writer = "read" /\ heart = "tick" /\ idle = "tick"
    /\ warned = FALSE /\ elapsed = 0 /\ due = Tick /\ warnSent = FALSE
    /\ main = "exec" /\ result = "none" /\ traffic = FALSE
    /\ seen = "none" /\ told = <<>> /\ reason = "none" /\ audit = "none"

(* Mutant of SetOverride: a plain store, the last cause stays. *)
SetOverrideLast(cause) == override' = cause

(* setOverride: compare-and-swap, the first cause stays. *)
SetOverride(cause) == override' = IF override = "none" THEN cause ELSE override

(* writeControl of a closing frame: a peer that reads gets it while the     *)
(* context lives; once it is done the write races with the connection's     *)
(* close and either may win.                                                *)
Tells(why) ==
    \/ conn = "up" /\ told' = Append(told, why)
    \/ (conn # "up" \/ cancelled) /\ UNCHANGED told

(* A byte went through: lastActivity is now. *)
Activity ==
    traffic' = TRUE /\ elapsed' = 0 /\ warnSent' = FALSE /\ UNCHANGED due

NoActivity == UNCHANGED <<traffic, elapsed, due, warnSent>>

-----------------------------------------------------------------------------
(* Reader *)

(* A binary frame: it goes to the stdin pipe, which has no buffer. *)
ReadInput ==
    /\ reader = "read" /\ conn = "up" /\ ~cancelled
    /\ reader' = "stdin"
    /\ NoActivity
    /\ UNCHANGED <<conn, cancelled, override, writer, heart, idle, warned, main, result,
                   seen, told, reason, audit>>

StdinTaken ==
    /\ reader = "stdin" /\ main = "exec"
    /\ reader' = "read"
    /\ Activity
    /\ UNCHANGED <<conn, cancelled, override, writer, heart, idle, warned, main, result,
                   seen, told, reason, audit>>

(* handleControl, close.  A resize changes nothing here. *)
ReadClose ==
    /\ reader = "read" /\ conn = "up" /\ ~cancelled
    /\ cancelled' = TRUE
    /\ NoActivity
    /\ UNCHANGED <<conn, override, reader, writer, heart, idle, warned, main, result,
                   seen, told, reason, audit>>

(* ws.Read fails; on a cancelled context it also closes the connection. *)
ReaderEnds ==
    /\ reader = "read" /\ (cancelled \/ conn = "gone")
    /\ reader' = "end" /\ conn' = "gone"
    /\ NoActivity
    /\ UNCHANGED <<cancelled, override, writer, heart, idle, warned, main, result,
                   seen, told, reason, audit>>

-----------------------------------------------------------------------------
(* Writer *)

Output ==
    /\ main = "exec" /\ writer = "read"
    /\ writer' = "write"
    /\ NoActivity
    /\ UNCHANGED <<conn, cancelled, override, reader, heart, idle, warned, main, result,
                   seen, told, reason, audit>>

WriteOutput ==
    /\ writer = "write" /\ conn = "up"
    /\ writer' = "read"
    /\ Activity
    /\ UNCHANGED <<conn, cancelled, override, reader, heart, idle, warned, main, result,
                   seen, told, reason, audit>>

(* ws.Write fails, or stdout is at its end. *)
WriterEnds ==
    /\ \/ writer = "write" /\ (conn = "gone" \/ cancelled)
       \/ writer = "read" /\ main # "exec"
    /\ writer' = "end"
    /\ NoActivity
    /\ UNCHANGED <<conn, cancelled, override, reader, heart, idle, warned, main, result,
                   seen, told, reason, audit>>

-----------------------------------------------------------------------------
(* Heartbeat: the pong is read by the reader, so a reader held up in the    *)
(* stdin pipe fails the ping like a dead peer does; and a ping in flight    *)
(* fails when the session is cancelled for another cause.                   *)

(* Mutant of PingFails: the failed ping is noted but nothing is cancelled. *)
PingFailsKeepsGoing ==
    /\ heart = "tick"
    /\ cancelled \/ conn # "up" \/ reader # "read"
    /\ SetOverride("heartbeat_timeout")
    /\ heart' = "end"
    /\ NoActivity
    /\ UNCHANGED <<conn, cancelled, reader, writer, idle, warned, main, result,
                   seen, told, reason, audit>>

PingFails ==
    /\ heart = "tick"
    /\ cancelled \/ conn # "up" \/ reader # "read"
    /\ SetOverride("heartbeat_timeout")
    /\ cancelled' = TRUE /\ heart' = "end"
    /\ NoActivity
    /\ UNCHANGED <<conn, reader, writer, idle, warned, main, result,
                   seen, told, reason, audit>>

HeartEnds ==
    /\ heart = "tick" /\ cancelled
    /\ heart' = "end"
    /\ NoActivity
    /\ UNCHANGED <<conn, cancelled, override, reader, writer, idle, warned, main, result,
                   seen, told, reason, audit>>

-----------------------------------------------------------------------------
(* Idle timer *)

WarnAt == IdleTimeout - IdleWarnLead

(* Mutant of IdleLook: activity after a warning does not re-arm it. *)
IdleLookWarnsOnce ==
    /\ idle = "tick" /\ due = 0
    /\ due' = Tick
    /\ idle' = CASE elapsed >= IdleTimeout -> "over"
                 [] elapsed < IdleTimeout /\ elapsed >= WarnAt /\ ~warned -> "warning"
                 [] OTHER -> "tick"
    /\ UNCHANGED <<conn, cancelled, override, reader, writer, heart, warned, elapsed, warnSent,
                   main, result, traffic, seen, told, reason, audit>>

(* A tick: lastActivity is loaded.  What follows from it is done later, and *)
(* bytes may come in between.  The select may take the tick although the   *)
(* context is done.                                                        *)
IdleLook ==
    /\ idle = "tick" /\ due = 0
    /\ due' = Tick
    /\ idle' = CASE elapsed >= IdleTimeout -> "over"
                 [] elapsed < IdleTimeout /\ elapsed >= WarnAt /\ ~warned -> "warning"
                 [] OTHER -> "tick"
    /\ warned' = (warned /\ elapsed >= WarnAt)
    /\ UNCHANGED <<conn, cancelled, override, reader, writer, heart, elapsed, warnSent,
                   main, result, traffic, seen, told, reason, audit>>

(* idle_warn.  A write that does not finish within its 2s closes the        *)
(* connection.  A warning that a byte has overtaken is of an earlier period. *)
IdleWarns ==
    /\ idle = "warning" /\ idle' = "tick"
    /\ warned' = TRUE
    /\ warnSent' = (warnSent \/ elapsed >= WarnAt)
    /\ conn' = IF conn = "stalled" THEN "gone" ELSE conn
    /\ UNCHANGED <<cancelled, override, reader, writer, heart, elapsed, due, main, result,
                   traffic, seen, told, reason, audit>>

(* Mutant of IdleTags: the closing reason is not tagged. *)
IdleTagsNothing ==
    /\ idle = "over" /\ idle' = "closing"
    /\ NoActivity
    /\ UNCHANGED <<conn, cancelled, override, reader, writer, heart, warned, main, result,
                   seen, told, reason, audit>>

IdleTags ==
    /\ idle = "over" /\ idle' = "closing"
    /\ SetOverride("idle")
    /\ NoActivity
    /\ UNCHANGED <<conn, cancelled, reader, writer, heart, warned, main, result,
                   seen, told, reason, audit>>

(* The closed frame, then cancel. *)
IdleCloses ==
    /\ idle = "closing"
    /\ Tells("idle")
    /\ cancelled' = TRUE /\ idle' = "end"
    /\ NoActivity
    /\ UNCHANGED <<conn, override, reader, writer, heart, warned, main, result,
                   seen, reason, audit>>

IdleEnds ==
    /\ idle = "tick" /\ cancelled
    /\ idle' = "end"
    /\ NoActivity
    /\ UNCHANGED <<conn, cancelled, override, reader, writer, heart, warned, main, result,
                   seen, told, reason, audit>>

TimePasses ==
    /\ idle # "end" /\ due > 0
    /\ due' = due - 1
    /\ elapsed' = IF elapsed < IdleTimeout THEN elapsed + 1 ELSE elapsed
    /\ UNCHANGED <<conn, cancelled, override, reader, writer, heart, idle, warned, warnSent,
                   main, result, traffic, seen, told, reason, audit>>

-----------------------------------------------------------------------------
(* Run *)

(* ExecPod returns: by itself or, once the context is done, because of it. *)
ExecEnds(res) ==
    /\ main = "exec"
    /\ res = "stream_canceled" => cancelled
    /\ res = "quick127" => elapsed = 0
    /\ main' = "drain" /\ result' = res
    /\ NoActivity
    /\ UNCHANGED <<conn, cancelled, override, reader, writer, heart, idle, warned,
                   seen, told, reason, audit>>

(* <-writerDone, and closeOverride is loaded. *)
WriterDone ==
    /\ main = "drain" /\ writer = "end"
    /\ main' = "report" /\ seen' = override
    /\ NoActivity
    /\ UNCHANGED <<conn, cancelled, override, reader, writer, heart, idle, warned,
                   result, told, reason, audit>>

(* The three error frames ... *)
Special ==
    IF seen # "none" THEN "none"
    ELSE CASE result = "agent_upstream" -> "agent_upstream"
           [] result = "forbidden"      -> "forbidden"
           [] result = "quick127" /\ ~traffic -> "no_shell"
           [] OTHER                     -> "none"

(* ... or closedFrame *)
ClosedReason ==
    IF seen # "none" THEN seen
    ELSE CASE result = "quick127"        -> "container_exit"
           [] result = "stream_canceled" -> "client"
           [] result = "failed"          -> "server_error"
           [] OTHER                      -> result

(* result.Reason, "" as "none".  The forbidden and no_shell paths load      *)
(* closeOverride again after their setOverride.                             *)
ResultReason ==
    CASE seen # "none"                -> seen
      [] Special = "agent_upstream"   -> Special
      [] Special \in {"forbidden", "no_shell"} ->
            IF override = "none" THEN Special ELSE override
      [] OTHER -> CASE result = "quick127" -> "container_exit"
                    [] result = "failed"   -> "none"
                    [] OTHER               -> result

(* execHandler: an error makes it server_error, whatever Run found out. *)
CloseReason(res, why) ==
    CASE IsErr(res)                    -> "server_error"
      [] ~IsErr(res) /\ why = "none"   -> "completed"
      [] OTHER                         -> why

(* Run reports and returns (which cancels), the handler records and closes  *)
(* the WebSocket.                                                           *)
Report ==
    /\ main = "report"
    /\ Tells(IF Special # "none" THEN Special ELSE ClosedReason)
    /\ IF Special # "none" THEN SetOverride(Special) ELSE UNCHANGED override
    /\ reason' = ResultReason
    /\ audit' = CloseReason(result, ResultReason)
    /\ main' = "returned" /\ cancelled' = TRUE /\ conn' = "gone"
    /\ NoActivity
    /\ UNCHANGED <<reader, writer, heart, idle, warned, result, seen>>

-----------------------------------------------------------------------------
(* The peer *)

PeerChanges(c) ==
    /\ conn # "gone" /\ conn # c
    /\ conn' = c
    /\ NoActivity
    /\ UNCHANGED <<cancelled, override, reader, writer, heart, idle, warned, main, result,
                   seen, told, reason, audit>>

-----------------------------------------------------------------------------
Next ==
    \/ ReadInput \/ StdinTaken \/ ReadClose \/ ReaderEnds
    \/ Output \/ WriteOutput \/ WriterEnds
    \/ PingFails \/ HeartEnds
    \/ IdleLook \/ IdleWarns \/ IdleTags \/ IdleCloses \/ IdleEnds \/ TimePasses
    \/ \E res \in Results : ExecEnds(res)
    \/ WriterDone \/ Report
    \/ \E c \in {"up", "stalled", "gone"} : PeerChanges(c)

Spec == Init /\ [][Next]_vars

(***************************************************************************)
(* Goroutines run, tickers tick, and a stream whose context is done ends.  *)
(* The user need not type, the container need not read, write or exit, and *)
(* the peer may stall for good.                                            *)
(***************************************************************************)
FairSpec ==
    /\ Spec
    /\ WF_vars(ReaderEnds) /\ WF_vars(WriteOutput) /\ WF_vars(WriterEnds)
    /\ WF_vars(PingFails) /\ WF_vars(HeartEnds)
    /\ WF_vars(IdleLook) /\ WF_vars(IdleWarns) /\ WF_vars(IdleTags)
    /\ WF_vars(IdleCloses) /\ WF_vars(IdleEnds)
    /\ WF_vars(ExecEnds("stream_canceled"))
    /\ WF_vars(WriterDone) /\ WF_vars(Report)

-----------------------------------------------------------------------------
(* Properties *)

STypeOK ==
    /\ conn \in {"up", "stalled", "gone"}
    /\ cancelled \in BOOLEAN /\ warned \in BOOLEAN
    /\ warnSent \in BOOLEAN /\ traffic \in BOOLEAN
    /\ override \in Reasons /\ seen \in Reasons /\ reason \in Reasons /\ audit \in Reasons
    /\ reader \in {"read", "stdin", "end"} /\ writer \in {"read", "write", "end"}
    /\ heart \in {"tick", "end"} /\ idle \in {"tick", "warning", "over", "closing", "end"}
    /\ elapsed \in 0..IdleTimeout /\ due \in 0..Tick
    /\ main \in {"exec", "drain", "report", "returned"}
    /\ result \in Results \cup {"none"}
    /\ told \in Seq(Reasons)

(* The lead and what comes before it both leave room for a tick, as the    *)
(* defaults do (30s and 570s against 5s).  The code does not ask for it.   *)
Roomy == IdleWarnLead >= Tick /\ WarnAt > Tick

(* The idle clock, with room: a quiet period that goes on to its end has    *)
(* been warned of.  elapsed + due is the age at which the next tick will    *)
(* find it; the flag of an earlier period is taken down by that tick.       *)
WarnedInTime ==
    /\ warned /\ elapsed >= WarnAt => warnSent
    /\ (warned \/ idle = "warning") /\ elapsed < WarnAt => elapsed + due <= Tick
    /\ idle = "tick" /\ elapsed + due >= WarnAt + Tick => warned
    /\ idle = "tick" /\ elapsed >= IdleTimeout => warnSent

(* One cause per session: what Run loads after the writer is done is the    *)
(* first override, it stays, and it is what Run returns.                    *)
ToldIdle == \E i \in 1..Len(told) : told[i] = "idle"
OneCause ==
    /\ main # "returned" => override \in {"none", "idle", "heartbeat_timeout"}
    /\ main # "exec" => result # "none"
    /\ main \in {"exec", "drain"} => seen = "none"
    /\ main # "returned" => reason = "none" /\ audit = "none"
    /\ seen # "none" => override = seen
    /\ main = "returned" => cancelled
    /\ main = "returned" /\ seen # "none" => reason = seen
    /\ idle = "closing" => override # "none"
    /\ main # "returned" /\ ToldIdle => override # "none"

(* The client is told at most twice: by the idle timer and by Run. *)
ToldAtMostTwice ==
    Len(told) <= (IF idle = "end" THEN 1 ELSE 0) + (IF main = "returned" THEN 1 ELSE 0)

(* The goroutines of a session agree: every part above, in every state. *)
SInv == STypeOK /\ (Roomy => WarnedInTime) /\ OneCause /\ ToldAtMostTwice

(* The idle goroutine decides to close only a quiet period for which        *)
(* idle_warn was sent (session.go: "Sends idle_warn at T-IdleWarnLead and   *)
(* closes at T"; environment-variables.md: "The SPA shows a warning         *)
(* IDLE_WARN_SECONDS before the tear-down").                                *)
IdleIsWarned == [][idle # "over" /\ idle' = "over" => warnSent]_vars

(* A peer that is gone, or stays stalled, ends the session: Run returns and *)
(* its goroutines end, but for a reader held in the stdin pipe, which       *)
(* nothing closes.                                                          *)
AllOver ==
    /\ main = "returned" /\ writer = "end" /\ heart = "end" /\ idle = "end"
    /\ reader \in {"end", "stdin"}
DeadPeerEndsSession == conn # "up" ~> (conn = "up" \/ AllOver)

(* A client that is told "idle" while the exec stream runs (or its output   *)
(* drains) has its session ended and reported so; the heartbeat alone can   *)
(* have set closeOverride before the idle timer did.                        *)
ToldIdleEndsIdle ==
    main \in {"exec", "drain"} /\ ToldIdle
        ~> main = "returned" /\ reason \in {"idle", "heartbeat_timeout"}
=============================================================================
