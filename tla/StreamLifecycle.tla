-------------------------- MODULE StreamLifecycle --------------------------
(***************************************************************************)
(* All watch requests of a server: resourceWatchHandler from its admission *)
(* by userStreamLimiter to the end of its goroutine, the streamTracker     *)
(* behind /debug/streams, the request contexts, the session check, and the *)
(* drain in main.  What the events say is WatchStream's subject; here only *)
(* who waits for whom and what is held.                                    *)
(*                                                                         *)
(* The handler's deferred calls run in reverse order: deregister, then     *)
(* release.  net/http cancels the request context after it has returned.   *)
(***************************************************************************)
EXTENDS Naturals, FiniteSets

CONSTANTS
    Requests,   \* watch requests; one is reused once all of it has ended
    Actors,
    ActorOf,    \* who makes which request
    MaxPerUser  \* userStreamLimiter.max, 0 for no cap

ASSUME LifecycleAssumption ==
    /\ IsFiniteSet(Requests)
    /\ ActorOf \in [Requests -> Actors]
    /\ MaxPerUser \in Nat

VARIABLES
    handler,    \* where the handler of each request is
    blocked,    \* handlers inside a write to a client that does not read
    watch,      \* the goroutine: running, eventCh closed, streamDone closed
    ctx,        \* requests whose context is done
    expired,    \* requests whose session has expired
    counts,     \* userStreamLimiter.counts
    active,     \* streamTracker.active
    server,     \* "up", "draining", "stopped" (main returned) or "exited" (os.Exit)
    serverCtx   \* deps.ServerCtx is done

vars == <<handler, blocked, watch, ctx, expired, counts, active, server, serverCtx>>

Stages == {"idle", "acquired", "serving", "waiting", "leaving", "releasing", "returned"}
Holding == {"acquired", "serving", "waiting", "leaving", "releasing"}
Tracked == {"serving", "waiting", "leaving"}

HeldBy(a) == {r \in Requests : ActorOf[r] = a /\ handler[r] \in Holding}
Alive == server \in {"up", "draining"}

Init ==
    /\ handler = [r \in Requests |-> "idle"]
    /\ blocked = {}
    /\ watch = [r \in Requests |-> "none"]
    /\ ctx = {} /\ expired = {}
    /\ counts = [a \in Actors |-> 0]
    /\ active = {}
    /\ server = "up" /\ serverCtx = FALSE

Goto(r, stage) == handler' = [handler EXCEPT ![r] = stage]

-----------------------------------------------------------------------------
(* Admission *)

(* Mutant of AcquireOf: the cap itself is still let in. *)
AcquireOneMore(a) ==
    /\ MaxPerUser = 0 \/ counts[a] <= MaxPerUser
    /\ counts' = IF MaxPerUser = 0 THEN counts ELSE [counts EXCEPT ![a] = @ + 1]

(* userStreamLimiter.acquire; at the cap the request is answered 429 and   *)
(* leaves no trace.                                                        *)
AcquireOf(a) ==
    /\ MaxPerUser = 0 \/ counts[a] < MaxPerUser
    /\ counts' = IF MaxPerUser = 0 THEN counts ELSE [counts EXCEPT ![a] = @ + 1]

Arrive(r) ==
    /\ server = "up"
    /\ handler[r] = "idle" /\ watch[r] \in {"none", "done"}
    /\ AcquireOf(ActorOf[r])
    /\ Goto(r, "acquired")
    /\ watch' = [watch EXCEPT ![r] = "none"]
    /\ ctx' = ctx \ {r} /\ expired' = expired \ {r}
    /\ UNCHANGED <<blocked, active, server, serverCtx>>

(* Mutant of OpenFails: an early return before the release is deferred. *)
OpenFailsKeepsSlot(r) ==
    /\ Alive /\ handler[r] = "acquired"
    /\ Goto(r, "returned")
    /\ UNCHANGED <<blocked, watch, ctx, expired, counts, active, server, serverCtx>>

(* sse.Open fails: only the slot has to be given back. *)
OpenFails(r) ==
    /\ Alive /\ handler[r] = "acquired"
    /\ Goto(r, "releasing")
    /\ UNCHANGED <<blocked, watch, ctx, expired, counts, active, server, serverCtx>>

(* streamTracker.register, and the goroutine is started. *)
Start(r) ==
    /\ Alive /\ handler[r] = "acquired"
    /\ Goto(r, "serving")
    /\ active' = active \cup {r}
    /\ watch' = [watch EXCEPT ![r] = "running"]
    /\ UNCHANGED <<blocked, ctx, expired, counts, server, serverCtx>>

-----------------------------------------------------------------------------
(* The goroutine: it may return at any time (an error, a full channel), and *)
(* does when its context is done.  eventCh is closed before streamDone.     *)

WatchReturns(r) ==
    /\ Alive /\ watch[r] = "running"
    /\ watch' = [watch EXCEPT ![r] = "closed"]
    /\ UNCHANGED <<handler, blocked, ctx, expired, counts, active, server, serverCtx>>

(* Mutant of WatchDone: streamDone is not closed when the request is cancelled. *)
WatchDoneUnlessGone(r) ==
    /\ Alive /\ watch[r] = "closed" /\ r \notin ctx
    /\ watch' = [watch EXCEPT ![r] = "done"]
    /\ UNCHANGED <<handler, blocked, ctx, expired, counts, active, server, serverCtx>>

WatchDone(r) ==
    /\ Alive /\ watch[r] = "closed"
    /\ watch' = [watch EXCEPT ![r] = "done"]
    /\ UNCHANGED <<handler, blocked, ctx, expired, counts, active, server, serverCtx>>

-----------------------------------------------------------------------------
(* The handler's select loop; no case is looked at during a write. *)

Selecting(r) == Alive /\ handler[r] = "serving" /\ r \notin blocked

(* Mutant of SeesEnd: the handler does not wait for the goroutine. *)
SeesEndAndLeaves(r) ==
    /\ Selecting(r)
    /\ r \in ctx \/ watch[r] \in {"closed", "done"}
    /\ Goto(r, "leaving")
    /\ UNCHANGED <<blocked, watch, ctx, expired, counts, active, server, serverCtx>>

(* r.Context().Done(), or eventCh closed: wait for streamDone. *)
SeesEnd(r) ==
    /\ Selecting(r)
    /\ r \in ctx \/ watch[r] \in {"closed", "done"}
    /\ Goto(r, "waiting")
    /\ UNCHANGED <<blocked, watch, ctx, expired, counts, active, server, serverCtx>>

WaitOver(r) ==
    /\ Alive /\ handler[r] = "waiting" /\ watch[r] = "done"
    /\ Goto(r, "leaving")
    /\ UNCHANGED <<blocked, watch, ctx, expired, counts, active, server, serverCtx>>

(* Mutant of SeesExpiry: the session is checked on admission only. *)
SeesExpiryOnce(r) ==
    /\ Alive /\ handler[r] = "acquired" /\ r \in expired
    /\ Goto(r, "releasing")
    /\ UNCHANGED <<blocked, watch, ctx, expired, counts, active, server, serverCtx>>

(* The 60s check, or deps.ServerCtx.Done(): the handler says goodbye and    *)
(* returns at once, its goroutine still running.                            *)
SeesExpiry(r) ==
    /\ Selecting(r) /\ (r \in expired \/ serverCtx)
    /\ Goto(r, "leaving")
    /\ UNCHANGED <<blocked, watch, ctx, expired, counts, active, server, serverCtx>>

(* sw.Event or sw.Ping fills the connection, also with the goodbye frame    *)
(* (auth_expired, error, backpressure) of a handler about to leave; the     *)
(* client reads again, or the write fails because the connection is gone.   *)
WriteBlocks(r) ==
    /\ Alive /\ r \notin blocked
    /\ handler[r] = "serving" \/ (handler[r] = "leaving" /\ r \notin ctx)
    /\ blocked' = blocked \cup {r}
    /\ UNCHANGED <<handler, watch, ctx, expired, counts, active, server, serverCtx>>

WriteReturns(r) ==
    /\ Alive /\ r \in blocked
    /\ blocked' = blocked \ {r}
    /\ UNCHANGED <<handler, watch, ctx, expired, counts, active, server, serverCtx>>

(* The deferred deregister ... *)
Deregister(r) ==
    /\ Alive /\ handler[r] = "leaving" /\ r \notin blocked
    /\ active' = active \ {r}
    /\ Goto(r, "releasing")
    /\ UNCHANGED <<blocked, watch, ctx, expired, counts, server, serverCtx>>

(* ... and the deferred userStreamLimiter.release. *)
ReleaseOf(a) ==
    counts' = IF MaxPerUser = 0 \/ counts[a] = 0 THEN counts
              ELSE [counts EXCEPT ![a] = @ - 1]

Release(r) ==
    /\ Alive /\ handler[r] = "releasing"
    /\ ReleaseOf(ActorOf[r])
    /\ Goto(r, "returned")
    /\ UNCHANGED <<blocked, watch, ctx, expired, active, server, serverCtx>>

-----------------------------------------------------------------------------
(* The environment: net/http, the browser, the session store *)

(* net/http: a handler that has returned has its context cancelled. *)
Finish(r) ==
    /\ Alive /\ handler[r] = "returned"
    /\ Goto(r, "idle")
    /\ ctx' = ctx \cup {r}
    /\ UNCHANGED <<blocked, watch, expired, counts, active, server, serverCtx>>

ClientLeaves(r) ==
    /\ Alive /\ handler[r] # "idle" /\ r \notin ctx
    /\ ctx' = ctx \cup {r}
    /\ UNCHANGED <<handler, blocked, watch, expired, counts, active, server, serverCtx>>

SessionExpires(r) ==
    /\ Alive /\ handler[r] # "idle" /\ r \notin expired
    /\ expired' = expired \cup {r}
    /\ UNCHANGED <<handler, blocked, watch, ctx, counts, active, server, serverCtx>>

-----------------------------------------------------------------------------
(* main: SIGTERM, srv.Shutdown for at most 25s, and then either the deferred *)
(* cancelServer on the way out of main, or os.Exit(1).                       *)

Signal ==
    /\ server = "up" /\ server' = "draining"
    /\ UNCHANGED <<handler, blocked, watch, ctx, expired, counts, active, serverCtx>>

Drained ==
    /\ server = "draining" /\ \A r \in Requests : handler[r] = "idle"
    /\ server' = "stopped" /\ serverCtx' = TRUE
    /\ UNCHANGED <<handler, blocked, watch, ctx, expired, counts, active>>

DrainTimeout ==
    /\ server = "draining" /\ \E r \in Requests : handler[r] # "idle"
    /\ server' = "exited"
    /\ UNCHANGED <<handler, blocked, watch, ctx, expired, counts, active, serverCtx>>

-----------------------------------------------------------------------------
HandlerSteps(r) ==
    \/ OpenFails(r) \/ Start(r)
    \/ SeesEnd(r) \/ WaitOver(r) \/ SeesExpiry(r)
    \/ Deregister(r) \/ Release(r) \/ Finish(r)

Next ==
    \/ \E r \in Requests :
          \/ Arrive(r) \/ HandlerSteps(r)
          \/ WatchReturns(r) \/ WatchDone(r)
          \/ WriteBlocks(r) \/ WriteReturns(r)
          \/ ClientLeaves(r) \/ SessionExpires(r)
    \/ Signal \/ Drained \/ DrainTimeout

Spec == Init /\ [][Next]_vars

(***************************************************************************)
(* Handlers and goroutines run; between two writes the select picks among  *)
(* its ready cases at random, so a case that is ready again and again is   *)
(* taken (strong fairness).  A goroutine whose context is done returns     *)
(* (client-go ends the List or the watch); a write to a broken connection  *)
(* returns; srv.Shutdown does too, after 25s at the latest.  A client need *)
(* not read, leave or log out, and the process need not be stopped.        *)
(***************************************************************************)
FairSpec ==
    /\ Spec
    /\ \A r \in Requests :
          /\ SF_vars(HandlerSteps(r))
          /\ WF_vars(r \in ctx /\ WatchReturns(r))
          /\ WF_vars(WatchDone(r))
          /\ WF_vars(r \in ctx /\ WriteReturns(r))
    /\ WF_vars(Drained \/ DrainTimeout)

-----------------------------------------------------------------------------
(* Properties *)

LTypeOK ==
    /\ handler \in [Requests -> Stages]
    /\ blocked \subseteq Requests
    /\ watch \in [Requests -> {"none", "running", "closed", "done"}]
    /\ ctx \subseteq Requests /\ expired \subseteq Requests
    /\ counts \in [Actors -> Nat]
    /\ active \subseteq Requests
    /\ server \in {"up", "draining", "stopped", "exited"}
    /\ serverCtx \in BOOLEAN

(* userStreamLimiter counts exactly the requests between acquire and        *)
(* release, and /debug/streams lists exactly the streams being served,      *)
(* whatever path a handler leaves by.                                       *)
SlotsExact == MaxPerUser # 0 => \A a \in Actors : counts[a] = Cardinality(HeldBy(a))
TrackerExact == active = {r \in Requests : handler[r] \in Tracked}

(* The inductive invariant: also, who may still have a goroutine, and what  *)
(* is left when main returns.                                               *)
GoroutineOK ==
    \A r \in Requests :
        /\ handler[r] = "acquired" => watch[r] = "none"
        /\ handler[r] \in {"leaving", "releasing", "returned"} /\ r \notin expired
              => watch[r] \in {"none", "done"}
DrainOK ==
    /\ serverCtx => server = "stopped"
    /\ server = "stopped" => \A r \in Requests : handler[r] = "idle"

LInv ==
    /\ LTypeOK /\ SlotsExact /\ TrackerExact /\ GoroutineOK /\ DrainOK
    /\ MaxPerUser # 0 => \A a \in Actors : counts[a] <= MaxPerUser

(* No user has more streams than the cap, as /debug/streams shows them.     *)
WithinCap ==
    MaxPerUser # 0 =>
        \A a \in Actors : Cardinality({r \in active : ActorOf[r] = a}) <= MaxPerUser

(* streamErr and closedByBackpressure are read after streamDone: a handler  *)
(* that leaves after waiting leaves no goroutine behind.                    *)
LeavesAfterGoroutine ==
    \A r \in Requests :
        handler[r] \in {"leaving", "releasing", "returned"} /\ r \notin expired
            => watch[r] \in {"none", "done"}

(* A client that is gone gives its slot back, and its goroutine ends.       *)
GoneIsReleased ==
    \A r \in Requests :
        r \in ctx ~> (handler[r] = "idle" /\ watch[r] \in {"none", "done"}) \/ ~Alive

(* An expired session ends its stream unless the client has stopped reading *)
(* (there is no write deadline).                                            *)
ExpiredIsClosed ==
    \A r \in Requests :
        r \in expired ~> handler[r] = "idle" \/ r \in blocked \/ ~Alive

(* A stream that is served when the shutdown begins, to a client that is    *)
(* still there and reads, gets to see it ("serverCtx is cancelled ... so    *)
(* long-lived handlers (watch streams) can emit a graceful                  *)
(* server_shutdown before the HTTP server closes their connection",         *)
(* main.go; "sent before the binary's graceful-shutdown deadline expires",  *)
(* watch-streams.md).                                                       *)
ShutdownReachesStreams ==
    \A r \in Requests :
        server = "draining" /\ handler[r] = "serving"
            ~> serverCtx \/ handler[r] # "serving" \/ r \in ctx \cup blocked
=============================================================================
