--------------------------- MODULE BrowserStream ---------------------------
(***************************************************************************)
(* The browser's side of a watch stream on top of WatchStream: the hook    *)
(* useResourceStream (EventSource listeners, the 50ms delta buffer, the    *)
(* error budget, the hidden-tab close) and useResource, which polls the    *)
(* list endpoint until the feature flags are known and again once the      *)
(* hook has given up.  Both write the same React Query entry: cache.       *)
(*                                                                         *)
(* WatchStream's view is what the browser has after every event it has     *)
(* read; cache is what the table renders.                                  *)
(***************************************************************************)
EXTENDS WatchStream

CONSTANTS
    MaxReconnectAttempts,   \* MAX_RECONNECT_ATTEMPTS (4 in the code)
    NoList                  \* the query has no data yet

ASSUME BrowserAssumption ==
    /\ MaxReconnectAttempts \in Nat \ {0}
    /\ NoList \notin Rows

VARIABLES
    cache,      \* the list under the query key; NoList before the first write
    buffer,     \* deltas waiting for the flush timer (armed whenever it is not empty)
    hookClosed, \* the effect's "closed"
    handle,     \* the effect's es is not null
    status,     \* streamStatus
    attempts,   \* reconnectAttempts
    page,       \* "visible"; "grace": hidden, visTimer armed; "hidden": and no timer
    fetch,      \* a polled List: "idle", "sent" or "answered"
    answer,     \* the rows an answered List brings
    overrun     \* history: "deltas" when the last snapshot came while deltas were
                \* buffered, "list" when a polled List has landed on the stream's
                \* cache since that snapshot, else "no"

hookVars == <<cache, buffer, hookClosed, handle, status, attempts, page, fetch, answer, overrun>>
allVars == <<vars, hookVars>>

HaveList(c) == c # NoList
Deltas == {e \in Events : e.type \in DeltaTypes}

(* applyDeltas: the list after each of the deltas, and after the last one. *)
AfterEach(list, deltas) ==
    LET rows[i \in 0..Len(deltas)] ==
            IF i = 0 THEN list ELSE ApplyDelta(rows[i - 1], deltas[i])
    IN  rows

(* Nothing is built on a missing list. *)
ApplyDeltas(list, deltas) ==
    IF HaveList(list) THEN AfterEach(list, deltas)[Len(deltas)] ELSE list

BInit ==
    /\ Init
    /\ cache = NoList /\ buffer = <<>>
    /\ hookClosed = FALSE /\ handle = TRUE
    /\ status = "connecting" /\ attempts = 0
    /\ page = "visible"
    /\ fetch \in {"idle", "sent"}   \* a List polled before the flags were known
    /\ answer = [k \in Keys |-> 0]
    /\ overrun = "no"

-----------------------------------------------------------------------------
(* Everything of WatchStream the hook does not see. *)
BehindTheScenes ==
    /\ \/ \E k \in Keys, type \in DeltaTypes : Mutate(k, type)
       \/ Compact
       \/ LoopStep \/ LoopFails \/ DrainClosed
       \/ HandlerStep
       \/ HandlerStops("server_shutdown") \/ HandlerStops("auth_expired")
       \/ Connect
    /\ UNCHANGED hookVars

-----------------------------------------------------------------------------
(* Listeners *)

(* snapshot: replaces the cache, clears the error budget; the buffer stays. *)
OnSnapshot ==
    /\ wire # <<>> /\ Head(wire).type = "snapshot"
    /\ Deliver
    /\ cache' = Head(wire).rows
    /\ status' = "live" /\ attempts' = 0
    /\ overrun' = IF buffer # <<>> THEN "deltas" ELSE "no"
    /\ UNCHANGED <<buffer, hookClosed, handle, page, fetch, answer>>

(* enqueueDelta *)
OnDelta ==
    /\ wire # <<>> /\ Head(wire).type \in DeltaTypes
    /\ Deliver
    /\ buffer' = Append(buffer, Head(wire))
    /\ UNCHANGED <<cache, hookClosed, handle, status, attempts, page, fetch, answer, overrun>>

(* Mutant of OnDegraded: the buffered deltas are thrown away. *)
OnDegradedClears ==
    /\ wire # <<>> /\ Head(wire).type \in {"relist", "server_shutdown", "backpressure"}
    /\ Deliver
    /\ status' = "reconnecting" /\ buffer' = <<>>
    /\ UNCHANGED <<cache, hookClosed, handle, attempts, page, fetch, answer, overrun>>

(* relist, server_shutdown, backpressure *)
OnDegraded ==
    /\ wire # <<>> /\ Head(wire).type \in {"relist", "server_shutdown", "backpressure"}
    /\ Deliver
    /\ status' = "reconnecting"
    /\ UNCHANGED <<cache, buffer, hookClosed, handle, attempts, page, fetch, answer, overrun>>

(* auth_expired: terminal; the page leaves for the login. *)
OnAuthExpired ==
    /\ wire # <<>> /\ Head(wire).type = "auth_expired"
    /\ Deliver
    /\ hookClosed' = TRUE /\ handle' = FALSE
    /\ UNCHANGED <<cache, buffer, status, attempts, page, fetch, answer, overrun>>

(* Mutant of GivesUp: one error too many is allowed. *)
GivesUpLate(counted) == counted /\ attempts + 1 > MaxReconnectAttempts

(* The error listener: an error within a second of the last one is not     *)
(* counted, and the last one allowed by the budget ends the stream.        *)
GivesUp(counted) == counted /\ attempts + 1 >= MaxReconnectAttempts

OnError(counted) ==
    /\ attempts = 0 => counted
    /\ attempts' = IF counted THEN attempts + 1 ELSE attempts
    /\ IF GivesUp(counted)
       THEN hookClosed' = TRUE /\ handle' = FALSE /\ status' = "polling_fallback"
       ELSE status' = "reconnecting" /\ UNCHANGED <<hookClosed, handle>>
    /\ UNCHANGED <<cache, buffer, page, fetch, answer, overrun>>

(* es.close() while the stream or its next connection is under way *)
EsClosed ==
    /\ es' = "closed"
    /\ ServerForgets
    /\ wire' = <<>>

(* A server-sent error event with a body. *)
OnServerError(counted) ==
    /\ wire # <<>> /\ Head(wire).type = "error"
    /\ OnError(counted)
    /\ IF GivesUp(counted)
       THEN EsClosed /\ UNCHANGED <<apiVars, lastId, view, shown, faults>>
       ELSE Deliver

(* The browser's own error event: the response ended, the connection broke *)
(* or could not be made (it will retry), or was refused (it will not).     *)
OnNativeError(counted) ==
    /\ OnError(counted)
    /\ IF GivesUp(counted)
       THEN /\ \/ es = "ended" /\ wire = <<>> /\ UNCHANGED faults
               \/ es \in {"open", "ended", "connecting"} /\ Disrupt
            /\ EsClosed
            /\ UNCHANGED <<apiVars, lastId, view, shown>>
       ELSE \/ Eof
            \/ Drop
            \/ es = "connecting" /\ Disrupt
               /\ UNCHANGED <<apiVars, serverVars, wire, clientVars>>

OnRejected(counted) ==
    /\ OnError(counted)
    /\ Reject

-----------------------------------------------------------------------------
(* Timers, visibility, remount *)

(* Mutant of Flush: a flush after the hook has given up still writes. *)
FlushUnchecked ==
    /\ buffer # <<>>
    /\ cache' = ApplyDeltas(cache, buffer)
    /\ buffer' = <<>>
    /\ status' = "live" /\ attempts' = 0
    /\ UNCHANGED <<vars, hookClosed, handle, page, fetch, answer, overrun>>

(* flush *)
Flush ==
    /\ buffer # <<>> /\ ~hookClosed
    /\ cache' = ApplyDeltas(cache, buffer)
    /\ buffer' = <<>>
    /\ status' = "live" /\ attempts' = 0
    /\ UNCHANGED <<vars, hookClosed, handle, page, fetch, answer, overrun>>

(* onVisibility, hidden, and the grace timer that then closes the stream *)
Hide ==
    /\ page = "visible" /\ page' = "grace"
    /\ UNCHANGED <<vars, cache, buffer, hookClosed, handle, status, attempts, fetch, answer, overrun>>

HideTimeout ==
    /\ page = "grace" /\ page' = "hidden"
    /\ IF es = "closed" THEN UNCHANGED vars ELSE Close
    /\ handle' = FALSE
    /\ UNCHANGED <<cache, buffer, hookClosed, status, attempts, fetch, answer, overrun>>

(* onVisibility, visible: a closed stream is opened anew, unless given up. *)
Show ==
    /\ page # "visible" /\ page' = "visible"
    /\ IF ~handle /\ ~hookClosed
       THEN /\ Reopen
            /\ handle' = TRUE /\ status' = "connecting" /\ attempts' = 0
       ELSE UNCHANGED <<vars, handle, status, attempts>>
    /\ UNCHANGED <<cache, buffer, hookClosed, fetch, answer, overrun>>

(* The effect's cleanup and its next run (namespace or cluster switched and *)
(* back): the list outlives the hook in the query cache, a List under way   *)
(* is aborted by its signal.                                                *)
Remount ==
    /\ Disrupt
    /\ es' = "connecting" /\ lastId' = 0
    /\ ServerForgets /\ wire' = <<>>
    /\ buffer' = <<>> /\ hookClosed' = FALSE /\ handle' = TRUE
    /\ status' = "connecting" /\ attempts' = 0
    /\ page' = IF page = "grace" THEN "hidden" ELSE page
    /\ fetch' = "idle"
    /\ UNCHANGED <<apiVars, view, shown, cache, answer, overrun>>

-----------------------------------------------------------------------------
(* useResource's query: enabled until the stream takes over, and again in   *)
(* polling_fallback.  The server lists, and the answer lands later.         *)

(* Mutant of PollStart: polling resumes only where there is no list yet. *)
PollStartWithoutData ==
    /\ status = "polling_fallback" /\ page = "visible" /\ fetch = "idle" /\ cache = NoList
    /\ fetch' = "sent"
    /\ UNCHANGED <<vars, cache, buffer, hookClosed, handle, status, attempts, page, answer, overrun>>

(* An interval of the enabled query has passed. *)
PollStart ==
    /\ status = "polling_fallback" /\ page = "visible" /\ fetch = "idle"
    /\ fetch' = "sent"
    /\ UNCHANGED <<vars, cache, buffer, hookClosed, handle, status, attempts, page, answer, overrun>>

PollServed ==
    /\ fetch = "sent"
    /\ fetch' = "answered" /\ answer' = Store
    /\ UNCHANGED <<vars, cache, buffer, hookClosed, handle, status, attempts, page, overrun>>

PollLands ==
    /\ fetch = "answered"
    /\ cache' = answer /\ fetch' = "idle"
    /\ overrun' = IF hookClosed THEN overrun ELSE "list"
    /\ UNCHANGED <<vars, buffer, hookClosed, handle, status, attempts, page, answer>>

-----------------------------------------------------------------------------
HookStep == OnSnapshot \/ OnDelta \/ OnDegraded \/ OnAuthExpired
            \/ (\E counted \in BOOLEAN : OnServerError(counted))
NativeError == \E counted \in BOOLEAN : OnNativeError(counted)
Rejected == \E counted \in BOOLEAN : OnRejected(counted)
Poll == PollStart \/ PollServed \/ PollLands

BNext ==
    \/ BehindTheScenes
    \/ HookStep \/ NativeError \/ Rejected
    \/ Flush \/ Hide \/ HideTimeout \/ Show \/ Remount
    \/ Poll

BSpec == BInit /\ [][BNext]_allVars

(* As in WatchStream; also the flush timer fires and polled Lists answer. *)
BFairSpec ==
    /\ BSpec
    /\ WF_allVars(LoopStep /\ UNCHANGED hookVars)
    /\ WF_allVars(HandlerStep /\ UNCHANGED hookVars)
    /\ WF_allVars(Connect /\ UNCHANGED hookVars)
    /\ WF_allVars(HookStep)
    /\ WF_allVars(NativeError /\ es = "ended" /\ wire = <<>>)
    /\ WF_allVars(Flush)
    /\ WF_allVars(Poll)

-----------------------------------------------------------------------------
(* Properties *)

BTypeOK ==
    /\ cache \in Rows \cup {NoList}
    /\ buffer \in Seq(Deltas)
    /\ hookClosed \in BOOLEAN /\ handle \in BOOLEAN
    /\ overrun \in {"no", "deltas", "list"} /\ page \in {"visible", "grace", "hidden"}
    /\ status \in {"connecting", "live", "reconnecting", "polling_fallback"}
    /\ attempts \in 0..MaxReconnectAttempts
    /\ fetch \in {"idle", "sent", "answered"} /\ answer \in Rows

(* The rows the table shows, with the deltas still in the 50ms buffer, are  *)
(* the collection at the version the stream has reached (flush and the      *)
(* snapshot listener, useResourceStream.ts): batching loses, repeats and    *)
(* reorders nothing.                                                        *)
TableFollowsStream ==
    lastId # 0 /\ ~hookClosed => ApplyDeltas(cache, buffer) = hist[lastId].rows

(* The same outside the two overlaps the hook leaves open: a snapshot, or a *)
(* polled List, that is written between a delta and its flush.              *)
TableFollowsUnlessOverrun == overrun = "no" => TableFollowsStream

(* A hook without an EventSource has closed it, the fallback is final, and *)
(* the error budget is spent only by giving up.                            *)
HookOK ==
    /\ hookClosed => ~handle
    /\ ~handle => es = "closed"
    /\ status = "polling_fallback" => hookClosed
    /\ ~hookClosed => attempts < MaxReconnectAttempts

(* Behind TableFollowsUnlessOverrun: with its buffer the table is WatchStream's view. *)
TableIsView ==
    lastId # 0 /\ ~hookClosed /\ overrun = "no" =>
        cache # NoList /\ ApplyDeltas(cache, buffer) = view

(* The stream's own invariant, and the hook's. *)
BInv == IInv /\ BTypeOK /\ HookOK /\ TableIsView

(* "The next snapshot will replace it" (useResourceStream.ts, relist): once *)
(* the buffer is flushed, nothing older than the snapshot is in the table.  *)
SnapshotReplaces == buffer = <<>> /\ overrun # "list" => TableFollowsStream

(* A hook that has given up (fallback, expired session) writes nothing any  *)
(* more: no timer or late event revives it or touches the polled list.      *)
GivenUpIsFinal ==
    [][hookClosed /\ hookClosed' =>
          /\ status' = status /\ ~handle'
          /\ cache' # cache => fetch = "answered"]_allVars

(* What the apiserver holds reaches the table, by stream or by polling,     *)
(* unless the tab is hidden, the session expired, or the stream was refused  *)
(* by its HTTP status, after which the hook neither streams nor polls.      *)
Excused == overrun # "no" \/ page # "visible" \/ (es = "closed" /\ status # "polling_fallback")
TableCatchesUp ==
    \A r \in 1..MaxRV :
        RV >= r ~> (Excused \/ \E q \in r..RV : cache = hist[q].rows)
=============================================================================
