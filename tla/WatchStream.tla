---------------------------- MODULE WatchStream ----------------------------
(***************************************************************************)
(* One resource watch stream, end to end: the apiserver, the list-then-    *)
(* watch loop (watchKind / drainWatcher), the bounded channel between that *)
(* goroutine and the SSE handler (watchChannelSink), the handler itself    *)
(* (resourceWatchHandler), the connection, and the browser's EventSource   *)
(* with its Last-Event-ID.                                                 *)
(*                                                                         *)
(* The apiserver is external.  Its history of the watched collection is a  *)
(* sequence: hist[r] is the write that produced resourceVersion r and the  *)
(* collection after it.  Resource versions are numbered by the writes of   *)
(* this collection; only their order matters to the code.                  *)
(*                                                                         *)
(* A handler that has returned cancels its request context; what its       *)
(* goroutine does after that goes to a channel nobody reads, so this       *)
(* module forgets it (module StreamLifecycle follows it to its end).       *)
(***************************************************************************)
EXTENDS Naturals, Sequences

CONSTANTS
    Keys,       \* rows of the collection (namespace/name)
    ChanCap,    \* capacity of eventCh (256 in the code)
    WireCap,    \* bytes in flight before a write blocks, counted in events
    MaxRV,      \* bound: writes the apiserver makes, the initial state included
    MaxFaults   \* bound: disruptions of the connection, the watch or the tab

ASSUME StreamAssumption ==
    /\ Keys # {}
    /\ ChanCap \in Nat \ {0}
    /\ WireCap \in Nat \ {0}
    /\ MaxRV \in Nat
    /\ MaxFaults \in Nat

VARIABLES
    hist,        \* the apiserver's history (external)
    compacted,   \* watches older than this are answered 410 Gone (external)
    loop,        \* where the watch goroutine is
    resumeFrom,  \* watchKind's parameter, 0 for the empty string
    watchRV,     \* resourceVersion the current watch has reached
    ch,          \* eventCh
    overflow,    \* sink.closedByBackpressure
    streamErr,   \* the goroutine returned an error
    wire,        \* SSE events written and not yet read by the browser
    es,          \* readyState of the EventSource; "ended": response over, not yet noticed
    lastId,      \* the EventSource's last event id, 0 for none
    view,        \* the rows the browser has after the events it has read
    shown,       \* history: the resourceVersion view corresponds to
    faults       \* disruptions so far

serverVars == <<loop, resumeFrom, watchRV, ch, overflow, streamErr>>
clientVars == <<es, lastId, view, shown>>
apiVars == <<hist, compacted>>
vars == <<apiVars, serverVars, wire, clientVars, faults>>

-----------------------------------------------------------------------------
(* Rows: the resourceVersion of each row, 0 when it does not exist. *)
Rows == [Keys -> Nat]
Writes == {"initial", "added", "modified", "deleted"}
DeltaTypes == {"added", "modified", "deleted"}
Entries == [type : Writes, key : Keys, rows : Rows]
Goodbyes == {"error", "backpressure", "server_shutdown", "auth_expired"}

RV == Len(hist)
Store == hist[RV].rows

(***************************************************************************)
(* Events.  "at" is the resource version the stream has reached with the   *)
(* event.  Snapshots and deltas carry it as their SSE id; relist and the   *)
(* goodbyes carry no id, and there "at" is a history value only.           *)
(***************************************************************************)
Snapshot(h, r) == [type |-> "snapshot", at |-> r, rows |-> h[r].rows]
Delta(h, r)    == [type |-> h[r].type, at |-> r, key |-> h[r].key]
Relist(r)      == [type |-> "relist", at |-> r]
Goodbye(t)     == [type |-> t, at |-> 0]

Events ==
    [type : {"snapshot"}, at : Nat, rows : Rows]
    \cup [type : Writes, at : Nat, key : Keys]
    \cup [type : {"relist"} \cup Goodbyes, at : Nat]

HasId(e) == e.type \in DeltaTypes \cup {"snapshot"}

(* Mutant of ApplyDelta: a deletion is not applied. *)
ApplyDeltaKeepsDeleted(rows, e) ==
    IF e.type = "deleted" THEN rows ELSE [rows EXCEPT ![e.key] = e.at]

(* removeRowFromList, addRowToList (insert or replace) and patchRowInList  *)
(* (replace only a row that is there): one delta on the browser's rows.    *)
ApplyDelta(rows, e) ==
    CASE e.type = "added"    -> [rows EXCEPT ![e.key] = e.at]
      [] e.type = "modified" -> [rows EXCEPT ![e.key] = IF @ = 0 THEN 0 ELSE e.at]
      [] e.type = "deleted"  -> [rows EXCEPT ![e.key] = 0]

-----------------------------------------------------------------------------
Init ==
    /\ \E rows \in [Keys -> {0, 1}] :
          /\ hist = <<[type |-> "initial", key |-> CHOOSE k \in Keys : TRUE, rows |-> rows]>>
          /\ view = [k \in Keys |-> 0]
    /\ compacted = 1
    /\ loop = "none" /\ resumeFrom = 0 /\ watchRV = 0
    /\ ch = <<>> /\ overflow = FALSE /\ streamErr = FALSE
    /\ wire = <<>>
    /\ es = "connecting" /\ lastId = 0 /\ shown = 0
    /\ faults = 0

-----------------------------------------------------------------------------
(* The apiserver: external. *)

Mutate(k, type) ==
    /\ RV < MaxRV
    /\ (type = "added") = (Store[k] = 0)
    /\ hist' = Append(hist,
         [type |-> type, key |-> k,
          rows |-> [Store EXCEPT ![k] = IF type = "deleted" THEN 0 ELSE RV + 1]])
    /\ UNCHANGED <<compacted, serverVars, wire, clientVars, faults>>

Compact ==
    /\ compacted < RV
    /\ compacted' = RV
    /\ UNCHANGED <<hist, serverVars, wire, clientVars, faults>>

Disrupt == faults < MaxFaults /\ faults' = faults + 1

-----------------------------------------------------------------------------
(* The watch goroutine. *)

(* Mutant of Send: a full channel drops the event and the loop goes on. *)
SendDropsWhenFull(e, next) ==
    /\ ch' = IF Len(ch) < ChanCap THEN Append(ch, e) ELSE ch
    /\ loop' = next
    /\ UNCHANGED overflow

(* watchChannelSink.Send, with the two ways on: the event is queued and the *)
(* loop goes on at "next", or the channel is full and the loop returns nil. *)
Send(e, next) ==
    IF Len(ch) < ChanCap
    THEN ch' = Append(ch, e) /\ loop' = next /\ UNCHANGED overflow
    ELSE overflow' = TRUE /\ loop' = "done" /\ UNCHANGED ch

(* Mutant of Resume: resumeFrom is not cleared after its one use. *)
ResumeReused ==
    /\ loop = "top" /\ resumeFrom # 0
    /\ watchRV' = resumeFrom
    /\ loop' = "open"
    /\ UNCHANGED <<apiVars, resumeFrom, ch, overflow, streamErr, wire, clientVars, faults>>

(* watchKind, resume path: no List and no Snapshot.  resumeFrom is used once. *)
Resume ==
    /\ loop = "top" /\ resumeFrom # 0
    /\ watchRV' = resumeFrom /\ resumeFrom' = 0
    /\ loop' = "open"
    /\ UNCHANGED <<apiVars, ch, overflow, streamErr, wire, clientVars, faults>>

(* watchKind, fresh path: List, then the Snapshot at the list's version. *)
ListFresh ==
    /\ loop = "top" /\ resumeFrom = 0
    /\ Send(Snapshot(hist, RV), "open")
    /\ watchRV' = RV
    /\ UNCHANGED <<apiVars, resumeFrom, streamErr, wire, clientVars, faults>>

(* List, the watch open or the watch itself fails with anything but 410. *)
LoopFails ==
    /\ \/ loop = "top" /\ resumeFrom = 0
       \/ loop \in {"open", "drain"}
    /\ Disrupt
    /\ loop' = "done" /\ streamErr' = TRUE
    /\ UNCHANGED <<apiVars, resumeFrom, watchRV, ch, overflow, wire, clientVars>>

(* Mutant of OpenWatch: the watch starts from now, not from the list. *)
OpenWatchFromNow ==
    /\ loop = "open" /\ loop' = "drain"
    /\ watchRV' = RV
    /\ UNCHANGED <<apiVars, resumeFrom, ch, overflow, streamErr, wire, clientVars, faults>>

(* spec.Watch at watchRV: opened, or 410 Gone and back to the fresh path. *)
OpenWatch ==
    /\ loop = "open"
    /\ loop' = IF watchRV >= compacted THEN "drain" ELSE "top"
    /\ UNCHANGED <<apiVars, resumeFrom, watchRV, ch, overflow, streamErr, wire, clientVars, faults>>

(* drainWatcher: the next ADDED, MODIFIED or DELETED.  Bookmarks change nothing. *)
DrainEvent ==
    /\ loop = "drain"
    /\ watchRV < RV /\ watchRV >= compacted
    /\ Send(Delta(hist, watchRV + 1), "drain")
    /\ watchRV' = watchRV + 1
    /\ UNCHANGED <<apiVars, resumeFrom, streamErr, wire, clientVars, faults>>

(* Mutant of DrainGone: the relist is announced but the watch just goes on. *)
DrainGoneKeepsWatching ==
    /\ loop = "drain" /\ watchRV < compacted
    /\ Send(Relist(watchRV), "drain")
    /\ watchRV' = compacted
    /\ UNCHANGED <<apiVars, resumeFrom, streamErr, wire, clientVars, faults>>

(* drainWatcher: the watch fell behind compaction; Relist, then list again. *)
DrainGone ==
    /\ loop = "drain" /\ watchRV < compacted
    /\ Send(Relist(watchRV), "top")
    /\ UNCHANGED <<apiVars, resumeFrom, watchRV, streamErr, wire, clientVars, faults>>

(* drainWatcher: the apiserver closed the watch; list again, silently. *)
DrainClosed ==
    /\ loop = "drain"
    /\ Disrupt
    /\ loop' = "top"
    /\ UNCHANGED <<apiVars, resumeFrom, watchRV, ch, overflow, streamErr, wire, clientVars>>

-----------------------------------------------------------------------------
(* The SSE handler. *)

Serving == loop # "none"
Room == Len(wire) < WireCap

(* emitWatchEvent *)
Emit ==
    /\ Serving /\ ch # <<>> /\ Room
    /\ wire' = Append(wire, Head(ch))
    /\ ch' = Tail(ch)
    /\ UNCHANGED <<apiVars, loop, resumeFrom, watchRV, overflow, streamErr, clientVars, faults>>

(* The handler returns: its request context ends the goroutine, its channel *)
(* is garbage, and the response ends after what is already on the wire.     *)
ServerForgets ==
    /\ loop' = "none" /\ resumeFrom' = 0 /\ watchRV' = 0
    /\ ch' = <<>> /\ overflow' = FALSE /\ streamErr' = FALSE

HandlerReturns(written) ==
    /\ ServerForgets
    /\ wire' = written
    /\ es' = "ended"
    /\ UNCHANGED <<apiVars, lastId, view, shown>>

(* eventCh closed and drained: error, backpressure or a silent end. *)
ChannelClosed ==
    /\ loop = "done" /\ ch = <<>> /\ Room
    /\ HandlerReturns(
         CASE streamErr              -> Append(wire, Goodbye("error"))
           [] overflow /\ ~streamErr -> Append(wire, Goodbye("backpressure"))
           [] OTHER                  -> wire)
    /\ UNCHANGED faults

(* deps.ServerCtx.Done and the 60s session check: queued events are lost. *)
HandlerStops(reason) ==
    /\ Serving /\ Room
    /\ Disrupt
    /\ HandlerReturns(Append(wire, Goodbye(reason)))

-----------------------------------------------------------------------------
(* The connection and the browser's EventSource. *)

(* A new request: Last-Event-ID becomes watchKind's resumeFrom. *)
Connect ==
    /\ es = "connecting"
    /\ es' = "open"
    /\ loop' = "top" /\ resumeFrom' = lastId
    /\ UNCHANGED <<apiVars, watchRV, ch, overflow, streamErr, wire, lastId, view, shown, faults>>

(* A response that is not 200 (429 from the limiter, 404, a proxy's 503): *)
(* EventSource closes for good.                                           *)
Reject ==
    /\ es = "connecting"
    /\ Disrupt
    /\ es' = "closed"
    /\ UNCHANGED <<apiVars, serverVars, wire, lastId, view, shown>>

(* The browser reads the next event. *)
Deliver ==
    /\ es \in {"open", "ended"} /\ wire # <<>>
    /\ LET e == Head(wire)
       IN  /\ lastId' = IF HasId(e) THEN e.at ELSE lastId
           /\ shown'  = IF HasId(e) THEN e.at ELSE shown
           /\ view'   = CASE e.type = "snapshot"   -> e.rows
                          [] e.type \in DeltaTypes -> ApplyDelta(view, e)
                          [] OTHER                 -> view
           /\ es' = IF e.type = "auth_expired" THEN "closed" ELSE es
           /\ wire' = IF e.type = "auth_expired" THEN <<>> ELSE Tail(wire)
    /\ UNCHANGED <<apiVars, serverVars, faults>>

(* The response is over: the EventSource reconnects by itself. *)
Eof ==
    /\ es = "ended" /\ wire = <<>>
    /\ es' = "connecting"
    /\ UNCHANGED <<apiVars, serverVars, wire, lastId, view, shown, faults>>

(* The connection breaks: what is on the wire and in eventCh is lost. *)
Drop ==
    /\ es \in {"open", "ended"}
    /\ Disrupt
    /\ es' = "connecting"
    /\ ServerForgets
    /\ wire' = <<>>
    /\ UNCHANGED <<apiVars, lastId, view, shown>>

(* The hook closes the EventSource (hidden for 60s, or unmounted) ... *)
Close ==
    /\ es \in {"connecting", "open", "ended"}
    /\ Disrupt
    /\ es' = "closed"
    /\ ServerForgets
    /\ wire' = <<>>
    /\ UNCHANGED <<apiVars, lastId, view, shown>>

(* ... and a new EventSource has no last event id. *)
Reopen ==
    /\ es = "closed"
    /\ es' = "connecting" /\ lastId' = 0
    /\ UNCHANGED <<apiVars, serverVars, wire, view, shown, faults>>

-----------------------------------------------------------------------------
LoopStep ==
    Resume \/ ListFresh \/ OpenWatch \/ DrainEvent \/ DrainGone

HandlerStep == Emit \/ ChannelClosed

BrowserStep == Connect \/ Deliver \/ Eof

Next ==
    \/ \E k \in Keys, type \in DeltaTypes : Mutate(k, type)
    \/ Compact
    \/ LoopStep \/ LoopFails \/ DrainClosed
    \/ HandlerStep
    \/ HandlerStops("server_shutdown") \/ HandlerStops("auth_expired")
    \/ BrowserStep
    \/ Reject \/ Drop \/ Close \/ Reopen

Spec == Init /\ [][Next]_vars

(***************************************************************************)
(* The goroutine, the handler's select loop and the browser's event loop   *)
(* are scheduled; the apiserver need not write, nothing need fail, and the *)
(* user need not come back to a closed tab.                                *)
(***************************************************************************)
FairSpec == Spec /\ WF_vars(LoopStep) /\ WF_vars(HandlerStep) /\ WF_vars(BrowserStep)

-----------------------------------------------------------------------------
(* Properties *)

TypeOK ==
    /\ hist \in Seq(Entries) /\ Len(hist) >= 1
    /\ compacted \in 1..Len(hist)
    /\ loop \in {"none", "top", "open", "drain", "done"}
    /\ resumeFrom \in Nat /\ watchRV \in Nat
    /\ ch \in Seq(Events) /\ Len(ch) <= ChanCap
    /\ wire \in Seq(Events) /\ Len(wire) <= WireCap
    /\ overflow \in BOOLEAN /\ streamErr \in BOOLEAN
    /\ es \in {"connecting", "open", "ended", "closed"}
    /\ lastId \in Nat /\ shown \in Nat /\ view \in Rows
    /\ faults \in 0..MaxFaults

(***************************************************************************)
(* The invariant behind ViewConsistent.  Follows(h, p, e): given history h,  *)
(* e is a right event to send to a browser that has reached version p.     *)
(***************************************************************************)
Follows(h, p, e) ==
    \/ e.at \in 1..Len(h) /\ e.at >= p /\ e = Snapshot(h, e.at)
    \/ p >= 1 /\ p < Len(h) /\ e.at = p + 1 /\ e = Delta(h, e.at)
    \/ p \in 1..Len(h) /\ e = Relist(p)
    \/ e.type \in Goodbyes /\ e = Goodbye(e.type)

Chain(h, p, s) == \A i \in 1..Len(s) : Follows(h, IF i = 1 THEN p ELSE s[i - 1].at, s[i])
End(p, s) == IF s = <<>> THEN p ELSE s[Len(s)].at

(* Each write makes a version from the one before it. *)
HistoryOK ==
    \A r \in 2..RV :
        /\ hist[r].type \in DeltaTypes
        /\ (hist[r].type = "added") = (hist[r - 1].rows[hist[r].key] = 0)
        /\ hist[r].rows = [hist[r - 1].rows EXCEPT ![hist[r].key] =
                              IF hist[r].type = "deleted" THEN 0 ELSE r]

(* Who may be in which state while a connection is or is not there. *)
ConnectionOK ==
    /\ (es = "open") = (loop # "none")
    /\ loop = "none" => ch = <<>>
    /\ es \in {"connecting", "closed"} => wire = <<>>
    /\ \A i \in 1..Len(wire) :
          wire[i].type \in Goodbyes => i = Len(wire) /\ loop = "none"
    /\ \A i \in 1..Len(ch) : ch[i].type \notin Goodbyes

(* The events on their way, and the watch that produces the next ones, are *)
(* one contiguous run from the browser's last event id.                    *)
PipelineOK ==
    /\ Chain(hist, lastId, wire)
    /\ Chain(hist, End(lastId, wire), ch)
    /\ loop = "top" /\ resumeFrom # 0 =>
          ch = <<>> /\ wire = <<>> /\ resumeFrom = lastId
    /\ loop \in {"open", "drain"} =>
          resumeFrom = 0 /\ watchRV \in 1..RV /\ watchRV = End(End(lastId, wire), ch)

(* A new EventSource starts with a snapshot no older than what is shown. *)
FreshStartOK ==
    lastId = 0 =>
        /\ wire # <<>> /\ wire[1].type = "snapshot" => wire[1].at >= shown
        /\ wire = <<>> /\ ch # <<>> /\ ch[1].type = "snapshot" => ch[1].at >= shown

(* What the browser shows is exactly the collection at some version: the    *)
(* version of its last event id when it has one.  A lost, repeated or       *)
(* misplaced delta anywhere from the apiserver to the browser breaks this,  *)
(* at once or at a later reconnect (Last-Event-ID resume, main.go).         *)
ViewConsistent ==
    /\ lastId # 0 => lastId = shown
    /\ shown # 0 => shown <= RV /\ view = hist[shown].rows

IInv == TypeOK /\ HistoryOK /\ ConnectionOK /\ PipelineOK /\ FreshStartOK /\ ViewConsistent

(* After a relist the next event is the snapshot that replaces the cache or *)
(* the end of the stream, never a delta on the abandoned base.              *)
RelistThenSnapshot ==
    LET pipe == wire \o ch
    IN  \A i \in 1..(Len(pipe) - 1) :
            pipe[i].type = "relist" => pipe[i + 1].type \in {"snapshot"} \cup Goodbyes

(* The stream implements CollectionView: between reconnects, relists and    *)
(* resumes the browser only ever moves forward, from one whole version of   *)
(* the collection to another.                                               *)
CV == INSTANCE CollectionView
ShowsCollection == CV!Spec

(* Every version the apiserver reaches is eventually shown, or a newer one, *)
(* unless the EventSource is closed.                                        *)
CatchesUp == \A r \in 1..MaxRV : RV >= r ~> (shown >= r \/ es = "closed")
=============================================================================
