----------------------------- MODULE LogStream ------------------------------
(***************************************************************************)
(* One log view, from the containers to the browser's buffer.  A workload  *)
(* view is served by streamWorkloadLogs (internal/k8s/logs.go), which      *)
(* lists and watches the pods and runs one goroutine per pod NAME, and by  *)
(* workloadLogsHandler (cmd/periscope/main.go), which drains their channel *)
(* to the SSE connection; a pod view is served by podLogsHandler alone.    *)
(* The browser's side is useLogStream.ts.                                  *)
(*                                                                         *)
(* Pods are numbered in the order of their creation; a name may be used    *)
(* again by a later pod, as a StatefulSet does.  A container that restarts *)
(* has a log of its own and counts as a new pod of the name, which no      *)
(* watch event announces.  A log line is the pod that wrote it and its     *)
(* number there.  What a pod set holds is left out: no property is about   *)
(* it, only about when it is sent.                                         *)
(***************************************************************************)
EXTENDS Naturals, Sequences, SequencesExt, Functions, FiniteSets

CONSTANTS
  Name,       \* pod names
  MaxBirths,  \* bound on the number of pods ever created, restarts included
  MaxLines,   \* bound on the lines written by all pods together
  Cap,        \* capacity of the channel: 4096 for a workload, 64 for a pod
  BufferCap   \* BUFFER_CAP of the browser

ASSUME LogAssumption == {MaxBirths, MaxLines, Cap, BufferCap} \subseteq Nat \ {0}

VARIABLES
  home,       \* home[i]: the name of pod i
  alive,      \* the pods that exist
  ready,      \* the pods whose container has started
  written,    \* written[i]: how many lines pod i has logged
  source,     \* what the view is of: "workload" or "pod"
  gone,       \* the request's context is done
  engine,     \* where streamWorkloadLogs is
  next,       \* where it goes on after a PodSet
  events,     \* watch events since the list
  streamers,  \* the streamers map: pod name to the pod it was started for
  gor,        \* the goroutines, by the pod they were started for
  channel,    \* eventCh, or lineCh
  handler,    \* "serve", "waiting" for streamDone, or "returned"
  view,       \* the browser: status, pending lines, buffer
  missed      \* history: existing pods that lost or never got a stream, and why

cluster == <<home, alive, ready, written>>
server == <<engine, next, events, streamers, gor>>
logVars == <<cluster, source, gone, server, channel, handler, view, missed>>

Pods == DOMAIN home
Line(i, n, own) == [kind |-> "line", pod |-> i, n |-> n, own |-> own]
PodSet == [kind |-> "meta"]
Eof(err) == [kind |-> "eof", err |-> err]
Room == Len(channel) < Cap
Missed(i, why) == IF i \in alive /\ ~gone THEN missed \union {<<i, why>>} ELSE missed

\* Where a goroutine is, the pod whose log it reads, how far it has read.
Opening == [pc |-> "open", from |-> 0, pos |-> 0, cancelled |-> FALSE]

LogInit ==
  /\ home = <<>> /\ alive = {} /\ ready = {} /\ written = <<>>
  /\ source \in {"workload", "pod"}
  /\ gone = FALSE
  /\ engine = "begin" /\ next = "watch" /\ events = <<>>
  /\ streamers = [n \in {} |-> 0]
  /\ gor = [i \in {} |-> Opening]
  /\ channel = <<>> /\ handler = "serve"
  /\ view = [status |-> "connecting", pending |-> <<>>, buffer |-> <<>>]
  /\ missed = {}

-----------------------------------------------------------------------------
(* The cluster.  From the list on, the watch has every creation and        *)
(* deletion.  What it does after the client has gone is not followed.      *)

Notify(type, i) ==
  events' = IF engine = "begin" THEN events ELSE Append(events, [type |-> type, pod |-> i])

Create(n) ==
  /\ ~gone /\ Len(home) < MaxBirths /\ \A i \in alive : home[i] # n
  /\ home' = Append(home, n)
  /\ written' = Append(written, 0)
  /\ alive' = alive \union {Len(home) + 1}
  /\ Notify("Added", Len(home) + 1)
  /\ UNCHANGED <<ready, source, gone, engine, next, streamers, gor, channel, handler, view, missed>>

Starts(i) ==
  /\ ~gone /\ i \in alive \ ready
  /\ ready' = ready \union {i}
  /\ UNCHANGED <<home, alive, written, source, gone, server, channel, handler, view, missed>>

LinesLeft == FoldFunction(+, 0, written) < MaxLines

Writes(i) ==
  /\ ~gone /\ i \in ready /\ LinesLeft
  /\ written' = [written EXCEPT ![i] = @ + 1]
  /\ UNCHANGED <<home, alive, ready, source, gone, server, channel, handler, view, missed>>

Delete(i) ==
  /\ ~gone /\ i \in alive
  /\ alive' = alive \ {i} /\ ready' = ready \ {i}
  /\ Notify("Deleted", i)
  /\ missed' = {m \in missed : m[1] # i}
  /\ UNCHANGED <<home, written, source, gone, engine, next, streamers, gor, channel, handler, view>>

\* The container of pod i ends and will start again.  The watch has a Modified
\* for it, which streamWorkloadLogs ignores.
Restart(i) ==
  /\ ~gone /\ i \in ready /\ Len(home) < MaxBirths
  /\ home' = Append(home, home[i])
  /\ written' = Append(written, 0)
  /\ alive' = (alive \ {i}) \union {Len(home) + 1} /\ ready' = ready \ {i}
  /\ missed' = {m \in missed : m[1] # i}
                 \union (IF engine = "begin" THEN {} ELSE {<<Len(home) + 1, "restart">>})
  /\ UNCHANGED <<source, gone, server, channel, handler, view>>

-----------------------------------------------------------------------------
(* streamWorkloadLogs.                                                     *)

StartStreamer(i) ==
  IF home[i] \in DOMAIN streamers
  THEN UNCHANGED <<streamers, gor>>
  ELSE /\ streamers' = [n \in DOMAIN streamers \union {home[i]} |->
                          IF n = home[i] THEN i ELSE streamers[n]]
       /\ gor' = [b \in DOMAIN gor \union {i} |-> IF b = i THEN Opening ELSE gor[b]]

\* gor with the goroutine started for pod b cancelled.
Cancelled(b) == [gor EXCEPT ![b].cancelled = TRUE]
Without(n) == [m \in DOMAIN streamers \ {n} |-> streamers[m]]

\* Mutant of StopStreamer: the entry is left to the goroutine to delete.
StopStreamerOnly(i) ==
  /\ gor' = IF home[i] \in DOMAIN streamers THEN Cancelled(streamers[home[i]]) ELSE gor
  /\ UNCHANGED streamers

StopStreamer(i) ==
  /\ streamers' = Without(home[i])
  /\ gor' = IF home[i] \in DOMAIN streamers THEN Cancelled(streamers[home[i]]) ELSE gor

\* The list, with a streamer for each of its pods.
List ==
  /\ engine = "begin" /\ source = "workload" /\ ~gone
  /\ streamers' = [n \in {home[i] : i \in alive} |-> CHOOSE i \in alive : home[i] = n]
  /\ gor' = [i \in alive |-> Opening]
  /\ engine' = "podset"
  /\ UNCHANGED <<cluster, source, gone, next, events, channel, handler, view, missed>>

\* Building the client, the selector or the list fails: the engine returns.
BeginFails ==
  /\ engine = "begin" /\ source = "workload"
  /\ engine' = "failed"
  /\ UNCHANGED <<cluster, source, gone, next, events, streamers, gor, channel, handler, view, missed>>

\* Mutant of SendPodSet: it waits for room only.
SendPodSetBlocks ==
  /\ engine = "podset"
  /\ engine' = next
  /\ Room /\ channel' = Append(channel, PodSet)
  /\ UNCHANGED <<cluster, source, gone, next, events, streamers, gor, handler, view, missed>>

\* channelSink.PodSet waits for room or for the end of the request.
SendPodSet ==
  /\ engine = "podset"
  /\ engine' = next
  /\ \/ Room /\ channel' = Append(channel, PodSet)
     \/ gone /\ UNCHANGED channel
  /\ UNCHANGED <<cluster, source, gone, next, events, streamers, gor, handler, view, missed>>

\* Mutant of OpenWatch: without the list's version the watch begins with an
\* Added for every pod there is.
OpenWatchAnew ==
  /\ engine = "watch"
  /\ engine' = "loop" /\ next' = "loop"
  /\ events' = SetToSeq({[type |-> "Added", pod |-> i] : i \in alive})
  /\ UNCHANGED <<cluster, source, gone, streamers, gor, channel, handler, view, missed>>

OpenWatch ==
  /\ engine = "watch"
  /\ engine' = "loop" /\ next' = "loop"
  /\ UNCHANGED <<cluster, source, gone, events, streamers, gor, channel, handler, view, missed>>

\* Without a watch, or once its channel is closed, the engine only waits.
WatchEnds ==
  /\ engine \in {"watch", "loop"}
  /\ engine' = "degraded"
  /\ UNCHANGED <<cluster, source, gone, next, events, streamers, gor, channel, handler, view, missed>>

WatchEvent ==
  /\ engine = "loop" /\ events # <<>>
  /\ LET e == Head(events) IN
       \/ e.type = "Added" /\ StartStreamer(e.pod)
       \/ e.type = "Deleted" /\ StopStreamer(e.pod)
  /\ events' = Tail(events)
  /\ engine' = "podset"
  /\ UNCHANGED <<cluster, source, gone, next, channel, handler, view, missed>>

EngineStops ==
  /\ engine \in {"loop", "degraded"} /\ gone
  /\ engine' = "wait"
  /\ UNCHANGED <<cluster, source, gone, next, events, streamers, gor, channel, handler, view, missed>>

EngineReturns ==
  /\ engine = "wait" /\ DOMAIN gor = {}
  /\ engine' = "done"
  /\ UNCHANGED <<cluster, source, gone, next, events, streamers, gor, channel, handler, view, missed>>

-----------------------------------------------------------------------------
(* streamSinglePodToSink, in the goroutine started for pod b.              *)

\* The log is opened by name: it is the log of the pod that has it now, from
\* its beginning or its end (tailLines, sinceSeconds).
OpenLogs(b) ==
  /\ b \in DOMAIN gor /\ gor[b].pc = "open" /\ ~gor[b].cancelled /\ ~gone
  /\ \E i \in ready :
       /\ home[i] = home[b]
       /\ \E n \in {0, written[i]} : gor' = [gor EXCEPT ![b].pc = "read", ![b].from = i, ![b].pos = n]
  /\ UNCHANGED <<cluster, source, gone, engine, next, events, streamers, channel, handler, view, missed>>

\* A container that has not started has no log to open; the call may also
\* fail.  The goroutine ends without a word.
OpenFails(b) ==
  /\ b \in DOMAIN gor /\ gor[b].pc = "open"
  /\ gor' = [gor EXCEPT ![b].pc = "end"]
  /\ missed' = Missed(b, IF b \in ready THEN "fault" ELSE "early")
  /\ UNCHANGED <<cluster, source, gone, engine, next, events, streamers, channel, handler, view>>

\* The next line of the log goroutine b reads.
Scanned(b) ==
  Line(gor[b].from, gor[b].pos + 1, gor[b].from = b)

Scan(b) ==
  /\ b \in DOMAIN gor /\ gor[b].pc = "read" /\ ~gor[b].cancelled /\ ~gone
  /\ gor[b].pos < written[gor[b].from]
  /\ gor' = [gor EXCEPT ![b].pos = @ + 1]

\* Mutant of SinkLine: the channel has no bound.
SinkLineUnbounded(b) ==
  /\ source = "workload" /\ Scan(b)
  /\ channel' = Append(channel, Scanned(b))
  /\ UNCHANGED <<cluster, source, gone, engine, next, events, streamers, handler, view, missed>>

\* channelSink.Line drops the line when the channel is full.
SinkLine(b) ==
  /\ source = "workload" /\ Scan(b)
  /\ channel' = IF Room THEN Append(channel, Scanned(b)) ELSE channel
  /\ UNCHANGED <<cluster, source, gone, engine, next, events, streamers, handler, view, missed>>

\* The log ends: its container has ended and is read to the end, the context
\* is done, or the connection breaks.
AtEnd(b) == gor[b].from \notin alive /\ gor[b].pos = written[gor[b].from]

LogEnds(b) ==
  /\ source = "workload" /\ b \in DOMAIN gor /\ gor[b].pc = "read"
  /\ gor' = [gor EXCEPT ![b].pc = "end"]
  /\ missed' = IF gor[b].cancelled \/ gone \/ AtEnd(b) THEN missed ELSE Missed(b, "fault")
  /\ UNCHANGED <<cluster, source, gone, engine, next, events, streamers, channel, handler, view>>

\* The goroutine cancels and drops the entry under its pod's name, whoever it
\* belongs to.
GoroutineEnds(b) ==
  /\ b \in DOMAIN gor /\ gor[b].pc = "end"
  /\ streamers' = Without(home[b])
  /\ LET t == IF home[b] \in DOMAIN streamers THEN streamers[home[b]] ELSE b IN
       /\ gor' = [i \in DOMAIN gor \ {b} |-> Cancelled(t)[i]]
       /\ missed' = IF t = b THEN missed ELSE Missed(t, "namesake")
  /\ UNCHANGED <<cluster, source, gone, engine, next, events, channel, handler, view>>

-----------------------------------------------------------------------------
(* podLogsHandler's reader.  It never drops a line.  The view follows (the *)
(* default), so the log ends with its container or with an error.          *)

OpenPodLogStream(i) ==
  /\ engine = "begin" /\ source = "pod" /\ ~gone /\ i \in ready
  /\ engine' = "follow"
  /\ \E n \in {0, written[i]} : gor' = [b \in {i} |-> [Opening EXCEPT !.pc = "read", !.from = i, !.pos = n]]
  /\ UNCHANGED <<cluster, source, gone, next, events, streamers, channel, handler, view, missed>>

\* Answered with an HTTP error, which the browser sees as a lost connection.
OpenPodFails ==
  /\ engine = "begin" /\ source = "pod"
  /\ engine' = "failed" /\ handler' = "returned"
  /\ UNCHANGED <<cluster, source, gone, next, events, streamers, gor, channel, view, missed>>

\* Mutant of PodLine: a full channel drops the line.
PodLineDrops(b) ==
  /\ source = "pod" /\ Scan(b)
  /\ channel' = IF Room THEN Append(channel, Scanned(b)) ELSE channel
  /\ UNCHANGED <<cluster, source, gone, engine, next, events, streamers, handler, view, missed>>

PodLine(b) ==
  /\ source = "pod" /\ Scan(b) /\ Room
  /\ channel' = Append(channel, Scanned(b))
  /\ UNCHANGED <<cluster, source, gone, engine, next, events, streamers, handler, view, missed>>

PodLogEnds(b) ==
  /\ source = "pod" /\ b \in DOMAIN gor
  /\ gor' = [i \in {} |-> Opening]
  /\ \/ Room /\ \E err \in {TRUE, ~AtEnd(b)} : channel' = Append(channel, Eof(err))
     \/ gone /\ UNCHANGED channel
  /\ engine' = "done"
  /\ UNCHANGED <<cluster, source, gone, next, events, streamers, handler, view, missed>>

-----------------------------------------------------------------------------
(* The handlers' select loop and the browser.                              *)

\* flush: the pending lines join the buffer, which keeps the newest.
Flush(v, lines) ==
  LET all == v.buffer \o lines IN
  IF Len(all) > BufferCap THEN SubSeq(all, Len(all) - BufferCap + 1, Len(all)) ELSE all

Flushed(status) == [status |-> status, pending |-> <<>>, buffer |-> Flush(view, view.pending)]
Open == view.status \in {"connecting", "streaming"}

\* onopen: for a pod view the headers only come once its log is open.
OnOpen ==
  /\ view.status = "connecting" /\ ~gone
  /\ source = "workload" \/ engine \in {"follow", "done"}
  /\ view' = [view EXCEPT !.status = "streaming"]
  /\ UNCHANGED <<cluster, source, gone, server, channel, handler, missed>>

\* One event off the channel, written and received.  The last one, done or
\* error, ends both sides.
Serve ==
  /\ handler = "serve" /\ channel # <<>> /\ view.status = "streaming"
  /\ channel' = Tail(channel)
  /\ LET e == Head(channel) IN
       /\ view' = CASE e.kind = "line" -> [view EXCEPT !.pending = Append(@, e)]
                    [] e.kind = "meta" -> view
                    [] e.kind = "eof" -> Flushed(IF e.err THEN "error" ELSE "closed")
       /\ handler' = IF e.kind = "eof" THEN "returned" ELSE handler
       /\ gone' = (gone \/ e.kind = "eof")
  /\ UNCHANGED <<cluster, source, server, missed>>

\* The channel is closed with the engine's error behind it.
ServeFailure ==
  /\ handler = "serve" /\ engine = "failed" /\ channel = <<>> /\ view.status = "streaming"
  /\ handler' = "returned" /\ gone' = TRUE
  /\ view' = Flushed("error")
  /\ UNCHANGED <<cluster, source, server, channel, missed>>

FlushTimer ==
  /\ Open /\ view.pending # <<>>
  /\ view' = Flushed(view.status)
  /\ UNCHANGED <<cluster, source, gone, server, channel, handler, missed>>

\* The connection is lost (an answer that is not a stream included): the
\* browser shows what it has and does not reconnect.
ConnectionLost ==
  /\ Open
  /\ view' = Flushed("error")
  /\ gone' = TRUE
  /\ UNCHANGED <<cluster, source, server, channel, handler, missed>>

\* The user leaves or reloads: the effect's cleanup.  A reload starts over
\* with a stream and a buffer of its own.
Leave ==
  /\ Open
  /\ view' = [status |-> "left", pending |-> <<>>, buffer |-> <<>>]
  /\ gone' = TRUE
  /\ UNCHANGED <<cluster, source, server, channel, handler, missed>>

\* The workload handler waits for the engine, the pod handler for nobody.
HandlerStops ==
  /\ handler = "serve" /\ gone /\ (source = "workload" \/ engine # "begin")
  /\ handler' = IF source = "workload" THEN "waiting" ELSE "returned"
  /\ UNCHANGED <<cluster, source, gone, server, channel, view, missed>>

HandlerReturns ==
  /\ handler = "waiting" /\ engine \in {"done", "failed"}
  /\ handler' = "returned"
  /\ UNCHANGED <<cluster, source, gone, server, channel, view, missed>>

-----------------------------------------------------------------------------
Goroutine(b) ==
  OpenLogs(b) \/ OpenFails(b) \/ SinkLine(b) \/ LogEnds(b) \/ GoroutineEnds(b)
    \/ PodLine(b) \/ PodLogEnds(b)

LogNext ==
  \/ \E n \in Name : Create(n)
  \/ \E i \in Pods : Starts(i) \/ Writes(i) \/ Restart(i) \/ Delete(i) \/ OpenPodLogStream(i) \/ Goroutine(i)
  \/ List \/ BeginFails \/ SendPodSet \/ OpenWatch \/ WatchEnds \/ WatchEvent
  \/ EngineStops \/ EngineReturns \/ OpenPodFails
  \/ OnOpen \/ Serve \/ ServeFailure \/ FlushTimer \/ ConnectionLost \/ Leave
  \/ HandlerStops \/ HandlerReturns

\* The server's goroutines keep running, and one whose context is done comes
\* to its end; pods, network and user owe nothing.
LogFairness ==
  /\ WF_logVars(List \/ BeginFails) /\ WF_logVars(OpenPodFails \/ \E i \in Pods : OpenPodLogStream(i))
  /\ WF_logVars(SendPodSet) /\ WF_logVars(OpenWatch)
  /\ WF_logVars(WatchEvent) /\ WF_logVars(EngineStops) /\ WF_logVars(EngineReturns)
  /\ WF_logVars(OnOpen) /\ WF_logVars(Serve) /\ WF_logVars(ServeFailure)
  /\ WF_logVars(HandlerStops) /\ WF_logVars(HandlerReturns)
  /\ \A b \in 1 .. MaxBirths :
       /\ WF_logVars(b \in Pods /\ (OpenLogs(b) \/ OpenFails(b)))
       /\ WF_logVars(b \in Pods /\ gone /\ (LogEnds(b) \/ PodLogEnds(b)))
       /\ WF_logVars(b \in Pods /\ GoroutineEnds(b))

LogSpec == LogInit /\ [][LogNext]_logVars /\ LogFairness

-----------------------------------------------------------------------------
Lines == [kind : {"line"}, pod : Nat, n : Nat, own : BOOLEAN]
Entries == Lines \union {PodSet, Eof(TRUE), Eof(FALSE)}
Events == [type : {"Added", "Deleted"}, pod : Nat]
Goroutines == [pc : {"open", "read", "end"}, from : Nat, pos : Nat, cancelled : BOOLEAN]
Views == [status : {"connecting", "streaming", "closed", "error", "left"},
          pending : Seq(Lines), buffer : Seq(Lines)]

LogTypeOK ==
  /\ home \in Seq(Name) /\ alive \subseteq Pods /\ ready \subseteq alive
  /\ written \in Seq(Nat) /\ Len(written) = Len(home)
  /\ source \in {"workload", "pod"} /\ gone \in BOOLEAN
  /\ engine \in {"begin", "podset", "watch", "loop", "degraded", "wait", "follow", "failed", "done"}
  /\ next \in {"watch", "loop"}
  /\ events \in Seq(Events)
  /\ DOMAIN gor \subseteq Pods /\ \A b \in DOMAIN gor : gor[b] \in Goroutines
  /\ channel \in Seq(Entries) /\ Len(channel) <= Cap
  /\ handler \in {"serve", "waiting", "returned"}
  /\ view \in Views /\ Len(view.buffer) <= BufferCap

\* Every entry of the streamers map is a goroutine that was started under that
\* name, and a goroutine reads no further than the log goes.
StreamersOK ==
  /\ \A n \in DOMAIN streamers : streamers[n] \in DOMAIN gor /\ home[streamers[n]] = n
  /\ \A b \in DOMAIN gor :
       gor[b].pc = "read" => gor[b].from \in Pods /\ gor[b].pos <= written[gor[b].from]

\* What each kind of view does not do, and when.
PhaseOK ==
  /\ engine = "begin" =>
       /\ DOMAIN gor = {} /\ DOMAIN streamers = {} /\ events = <<>> /\ channel = <<>>
       /\ view.pending = <<>> /\ view.buffer = <<>>
  /\ source = "pod" =>
       /\ engine \in {"begin", "follow", "failed", "done"} /\ DOMAIN streamers = {}
       /\ engine # "follow" => DOMAIN gor = {}
       /\ \A b \in DOMAIN gor : gor[b].pc = "read" /\ gor[b].from = b /\ DOMAIN gor = {b}
  /\ \A j \in DOMAIN channel :
       /\ channel[j].kind = "meta" => source = "workload"
       /\ channel[j].kind = "eof" => source = "pod" /\ engine = "done" /\ j = Len(channel)

\* All that is shown or on its way, oldest first.
Stream == view.buffer \o view.pending \o channel
Own(e, i) == e.kind = "line" /\ e.own /\ e.pod = i

\* A pod is announced once, before it is read.
AnnouncedOnce ==
  \A j \in DOMAIN events :
    /\ events[j].pod \in Pods
    /\ events[j].type = "Added" =>
         /\ events[j].pod \notin DOMAIN gor
         /\ \A k \in DOMAIN Stream : ~Own(Stream[k], events[j].pod)
         /\ \A k \in DOMAIN events : events[k].type = "Added" /\ events[k].pod = events[j].pod => k = j

\* Lines read for their own pod are in order, and none is ahead of the
\* goroutine that reads them.
ReadInOrder ==
  \A k \in DOMAIN Stream : Stream[k].kind = "line" /\ Stream[k].own =>
    LET i == Stream[k].pod IN
    /\ i \in Pods
    /\ i \in DOMAIN gor => gor[i].pc # "open" /\ gor[i].from = i /\ Stream[k].n <= gor[i].pos
    /\ \A j \in 1 .. k - 1 : Own(Stream[j], i) => Stream[j].n < Stream[k].n

\* e is the last line of a pod that will write no more.
Final(e) == e.kind = "line" /\ e.pod \in Pods \ alive /\ e.n = written[e.pod]

\* A pod view lacks no line between the last one and the reader, and closes
\* after the last.
ReadToTheEnd ==
  /\ (source = "pod" /\ Stream # <<>>) =>
       \A b \in DOMAIN gor : Last(Stream).kind = "line" /\ Last(Stream).pod = b /\ Last(Stream).n = gor[b].pos
  /\ (channel # <<>> /\ Last(channel) = Eof(FALSE) /\ Len(Stream) > 1) => Final(Stream[Len(Stream) - 1])
  /\ view.status = "closed" =>
       source = "pod" /\ engine = "done" /\ channel = <<>> /\ (Stream # <<>> => Final(Last(Stream)))

(* The log view as a whole (streamWorkloadLogs, podLogsHandler and their   *)
(* sinks, useLogStream): every part above, in every state.                 *)
LogInv == LogTypeOK /\ StreamersOK /\ PhaseOK /\ AnnouncedOnce /\ ReadInOrder /\ ReadToTheEnd

(* What the reader sees (streamWorkloadLogs, podLogsHandler, useLogStream   *)
(* flush): the lines of a pod come in the order they were written and none *)
(* twice, whatever streams end, start or are dropped, as far as they were  *)
(* read for that pod; a pod view that says closed goes to the last line.   *)
(* (A stream started for an earlier pod of the name may read the later     *)
(* one's log as well.)                                                     *)
ShownInOrder ==
  LET s == view.buffer \o view.pending IN
  /\ \A j, k \in DOMAIN s :
       (j < k /\ s[j].pod = s[k].pod /\ s[j].own /\ s[k].own) => s[j].n < s[k].n
  /\ (view.status = "closed" /\ s # <<>>) => Last(s).n = written[Last(s).pod]

(* Nothing is left behind (workloadLogsHandler's wait for streamDone, the  *)
(* sink's ctx.Done cases): when the client has gone, a goroutine blocked   *)
(* on a full channel included, all goroutines end and the handler returns. *)
LeavesNothingBehind ==
  gone ~> (handler = "returned" /\ DOMAIN gor = {})

Listening == source = "workload" /\ engine \in {"podset", "watch", "loop"} /\ ~gone
IsRead(i) == \E b \in DOMAIN gor : gor[b].pc = "read" /\ gor[b].from = i
MissedFor(i, reasons) == \E why \in reasons : <<i, why>> \in missed

(* The pods of a workload view (StreamDeploymentLogs): as long as the watch *)
(* lasts, a running pod gets its lines read, or else its stream was opened *)
(* before its container had started, was cancelled by the goroutine of an  *)
(* earlier pod of its name, ended with the container that has restarted    *)
(* since, or failed.                                                       *)
PickedUpUnlessMissed ==
  \A i \in 1 .. MaxBirths :
    (i \in ready /\ Listening)
      ~> (IsRead(i) \/ i \notin ready \/ ~Listening \/ MissedFor(i, {"early", "namesake", "restart", "fault"}))

(* "New pods that come up during the stream (e.g. rolling restart) are      *)
(* automatically picked up via Watch" (logs.go StreamDeploymentLogs), with *)
(* failures of the API server, and restarts within a pod, as the only      *)
(* excuses.                                                                *)
NewPodsPickedUp ==
  \A i \in 1 .. MaxBirths :
    (i \in ready /\ Listening)
      ~> (IsRead(i) \/ i \notin ready \/ ~Listening \/ MissedFor(i, {"restart", "fault"}))
=============================================================================
