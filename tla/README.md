# A TLA+ model of Periscope

Periscope is a Kubernetes console: a Go server (`cmd/periscope`, `internal/`)
that talks to many clusters, directly or through agents, and a React front end
(`web/src`). These modules model the parts of it in which several goroutines,
the network and the browser interact. TLC checks them on small instances; TLAPS
proves every safety property of the passing runs for all instances, with one
condition on the configured times (`Roomy`, section 5).

Paths below are relative to `src/`. `PROJECT.json` gives the lines behind every
definition (`map`), what each run checks, the findings and the hazards.

## 1. The system

| Part | State it keeps | Operations | What is hard about it |
|---|---|---|---|
| Watch loop, `internal/k8s/watch.go` | resume version, current watch | list, open, drain, relist | writes between list and watch, compaction (410), a sink that refuses |
| Watch handler, `cmd/periscope/main.go` `resourceWatchHandler` | `eventCh`, `streamErr`, `closedByBackpressure` | emit, end with error / backpressure / expiry, wait for the goroutine | a second goroutine, a client that stalls or leaves, a bounded channel |
| Limiter and tracker, same file | streams per user, open streams | acquire, release, register, deregister | every way out of a handler must give back |
| Shutdown, `main` | `serverCtx`, `srv.Shutdown` | signal, drain, exit | who waits for whom |
| Stream hook, `web/src/hooks/useResourceStream.ts` | EventSource, delta buffer, error budget, status, timers | listeners, flush, fall back, hide / show, cleanup | timers against events, reconnects, the polling query on the same cache |
| Polling, `web/src/hooks/useResource.ts` | the React Query entry | fetch, land | a late answer over newer data |
| Exec session, `internal/exec/session.go` | `closeOverride`, `lastActivity`, pipes | read, write, ping, idle tick, run, report | five goroutines race to end one session |
| Exec handler and registry, `cmd/periscope/exec_handler.go`, `internal/exec/registry.go` | open sessions | cap check, add, remove, audit | check before the upgrade, add after it |
| Exec transport breaker, `internal/k8s/policy.go` | failures and pin per cluster | choose, record | the record comes when the stream ends |
| Browser exec client, `web/src/exec` | tabs, reconnect attempts, shells closed while hidden | open, reconnect, give up, close, restart | a reconnect is a new session while the server still runs the old one |
| Cluster shell, `internal/clustershell`, `cmd/periscope/cluster_shell_handler.go` | one pod and one Secret per session | start, attach, close | every call of the provisioning can fail, or succeed unheard |
| Registration, `internal/tunnel`, `cmd/periscope/agent_*.go` | tokens (in memory), CA (Secret) | mint, redeem, sign, reap | a token used twice, a restart in between |
| Agent and tunnel, `cmd/periscope-agent`, `internal/tunnel` | the agent's state Secret, `connected` | register, persist, dial, poll | a crash between answer and Secret; a reconnect before the old session is noticed |
| CVE store, `internal/cve` | findings and reference counts per digest | hydrate once, informer events, fetch, refresh, evict | four writers of the counts, two lists at different times |
| Workload logs, `internal/k8s/logs.go`, handlers in `main.go`, `web/src/hooks/useLogStream.ts` | `streamers` by pod name, `eventCh`, the browser's buffer | list, watch, read, send, flush | goroutines per name that outlive their pod, a full channel, a client that leaves |
| Node shell | AWS session | start, attach, close | partial failure |
| Audit, auth, authz, credentials, caches, AWS engines, Helm, apply, summaries, editor | configuration, TTL maps, files | requests | mostly data or I/O; see `components` for each |

How they interact: a page mounts `useResource`, which polls until
`/api/features` names the streaming kinds, then `useResourceStream` opens an
EventSource. The handler asks the limiter, registers with the tracker, starts
the watch goroutine and forwards its events. On a reconnect the browser sends
the id of the last event it read and the loop resumes there. Stream and poller
write the same query entry. An exec session is one WebSocket whose frames go to
and from `ExecPod`, with a heartbeat and an idle timer beside them; the handler
writes an audit record at both ends. A cluster shell is an `exec.Run` in a pod the
handler makes for it and deletes afterwards; its tab is an `ExecClient` with the
same reconnect supervisor as pod exec. An agent sends its bootstrap token to the
registration endpoint, keeps the certificate it gets in a Secret, and dials the
tunnel with it; remotedialer holds the sessions, `tunnel.Server` a map of who is
connected that a poller per connect keeps. The first request for CVE data hydrates
the store of its cluster and leaves a pod informer and a refresh loop behind. A log
view is one SSE request with a goroutine per pod behind it.

What makes each part correct:

- stream: what the browser shows is the collection at *one* version, it moves
  forward only, it catches up, and no fault of the connection, the channel or the
  apiserver leaves a hidden gap;
- hook: batching changes nothing, a hook that has given up stays quiet, and the
  data keeps coming by stream or by polling;
- handlers: caps hold, slots and entries come back, no goroutine outlives the
  data it shares;
- exec: a session ends when its peer is gone, is closed as idle only after a
  warning (where the configured times leave room for one), and the client, the result and the record agree about why;
- exec across sessions: the registry holds what is open, caps hold up to requests
  that overlap, the breaker's pin is ended only by time or an older session;
- shells: nothing stays in the cluster after a session, whichever call failed; a
  session nobody looks at ends; a tab does not reconnect for ever;
- enrollment: a token is good for one certificate, in its own name, of the one CA;
  an agent dials only as what its Secret says; after any fault it comes back;
- CVE: reference counts are what runs, eviction takes only what does not, and what
  runs gets its findings although fetches fail;
- logs: lines of a pod in order and never twice, a running pod is read, everything
  ends with the client.

## 2. Modules

| Module | Models | Uses |
|---|---|---|
| `CollectionView` | the promise of a stream to its table | |
| `WatchStream` | one stream, apiserver to EventSource | instantiates `CollectionView` |
| `BrowserStream` | hook and poller on top of the stream | extends `WatchStream` |
| `StreamLifecycle` | all watch requests of a server, limiter, tracker, shutdown | |
| `ExecSession` | one exec session and its close record | |
| `ExecServer` | all exec requests: caps, registry, transport breaker | |
| `Enrollment` | what registration promises | |
| `Agents` | server and agent process: CA, tokens, registration, Secret, tunnel | instantiates `Enrollment` |
| `CveStore` | the image half of the CVE cache of a cluster | |
| `LogStream` | one log view, containers to browser | |
| `ShellService` | a user's cluster-shell tabs and their sessions | |
| `WatchStreamProofs` | theorems about `WatchStream` and `BrowserStream` | TLAPS |
| `StreamLifecycleProofs`, `ExecSessionProofs`, `ExecServerProofs`, `AgentsProofs`, `CveStoreProofs`, `LogStreamProofs`, `ShellServiceProofs` | theorems about the module of that name | TLAPS |
| `MC*` | instances for TLC | |

Definitions named after a fault ("Mutant of ...") are altered copies of the
action that follows. They are used by no specification; replacing the action by
its mutant must break the property it is listed with in `PROJECT.json`.

### WatchStream

The apiserver is external: `hist[r]` is the write that made version `r` and the
rows after it; `compacted` is the oldest version a watch can start from. A row is
the version it was last written at, 0 if it does not exist. `loop` is the program
counter of `watchKind`/`drainWatcher`: `top` (choose resume or list), `open`,
`drain`, `done` (returned). `ch` is `eventCh`, `wire` what was written and not yet
read; a write blocks when the wire is full. `es` is the EventSource:
`connecting`, `open`, `ended` (the response is over, the browser has not noticed)
or `closed`.

`Send` is `watchChannelSink.Send`: queued, or the channel is full and the loop
returns nil with `closedByBackpressure`. `Resume` and `ListFresh` are the two ways
into a watch, `OpenWatch` has the 410 fallback, `DrainEvent`, `DrainGone`,
`DrainClosed` and `LoopFails` are the exits and steps of `drainWatcher`. `Emit`,
`ChannelClosed` and `HandlerStops` are the handler; when it returns its channel is
garbage, so `ServerForgets` resets the server side (what the goroutine does after
that is StreamLifecycle's subject). `HandlerStops("server_shutdown")` is in the
handler's code and therefore here, although the run `shutdown` shows that `main`
does not trigger it while a stream is open. `Connect` carries Last-Event-ID; `Deliver` applies an event with
`ApplyDelta`, which is what `addRowToList`, `patchRowInList` and
`removeRowFromList` do to a keyed list: a MODIFIED for a row that is not there is
dropped. `at` of a relist or a goodbye is a history value, not an id.

Left out: the order of rows, the summaries, bookmarks (the code ignores them), and
the sort-and-cap of the events kind (`PostList`), so for events the results hold
for the uncapped list.

### BrowserStream

`cache` is the query entry the table renders, `buffer` the deltas waiting for the
50ms flush, `hookClosed` and `handle` the effect's `closed` and `es`, `attempts`
the error budget, `page` the tab's visibility with its 60s timer, `fetch` a polled
List under way. The hook's listeners are conjoined with the stream's `Deliver`,
`Eof`, `Drop` and `Reject`; everything else of the stream happens behind the
scenes. An error within a second of the last is not counted (`counted = FALSE`);
since time is not modelled, any error but the first may be uncounted. `overrun` is
a history variable that marks the two overlaps the hook leaves open: a snapshot
written while deltas are buffered, and a List that lands on the stream's cache.

### StreamLifecycle

Per request: the handler's stage (`acquired`, `serving`, `waiting` for
`streamDone`, `leaving`, `releasing`, `returned`), whether it is blocked in a
write, the goroutine (`running`, `closed`: eventCh closed, `done`: streamDone
closed), whether its context is done and its session expired. Deferred calls run
in reverse order, so the tracker entry goes before the slot. A write blocks when the
client does not read, the goodbye frame of a handler about to leave included.
`SeesExpiry` is also the handler's `ServerCtx` case; `serverCtx` is set only by
`Drained`, the return of `main`, and a drain that takes too long ends the process
(`DrainTimeout`) without setting it. The run `shutdown` shows what that means for an
open stream.

### ExecSession

One program counter per goroutine (`reader`, `writer`, `heart`, `idle`, `main`).
Bytes are not modelled, only whether any flowed. The idle clock is `elapsed`, the time
since `lastActivity`, and `due`, the time to the next tick; `Tick`, `IdleTimeout` and
`IdleWarnLead` are constants, any positive numbers, as the configuration takes them.
The idle goroutine loads `lastActivity` (`IdleLook`), and what it does about it comes in
steps of their own: the warning (`IdleWarns`), or `setOverride` (`IdleTags`) and then the
closed frame with `cancel` (`IdleCloses`). Reader and writer may store `lastActivity`
between any two of them. `warnSent` is history: the present quiet period was warned of.
`Roomy` says that the lead and the rest of the timeout leave room for a tick, as the
defaults (10 minutes, 30s lead, 5s tick) do; only then is every close warned of.
`select` may take a tick although
the context is done. A ping fails when the peer does not answer, when the reader
that would see the pong is inside `stdinW.Write`, and when the session is cancelled
while it is in flight. A closing frame on a done context may or may not get out.
`ExecPod` is modelled by how it ends (`Results`); `quick127` is an exit 127 within
1.5s. `Report` is the end of `Run` together with the record of `execHandler`.
A deadline of the request context is not modelled: it has none.

### ExecServer

Per request: `idle`, `user` (its user's sessions were counted), `admitted` (its
cluster's too; the upgrade is under way), `listed` (in the registry), `streaming`
(`Policy.Choose` has answered), `over`. A refused request leaves nothing behind, so
only requests that pass the first check take a step. The caps are those of the
request's cluster; a user's sessions are counted over all clusters. What happens
inside a session is `ExecSession`; here a stream ends in one of the three ways
`RecordResult` tells apart. The pin is a set of clusters and its end (`PinExpires`)
may come at any time; the failure counter keeps its value then, so one more fallback
pins again. Two history variables say what the properties except: `raced` holds
the requests that another of the same user or cluster overtook between their check
and `Add`, `atPin` the WebSocket attempts under way when a cluster was pinned.
Nothing bounds how far overlapping requests exceed a cap: all of them may pass the
check before the first is added. `MaxFails` bounds the counter of the instance only.

### CveStore

`pods` is the cluster (external): which pods run and the digests `PodImageDigests`
returns for each, in order and with repetitions, since the hook counts containers on
add and delete and distinct digests on update. `hyd` is the progress of the
`sync.Once` (`cold`, `probe`, `list`, `fetch`, `ready`, or `off` / `failed`, which
it keeps for good), `informer` that of the hook (`synced` is `syncDone`), `queue` the
notifications client-go has not yet delivered. `store` has a row per digest: `refs`
and the age of the findings in the five classes that `IterStale` and `IterEvictable`
tell apart. `jobs` are the delta and manual fetches under way and `loop` the one
goroutine that scans, then fetches or evicts, without the lock in between. A fetch
that ends may leave the store as it was: Inspector failed, or the call joined the
single flight of another cluster with the same key. `low` and `high` are history:
that a race may have made the counts too small, or too large. There are four such
races, each marked where it happens: `InformerList` (the two lists differ), `OnAdd`
(`syncDone` against the replay), `OnUpdate` (sets against containers), `EvictDigest`
(a row that came back to life after the scan).

`refs` counts containers, which is what hydrate, add and delete do;
the comments speak of pods, and a pod that runs a digest in two containers counts twice.

Time enters through `Grow`. A row gets old only after a TTL pass has failed on it,
because passes come every minute and `EvictAfter` is hours beyond `RefreshInterval`.

### Enrollment and Agents

`Enrollment` is the promise: tokens are minted for a cluster, the CA is chosen once,
and a certificate is issued at most once per token, in the token's cluster and under
that CA. `Agents` implements it with `caSecret` for the CA and the history variables
`minted` and `issued`.

The server process is `srv` with the token map, the registrations in progress
(`reqs`), the sessions and `connected`; all of that goes with `ServerCrash`, and
`caSecret` stays. `RedeemToken` marks the token consumed before it looks at the rest,
so a refused token is used up too. The agent's `pc` follows `ensureState` and then
`Client.Run`: `boot`, `waiting` for the answer, `persist`, `dial`, `handshake`,
`session`. Every error before the dial ends the process and the kubelet starts it
again. A registration the agent has stopped waiting for goes on at the server
(`awaited = FALSE`); an answer can be lost after the token is spent, and the Secret
can be written without the agent hearing of it (`PersistFails`). `live` and `zombies`
are remotedialer's sessions (external): the agent's own and those of connections that
are dead without the server knowing. `Authorize` is the tunnel's authorize hook,
`PollerSees` and `PollerMarks` the two halves of `watchDisconnect`, and `raced` marks
that a poller's answer was overtaken by a new connect.

### LogStream

Pods are numbered by creation and may share a name one after the other; a container
that ends and is started again within its pod is numbered like a new pod of that name
that no Added event announces (`Restart`), so its log has an end while the pod lives
on. `home`, `alive`, `ready`, `written` are the cluster (external). `engine` follows
`streamWorkloadLogs` (`begin`, `podset`, `watch`, `loop`, `degraded` when there is no
watch, `wait` for the goroutines, `done`, `failed`); a `PodSet` blocks on the channel
and `next` is where it goes on. `streamers` is the map by name and `gor` the
goroutines by the pod they were started for: the log call goes by name, so a
goroutine may read the log of a later pod (`from`). `SinkLine` drops when the channel
is full; a pod view (`PodLine`) waits instead. `view` is `useLogStream`: status, the
lines before the next flush, the buffer with its cap. `missed` is history: pods that
have no reader and why (`early`: opened before the container had started, `namesake`:
its entry was cancelled by the goroutine of an earlier pod of the same name, `restart`:
the stream ended with the container before, `fault`: a call failed). A view without
`follow`, which ends at the present end of the log, is not modelled. After the client has gone the cluster is no longer followed: nothing
the engine still does depends on it.

### ShellService

`tab` is what the browser shows (status, `reconnectAttempt`, the session behind the
socket), `recent` what the hidden-page timer has closed, `sess` the sessions of the
server by number. A session runs through `clusterShellHandler`: `check` (caps),
`accept` (upgrade, `sessions.Add`), `secret`, `pod`, `wait`, `run`, `close`, `ended`;
`wire` has the frames still to be read, `drop` being a close without a frame, which
the client takes for a lost connection and reconnects. `objs` are the pod and Secret
that exist. An action that ends a handler states what it leaves behind, and `orphans`
records whether a fault was its reason (`TRUE`) or not (`FALSE`). The upgrade of a
browser that has gone may still succeed (`Accept`), and a pod is then made for nobody.
When a handler returns, its registry entry goes before the deferred `ws.Close`; only
where `Start` failed is the WebSocket closed first. `Return` does both at once: a tab
that came back in between would be refused, and `Refuse` may happen at any check. A session that is
over and that no tab is on is forgotten and its number used again.

## 3. Runs

| Run | Shows | States | Time |
|---|---|---|---|
| `watch_stream` | `IInv`, `ViewConsistent`, `RelistThenSnapshot`, `ShowsCollection`, `CatchesUp` | 193,550 | 1 min |
| `browser_stream` | `BInv`, `TableFollowsUnlessOverrun`, `GivenUpIsFinal`, `TableCatchesUp` | 325,366 | 2 min |
| `stream_lifecycle` | `LInv`, `WithinCap`, `LeavesAfterGoroutine`, `GoneIsReleased`, `ExpiredIsClosed` | 8,607 | 5 s |
| `exec_session` | `SInv`, `IdleIsWarned`, `DeadPeerEndsSession`, `ToldIdleEndsIdle` | 106,358 | 25 s |
| `exec_server` | `EInv`, `CapUnlessRaced`, `UnpinnedByOldSession` | 632,618 | 20 s |
| `cve_store` | `CveInv`, `CountsDriftOnlyWhenRaced`, `SweepPicksUnused`, `RunningIsFetched` | 316,490 | 1 min |
| `agents` | `AgInv`, `DialsAsPersisted`, `ListedUnlessRaced`, `OneCertPerToken`, `GoneIsDelisted`, `EnrollsUnlessFault`, `EnrolledIsConnected` | 96,619 | 30 s |
| `log_stream` | `LogInv`, `ShownInOrder`, `LeavesNothingBehind`, `PickedUpUnlessMissed` | 225,531 | 70 s |
| `shell_service` | `ShInv`, `LeftSessionEnds`, `ClientSettles` | 62,265 | 2 min |
| `stale_delta` | violated: `SnapshotReplaces` | | 15 s |
| `new_pods` | violated: `NewPodsPickedUp` | | 5 s |
| `shutdown` | violated: `ShutdownReachesStreams` | | 3 s |

Run with `tlc -config <cfg> <module>`; `PROJECT.json` names both.

Bounds and why they are enough. `watch_stream`: two rows, so that a delta for one
can be lost between two for the other; a channel of one event, so that backpressure
happens with something queued; a wire of two; three versions and two faults, so a
stream can be compacted, broken and resumed, and broken again. `browser_stream` has
one row and one fault on top of a channel and wire of one, three versions and a
budget of two errors: the smallest with a relist between two deltas and a fallback.
`stale_delta` needs a fourth version. `stream_lifecycle`: two requests of one user
against a cap of one, so the cap is reached and a slot is waited for; a request is
reused after it has ended. `exec_session`: a
tick of 2, a timeout of 5 and a lead of 2, the smallest with room for a tick on either
side of the warning. Nothing else is bounded there.
`exec_server`: three requests of two users on two clusters, user caps of one and two, cluster caps of one
and a threshold of two failures, so that each cap is reached alone, requests overlap,
and a session is older than a pin. `cve_store`: two pods and one digest, used up to
twice in a pod, and two changes, made before, between or after the two lists; a second
digest would only repeat the first, since rows do not interact. `agents`: one agent,
two tokens (one for another cluster) and two faults, so that an answer is lost and the
retry meets a crash; two reconnects overlap one poller. `log_stream`: one name, used
twice, two lines in all, a channel of one so that a line and a pod set compete for the
slot. `shell_service`: two tabs against a user cap of one, two opens and one fault, so
that a refused tab retries while the other's old session winds down; `MaxAttempts` is
one (four in the code), the smallest number that is reached. Both tabs restarted at
once from the hidden page would need two opens more and are not in the instance. `Ids`
is large enough for every session that can exist at the same time; `ShTypeOK` checks
that it is: `Paid` has the reason, a session or a tab about to reconnect per shell
opened or restarted and per fault. Deadlock is checked in no run: bounds end the
environment, a server stops, a session is over, a tab is closed, and what must not
wait for ever is stated as a liveness property.

What the violations show is quoted against the code's own comments under
`findings`: a buffered delta flushed over a newer snapshot; a pod that is listed before
its container has started and is then never read, although the watch is up and no call
fails; a shutdown that no open stream hears of, because nothing cancels `serverCtx`
while `srv.Shutdown` waits for the handlers.

`findings` also lists disagreements between comments and code that were met on the
way and have no run of their own. The models contain the behaviour of each that lies
in a modelled part: a connect refused by its HTTP status, after which the hook neither
streams nor polls; a session closed unwarned because the configured lead is shorter than
the tick, or as idle although a byte arrived after the look at `lastActivity`; idle and
heartbeat closes recorded as `server_error`; a present peer declared dead while its
input waits for the container; a log goroutine that cancels its namesake's; a shell's
pod or Secret left behind by `Close` without a client or by a create whose answer was
lost; a refused or failed shell that the browser retries; CVE findings that are not
fetched again, counts of containers where the comment says pods, and counts that drift
(`syncDone`, failed probe, failed delta fetch); a poller that deletes the entry of an
agent that is back.

Where a property has an exception, a history variable names it, and the exception is
a hazard in the list: `low` and `high`, `raced`, `missed`, `orphans`, `overrun`.
`TableFollowsUnlessOverrun` and
`TableCatchesUp` except the overlaps of `overrun` (that is the finding of
`stale_delta`, and the late List), and `TableCatchesUp` excuses a refused stream
(a finding), a hidden tab and an expired session.

## 4. Fairness

- `WatchStream`: weak fairness of the goroutine, the handler's loop and the
  browser's event loop. The apiserver need not write; nothing need fail; a closed
  tab need not come back.
- `BrowserStream`: the same, plus the flush timer, the browser's reconnect after
  the end of a response, and polled Lists are answered.
- `StreamLifecycle`: strong fairness of a handler's own steps. Between two writes
  the handler is back in its `select`, and Go picks among ready cases at random, so
  a case that is ready again and again is taken. A goroutine whose context is done
  returns (client-go ends the call), a write to a broken connection returns. A
  client need not read: `ExpiredIsClosed` excepts a client that does not, because
  the code sets no write deadline. `srv.Shutdown` returns when all is idle or its 25s
  are over.
- `ExecSession`: goroutines run, tickers tick, `ExecPod` returns once its context is
  done. The user need not type, the container need not read, write or exit.
- `CveStore`: hydrate, informer and loop keep running, a fetch ends. Strong fairness
  of `FetchDigests`: as long as a row is stale Inspector is asked every minute, and
  it does not fail every time.
- `Agents`: both processes are restarted by Kubernetes and take their own steps; a
  dead connection is noticed (remotedialer's pings). Nobody need mint a token, install
  an agent or let anything expire; faults are bounded, not fair.
- `LogStream`: goroutines run; one whose context is done ends, because client-go ends
  the call. Neither the network nor the user nor the cluster owes a step.
- `ShellService`: a handler goes on until it returns (`PodStartTimeout` bounds the
  wait for the pod, the heartbeat finds a browser that has gone), a client reads its
  socket and its timer fires. A shell need not end by itself.

## 5. Proofs

`WatchStreamProofs`, from `StreamAssumption` alone (some row, positive capacities,
any bounds):

- `TypeCorrect`: `Spec => []TypeOK`;
- `Invariance`: `Spec => []IInv`;
- `Consistency`: `Spec => []ViewConsistent`;
- `Refinement`: `Spec => CollectionView!Spec`.

`ViewConsistent` is not inductive: whether the next delta is right depends on
everything between the watch and the browser. `IInv` says that the pipeline is one
contiguous run: `Follows(h, p, e)` holds when `e` is a right event for a browser at
version `p` (a snapshot no older, the delta of `p + 1`, a relist or a goodbye);
`Chain` extends it to a sequence; the wire is a chain from the last event id, the
channel one from the end of the wire, and the watch stands at the end of the
channel. Around it: `HistoryOK` (each version is made from the one before it),
`ConnectionOK` (who is in which state while a connection exists; a goodbye is
last), `FreshStartOK` (a new EventSource starts with a snapshot no older than what
is shown). The lemmas `ChainAppend`, `ChainTail` and `ChainExtends` carry a chain
through Send, Emit/Deliver and a write; `ApplyDeltaCorrect` says that a delta turns
the rows of version `r - 1` into those of `r`. One lemma per action then gives
`InvStep`, which also shows that every step is one of `CollectionView` or stutters.

`StreamLifecycleProofs`, from `LifecycleAssumption` (finitely many requests, each
with a user, any cap): `LifecycleInvariance` (`LInv`), and from it `CapHolds`
and `GoroutineFirst`. `WithinCap` speaks of the tracker and needs
that counts are exact (`SlotsExact`) and that a tracked stream holds a slot;
`SlotsExact` needs the cardinality lemmas `SlotTaken` and `SlotGiven` for a request
that enters or leaves the set of holders.

`ExecServerProofs`, from `ExecAssumption` (finitely many requests, any caps and
threshold of at least one): `ExecInvariance` (`EInv`), and from it `CapsHold` and
`OldSessionsUnpin`. `EInv` adds to the types that the registry is exactly the
sessions between `Add` and `Remove`, that a check nobody overtook is still true
(`ChecksHold`, by the cardinality lemmas: others can only leave the registry), and
that the WebSocket attempts of a pinned cluster are older than its pin
(`PinHasCause`).

`AgentsProofs`, from `AgentsAssumption` (any tokens, clusters and number of faults):
`AgentsInvariance` (`AgInv`), and from it `EnrollmentRefined` (`AgSpec` implies
`Enrollment`'s specification), `IdentityPersisted` and `SessionListed`. None of the
three properties is inductive. That a certificate is the first of its token needs
`TokensOnce`: a token that was redeemed is used up, or no longer there, in the very
step that lets its request go on to be signed, and no other request has redeemed it.
That it carries the one CA needs `CAHeld`: a server that answers requests holds what
the Secret holds. That an agent never overwrites its Secret needs `OneAwaited` (one
answer is awaited at most, and only while it waits) and `SecretOK` (the Secret is
empty then). `NoPollerMarks` carries `ListedUnlessRaced` through the handshake. The
lemmas `...Kept` say what a step keeps that leaves the variables of a part alone; one
lemma per action then shows `AgInv'` and that the step is one of `Enrollment` or
leaves it alone.

`ExecSessionProofs`, from `IdleAssumption` (positive times): `SessionInvariant`
(`SInv`) and, where `Roomy` holds, `IdleWarned` (`IdleIsWarned`). For any times `SInv`
has, beside the types, that the first cause written to `closeOverride` stays and is what
`Run` returns (`OneCause`), and that each of the two goroutines that tell the client why
does so once (`ToldAtMostTwice`). Where there is room for a tick it also has
`WarnedInTime`. That argument is about `elapsed + due`, the age at which the next tick
will find the quiet period: time leaves the sum alone, a byte brings it down to at most
a tick, a look adds a tick. A period that the next tick finds a tick past the warning
point has therefore been looked at since, and was warned of then; the `warned` left over
from an earlier period is taken down by the first look at the new one, which comes
before its warning point. Without `Roomy` the statement is false: with a lead of 1 in the
instance above TLC finds a session that one look sees before the warning point and the
next past the timeout.

`WatchStreamProofs` again, further on. `RelistRenews` (`RelistThenSnapshot`) needs
to know that behind the last relist of the pipe the loop stands at `top` without a
resume version or is done (`RelistInv`). For the hook, `HookInvariance` (`BInv`), and from it `TableFollows`,
`GivenUpStays` and `PageRefinement` (`BSpec` implies `CollectionView` as well: the
hook's own steps stutter). `BInv` is `IInv` with `TableIsView`: outside an overrun
the table with its buffered deltas applied is the stream's view. A flush folds the
buffer into the table, so the proof needs that a fold over an appended delta is the
fold followed by that delta, for buffers of any length. That is induction over data;
it is done by the least counterexample (`LeastNat`), since the library's induction
rules take an operator the provers cannot instantiate.

`CveStoreProofs`, from `CveAssumption` (finitely many pods, any images and bounds):
`StoreInvariant` (`CveInv`), `CountsExact` (`CountsDriftOnlyWhenRaced`) and
`SweepSafe` (`SweepPicksUnused`). The property speaks of states in which the hook has
caught up; in between, the counts are right for the *past* that the hook has seen. The
inductive invariant `CountOK` therefore says that there is a trail `K` of usages, one
before each queued notification and the last being what runs now, whose steps are what
the notifications say, and that the counts are bounded by `K[0]` (from below unless
`low`, from above unless `high`). A change of the cluster extends the trail at its
end, a handled notification drops its first element; the lemmas on sums over pods
(`UsesBy`) say what one pod's image adds.

`ShellServiceProofs`, from `ShellAssumption` (finitely many tabs, any caps, attempts
and faults): `ShellInvariant` (`ShInv`). That nothing is left behind is not inductive
alone: what a session holds in the cluster is determined by its step (`StepOK`), and
a tab and its session know each other (`TabsApart`). `Paid` bounds the server's
sessions together with the tabs that are about to reconnect by shells opened and faults,
which is why a reconnecting tab cannot multiply sessions.

`LogStreamProofs`, from `LogAssumption` (positive bounds and capacities):
`LogInvariant` (`LogInv`) and `ShownInOrderAlways` (`ShownInOrder`). The argument is
about `Stream`, all that is in the buffer, pending and in the channel, oldest first. It
changes in three ways only: a line, a pod set or the end is appended; the first entry
of the channel moves over, which leaves `Stream` as it is (`ConcatMove`), or is left
out (`ConcatDrop`); a flush or a departure keeps its end (`ConcatSuffix`,
`FlushSuffix`). `Thin` (some entries left out) and `Suffix` name the last two and the
lemmas `ThinInOrder`, `AppendInOrder` and `SuffixEnd` say what they keep.
`ReadInOrder` puts every own line behind the position of its goroutine, so the next
one is later; that no goroutine starts over needs `AnnouncedOnce`: a pod whose Added
event is queued has not been read, and there is no second such event. Completeness of
a closed pod view is `ReadToTheEnd`: without a drop the last line of `Stream` is where
the reader stands, and an end without an error is only sent when the container has ended
and the reader is at the end of its log.

Only model-checked: the liveness properties (`CatchesUp`, `TableCatchesUp`,
`GoneIsReleased`, `ExpiredIsClosed`, `DeadPeerEndsSession`, `ToldIdleEndsIdle`,
`RunningIsFetched`, `GoneIsDelisted`, `EnrollsUnlessFault`, `EnrolledIsConnected`,
`LeavesNothingBehind`, `PickedUpUnlessMissed`, `LeftSessionEnds`, `ClientSettles`).
They rest on fairness and `ENABLED`, which are out of the prover's reach. Every
invariant, action property and refinement of a passing run is also a theorem,
`IdleIsWarned` under `Roomy`.
`LinesLeft`, a bound of `LogStream` that sums over a function, stays unexpanded in the
proofs: nothing depends on it.

## 6. Not modelled

Inside modelled parts: row order, caps and summaries of lists, and with them the order
in which the event list is trimmed; detail-query invalidation; two hooks that stream
into the same query entry; a log view without `follow`; what a pod set contains, log text and timestamps; requests
through the agent tunnel and the length of its reconnect delay; the EC2 half of the
CVE store, which has no informer and counts nothing after its hydrate; stdin, resize
and the order of shell tabs; the command log a shell leaves in the audit.

Left out as a whole, with the reason for each in `PROJECT.json`: node shell over SSM,
audit sinks, authentication, authorization tiers, credentials and cluster registry,
server-side TTL caches, EKS identity and IAM engines, apply, rollback and Helm,
resource reads and summaries, editor, forms and pages. These are most of the
repository's lines, and what they have in common is that a model of them would be
their text again: types, DTO mapping, rendering, form schemas, AWS and Helm calls that
are one request each, with no state that outlives the request and nothing running
beside it. The modules therefore cover a small share of the lines: those in which
goroutines, processes, timers or messages meet.

## 7. Plan

1. Properties across modules: a session of `ExecServer` ends as `ExecSession` says,
   a request of `StreamLifecycle` as `WatchStream` says.
2. `BrowserStream` with two hooks on one query key; the event list's cap as a pure
   function checked against a reference.
3. Node shell as a second instance of `ShellService`'s server side; the EC2 half of
   `CveStore`.
