------------------------------ MODULE CveStore ------------------------------
(***************************************************************************)
(* The image-digest half of the CVE cache of one cluster: the cold hydrate *)
(* (hydrate.go), the long-lived pod informer (watch_hook.go), the delta    *)
(* and manual fetches, and the goroutine that runs the TTL refresh and the *)
(* eviction sweep (manager.go), all on one Store (store.go).               *)
(*                                                                         *)
(* A pod is the list of image digests of its containers.  A cache row is   *)
(* its reference count and the age of its findings: "never" fetched,       *)
(* "fresh", "stale" (older than RefreshInterval), "missed" (stale and a    *)
(* TTL pass has failed on it) or "old" (older than EvictAfter).  TTL       *)
(* passes come every minute and EvictAfter is 18 hours beyond              *)
(* RefreshInterval, so a row only gets old once a pass has missed it.      *)
(***************************************************************************)
EXTENDS Integers, Sequences, SequencesExt, FiniteSets

CONSTANTS
  Pod,        \* pod names
  Digest,     \* image digests
  Image,      \* what PodImageDigests may return: sequences of digests
  Clean,      \* digests Inspector has no findings for
  MaxChanges  \* bound on the number of changes made to pods

ASSUME CveAssumption ==
  /\ IsFiniteSet(Pod)
  /\ Image \subseteq Seq(Digest)
  /\ Clean \subseteq Digest
  /\ MaxChanges \in Nat

VARIABLES
  pods,      \* the cluster: running pods and their images
  changes,   \* how often the cluster has changed
  hyd,       \* how far the once-only hydrate has come
  listed,    \* the pods hydratePods counted
  informer,  \* "off", "listed" or "synced" (hook.syncDone)
  queue,     \* informer notifications the hook has not handled
  store,     \* Store.digests
  jobs,      \* digests with a delta or a manual fetch under way
  loop,      \* the goroutine of runLoops
  \* history: the counts may have become too low, too high
  low, high

cluster == <<pods, changes>>
hydrate == <<hyd, listed>>
cveVars == <<pods, changes, hyd, listed, informer, queue, store, jobs, loop, low, high>>

Ages == {"never", "fresh", "stale", "missed", "old"}
Idle == [pc |-> "idle", keys |-> {}]

\* How often digest d occurs in an image list, and in a set of pods.
Uses(image) == [d \in Digest |-> Cardinality({i \in DOMAIN image : image[i] = d})]
UsesBy(ps) ==
  [d \in Digest |-> Cardinality(UNION {{<<p, i>> : i \in {j \in DOMAIN ps[p] : ps[p][j] = d}} : p \in DOMAIN ps})]
One(D) == [d \in Digest |-> IF d \in D THEN 1 ELSE 0]
Live(d) == UsesBy(pods)[d]

Row(s, d) == IF d \in DOMAIN s THEN s[d] ELSE [refs |-> 0, age |-> "never"]
Refs(d) == Row(store, d).refs

\* The store with n[d] references added for the digests of D, rows created.
IncDigestRef(s, D, n) ==
  [d \in DOMAIN s \union D |->
     IF d \in D THEN [Row(s, d) EXCEPT !.refs = @ + n[d]] ELSE s[d]]

\* Mutant of DecDigestRef: no floor at zero.
DecDigestRefBelowZero(s, n) == [d \in DOMAIN s |-> [s[d] EXCEPT !.refs = @ - n[d]]]

\* The store with n[d] references dropped; absent rows stay absent, counts
\* stop at zero.
DecDigestRef(s, n) ==
  [d \in DOMAIN s |-> [s[d] EXCEPT !.refs = IF @ > n[d] THEN @ - n[d] ELSE 0]]

\* Fetched findings for the digests of D: rows are created, counts kept.
UpsertDigest(s, D) ==
  [d \in DOMAIN s \union D |-> IF d \in D THEN [Row(s, d) EXCEPT !.age = "fresh"] ELSE s[d]]

\* Mutant of Stale: rows that were never fetched are skipped.
StaleOnceFetched == {d \in DOMAIN store : store[d].age \notin {"fresh", "never"}}

Stale == {d \in DOMAIN store : store[d].age # "fresh"}

\* Mutant of Evictable: age alone decides.
EvictableByAge == {d \in DOMAIN store : store[d].age \in {"never", "old"}}

Evictable == {d \in DOMAIN store : store[d].refs = 0 /\ store[d].age \in {"never", "old"}}

\* onAdd fetches what has no findings in the store.
NoFindings(s, d) == Row(s, d).age = "never" \/ d \in Clean

CveInit ==
  /\ pods \in {[p \in {} |-> <<>>]} \union [Pod -> Image]
  /\ changes = 0
  /\ hyd = "cold"
  /\ listed = [p \in {} |-> <<>>]
  /\ informer = "off"
  /\ queue = <<>>
  /\ store = [d \in {} |-> [refs |-> 0, age |-> "never"]]
  /\ jobs = {}
  /\ loop = Idle
  /\ low = FALSE
  /\ high = FALSE

-----------------------------------------------------------------------------
(* The cluster.  Once the informer has listed, every change is queued for  *)
(* the hook.                                                               *)

Event(kind, p, old, new, initial) ==
  [kind |-> kind, pod |-> p, old |-> old, new |-> new, initial |-> initial]

Notify(kind, p, old, new) ==
  queue' = IF informer = "off" THEN queue ELSE Append(queue, Event(kind, p, old, new, FALSE))

Change(p) ==
  /\ changes < MaxChanges
  /\ changes' = changes + 1
  /\ \/ /\ p \notin DOMAIN pods
        /\ \E image \in Image :
             /\ pods' = [q \in DOMAIN pods \union {p} |-> IF q = p THEN image ELSE pods[q]]
             /\ Notify("add", p, <<>>, image)
     \/ /\ p \in DOMAIN pods
        /\ \E image \in Image \ {pods[p]} :
             /\ pods' = [pods EXCEPT ![p] = image]
             /\ Notify("update", p, pods[p], image)
     \/ /\ p \in DOMAIN pods
        /\ pods' = [q \in DOMAIN pods \ {p} |-> pods[q]]
        /\ Notify("delete", p, pods[p], <<>>)
  /\ UNCHANGED <<hydrate, informer, store, jobs, loop, low, high>>

-----------------------------------------------------------------------------
(* The cold hydrate, run once under the first request that needs it.       *)

EnsureHydrated ==
  /\ hyd = "cold"
  /\ hyd' = "probe"
  /\ UNCHANGED <<cluster, listed, informer, queue, store, jobs, loop, low, high>>

\* IsEnabled: Inspector answers, says it is off, or this or the client fails;
\* the error is kept and the store marked hydrated.
Probe ==
  /\ hyd = "probe"
  /\ hyd' \in {"list", "off", "failed"}
  /\ UNCHANGED <<cluster, listed, informer, queue, store, jobs, loop, low, high>>

\* hydratePods counts the references of every pod it lists.
HydrateList ==
  /\ hyd = "list"
  /\ hyd' = "fetch"
  /\ listed' = pods
  /\ LET D == {d \in Digest : Live(d) > 0} IN store' = IncDigestRef(store, D, UsesBy(pods))
  /\ UNCHANGED <<cluster, informer, queue, jobs, loop, low, high>>

\* The list fails: a warning, and the informer is started all the same.
HydrateListFails ==
  /\ hyd = "list"
  /\ hyd' = "ready"
  /\ UNCHANGED <<cluster, listed, informer, queue, store, jobs, loop, low, high>>

\* hydratePods fetches the findings; a failure is only logged.  The informer
\* is started and the store marked hydrated.
HydrateFetch ==
  /\ hyd = "fetch"
  /\ hyd' = "ready"
  /\ store' \in {store, UpsertDigest(store, DOMAIN store)}
  /\ UNCHANGED <<cluster, listed, informer, queue, jobs, loop, low, high>>

-----------------------------------------------------------------------------
(* The pod informer.  It lists for itself, later than the hydrate did: what *)
(* the two lists disagree on is counted wrongly from then on.              *)

InformerList ==
  /\ hyd = "ready" /\ informer = "off"
  /\ informer' = "listed"
  /\ queue' = SetToSeq({Event("add", p, <<>>, pods[p], TRUE) : p \in DOMAIN pods})
  /\ low' = (low \/ \E d \in Digest : UsesBy(listed)[d] < Live(d))
  /\ high' = (high \/ \E d \in Digest : UsesBy(listed)[d] > Live(d))
  /\ UNCHANGED <<cluster, hydrate, store, jobs, loop>>

\* WaitForCacheSync sees the informer's cache filled, which does not wait for
\* the hook to have handled the initial notifications.
SyncDone ==
  /\ informer = "listed"
  /\ informer' = "synced"
  /\ UNCHANGED <<cluster, hydrate, queue, store, jobs, loop, low, high>>

OnAdd(e) ==
  LET D == {d \in Digest : Uses(e.new)[d] > 0}
      counted == informer = "synced"
      s == IF counted THEN IncDigestRef(store, D, Uses(e.new)) ELSE store
  IN  /\ e.kind = "add"
      /\ store' = s
      /\ jobs' = jobs \union {d \in D : NoFindings(s, d)}
      /\ low' = (low \/ (D # {} /\ ~counted /\ ~e.initial))
      /\ high' = (high \/ (D # {} /\ counted /\ e.initial))

\* The hook compares sets of digests, so it adds or drops at most one.
OnUpdate(e) ==
  LET old == Range(e.old)
      new == Range(e.new)
  IN  /\ e.kind = "update"
      /\ store' = DecDigestRef(IncDigestRef(store, new \ old, One(new \ old)),
                               One(old \ new))
      /\ jobs' = jobs \union (new \ old)
      /\ LET change == [d \in Digest |-> Uses(e.new)[d] - Uses(e.old)[d]]
             counted == [d \in Digest |-> One(new \ old)[d] - One(old \ new)[d]]
         IN  /\ low' = (low \/ \E d \in Digest : change[d] > counted[d])
             /\ high' = (high \/ \E d \in Digest : change[d] < counted[d])

\* Mutant of OnDelete: one reference per distinct digest.
OnDeleteDistinct(e) ==
  /\ e.kind = "delete"
  /\ store' = DecDigestRef(store, One(Range(e.old)))
  /\ UNCHANGED <<jobs, low, high>>

OnDelete(e) ==
  /\ e.kind = "delete"
  /\ store' = DecDigestRef(store, Uses(e.old))
  /\ UNCHANGED <<jobs, low, high>>

Handle ==
  /\ queue # <<>>
  /\ queue' = Tail(queue)
  /\ OnAdd(Head(queue)) \/ OnUpdate(Head(queue)) \/ OnDelete(Head(queue))
  /\ UNCHANGED <<cluster, hydrate, informer, loop>>

-----------------------------------------------------------------------------
(* Fetches.  A job ends without touching this store when Inspector fails,  *)
(* and also, with success, when it joined the single flight of another     *)
(* cluster: the key leaves the cluster out.                                *)

Refresh(d) ==
  /\ hyd = "ready"
  /\ jobs' = jobs \union {d}
  /\ UNCHANGED <<cluster, hydrate, informer, queue, store, loop, low, high>>

JobEnds(d) ==
  /\ d \in jobs
  /\ jobs' = jobs \ {d}
  /\ store' \in {store, UpsertDigest(store, {d})}
  /\ UNCHANGED <<cluster, hydrate, informer, queue, loop, low, high>>

-----------------------------------------------------------------------------
(* One goroutine does both the TTL pass and the eviction sweep.            *)

ScanTTL ==
  /\ hyd = "ready" /\ loop = Idle /\ Stale # {}
  /\ loop' = [pc |-> "ttl", keys |-> Stale]
  /\ UNCHANGED <<cluster, hydrate, informer, queue, store, jobs, low, high>>

FetchDigests ==
  /\ loop.pc = "ttl"
  /\ store' = UpsertDigest(store, loop.keys)
  /\ loop' = Idle
  /\ UNCHANGED <<cluster, hydrate, informer, queue, jobs, low, high>>

FetchFails ==
  /\ loop.pc = "ttl"
  /\ store' = [d \in DOMAIN store |->
                 [store[d] EXCEPT !.age = IF d \in loop.keys /\ @ = "stale" THEN "missed" ELSE @]]
  /\ loop' = Idle
  /\ UNCHANGED <<cluster, hydrate, informer, queue, jobs, low, high>>

ScanEvict ==
  /\ hyd = "ready" /\ loop = Idle /\ Evictable # {}
  /\ loop' = [pc |-> "evict", keys |-> Evictable]
  /\ UNCHANGED <<cluster, hydrate, informer, queue, store, jobs, low, high>>

\* The row goes whatever has happened to it since the sweep picked it.
EvictDigest(d) ==
  /\ loop.pc = "evict" /\ d \in loop.keys
  /\ store' = [k \in DOMAIN store \ {d} |-> store[k]]
  /\ loop' = IF loop.keys = {d} THEN Idle ELSE [loop EXCEPT !.keys = @ \ {d}]
  /\ low' = (low \/ Refs(d) > 0)
  /\ UNCHANGED <<cluster, hydrate, informer, queue, jobs, high>>

\* Time passes for one row.
Grow(d) ==
  /\ d \in DOMAIN store
  /\ \/ store[d].age = "fresh" /\ store' = [store EXCEPT ![d].age = "stale"]
     \/ store[d].age = "missed" /\ store' = [store EXCEPT ![d].age = "old"]
  /\ UNCHANGED <<cluster, hydrate, informer, queue, jobs, loop, low, high>>

-----------------------------------------------------------------------------
CveNext ==
  \/ \E p \in Pod : Change(p)
  \/ EnsureHydrated \/ Probe \/ HydrateList \/ HydrateListFails \/ HydrateFetch
  \/ InformerList \/ SyncDone \/ Handle
  \/ \E d \in Digest : Refresh(d) \/ JobEnds(d) \/ EvictDigest(d) \/ Grow(d)
  \/ ScanTTL \/ FetchDigests \/ FetchFails \/ ScanEvict

\* The hydrate, the informer and the loop keep running; Inspector, asked every
\* minute for as long as a row is stale, answers in the end.
CveFairness ==
  /\ WF_cveVars(InformerList) /\ WF_cveVars(SyncDone) /\ WF_cveVars(Handle)
  /\ WF_cveVars(HydrateFetch)
  /\ \A d \in Digest : WF_cveVars(JobEnds(d)) /\ WF_cveVars(EvictDigest(d))
  /\ WF_cveVars(ScanTTL) /\ WF_cveVars(FetchDigests \/ FetchFails) /\ SF_cveVars(FetchDigests)

CveSpec == CveInit /\ [][CveNext]_cveVars /\ CveFairness

-----------------------------------------------------------------------------
StoreOK(s) == DOMAIN s \subseteq Digest /\ \A d \in DOMAIN s : s[d] \in [refs : Nat, age : Ages]

CveTypeOK ==
  /\ DOMAIN pods \subseteq Pod /\ \A p \in DOMAIN pods : pods[p] \in Image
  /\ changes \in 0 .. MaxChanges
  /\ hyd \in {"cold", "probe", "list", "fetch", "ready", "off", "failed"}
  /\ informer \in {"off", "listed", "synced"}
  /\ StoreOK(store)
  /\ jobs \subseteq Digest
  /\ loop \in [pc : {"idle", "ttl", "evict"}, keys : SUBSET Digest]
  /\ low \in BOOLEAN /\ high \in BOOLEAN

\* The informer has caught up and the hook has handled everything.
Settled == informer # "off" /\ queue = <<>>

\* Queued notifications: an added pod had no image, a deleted one has none.
Events == [kind : {"add", "update", "delete"}, pod : Pod, old : Image \union {<<>>},
           new : Image \union {<<>>}, initial : BOOLEAN]
QueueOK ==
  /\ queue \in Seq(Events)
  /\ \A i \in 1 .. Len(queue) :
       /\ queue[i].kind = "add" => queue[i].old = <<>>
       /\ queue[i].kind = "delete" => queue[i].new = <<>>
       /\ queue[i].initial => queue[i].kind = "add"

\* What the hydrate has and has not done yet: nothing is counted, fetched or
\* swept before it, and no event is queued before the informer has listed.
PhaseOK ==
  /\ DOMAIN listed \subseteq Pod /\ \A p \in DOMAIN listed : listed[p] \in Image
  /\ hyd \notin {"fetch", "ready"} => DOMAIN store = {} /\ DOMAIN listed = {}
  /\ hyd # "ready" => informer = "off" /\ jobs = {} /\ loop = Idle
  /\ informer = "off" => queue = <<>>

(* The CVE store and its manager as a whole (store.go, hydrate.go,         *)
(* watch_hook.go): rows and counts are well formed, none is negative, and  *)
(* nothing is counted, fetched, swept or queued before the hydrate.        *)
CveInv == CveTypeOK /\ QueueOK /\ PhaseOK

(* Reference counts (store.go IncDigestRef, DecDigestRef; watch_hook.go):  *)
(* once the hook has caught up, the count of a digest is the number of     *)
(* containers running it (not of pods, as the comment on PodRefs has it:   *)
(* a pod that runs it twice counts twice), except after one of the races named by the       *)
(* history: the hydrate's list and the informer's list disagreed, a replayed *)
(* Add came after syncDone or a real one before it, an update changed how  *)
(* often a pod uses a digest, or a sweep dropped a row that was in use     *)
(* again.                                                                  *)
CountsDriftOnlyWhenRaced ==
  Settled => \A d \in Digest :
    /\ ~low => Refs(d) >= Live(d)
    /\ ~high => Refs(d) <= Live(d)

(* Eviction (manager.go scanEvict, store.go IterEvictable): the sweep only  *)
(* picks digests that no running container uses, unless a race had made    *)
(* the count too low or the hook still has events to handle.               *)
SweepPicksUnused ==
  [][ScanEvict => \A d \in loop'.keys : Live(d) = 0 \/ low \/ ~Settled]_cveVars

(* "The empty entry is fine: the next Refresh or TTL pass will populate it" *)
(* (store.go IncDigestRef): every digest in use gets its findings, however  *)
(* many fetches fail on the way, unless a race lost its count.             *)
RunningIsFetched ==
  \A d \in Digest :
    (hyd = "ready" /\ Settled /\ Live(d) > 0 /\ ~low)
      ~> (Row(store, d).age = "fresh" \/ Live(d) = 0 \/ low)
=============================================================================
