----------------------------- MODULE ExecServer -----------------------------
(***************************************************************************)
(* All pod-exec requests of a server: execHandler from its cap checks to   *)
(* the deferred removal of its entry in exec.Registry, and k8s.Policy, the *)
(* breaker that decides between WebSocket and SPDY for each cluster.  What *)
(* happens inside a session is ExecSession's subject.                      *)
(*                                                                         *)
(* A request that is refused (a cap, a bad parameter, a failed upgrade)    *)
(* leaves no trace.  The caps are those of the request's cluster, but the  *)
(* user's sessions are counted over all clusters.                          *)
(***************************************************************************)
EXTENDS Naturals, FiniteSets

CONSTANTS
    Requests,       \* exec requests; one is reused once it has ended
    Actors, Clusters,
    ActorOf, ClusterOf,
    MaxSessionsPerUser,  \* per cluster, after ResolveForCluster
    MaxSessionsTotal,    \* per cluster, after ResolveForCluster
    FailThreshold,       \* PolicyConfig.FailThreshold
    MaxFails             \* bound: consecutiveWSFails is not counted further

ASSUME ExecAssumption ==
    /\ IsFiniteSet(Requests)
    /\ ActorOf \in [Requests -> Actors] /\ ClusterOf \in [Requests -> Clusters]
    /\ MaxSessionsPerUser \in [Clusters -> Nat \ {0}]
    /\ MaxSessionsTotal \in [Clusters -> Nat \ {0}]
    /\ FailThreshold \in Nat \ {0} /\ MaxFails \in Nat

VARIABLES
    stage,      \* where the handler of each request is
    sessions,   \* Registry.sessions
    mode,       \* what Choose returned to the request
    fails,      \* consecutiveWSFails of each cluster
    pinned,     \* clusters with pinnedToSPDYUntil in the future
    raced,      \* history: requests overtaken by another between their check and Add
    atPin       \* history: the WebSocket attempts under way when a cluster was pinned

vars == <<stage, sessions, mode, fails, pinned, raced, atPin>>

Stages == {"idle", "user", "admitted", "listed", "streaming", "over"}
Window == {r \in Requests : stage[r] \in {"user", "admitted"}}
Listed == {"listed", "streaming", "over"}

SessionsOf(a) == {r \in sessions : ActorOf[r] = a}
SessionsOn(c) == {r \in sessions : ClusterOf[r] = c}
CountForActor(a) == Cardinality(SessionsOf(a))
CountForCluster(c) == Cardinality(SessionsOn(c))

UserCap(r) == MaxSessionsPerUser[ClusterOf[r]]
TotalCap(r) == MaxSessionsTotal[ClusterOf[r]]

Attempts(c) == {r \in Requests : /\ stage[r] = "streaming" /\ mode[r] = "ws_then_spdy"
                                 /\ ClusterOf[r] = c}

Init ==
    /\ stage = [r \in Requests |-> "idle"]
    /\ sessions = {}
    /\ mode = [r \in Requests |-> "none"]
    /\ fails = [c \in Clusters |-> 0]
    /\ pinned = {}
    /\ raced = {}
    /\ atPin = [c \in Clusters |-> {}]

Goto(r, s) == stage' = [stage EXCEPT ![r] = s]
PolicyUnchanged == UNCHANGED <<fails, pinned, atPin>>

-----------------------------------------------------------------------------
(* Admission *)

(* The user's sessions are counted ... *)
CheckUser(r) ==
    /\ stage[r] = "idle"
    /\ CountForActor(ActorOf[r]) < UserCap(r)
    /\ Goto(r, "user")
    /\ raced' = raced \ {r}
    /\ UNCHANGED <<sessions, mode>> /\ PolicyUnchanged

(* Mutant of CheckCluster: the cap itself is still let in. *)
CheckClusterOneMore(r) ==
    /\ stage[r] = "user"
    /\ Goto(r, IF CountForCluster(ClusterOf[r]) <= TotalCap(r) THEN "admitted" ELSE "idle")
    /\ UNCHANGED <<sessions, mode, raced>> /\ PolicyUnchanged

(* ... and then, under a lock of its own, the cluster's. *)
CheckCluster(r) ==
    /\ stage[r] = "user"
    /\ Goto(r, IF CountForCluster(ClusterOf[r]) < TotalCap(r) THEN "admitted" ELSE "idle")
    /\ UNCHANGED <<sessions, mode, raced>> /\ PolicyUnchanged

(* A bad command, or websocket.Accept fails. *)
UpgradeFails(r) ==
    /\ stage[r] = "admitted"
    /\ Goto(r, "idle")
    /\ UNCHANGED <<sessions, mode, raced>> /\ PolicyUnchanged

(* The upgrade is done; Registry.Add counts nothing. *)
Shares(r, q) == ActorOf[r] = ActorOf[q] \/ ClusterOf[r] = ClusterOf[q]
Add(r) ==
    /\ stage[r] = "admitted"
    /\ Goto(r, "listed")
    /\ sessions' = sessions \cup {r}
    /\ raced' = raced \cup {q \in Window \ {r} : Shares(r, q)}
    /\ UNCHANGED mode /\ PolicyUnchanged

-----------------------------------------------------------------------------
(* The exec stream *)

(* Mutant of Fails: an early return before the removal is deferred. *)
FailsKeepsEntry(r) ==
    /\ stage[r] = "listed"
    /\ Goto(r, "idle")
    /\ UNCHANGED <<sessions, mode, raced>> /\ PolicyUnchanged

(* ExecPod fails before it chooses: no config, no client, no container. *)
Fails(r) ==
    /\ stage[r] = "listed"
    /\ Goto(r, "over")
    /\ UNCHANGED <<sessions, mode, raced>> /\ PolicyUnchanged

(* Mutant of Choose: the pin is not looked at. *)
ChooseIgnoresPin(r) ==
    /\ stage[r] = "listed"
    /\ Goto(r, "streaming")
    /\ mode' = [mode EXCEPT ![r] = "ws_then_spdy"]
    /\ UNCHANGED <<sessions, raced>> /\ PolicyUnchanged

(* Policy.Choose *)
Choose(r) ==
    /\ stage[r] = "listed"
    /\ Goto(r, "streaming")
    /\ mode' = [mode EXCEPT ![r] =
                  IF ClusterOf[r] \in pinned THEN "spdy_only" ELSE "ws_then_spdy"]
    /\ UNCHANGED <<sessions, raced>> /\ PolicyUnchanged

(* The stream is over; runWithFallback tells the breaker only now.          *)
StreamEnds(r) ==
    /\ stage[r] = "streaming"
    /\ Goto(r, "over")
    /\ UNCHANGED <<sessions, mode, raced>>

(* WebSocket, exit 0: everything is reset. *)
WsSucceeds(r) ==
    /\ StreamEnds(r) /\ mode[r] = "ws_then_spdy"
    /\ fails' = [fails EXCEPT ![ClusterOf[r]] = 0]
    /\ pinned' = pinned \ {ClusterOf[r]}
    /\ UNCHANGED atPin

(* The upgrade was rejected and the SPDY stream ended with exit 0. *)
SpdyFallsBack(r) ==
    LET c == ClusterOf[r]
    IN  /\ StreamEnds(r) /\ mode[r] = "ws_then_spdy"
        /\ fails[c] < MaxFails
        /\ fails' = [fails EXCEPT ![c] = @ + 1]
        /\ IF fails[c] + 1 >= FailThreshold
           THEN /\ pinned' = pinned \cup {c}
                /\ atPin' = [atPin EXCEPT ![c] = IF c \in pinned THEN @ ELSE Attempts(c)]
           ELSE UNCHANGED <<pinned, atPin>>

(* Any other end: a failure, a cancelled session or a non-zero exit on      *)
(* either transport, or a pinned cluster's SPDY stream.                     *)
EndsUncounted(r) == StreamEnds(r) /\ PolicyUnchanged

(* The deferred Registry.Remove *)
Remove(r) ==
    /\ stage[r] = "over"
    /\ Goto(r, "idle")
    /\ sessions' = sessions \ {r}
    /\ atPin' = [c \in Clusters |-> atPin[c] \ {r}]
    /\ UNCHANGED <<mode, raced, fails, pinned>>

(* PinDuration has passed; the counter keeps its value. *)
PinExpires(c) ==
    /\ c \in pinned
    /\ pinned' = pinned \ {c}
    /\ UNCHANGED <<stage, sessions, mode, fails, raced, atPin>>

-----------------------------------------------------------------------------
Next ==
    \/ \E r \in Requests :
          \/ CheckUser(r) \/ CheckCluster(r) \/ UpgradeFails(r) \/ Add(r)
          \/ Fails(r) \/ Choose(r)
          \/ WsSucceeds(r) \/ SpdyFallsBack(r) \/ EndsUncounted(r)
          \/ Remove(r)
    \/ \E c \in Clusters : PinExpires(c)

Spec == Init /\ [][Next]_vars

-----------------------------------------------------------------------------
(* Properties *)

ETypeOK ==
    /\ stage \in [Requests -> Stages]
    /\ sessions \subseteq Requests
    /\ mode \in [Requests -> {"none", "ws_then_spdy", "spdy_only"}]
    /\ fails \in [Clusters -> Nat]
    /\ pinned \subseteq Clusters
    /\ raced \subseteq Requests
    /\ atPin \in [Clusters -> SUBSET Requests]

(* The registry holds exactly the sessions between Add and Remove, whatever *)
(* way they end.                                                            *)
RegistryExact == sessions = {r \in Requests : stage[r] \in Listed}

(* A check that nobody overtook is still true when the session is added.    *)
ChecksHold ==
    \A r \in Window \ raced :
        /\ CountForActor(ActorOf[r]) < UserCap(r)
        /\ stage[r] = "admitted" => CountForCluster(ClusterOf[r]) < TotalCap(r)

(* A pinned cluster has its FailThreshold of failures, and an attempt over  *)
(* WebSocket that is under way on it is older than the pin.                 *)
PinHasCause ==
    \A c \in pinned : fails[c] >= FailThreshold /\ Attempts(c) \subseteq atPin[c]

EInv == ETypeOK /\ RegistryExact /\ ChecksHold /\ PinHasCause

(* The caps hold for every session that was not overtaken between its cap   *)
(* check and its registration by another of the same user or cluster        *)
(* (execHandler counts before the upgrade and adds after it).               *)
CapUnlessRaced ==
    [][\A r \in sessions' \ sessions : r \notin raced =>
          /\ Cardinality({q \in sessions' : ActorOf[q] = ActorOf[r]}) <= UserCap(r)
          /\ Cardinality({q \in sessions' : ClusterOf[q] = ClusterOf[r]}) <= TotalCap(r)]_vars

(* A pin ends when its time is over, or by the success of a session that is *)
(* older than the pin; never by one that was started under it.              *)
UnpinnedByOldSession ==
    [][\A c \in pinned \ pinned' :
          \/ UNCHANGED stage
          \/ \E r \in atPin[c] : stage[r] = "streaming" /\ stage'[r] = "over"]_vars
=============================================================================
