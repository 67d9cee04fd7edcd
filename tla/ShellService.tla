---------------------------- MODULE ShellService ----------------------------
(***************************************************************************)
(* Cluster shells of one user, both ends: the browser's tabs, each an      *)
(* ExecClient with its reconnect supervisor (web/src/exec), and the        *)
(* sessions clusterShellHandler (cmd/periscope) runs for their WebSockets, *)
(* each with a Secret and a pod of its own in the cluster                  *)
(* (internal/clustershell).  A reconnect is a new session; the old one     *)
(* goes on until its heartbeat misses the browser.                         *)
(*                                                                         *)
(* A session is the frames on their way to the browser (wire), whether the *)
(* browser is still there (peer) and the objects that exist for it (objs). *)
(* exec.Run itself is module ExecSession.                                  *)
(***************************************************************************)
EXTENDS Naturals, Sequences, FiniteSets, Functions

CONSTANTS
  Tab,          \* clusters the user may open a shell on, one tab each
  SessionCap,   \* SESSION_CAP of the browser
  UserCap,      \* MaxSessionsPerUser
  MaxAttempts,  \* MAX_RECONNECT_ATTEMPTS
  MaxOpens,     \* bound on the shells the user opens or restarts
  MaxFaults     \* bound on lost connections, failed deletes and crashes

ASSUME ShellAssumption ==
  /\ IsFiniteSet(Tab)
  /\ {SessionCap, UserCap, MaxAttempts, MaxOpens, MaxFaults} \subseteq Nat

VARIABLES
  tab,     \* each tab: its status, reconnectAttempt and session
  recent,  \* recentsRef: tabs the hidden timer has closed; until the page is
           \* in view again
  sess,    \* the sessions of the server, by number
  opens,   \* how many shells have been opened or restarted
  faults,  \* how many faults have happened
  orphans  \* history: for sessions that left objects behind, their fault

shVars == <<tab, recent, sess, opens, faults, orphans>>

Ended(s) == sess[s].pc = "ended"
Live == {t \in Tab : tab[t].status \in {"connecting", "connected"}}

\* The sessions in the registry.
Registered == {s \in DOMAIN sess : sess[s].pc \notin {"check", "accept", "ended"}}

\* For each of the tabs T a number no session has.
NewIds(T) ==
  CHOOSE f \in [T -> (1 .. Cardinality(DOMAIN sess) + Cardinality(T)) \ DOMAIN sess] : IsInjective(f)

NewSession == [pc |-> "check", peer |-> TRUE, wire |-> <<>>, objs |-> {}]

\* Sessions that are over are forgotten once no tab is on them.
Kept(f, tabs) ==
  [s \in {k \in DOMAIN f : f[k].pc # "ended" \/ \E t \in Tab : tabs[t].session = k} |-> f[s]]

Fault == faults < MaxFaults /\ faults' = faults + 1

ShInit ==
  /\ tab = [t \in Tab |-> [status |-> "none", attempt |-> 0, session |-> 0]]
  /\ recent = {}
  /\ sess = [s \in {} |-> NewSession]
  /\ opens = 0 /\ faults = 0 /\ orphans = {}

-----------------------------------------------------------------------------
(* ExecClient.                                                             *)

\* The tabs T on new sockets: for each a new session at the server.
OpenSockets(T, attempt) ==
  LET id == NewIds(T) IN
  /\ tab' = [t \in Tab |->
               IF t \in T THEN [status |-> "connecting", attempt |-> attempt, session |-> id[t]] ELSE tab[t]]
  /\ sess' = [s \in DOMAIN sess \union Range(id) |-> IF s \in DOMAIN sess THEN sess[s] ELSE NewSession]

\* openSession: a tab that is open is only focused.
OpenSession(t) ==
  /\ recent = {}
  /\ tab[t].status \in {"none", "closed", "error"} /\ tab[t].session = 0
  /\ Cardinality(Live) < SessionCap
  /\ opens < MaxOpens /\ opens' = opens + 1
  /\ OpenSockets({t}, 0)
  /\ UNCHANGED <<recent, faults, orphans>>

\* scheduleReconnect, and the tab off its session.
ScheduleReconnect(c) ==
  [c EXCEPT !.status = IF c.attempt >= MaxAttempts THEN "error" ELSE "reconnecting", !.session = 0]

\* The next frame or the close of the tab's socket.
Receive(t) ==
  LET s == tab[t].session
      frame == Head(sess[s].wire)
      next == [tab EXCEPT ![t] =
                 CASE frame = "hello" -> [@ EXCEPT !.status = "connected", !.attempt = 0]
                   [] frame \in {"closed", "error"} -> [@ EXCEPT !.status = frame, !.session = 0]
                   [] frame = "drop" -> ScheduleReconnect(@)]
  IN  /\ s # 0 /\ sess[s].wire # <<>>
      /\ tab' = next
      /\ sess' = Kept([sess EXCEPT ![s].wire = Tail(@), ![s].peer = next[t].session = s], next)
      /\ UNCHANGED <<recent, opens, faults, orphans>>

\* The connection breaks: the browser knows, the server does not yet.
ConnectionLost(t) ==
  LET s == tab[t].session IN
  /\ s # 0 /\ Fault
  /\ tab' = [tab EXCEPT ![t] = ScheduleReconnect(@)]
  /\ sess' = Kept([sess EXCEPT ![s].peer = FALSE, ![s].wire = <<>>], tab')
  /\ UNCHANGED <<recent, opens, orphans>>

\* Mutant of AttemptReconnect: the attempt is not counted.
AttemptReconnectUncounted(t) ==
  /\ tab[t].status = "reconnecting"
  /\ OpenSockets({t}, tab[t].attempt)
  /\ UNCHANGED <<recent, opens, faults, orphans>>

\* The timer, or reconnectNow.
AttemptReconnect(t) ==
  /\ tab[t].status = "reconnecting"
  /\ OpenSockets({t}, tab[t].attempt + 1)
  /\ UNCHANGED <<recent, opens, faults, orphans>>

GiveUp(t) ==
  /\ recent = {} /\ tab[t].status = "reconnecting"
  /\ tab' = [tab EXCEPT ![t].status = "error"]
  /\ UNCHANGED <<recent, sess, opens, faults, orphans>>

\* The tabs of T are closed by this side; their sockets go with them.
Closed(T) == [t \in Tab |-> IF t \in T THEN [status |-> "closed", attempt |-> 0, session |-> 0] ELSE tab[t]]
Hangup(T) ==
  /\ tab' = Closed(T)
  /\ LET left == {tab[t].session : t \in T} IN
       sess' = Kept([s \in DOMAIN sess |->
                       IF s \in left THEN [sess[s] EXCEPT !.peer = FALSE, !.wire = <<>>] ELSE sess[s]], Closed(T))

Close(t) ==
  /\ recent = {}
  /\ tab[t].status \in {"connecting", "connected", "reconnecting"}
  /\ Hangup({t})
  /\ UNCHANGED <<recent, opens, faults, orphans>>

\* fireHiddenClose: live shells are closed and remembered.
FireHiddenClose ==
  /\ recent = {} /\ Live # {}
  /\ Hangup(Live)
  /\ recent' = Live
  /\ UNCHANGED <<opens, faults, orphans>>

\* The page is in view in time: the shells are opened again, all against the
\* cap as it stood before the first.
AutoRestart ==
  /\ recent # {} /\ recent' = {}
  /\ opens' = opens + Cardinality(recent) /\ opens' <= MaxOpens
  /\ IF Cardinality(Live) < SessionCap THEN OpenSockets(recent, 0) ELSE UNCHANGED <<tab, sess>>
  /\ UNCHANGED <<faults, orphans>>

\* Or too late.
TooLate ==
  /\ recent # {} /\ recent' = {}
  /\ UNCHANGED <<tab, sess, opens, faults, orphans>>

-----------------------------------------------------------------------------
(* clusterShellHandler and clustershell.Session.                           *)

\* The session as it stands, and over, with a last frame for whoever is there.
Tell(rec, frame) == [rec EXCEPT !.wire = IF rec.peer THEN Append(@, frame) ELSE @]
Over(rec) == Tell([NewSession EXCEPT !.pc = "ended", !.peer = rec.peer, !.wire = rec.wire], "drop")

Step(s, from, rec) ==
  /\ s \in DOMAIN sess /\ sess[s].pc = from
  /\ sess' = [sess EXCEPT ![s] = rec]
  /\ UNCHANGED <<tab, recent, opens, orphans>>

\* The handler returns, with these objects left: the registry entry goes, then
\* the WebSocket.  (Where Start failed the WebSocket goes first; a tab that is
\* back before the entry has gone is refused, and Refuse may always happen.)
Return(s, from, objs, fault) ==
  /\ s \in DOMAIN sess /\ sess[s].pc = from
  /\ sess' = Kept([sess EXCEPT ![s] = Over(sess[s])], tab)
  /\ orphans' = IF objs = {} THEN orphans ELSE orphans \union {fault}
  /\ IF fault THEN Fault ELSE UNCHANGED faults
  /\ UNCHANGED <<tab, recent, opens>>

\* The caps: the user's own, or the cluster's, filled by other users.
Refuse(s) == Return(s, "check", {}, FALSE)

Admit(s) ==
  /\ Cardinality(Registered) < UserCap
  /\ Step(s, "check", [sess[s] EXCEPT !.pc = "accept"]) /\ UNCHANGED faults

\* The upgrade, then sessions.Add.  For a browser that has gone it may fail,
\* or go through and have a pod started for nobody.
Accept(s) ==
  /\ s \in DOMAIN sess
  /\ Step(s, "accept", [sess[s] EXCEPT !.pc = "secret"]) /\ UNCHANGED faults

AcceptFails(s) == s \in DOMAIN sess /\ ~sess[s].peer /\ Return(s, "accept", {}, FALSE)

\* Start fails before it creates anything: client, CA, token.
StartFails(s) == Return(s, "secret", {}, FALSE)

CreateSecret(s) ==
  /\ Step(s, "secret", [sess[s] EXCEPT !.pc = "pod", !.objs = {"secret"}]) /\ UNCHANGED faults

\* The create is done and its answer lost: Start returns the error and nobody
\* deletes the Secret.
CreateSecretUnanswered(s) == Return(s, "secret", {"secret"}, TRUE)

CreatePod(s) ==
  /\ Step(s, "pod", [sess[s] EXCEPT !.pc = "wait", !.objs = @ \union {"pod"}]) /\ UNCHANGED faults

\* Mutant of CreatePodFails: the Secret stays.
CreatePodFailsPlain(s) == s \in DOMAIN sess /\ Return(s, "pod", sess[s].objs, FALSE)

\* The pod is refused and the Secret taken back.
CreatePodFails(s) == s \in DOMAIN sess /\ Return(s, "pod", sess[s].objs \ {"secret"}, FALSE)

\* The same with a failed delete, or with a pod that was created after all.
CreatePodFailsBadly(s) ==
  \E objs \in {{"secret"}, {"pod"}, {"pod", "secret"}} : Return(s, "pod", objs, TRUE)

\* deletePodAndSecret; some of the deletes may fail, which is logged at most.
DeletePodAndSecret(s, from) ==
  /\ s \in DOMAIN sess
  /\ \/ Return(s, from, sess[s].objs \ {"pod", "secret"}, FALSE)
     \/ \E failed \in SUBSET sess[s].objs \ {{}} : Return(s, from, failed, TRUE)

\* WaitForPodReady gives up: too slow, failed, unreadable.
PodNotReady(s) == DeletePodAndSecret(s, "wait")

\* The pod is ready and Attach's exec.Run greets the browser.
Attach(s) ==
  /\ s \in DOMAIN sess
  /\ Step(s, "wait", Tell([sess[s] EXCEPT !.pc = "run"], "hello")) /\ UNCHANGED faults

\* exec.Run ends: the shell exits, fails or idles out, which the browser is
\* told, or the heartbeat finds the browser gone.
RunEnds(s) ==
  \E frame \in {"closed", "error"} :
    Step(s, "run", Tell([sess[s] EXCEPT !.pc = "close"], frame)) /\ UNCHANGED faults

\* Mutant of PeerGone: only a close frame ends the session.
PeerGoneNever(s) == FALSE /\ UNCHANGED shVars

PeerGone(s) ==
  /\ s \in DOMAIN sess /\ ~sess[s].peer
  /\ Step(s, "run", [sess[s] EXCEPT !.pc = "close"]) /\ UNCHANGED faults

\* Session.Close, and the handler's deferred Remove.
CloseSession(s) == DeletePodAndSecret(s, "close")

\* Close cannot build a client: it returns with closed set and both objects
\* there.
CloseGivesUp(s) == s \in DOMAIN sess /\ Return(s, "close", sess[s].objs, TRUE)

\* The process dies.  Nothing looks for the objects when it is back.
Crash ==
  /\ Fault
  /\ \E s \in DOMAIN sess : ~Ended(s)
  /\ sess' = Kept([s \in DOMAIN sess |-> IF Ended(s) THEN sess[s] ELSE Over(sess[s])], tab)
  /\ orphans' = IF \E s \in DOMAIN sess : sess[s].objs # {} THEN orphans \union {TRUE} ELSE orphans
  /\ UNCHANGED <<tab, recent, opens>>

-----------------------------------------------------------------------------
Client(t) ==
  \/ OpenSession(t) \/ Receive(t) \/ ConnectionLost(t) \/ AttemptReconnect(t)
  \/ GiveUp(t) \/ Close(t)

Serve(s) ==
  \/ Refuse(s) \/ Admit(s) \/ Accept(s) \/ AcceptFails(s)
  \/ StartFails(s) \/ CreateSecret(s) \/ CreatePod(s) \/ CreatePodFails(s)
  \/ PodNotReady(s) \/ Attach(s) \/ PeerGone(s) \/ CloseSession(s)

ShNext ==
  \/ \E t \in Tab : Client(t)
  \/ FireHiddenClose \/ AutoRestart \/ TooLate \/ Crash
  \/ \E s \in DOMAIN sess :
       \/ Serve(s) \/ RunEnds(s)
       \/ CreateSecretUnanswered(s) \/ CreatePodFailsBadly(s) \/ CloseGivesUp(s)

\* At most this many sessions are there at once: a session that no tab is on
\* was left by a tab that was opened or restarted, or by a lost connection.
Ids == 1 .. MaxOpens + MaxFaults

\* A handler goes on until it returns (PodStartTimeout and the heartbeat see
\* to the waits), a client reads its socket and its timer fires.  A shell need
\* not end, nor the user do anything.
ShFairness ==
  /\ \A s \in Ids : WF_shVars(s \in DOMAIN sess /\ Serve(s))
  /\ \A t \in Tab : WF_shVars(Receive(t) \/ AttemptReconnect(t))

ShSpec == ShInit /\ [][ShNext]_shVars /\ ShFairness

-----------------------------------------------------------------------------
Pcs == {"check", "accept", "secret", "pod", "wait", "run", "close", "ended"}
Frames == {"hello", "closed", "error", "drop"}
Tabs == [status : {"none", "connecting", "connected", "reconnecting", "closed", "error"},
         attempt : 0 .. MaxAttempts, session : Ids \union {0}]
Sessions == [pc : Pcs, peer : BOOLEAN, wire : Seq(Frames), objs : SUBSET {"pod", "secret"}]

ShTypeOK ==
  /\ tab \in [Tab -> Tabs]
  /\ recent \subseteq Tab
  /\ DOMAIN sess \subseteq Ids /\ \A s \in DOMAIN sess : sess[s] \in Sessions
  /\ opens \in 0 .. MaxOpens /\ faults \in 0 .. MaxFaults /\ orphans \subseteq BOOLEAN

\* Each tab has a session of its own, which has not lost it.
TabsApart ==
  \A t \in Tab : tab[t].session # 0 =>
    /\ tab[t].session \in DOMAIN sess /\ sess[tab[t].session].peer
    /\ \A u \in Tab : tab[u].session = tab[t].session => u = t

\* What a handler has created is what the step it is at says it has, and only
\* one that has returned has dropped the connection.
StepOK ==
  \A s \in DOMAIN sess :
    /\ sess[s].objs = CASE sess[s].pc = "pod" -> {"secret"}
                        [] sess[s].pc \in {"wait", "run", "close"} -> {"pod", "secret"}
                        [] OTHER -> {}
    /\ \A i \in 1 .. Len(sess[s].wire) : sess[s].wire[i] = "drop" => Ended(s)

\* Sessions, and the tabs about to open one, are paid for by openings and
\* lost connections; a tab about to reconnect has an attempt left.
Reconnecting == {t \in Tab : tab[t].status = "reconnecting"}
Paid ==
  /\ Cardinality(DOMAIN sess) + Cardinality(Reconnecting) <= opens + faults
  /\ \A t \in Reconnecting : tab[t].attempt < MaxAttempts

(* "partially-created resources are torn down before returning so retries   *)
(* don't leak state" (session.go Start) and Close: a session that is over  *)
(* leaves neither pod nor Secret behind, whichever step it ended at, except *)
(* after a delete that failed, a create whose answer was lost, a client    *)
(* that could not be built for Close, or a crash; and the sessions the     *)
(* server holds, abandoned ones included, are bounded by what the user     *)
(* opened and the connections that were lost, however often tabs reconnect. *)
NoLeakUnlessFault == orphans \subseteq {TRUE}

(* A user's shells as a whole (session.go, cluster_shell_handler.go,       *)
(* ExecClient.ts): every part above, in every state.                       *)
ShInv == ShTypeOK /\ TabsApart /\ StepOK /\ Paid /\ NoLeakUnlessFault

(* A session whose browser has gone, during its start or after, comes to    *)
(* its end (exec.Run's heartbeat, the handler's teardown on a context of   *)
(* its own).                                                               *)
LeftSessionEnds ==
  \A s \in Ids :
    (s \in DOMAIN sess /\ ~sess[s].peer) ~> (s \notin DOMAIN sess \/ Ended(s) \/ sess[s].peer)

(* "after 4 fails: status=error" (ExecClient.ts): whatever the server does, *)
(* refuses or fails to start, a tab does not reconnect for ever without    *)
(* ever being connected.                                                   *)
ClientSettles ==
  \A t \in Tab :
    (tab[t].status \in {"connecting", "reconnecting"}) ~> (tab[t].status \in {"connected", "closed", "error"})
=============================================================================
