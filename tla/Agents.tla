------------------------------- MODULE Agents -------------------------------
(***************************************************************************)
(* An agent-backed cluster from first boot to a held tunnel: the server's  *)
(* CA bootstrap, bootstrap tokens and registration (cmd/periscope          *)
(* agent_handler.go, internal/tunnel tokens.go, registration.go, pki.go),  *)
(* the agent's own state Secret (cmd/periscope-agent main.go,              *)
(* bootstrap.go) and the tunnel (internal/tunnel client.go, server.go).    *)
(*                                                                         *)
(* One agent is modelled, that of cluster Home; other clusters matter only *)
(* as what a token may have been minted for.  A fault is a crash of either *)
(* process, a call that fails or whose answer is lost, or a dropped        *)
(* connection; the number of faults is bounded.  The delay between dials   *)
(* is not modelled.                                                        *)
(***************************************************************************)
EXTENDS Naturals, FiniteSets

CONSTANTS
  Cluster,   \* names a token may be minted for
  Home,      \* the cluster of the agent
  Token,     \* bootstrap tokens, 32 random bytes: none is minted twice
  NoToken,
  MaxFaults  \* bound on the number of faults

ASSUME AgentsAssumption == Home \in Cluster /\ NoToken \notin Token /\ MaxFaults \in Nat

VARIABLES
  srv,       \* the server process: its phase and the CA it holds
  caSecret,  \* the CA in the server's Secret, 0 for the empty placeholder
  tokens,    \* TokenStore.tokens, in memory
  reqs,      \* registrations the server has not answered
  agent,     \* the agent process: phase, configured token, identity in use
  secret,    \* the identity in the agent's state Secret
  expired,   \* the certificate's 90 days are over
  live,      \* the server has a session for the agent's current connection
  zombies,   \* sessions the server still has for connections that are gone
  connected, \* Server.connected has the cluster
  pollers,   \* watchDisconnect goroutines: polling, and about to mark
  faults,
  \* history: what was minted, issued; a poller acted on an outdated answer
  minted, issued, raced

persistent == <<caSecret, secret, expired>>
enrolling == <<tokens, reqs, minted, issued>>
tunnel == <<live, zombies, connected, pollers, raced>>
agVars == <<srv, caSecret, tokens, reqs, agent, secret, expired, live, zombies,
            connected, pollers, faults, minted, issued, raced>>

NoCert == [token |-> NoToken, cluster |-> Home, ca |-> 0, serial |-> 0]
HasSession == live \/ zombies > 0

AgInit ==
  /\ srv = [pc |-> "down", ca |-> 0]
  /\ caSecret = 0
  /\ tokens = [t \in {} |-> t]
  /\ reqs = {}
  /\ agent = [pc |-> "boot", token |-> NoToken, cert |-> NoCert]
  /\ secret = NoCert
  /\ expired = FALSE
  /\ live = FALSE /\ zombies = 0
  /\ connected = FALSE
  /\ pollers = [polling |-> 0, marking |-> 0]
  /\ faults = 0
  /\ minted = [t \in {} |-> t]
  /\ issued = {}
  /\ raced = FALSE

Fault == faults < MaxFaults /\ faults' = faults + 1

-----------------------------------------------------------------------------
(* The server process.                                                     *)

\* Mutant of Boot: a new CA at every start.
BootFreshCA ==
  /\ srv.pc = "down"
  /\ srv' = [pc |-> "persist", ca |-> faults + 1]
  /\ UNCHANGED <<persistent, enrolling, agent, tunnel, faults>>

\* bootstrapAgentCA loads the CA, or makes one when the Secret is empty.
Boot ==
  /\ srv.pc = "down"
  /\ srv' = IF caSecret # 0 THEN [pc |-> "up", ca |-> caSecret] ELSE [pc |-> "persist", ca |-> faults + 1]
  /\ UNCHANGED <<persistent, enrolling, agent, tunnel, faults>>

\* A CA that was made is only used once it is in the Secret.
PersistCA ==
  /\ srv.pc = "persist"
  /\ caSecret' = srv.ca
  /\ srv' = [srv EXCEPT !.pc = "up"]
  /\ UNCHANGED <<secret, expired, enrolling, agent, tunnel, faults>>

\* The update fails, or the process dies: tokens, requests in progress,
\* sessions and the connected map go with it, and so does a handshake.
ServerCrash ==
  /\ srv.pc # "down" /\ Fault
  /\ srv' = [pc |-> "down", ca |-> 0]
  /\ tokens' = [t \in {} |-> t] /\ reqs' = {}
  /\ live' = FALSE /\ zombies' = 0 /\ connected' = FALSE
  /\ pollers' = [polling |-> 0, marking |-> 0] /\ raced' = FALSE
  /\ agent' = [agent EXCEPT !.pc = IF @ = "handshake" THEN "dial" ELSE @]
  /\ UNCHANGED <<persistent, minted, issued>>

-----------------------------------------------------------------------------
(* Bootstrap tokens.                                                       *)

MintToken(t, c) ==
  /\ srv.pc = "up" /\ t \notin DOMAIN minted
  /\ tokens' = [u \in DOMAIN tokens \union {t} |->
                  IF u = t THEN [cluster |-> c, consumed |-> FALSE, expired |-> FALSE] ELSE tokens[u]]
  /\ minted' = [u \in DOMAIN minted \union {t} |-> IF u = t THEN c ELSE minted[u]]
  /\ UNCHANGED <<srv, persistent, reqs, issued, agent, tunnel, faults>>

TokenExpires(t) ==
  /\ t \in DOMAIN tokens /\ ~tokens[t].expired
  /\ tokens' = [tokens EXCEPT ![t].expired = TRUE]
  /\ UNCHANGED <<srv, persistent, reqs, minted, issued, agent, tunnel, faults>>

\* Mutant of Reap: everything goes.
ReapAll ==
  /\ tokens # <<>> /\ tokens' = [t \in {} |-> t]
  /\ UNCHANGED <<srv, persistent, reqs, minted, issued, agent, tunnel, faults>>

Reap ==
  /\ LET keep == {t \in DOMAIN tokens : ~tokens[t].consumed /\ ~tokens[t].expired}
     IN  keep # DOMAIN tokens /\ tokens' = [t \in keep |-> tokens[t]]
  /\ UNCHANGED <<srv, persistent, reqs, minted, issued, agent, tunnel, faults>>

Redeemable(t, c) ==
  t \in DOMAIN tokens /\ ~tokens[t].consumed /\ ~tokens[t].expired /\ tokens[t].cluster = c

\* RedeemToken: whatever the answer, a known token is used up.
Consume(t) ==
  tokens' = [u \in DOMAIN tokens |-> IF u = t THEN [tokens[u] EXCEPT !.consumed = TRUE] ELSE tokens[u]]

\* Mutant of RedeemToken: only a refused token is used up.
RedeemTokenReusable(r) ==
  /\ r \in reqs /\ r.pc = "sent"
  /\ IF Redeemable(r.token, Home) THEN tokens' = tokens ELSE Consume(r.token)
  /\ reqs' = (reqs \ {r}) \union (IF Redeemable(r.token, Home) THEN {[r EXCEPT !.pc = "redeemed"]} ELSE {})
  /\ UNCHANGED <<srv, persistent, minted, issued, agent, tunnel, faults>>

RedeemToken(r) ==
  /\ r \in reqs /\ r.pc = "sent"
  /\ Consume(r.token)
  /\ reqs' = (reqs \ {r}) \union (IF Redeemable(r.token, Home) THEN {[r EXCEPT !.pc = "redeemed"]} ELSE {})
  /\ UNCHANGED <<srv, persistent, minted, issued, agent, tunnel, faults>>

\* SignClient, and the answer to the agent if it still waits for this one.
SignClient(r) ==
  LET cert == [token |-> r.token, cluster |-> Home, ca |-> srv.ca, serial |-> Cardinality(issued) + 1] IN
  /\ r \in reqs /\ r.pc = "redeemed"
  /\ reqs' = reqs \ {r}
  /\ issued' = issued \union {cert}
  /\ agent' = IF r.awaited THEN [agent EXCEPT !.pc = "persist", !.cert = cert] ELSE agent
  /\ UNCHANGED <<srv, persistent, tokens, minted, tunnel, faults>>

SignFails(r) ==
  /\ r \in reqs /\ r.pc = "redeemed" /\ Fault
  /\ reqs' = reqs \ {r}
  /\ UNCHANGED <<srv, persistent, tokens, minted, issued, agent, tunnel>>

-----------------------------------------------------------------------------
(* The agent process.  Every error ends it and the kubelet starts it again. *)

Restarted == [agent EXCEPT !.pc = "boot", !.cert = NoCert]
Orphaned == {[r EXCEPT !.awaited = FALSE] : r \in reqs}

\* The operator installs the agent again with another token.
Install(t) ==
  /\ t \in DOMAIN minted /\ t # agent.token /\ agent.pc = "boot"
  /\ agent' = [agent EXCEPT !.token = t]
  /\ UNCHANGED <<srv, persistent, enrolling, tunnel, faults>>

\* ensureState: the identity of the Secret, or else a registration.
LoadState ==
  /\ agent.pc = "boot" /\ secret # NoCert
  /\ agent' = [agent EXCEPT !.pc = "dial", !.cert = secret]
  /\ UNCHANGED <<srv, persistent, enrolling, tunnel, faults>>

\* Mutant of Register: an empty token is sent as well.
RegisterTokenless ==
  /\ agent.pc = "boot" /\ secret = NoCert /\ srv.pc = "up"
  /\ agent' = [agent EXCEPT !.pc = "waiting"]
  /\ reqs' = reqs \union {[token |-> agent.token, pc |-> "sent", awaited |-> TRUE]}
  /\ UNCHANGED <<srv, persistent, tokens, minted, issued, tunnel, faults>>

Register ==
  /\ agent.pc = "boot" /\ secret = NoCert /\ agent.token # NoToken /\ srv.pc = "up"
  /\ agent' = [agent EXCEPT !.pc = "waiting"]
  /\ reqs' = reqs \union {[token |-> agent.token, pc |-> "sent", awaited |-> TRUE]}
  /\ UNCHANGED <<srv, persistent, tokens, minted, issued, tunnel, faults>>

Rejected ==
  /\ agent.pc = "waiting" /\ \A r \in reqs : ~r.awaited
  /\ agent' = Restarted
  /\ UNCHANGED <<srv, persistent, enrolling, tunnel, faults>>

PersistState ==
  /\ agent.pc = "persist" /\ secret = NoCert
  /\ secret' = agent.cert
  /\ agent' = [agent EXCEPT !.pc = "dial"]
  /\ UNCHANGED <<srv, caSecret, expired, enrolling, tunnel, faults>>

\* Mutant of PersistFails: the agent carries on with what it has in memory.
PersistFailsAndDials ==
  /\ agent.pc = "persist" /\ Fault
  /\ secret' \in {secret, agent.cert}
  /\ agent' = [agent EXCEPT !.pc = "dial"]
  /\ UNCHANGED <<srv, caSecret, expired, enrolling, tunnel>>

\* The create fails, or is done and its answer lost.
PersistFails ==
  /\ agent.pc = "persist" /\ Fault
  /\ secret' \in {secret, agent.cert}
  /\ agent' = Restarted
  /\ UNCHANGED <<srv, caSecret, expired, enrolling, tunnel>>

\* A crash, or a registration that timed out while the server works on it.
AgentCrash ==
  /\ agent.pc # "boot" /\ Fault
  /\ agent' = Restarted
  /\ reqs' = Orphaned
  /\ live' = FALSE
  /\ zombies' = IF live THEN zombies + 1 ELSE zombies
  /\ UNCHANGED <<srv, persistent, tokens, minted, issued, connected, pollers, raced>>

CertExpires ==
  /\ secret # NoCert /\ ~expired
  /\ expired' = TRUE
  /\ UNCHANGED <<srv, caSecret, secret, enrolling, agent, tunnel, faults>>

-----------------------------------------------------------------------------
(* The tunnel.                                                             *)

\* Mutant of Authorize: the goroutine is started ahead of the marking, so it
\* may have come and gone by then.
AuthorizePollsFirst ==
  /\ agent.pc = "dial" /\ srv.pc = "up"
  /\ agent.cert.ca = srv.ca /\ ~expired
  /\ agent' = [agent EXCEPT !.pc = "handshake"]
  /\ connected' = TRUE
  /\ pollers' \in {pollers, [pollers EXCEPT !.polling = @ + 1]}
  /\ raced' = (raced \/ pollers.marking > 0)
  /\ UNCHANGED <<srv, persistent, enrolling, live, zombies, faults>>

\* Both sides verify against the CA.  authorize marks the cluster and starts a
\* poller, ahead of the session.
Authorize ==
  /\ agent.pc = "dial" /\ srv.pc = "up"
  /\ agent.cert.ca = srv.ca /\ ~expired
  /\ agent' = [agent EXCEPT !.pc = "handshake"]
  /\ connected' = TRUE
  /\ pollers' = [pollers EXCEPT !.polling = @ + 1]
  /\ raced' = (raced \/ pollers.marking > 0)
  /\ UNCHANGED <<srv, persistent, enrolling, live, zombies, faults>>

SessionOpens ==
  /\ agent.pc = "handshake"
  /\ agent' = [agent EXCEPT !.pc = "session"]
  /\ live' = TRUE
  /\ UNCHANGED <<srv, persistent, enrolling, zombies, connected, pollers, faults, raced>>

\* The upgrade fails, or only the server sees it done.
UpgradeFails ==
  /\ agent.pc = "handshake" /\ Fault
  /\ agent' = [agent EXCEPT !.pc = "dial"]
  /\ zombies' \in {zombies, zombies + 1}
  /\ UNCHANGED <<srv, persistent, enrolling, live, connected, pollers, raced>>

\* The connection breaks and the agent notices first.
Drop ==
  /\ agent.pc = "session" /\ live /\ Fault
  /\ agent' = [agent EXCEPT !.pc = "dial"]
  /\ live' = FALSE /\ zombies' = zombies + 1
  /\ UNCHANGED <<srv, persistent, enrolling, connected, pollers, raced>>

\* It breaks and the server notices first, or the server is gone; then the
\* agent does.
ServerDrops ==
  /\ agent.pc = "session" /\ live /\ Fault
  /\ live' = FALSE
  /\ UNCHANGED <<srv, persistent, enrolling, agent, zombies, connected, pollers, raced>>

AgentNotices ==
  /\ agent.pc = "session" /\ ~live
  /\ agent' = [agent EXCEPT !.pc = "dial"]
  /\ UNCHANGED <<srv, persistent, enrolling, tunnel, faults>>

ZombieEnds ==
  /\ zombies > 0
  /\ zombies' = zombies - 1
  /\ UNCHANGED <<srv, persistent, enrolling, agent, live, connected, pollers, faults, raced>>

\* Mutant of PollerSees: a session of a later connection is not counted.
PollerSeesOwn ==
  /\ pollers.polling > 0 /\ zombies = 0
  /\ pollers' = [polling |-> pollers.polling - 1, marking |-> pollers.marking + 1]
  /\ raced' = (raced \/ agent.pc = "handshake")
  /\ UNCHANGED <<srv, persistent, enrolling, agent, live, zombies, connected, faults>>

\* watchDisconnect looks, and then marks.
PollerSees ==
  /\ pollers.polling > 0 /\ ~HasSession
  /\ pollers' = [polling |-> pollers.polling - 1, marking |-> pollers.marking + 1]
  /\ raced' = (raced \/ agent.pc = "handshake")
  /\ UNCHANGED <<srv, persistent, enrolling, agent, live, zombies, connected, faults>>

PollerMarks ==
  /\ pollers.marking > 0
  /\ pollers' = [pollers EXCEPT !.marking = @ - 1]
  /\ connected' = FALSE
  /\ UNCHANGED <<srv, persistent, enrolling, agent, live, zombies, faults, raced>>

-----------------------------------------------------------------------------
AgNext ==
  \/ Boot \/ PersistCA \/ ServerCrash \/ Reap
  \/ \E t \in Token : TokenExpires(t) \/ Install(t) \/ \E c \in Cluster : MintToken(t, c)
  \/ \E r \in reqs : RedeemToken(r) \/ SignClient(r) \/ SignFails(r)
  \/ LoadState \/ Register \/ Rejected \/ PersistState \/ PersistFails \/ AgentCrash \/ CertExpires
  \/ Authorize \/ SessionOpens \/ UpgradeFails \/ Drop \/ ServerDrops \/ AgentNotices \/ ZombieEnds
  \/ PollerSees \/ PollerMarks

\* Both processes are restarted and keep working; nobody need mint a token,
\* install an agent or let anything expire.
AgFairness ==
  /\ WF_agVars(Boot) /\ WF_agVars(PersistCA)
  /\ WF_agVars(\E r \in reqs : RedeemToken(r) \/ SignClient(r))
  /\ WF_agVars(LoadState) /\ WF_agVars(Register) /\ WF_agVars(Rejected) /\ WF_agVars(PersistState)
  /\ WF_agVars(Authorize) /\ WF_agVars(SessionOpens) /\ WF_agVars(AgentNotices)
  /\ WF_agVars(ZombieEnds) /\ WF_agVars(PollerSees) /\ WF_agVars(PollerMarks)

AgSpec == AgInit /\ [][AgNext]_agVars /\ AgFairness

-----------------------------------------------------------------------------
Certs == [token : Token, cluster : Cluster, ca : 1 .. MaxFaults + 1, serial : Nat]

ServerTypeOK ==
  /\ srv \in [pc : {"down", "persist", "up"}, ca : 0 .. MaxFaults + 1]
  /\ caSecret \in 0 .. MaxFaults + 1
  /\ faults \in 0 .. MaxFaults

TokenTypeOK ==
  /\ DOMAIN tokens \subseteq DOMAIN minted /\ DOMAIN minted \subseteq Token
  /\ \A t \in DOMAIN tokens : tokens[t] \in [cluster : Cluster, consumed : BOOLEAN, expired : BOOLEAN]
  /\ reqs \subseteq [token : Token, pc : {"sent", "redeemed"}, awaited : BOOLEAN]
  /\ issued \subseteq Certs

AgentTypeOK ==
  /\ agent \in [pc : {"boot", "waiting", "persist", "dial", "handshake", "session"},
                token : Token \union {NoToken}, cert : Certs \union {NoCert}]
  /\ secret \in Certs \union {NoCert} /\ expired \in BOOLEAN

TunnelTypeOK ==
  /\ live \in BOOLEAN /\ connected \in BOOLEAN /\ raced \in BOOLEAN
  /\ zombies \in Nat /\ pollers \in [polling : Nat, marking : Nat]

E == INSTANCE Enrollment WITH NoCA <- 0, certs <- issued, ca <- caSecret

(* Registration (tokens.go RedeemToken, registration.go RegisterHandler):  *)
(* across concurrent and orphaned requests, lost answers, reaping and      *)
(* restarts, a token gives at most one certificate, in the name it was     *)
(* minted for, under the one persisted CA.                                 *)
OneCertPerToken == E!ESpec

(* The agent's identity (periscope-agent main.go ensureState: "Refusing to  *)
(* overwrite an existing Secret is intentional"): whatever an agent dials  *)
(* with is what its Secret holds, a certificate the server issued, so that *)
(* a restart comes back as the same agent.                                 *)
DialsAsPersisted ==
  agent.pc \in {"dial", "handshake", "session"} => agent.cert = secret /\ secret \in issued

(* The fleet view's list (server.go Connected: "the set of currently-      *)
(* connected cluster names"): a cluster with a session is listed, except   *)
(* after a poller marked it gone on an answer from before the reconnect.   *)
ListedUnlessRaced == (live /\ ~raced) => connected

\* A CA in use is the persisted one, and only a server that is up has requests.
CAHeld ==
  /\ srv.pc = "persist" => srv.ca # 0 /\ caSecret = 0
  /\ srv.pc = "up" => srv.ca = caSecret /\ caSecret # 0
  /\ srv.pc # "up" => reqs = {}

\* A token that was redeemed is used up, and by one request.
UsedUp(t) == t \in DOMAIN tokens => tokens[t].consumed

TokensOnce ==
  /\ \A t \in DOMAIN tokens : tokens[t].cluster = minted[t]
  /\ \A x \in issued : x.token \in DOMAIN minted /\ UsedUp(x.token)
  /\ \A r \in reqs : r.pc = "redeemed" =>
       /\ r.token \in DOMAIN minted /\ minted[r.token] = Home /\ UsedUp(r.token)
       /\ \A x \in issued : x.token # r.token
  /\ \A r, q \in reqs : (r.pc = "redeemed" /\ q.pc = "redeemed" /\ r.token = q.token) => r = q

\* The agent waits for one answer at most.
OneAwaited ==
  /\ \A r \in reqs : r.awaited => agent.pc = "waiting"
  /\ \A r, q \in reqs : (r.awaited /\ q.awaited) => r = q

\* What the Secret holds was issued; an agent that enrolls has an empty one.
SecretOK ==
  /\ agent.pc \in {"waiting", "persist"} => secret = NoCert
  /\ agent.pc = "persist" => agent.cert \in issued
  /\ secret # NoCert => secret \in issued

\* While a session is up or about to be, no poller is about to mark it gone.
NoPollerMarks ==
  ((live \/ agent.pc = "handshake") /\ ~raced) => connected /\ pollers.marking = 0

ServerOK == ServerTypeOK /\ CAHeld
TokensOK == TokenTypeOK /\ IsFiniteSet(issued) /\ TokensOnce
IdentityOK == AgentTypeOK /\ SecretOK /\ DialsAsPersisted
SessionOK == TunnelTypeOK /\ NoPollerMarks

(* What keeps the properties above true from step to step (RedeemToken,    *)
(* RegisterHandler, ensureState, watchDisconnect): the CA in use is the    *)
(* persisted one, a redeemed token is used up before anything is signed    *)
(* for it, the agent waits for one answer and has an empty Secret then,    *)
(* and an unraced session has no poller about to mark.                     *)
AgInv == ServerOK /\ TokensOK /\ OneAwaited /\ IdentityOK /\ SessionOK

(* A cluster without a session does not stay listed (server.go             *)
(* watchDisconnect).                                                       *)
GoneIsDelisted == (connected /\ ~HasSession) ~> (~connected \/ HasSession)

(* Enrollment runs to its end: with a token that can be redeemed and no    *)
(* fault, the agent ends up with a persisted identity.                     *)
EnrollsUnlessFault ==
  \A t \in Token :
    (agent.token = t /\ Redeemable(t, Home) /\ faults = 0)
      ~> (secret # NoCert \/ faults > 0 \/ agent.token # t \/ (t \in DOMAIN tokens /\ tokens[t].expired))

(* "Server restart: all agent connections drop.  Agents reconnect" (docs   *)
(* agent-tunnel.md): an enrolled agent gets its session back after every   *)
(* fault, until its certificate expires.                                   *)
EnrolledIsConnected == (secret # NoCert) ~> (live \/ expired)
=============================================================================
