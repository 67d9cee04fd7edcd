---------------------------- MODULE AgentsProofs ----------------------------
(***************************************************************************)
(* Agents for any set of tokens and clusters and any number of faults:     *)
(* AgInv is inductive, every step is one of Enrollment or leaves it alone, *)
(* and the properties of the agent's identity and of the list of connected *)
(* clusters follow.                                                        *)
(***************************************************************************)
EXTENDS Agents, FiniteSetTheorems, TLAPS

\* A step of Agents as Enrollment sees it.
Enrolled == <<minted, issued, caSecret>>
AbstractStep == [E!Mint \/ E!Issue \/ E!Found]_Enrolled

-----------------------------------------------------------------------------
(* What a step that leaves the variables of a part alone keeps.            *)

(* Tokens, requests and certificates untouched. *)
LEMMA TokensKept ==
    ASSUME TokensOK, UNCHANGED enrolling
    PROVE  TokensOK'
  BY DEF TokensOK, TokenTypeOK, TokensOnce, UsedUp, enrolling

(* The agent and its Secret untouched; certificates may be added. *)
LEMMA IdentityKept ==
    ASSUME IdentityOK, UNCHANGED <<agent, secret, expired>>, issued \subseteq issued'
    PROVE  IdentityOK'
  BY DEF IdentityOK, AgentTypeOK, SecretOK, DialsAsPersisted

(* The agent process moves between phases that hold the persisted identity. *)
LEMMA IdentityMoves ==
    ASSUME IdentityOK, UNCHANGED <<secret, expired, issued>>,
           agent.pc \in {"dial", "handshake", "session"},
           NEW p \in {"dial", "handshake", "session"},
           agent' = [agent EXCEPT !.pc = p]
    PROVE  IdentityOK'
  BY DEF IdentityOK, AgentTypeOK, SecretOK, DialsAsPersisted

(* Sessions and pollers untouched, and no handshake begun. *)
LEMMA SessionKept ==
    ASSUME SessionOK, UNCHANGED tunnel, agent'.pc = "handshake" => agent.pc = "handshake"
    PROVE  SessionOK'
  BY DEF SessionOK, TunnelTypeOK, NoPollerMarks, tunnel

(* The process, the CA and the requests untouched; faults may be counted. *)
LEMMA ServerKept ==
    ASSUME ServerOK, UNCHANGED <<srv, caSecret, reqs>>, UNCHANGED faults \/ Fault
    PROVE  ServerOK'
  BY AgentsAssumption DEF ServerOK, ServerTypeOK, CAHeld, Fault

(* Requests untouched, and the agent still waiting if it was. *)
LEMMA AwaitedKept ==
    ASSUME OneAwaited, UNCHANGED reqs, agent.pc = "waiting" => agent'.pc = "waiting"
    PROVE  OneAwaited'
  BY DEF OneAwaited

(* Nothing of Enrollment changes. *)
LEMMA AbstractStutter ==
    ASSUME UNCHANGED Enrolled
    PROVE  AbstractStep
  BY DEF AbstractStep

-----------------------------------------------------------------------------
(* The server process.                                                     *)

(* The CA a starting server holds is the persisted one or a new one. *)
LEMMA BootStep ==
    ASSUME AgInv, Boot
    PROVE  AgInv' /\ AbstractStep
  <1>1. ServerOK'
    BY AgentsAssumption DEF AgInv, Boot, ServerOK, ServerTypeOK, CAHeld, persistent,
      enrolling
  <1>2. TokensOK'
    BY TokensKept DEF AgInv, Boot, enrolling
  <1>3. OneAwaited'
    BY AwaitedKept DEF AgInv, Boot, enrolling
  <1>4. IdentityOK'
    BY IdentityKept DEF AgInv, Boot, persistent, enrolling
  <1>5. SessionOK'
    BY SessionKept DEF AgInv, Boot, tunnel
  <1>6. AbstractStep
    BY AbstractStutter DEF Boot, Enrolled, persistent, enrolling
  <1> QED BY <1>1, <1>2, <1>3, <1>4, <1>5, <1>6 DEF AgInv

(* Founding: the CA is persisted where there was none. *)
LEMMA PersistCAStep ==
    ASSUME AgInv, PersistCA
    PROVE  AgInv' /\ AbstractStep
  <1>1. ServerOK'
    BY AgentsAssumption DEF AgInv, PersistCA, ServerOK, ServerTypeOK, CAHeld,
      persistent, enrolling
  <1>2. TokensOK'
    BY TokensKept DEF AgInv, PersistCA, enrolling
  <1>3. OneAwaited'
    BY AwaitedKept DEF AgInv, PersistCA, enrolling
  <1>4. IdentityOK'
    BY IdentityKept DEF AgInv, PersistCA, persistent, enrolling
  <1>5. SessionOK'
    BY SessionKept DEF AgInv, PersistCA, tunnel
  <1>6. AbstractStep
    BY DEF AgInv, PersistCA, ServerOK, ServerTypeOK, CAHeld, E!Found, persistent,
      enrolling, AbstractStep, Enrolled
  <1> QED BY <1>1, <1>2, <1>3, <1>4, <1>5, <1>6 DEF AgInv

(* Tokens and requests are gone with the process; certificates stay. *)
LEMMA ServerCrashStep ==
    ASSUME AgInv, ServerCrash
    PROVE  AgInv' /\ AbstractStep
  <1>1. ServerOK'
    BY AgentsAssumption DEF AgInv, ServerCrash, ServerOK, ServerTypeOK, CAHeld,
      persistent, enrolling, Fault
  <1>2. TokensOK'
    BY DEF AgInv, ServerCrash, TokensOK, TokenTypeOK, TokensOnce, UsedUp, enrolling
  <1>3. OneAwaited'
    BY DEF AgInv, ServerCrash, OneAwaited, enrolling
  <1>4. IdentityOK'
    BY DEF AgInv, ServerCrash, IdentityOK, AgentTypeOK, SecretOK, DialsAsPersisted,
      persistent, enrolling
  <1>5. SessionOK'
    BY DEF AgInv, ServerCrash, SessionOK, TunnelTypeOK, NoPollerMarks, IdentityOK,
      AgentTypeOK, SecretOK, DialsAsPersisted, tunnel
  <1>6. AbstractStep
    BY AbstractStutter DEF ServerCrash, Enrolled, persistent, enrolling
  <1> QED BY <1>1, <1>2, <1>3, <1>4, <1>5, <1>6 DEF AgInv

-----------------------------------------------------------------------------
(* Bootstrap tokens and registration.                                      *)

(* A new token is not among those used before. *)
LEMMA MintTokenStep ==
    ASSUME AgInv, NEW t \in Token, NEW c \in Cluster, MintToken(t, c)
    PROVE  AgInv' /\ AbstractStep
  <1>1. ServerOK'
    BY ServerKept DEF AgInv, MintToken, Fault, persistent, enrolling
  <1>2. TokensOK'
    BY DEF AgInv, MintToken, TokensOK, TokenTypeOK, TokensOnce, UsedUp, enrolling
  <1>3. OneAwaited'
    BY AwaitedKept DEF AgInv, MintToken, enrolling
  <1>4. IdentityOK'
    BY IdentityKept DEF AgInv, MintToken, persistent, enrolling
  <1>5. SessionOK'
    BY SessionKept DEF AgInv, MintToken, tunnel
  <1>6. AbstractStep
    BY DEF MintToken, E!Mint, persistent, enrolling, AbstractStep, Enrolled
  <1> QED BY <1>1, <1>2, <1>3, <1>4, <1>5, <1>6 DEF AgInv

(* An expired token keeps its cluster and whether it was used. *)
LEMMA TokenExpiresStep ==
    ASSUME AgInv, NEW t \in Token, TokenExpires(t)
    PROVE  AgInv' /\ AbstractStep
  <1>1. ServerOK'
    BY ServerKept DEF AgInv, TokenExpires, Fault, persistent, enrolling
  <1>2. TokensOK'
    BY DEF AgInv, TokenExpires, TokensOK, TokenTypeOK, TokensOnce, UsedUp, enrolling
  <1>3. OneAwaited'
    BY AwaitedKept DEF AgInv, TokenExpires, enrolling
  <1>4. IdentityOK'
    BY IdentityKept DEF AgInv, TokenExpires, persistent, enrolling
  <1>5. SessionOK'
    BY SessionKept DEF AgInv, TokenExpires, tunnel
  <1>6. AbstractStep
    BY AbstractStutter DEF TokenExpires, Enrolled, persistent, enrolling
  <1> QED BY <1>1, <1>2, <1>3, <1>4, <1>5, <1>6 DEF AgInv

(* A token that was reaped cannot be used. *)
LEMMA ReapStep ==
    ASSUME AgInv, Reap
    PROVE  AgInv' /\ AbstractStep
  <1>1. ServerOK'
    BY ServerKept DEF AgInv, Reap, Fault, persistent, enrolling
  <1>2. TokensOK'
    BY DEF AgInv, Reap, TokensOK, TokenTypeOK, TokensOnce, UsedUp, enrolling
  <1>3. OneAwaited'
    BY AwaitedKept DEF AgInv, Reap, enrolling
  <1>4. IdentityOK'
    BY IdentityKept DEF AgInv, Reap, persistent, enrolling
  <1>5. SessionOK'
    BY SessionKept DEF AgInv, Reap, tunnel
  <1>6. AbstractStep
    BY AbstractStutter DEF Reap, Enrolled, persistent, enrolling
  <1> QED BY <1>1, <1>2, <1>3, <1>4, <1>5, <1>6 DEF AgInv

(* A token is used up in the step that redeems it. *)
LEMMA RedeemTokenStep ==
    ASSUME AgInv, NEW r \in reqs, RedeemToken(r)
    PROVE  AgInv' /\ AbstractStep
  <1>1. ServerOK'
    BY DEF AgInv, RedeemToken, ServerOK, ServerTypeOK, CAHeld, persistent, enrolling
  <1>2. TokensOK'
    <2>1. TokenTypeOK' /\ IsFiniteSet(issued')
      BY DEF AgInv, RedeemToken, TokensOK, TokenTypeOK, Consume
    <2>2. CASE Redeemable(r.token, Home)
      <3>1. \A x \in issued : x.token # r.token
        BY <2>2 DEF AgInv, TokensOK, TokensOnce, UsedUp, Redeemable
      <3>2. \A q \in reqs : q.pc = "redeemed" => q.token # r.token
        BY <2>2 DEF AgInv, TokensOK, TokenTypeOK, TokensOnce, UsedUp, Redeemable
      <3>3. /\ r.token \in DOMAIN minted /\ minted[r.token] = Home
            /\ [r EXCEPT !.pc = "redeemed"].token = r.token
        BY <2>2 DEF AgInv, TokensOK, TokenTypeOK, TokensOnce, Redeemable
      <3>4. /\ reqs' = (reqs \ {r}) \union {[r EXCEPT !.pc = "redeemed"]}
            /\ UNCHANGED <<minted, issued>>
        BY <2>2 DEF RedeemToken
      <3>5. /\ DOMAIN tokens' = DOMAIN tokens
            /\ \A t \in DOMAIN tokens : tokens'[t].cluster = tokens[t].cluster
            /\ \A t \in DOMAIN tokens : tokens[t].consumed \/ t = r.token => tokens'[t].consumed
        BY DEF AgInv, RedeemToken, TokensOK, TokenTypeOK, Consume
      <3> DEFINE n == [r EXCEPT !.pc = "redeemed"]
      <3> HIDE DEF n
      <3>6. reqs' = (reqs \ {r}) \union {n} /\ n.token = r.token
        BY <3>3, <3>4 DEF n
      <3>7. /\ \A t \in DOMAIN tokens' : tokens'[t].cluster = minted'[t]
            /\ \A x \in issued' : x.token \in DOMAIN minted' /\ UsedUp(x.token)'
        BY <3>4, <3>5 DEF AgInv, TokensOK, TokensOnce, UsedUp
      <3>8. \A q \in reqs' : q.pc = "redeemed" =>
              /\ q.token \in DOMAIN minted' /\ minted'[q.token] = Home /\ UsedUp(q.token)'
              /\ \A x \in issued' : x.token # q.token
        BY <3>1, <3>3, <3>4, <3>5, <3>6 DEF AgInv, TokensOK, TokensOnce, UsedUp
      <3>9. \A q, p \in reqs' :
              (q.pc = "redeemed" /\ p.pc = "redeemed" /\ q.token = p.token) => q = p
        BY <3>2, <3>6 DEF AgInv, TokensOK, TokensOnce
      <3>10. TokensOnce'
        BY <3>7, <3>8, <3>9 DEF TokensOnce
      <3> QED BY <2>1, <3>10 DEF TokensOK
    <2>3. CASE ~Redeemable(r.token, Home)
      <3>1. reqs' = reqs \ {r} /\ UNCHANGED <<minted, issued>>
        BY <2>3 DEF RedeemToken
      <3>2. /\ DOMAIN tokens' = DOMAIN tokens
            /\ \A t \in DOMAIN tokens : tokens'[t].cluster = tokens[t].cluster
            /\ \A t \in DOMAIN tokens : tokens[t].consumed => tokens'[t].consumed
        BY DEF AgInv, RedeemToken, TokensOK, TokenTypeOK, Consume
      <3>3. TokensOnce'
        BY <3>1, <3>2 DEF AgInv, TokensOK, TokensOnce, UsedUp
      <3> QED BY <2>1, <3>3 DEF TokensOK
    <2> QED BY <2>2, <2>3
  <1>3. OneAwaited'
    BY DEF AgInv, RedeemToken, OneAwaited, TokensOK, TokenTypeOK, enrolling
  <1>4. IdentityOK'
    BY IdentityKept DEF AgInv, RedeemToken, persistent, enrolling
  <1>5. SessionOK'
    BY SessionKept DEF AgInv, RedeemToken, tunnel
  <1>6. AbstractStep
    BY AbstractStutter DEF RedeemToken, Enrolled, persistent, enrolling
  <1> QED BY <1>1, <1>2, <1>3, <1>4, <1>5, <1>6 DEF AgInv

(* The first and only certificate for a redeemed token. *)
LEMMA SignClientStep ==
    ASSUME AgInv, NEW r \in reqs, SignClient(r)
    PROVE  AgInv' /\ AbstractStep
  <1> DEFINE cert == [token |-> r.token, cluster |-> Home, ca |-> srv.ca,
                      serial |-> Cardinality(issued) + 1]
  <1>1. issued' = issued \union {cert} /\ reqs' = reqs \ {r} /\ r.pc = "redeemed"
    BY DEF SignClient
  <1>2. cert \in Certs
    <2>1. Cardinality(issued) \in Nat
      BY FS_CardinalityType DEF AgInv, TokensOK
    <2>2. srv.ca \in 1 .. MaxFaults + 1
      BY AgentsAssumption DEF AgInv, ServerOK, ServerTypeOK, CAHeld
    <2> QED BY <2>1, <2>2, AgentsAssumption DEF AgInv, TokensOK, TokenTypeOK, Certs
  <1>3. ServerOK'
    BY DEF AgInv, SignClient, ServerOK, ServerTypeOK, CAHeld, persistent
  <1>4. TokensOK'
    <2>1. TokenTypeOK'
      BY <1>1, <1>2 DEF AgInv, SignClient, TokensOK, TokenTypeOK
    <2>2. IsFiniteSet(issued')
      BY <1>1, FS_AddElement DEF AgInv, TokensOK
    <2>3. TokensOnce'
      BY <1>1 DEF AgInv, SignClient, TokensOK, TokenTypeOK, TokensOnce, UsedUp
    <2> QED BY <2>1, <2>2, <2>3 DEF TokensOK
  <1>5. OneAwaited'
    BY DEF AgInv, SignClient, OneAwaited
  <1>6. IdentityOK'
    <2>1. CASE r.awaited
      <3>1. agent.pc = "waiting" /\ agent' = [agent EXCEPT !.pc = "persist", !.cert = cert]
        BY <2>1 DEF AgInv, SignClient, OneAwaited
      <3> QED BY <1>1, <1>2, <3>1
               DEF AgInv, SignClient, IdentityOK, AgentTypeOK, SecretOK, DialsAsPersisted, persistent
    <2>2. CASE ~r.awaited
      BY <1>1, <2>2, IdentityKept DEF AgInv, SignClient, persistent
    <2> QED BY <2>1, <2>2
  <1>7. SessionOK'
    BY SessionKept DEF AgInv, SignClient, IdentityOK, AgentTypeOK, tunnel
  <1>8. AbstractStep
    <2>1. caSecret # 0 /\ cert.ca = caSecret
      BY DEF AgInv, ServerOK, ServerTypeOK, CAHeld
    <2>2. /\ cert.token \in DOMAIN minted /\ cert.cluster = minted[cert.token]
          /\ \A x \in issued : x.token # cert.token
      BY <1>1 DEF AgInv, TokensOK, TokensOnce
    <2>3. cert \in issued' \ issued
      BY <1>1, <2>2
    <2> HIDE DEF cert
    <2>4. E!Issue
      BY <1>1, <2>1, <2>2, <2>3 DEF SignClient, E!Issue, persistent
    <2> QED BY <2>4 DEF AbstractStep
  <1> QED BY <1>3, <1>4, <1>5, <1>6, <1>7, <1>8 DEF AgInv

(* The token stays used up. *)
LEMMA SignFailsStep ==
    ASSUME AgInv, NEW r \in reqs, SignFails(r)
    PROVE  AgInv' /\ AbstractStep
  <1>1. ServerOK'
    BY AgentsAssumption DEF AgInv, SignFails, ServerOK, ServerTypeOK, CAHeld, Fault,
      persistent, enrolling
  <1>2. TokensOK'
    BY DEF AgInv, SignFails, TokensOK, TokenTypeOK, TokensOnce, UsedUp, enrolling
  <1>3. OneAwaited'
    BY DEF AgInv, SignFails, OneAwaited, enrolling
  <1>4. IdentityOK'
    BY IdentityKept DEF AgInv, SignFails, persistent, enrolling
  <1>5. SessionOK'
    BY SessionKept DEF AgInv, SignFails, tunnel
  <1>6. AbstractStep
    BY AbstractStutter DEF SignFails, Enrolled, persistent, enrolling
  <1> QED BY <1>1, <1>2, <1>3, <1>4, <1>5, <1>6 DEF AgInv

-----------------------------------------------------------------------------
(* The agent process.                                                      *)

(* A new token for an agent that has not begun. *)
LEMMA InstallStep ==
    ASSUME AgInv, NEW t \in Token, Install(t)
    PROVE  AgInv' /\ AbstractStep
  <1>1. ServerOK'
    BY ServerKept DEF AgInv, Install, Fault, persistent, enrolling
  <1>2. TokensOK'
    BY TokensKept DEF AgInv, Install, enrolling
  <1>3. OneAwaited'
    BY AwaitedKept DEF AgInv, Install, IdentityOK, AgentTypeOK, enrolling
  <1>4. IdentityOK'
    BY DEF AgInv, Install, IdentityOK, AgentTypeOK, SecretOK, DialsAsPersisted,
      persistent, enrolling
  <1>5. SessionOK'
    BY SessionKept DEF AgInv, Install, IdentityOK, AgentTypeOK, tunnel
  <1>6. AbstractStep
    BY AbstractStutter DEF Install, Enrolled, persistent, enrolling
  <1> QED BY <1>1, <1>2, <1>3, <1>4, <1>5, <1>6 DEF AgInv

(* The identity in use is read from the Secret. *)
LEMMA LoadStateStep ==
    ASSUME AgInv, LoadState
    PROVE  AgInv' /\ AbstractStep
  <1>1. ServerOK'
    BY ServerKept DEF AgInv, LoadState, Fault, persistent, enrolling
  <1>2. TokensOK'
    BY TokensKept DEF AgInv, LoadState, enrolling
  <1>3. OneAwaited'
    BY AwaitedKept DEF AgInv, LoadState, enrolling
  <1>4. IdentityOK'
    BY DEF AgInv, LoadState, IdentityOK, AgentTypeOK, SecretOK, DialsAsPersisted,
      persistent, enrolling
  <1>5. SessionOK'
    BY SessionKept DEF AgInv, LoadState, IdentityOK, AgentTypeOK, tunnel
  <1>6. AbstractStep
    BY AbstractStutter DEF LoadState, Enrolled, persistent, enrolling
  <1> QED BY <1>1, <1>2, <1>3, <1>4, <1>5, <1>6 DEF AgInv

(* The one request the agent waits for, with an empty Secret. *)
LEMMA RegisterStep ==
    ASSUME AgInv, Register
    PROVE  AgInv' /\ AbstractStep
  <1>1. ServerOK'
    BY DEF AgInv, Register, ServerOK, ServerTypeOK, CAHeld, persistent, enrolling
  <1>2. TokensOK'
    <2>1. agent.token \in Token
      BY DEF AgInv, Register, IdentityOK, AgentTypeOK
    <2>2. reqs' \subseteq [token : Token, pc : {"sent", "redeemed"}, awaited : BOOLEAN]
      <3>1. [token |-> agent.token, pc |-> "sent", awaited |-> TRUE]
              \in [token : Token, pc : {"sent", "redeemed"}, awaited : BOOLEAN]
        BY <2>1
      <3> QED BY <3>1 DEF AgInv, Register, TokensOK, TokenTypeOK
    <2>3. TokensOnce'
      BY DEF AgInv, Register, TokensOK, TokensOnce, UsedUp
    <2> QED BY <2>2, <2>3 DEF AgInv, Register, TokensOK, TokenTypeOK
  <1>3. OneAwaited'
    BY DEF AgInv, Register, OneAwaited, IdentityOK, AgentTypeOK, enrolling
  <1>4. IdentityOK'
    BY DEF AgInv, Register, IdentityOK, AgentTypeOK, SecretOK, DialsAsPersisted,
      persistent, enrolling
  <1>5. SessionOK'
    BY SessionKept DEF AgInv, Register, IdentityOK, AgentTypeOK, tunnel
  <1>6. AbstractStep
    BY AbstractStutter DEF Register, Enrolled, persistent, enrolling
  <1> QED BY <1>1, <1>2, <1>3, <1>4, <1>5, <1>6 DEF AgInv

(* Nobody is awaited when the agent starts over. *)
LEMMA RejectedStep ==
    ASSUME AgInv, Rejected
    PROVE  AgInv' /\ AbstractStep
  <1>1. ServerOK'
    BY ServerKept DEF AgInv, Rejected, Fault, persistent, enrolling
  <1>2. TokensOK'
    BY TokensKept DEF AgInv, Rejected, enrolling
  <1>3. OneAwaited'
    BY DEF AgInv, Rejected, OneAwaited, enrolling
  <1>4. IdentityOK'
    BY DEF AgInv, Rejected, IdentityOK, AgentTypeOK, SecretOK, DialsAsPersisted,
      Restarted, NoCert, persistent, enrolling
  <1>5. SessionOK'
    BY SessionKept DEF AgInv, Rejected, IdentityOK, AgentTypeOK, Restarted, tunnel
  <1>6. AbstractStep
    BY AbstractStutter DEF Rejected, Enrolled, persistent, enrolling
  <1> QED BY <1>1, <1>2, <1>3, <1>4, <1>5, <1>6 DEF AgInv

(* The Secret gets the certificate the agent goes on with. *)
LEMMA PersistStateStep ==
    ASSUME AgInv, PersistState
    PROVE  AgInv' /\ AbstractStep
  <1>1. ServerOK'
    BY ServerKept DEF AgInv, PersistState, Fault, persistent, enrolling
  <1>2. TokensOK'
    BY TokensKept DEF AgInv, PersistState, enrolling
  <1>3. OneAwaited'
    BY AwaitedKept DEF AgInv, PersistState, enrolling
  <1>4. IdentityOK'
    BY DEF AgInv, PersistState, IdentityOK, AgentTypeOK, SecretOK, DialsAsPersisted,
      persistent, enrolling
  <1>5. SessionOK'
    BY SessionKept DEF AgInv, PersistState, IdentityOK, AgentTypeOK, tunnel
  <1>6. AbstractStep
    BY AbstractStutter DEF PersistState, Enrolled, persistent, enrolling
  <1> QED BY <1>1, <1>2, <1>3, <1>4, <1>5, <1>6 DEF AgInv

(* With or without the Secret written, the agent starts over. *)
LEMMA PersistFailsStep ==
    ASSUME AgInv, PersistFails
    PROVE  AgInv' /\ AbstractStep
  <1>1. ServerOK'
    BY ServerKept DEF AgInv, PersistFails, Fault, persistent, enrolling
  <1>2. TokensOK'
    BY TokensKept DEF AgInv, PersistFails, enrolling
  <1>3. OneAwaited'
    BY AwaitedKept DEF AgInv, PersistFails, enrolling
  <1>4. IdentityOK'
    BY DEF AgInv, PersistFails, IdentityOK, AgentTypeOK, SecretOK, DialsAsPersisted,
      Restarted, persistent, enrolling
  <1>5. SessionOK'
    BY SessionKept DEF AgInv, PersistFails, IdentityOK, AgentTypeOK, Restarted,
      tunnel
  <1>6. AbstractStep
    BY AbstractStutter DEF PersistFails, Enrolled, persistent, enrolling
  <1> QED BY <1>1, <1>2, <1>3, <1>4, <1>5, <1>6 DEF AgInv

(* Requests go on without anybody waiting for them. *)
LEMMA AgentCrashStep ==
    ASSUME AgInv, AgentCrash
    PROVE  AgInv' /\ AbstractStep
  <1>1. reqs' = {[q EXCEPT !.awaited = FALSE] : q \in reqs}
    BY DEF AgentCrash, Orphaned
  <1>2. ServerOK'
    BY <1>1, AgentsAssumption DEF AgInv, AgentCrash, Fault, ServerOK, ServerTypeOK, CAHeld, persistent
  <1>3. TokensOK'
    <2>1. TokenTypeOK'
      <3>1. reqs' \subseteq [token : Token, pc : {"sent", "redeemed"}, awaited : BOOLEAN]
        BY <1>1 DEF AgInv, TokensOK, TokenTypeOK
      <3> QED BY <3>1 DEF AgInv, AgentCrash, TokensOK, TokenTypeOK
    <2>2. \A q \in reqs' : \E o \in reqs : q = [o EXCEPT !.awaited = FALSE] /\ q.pc = o.pc /\ q.token = o.token
      BY <1>1 DEF AgInv, TokensOK, TokenTypeOK
    <2>3. TokensOnce'
      <3>1. UNCHANGED <<tokens, minted, issued>>
        BY DEF AgentCrash
      <3>2. \A q, p \in reqs' :
              (q.pc = "redeemed" /\ p.pc = "redeemed" /\ q.token = p.token) => q = p
        <4> TAKE q, p \in reqs'
        <4> HAVE q.pc = "redeemed" /\ p.pc = "redeemed" /\ q.token = p.token
        <4>1. PICK o \in reqs : q = [o EXCEPT !.awaited = FALSE] /\ q.pc = o.pc /\ q.token = o.token
          BY <2>2
        <4>2. PICK u \in reqs : p = [u EXCEPT !.awaited = FALSE] /\ p.pc = u.pc /\ p.token = u.token
          BY <2>2
        <4>3. o = u
          BY <4>1, <4>2 DEF AgInv, TokensOK, TokensOnce
        <4> QED BY <4>1, <4>2, <4>3
      <3>3. \A q \in reqs' : q.pc = "redeemed" =>
              /\ q.token \in DOMAIN minted /\ minted[q.token] = Home /\ UsedUp(q.token)
              /\ \A x \in issued : x.token # q.token
        BY <2>2 DEF AgInv, TokensOK, TokensOnce
      <3> QED BY <3>1, <3>2, <3>3 DEF AgInv, TokensOK, TokensOnce, UsedUp
    <2> QED BY <2>1, <2>3 DEF AgInv, AgentCrash, TokensOK
  <1>4. OneAwaited'
    BY <1>1 DEF AgInv, TokensOK, TokenTypeOK, OneAwaited
  <1>5. IdentityOK'
    BY DEF AgInv, AgentCrash, Restarted, IdentityOK, AgentTypeOK, SecretOK, DialsAsPersisted, persistent
  <1>6. SessionOK'
    <2>1. zombies' \in Nat
      BY DEF AgInv, AgentCrash, SessionOK, TunnelTypeOK
    <2> QED BY <2>1 DEF AgInv, AgentCrash, Restarted, SessionOK, TunnelTypeOK, NoPollerMarks,
                        IdentityOK, AgentTypeOK
  <1>7. AbstractStep
    BY AbstractStutter DEF AgentCrash, Enrolled, persistent
  <1> QED BY <1>2, <1>3, <1>4, <1>5, <1>6, <1>7 DEF AgInv

(* Expiry leaves the identity as it is. *)
LEMMA CertExpiresStep ==
    ASSUME AgInv, CertExpires
    PROVE  AgInv' /\ AbstractStep
  <1>1. ServerOK'
    BY ServerKept DEF AgInv, CertExpires, Fault, persistent, enrolling
  <1>2. TokensOK'
    BY TokensKept DEF AgInv, CertExpires, enrolling
  <1>3. OneAwaited'
    BY AwaitedKept DEF AgInv, CertExpires, enrolling
  <1>4. IdentityOK'
    BY DEF AgInv, CertExpires, IdentityOK, AgentTypeOK, SecretOK, DialsAsPersisted,
      persistent, enrolling
  <1>5. SessionOK'
    BY SessionKept DEF AgInv, CertExpires, tunnel
  <1>6. AbstractStep
    BY AbstractStutter DEF CertExpires, Enrolled, persistent, enrolling
  <1> QED BY <1>1, <1>2, <1>3, <1>4, <1>5, <1>6 DEF AgInv

-----------------------------------------------------------------------------
(* The tunnel.                                                             *)

(* The cluster is marked, and an overtaken poller noted. *)
LEMMA AuthorizeStep ==
    ASSUME AgInv, Authorize
    PROVE  AgInv' /\ AbstractStep
  <1>1. ServerOK'
    BY ServerKept DEF AgInv, Authorize, Fault, persistent, enrolling
  <1>2. TokensOK'
    BY TokensKept DEF AgInv, Authorize, enrolling
  <1>3. OneAwaited'
    BY AwaitedKept DEF AgInv, Authorize, IdentityOK, AgentTypeOK, enrolling
  <1>4. IdentityOK'
    BY IdentityMoves DEF AgInv, Authorize, persistent, enrolling
  <1>5. SessionOK'
    <2>1. /\ connected' /\ pollers' \in [polling : Nat, marking : Nat]
          /\ pollers'.marking = pollers.marking /\ UNCHANGED <<live, zombies>>
      BY DEF AgInv, Authorize, SessionOK, TunnelTypeOK
    <2>2. raced' = (raced \/ pollers.marking > 0) /\ pollers.marking \in Nat
      BY DEF AgInv, Authorize, SessionOK, TunnelTypeOK
    <2>3. raced' \in BOOLEAN /\ (raced' \/ pollers.marking = 0)
      <3>1. CASE pollers.marking = 0
        BY <2>2, <3>1, Zenon
      <3>2. CASE pollers.marking > 0
        BY <2>2, <3>2, Zenon
      <3> QED BY <2>2, <3>1, <3>2
    <2> QED BY <2>1, <2>3 DEF AgInv, SessionOK, TunnelTypeOK, NoPollerMarks
  <1>6. AbstractStep
    BY AbstractStutter DEF Authorize, Enrolled, persistent, enrolling
  <1> QED BY <1>1, <1>2, <1>3, <1>4, <1>5, <1>6 DEF AgInv

(* What held in the handshake holds in the session. *)
LEMMA SessionOpensStep ==
    ASSUME AgInv, SessionOpens
    PROVE  AgInv' /\ AbstractStep
  <1>1. ServerOK'
    BY ServerKept DEF AgInv, SessionOpens, Fault, persistent, enrolling
  <1>2. TokensOK'
    BY TokensKept DEF AgInv, SessionOpens, enrolling
  <1>3. OneAwaited'
    BY AwaitedKept DEF AgInv, SessionOpens, IdentityOK, AgentTypeOK, enrolling
  <1>4. IdentityOK'
    BY IdentityMoves DEF AgInv, SessionOpens, persistent, enrolling
  <1>5. SessionOK'
    BY DEF AgInv, SessionOpens, SessionOK, TunnelTypeOK, NoPollerMarks, IdentityOK,
      AgentTypeOK, tunnel
  <1>6. AbstractStep
    BY AbstractStutter DEF SessionOpens, Enrolled, persistent, enrolling
  <1> QED BY <1>1, <1>2, <1>3, <1>4, <1>5, <1>6 DEF AgInv

(* Back to the dial, with one dead session more or not. *)
LEMMA UpgradeFailsStep ==
    ASSUME AgInv, UpgradeFails
    PROVE  AgInv' /\ AbstractStep
  <1>1. ServerOK'
    BY ServerKept DEF AgInv, UpgradeFails, Fault, persistent, enrolling
  <1>2. TokensOK'
    BY TokensKept DEF AgInv, UpgradeFails, enrolling
  <1>3. OneAwaited'
    BY AwaitedKept DEF AgInv, UpgradeFails, IdentityOK, AgentTypeOK, enrolling
  <1>4. IdentityOK'
    BY IdentityMoves DEF AgInv, UpgradeFails, persistent, enrolling
  <1>5. SessionOK'
    BY DEF AgInv, UpgradeFails, SessionOK, TunnelTypeOK, NoPollerMarks, IdentityOK,
      AgentTypeOK, tunnel
  <1>6. AbstractStep
    BY AbstractStutter DEF UpgradeFails, Enrolled, persistent, enrolling
  <1> QED BY <1>1, <1>2, <1>3, <1>4, <1>5, <1>6 DEF AgInv

(* The session of a broken connection becomes a zombie. *)
LEMMA DropStep ==
    ASSUME AgInv, Drop
    PROVE  AgInv' /\ AbstractStep
  <1>1. ServerOK'
    BY ServerKept DEF AgInv, Drop, Fault, persistent, enrolling
  <1>2. TokensOK'
    BY TokensKept DEF AgInv, Drop, enrolling
  <1>3. OneAwaited'
    BY AwaitedKept DEF AgInv, Drop, IdentityOK, AgentTypeOK, enrolling
  <1>4. IdentityOK'
    BY IdentityMoves DEF AgInv, Drop, persistent, enrolling
  <1>5. SessionOK'
    <2>1. zombies' \in Nat /\ ~live' /\ UNCHANGED <<connected, pollers, raced>>
      BY DEF AgInv, Drop, SessionOK, TunnelTypeOK
    <2>2. agent'.pc = "dial"
      BY DEF AgInv, Drop, IdentityOK, AgentTypeOK
    <2> QED BY <2>1, <2>2 DEF AgInv, Drop, SessionOK, TunnelTypeOK, NoPollerMarks
  <1>6. AbstractStep
    BY AbstractStutter DEF Drop, Enrolled, persistent, enrolling
  <1> QED BY <1>1, <1>2, <1>3, <1>4, <1>5, <1>6 DEF AgInv

(* The session is gone before the agent knows. *)
LEMMA ServerDropsStep ==
    ASSUME AgInv, ServerDrops
    PROVE  AgInv' /\ AbstractStep
  <1>1. ServerOK'
    BY ServerKept DEF AgInv, ServerDrops, Fault, persistent, enrolling
  <1>2. TokensOK'
    BY TokensKept DEF AgInv, ServerDrops, enrolling
  <1>3. OneAwaited'
    BY AwaitedKept DEF AgInv, ServerDrops, enrolling
  <1>4. IdentityOK'
    BY IdentityKept DEF AgInv, ServerDrops, persistent, enrolling
  <1>5. SessionOK'
    BY DEF AgInv, ServerDrops, SessionOK, TunnelTypeOK, NoPollerMarks, tunnel
  <1>6. AbstractStep
    BY AbstractStutter DEF ServerDrops, Enrolled, persistent, enrolling
  <1> QED BY <1>1, <1>2, <1>3, <1>4, <1>5, <1>6 DEF AgInv

(* The agent dials again. *)
LEMMA AgentNoticesStep ==
    ASSUME AgInv, AgentNotices
    PROVE  AgInv' /\ AbstractStep
  <1>1. ServerOK'
    BY ServerKept DEF AgInv, AgentNotices, Fault, persistent, enrolling
  <1>2. TokensOK'
    BY TokensKept DEF AgInv, AgentNotices, enrolling
  <1>3. OneAwaited'
    BY AwaitedKept DEF AgInv, AgentNotices, IdentityOK, AgentTypeOK, enrolling
  <1>4. IdentityOK'
    BY IdentityMoves DEF AgInv, AgentNotices, persistent, enrolling
  <1>5. SessionOK'
    BY DEF AgInv, AgentNotices, SessionOK, TunnelTypeOK, NoPollerMarks, IdentityOK,
      AgentTypeOK, tunnel
  <1>6. AbstractStep
    BY AbstractStutter DEF AgentNotices, Enrolled, persistent, enrolling
  <1> QED BY <1>1, <1>2, <1>3, <1>4, <1>5, <1>6 DEF AgInv

(* A dead session is noticed. *)
LEMMA ZombieEndsStep ==
    ASSUME AgInv, ZombieEnds
    PROVE  AgInv' /\ AbstractStep
  <1>1. ServerOK'
    BY ServerKept DEF AgInv, ZombieEnds, Fault, persistent, enrolling
  <1>2. TokensOK'
    BY TokensKept DEF AgInv, ZombieEnds, enrolling
  <1>3. OneAwaited'
    BY AwaitedKept DEF AgInv, ZombieEnds, enrolling
  <1>4. IdentityOK'
    BY IdentityKept DEF AgInv, ZombieEnds, persistent, enrolling
  <1>5. SessionOK'
    BY DEF AgInv, ZombieEnds, SessionOK, TunnelTypeOK, NoPollerMarks, tunnel
  <1>6. AbstractStep
    BY AbstractStutter DEF ZombieEnds, Enrolled, persistent, enrolling
  <1> QED BY <1>1, <1>2, <1>3, <1>4, <1>5, <1>6 DEF AgInv

(* A poller that sees no session during a handshake is noted. *)
LEMMA PollerSeesStep ==
    ASSUME AgInv, PollerSees
    PROVE  AgInv' /\ AbstractStep
  <1>1. ServerOK'
    BY ServerKept DEF AgInv, PollerSees, Fault, persistent, enrolling
  <1>2. TokensOK'
    BY TokensKept DEF AgInv, PollerSees, enrolling
  <1>3. OneAwaited'
    BY AwaitedKept DEF AgInv, PollerSees, enrolling
  <1>4. IdentityOK'
    BY IdentityKept DEF AgInv, PollerSees, persistent, enrolling
  <1>5. SessionOK'
    BY DEF AgInv, PollerSees, SessionOK, TunnelTypeOK, NoPollerMarks, HasSession,
      tunnel
  <1>6. AbstractStep
    BY AbstractStutter DEF PollerSees, Enrolled, persistent, enrolling
  <1> QED BY <1>1, <1>2, <1>3, <1>4, <1>5, <1>6 DEF AgInv

(* No poller marks an unraced session. *)
LEMMA PollerMarksStep ==
    ASSUME AgInv, PollerMarks
    PROVE  AgInv' /\ AbstractStep
  <1>1. ServerOK'
    BY ServerKept DEF AgInv, PollerMarks, Fault, persistent, enrolling
  <1>2. TokensOK'
    BY TokensKept DEF AgInv, PollerMarks, enrolling
  <1>3. OneAwaited'
    BY AwaitedKept DEF AgInv, PollerMarks, enrolling
  <1>4. IdentityOK'
    BY IdentityKept DEF AgInv, PollerMarks, persistent, enrolling
  <1>5. SessionOK'
    <2>1. pollers' \in [polling : Nat, marking : Nat] /\ pollers.marking # 0
      BY DEF AgInv, PollerMarks, SessionOK, TunnelTypeOK
    <2> QED BY <2>1 DEF AgInv, PollerMarks, SessionOK, TunnelTypeOK, NoPollerMarks
  <1>6. AbstractStep
    BY AbstractStutter DEF PollerMarks, Enrolled, persistent, enrolling
  <1> QED BY <1>1, <1>2, <1>3, <1>4, <1>5, <1>6 DEF AgInv

-----------------------------------------------------------------------------
LEMMA AgStep ==
    ASSUME AgInv, [AgNext]_agVars
    PROVE  AgInv' /\ AbstractStep
  <1>1. CASE AgNext
    BY <1>1, BootStep, PersistCAStep, ServerCrashStep, MintTokenStep, TokenExpiresStep, ReapStep,
       RedeemTokenStep, SignClientStep, SignFailsStep, InstallStep, LoadStateStep, RegisterStep,
       RejectedStep, PersistStateStep, PersistFailsStep, AgentCrashStep, CertExpiresStep,
       AuthorizeStep, SessionOpensStep, UpgradeFailsStep, DropStep, ServerDropsStep,
       AgentNoticesStep, ZombieEndsStep, PollerSeesStep, PollerMarksStep
    DEF AgNext
  <1>2. CASE UNCHANGED agVars
    <2> USE <1>2 DEF agVars, AgInv
    <2>1. ServerOK' /\ OneAwaited'
      BY ServerKept, AwaitedKept
    <2>2. TokensOK'
      BY TokensKept DEF enrolling
    <2>3. IdentityOK'
      BY IdentityKept
    <2>4. SessionOK'
      BY SessionKept DEF tunnel
    <2>5. AbstractStep
      BY AbstractStutter DEF Enrolled
    <2> QED BY <2>1, <2>2, <2>3, <2>4, <2>5
  <1> QED BY <1>1, <1>2

LEMMA AgStart ==
    AgInit => AgInv
  <1> SUFFICES ASSUME AgInit PROVE AgInv
    OBVIOUS
  <1> USE DEF AgInit
  <1>1. ServerOK
    BY AgentsAssumption DEF ServerOK, ServerTypeOK, CAHeld
  <1>2. TokensOK
    BY FS_EmptySet DEF TokensOK, TokenTypeOK, TokensOnce
  <1>3. OneAwaited
    BY DEF OneAwaited
  <1>4. IdentityOK
    BY DEF IdentityOK, AgentTypeOK, SecretOK, DialsAsPersisted
  <1>5. SessionOK
    BY DEF SessionOK, TunnelTypeOK, NoPollerMarks
  <1> QED BY <1>1, <1>2, <1>3, <1>4, <1>5 DEF AgInv

(* The inductive invariant of registration, agent and tunnel holds for any *)
(* number of tokens, clusters and faults.                                  *)
THEOREM AgentsInvariance == AgSpec => []AgInv
  BY AgStart, AgStep, PTL DEF AgSpec

(* An agent dials only with a certificate that was issued and that its     *)
(* state Secret holds (ensureState), whatever crashed or got lost before.  *)
THEOREM IdentityPersisted == AgSpec => []DialsAsPersisted
  <1>1. AgInv => DialsAsPersisted
    BY DEF AgInv, IdentityOK
  <1> QED BY <1>1, AgentsInvariance, PTL

(* A cluster with a session is in Server.connected, unless a poller acted  *)
(* on an answer from before the reconnect (markConnected, watchDisconnect). *)
THEOREM SessionListed == AgSpec => []ListedUnlessRaced
  <1>1. AgInv => ListedUnlessRaced
    BY DEF AgInv, SessionOK, NoPollerMarks, ListedUnlessRaced
  <1> QED BY <1>1, AgentsInvariance, PTL

(* Registration implements Enrollment: one certificate per token, in the   *)
(* token's name, under one CA (RedeemToken, RegisterHandler, SignClient).  *)
THEOREM EnrollmentRefined == AgSpec => OneCertPerToken
  <1>1. AgInit => E!EInit
    BY DEF AgInit, E!EInit
  <1>2. AgInv /\ [AgNext]_agVars => [E!Mint \/ E!Issue \/ E!Found]_<<minted, issued, caSecret>>
    BY AgStep DEF AbstractStep, Enrolled
  <1> QED BY <1>1, <1>2, AgentsInvariance, PTL DEF AgSpec, OneCertPerToken, E!ESpec
=============================================================================
