----------------------------- MODULE Enrollment -----------------------------
(***************************************************************************)
(* What registration promises: a bootstrap token is minted once, for one   *)
(* cluster, and is good for at most one certificate, in that cluster's     *)
(* name, signed by the one CA of the deployment.                           *)
(***************************************************************************)
CONSTANTS Token, Cluster, NoCA

VARIABLES
  minted,  \* who each token was minted for
  certs,   \* the certificates issued: token, cluster and CA
  ca       \* the deployment's CA, NoCA until there is one

EInit ==
  /\ minted = [t \in {} |-> t]
  /\ certs = {}
  /\ ca = NoCA

Mint ==
  /\ \E t \in Token \ DOMAIN minted, c \in Cluster :
       minted' = [u \in DOMAIN minted \union {t} |-> IF u = t THEN c ELSE minted[u]]
  /\ UNCHANGED <<certs, ca>>

Issue ==
  /\ ca # NoCA
  /\ \E x \in certs' \ certs :
       /\ certs' = certs \union {x}
       /\ x.token \in DOMAIN minted /\ x.cluster = minted[x.token] /\ x.ca = ca
       /\ \A y \in certs : y.token # x.token
  /\ UNCHANGED <<minted, ca>>

Found == ca = NoCA /\ ca' # NoCA /\ UNCHANGED <<minted, certs>>

ESpec == EInit /\ [][Mint \/ Issue \/ Found]_<<minted, certs, ca>>
=============================================================================
