---------------------------- MODULE DomainTrust ----------------------------
(***************************************************************************)
(* Tokens and their revocation (domain/tokens.py, signer_service.py,       *)
(* agent.py).                                                              *)
(*                                                                         *)
(* The signer issues tokens under its current key, keeps the keys it has   *)
(* rotated away from in memory until they retire, and answers POST /revoke *)
(* in a thread of its own, so several revocations may be under way; its    *)
(* main loop prunes the list. The agent of a cluster copies the key set    *)
(* and the list from the domain's Variables into its own cluster's; a Node *)
(* reads them there (NodeTrust) and checks a token without asking anybody. *)
(*                                                                         *)
(* One clock. An entry of the list is a token, whose expiry it carries.    *)
(* Kids are numbered in the order they are drawn.                          *)
(***************************************************************************)
EXTENDS Integers, FiniteSets

CONSTANTS Tokens,          \* jti
          Requests,        \* threads that may be serving /revoke
          TokenLife, Skew, Overlap,         \* in units of the clock
          Interrupted,     \* may a thread switch fall inside prune()?
          MaxTime, MaxChanges               \* rotations, lists published and restarts together

ASSUME TrustAssumption ==
  /\ {TokenLife, Skew, Overlap, MaxTime} \subseteq Nat \ {0} /\ MaxChanges \in Nat
  /\ Interrupted \in BOOLEAN

VARIABLES clock, token,                         \* what has been issued
          kid, lastKid, previous, storedKid,    \* the issuer; domain/signer
          revoked, request, deaths,             \* the signer's process
          keysRow, revokedRow,                  \* the domain's Variables
          clusterKeys, clusterRevoked,          \* the cluster's Variables
          acked, forgotten                      \* history
issuerVars == <<kid, lastKid, previous, storedKid>>
clusterVars == <<clusterKeys, clusterRevoked>>
trustVars == <<clock, token, issuerVars, revoked, request, deaths, keysRow, revokedRow, clusterVars,
               acked, forgotten>>

NoToken == [kid |-> 0, iat |-> 0, exp |-> 0]
Changes == (lastKid - 1) + revokedRow.index + deaths
Issued == {t \in Tokens : token[t] # NoToken}
Idle == [at |-> "idle", token |-> CHOOSE t \in Tokens : TRUE, index |-> 0]

\* TokenIssuer.keyset: the current key, for ever, and the previous ones until they retire
\* (until = 0 stands for "no retirement").
Keyset(key, old) == {[kid |-> key, until |-> 0]} \cup old
Usable(keys, k, now) == \E e \in keys : e.kid = k /\ (e.until = 0 \/ now < e.until)

\* verify(): the key, the expiry and the issue date with their tolerance, the revocation list.
Verifies(keys, jtis, t) ==
  /\ t \in Issued /\ Usable(keys, token[t].kid, clock)
  /\ clock <= token[t].exp + Skew /\ clock >= token[t].iat - Skew
  /\ t \notin jtis
NodeAccepts(t) == Verifies(clusterKeys, clusterRevoked, t)

TrustInit ==
  /\ clock = 1 /\ token = [t \in Tokens |-> NoToken]
  /\ kid = 1 /\ lastKid = 1 /\ previous = {} /\ storedKid = 1
  /\ revoked = {} /\ request = [r \in Requests |-> Idle] /\ deaths = 0
  /\ keysRow = Keyset(1, {}) /\ revokedRow = [jtis |-> {}, index |-> 0]
  /\ clusterKeys = {} /\ clusterRevoked = {}
  /\ acked = {} /\ forgotten = {}

Tick ==
  /\ clock < MaxTime /\ clock' = clock + 1
  /\ UNCHANGED <<token, issuerVars, revoked, request, deaths, keysRow, revokedRow, clusterVars, acked, forgotten>>

-----------------------------------------------------------------------------
\* The signer.
Login(t) ==
  /\ t \notin Issued
  /\ token' = [token EXCEPT ![t] = [kid |-> kid, iat |-> clock, exp |-> clock + TokenLife]]
  /\ UNCHANGED <<clock, issuerVars, revoked, request, deaths, keysRow, revokedRow, clusterVars, acked, forgotten>>

\* POST /revoke: the token must still verify; the entry is in the list before anything is published.
RevokeRequest(r, t) ==
  /\ request[r].at = "idle" /\ Verifies(Keyset(kid, previous), {}, t)
  /\ Changes < MaxChanges
  /\ revoked' = revoked \cup {t}
  /\ request' = [request EXCEPT ![r] = [at |-> "get", token |-> t, index |-> 0]]
  /\ UNCHANGED <<clock, token, issuerVars, deaths, keysRow, revokedRow, clusterVars, acked, forgotten>>

RevokeGet(r) ==
  /\ request[r].at = "get"
  /\ request' = [request EXCEPT ![r].at = "put", ![r].index = revokedRow.index]
  /\ UNCHANGED <<clock, token, issuerVars, revoked, deaths, keysRow, revokedRow, clusterVars, acked, forgotten>>

\* publish_revoked: the list as it is now, by check-and-set; after a conflict the request has no answer.
RevokePut(r) ==
  /\ request[r].at = "put"
  /\ request' = [request EXCEPT ![r] = Idle]
  /\ IF request[r].index = revokedRow.index
     THEN /\ revokedRow' = [jtis |-> revoked, index |-> revokedRow.index + 1]
          /\ acked' = acked \cup {request[r].token}
     ELSE UNCHANGED <<revokedRow, acked>>
  /\ UNCHANGED <<clock, token, issuerVars, revoked, deaths, keysRow, clusterVars, forgotten>>

\* As a bug: the entries that have just been added go with those that have run out.
PrunedEarly(lost) == {t \in revoked : token[t].exp > clock + TokenLife} \ lost
\* RevocationList.prune: rebuilt and assigned, so what a request adds in between is lost.
Pruned(lost) == {t \in revoked : token[t].exp > clock} \ lost
Prune ==
  \E lost \in SUBSET (IF Interrupted THEN {request[r].token : r \in {q \in Requests : request[q].at # "idle"}}
                      ELSE {}) :
    /\ revoked # Pruned(lost) /\ revoked' = Pruned(lost)
    /\ UNCHANGED <<clock, token, issuerVars, request, deaths, keysRow, revokedRow, clusterVars, acked, forgotten>>

\* As a bug: the old key goes at once.
RetiringNow == {e \in previous : e.until > clock}
\* TokenIssuer.rotate: a new key, in memory; the old one is trusted for the overlap.
Retiring == {e \in previous \cup {[kid |-> kid, until |-> clock + Overlap]} : e.until > clock}
Rotate ==
  /\ Changes < MaxChanges
  /\ previous' = Retiring /\ lastKid' = lastKid + 1 /\ kid' = lastKid + 1
  /\ UNCHANGED <<clock, token, storedKid, revoked, request, deaths, keysRow, revokedRow, clusterVars, acked, forgotten>>

PublishKeys ==
  /\ keysRow # Keyset(kid, previous) /\ keysRow' = Keyset(kid, previous)
  /\ UNCHANGED <<clock, token, issuerVars, revoked, request, deaths, revokedRow, clusterVars, acked, forgotten>>

\* The process dies and is started again: the key is the stored one, the list is the published one, and
\* the key set that main() publishes has no previous keys. Requests under way are not answered.
Restart ==
  /\ Changes < MaxChanges /\ deaths' = deaths + 1
  /\ kid' = storedKid /\ previous' = {} /\ keysRow' = Keyset(storedKid, {})
  /\ revoked' = revokedRow.jtis /\ request' = [r \in Requests |-> Idle]
  /\ forgotten' = forgotten \cup {k \in 1..lastKid : storedKid # k \/ storedKid # kid}
  /\ UNCHANGED <<clock, token, lastKid, storedKid, revokedRow, clusterVars, acked>>

-----------------------------------------------------------------------------
\* DomainAgent.sync: each row is written where it differs. Only the agent writes the cluster's copies, so
\* reading first and writing later only delays it.
SyncKeys ==
  /\ clusterKeys # keysRow /\ clusterKeys' = keysRow
  /\ UNCHANGED <<clock, token, issuerVars, revoked, request, deaths, keysRow, revokedRow, clusterRevoked, acked, forgotten>>
SyncRevoked ==
  /\ clusterRevoked # revokedRow.jtis /\ clusterRevoked' = revokedRow.jtis
  /\ UNCHANGED <<clock, token, issuerVars, revoked, request, deaths, keysRow, revokedRow, clusterKeys, acked, forgotten>>

TrustNext ==
  \/ Tick \/ Prune \/ Rotate \/ PublishKeys \/ Restart \/ SyncKeys \/ SyncRevoked
  \/ \E t \in Tokens : Login(t) \/ \E r \in Requests : RevokeRequest(r, t)
  \/ \E r \in Requests : RevokeGet(r) \/ RevokePut(r)

\* The agent looks again and again; nothing makes the clock or the operator move.
TrustFairness == WF_trustVars(SyncKeys) /\ WF_trustVars(SyncRevoked)

-----------------------------------------------------------------------------
TrustTypeOK ==
  /\ clock \in 1..MaxTime
  /\ \A t \in Issued : token[t].kid \in 1..lastKid /\ token[t].exp = token[t].iat + TokenLife
  /\ {kid, storedKid} \subseteq 1..lastKid /\ lastKid \in Nat /\ deaths \in Nat
  /\ revoked \subseteq Issued /\ acked \subseteq Issued /\ revokedRow.jtis \subseteq Issued
  /\ \A r \in Requests : request[r].at \in {"idle", "get", "put"} /\ request[r].index <= revokedRow.index

(* A revocation that was answered reaches the cluster while the token still runs, whatever other       *)
(* revocations are published at the same time and wherever the signer dies (signer_service.py /revoke, *)
(* publish_revoked, DomainAgent.sync).                                                                 *)
RevocationArrives ==
  \A t \in Tokens : []<>(t \in acked => ~NodeAccepts(t) \/ clock >= token[t].exp)

(* A token that the cluster's key set verifies goes on being verified until it expires, through        *)
(* rotations, restarts and copies, when its key is not one whose retirement a restart forgot: a key     *)
(* that was rotated away from and is the stored one comes back, while a cluster's copy still lets it    *)
(* retire (TokenIssuer.rotate, KeySet.usable).                                                          *)
TokenRunsToItsExpiry ==
  [][\A t \in Issued : (/\ Usable(clusterKeys, token[t].kid, clock) /\ token[t].kid \notin forgotten'
                        /\ clock' <= token[t].exp)
                       => Usable(clusterKeys', token[t].kid, clock')]_trustVars
=============================================================================
