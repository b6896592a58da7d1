--------------------------- MODULE DomainIdentity ---------------------------
(***************************************************************************)
(* The domain's users (domain/identity.py). A user's record is a row of    *)
(* the Variables; the whole set is published as one object and then        *)
(* pointed at, which is what a re-hosted domain is restored from.          *)
(*                                                                         *)
(* Records are edited by a thread of the process that publishes. What the  *)
(* store says of a user is the number of the edit it is the outcome of, 0  *)
(* if none; a deletion is an edit too: a set without the user says so. The *)
(* publish floor only delays a publication, so it is left out.             *)
(***************************************************************************)
EXTENDS Integers, Sequences, FiniteSets

CONSTANTS Users, MaxEdits, MaxPublications, MaxLives

ASSUME IdentityAssumption == {MaxEdits, MaxPublications, MaxLives} \subseteq Nat

VARIABLES record, edits,                      \* identity/users/<uid>
          editing,                            \* a user whose record was read by an edit under way
          dirty, publishedRev, publication, published, lives,   \* the publisher's process
          object, pointer,                    \* identity/rev-<n>; identity/pointer
          promised                            \* history: the set of the last publication that was completed
recordVars == <<record, edits, editing>>
publishVars == <<dirty, publishedRev, publication, published, object, pointer, promised>>
identityVars == <<recordVars, publishVars, lives>>

NoSet == [u \in Users |-> 0]
Quiet == [at |-> "idle", rev |-> 0, puts |-> 0, left |-> {}, got |-> NoSet]

IdentityInit ==
  /\ record = NoSet /\ edits = 0 /\ editing = {}
  /\ dirty = FALSE /\ publishedRev = 0 /\ publication = Quiet /\ published = 0 /\ lives = 1
  /\ object = [r \in {} |-> NoSet] /\ pointer = 0 /\ promised = NoSet

-----------------------------------------------------------------------------
\* create_local refuses a user that is there, a deleted one too; create_federated and delete do not look;
\* set_roles wants one. Each reads its own record, puts it by check-and-set and marks the set dirty.
BeginEdit(u) ==
  /\ edits < MaxEdits /\ editing = {} /\ edits' = edits + 1 /\ editing' = {u}
  /\ UNCHANGED <<record, publishVars, lives>>
EndEdit ==
  \E u \in editing :
    /\ record' = [record EXCEPT ![u] = edits]
    /\ dirty' = TRUE /\ editing' = {}
    /\ UNCHANGED <<edits, publishedRev, publication, published, object, pointer, promised, lives>>

-----------------------------------------------------------------------------
\* publish: when dirty or forced. The records are read one after the other.
PublishBegin ==
  /\ publication.at = "idle" /\ published < MaxPublications /\ published' = published + 1
  /\ publication' = [Quiet EXCEPT !.at = "read", !.rev = publishedRev + 1, !.left = Users]
  /\ UNCHANGED <<recordVars, dirty, publishedRev, object, pointer, promised, lives>>
PublishRead ==
  /\ publication.at = "read"
  /\ \E u \in publication.left :
       publication' = [publication EXCEPT !.got[u] = record[u], !.left = @ \ {u},
                                          !.at = IF publication.left = {u} THEN "put" ELSE "read"]
  /\ UNCHANGED <<recordVars, dirty, publishedRev, published, object, pointer, promised, lives>>

Written(rev, set) == [r \in DOMAIN object \cup {rev} |-> IF r = rev THEN set ELSE object[r]]
\* As a bug: the pointer first.
PublishOrderSwapped == <<"pointer", "object">>
\* First the object, then the pointer.
PublishOrder == <<"object", "pointer">>
PublishPut ==
  LET n == publication.puts + 1 IN
  /\ publication.at = "put"
  /\ object' = IF PublishOrder[n] = "object" THEN Written(publication.rev, publication.got) ELSE object
  /\ pointer' = IF PublishOrder[n] = "pointer" THEN publication.rev ELSE pointer
  /\ IF n = 1 THEN publication' = [publication EXCEPT !.puts = n] /\ UNCHANGED <<dirty, publishedRev, promised>>
     ELSE publication' = Quiet /\ dirty' = FALSE /\ publishedRev' = publication.rev /\ promised' = publication.got
  /\ UNCHANGED <<recordVars, published, lives>>
\* A read or a put that fails ends the publication; the set stays dirty.
PublishFails ==
  /\ publication.at # "idle" /\ publication' = Quiet
  /\ UNCHANGED <<recordVars, dirty, publishedRev, published, object, pointer, promised, lives>>

-----------------------------------------------------------------------------
\* The process dies and starts again: it knows of no earlier revision and of nothing to publish.
NewLife(rev) ==
  /\ lives < MaxLives /\ lives' = lives + 1
  /\ editing' = {} /\ dirty' = FALSE /\ publication' = Quiet /\ publishedRev' = rev
  /\ UNCHANGED <<edits, published, object, pointer, promised>>
Reincarnate == NewLife(0) /\ UNCHANGED record

\* restore: the domain is lost and hosted again, from the object the pointer names: who was edited later is
\* as that set says, and who is not in it is not there. With no such object it refuses.
Rehost ==
  /\ pointer \in DOMAIN object /\ NewLife(pointer)
  /\ record' = object[pointer]

IdentityNext ==
  \/ \E u \in Users : BeginEdit(u)
  \/ EndEdit \/ PublishBegin \/ PublishRead \/ PublishPut \/ PublishFails \/ Reincarnate \/ Rehost

-----------------------------------------------------------------------------
IdentityTypeOK ==
  /\ \A u \in Users : record[u] \in 0..edits /\ publication.got[u] \in 0..edits
  /\ edits <= MaxEdits /\ editing \subseteq Users /\ dirty \in BOOLEAN
  /\ publication.at \in {"idle", "read", "put"} /\ publication.puts \in 0..1
  /\ {pointer, publishedRev} \subseteq 0..MaxPublications /\ DOMAIN object \subseteq 1..MaxPublications

(* Wherever the publisher dies, fails or is hosted again, and although it counts its revisions from    *)
(* the start in each life and writes over objects of earlier ones, the pointer names an object, and    *)
(* that object has each user at least as it was in the last publication that was completed             *)
(* (IdentityStore.publish, restore).                                                                   *)
RestoredSetIsFresh ==
  pointer # 0 => /\ pointer \in DOMAIN object
                 /\ \A u \in Users : object[pointer][u] >= promised[u]
=============================================================================
