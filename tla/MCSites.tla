------------------------------ MODULE MCSites -------------------------------
(***************************************************************************)
(* What lies around the servers: the spool and the recorder at the edge,   *)
(* and the parts of the domain. They share no state, so TLC is given one   *)
(* at a time: sub is chosen once, from Subs, and the others stay as they   *)
(* begin.                                                                  *)
(***************************************************************************)
EXTENDS Spool, Recorder, DomainTrust, DomainEnroll, DomainIdentity, DomainPlace, DomainGateway
CONSTANTS Subs, a1, a2
VARIABLE sub
edgeVars == <<spoolVars, recorderVars>>
domainVars == <<trustVars, enrollVars, identityVars, placeVars, gatewayVars>>
sitesVars == <<edgeVars, domainVars, sub>>

\* The second network is seen by one cluster only.
ReachesMC == [c \in {a1, a2} |-> IF c = a1 THEN {1, 2} ELSE {2}]

SitesInit ==
  /\ sub \in Subs
  /\ SpoolInit /\ RecorderInit
  /\ TrustInit /\ EnrollInit /\ IdentityInit /\ PlaceInit /\ GatewayInit

EdgeNext ==
  \/ sub = "spool" /\ SpoolNext /\ UNCHANGED recorderVars
  \/ sub = "recorder" /\ RecorderNext /\ UNCHANGED spoolVars
DomainNext ==
  \/ sub = "trust" /\ TrustNext /\ UNCHANGED <<enrollVars, identityVars, placeVars, gatewayVars>>
  \/ sub = "enroll" /\ EnrollNext /\ UNCHANGED <<trustVars, identityVars, placeVars, gatewayVars>>
  \/ sub = "identity" /\ IdentityNext /\ UNCHANGED <<trustVars, enrollVars, placeVars, gatewayVars>>
  \/ /\ UNCHANGED <<trustVars, enrollVars, identityVars, gatewayVars>>
     /\ \/ sub = "placers" /\ PlacersNext
        \/ sub = "view" /\ ViewNext
  \/ sub = "gateway" /\ GatewayNext /\ UNCHANGED <<trustVars, enrollVars, identityVars, placeVars>>
SitesNext ==
  /\ UNCHANGED sub
  /\ \/ EdgeNext /\ UNCHANGED domainVars
     \/ DomainNext /\ UNCHANGED edgeVars

SitesSpec ==
  /\ SitesInit /\ [][SitesNext]_sitesVars
  /\ sub = "trust" => TrustFairness

\* The types of all parts.
SitesTypeOK ==
  /\ SpoolTypeOK /\ RecorderTypeOK
  /\ TrustTypeOK /\ EnrollTypeOK /\ IdentityTypeOK /\ PlaceTypeOK /\ GatewayTypeOK
=============================================================================
