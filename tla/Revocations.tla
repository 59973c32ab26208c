---------------------------- MODULE Revocations ----------------------------
(***************************************************************************)
(* What revocation promises relying parties (docs/SECURITY.md,             *)
(* guide/11-revocation.md): a certificate is revoked in the audit trail,   *)
(* in OCSP and on the CRL at one and the same time, for good, and not      *)
(* before it is known.                                                     *)
(***************************************************************************)
CONSTANT Cert

VARIABLES
  answer,    \* what OCSP says of each certificate
  listed,    \* the certificates on the published CRL
  recorded   \* those whose revocation the audit trail has

revocationVars == <<answer, listed, recorded>>

Init ==
  /\ answer \in [Cert -> {"unknown", "good"}]
  /\ listed = {} /\ recorded = {}

Issue(c) ==
  /\ answer[c] = "unknown"
  /\ answer' = [answer EXCEPT ![c] = "good"]
  /\ UNCHANGED <<listed, recorded>>

Revoke(S) ==
  /\ \A c \in S : answer[c] # "unknown"
  /\ answer' = [c \in Cert |-> IF c \in S THEN "revoked" ELSE answer[c]]
  /\ listed' = listed \cup S
  /\ recorded' = recorded \cup S

Next == (\E c \in Cert : Issue(c)) \/ (\E S \in SUBSET Cert : Revoke(S))

Spec == Init /\ [][Next]_revocationVars

=============================================================================
