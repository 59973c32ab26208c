---------------------------- MODULE MCCertStatus ----------------------------
(* CertStatus on small instances. *)
EXTENDS CertStatus, TLC

\* Requests and apps that are not the first one are interchangeable.  Used by
\* the safety run only: the liveness run explores the full graph.
ReqSymmetry == Permutations(Req) \cup Permutations(App \ {FirstApp})

=============================================================================
