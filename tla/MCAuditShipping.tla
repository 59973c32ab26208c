-------------------------- MODULE MCAuditShipping --------------------------
(* AuditShipping on small instances. *)
EXTENDS AuditShipping, TLC

\* Transactions and passes are interchangeable.  Not used with liveness.
WorkerSymmetry == Permutations(Writer) \cup Permutations(Shipper)

=============================================================================
