-------------------------- MODULE MCScannerConnection --------------------------
(***************************************************************************)
(* The calls on a connection, with the inductive invariant of their proofs,*)
(* checked by TLC in both modes; in asynchronous mode the client threads   *)
(* are interchangeable.                                                    *)
(***************************************************************************)
EXTENDS ScannerCalls_proofs, TLC

ClientSymmetry == Permutations(Clients)
=============================================================================
