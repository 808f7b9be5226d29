---------------------------- MODULE MCProvisioning ----------------------------
(* TLC instances of Provisioning.                                           *)
EXTENDS Provisioning, TLC

CONSTANTS a1, o1, o2

(* Two broker identities of one account.                                    *)
TwoIdentities == o1 :> a1 @@ o2 :> a1

Interchangeable == Permutations(Requests)
=============================================================================
