----------------------------- MODULE MCAccounts -----------------------------
(***************************************************************************)
(* An instance of Accounts for TLC.  Sessions end before the grace period  *)
(* of a revocation does not: both are one unit of time.                    *)
(***************************************************************************)
EXTENDS Accounts, TLC

MCAllowLists == {Users, {}}
MCTokenKinds == {[scope |-> "read", ttl |-> Never], [scope |-> "full", ttl |-> 1]}
MCSymmetry == Permutations(Users)
=============================================================================
