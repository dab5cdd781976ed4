------------------------------ MODULE MCSignIn ------------------------------
(***************************************************************************)
(* An instance of SignIn for TLC: two browsers behind one address,         *)
(* and an allow-list that is empty or names one of two people.             *)
(***************************************************************************)
EXTENDS SignIn, TLC

CONSTANTS b1, b2, p1, p2, c1, c2, i1

MCIp == [b \in Browsers |-> i1]
MCAllowLists == {{}, {p1}}
MCSymmetry == Permutations(Calls) \cup Permutations(Browsers)
=============================================================================
