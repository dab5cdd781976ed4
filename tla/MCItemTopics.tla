---------------------------- MODULE MCItemTopics ----------------------------
(***************************************************************************)
(* One item that the ruleset links to two topics and not to a third, and   *)
(* two sources of it whose topics cross.                                   *)
(***************************************************************************)
EXTENDS ItemTopics

CONSTANTS i1, t1, t2, t3

MCRules == [i \in Items |-> {t1, t2}]
MCConfigs == {{t1}, {t2, t3}}
=============================================================================
