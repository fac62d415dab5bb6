----------------------------- MODULE MCRulePush -----------------------------
(* TLC instance of RulePush: two instances, one of which never answers.    *)
EXTENDS RulePush

CONSTANTS i1, i2, o1, o2
=============================================================================
