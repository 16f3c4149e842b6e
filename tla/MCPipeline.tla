----------------------------- MODULE MCPipeline -----------------------------
(***************************************************************************)
(* Instance of Pipeline for TLC: two mails of one void, one rulerunner,    *)
(* one msgdelivery.                                                        *)
(***************************************************************************)
EXTENDS Pipeline, TLC

CONSTANTS v1

MCTwo == 1..2

MCVoidOf == [m \in Mail |-> v1]
=============================================================================
