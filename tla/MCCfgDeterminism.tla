---------------------------- MODULE MCCfgDeterminism ----------------------------
(* Both processes on the graphs of MCGraphs.                                *)
EXTENDS CfgDeterminism, MCGraphs
=============================================================================
