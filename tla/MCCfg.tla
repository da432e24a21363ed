------------------------------- MODULE MCCfg -------------------------------
(* CfgAnalysis for TLC.                                                    *)
EXTENDS CfgAnalysis
=============================================================================
