------------------------------ MODULE MCWebRefresh ------------------------------
(* Instances of WebRefresh for TLC.                                        *)
EXTENDS WebRefresh, TLC

CONSTANTS t1, t2, t3
=============================================================================
