---------------------------- MODULE MCOTSettings ----------------------------
(* Instantiation of OTSettings for TLC.                                    *)
EXTENDS OTSettings

CONSTANTS v1, v2, e0   \* two setting values and the empty value

MCValues == {v1, v2}

\* two OpenThread keys (e.g. kKeyChildInfo and another)
MCKeys == {1, 2}
=============================================================================
