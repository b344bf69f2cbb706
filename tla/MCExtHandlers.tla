---------------------------- MODULE MCExtHandlers ----------------------------
(* Instances of ExtHandlers for TLC: a single-config handler (no settings or *)
(* one) and a multi-config handler with two extensions.                      *)
EXTENDS ExtHandlers

CONSTANTS e1, e2

SingleConfig == {{}, {e1}}
MultiConfig == {{e1, e2}}
=============================================================================
