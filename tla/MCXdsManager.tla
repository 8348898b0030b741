--------------------------- MODULE MCXdsManager ---------------------------
(* Instance of XdsManager for TLC. *)
EXTENDS XdsManager

MCOneType == {"cluster"}
MCTypes == {"cluster", "listener"}
MCOneName == {"a"}
MCNames == {"a", "b"}
===========================================================================
