-------------------------- MODULE MCNodeInstances --------------------------
(* One dual-stack spot node, its controllers and a goroutine that uses the *)
(* same client for another node.                                           *)
EXTENDS NodeInstances

MCOthers == {"other"}
MCCaller == {"self"} \cup MCOthers
=============================================================================
