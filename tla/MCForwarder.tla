------------------------------ MODULE MCForwarder ------------------------------
(* Small instances of the forwarder for TLC. *)
EXTENDS Forwarder

\* Two legacy events exceed a limit of 5 together.
MCRawSize == [e \in Events |-> IF e <= MaxLegacy THEN 2 ELSE 1]
MCItemSize == [e \in Events |-> MCRawSize[e] + 1]
=============================================================================
