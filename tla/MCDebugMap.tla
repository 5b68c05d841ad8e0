----------------------------- MODULE MCDebugMap -----------------------------
(***************************************************************************)
(* An instance of DebugMap: three libraries of the shim linker, and two    *)
(* that glibc opens and closes.                                            *)
(***************************************************************************)
EXTENDS DebugMap

CONSTANTS exe, g1, g2, a1, a2, a3
=============================================================================
