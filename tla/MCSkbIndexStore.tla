-------------------------- MODULE MCSkbIndexStore ---------------------------
(* Scanners and readers are model values.                                   *)
EXTENDS SkbIndexStore

CONSTANTS s1, s2, r1
=============================================================================
