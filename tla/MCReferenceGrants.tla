------------------------- MODULE MCReferenceGrants -------------------------
(* Small instances of ReferenceGrants. *)
EXTENDS ReferenceGrants, TLC

CONSTANTS r1, r2

\* Routes of TLS Ingresses are interchangeable, and so are the others.
Symmetry == Permutations(Tls) \cup Permutations(Route \ Tls)
=============================================================================
