--------------------------- MODULE MCGatewaySync ---------------------------
(* Small instances of GatewaySync. *)
EXTENDS GatewaySync, TLC

CONSTANTS r1, r2, n1, n2, h1, h2

\* Two routes in two namespaces.
TwoNamespaces == (r1 :> n1) @@ (r2 :> n2)

\* Timers and hostnames are interchangeable, and so are the two routes
\* together with their namespaces.
Symmetry ==
    Permutations(Timer) \cup Permutations(Host)
      \cup {(r1 :> r2) @@ (r2 :> r1) @@ (n1 :> n2) @@ (n2 :> n1)}
=============================================================================
