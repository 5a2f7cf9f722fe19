---------------------------- MODULE MCRouteApply ----------------------------
(* Small instances of RouteApply. *)
EXTENDS RouteApply
=============================================================================
