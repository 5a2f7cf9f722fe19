------------------------- MODULE MCIngressLifecycle -------------------------
(* Small instances of IngressLifecycle: nginx is watched, other is not. *)
EXTENDS IngressLifecycle

CONSTANTS s1, s2, nginx, other

\* Every configuration; status clearing matters only where Ingresses are disabled.
AllOptions == {o \in [del: BOOLEAN, mode: {"none", "disable", "remove"}, clear: BOOLEAN] :
                 o.clear => o.mode = "disable"}
=============================================================================
