--------------------------- MODULE MCExternalDNS ---------------------------
(* Small instances of ExternalDNS. *)
EXTENDS ExternalDNS

Default == [restore |-> "unset", restoreClass |-> "unset", restoreDNS |-> "unset",
            remove |-> FALSE, del |-> FALSE, prevent |-> FALSE, mark |-> FALSE]

\* The command lines of the README and of the flags' help, and two that are
\* refused.
Documented ==
    {Default, [Default EXCEPT !.restoreDNS = "true"], [Default EXCEPT !.restoreClass = "true"],
     [Default EXCEPT !.del = TRUE], [Default EXCEPT !.prevent = TRUE],
     [Default EXCEPT !.mark = TRUE, !.restoreDNS = "true"],
     [Default EXCEPT !.remove = TRUE], [Default EXCEPT !.remove = TRUE, !.restore = "false"],
     [Default EXCEPT !.del = TRUE, !.restoreClass = "true"]}
=============================================================================
