---------------------------- MODULE MCAdmission ----------------------------
(* Small instances of Admission. *)
EXTENDS Admission

From == << <<"dom", ".", "cc">> >>
To == << <<"mig", ".", "dom", ".", "cc">> >>
Ports == [s1 |-> [web |-> 8080]]

A == <<"a", ".", "dom", ".", "cc">>
B == <<"b", ".", "dom", ".", "cc">>
W == <<"*", ".", "dom", ".", "cc">>
X == <<"x", ".", "org">>

Rule(host) ==
    [host |-> host,
     paths |-> <<[path |-> <<>>, exact |-> FALSE, svc |-> "s1", num |-> 0, port |-> "web"]>>]
Tls(names, secret) == [hosts |-> names, secret |-> secret]

Plain ==
    [canary |-> FALSE, cls |-> "nginx", rules |-> <<Rule(A)>>,
     cfg |-> [weight |-> Unset, total |-> Unset, header |-> FALSE, value |-> FALSE,
              pattern |-> FALSE, cookie |-> FALSE],
     mods |-> [request |-> <<>>, response |-> <<>>],
     ns |-> "app", tls |-> <<>>, ignore |-> FALSE, allow |-> FALSE, auto |-> FALSE,
     byClass |-> {}, listed |-> {}, added |-> {}, removed |-> {}, auths |-> {}]

\* Allowed, with every kind of filter; a certificate for the old name only.
K1 == [Plain EXCEPT !.allow = TRUE, !.auto = TRUE, !.byClass = {"f1"}, !.auths = {"a1"},
                    !.tls = <<Tls({A}, "sa")>>]
\* Denied, with a filter that the rules remove; certificates for the wildcard of
\* the old domain and for a name that is not rewritten, and a host without any.
K2 == [Plain EXCEPT !.auto = TRUE, !.byClass = {"f1"}, !.removed = {"f1"},
                    !.rules = <<Rule(B), Rule(X), Rule(A)>>,
                    !.tls = <<Tls({B, W}, "sb"), Tls({X}, "sx")>>]
\* Passed on to the operator, and not for it.
K3 == [Plain EXCEPT !.canary = TRUE]

SomeContents == {K1, K2, K3}
Symmetry == Permutations(Ing)
=============================================================================
