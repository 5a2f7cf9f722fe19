-------------------------- MODULE MCSiblingRoutes --------------------------
(* Small instances of SiblingRoutes. *)
EXTENDS SiblingRoutes

From == << <<"dom", ".", "cc">>, <<"cc">> >>
To == << <<"mig", ".", "dom", ".", "cc">>, <<"new", ".", "cc">> >>
Ports == [s1 |-> [web |-> 8080], c1 |-> [web |-> 8081]]

A == <<"a", ".", "dom", ".", "cc">>
B == <<"dom", ".", "cc">>
W == <<"*", ".", "dom", ".", "cc">>

Path(path, exact, svc, num, port) ==
    [path |-> path, exact |-> exact, svc |-> svc, num |-> num, port |-> port]
Root(svc, num, port) == Path(<<>>, FALSE, svc, num, port)
Rule(host, paths) == [host |-> host, paths |-> paths]

Config(weight, total, header, value, pattern, cookie) ==
    [weight |-> weight, total |-> total, header |-> header, value |-> value,
     pattern |-> pattern, cookie |-> cookie]
NoConfig == Config(Unset, Unset, FALSE, FALSE, FALSE, FALSE)
NoMods == [request |-> <<>>, response |-> <<>>]

Ingress(canary, key, rules, cfg) ==
    [canary |-> canary, cls |-> "nginx", key |-> key, rules |-> rules, cfg |-> cfg, mods |-> NoMods]

\* Primaries: a named port, a path without service and header filters; three
\* hostnames, one of them shared and one a wildcard.
P1 == [Ingress(FALSE, TRUE,
         <<Rule(A, <<Root("s1", 0, "web"), Path(<<"a">>, TRUE, "s2", 80, ""),
                     Path(<<"r">>, FALSE, NoService, 0, "")>>)>>, NoConfig)
         EXCEPT !.mods.request = << <<"x", "1">>, Malformed, <<"x", "1">> >>]
P2 == Ingress(FALSE, TRUE,
        <<Rule(A, <<Root("s3", 80, "")>>), Rule(B, <<>>), Rule(W, <<Root("s3", 80, "")>>)>>, NoConfig)

\* Canaries: a plain header with a share; a pattern that is taken before the
\* value, a cookie and all the weight; a value on another path, and a share that
\* exceeds the total on the root.
C1 == Ingress(TRUE, FALSE, <<Rule(A, <<Root("c1", 0, "web")>>)>>,
        Config(20, Unset, TRUE, FALSE, FALSE, FALSE))
C2 == [C1 EXCEPT !.cfg = Config(10, 10, TRUE, TRUE, TRUE, TRUE)]
C3 == [C1 EXCEPT !.cfg = Config(11, 10, FALSE, FALSE, FALSE, FALSE)]
C4 == [C1 EXCEPT !.cfg = Config(Unset, Unset, TRUE, TRUE, FALSE, TRUE),
                 !.rules = <<Rule(A, <<Path(<<"a">>, FALSE, "c2", 81, "")>>)>>]

SomeContents == <<{P1, C4}, {P2, C1}, {C2, C3}>>
=============================================================================
