--------------------------- MODULE MCFalconBridge ---------------------------
EXTENDS FalconBridge

V4(a, b) == [form |-> "v4", bytes |-> <<a, b>>]
Mapped(a, b) == [form |-> "mapped", bytes |-> <<a, b>>]
V6(a, b, c, d) == [form |-> "v6", bytes |-> <<a, b, c, d>>]
Cidr(text, n) == [addr |-> text, mask |-> n]

\* No list, every length of prefix around a byte boundary, both families, two ranges.
Lists ==
  {<<>>, <<Cidr(Mapped(2, 1), 7), Cidr(V4(0, 0), 3)>>, <<Cidr(V4(1, 0), 5)>>}
    \cup {<<Cidr(V4(2, 3), n)>> : n \in {-1, 0, 1, 3}} \cup {<<Cidr(V6(0, 3, 3, 2), n)>> : n \in {3, 7}}

\* A deployment without CORS, with HSTS; and the ways in which security.mjs is set.
NoCors == [hsts |-> "on", origins |-> <<>>, credentials |-> FALSE]
Web    == [hsts : {"on", "off", "bad"}, credentials : BOOLEAN,
           origins : {<<"*">>, <<"https://a", "https://b">>, <<"https://a", "*">>, <<"malformed">>}]
Join(e, f) == [x \in DOMAIN e \cup DOMAIN f |-> IF x \in DOMAIN e THEN e[x] ELSE f[x]]

AnyEnv == [anon : BOOLEAN, token : {"", "short", "secret"},
           hash : {NoHash, <<"malformed">>, HashOf("other")},
           cidrs : Lists, cli : {[path |-> "falcon"]}]
Open   == [anon : {TRUE}, token : {""}, hash : {NoHash}, cidrs : {<<>>},
           cli : {<<>>, [debug |-> "other", path |-> "falcon"], [override |-> "falcon"],
                  [release |-> "plain"]}]
MCEnvs ==
  {Join(e, NoCors) : e \in Open
     \cup {a \in AnyEnv : LoadAdminConfig(a).mode # "refused" \/ Len(a.cidrs) = 2}}
    \cup {Join(e, w) : e \in {o \in Open : o.cli = <<>>}, w \in Web}

Addresses == {V4(a, b) : a \in {0, 2, 3}, b \in 0..3}
               \cup {Mapped(2, 3), V6(0, 3, 3, 1), V6(0, 3, 2, 0), [form |-> "other", bytes |-> <<>>]}
SignRequests ==
  [route : {"falcon"}, socket : Addresses, xff : {<<>>}, bearer : {"", "secret", "other"},
   origin : {""}]
    \cup [route : {"falcon"}, socket : {V4(2, 3)}, xff : {<<V4(0, 0)>>, <<V4(0, 0), V4(2, 2)>>},
          bearer : {"secret"}, origin : {""}]
    \cup [route : {"options", "unknown"}, socket : {V4(2, 3)}, xff : {<<>>}, bearer : {""},
          origin : {"https://b", "https://c"}]
MCRequests ==
  [c \in Call |-> IF c \in Sign THEN SignRequests
                  ELSE [route : {"falcon"}, socket : {V4(2, 3)}, xff : {<<>>}, bearer : {""},
                        origin : {""}]]
===============================================================================
