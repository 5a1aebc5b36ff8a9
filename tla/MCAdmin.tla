------------------------------ MODULE MCAdmin -------------------------------
(* Two organizations, one or two connectors, three conversations, all the  *)
(* environments and a token of every shape.                                *)
EXTENDS AdminApi, TLC

CONSTANTS o1, o2, u1, u2, dev, r1, r2, d1, d2, n1, s1, k1, k2, e1, e2,
          pv, pd, pc, po, hp, hi

AllEnvs == AuthEnv

\* Tokens with good claims in every encoding, and with one claim missing or
\* unusual; Nil is no token.
SomeTokens ==
    {Nil}
    \cup [form : {"hs256"}, valid : {TRUE}, sub : {u1}, org : Orgs, org_id : {Nil},
          role : {"basic", "admin"}, iss : {"own"}, aud : {"own"}]
    \cup [form : {"rs256", "claims", "garbage", "hs256"}, valid : BOOLEAN, sub : {u1},
          org : {o1}, org_id : {o2}, role : {"curator"}, iss : {"own"}, aud : {Nil}]
    \cup [form : {"hs256"}, valid : {TRUE}, sub : {u1}, org : {o1}, org_id : {Nil},
          role : {"curator"}, iss : {"own", "other"}, aud : {"own", "other"}]
    \cup [form : {"hs256"}, valid : {TRUE}, sub : {u2}, org : {Nil},
          org_id : {o1}, role : {"user", "owner", Nil}, iss : {Nil}, aud : {Nil}]
    \cup [form : {"claims"}, valid : {TRUE}, sub : {u2}, org : {Nil},
          org_id : {Nil}, role : {"admin"}, iss : {Nil}, aud : {Nil}]

\* An application below smoo.ai, the domain itself and another site.
SomeOrigins ==
    {Nil, Origin("https", <<"ai", "smoo", "app">>), Origin("https", <<"ai", "smoo">>),
     Origin("http", <<"ai", "smoo", "app">>), Origin("https", <<"ai", "other">>)}

SomePolicies ==
    {Nil} \cup [allowed : {{}, {AnyOrigin}, {Pattern("https", <<"ai", "smoo">>, TRUE)},
                 {Pattern("https", <<"ai", "smoo">>, FALSE), Pattern("https", <<"ai", "other">>, FALSE)}},
                key : {Nil, k1}]

\* A vendored markdown file, a page of the docs, a source file and an image.
SomeShapes ==
    (pv :> [skip |-> TRUE, prose |-> TRUE, code |-> FALSE, text |-> TRUE]) @@
    (pd :> [skip |-> FALSE, prose |-> TRUE, code |-> FALSE, text |-> TRUE]) @@
    (pc :> [skip |-> FALSE, prose |-> FALSE, code |-> TRUE, text |-> FALSE]) @@
    (po :> [skip |-> FALSE, prose |-> FALSE, code |-> FALSE, text |-> FALSE])

SomeTrees == {t \in [Paths -> Contents \ {"newer text"}] :
    t[pv] = "text" /\ t[po] = "bytes" /\ t[pc] = "text"}

AdminSymmetry == Permutations(Ids) \cup Permutations(Requests)
=============================================================================
