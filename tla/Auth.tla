-------------------------------- MODULE Auth --------------------------------
(***************************************************************************)
(* Authentication: AuthConfig::from_env picks one verifier from the        *)
(* environment, the verifier turns a bearer token into a principal, and    *)
(* RequireRole admits a request to an admin route; an agent's widget       *)
(* policy admits an embedding page.  All of it is a function of the        *)
(* environment and the request, so the module has no state.                *)
(***************************************************************************)
EXTENDS Naturals, Sequences

CONSTANTS
    Orgs,       \* organizations
    Users,      \* users (sub claims)
    DevOrg,     \* AUTH_DEV_ORG_ID
    DevUser,    \* the user of the development principal
    Nil         \* None

-----------------------------------------------------------------------------
(* Roles and principals *)

Roles == {"basic", "curator", "admin"}
RoleRank == [basic |-> 0, curator |-> 1, admin |-> 2]

\* What a role claim may say; "owner" stands for any other word.
RoleClaims == Roles \cup {"user", "owner"}

\* Role::parse.
ParseRole(claim) ==
    CASE claim = "user" -> "basic"
      [] claim \in Roles -> claim
      [] OTHER -> Nil

Principal(user, org, role) == [user |-> user, org |-> org, role |-> role]

-----------------------------------------------------------------------------
(* Tokens *)

\* A token: how it is encoded (signed with a key of either kind, the bare
\* base64url claims an upstream forwards, or neither), whether signature and
\* expiry hold, and the claims; iss and aud name what the server is configured
\* with ("own") or something else.
Token ==
    [form : {"rs256", "hs256", "claims", "garbage"}, valid : BOOLEAN,
     sub : Users, org : Orgs \cup {Nil}, org_id : Orgs \cup {Nil},
     role : RoleClaims \cup {Nil},
     iss : {"own", "other", Nil}, aud : {"own", "other", Nil}]

Grant(principal) == [principal |-> principal, error |-> Nil]
Refuse(error) == [principal |-> Nil, error |-> error]

\* Claims::org_id: org is preferred to org_id.
OrgClaim(t) == IF t.org # Nil THEN t.org ELSE t.org_id

\* Claims::into_principal.
IntoPrincipal(t) ==
    IF ParseRole(t.role) = Nil THEN Refuse("MissingRole")
    ELSE IF OrgClaim(t) = Nil THEN Refuse("InvalidToken")
    ELSE Grant(Principal(t.sub, OrgClaim(t), ParseRole(t.role)))

\* configure_validation: when an issuer (an audience) is configured, a token
\* that names another is refused; one that names none passes, as only exp and
\* sub are required claims.
Accepts(configured, claim) == configured => claim # "other"

\* JwtVerifier::decode_principal: one algorithm, one key.
DecodePrincipal(alg, config, t) ==
    IF /\ t.form = alg /\ t.valid
       /\ Accepts(config.issuer, t.iss) /\ Accepts(config.audience, t.aud)
    THEN IntoPrincipal(t) ELSE Refuse("InvalidToken")

\* TrustedIdentityVerifier::decode_trusted: neither signature nor expiry.
DecodeTrusted(t) ==
    IF t.form = "claims" THEN IntoPrincipal(t) ELSE Refuse("InvalidToken")

-----------------------------------------------------------------------------
(* The configured verifier *)

\* The variables from_env reads: AUTH_MODE ("bearer" stands for an unknown one),
\* the RS256 key, the HS256 secret, the issuer and the audience.
AuthEnv ==
    [mode : {"unset", "none", "trusted", "jwt", "smoo", "bearer"},
     rsa : {"absent", "pem", "malformed"}, secret : BOOLEAN, issuer : BOOLEAN,
     audience : BOOLEAN]

\* build_jwt, and the same choice in smoo mode: RS256 is preferred.
SigningKey(env) ==
    CASE env.rsa = "pem" -> "rs256"
      [] env.rsa = "malformed" -> "misconfigured"
      [] env.rsa = "absent" -> IF env.secret THEN "hs256" ELSE "misconfigured"

\* Mutant: a mode without a usable key falls back to no authentication.
FallBackToNone(env) ==
    IF env.mode \in {"none", "trusted"} THEN env.mode
    ELSE IF SigningKey(env) = "misconfigured" THEN "none" ELSE SigningKey(env)

\* AuthConfig::from_env: the verifier, or "misconfigured" and no server.
FromEnv(env) ==
    CASE env.mode \in {"none", "trusted"} -> env.mode
      [] env.mode = "jwt" -> SigningKey(env)
      [] env.mode = "unset" ->
            IF SigningKey(env) = "misconfigured" THEN "disabled" ELSE SigningKey(env)
      [] env.mode = "smoo" ->
            IF env.issuer THEN SigningKey(env) ELSE "misconfigured"
      [] OTHER -> "misconfigured"

\* AuthVerifier::verify of the verifier that was built in this environment.
Verify(env, t) ==
    LET verifier == FromEnv(env)
    IN CASE verifier = "none" -> Grant(Principal(DevUser, DevOrg, "admin"))
         [] verifier = "disabled" -> Refuse("InvalidToken")
         [] verifier = "trusted" -> DecodeTrusted(t)
         [] verifier \in {"rs256", "hs256"} -> DecodePrincipal(verifier, env, t)

\* RequireRole<MIN>: no bearer token, a refused one, or too low a role.
RequireRole(env, t, min) ==
    IF t = Nil THEN Refuse("Unauthenticated")
    ELSE LET result == Verify(env, t)
         IN IF result.error = Nil /\ RoleRank[result.principal.role] < min
            THEN Refuse("Forbidden") ELSE result

\* The identity a WebSocket connection or a Lambda turn acts under: whatever
\* goes wrong, it is anonymous (Nil).
ConnectAs(env, t) ==
    IF t = Nil THEN Nil ELSE Verify(env, t).principal

-----------------------------------------------------------------------------
(* Embedded widgets *)

\* An origin is a scheme and a host, the host its labels from the right
\* (<<"ai", "smoo", "app">>); a pattern also says whether it starts with "*.".
Origin(scheme, host) == [scheme |-> scheme, host |-> host]
Pattern(scheme, host, wild) == [scheme |-> scheme, host |-> host, wild |-> wild]
AnyOrigin == [any |-> TRUE]

\* The host is the suffix or a host below it.
Under(host, suffix) == Len(suffix) <= Len(host) /\ SubSeq(host, 1, Len(suffix)) = suffix

\* Mutant: a wildcard matches whatever the scheme.
MatchesAnyScheme(p, o) ==
    \/ p = AnyOrigin
    \/ /\ p # AnyOrigin /\ o # Nil
       /\ IF p.wild THEN Under(o.host, p.host)
          ELSE o.scheme = p.scheme /\ o.host = p.host

\* origin_matches; an origin that was not sent (Nil) matches "*" only.
OriginMatches(p, o) ==
    \/ p = AnyOrigin
    \/ /\ p # AnyOrigin /\ o # Nil
       /\ o.scheme = p.scheme
       /\ IF p.wild THEN Under(o.host, p.host) ELSE o.host = p.host

\* verify_auth_context_value: the fields are there, the time is near, and the
\* signature over user and time was made with the agent's key.
VerifyAuthContext(key, ctx, now, maxAge) ==
    /\ key # Nil /\ ctx.complete /\ ctx.key = key
    /\ now <= ctx.at + maxAge /\ ctx.at <= now + maxAge

\* enforce_widget_auth: the error, or Nil to go on.  No policy lets everybody
\* in unless the server is strict.
EnforceWidgetAuth(policy, strict, origin, ctx, now, maxAge) ==
    CASE policy = Nil -> IF strict THEN "AGENT_NOT_AUTHORIZED" ELSE Nil
      [] policy # Nil ->
            IF ~\E p \in policy.allowed : OriginMatches(p, origin) THEN "ORIGIN_NOT_ALLOWED"
            ELSE IF ctx # Nil /\ ~VerifyAuthContext(policy.key, ctx, now, maxAge)
            THEN "AUTH_CONTEXT_INVALID" ELSE Nil

-----------------------------------------------------------------------------
(* What the configuration is meant to grant *)

\* The authority the environment names vouches for the token: nobody needs to
\* in none mode, the upstream does in trusted mode, and else the key's owner,
\* for a token that names no issuer or audience but the configured ones.
Vouched(env, t) ==
    \/ env.mode = "none"
    \/ env.mode = "trusted" /\ t.form = "claims"
    \/ /\ env.mode \in {"unset", "jwt", "smoo"}
       /\ t.valid
       /\ \/ t.form = "rs256" /\ env.rsa = "pem"
          \/ t.form = "hs256" /\ env.rsa = "absent" /\ env.secret
       /\ env.mode = "smoo" => env.issuer
       /\ env.issuer => t.iss \in {"own", Nil}
       /\ env.audience => t.aud \in {"own", Nil}

\* The claims a principal is made of name its organization and role.
Claimed(t, p) ==
    /\ p.user = t.sub
    /\ p.org = IF t.org # Nil THEN t.org ELSE t.org_id
    /\ p.role = t.role \/ (p.role = "basic" /\ t.role = "user")
=============================================================================
