--------------------------- MODULE AdminApi_proofs ---------------------------
(***************************************************************************)
(* What holds of the gates, connectors, settings and embeds of the server  *)
(* for any number of organizations, requests, documents and consoles.      *)
(***************************************************************************)
EXTENDS AdminApi, SequenceTheorems, FiniteSetTheorems, WellFoundedInduction, TLAPS

(* The gate *)

\* None differs from every refusal.
LEMMA Refusals ==
    /\ \A error : Refuse(error) = [principal |-> Nil, error |-> error]
    /\ \A p : Grant(p) = [principal |-> p, error |-> Nil]
    /\ "none" # Nil /\ "anonymous" # Nil /\ "Unauthenticated" # Nil /\ "InvalidToken" # Nil
    /\ "MissingRole" # Nil /\ "Forbidden" # Nil
  BY NilAssumption DEF Refuse, Grant

\* Claims become a principal only if they name a role and an organization.
LEMMA ClaimsName ==
    ASSUME NEW t \in Token, NEW p, IntoPrincipal(t) = Grant(p)
    PROVE  /\ p \in [user : Users, org : Orgs, role : Roles]
           /\ Claimed(t, p)
<1>1. ParseRole(t.role) # Nil /\ OrgClaim(t) # Nil
  BY Refusals DEF IntoPrincipal
<1>2. p = Principal(t.sub, OrgClaim(t), ParseRole(t.role))
  BY <1>1, Refusals DEF IntoPrincipal
<1>3. t.sub \in Users /\ OrgClaim(t) \in Orgs
  BY <1>1 DEF Token, OrgClaim
<1>4. /\ ParseRole(t.role) \in Roles
      /\ ParseRole(t.role) = t.role \/ (ParseRole(t.role) = "basic" /\ t.role = "user")
  <2>1. CASE t.role = "user"
    BY <2>1 DEF ParseRole, Roles
  <2>2. CASE t.role # "user" /\ t.role \in Roles
    BY <2>2 DEF ParseRole
  <2>3. CASE t.role # "user" /\ t.role \notin Roles
    BY <1>1, <2>3 DEF ParseRole
  <2> QED
    BY <2>1, <2>2, <2>3
<1> QED
  BY <1>2, <1>3, <1>4 DEF Principal, Claimed, OrgClaim

\* A claim set is refused or granted, never both.
LEMMA PrincipalOrError ==
    ASSUME NEW t
    PROVE  IntoPrincipal(t).error # Nil \/ \E p : IntoPrincipal(t) = Grant(p)
  BY Refusals DEF IntoPrincipal

\* The verifier that from_env built, and what it was built from.
LEMMA VerifierOf ==
    ASSUME NEW en \in AuthEnv, FromEnv(en) # "misconfigured"
    PROVE  \/ FromEnv(en) = "none" /\ en.mode = "none"
           \/ FromEnv(en) = "disabled"
           \/ FromEnv(en) = "trusted" /\ en.mode = "trusted"
           \/ /\ FromEnv(en) \in {"rs256", "hs256"}
              /\ en.mode \in {"unset", "jwt", "smoo"}
              /\ en.mode = "smoo" => en.issuer
              /\ FromEnv(en) = "rs256" => en.rsa = "pem"
              /\ FromEnv(en) = "hs256" => en.rsa = "absent" /\ en.secret
<1>0. /\ en.mode \in {"unset", "none", "trusted", "jwt", "smoo", "bearer"}
      /\ en.rsa \in {"absent", "pem", "malformed"}
  BY DEF AuthEnv
<1>1. /\ SigningKey(en) \in {"rs256", "hs256", "misconfigured"}
      /\ SigningKey(en) = "rs256" => en.rsa = "pem"
      /\ SigningKey(en) = "hs256" => en.rsa = "absent" /\ en.secret
  <2>1. CASE en.rsa = "pem"
    BY <2>1 DEF SigningKey
  <2>2. CASE en.rsa = "malformed"
    BY <2>2 DEF SigningKey
  <2>3. CASE en.rsa = "absent"
    BY <2>3 DEF SigningKey
  <2> QED
    BY <1>0, <2>1, <2>2, <2>3
<1>2. CASE en.mode \in {"none", "trusted"}
  BY <1>2 DEF FromEnv
<1>3. CASE en.mode = "jwt"
  BY <1>1, <1>3 DEF FromEnv
<1>4. CASE en.mode = "unset"
  BY <1>1, <1>4 DEF FromEnv
<1>5. CASE en.mode = "smoo"
  BY <1>1, <1>5 DEF FromEnv
<1>6. CASE en.mode = "bearer"
  BY <1>6 DEF FromEnv
<1> QED
  BY <1>0, <1>2, <1>3, <1>4, <1>5, <1>6

\* A verifier that grants does so on the word of the configured authority, as
\* the principal that the claims name.
LEMMA GrantIsVouched ==
    ASSUME NEW en \in AuthEnv, FromEnv(en) # "misconfigured", NEW t \in Token,
           Verify(en, t).error = Nil \/ Verify(en, t).principal # Nil
    PROVE  /\ Verify(en, t).error = Nil
           /\ Vouched(en, t)
           /\ Verify(en, t).principal.role \in Roles
           /\ en.mode # "none" =>
                /\ Claimed(t, Verify(en, t).principal)
                /\ Verify(en, t).principal \in [user : Users, org : Orgs, role : Roles]
<1> DEFINE v == FromEnv(en)
           result == Verify(en, t)
<1>0. /\ \A error : error # Nil => ~(Refuse(error).error = Nil \/ Refuse(error).principal # Nil)
      /\ \A p : Grant(p).error = Nil /\ Grant(p).principal = p
  BY Refusals
<1>1. ASSUME result = IntoPrincipal(t), Vouched(en, t)
      PROVE  /\ result.error = Nil
             /\ Vouched(en, t)
             /\ result.principal.role \in Roles
             /\ Claimed(t, result.principal)
             /\ result.principal \in [user : Users, org : Orgs, role : Roles]
  <2>1. result \in {Refuse("MissingRole"), Refuse("InvalidToken")} \/ \E p : result = Grant(p)
    BY <1>1 DEF IntoPrincipal
  <2>2. PICK p : result = Grant(p)
    BY <1>0, <2>1, Refusals
  <2>3. /\ p \in [user : Users, org : Orgs, role : Roles]
        /\ Claimed(t, p)
    BY <1>1, <2>2, ClaimsName
  <2>4. result.error = Nil /\ result.principal = p
    BY <1>0, <2>2
  <2>5. p.role \in Roles
    BY <2>3
  <2> HIDE DEF result
  <2> QED
    BY <1>1, <2>3, <2>4, <2>5
<1>2. CASE v = "none" /\ en.mode = "none"
  <2>1. result = Grant(Principal(DevUser, DevOrg, "admin"))
    BY <1>2 DEF Verify
  <2> QED
    BY <1>0, <1>2, <2>1 DEF Vouched, Principal, Roles
<1>3. CASE v = "disabled"
  <2>1. result = Refuse("InvalidToken")
    BY <1>3 DEF Verify
  <2> QED
    BY <1>0, <2>1, Refusals
<1>4. CASE v = "trusted" /\ en.mode = "trusted"
  <2>1. result = DecodeTrusted(t)
    BY <1>4 DEF Verify
  <2>2. t.form = "claims"
    BY <1>0, <2>1, Refusals DEF DecodeTrusted
  <2> QED
    BY <1>1, <1>4, <2>1, <2>2 DEF DecodeTrusted, Vouched
<1>5. CASE /\ v \in {"rs256", "hs256"}
           /\ en.mode \in {"unset", "jwt", "smoo"}
           /\ en.mode = "smoo" => en.issuer
           /\ v = "rs256" => en.rsa = "pem"
           /\ v = "hs256" => en.rsa = "absent" /\ en.secret
  <2>1. result = DecodePrincipal(v, en, t)
    BY <1>5 DEF Verify
  <2>2. /\ t.form = v /\ t.valid
        /\ Accepts(en.issuer, t.iss) /\ Accepts(en.audience, t.aud)
    BY <1>0, <2>1, Refusals DEF DecodePrincipal
  <2>3. /\ en.issuer => t.iss \in {"own", Nil}
        /\ en.audience => t.aud \in {"own", Nil}
    BY <2>2 DEF Accepts, Token
  <2> QED
    BY <1>1, <1>5, <2>1, <2>2, <2>3 DEF DecodePrincipal, Vouched
<1> QED
  BY <1>2, <1>3, <1>4, <1>5, VerifierOf

\* The server was started: its environment configures a verifier, and every
\* part but the gate has the standard one.
Started ==
    /\ env \in AuthEnv /\ FromEnv(env) # "misconfigured"
    /\ part # "gate" => env = StandardEnv

\* The environment is fixed at the start.
LEMMA StaysStarted == Spec => []Started
<1>1. Init => Started
  <2> SUFFICES ASSUME Init PROVE Started
    OBVIOUS
  <2>1. StandardEnv \in AuthEnv
    BY DEF StandardEnv, AuthEnv
  <2> QED
    BY <2>1, AdminAssumption DEF Init, Started
<1>2. Started /\ [Next]_vars => Started'
  BY DEF Started, Next, vars
<1> QED
  BY <1>1, <1>2, PTL DEF Spec

\* In every environment a route admits a request, and a connection gets an
\* identity, only on the word of the configured authority.
THEOREM GrantsStayVouched == Spec => []GrantsAreVouched
<1>1. Init => GrantsAreVouched
  BY Refusals DEF Init, GrantsAreVouched
<1>2. ASSUME Started, GateNext, env' = env
      PROVE  GrantsAreVouched'
  <2>0. env \in AuthEnv /\ FromEnv(env) # "misconfigured" /\ \A t \in Tokens : t = Nil \/ t \in Token
    BY <1>2, AdminAssumption DEF Started
  <2>1. ASSUME NEW t \in Tokens, NEW min \in 0..2, NEW result,
               answer' = [token |-> t, min |-> min, result |-> result],
               result.error = Nil => /\ t # Nil /\ Vouched(env, t)
                                     /\ env.mode # "none" => Claimed(t, result.principal)
                                     /\ RoleRank[result.principal.role] >= min
        PROVE  GrantsAreVouched'
    <3>1. answer'.token = t /\ answer'.min = min /\ answer'.result = result
      BY <2>1
    <3> QED
      BY <1>2, <2>1, <3>1 DEF GrantsAreVouched
  <2>2. \A role \in Roles : RoleRank[role] \in 0..2
    BY DEF Roles, RoleRank
  <2>3. ASSUME NEW t \in Tokens, Connect(t)
        PROVE  GrantsAreVouched'
    <3> DEFINE p == ConnectAs(env, t)
               result == IF p = Nil THEN Refuse("anonymous") ELSE Grant(p)
    <3>1. answer' = [token |-> t, min |-> 0, result |-> result]
      BY <2>3 DEF Connect
    <3>2. result.error = Nil => p # Nil /\ result.principal = p
      BY Refusals
    <3>3. ASSUME p # Nil
          PROVE  /\ t # Nil /\ Vouched(env, t)
                 /\ env.mode # "none" => Claimed(t, p)
                 /\ RoleRank[p.role] >= 0
      <4>1. t # Nil /\ t \in Token /\ p = Verify(env, t).principal
        BY <2>0, <3>3 DEF ConnectAs
      <4> QED
        BY <2>0, <2>2, <3>3, <4>1, GrantIsVouched
    <3> HIDE DEF p, result
    <3> QED
      BY <2>1, <3>1, <3>2, <3>3
  <2>4. ASSUME NEW t \in Tokens, NEW min \in 0..2, Gate(t, min)
        PROVE  GrantsAreVouched'
    <3> DEFINE result == RequireRole(env, t, min)
               verified == Verify(env, t)
    <3>1. answer' = [token |-> t, min |-> min, result |-> result]
      BY <2>4 DEF Gate
    <3>2. ASSUME result.error = Nil
          PROVE  /\ t # Nil /\ Vouched(env, t)
                 /\ env.mode # "none" => Claimed(t, result.principal)
                 /\ RoleRank[result.principal.role] >= min
      <4>1. t # Nil /\ t \in Token
        BY <2>0, <3>2, Refusals DEF RequireRole
      <4>2. result = IF verified.error = Nil /\ RoleRank[verified.principal.role] < min
                     THEN Refuse("Forbidden") ELSE verified
        BY <4>1 DEF RequireRole
      <4>3. result = verified /\ verified.error = Nil /\ ~(RoleRank[verified.principal.role] < min)
        BY <3>2, <4>2, Refusals
      <4>4. /\ Vouched(env, t) /\ verified.principal.role \in Roles
            /\ env.mode # "none" => Claimed(t, verified.principal)
        BY <2>0, <4>1, <4>3, GrantIsVouched
      <4>5. RoleRank[verified.principal.role] >= min
        BY <2>2, <4>3, <4>4
      <4> QED
        BY <4>1, <4>3, <4>4, <4>5
    <3> HIDE DEF result
    <3> QED
      BY <2>1, <3>1, <3>2
  <2> QED
    BY <1>2, <2>3, <2>4 DEF GateNext
<1>3. Started /\ GrantsAreVouched /\ [Next]_vars => GrantsAreVouched'
  <2> SUFFICES ASSUME Started, GrantsAreVouched, [Next]_vars PROVE GrantsAreVouched'
    OBVIOUS
  <2>1. (answer' = answer /\ env' = env) \/ (GateNext /\ env' = env)
    BY DEF Next, vars, gateVars
  <2>2. CASE answer' = answer /\ env' = env
    BY <2>2 DEF GrantsAreVouched
  <2> QED
    BY <1>2, <2>1, <2>2
<1> QED
  BY <1>1, <1>3, StaysStarted, PTL DEF Spec

-----------------------------------------------------------------------------
(* Embedded widgets *)

\* What a pattern that matches says of the origin.
LEMMA MatchIsNamed ==
    ASSUME NEW policy \in Policies, policy # Nil, NEW p \in policy.allowed, NEW o \in Origins,
           OriginMatches(p, o)
    PROVE  \/ AnyOrigin \in policy.allowed
           \/ /\ o # Nil
              /\ \E n \in 1 .. Len(o.host), wild \in BOOLEAN :
                   /\ wild \/ n = Len(o.host)
                   /\ Pattern(o.scheme, SubSeq(o.host, 1, n), wild) \in policy.allowed
<1> SUFFICES ASSUME p # AnyOrigin
             PROVE  /\ o # Nil
                    /\ \E n \in 1 .. Len(o.host), wild \in BOOLEAN :
                         /\ wild \/ n = Len(o.host)
                         /\ Pattern(o.scheme, SubSeq(o.host, 1, n), wild) \in policy.allowed
  OBVIOUS
<1>1. /\ p = Pattern(p.scheme, p.host, p.wild) /\ p.wild \in BOOLEAN
      /\ p.host \in Seq(STRING) /\ p.host # <<>>
  BY PolicyAssumption
<1>2. Len(p.host) \in Nat /\ Len(p.host) # 0
  BY <1>1, EmptySeq
<1>3. o # Nil /\ o.scheme = p.scheme
  BY DEF OriginMatches
<1>4. CASE p.wild
  <2>1. Len(p.host) <= Len(o.host) /\ SubSeq(o.host, 1, Len(p.host)) = p.host
    BY <1>4 DEF OriginMatches, Under
  <2>2. o.host \in Seq(STRING)
    BY <1>3, OriginAssumption
  <2>3. Len(p.host) \in 1 .. Len(o.host)
    BY <1>2, <2>1, <2>2, LenProperties
  <2> QED
    BY <1>1, <1>3, <1>4, <2>1, <2>3
<1>5. CASE ~p.wild
  <2>1. o.host = p.host
    BY <1>5 DEF OriginMatches
  <2>2. Len(o.host) \in 1 .. Len(o.host) /\ SubSeq(o.host, 1, Len(o.host)) = p.host
    BY <1>1, <1>2, <2>1, SubSeqFull
  <2> QED
    BY <1>1, <1>3, <1>5, <2>2
<1> QED
  BY <1>4, <1>5

\* The policy and the clock are what the host application and time make them.
EmbedShape ==
    /\ embed = [policy |-> embed.policy, now |-> embed.now, asked |-> embed.asked]
    /\ embed.policy \in Policies \cup {Nil} /\ embed.now \in Nat

\* Whatever policies an agent is given and whenever a page asks, it gets a
\* session only from an origin the policy names and with an authContext of the
\* agent's key and near its time.
THEOREM EmbedsStayAllowed == Spec => []EmbedsAreAllowed
<1>1. Init => EmbedShape /\ EmbedsAreAllowed
  BY DEF Init, EmbedShape, EmbedsAreAllowed
<1>2. ASSUME EmbedShape, NEW origin \in Origins, NEW ctx \in Contexts \cup {Nil},
             NEW strict \in BOOLEAN, Embed(origin, ctx, strict)
      PROVE  EmbedShape' /\ EmbedsAreAllowed'
  <2> DEFINE policy == embed.policy
             error == EnforceWidgetAuth(policy, strict, origin, ctx, embed.now, MaxAge)
             asked == [origin |-> origin, ctx |-> ctx, strict |-> strict, error |-> error]
  <2>1. /\ embed' = [embed EXCEPT !.asked = asked]
        /\ embed = [policy |-> policy, now |-> embed.now, asked |-> embed.asked]
    BY <1>2 DEF Embed, EmbedShape
  <2>2. embed' = [policy |-> policy, now |-> embed.now, asked |-> asked]
    BY <2>1
  <2>3. EmbedShape'
    BY <1>2, <2>2 DEF EmbedShape
  <2>4. ASSUME error = Nil, policy = Nil
        PROVE  ~strict
    BY <2>4, NilAssumption DEF EnforceWidgetAuth
  <2>5. ASSUME error = Nil, policy # Nil
        PROVE  /\ \E p \in policy.allowed : OriginMatches(p, origin)
               /\ ctx # Nil => VerifyAuthContext(policy.key, ctx, embed.now, MaxAge)
    BY <2>5, NilAssumption DEF EnforceWidgetAuth
  <2>6. ASSUME error = Nil, policy # Nil, ctx # Nil
        PROVE  /\ ctx.complete /\ ctx.key = policy.key
               /\ embed.now - ctx.at \in -MaxAge .. MaxAge
    <3>1. VerifyAuthContext(policy.key, ctx, embed.now, MaxAge)
      BY <2>5, <2>6
    <3>2. ctx.at \in Nat /\ embed.now \in Nat /\ MaxAge \in Nat
      BY <1>2, <2>6, AdminAssumption DEF Contexts, EmbedShape
    <3> QED
      BY <3>1, <3>2 DEF VerifyAuthContext
  <2>7. policy \in Policies \cup {Nil}
    BY <1>2 DEF EmbedShape
  <2> HIDE DEF policy, error
  <2>8. /\ embed'.policy = policy /\ embed'.now = embed.now /\ embed'.asked.origin = origin
        /\ embed'.asked.ctx = ctx /\ embed'.asked.strict = strict /\ embed'.asked.error = error
    BY <2>2
  <2>9. ASSUME error = Nil
        PROVE  IF policy = Nil THEN ~strict
               ELSE /\ \/ AnyOrigin \in policy.allowed
                       \/ /\ origin # Nil
                          /\ \E n \in 1 .. Len(origin.host), wild \in BOOLEAN :
                               /\ wild \/ n = Len(origin.host)
                               /\ Pattern(origin.scheme, SubSeq(origin.host, 1, n), wild)
                                    \in policy.allowed
                    /\ ctx # Nil => /\ ctx.complete /\ ctx.key = policy.key
                                    /\ embed.now - ctx.at \in -MaxAge .. MaxAge
    <3>1. CASE policy = Nil
      BY <2>4, <2>9, <3>1
    <3>2. CASE policy # Nil
      <4>1. PICK p \in policy.allowed : OriginMatches(p, origin)
        BY <2>5, <2>9, <3>2
      <4>2. \/ AnyOrigin \in policy.allowed
            \/ /\ origin # Nil
               /\ \E n \in 1 .. Len(origin.host), wild \in BOOLEAN :
                    /\ wild \/ n = Len(origin.host)
                    /\ Pattern(origin.scheme, SubSeq(origin.host, 1, n), wild) \in policy.allowed
        BY <2>7, <3>2, <4>1, MatchIsNamed
      <4> QED
        BY <2>6, <2>9, <3>2, <4>2
    <3> QED
      BY <3>1, <3>2
  <2> QED
    BY <2>3, <2>8, <2>9 DEF EmbedsAreAllowed
<1>3. ASSUME EmbedShape, EmbedsAreAllowed, [Next]_vars
      PROVE  EmbedShape' /\ EmbedsAreAllowed'
  <2>1. CASE embed' = embed
    BY <1>3, <2>1 DEF EmbedShape, EmbedsAreAllowed
  <2>2. CASE EmbedNext
    <3>1. ASSUME NEW policy \in Policies, SetPolicy(policy), embed.asked = Nil
          PROVE  EmbedShape' /\ EmbedsAreAllowed'
      BY <1>3, <3>1 DEF SetPolicy, EmbedShape, EmbedsAreAllowed
    <3>2. ASSUME Tick, embed.asked = Nil
          PROVE  EmbedShape' /\ EmbedsAreAllowed'
      BY <1>3, <3>2 DEF Tick, EmbedShape, EmbedsAreAllowed
    <3> QED
      BY <1>2, <1>3, <2>2, <3>1, <3>2 DEF EmbedNext
  <2> QED
    BY <1>3, <2>1, <2>2 DEF Next, vars
<1> QED
  BY <1>1, <1>3, PTL DEF Spec

-----------------------------------------------------------------------------
(* Agent settings *)

\* Outside the gate part, whom a route admits is of a known organization.
LEMMA AdmittedHaveOrgs ==
    ASSUME Started, part # "gate", NEW min \in 0..2, NEW p \in Admitted(min)
    PROVE  p \in [user : Users, org : Orgs, role : Roles]
<1>1. /\ env \in AuthEnv /\ FromEnv(env) # "misconfigured" /\ env.mode # "none"
      /\ \A t \in Tokens : t = Nil \/ t \in Token
  BY AdminAssumption DEF Started, StandardEnv
<1>2. PICK t \in Tokens : p = RequireRole(env, t, min).principal /\ p # Nil
  BY DEF Admitted
<1> DEFINE verified == Verify(env, t)
<1>3. t # Nil /\ t \in Token
  BY <1>1, <1>2, Refusals DEF RequireRole
<1>4. p = (IF verified.error = Nil /\ RoleRank[verified.principal.role] < min
           THEN Refuse("Forbidden") ELSE verified).principal
  BY <1>2, <1>3 DEF RequireRole
<1>5. p = verified.principal
  BY <1>2, <1>4, Refusals
<1> QED
  BY <1>1, <1>2, <1>3, <1>5, GrantIsVouched

\* A form that was filled for an organization.
FormRow == [org : Orgs, shown : Settings, fresh : BOOLEAN, sure : BOOLEAN]

\* A console's form is empty or filled for an organization; while it is fresh,
\* it shows what is stored if it was filled from a settled row.
FormInv ==
    /\ settings \in [Orgs -> Settings \cup {Nil}]
    /\ settled \in [Orgs -> Settings \cup {Nil}]
    /\ saves \in 0 .. MaxSaves
    /\ form \in [Editors -> {NoForm} \cup FormRow]
    /\ \A e \in Editors : form[e].org # Nil /\ form[e].fresh /\ form[e].sure =>
         form[e].shown = StoredRow(settings, form[e].org)

\* A save stores one edited field and leaves every form but the organization's
\* own ones fresh.
LEMMA SaveStoresOneField ==
    ASSUME FormInv, NEW e \in Editors, NEW p \in [user : Users, org : Orgs, role : Roles],
           NEW field \in {"model", "prompt"}, SaveForm(e, p, field)
    PROVE  /\ FormInv'
           /\ form[e].fresh /\ form[e].sure =>
                \/ StoredRow(settings, p.org).model = StoredRow(settings', p.org).model
                \/ StoredRow(settings, p.org).prompt = StoredRow(settings', p.org).prompt
           /\ \A f \in Editors \ {e} : form[f].org # Nil => form'[f].org # Nil
<1> DEFINE o == p.org
           row == [form[e].shown EXCEPT ![field] = saves + 1]
<1>0. NoForm.org = Nil /\ Nil \notin Orgs /\ Nil \notin Settings
  BY NilAssumption DEF NoForm
<1>1. o \in Orgs /\ form[e] \in FormRow /\ form[e].org = o
  BY <1>0 DEF FormInv, SaveForm, FormRow
<1>2. saves' \in 0 .. MaxSaves /\ saves + 1 \in 0 .. MaxSaves
  BY AdminAssumption DEF FormInv, SaveForm
<1>3. /\ row \in Settings
      /\ row.model = form[e].shown.model \/ row.prompt = form[e].shown.prompt
  BY <1>1, <1>2 DEF Settings, FormRow
<1>4. /\ settings' = settings \/ settings' = [settings EXCEPT ![o] = row]
      /\ settled' = settled
  BY DEF SaveForm
<1> HIDE DEF o, row
<1>5. settings' \in [Orgs -> Settings \cup {Nil}]
  BY <1>1, <1>3, <1>4 DEF FormInv
<1>6. \A q \in Orgs \ {o} : StoredRow(settings', q) = StoredRow(settings, q)
  BY <1>1, <1>4 DEF FormInv, StoredRow
<1>7. /\ form'[e] = NoForm
      /\ \A f \in Editors \ {e} :
           form'[f] = [form[f] EXCEPT !.fresh = @ /\ form[f].org # o]
  BY DEF SaveForm, o
<1>8. ASSUME NEW f \in Editors \ {e}
      PROVE  /\ form'[f] \in {NoForm} \cup FormRow
             /\ form'[f].org = form[f].org /\ form'[f].shown = form[f].shown
             /\ form'[f].fresh => form[f].fresh /\ form[f].org # o
             /\ form'[f].sure = form[f].sure
  <2>1. CASE form[f] = NoForm
    <3>1. form'[f] = [NoForm EXCEPT !.fresh = NoForm.fresh /\ NoForm.org # o]
      BY <1>7, <2>1
    <3>2. form'[f] = NoForm /\ ~NoForm.fresh
      BY <3>1 DEF NoForm
    <3> QED
      BY <2>1, <3>2
  <2>2. CASE form[f] \in FormRow
    <3>1. form[f] = [org |-> form[f].org, shown |-> form[f].shown, fresh |-> form[f].fresh,
                     sure |-> form[f].sure]
      BY <2>2 DEF FormRow
    <3>2. form'[f] = [org |-> form[f].org, shown |-> form[f].shown,
                      fresh |-> form[f].fresh /\ form[f].org # o, sure |-> form[f].sure]
      BY <1>7, <2>2, <3>1
    <3>3. /\ form'[f].org = form[f].org /\ form'[f].shown = form[f].shown
          /\ form'[f].fresh = (form[f].fresh /\ form[f].org # o)
          /\ form'[f].sure = form[f].sure
      BY <3>2
    <3>4. (form[f].fresh /\ form[f].org # o) \in BOOLEAN
      BY <2>2 DEF FormRow
    <3>5. form'[f] \in FormRow
      BY <2>2, <3>2, <3>4 DEF FormRow
    <3> QED
      BY <3>3, <3>5
  <2> QED
    BY <2>1, <2>2 DEF FormInv
<1>9. form' \in [Editors -> {NoForm} \cup FormRow]
  <2>1. DOMAIN form' = Editors /\ form' = [f \in Editors |-> form'[f]]
    BY DEF SaveForm
  <2> QED
    BY <1>7, <1>8, <2>1
<1>10. ASSUME NEW f \in Editors, form'[f].org # Nil, form'[f].fresh, form'[f].sure
       PROVE  form'[f].shown = StoredRow(settings', form'[f].org)
  <2>1. f # e
    BY <1>0, <1>7, <1>10
  <2>2. /\ form[f].org # Nil /\ form[f].fresh /\ form[f].sure /\ form[f].org # o
        /\ form'[f].org = form[f].org /\ form'[f].shown = form[f].shown
    BY <1>8, <1>10, <2>1
  <2>3. form[f].shown = StoredRow(settings, form[f].org) /\ form[f].org \in Orgs
    BY <2>2, <1>0 DEF FormInv, FormRow
  <2> QED
    BY <1>6, <2>2, <2>3
<1>11. ASSUME form[e].fresh, form[e].sure
       PROVE  \/ StoredRow(settings, o).model = StoredRow(settings', o).model
              \/ StoredRow(settings, o).prompt = StoredRow(settings', o).prompt
  <2>1. StoredRow(settings, o) = form[e].shown
    BY <1>0, <1>1, <1>11 DEF FormInv
  <2>2. CASE settings' = settings
    BY <2>2
  <2>3. CASE settings' = [settings EXCEPT ![o] = row]
    <3>1. settings'[o] = row /\ row # Nil
      BY <1>0, <1>1, <1>3, <2>3 DEF FormInv
    <3>2. StoredRow(settings', o) = row
      BY <3>1 DEF StoredRow
    <3> QED
      BY <1>3, <2>1, <3>2
  <2> QED
    BY <1>4, <2>2, <2>3
<1> QED
  BY <1>2, <1>4, <1>5, <1>8, <1>9, <1>10, <1>11 DEF FormInv, o

\* Opening a form fills it with what is stored, unless the read fails or finds
\* a row that has not settled.
LEMMA OpenFillsForm ==
    ASSUME FormInv, NEW e \in Editors, NEW p \in [user : Users, org : Orgs, role : Roles],
           OpenForm(e, p)
    PROVE  /\ FormInv'
           /\ \A f \in Editors : form[f].org # Nil => form'[f] # NoForm
<1>0. NoForm.org = Nil /\ Nil \notin Orgs
  BY NilAssumption DEF NoForm
<1>1. PICK failed \in BOOLEAN, row \in RowsRead(p.org) :
         form' = [form EXCEPT ![e] =
            [org |-> p.org, shown |-> StoredSettings(row, failed), fresh |-> TRUE,
             sure |-> ~failed /\ RowIsSettled(p.org)]]
  BY DEF OpenForm, Swallowed
<1>2. UNCHANGED <<settings, settled, saves>> /\ p.org \in Orgs
  BY DEF OpenForm
<1> DEFINE shown == StoredSettings(row, failed)
           sure == ~failed /\ RowIsSettled(p.org)
<1>3. row \in Settings \cup {Nil} /\ (RowIsSettled(p.org) => row = settings[p.org])
  BY <1>2 DEF RowsRead, RowIsSettled, FormInv
<1>4. shown \in Settings /\ (sure => shown = StoredRow(settings, p.org)) /\ sure \in BOOLEAN
  <2>1. DefaultSettings \in Settings
    BY AdminAssumption DEF DefaultSettings, Settings
  <2>2. RowIsSettled(p.org) \in BOOLEAN
    BY DEF RowIsSettled
  <2> QED
    BY <1>2, <1>3, <2>1, <2>2 DEF StoredSettings, StoredRow
<1>5. form' = [form EXCEPT ![e] = [org |-> p.org, shown |-> shown, fresh |-> TRUE, sure |-> sure]]
  BY <1>1
<1> HIDE DEF shown, sure
<1>6. /\ form'[e] = [org |-> p.org, shown |-> shown, fresh |-> TRUE, sure |-> sure]
      /\ form'[e] \in FormRow
      /\ \A f \in Editors \ {e} : form'[f] = form[f]
      /\ form' \in [Editors -> {NoForm} \cup FormRow]
  <2>1. [org |-> p.org, shown |-> shown, fresh |-> TRUE, sure |-> sure] \in FormRow
    BY <1>2, <1>4 DEF FormRow
  <2> QED
    BY <1>5, <2>1 DEF FormInv
<1>7. ASSUME NEW f \in Editors, form'[f].org # Nil, form'[f].fresh, form'[f].sure
      PROVE  form'[f].shown = StoredRow(settings', form'[f].org)
  <2>1. CASE f = e
    BY <1>2, <1>4, <1>6, <1>7, <2>1
  <2>2. CASE f # e
    BY <1>2, <1>6, <1>7, <2>2 DEF FormInv
  <2> QED
    BY <2>1, <2>2
<1>8. \A f \in Editors : form[f].org # Nil => form'[f] # NoForm
  BY <1>0, <1>2, <1>6
<1> QED
  BY <1>2, <1>6, <1>7, <1>8 DEF FormInv

\* For any number of consoles and organizations: saving a form that a working
\* read filled from a settled row, with no save in between, changes no field but
\* the edited one.
THEOREM SettingsStayKept == Spec => SettingsAreKept
<1> DEFINE Kept == \A e \in Editors : Saves(e) /\ form[e].fresh /\ form[e].sure => SavesOneField(e)
<1>1. Init => FormInv
  BY AdminAssumption DEF Init, FormInv, NoForm
<1>2. ASSUME FormInv, Started, [Next]_vars
      PROVE  FormInv' /\ (Kept \/ UNCHANGED formVars)
  <2>1. CASE UNCHANGED formVars
    BY <1>2, <2>1 DEF FormInv, formVars, StoredRow
  <2>2. ASSUME NEW e \in Editors, NEW p \in Admitted(1), part = "settings", OpenForm(e, p)
        PROVE  FormInv' /\ Kept
    BY <1>2, <2>2, AdmittedHaveOrgs, OpenFillsForm DEF Saves
  <2>3. ASSUME NEW e \in Editors, NEW p \in Admitted(2), NEW field \in {"model", "prompt"},
               part = "settings", SaveForm(e, p, field)
        PROVE  FormInv' /\ Kept
    <3>1. p \in [user : Users, org : Orgs, role : Roles] /\ form[e].org = p.org
      BY <1>2, <2>3, AdmittedHaveOrgs DEF SaveForm
    <3>2. NoForm.org = Nil
      BY DEF NoForm
    <3> QED
      BY <1>2, <2>3, <3>1, <3>2, SaveStoresOneField DEF Saves, SavesOneField
  <2>4. ASSUME NEW o \in Orgs, SettleSettings(o)
        PROVE  FormInv' /\ Kept
    <3>1. NoForm.org = Nil
      BY DEF NoForm
    <3> QED
      BY <1>2, <2>4, <3>1 DEF SettleSettings, FormInv, StoredRow, Saves
  <2> QED
    BY <1>2, <2>1, <2>2, <2>3, <2>4 DEF Next, SettingsNext, vars, formVars
<1>3. Kept \/ UNCHANGED formVars =>
        [\A e \in Editors : Saves(e) /\ form[e].fresh /\ form[e].sure => SavesOneField(e)]_formVars
  BY DEF formVars
<1> QED
  BY <1>1, <1>2, <1>3, StaysStarted, PTL DEF Spec, SettingsAreKept

-----------------------------------------------------------------------------
(* Conversations *)

Caller == [user : Users, org : Orgs, role : Roles]

Descending(s) == \A i, j \in DOMAIN s : i < j => s[i] > s[j]

\* The rows of a set down to c.
DownTo(S, c) == {d \in S : d >= c}

\* The rows the page under way will have, unless a lookup fails, or those that
\* the next one may list.
Coming == ToSet(walk.seen) \cup {c \in ToSet(walk.todo) : OwnedBy(c, walk.by)}
Ahead == IF walk.state = "listed" THEN Coming ELSE VisibleTo(walk.by)

ListTypes ==
    /\ created \in 0 .. MaxConvs
    /\ orgOf \in [1 .. MaxConvs -> Orgs \cup {Nil}]
    /\ owner \in [1 .. MaxConvs -> Users \cup {Nil}]

WalkFields == {"state", "by", "offset", "todo", "seen", "read", "opened", "due", "failed"}
WalkOver(rows) ==
    [state : {"on", "listed", "over"}, by : Caller, offset : Nat, todo : Seq(rows),
     seen : Seq(rows), read : Seq(rows), opened : rows \cup {Nil}, due : SUBSET rows,
     failed : BOOLEAN]

WalkRecord == WalkOver(1 .. created)

\* What is read, seen or opened is the caller's, and rows come newest first.
PageIsSound ==
    /\ ToSet(walk.seen) \cup ToSet(walk.read) \subseteq VisibleTo(walk.by)
    /\ walk.opened # Nil => walk.opened \in VisibleTo(walk.by)
    /\ \A c \in ToSet(walk.todo) : orgOf[c] = walk.by.org
    /\ walk.todo # <<>> => ~Privileged(walk.by)
    /\ Descending(walk.seen) /\ Descending(walk.todo)
    /\ \A i \in DOMAIN walk.seen, j \in DOMAIN walk.todo : walk.seen[i] > walk.todo[j]

\* What was visible at the start and is not read yet has more rows down to it
\* than the offset.
DueIsAhead ==
    /\ walk.due \subseteq VisibleTo(walk.by)
    /\ store # "dynamo" /\ ~walk.failed =>
         \A c \in walk.due \ ToSet(walk.read) :
             /\ walk.state # "over" /\ c \in Ahead
             /\ Cardinality(DownTo(Ahead, c)) > walk.offset

ListInv ==
    /\ ListTypes
    /\ walk = NoWalk \/ (walk \in WalkRecord /\ PageIsSound /\ DueIsAhead)

\* A sequence over a set is one over any greater set.
LEMMA SeqOfMore ==
    ASSUME NEW S, NEW T, S \subseteq T, NEW s \in Seq(S)
    PROVE  s \in Seq(T)
OBVIOUS

\* With more rows there are no fewer down to a given one.
LEMMA MoreRowsDown ==
    ASSUME NEW n \in Nat, NEW T \in SUBSET (1 .. n), NEW S \in SUBSET T, NEW c
    PROVE  /\ IsFiniteSet(DownTo(T, c)) /\ Cardinality(DownTo(T, c)) \in Nat
           /\ Cardinality(DownTo(S, c)) \in Nat
           /\ Cardinality(DownTo(S, c)) <= Cardinality(DownTo(T, c))
<1>1. IsFiniteSet(1 .. n)
  BY FS_Interval
<1>2. DownTo(T, c) \in SUBSET (1 .. n) /\ DownTo(S, c) \in SUBSET DownTo(T, c)
  BY DEF DownTo
<1>3. IsFiniteSet(DownTo(T, c))
  BY <1>1, <1>2, FS_Subset
<1>4. IsFiniteSet(DownTo(S, c)) /\ Cardinality(DownTo(S, c)) <= Cardinality(DownTo(T, c))
  BY <1>2, <1>3, FS_Subset
<1> QED BY <1>3, <1>4, FS_CardinalityType

\* A listing has all the rows of its set, each once.
LEMMA NewestFirstLists ==
    ASSUME NEW n \in Nat, NEW S \in SUBSET (1 .. n), NEW s \in NewestFirst(S)
    PROVE  s \in Seq(S) /\ ToSet(s) = S /\ Descending(s)
<1>0. \A x \in S : x \in Nat
  OBVIOUS
<1>1. IsFiniteSet(S) /\ Cardinality(S) \in Nat
  <2>1. IsFiniteSet(1 .. n)
    BY FS_Interval
  <2>2. IsFiniteSet(S)
    BY <2>1, FS_Subset
  <2> QED BY <2>2, FS_CardinalityType
<1> DEFINE k == Cardinality(S)
<1>2. s \in [1 .. k -> S] /\ Descending(s)
  BY DEF NewestFirst, Descending
<1>3. IsFiniteSet(1 .. k) /\ Cardinality(1 .. k) = k
  BY <1>1, FS_Interval
<1>4. s \in Injection(1 .. k, S)
  <2>1. ASSUME NEW i \in 1 .. k, NEW j \in 1 .. k, s[i] = s[j] PROVE i = j
    <3>1. s[i] \in S /\ s[j] \in S /\ DOMAIN s = 1 .. k
      BY <1>2
    <3>2. s[i] \in Nat
      BY <1>0, <3>1
    <3>4. i \in Nat /\ j \in Nat
      BY <1>1
    <3>3. ~(i < j) /\ ~(j < i)
      BY <1>2, <2>1, <3>1, <3>2, <3>4 DEF Descending
    <3> QED BY <3>3, <3>4
  <2>2. s \in [1 .. k -> S] /\ DOMAIN s = 1 .. k /\ \A i, j \in 1 .. k : s[i] = s[j] => i = j
    BY <1>2, <2>1
  <2> HIDE DEF k
  <2> QED BY <2>2, Zenon DEF Injection, IsInjective
<1>5. s \in Surjection(1 .. k, S)
  BY <1>1, <1>3, <1>4, FS_Injection
<1>6. \A x \in S : \E i \in 1 .. k : s[i] = x
  BY <1>5 DEF Surjection
<1>7. s \in Seq(S)
  BY <1>1, <1>2
<1> QED BY <1>2, <1>6, <1>7 DEF ToSet

\* The k-th row of a listing has k rows down to it.
LEMMA RowsDownTo ==
    ASSUME NEW s \in Seq(Nat), Descending(s), NEW k \in 1 .. Len(s)
    PROVE  Cardinality(DownTo(ToSet(s), s[k])) = k
<1>1. k \in Nat /\ Len(s) \in Nat /\ DOMAIN s = 1 .. Len(s) /\ \A i \in 1 .. Len(s) : s[i] \in Nat
  OBVIOUS
<1> DEFINE T == DownTo(ToSet(s), s[k])
           f == [i \in 1 .. k |-> s[i]]
<1>2. \A i \in 1 .. k : s[i] \in T
  BY <1>1 DEF DownTo, ToSet, Descending
<1>3. \A x \in T : \E i \in 1 .. k : s[i] = x
  <2> SUFFICES ASSUME NEW x \in T PROVE \E i \in 1 .. k : s[i] = x
    OBVIOUS
  <2>1. PICK i \in 1 .. Len(s) : s[i] = x
    BY <1>1 DEF DownTo, ToSet
  <2>2. x >= s[k] /\ k \in 1 .. Len(s) /\ s[k] \in Nat /\ s[i] \in Nat /\ i \in Nat
    BY <1>1, <2>1 DEF DownTo
  <2>3. ~(k < i)
    <3>1. k < i => s[k] > s[i]
      BY <1>1, <2>1 DEF Descending
    <3> QED BY <2>1, <2>2, <3>1
  <2> QED BY <1>1, <2>1, <2>2, <2>3
<1>4. \A i, j \in 1 .. k : s[i] = s[j] => i = j
  <2> SUFFICES ASSUME NEW i \in 1 .. k, NEW j \in 1 .. k, s[i] = s[j] PROVE i = j
    OBVIOUS
  <2>1. i \in 1 .. Len(s) /\ j \in 1 .. Len(s) /\ s[i] \in Nat /\ i \in Nat /\ j \in Nat
    BY <1>1
  <2>2. (i < j => s[i] > s[j]) /\ (j < i => s[j] > s[i])
    BY <1>1, <2>1 DEF Descending
  <2>3. ~(s[i] > s[j]) /\ ~(s[j] > s[i])
    BY <2>1
  <2> QED BY <2>1, <2>2, <2>3
<1> HIDE DEF T
<1>5. f \in [1 .. k -> T] /\ \A i \in 1 .. k : f[i] = s[i]
  BY <1>2
<1> HIDE DEF f
<1>6. f \in Bijection(1 .. k, T)
  <2>1. f \in Injection(1 .. k, T)
    BY <1>4, <1>5, Zenon DEF Injection, IsInjective
  <2>2. f \in Surjection(1 .. k, T)
    BY <1>3, <1>5, Zenon DEF Surjection
  <2> QED BY <2>1, <2>2 DEF Bijection
<1>7. ExistsBijection(1 .. k, T)
  BY <1>6 DEF ExistsBijection
<1> QED BY <1>1, <1>7, FS_CountingElements DEF T

\* Rows are added, and a row keeps its organization and its owner.
LEMMA VisibleStays ==
    ASSUME ListTypes, NEW p \in Caller, created' >= created, created' \in Nat,
           \A c \in 1 .. created : /\ orgOf'[c] = orgOf[c]
                                   /\ owner[c] # Nil => owner'[c] = owner[c]
    PROVE  VisibleTo(p) \subseteq VisibleTo(p)'
<1>1. p.user # Nil
  BY NilAssumption DEF Caller
<1> QED BY <1>1 DEF VisibleTo, OwnedBy, ListTypes, Privileged

\* While the listing is not touched, new rows and new owners do no harm.
LEMMA GrowthKeepsList ==
    ASSUME ListInv, ListTypes', UNCHANGED <<walk, store>>, created' >= created,
           \A c \in 1 .. created : /\ orgOf'[c] = orgOf[c]
                                   /\ owner[c] # Nil => owner'[c] = owner[c]
    PROVE  ListInv'
<1>1. CASE walk = NoWalk
  BY <1>1 DEF ListInv, NoWalk
<1>2. CASE walk # NoWalk
  <2>1. /\ walk \in WalkRecord /\ PageIsSound /\ DueIsAhead /\ ListTypes /\ walk.by \in Caller
        /\ created \in Nat /\ created' \in Nat
    BY <1>2 DEF ListInv, WalkRecord, WalkOver, ListTypes
  <2>2. VisibleTo(walk.by) \subseteq VisibleTo(walk.by)'
    BY <2>1, VisibleStays
  <2>3. 1 .. created \subseteq 1 .. created'
    BY <2>1
  <2>4. walk' \in WalkRecord'
    BY <2>1, <2>3 DEF WalkRecord, WalkOver
  <2>5. \A c \in ToSet(walk.todo) : c \in 1 .. created
    BY <2>1 DEF WalkRecord, WalkOver, ToSet
  <2>6. PageIsSound'
    BY <2>1, <2>2, <2>5 DEF PageIsSound, Descending, ToSet, Privileged
  <2>7. Ahead \subseteq Ahead'
    <3>1. walk.by.user # Nil
      BY <2>1, NilAssumption DEF Caller
    <3>2. Coming \subseteq Coming'
      BY <2>1, <2>5, <3>1 DEF Coming, OwnedBy, ToSet
    <3> QED BY <2>2, <3>2 DEF Ahead
  <2>8. Ahead' \subseteq 1 .. created'
    <3>1. \A c \in ToSet(walk.todo) \cup ToSet(walk.seen) : c \in 1 .. created
      BY <2>1 DEF WalkRecord, WalkOver, ToSet
    <3>2. Coming' \subseteq 1 .. created'
      BY <2>3, <3>1 DEF Coming
    <3>3. VisibleTo(walk.by)' \subseteq 1 .. created'
      BY DEF VisibleTo
    <3> QED BY <3>2, <3>3 DEF Ahead
  <2>9. \A c : Cardinality(DownTo(Ahead, c)) <= Cardinality(DownTo(Ahead', c))
    BY <2>1, <2>7, <2>8, MoreRowsDown
  <2>10. \A c : Cardinality(DownTo(Ahead, c)) \in Nat /\ Cardinality(DownTo(Ahead', c)) \in Nat
    BY <2>1, <2>7, <2>8, MoreRowsDown
  <2>11. walk.offset \in Nat
    BY <2>1 DEF WalkRecord, WalkOver
  <2>12. DueIsAhead'
    <3>1. \A c : DownTo(Ahead, c)' = DownTo(Ahead', c)
      BY DEF DownTo
    <3> QED BY <2>1, <2>2, <2>7, <2>9, <2>10, <2>11, <3>1 DEF DueIsAhead
  <2> QED BY <2>4, <2>6, <2>12 DEF ListInv
<1> QED BY <1>1, <1>2

\* A console opens the list: nothing is read, and all it may see is ahead.
LEMMA WalkStartKeeps ==
    ASSUME ListInv, NEW p \in Caller, WalkStart(p), store' = store
    PROVE  ListInv'
<1>1. /\ walk' = [NoWalk EXCEPT !.state = "on", !.by = p, !.due = VisibleTo(p)]
      /\ UNCHANGED <<created, orgOf, owner>> /\ ListTypes /\ created \in Nat
  BY DEF WalkStart, ListInv, ListTypes
<1>2. VisibleTo(p) \in SUBSET (1 .. created) /\ VisibleTo(p)' = VisibleTo(p)
  BY <1>1 DEF VisibleTo, OwnedBy
<1>3. /\ walk'.state = "on" /\ walk'.by = p /\ walk'.offset = 0 /\ walk'.due = VisibleTo(p)
      /\ walk'.todo = <<>> /\ walk'.seen = <<>> /\ walk'.read = <<>> /\ walk'.opened = Nil
      /\ walk' \in WalkRecord'
  <2>1. /\ NoWalk = [f \in WalkFields |-> NoWalk[f]]
        /\ NoWalk.offset = 0 /\ NoWalk.todo = <<>> /\ NoWalk.seen = <<>> /\ NoWalk.read = <<>>
        /\ NoWalk.opened = Nil /\ NoWalk.failed = FALSE
    BY DEF NoWalk, WalkFields
  <2>2. PICK rows : rows = 1 .. created /\ <<>> \in Seq(rows)
    OBVIOUS
  <2>3. PICK due \in SUBSET rows : due = VisibleTo(p)
    BY <1>2, <2>2
  <2>4. /\ walk' = [f \in WalkFields |-> walk'[f]]
        /\ walk'.state = "on" /\ walk'.by = p /\ walk'.offset = 0 /\ walk'.due = due
        /\ walk'.todo = <<>> /\ walk'.seen = <<>> /\ walk'.read = <<>> /\ walk'.opened = Nil
        /\ walk'.failed = FALSE
    BY <1>1, <2>1, <2>3 DEF WalkFields
  <2>5. walk' \in WalkOver(rows)
    <3>1. PICK none : none = <<>> /\ none \in Seq(rows)
      BY <2>2
    <3>2. walk' = [state |-> "on", by |-> p, offset |-> 0, todo |-> none, seen |-> none,
                   read |-> none, opened |-> Nil, due |-> due, failed |-> FALSE]
      BY <2>4, <3>1 DEF WalkFields
    <3>3. 0 \in Nat /\ FALSE \in BOOLEAN /\ Nil \in rows \cup {Nil} /\ due \in SUBSET rows
          /\ "on" \in {"on", "listed", "over"} /\ none \in Seq(rows) /\ p \in Caller
      BY <2>3, <3>1
    <3> QED BY <3>2, <3>3 DEF WalkOver
  <2> QED BY <1>1, <2>2, <2>3, <2>4, <2>5 DEF WalkRecord
<1>4. PageIsSound'
  BY <1>3 DEF PageIsSound, ToSet, Descending
<1>5. Ahead' = VisibleTo(p)
  BY <1>2, <1>3 DEF Ahead
<1>6. \A c \in VisibleTo(p) : Cardinality(DownTo(VisibleTo(p), c)) > 0
  <2> SUFFICES ASSUME NEW c \in VisibleTo(p) PROVE Cardinality(DownTo(VisibleTo(p), c)) > 0
    OBVIOUS
  <2>1. c \in DownTo(VisibleTo(p), c)
    BY <1>2 DEF DownTo
  <2>2. IsFiniteSet(DownTo(VisibleTo(p), c)) /\ Cardinality(DownTo(VisibleTo(p), c)) \in Nat
    BY <1>1, <1>2, MoreRowsDown
  <2>3. Cardinality(DownTo(VisibleTo(p), c)) # 0
    BY <2>1, <2>2, FS_EmptySet
  <2> QED BY <2>2, <2>3
<1>7. DueIsAhead'
  BY <1>2, <1>3, <1>5, <1>6 DEF DueIsAhead, DownTo
<1> QED BY <1>1, <1>3, <1>4, <1>7 DEF ListInv, ListTypes

\* A page lists the organization's rows: all of them, unless a replica lags.
LEMMA PageListKeeps ==
    ASSUME ListInv, PageList, store' = store
    PROVE  ListInv'
<1>0. PICK p : p = walk.by
  OBVIOUS
<1> DEFINE Rows(n) == {c \in 1 .. n : orgOf[c] = p.org}
<1>1. walk.state = "on" /\ UNCHANGED <<created, orgOf, owner>>
  BY DEF PageList
<1>2. /\ ListTypes /\ walk \in WalkRecord /\ PageIsSound /\ DueIsAhead /\ created \in Nat
      /\ p \in Caller
  <2>1. NoWalk.state = "idle"
    BY DEF NoWalk
  <2>2. ListTypes /\ walk \in WalkRecord /\ PageIsSound /\ DueIsAhead
    BY <1>1, <2>1 DEF ListInv
  <2> QED BY <1>0, <2>2 DEF ListTypes, WalkRecord, WalkOver
<1>3. PICK all \in Listings(p.org) :
        walk' = [walk EXCEPT !.state = "listed",
                             !.todo = IF Privileged(p) THEN <<>> ELSE all,
                             !.seen = IF Privileged(p) THEN all ELSE <<>>]
  BY <1>0 DEF PageList
<1>4. PICK n \in 0 .. created : all \in NewestFirst(Rows(n)) /\ (store # "dynamo" => n = created)
  BY <1>2, <1>3 DEF Listings
<1>5. Rows(n) \in SUBSET (1 .. created) /\ n \in Nat
  BY <1>2, <1>4
<1> HIDE DEF Rows
<1>6. all \in Seq(Rows(n)) /\ ToSet(all) = Rows(n) /\ Descending(all)
  BY <1>2, <1>4, <1>5, NewestFirstLists
<1>7. all \in Seq(1 .. created)
  BY <1>5, <1>6, SeqOfMore
<1>8. /\ walk'.state = "listed" /\ walk'.by = p /\ walk'.offset = walk.offset
      /\ walk'.due = walk.due /\ walk'.read = walk.read /\ walk'.opened = walk.opened
      /\ walk'.failed = walk.failed
      /\ walk'.todo = IF Privileged(p) THEN <<>> ELSE all
      /\ walk'.seen = IF Privileged(p) THEN all ELSE <<>>
      /\ walk' \in WalkRecord'
  <2>1. PICK todo, seen :
          /\ todo = IF Privileged(p) THEN <<>> ELSE all
          /\ seen = IF Privileged(p) THEN all ELSE <<>>
    OBVIOUS
  <2>2. walk' = [walk EXCEPT !.state = "listed", !.todo = todo, !.seen = seen]
    BY <1>3, <2>1
  <2>3. PICK rows : rows = 1 .. created
    OBVIOUS
  <2>4. todo \in Seq(rows) /\ seen \in Seq(rows)
    <3>1. all \in Seq(rows) /\ <<>> \in Seq(rows)
      BY <1>7, <2>3
    <3> QED BY <2>1, <3>1
  <2>5. walk \in WalkOver(rows)
    BY <1>2, <2>3 DEF WalkRecord
  <2>6. /\ walk' \in WalkOver(rows) /\ walk'.state = "listed" /\ walk'.by = walk.by
        /\ walk'.offset = walk.offset /\ walk'.due = walk.due /\ walk'.read = walk.read
        /\ walk'.opened = walk.opened /\ walk'.failed = walk.failed
        /\ walk'.todo = todo /\ walk'.seen = seen
    BY <2>2, <2>4, <2>5 DEF WalkOver
  <2> QED BY <1>0, <1>1, <2>1, <2>3, <2>6 DEF WalkRecord
<1>9. /\ VisibleTo(p)' = VisibleTo(p) /\ \A c : OwnedBy(c, p)' = OwnedBy(c, p)
      /\ Privileged(p)' = Privileged(p)
  BY <1>1 DEF VisibleTo, OwnedBy, Privileged
<1>10. ToSet(<<>>) = {} /\ DOMAIN <<>> = {}
  BY DEF ToSet
<1>11. /\ Rows(n) \subseteq Rows(created) /\ \A c \in Rows(n) : orgOf[c] = p.org
       /\ VisibleTo(p) = {c \in Rows(created) : Privileged(p) \/ OwnedBy(c, p)}
  BY <1>2, <1>4 DEF Rows, VisibleTo
<1>12. PageIsSound'
  <2>1. ToSet(walk'.seen) \subseteq VisibleTo(p)
    BY <1>6, <1>8, <1>10, <1>11
  <2>2. \A c \in ToSet(walk'.todo) : orgOf'[c] = p.org
    BY <1>1, <1>6, <1>8, <1>10, <1>11
  <2>3. Descending(walk'.seen) /\ Descending(walk'.todo)
    BY <1>6, <1>8, <1>10 DEF Descending
  <2>4. \A i \in DOMAIN walk'.seen, j \in DOMAIN walk'.todo : walk'.seen[i] > walk'.todo[j]
    BY <1>8, <1>10
  <2>5. Descending(walk'.seen) = Descending(walk.seen)' /\ Descending(walk'.todo) = Descending(walk.todo)'
    BY DEF Descending
  <2>6. ToSet(walk'.read) \subseteq VisibleTo(p) /\ (walk'.opened # Nil => walk'.opened \in VisibleTo(p))
    BY <1>0, <1>2, <1>8 DEF PageIsSound
  <2>7. walk'.todo # <<>> => ~Privileged(p)
    BY <1>8
  <2> QED BY <1>8, <1>9, <2>1, <2>2, <2>3, <2>4, <2>5, <2>6, <2>7 DEF PageIsSound, ToSet
<1>13. store # "dynamo" => Ahead' = VisibleTo(p)
  <2>1. Ahead' = ToSet(walk'.seen) \cup {c \in ToSet(walk'.todo) : OwnedBy(c, p)}
    BY <1>8, <1>9 DEF Ahead, Coming, ToSet
  <2> QED BY <1>4, <1>6, <1>8, <1>10, <1>11, <2>1
<1>14. Ahead = VisibleTo(p)
  BY <1>0, <1>1 DEF Ahead
<1>15. DueIsAhead'
  BY <1>0, <1>1, <1>2, <1>8, <1>9, <1>13, <1>14 DEF DueIsAhead, DownTo, ToSet
<1> QED BY <1>1, <1>2, <1>8, <1>12, <1>15 DEF ListInv, ListTypes

\* The rows after the first one.
LEMMA RowsAfterHead ==
    ASSUME NEW S, NEW s \in Seq(S), s # <<>>
    PROVE  /\ Head(s) \in S /\ Tail(s) \in Seq(S) /\ Head(s) = s[1] /\ Len(s) \in Nat \ {0}
           /\ DOMAIN s = 1 .. Len(s) /\ DOMAIN Tail(s) = 1 .. Len(s) - 1
           /\ \A i \in DOMAIN Tail(s) : i + 1 \in DOMAIN s /\ Tail(s)[i] = s[i + 1]
           /\ ToSet(s) = {Head(s)} \cup ToSet(Tail(s))
<1>1. /\ Head(s) \in S /\ Tail(s) \in Seq(S) /\ Head(s) = s[1] /\ Len(s) \in Nat \ {0}
      /\ DOMAIN s = 1 .. Len(s) /\ DOMAIN Tail(s) = 1 .. Len(s) - 1
  OBVIOUS
<1>2. \A i \in DOMAIN Tail(s) : i + 1 \in DOMAIN s /\ Tail(s)[i] = s[i + 1]
  BY <1>1
<1>3. \A i \in DOMAIN s : i = 1 \/ (i - 1 \in DOMAIN Tail(s) /\ Tail(s)[i - 1] = s[i])
  <2> SUFFICES ASSUME NEW i \in DOMAIN s, i # 1
               PROVE  i - 1 \in DOMAIN Tail(s) /\ Tail(s)[i - 1] = s[i]
    OBVIOUS
  <2>1. PICK n : n = Len(s) /\ n \in Nat /\ i \in 1 .. n /\ DOMAIN Tail(s) = 1 .. n - 1
    BY <1>1
  <2>2. i - 1 \in 1 .. n - 1 /\ (i - 1) + 1 = i
    BY <2>1
  <2> QED BY <1>2, <2>1, <2>2
<1>4. ToSet(s) \subseteq {Head(s)} \cup ToSet(Tail(s))
  <2> SUFFICES ASSUME NEW x \in ToSet(s), x # Head(s) PROVE x \in ToSet(Tail(s))
    OBVIOUS
  <2>1. PICK i \in DOMAIN s : s[i] = x
    BY DEF ToSet
  <2>2. i - 1 \in DOMAIN Tail(s) /\ Tail(s)[i - 1] = x
    BY <1>1, <1>3, <2>1
  <2> QED BY <2>2 DEF ToSet
<1>5. {Head(s)} \cup ToSet(Tail(s)) \subseteq ToSet(s)
  BY <1>1, <1>2 DEF ToSet
<1> QED BY <1>1, <1>2, <1>4, <1>5

\* The rows with one more at the end.
LEMMA RowsAndLast ==
    ASSUME NEW S, NEW s \in Seq(S), NEW e \in S
    PROVE  /\ Append(s, e) \in Seq(S) /\ Len(s) \in Nat /\ DOMAIN s = 1 .. Len(s)
           /\ DOMAIN Append(s, e) = 1 .. Len(s) + 1
           /\ \A i \in DOMAIN s : Append(s, e)[i] = s[i]
           /\ Append(s, e)[Len(s) + 1] = e
           /\ ToSet(Append(s, e)) = ToSet(s) \cup {e}
<1>1. /\ Append(s, e) \in Seq(S) /\ Len(s) \in Nat /\ DOMAIN s = 1 .. Len(s)
      /\ DOMAIN Append(s, e) = 1 .. Len(s) + 1
      /\ \A i \in DOMAIN s : Append(s, e)[i] = s[i]
      /\ Append(s, e)[Len(s) + 1] = e
  OBVIOUS
<1>2. \A i \in DOMAIN Append(s, e) : i \in DOMAIN s \/ i = Len(s) + 1
  BY <1>1
<1> QED BY <1>1, <1>2 DEF ToSet

\* The fields of a list under way.
LEMMA WalkHasTypes ==
    ASSUME ListInv, walk.state # "idle"
    PROVE  /\ ListTypes /\ walk \in WalkRecord /\ PageIsSound /\ DueIsAhead /\ created \in Nat
           /\ walk.by \in Caller /\ walk.offset \in Nat
           /\ walk.todo \in Seq(1 .. created) /\ walk.seen \in Seq(1 .. created)
           /\ walk.read \in Seq(1 .. created)
<1>1. NoWalk.state = "idle"
  BY DEF NoWalk
<1>2. ListTypes /\ walk \in WalkRecord /\ PageIsSound /\ DueIsAhead
  BY <1>1 DEF ListInv
<1>3. PICK rows : rows = 1 .. created
  OBVIOUS
<1>4. walk \in WalkOver(rows)
  BY <1>2, <1>3 DEF WalkRecord
<1>5. /\ walk.by \in Caller /\ walk.offset \in Nat /\ walk.todo \in Seq(rows)
      /\ walk.seen \in Seq(rows) /\ walk.read \in Seq(rows)
  BY <1>4 DEF WalkOver
<1> QED BY <1>2, <1>3, <1>5 DEF ListTypes

\* A Basic caller's row is kept when it owns it and the lookup works.
LEMMA PageCheckKeeps ==
    ASSUME ListInv, PageCheck, store' = store
    PROVE  ListInv'
<1>1. walk.state = "listed" /\ walk.todo # <<>> /\ UNCHANGED <<created, orgOf, owner>>
  BY DEF PageCheck
<1>2. /\ ListTypes /\ walk \in WalkRecord /\ PageIsSound /\ DueIsAhead /\ created \in Nat
      /\ walk.by \in Caller /\ walk.offset \in Nat
      /\ walk.todo \in Seq(1 .. created) /\ walk.seen \in Seq(1 .. created)
  BY <1>1, WalkHasTypes
<1>3. PICK rows, p, h, todo, seen :
        /\ rows = 1 .. created /\ p = walk.by /\ h = Head(walk.todo)
        /\ todo = walk.todo /\ seen = walk.seen
  OBVIOUS
<1>4. PICK failed \in BOOLEAN :
        walk' = [walk EXCEPT
            !.todo = Tail(@), !.failed = @ \/ failed,
            !.seen = IF OwnedBy(Head(walk.todo), walk.by) /\ ~failed
                     THEN Append(@, Head(walk.todo)) ELSE @]
  BY DEF PageCheck, Swallowed
<1> DEFINE kept == OwnedBy(h, p) /\ ~failed
<1>5. PICK seen2 : seen2 = IF kept THEN Append(seen, h) ELSE seen
  OBVIOUS
<1>6. todo \in Seq(rows) /\ seen \in Seq(rows) /\ todo # <<>>
  BY <1>1, <1>2, <1>3
<1>7. /\ h \in rows /\ Tail(todo) \in Seq(rows) /\ h = todo[1] /\ Len(todo) \in Nat \ {0}
      /\ DOMAIN todo = 1 .. Len(todo) /\ DOMAIN Tail(todo) = 1 .. Len(todo) - 1
      /\ \A i \in DOMAIN Tail(todo) : i + 1 \in DOMAIN todo /\ Tail(todo)[i] = todo[i + 1]
      /\ ToSet(todo) = {h} \cup ToSet(Tail(todo))
  BY <1>3, <1>6, RowsAfterHead
<1>8. /\ Append(seen, h) \in Seq(rows) /\ Len(seen) \in Nat /\ DOMAIN seen = 1 .. Len(seen)
      /\ DOMAIN Append(seen, h) = 1 .. Len(seen) + 1
      /\ \A i \in DOMAIN seen : Append(seen, h)[i] = seen[i]
      /\ Append(seen, h)[Len(seen) + 1] = h
      /\ ToSet(Append(seen, h)) = ToSet(seen) \cup {h}
  BY <1>6, <1>7, RowsAndLast
<1>9. /\ walk' \in WalkOver(rows) /\ walk'.state = "listed" /\ walk'.by = p
      /\ walk'.offset = walk.offset /\ walk'.due = walk.due /\ walk'.read = walk.read
      /\ walk'.opened = walk.opened /\ walk'.failed = (walk.failed \/ failed)
      /\ walk'.todo = Tail(todo) /\ walk'.seen = seen2
  <2>1. seen2 \in Seq(rows)
    BY <1>5, <1>6, <1>8
  <2>2. walk \in WalkOver(rows)
    BY <1>2, <1>3 DEF WalkRecord
  <2>3. PICK more : more = Tail(todo) /\ more \in Seq(rows)
    BY <1>7
  <2>4. PICK bad : bad = (walk.failed \/ failed) /\ bad \in BOOLEAN
    OBVIOUS
  <2>5. walk' = [walk EXCEPT !.todo = more, !.failed = bad, !.seen = seen2]
    BY <1>3, <1>4, <1>5, <2>3, <2>4
  <2> QED BY <1>1, <1>3, <2>1, <2>2, <2>3, <2>4, <2>5 DEF WalkOver
<1>10. /\ VisibleTo(p)' = VisibleTo(p) /\ \A c : OwnedBy(c, p)' = OwnedBy(c, p)
       /\ Privileged(p)' = Privileged(p)
  BY <1>1 DEF VisibleTo, OwnedBy, Privileged
<1>11. /\ ToSet(seen) \cup ToSet(walk.read) \subseteq VisibleTo(p)
       /\ walk.opened # Nil => walk.opened \in VisibleTo(p)
       /\ \A c \in ToSet(todo) : orgOf[c] = p.org
       /\ ~Privileged(p) /\ Descending(seen) /\ Descending(todo)
       /\ \A i \in DOMAIN seen, j \in DOMAIN todo : seen[i] > todo[j]
  BY <1>1, <1>2, <1>3 DEF PageIsSound
<1>12. ToSet(seen2) = ToSet(seen) \cup (IF kept THEN {h} ELSE {})
  BY <1>5, <1>8
<1>13. PageIsSound'
  <2>1. h \in ToSet(todo) /\ orgOf[h] = p.org /\ (kept => h \in VisibleTo(p))
    BY <1>3, <1>7, <1>11 DEF VisibleTo
  <2>2. ToSet(seen2) \subseteq VisibleTo(p) /\ \A c \in ToSet(Tail(todo)) : orgOf'[c] = p.org
    BY <1>1, <1>7, <1>11, <1>12, <2>1
  <2>3. Descending(Tail(todo))
    BY <1>7, <1>11 DEF Descending
  <2>4. Descending(Append(seen, h))
    <3>1. \A i \in DOMAIN seen : seen[i] > h
      BY <1>7, <1>11
    <3>2. \A i, j \in DOMAIN Append(seen, h) :
            i < j => i \in DOMAIN seen /\ (j \in DOMAIN seen \/ j = Len(seen) + 1)
      BY <1>8
    <3> QED BY <1>8, <1>11, <3>1, <3>2 DEF Descending
  <2>5. \A i \in DOMAIN seen2, j \in DOMAIN Tail(todo) : seen2[i] > Tail(todo)[j]
    <3> SUFFICES ASSUME NEW i \in DOMAIN seen2, NEW j \in DOMAIN Tail(todo)
                 PROVE  seen2[i] > Tail(todo)[j]
      OBVIOUS
    <3>1. j + 1 \in DOMAIN todo /\ Tail(todo)[j] = todo[j + 1] /\ 1 \in DOMAIN todo /\ 1 < j + 1
      BY <1>7
    <3>2. h > todo[j + 1]
      BY <1>7, <1>11, <3>1 DEF Descending
    <3>3. i \in DOMAIN seen \/ (i = Len(seen) + 1 /\ kept)
      BY <1>5, <1>8
    <3> QED BY <1>5, <1>8, <1>11, <3>1, <3>2, <3>3
  <2>6. Descending(seen2)
    BY <1>5, <1>11, <2>4
  <2>7. Descending(walk.seen)' = Descending(seen2) /\ Descending(walk.todo)' = Descending(Tail(todo))
    BY <1>9 DEF Descending
  <2> QED BY <1>9, <1>10, <1>11, <2>2, <2>3, <2>5, <2>6, <2>7 DEF PageIsSound, ToSet
<1>14. ~failed => Ahead' = Ahead
  <2>1. Ahead' = ToSet(seen2) \cup {c \in ToSet(Tail(todo)) : OwnedBy(c, p)}
    BY <1>9, <1>10 DEF Ahead, Coming, ToSet
  <2>2. Ahead = ToSet(seen) \cup {c \in ToSet(todo) : OwnedBy(c, p)}
    BY <1>1, <1>3 DEF Ahead, Coming
  <2> QED BY <1>7, <1>12, <2>1, <2>2
<1>15. DueIsAhead'
  BY <1>1, <1>2, <1>3, <1>9, <1>10, <1>14 DEF DueIsAhead, DownTo, ToSet
<1>16. walk' \in WalkRecord'
  BY <1>1, <1>3, <1>9 DEF WalkRecord
<1> QED BY <1>1, <1>2, <1>13, <1>15, <1>16 DEF ListInv, ListTypes

\* A page takes rows from the offset on; a row that it does not reach is further
\* down than the next offset.
LEMMA PageReplyKeeps ==
    ASSUME ListInv, PageReply, store' = store
    PROVE  ListInv'
<1>1. walk.state = "listed" /\ walk.todo = <<>> /\ UNCHANGED <<created, orgOf, owner>>
  BY DEF PageReply
<1>2. /\ ListTypes /\ walk \in WalkRecord /\ PageIsSound /\ DueIsAhead /\ created \in Nat
      /\ walk.by \in Caller /\ walk.offset \in Nat
      /\ walk.seen \in Seq(1 .. created) /\ walk.read \in Seq(1 .. created)
  BY <1>1, WalkHasTypes
<1>3. PICK rows, p, seen, total, offset :
        /\ rows = 1 .. created /\ p = walk.by /\ seen = walk.seen /\ total = Len(seen)
        /\ offset = walk.offset
  OBVIOUS
<1>4. PICK last : last = IF offset + Limit < total THEN offset + Limit ELSE total
  OBVIOUS
<1>5. PICK page : page = SubSeq(seen, offset + 1, last)
  OBVIOUS
<1>6. /\ seen \in Seq(rows) /\ walk.read \in Seq(rows) /\ total \in Nat /\ offset \in Nat
      /\ Limit \in Nat \ {0} /\ last \in Nat /\ DOMAIN seen = 1 .. total /\ last <= total
  <2>1. Limit \in Nat \ {0}
    BY AdminAssumption
  <2>2. seen \in Seq(rows) /\ walk.read \in Seq(rows) /\ offset \in Nat
    BY <1>2, <1>3
  <2>3. total \in Nat /\ DOMAIN seen = 1 .. total
    BY <1>3, <2>2
  <2>4. last \in Nat /\ last <= total
    BY <1>4, <2>1, <2>2, <2>3
  <2> QED BY <2>1, <2>2, <2>3, <2>4
<1>7. /\ page \in Seq(rows)
      /\ Len(page) = IF offset + 1 <= last THEN last - offset ELSE 0
      /\ DOMAIN page = 1 .. Len(page)
      /\ \A i \in 1 .. Len(page) : page[i] = seen[offset + i]
  <2>1. PICK first : first = offset + 1 /\ first \in Nat \ {0}
    BY <1>6
  <2>2. \A i \in first .. last : seen[i] \in rows
    BY <1>6, <2>1
  <2>3. /\ page \in Seq(rows)
        /\ Len(page) = IF first <= last THEN last - first + 1 ELSE 0
        /\ \A i \in 1 .. last - first + 1 : page[i] = seen[first + i - 1]
    <3>1. first \in Int /\ last \in Int /\ page = SubSeq(seen, first, last)
      BY <1>5, <1>6, <2>1
    <3> QED BY <2>2, <3>1, SubSeqProperties
  <2>4. \A i \in 1 .. Len(page) : page[i] = seen[first + i - 1]
    BY <1>6, <2>1, <2>3
  <2>5. /\ Len(page) = IF offset + 1 <= last THEN last - offset ELSE 0
        /\ \A i \in 1 .. Len(page) : first + i - 1 = offset + i
    BY <1>6, <2>1, <2>3
  <2> QED BY <2>3, <2>4, <2>5
<1>8. PICK next : next = offset + Len(page) /\ next \in Nat
  BY <1>6, <1>7
<1>9. walk' = [walk EXCEPT
         !.read = @ \o page, !.seen = <<>>, !.offset = next,
         !.state = IF next >= total THEN "over" ELSE "on"]
  BY <1>3, <1>4, <1>5, <1>8 DEF PageReply, IsLastPage
<1>10. PICK read : read = walk.read \o page
  OBVIOUS
<1>11. read \in Seq(rows) /\ ToSet(read) = ToSet(walk.read) \cup ToSet(page)
  <2>1. PICK r : r = walk.read /\ r \in Seq(rows)
    BY <1>6
  <2>2. /\ read \in Seq(rows) /\ Len(read) = Len(r) + Len(page) /\ DOMAIN r = 1 .. Len(r)
        /\ DOMAIN read = 1 .. Len(r) + Len(page) /\ Len(r) \in Nat /\ Len(page) \in Nat
        /\ \A i \in 1 .. Len(r) : read[i] = r[i]
        /\ \A i \in 1 .. Len(page) : read[Len(r) + i] = page[i]
    BY <1>7, <1>10, <2>1
  <2>3. \A i \in DOMAIN read : i \in 1 .. Len(r) \/ (i - Len(r) \in 1 .. Len(page)
                                                    /\ i = Len(r) + (i - Len(r)))
    BY <2>2
  <2>4. ToSet(read) \subseteq ToSet(r) \cup ToSet(page)
    BY <1>7, <2>2, <2>3 DEF ToSet
  <2>5. ToSet(r) \subseteq ToSet(read)
    BY <2>2 DEF ToSet
  <2>6. \A i \in 1 .. Len(page) : Len(r) + i \in DOMAIN read
    BY <2>2
  <2>7. ToSet(page) \subseteq ToSet(read)
    <3>1. \A x \in ToSet(page) : \E i \in 1 .. Len(page) : page[i] = x
      BY <1>7 DEF ToSet
    <3>2. \A i \in 1 .. Len(page) : page[i] \in ToSet(read)
      <4> SUFFICES ASSUME NEW i \in 1 .. Len(page) PROVE page[i] \in ToSet(read)
        OBVIOUS
      <4>1. PICK j : j = Len(r) + i
        OBVIOUS
      <4>2. j \in DOMAIN read /\ read[j] = page[i]
        BY <2>2, <2>6, <4>1
      <4> QED BY <4>2 DEF ToSet
    <3> QED BY <3>1, <3>2
  <2> QED BY <2>1, <2>2, <2>4, <2>5, <2>7
<1>12. /\ walk' \in WalkOver(rows) /\ walk'.by = p /\ walk'.due = walk.due /\ walk'.read = read
       /\ walk'.opened = walk.opened /\ walk'.failed = walk.failed /\ walk'.todo = walk.todo
       /\ walk'.seen = <<>> /\ walk'.offset = next
       /\ walk'.state = IF next >= total THEN "over" ELSE "on"
  <2>0. PICK none : none = <<>> /\ none \in Seq(rows)
    <3>1. <<>> \in Seq(rows)
      OBVIOUS
    <3> QED BY <3>1, Zenon
  <2>1. PICK to \in {"over", "on"} : (next >= total => to = "over") /\ (~(next >= total) => to = "on")
    <3>1. CASE next >= total
      BY <3>1
    <3>2. CASE ~(next >= total)
      BY <3>2
    <3> QED BY <3>1, <3>2
  <2>2. walk \in WalkOver(rows)
    BY <1>2, <1>3 DEF WalkRecord
  <2>3. walk' = [walk EXCEPT !.read = read, !.seen = none, !.offset = next, !.state = to]
    BY <1>9, <1>10, <2>0, <2>1
  <2> QED BY <1>3, <1>8, <1>11, <2>0, <2>1, <2>2, <2>3 DEF WalkOver
<1>13. /\ VisibleTo(p)' = VisibleTo(p) /\ Privileged(p)' = Privileged(p)
  BY <1>1 DEF VisibleTo, OwnedBy, Privileged
<1>14. /\ ToSet(seen) \cup ToSet(walk.read) \subseteq VisibleTo(p)
       /\ walk.opened # Nil => walk.opened \in VisibleTo(p)
       /\ Descending(seen)
  BY <1>2, <1>3 DEF PageIsSound
<1>15. ToSet(page) \subseteq ToSet(seen)
  <2>1. \A i \in 1 .. Len(page) : offset + i \in 1 .. total
    BY <1>6, <1>7
  <2> QED BY <1>6, <1>7, <2>1 DEF ToSet
<1>16. ToSet(<<>>) = {} /\ DOMAIN <<>> = {}
  BY DEF ToSet
<1>17. PageIsSound'
  <2>1. ToSet(read) \subseteq VisibleTo(p)
    BY <1>11, <1>14, <1>15
  <2>2. ToSet(walk.seen)' = {} /\ ToSet(walk.read)' = ToSet(read) /\ ToSet(walk.todo)' = {}
    BY <1>1, <1>12, <1>16 DEF ToSet
  <2>3. Descending(walk.seen)' /\ Descending(walk.todo)'
    BY <1>1, <1>12, <1>16 DEF Descending
  <2> QED BY <1>1, <1>12, <1>13, <1>14, <1>16, <2>1, <2>2, <2>3 DEF PageIsSound
<1>18. Ahead' = VisibleTo(p)
  BY <1>12, <1>13 DEF Ahead
<1>19. ASSUME store # "dynamo", ~walk.failed, NEW c \in walk.due \ ToSet(read)
       PROVE  next < total /\ c \in VisibleTo(p) /\ Cardinality(DownTo(VisibleTo(p), c)) > next
  <2>1. c \in walk.due \ ToSet(walk.read)
    BY <1>11, <1>19
  <2>2. c \in Ahead /\ Cardinality(DownTo(Ahead, c)) > offset
    BY <1>2, <1>3, <1>19, <2>1 DEF DueIsAhead
  <2>3. Ahead = ToSet(seen)
    BY <1>1, <1>3, <1>16 DEF Ahead, Coming
  <2>4. PICK k \in 1 .. total : seen[k] = c
    BY <1>6, <2>2, <2>3 DEF ToSet
  <2>5. rows \subseteq Nat /\ seen \in Seq(Nat)
    BY <1>2, <1>3, <1>6, SeqOfMore
  <2>6. Cardinality(DownTo(ToSet(seen), c)) = k
    BY <1>3, <1>14, <2>4, <2>5, RowsDownTo
  <2>7. k > offset
    BY <2>2, <2>3, <2>6
  <2>8. k > last
    <3> SUFFICES ASSUME k <= last PROVE FALSE
      BY <1>6, <2>4
    <3>1. k - offset \in 1 .. Len(page) /\ offset + (k - offset) = k
      BY <1>6, <1>7, <2>4, <2>7
    <3>2. page[k - offset] = c
      BY <1>7, <2>4, <3>1
    <3>3. c \in ToSet(page)
      BY <1>7, <3>1, <3>2 DEF ToSet
    <3> QED BY <1>11, <1>19, <3>3
  <2>9. last = offset + Limit /\ next = last /\ next < total
    BY <1>4, <1>6, <1>7, <1>8, <2>4, <2>8
  <2>10. VisibleTo(p) \in SUBSET (1 .. created) /\ ToSet(seen) \in SUBSET VisibleTo(p)
    BY <1>14 DEF VisibleTo
  <2>11. /\ Cardinality(DownTo(ToSet(seen), c)) <= Cardinality(DownTo(VisibleTo(p), c))
         /\ Cardinality(DownTo(VisibleTo(p), c)) \in Nat
    BY <1>2, <2>10, MoreRowsDown
  <2> QED BY <1>6, <1>14, <2>2, <2>3, <2>4, <2>6, <2>8, <2>9, <2>11
<1>20. DueIsAhead'
  <2>1. walk.due \subseteq VisibleTo(p)
    BY <1>2, <1>3 DEF DueIsAhead
  <2>2. ToSet(walk.read)' = ToSet(read) /\ \A c : DownTo(Ahead, c)' = DownTo(VisibleTo(p), c)
    BY <1>12, <1>18 DEF ToSet, DownTo
  <2>3. next < total => walk'.state # "over"
    BY <1>6, <1>8, <1>12
  <2>4. ASSUME store' # "dynamo", ~walk'.failed, NEW c \in walk'.due \ ToSet(read)
        PROVE  /\ walk'.state # "over" /\ c \in Ahead'
               /\ Cardinality(DownTo(VisibleTo(p), c)) > walk'.offset
    BY <1>12, <1>18, <1>19, <2>3, <2>4
  <2> QED BY <1>12, <1>13, <2>1, <2>2, <2>4 DEF DueIsAhead
<1>21. walk' \in WalkRecord'
  BY <1>1, <1>3, <1>12 DEF WalkRecord
<1> QED BY <1>1, <1>2, <1>17, <1>20, <1>21 DEF ListInv, ListTypes

\* A conversation is opened only by whom it is visible to.
LEMMA OpenConversationKeeps ==
    ASSUME ListInv, NEW c \in Convs, OpenConversation(c), store' = store
    PROVE  ListInv'
<1>1. /\ walk.state = "over" /\ c <= created /\ orgOf[c] = walk.by.org
      /\ Privileged(walk.by) \/ OwnedBy(c, walk.by)
      /\ walk' = [walk EXCEPT !.opened = c] /\ UNCHANGED <<created, orgOf, owner>>
  BY DEF OpenConversation
<1>2. /\ ListTypes /\ walk \in WalkRecord /\ PageIsSound /\ DueIsAhead /\ created \in Nat
  BY <1>1, WalkHasTypes
<1>3. PICK rows : rows = 1 .. created
  OBVIOUS
<1>4. c \in rows /\ c \in VisibleTo(walk.by)
  BY <1>1, <1>2, <1>3, AdminAssumption DEF Convs, VisibleTo
<1>5. /\ walk' \in WalkOver(rows) /\ walk'.state = "over" /\ walk'.by = walk.by
      /\ walk'.offset = walk.offset /\ walk'.due = walk.due /\ walk'.read = walk.read
      /\ walk'.opened = c /\ walk'.failed = walk.failed
      /\ walk'.todo = walk.todo /\ walk'.seen = walk.seen
  <2>1. walk \in WalkOver(rows)
    BY <1>2, <1>3 DEF WalkRecord
  <2> QED BY <1>1, <1>4, <2>1 DEF WalkOver
<1>6. VisibleTo(walk.by)' = VisibleTo(walk.by) /\ Privileged(walk.by)' = Privileged(walk.by)
  BY <1>1, <1>5 DEF VisibleTo, OwnedBy, Privileged
<1>7. PageIsSound'
  BY <1>1, <1>2, <1>4, <1>5, <1>6 DEF PageIsSound, ToSet, Descending
<1>8. Ahead' = Ahead
  BY <1>1, <1>5, <1>6 DEF Ahead
<1>9. DueIsAhead'
  BY <1>1, <1>2, <1>5, <1>6, <1>8 DEF DueIsAhead, DownTo, ToSet
<1>10. walk' \in WalkRecord'
  BY <1>1, <1>3, <1>5 DEF WalkRecord
<1> QED BY <1>1, <1>2, <1>7, <1>9, <1>10 DEF ListInv, ListTypes

\* Conversations and participants are added while a console pages.
LEMMA NewConversationKeeps ==
    ASSUME ListInv, NEW o \in Orgs, NewConversation(o), store' = store
    PROVE  ListInv'
<1>1. /\ created < MaxConvs /\ created' = created + 1 /\ UNCHANGED <<owner, walk>>
      /\ orgOf' = [orgOf EXCEPT ![created + 1] = o]
  BY DEF NewConversation
<1>2. ListTypes /\ created \in Nat /\ MaxConvs \in Nat
  BY AdminAssumption DEF ListInv, ListTypes
<1>3. ListTypes'
  BY <1>1, <1>2 DEF ListTypes
<1>4. \A c \in 1 .. created : orgOf'[c] = orgOf[c]
  BY <1>1, <1>2 DEF ListTypes
<1> QED BY <1>1, <1>2, <1>3, <1>4, GrowthKeepsList

\* The same for a participant.
LEMMA AddParticipantKeeps ==
    ASSUME ListInv, NEW c \in Convs, NEW u \in Users, AddParticipant(c, u), store' = store
    PROVE  ListInv'
<1>1. /\ owner[c] = Nil /\ owner' = [owner EXCEPT ![c] = u] /\ UNCHANGED <<created, orgOf, walk>>
  BY DEF AddParticipant
<1>2. ListTypes /\ created \in Nat
  BY DEF ListInv, ListTypes
<1>3. ListTypes'
  BY <1>1, <1>2 DEF ListTypes
<1>4. \A d \in 1 .. created : owner[d] # Nil => owner'[d] = owner[d]
  BY <1>1, <1>2 DEF ListTypes
<1> QED BY <1>1, <1>2, <1>3, <1>4, GrowthKeepsList

\* For any number of conversations and any page size: a console that has paged
\* to the end has read every conversation that was visible when it began, unless
\* a lookup failed or a replica lagged, and it reads and opens none but the
\* organization's, for a Basic caller its own.
THEOREM OwnConversationsAreSeen == Spec => []SeesAllItsOwn
<1>1. Init => ListInv
  <2> SUFFICES ASSUME Init PROVE ListInv
    OBVIOUS
  <2>1. MaxConvs \in Nat
    BY AdminAssumption
  <2> QED BY <2>1 DEF Init, ListInv, ListTypes, Convs
<1>2. ASSUME ListInv, Started, [Next]_vars
      PROVE  ListInv'
  <2>1. CASE UNCHANGED <<listVars, store>>
    <3>1. /\ ListTypes' = ListTypes /\ WalkRecord' = WalkRecord /\ PageIsSound' = PageIsSound
          /\ DueIsAhead' = DueIsAhead
      BY <2>1 DEF listVars, ListTypes, WalkRecord, WalkOver, PageIsSound, DueIsAhead, Ahead,
                  Coming, VisibleTo, OwnedBy, Privileged, DownTo, Descending, ToSet
    <3> QED BY <1>2, <2>1, <3>1 DEF ListInv, listVars, NoWalk
  <2>2. CASE part = "conversations" /\ ConversationsNext /\ store' = store
    <3>1. ASSUME NEW p \in Admitted(0), WalkStart(p) PROVE ListInv'
      BY <1>2, <2>2, <3>1, AdmittedHaveOrgs, WalkStartKeeps DEF Caller
    <3> QED BY <1>2, <2>2, <3>1, NewConversationKeeps, AddParticipantKeeps, PageListKeeps,
               PageCheckKeeps, PageReplyKeeps, OpenConversationKeeps DEF ConversationsNext
  <2>3. UNCHANGED <<listVars, store>> \/ (part = "conversations" /\ ConversationsNext /\ store' = store)
    BY <1>2 DEF Next, vars, listVars
  <2> QED BY <2>1, <2>2, <2>3
<1>3. ListInv => SeesAllItsOwn
  <2> SUFFICES ASSUME ListInv PROVE SeesAllItsOwn
    OBVIOUS
  <2>1. CASE walk = NoWalk
    <3>1. NoWalk.state = "idle" /\ NoWalk.read = <<>> /\ NoWalk.opened = Nil
      BY DEF NoWalk
    <3> QED BY <2>1, <3>1 DEF SeesAllItsOwn, ToSet
  <2>2. CASE walk # NoWalk
    <3>1. PageIsSound /\ DueIsAhead
      BY <2>2 DEF ListInv
    <3>2. walk.by.role = "basic" => ~Privileged(walk.by)
      BY DEF Privileged, RoleRank
    <3> QED BY <3>1, <3>2 DEF SeesAllItsOwn, PageIsSound, DueIsAhead, VisibleTo, OwnedBy
  <2> QED BY <2>1, <2>2
<1> QED
  BY <1>1, <1>2, <1>3, StaysStarted, PTL DEF Spec

-----------------------------------------------------------------------------
(* Connectors *)

\* The rows of connector_configs and the requests in flight.
CfgRow == [name : Names, source : Sources]
RequestRow == [step : {"update", "index", "pulled"}, org : Orgs, id : Ids, name : Names,
               source : Sources, docs : SUBSET Nat, cursor : Nat]

\* No document, cursor or run under way is of a later time than the present.
Timely ==
    /\ published \in [now : Nat, docs : SUBSET (Nat \ {0})]
    /\ \A d \in published.docs : d <= published.now
    /\ \A k \in Orgs \X Names : ledger[k] <= published.now
    /\ \A r \in Requests : request[r].cursor <= published.now

\* The stores' types.
ConnTypes ==
    /\ cfgs \in [Orgs -> [Ids -> CfgRow \cup {Nil}]]
    /\ ledger \in [Orgs \X Names -> Nat]
    /\ registry \in [Orgs -> SUBSET Names]
    /\ recorded \subseteq Orgs \X Names
    /\ Timely
    /\ indexed \in [Orgs -> SUBSET (Sources \X Nat)]
    /\ sourcesOf \in [Orgs -> [Names -> SUBSET Sources]]
    /\ request \in [Requests -> RequestRow \cup {Idle}]

\* A source that is configured or being indexed was given to its name, and a
\* name that was given none has no cursor.
RowIsGiven(o, id) ==
    cfgs[o][id] # Nil => cfgs[o][id].source \in sourcesOf[o][cfgs[o][id].name]
SourceIsGiven(q) == q.step \in {"index", "pulled"} => q.source \in sourcesOf[q.org][q.name]
CursorIsGiven(o, n) == sourcesOf[o][n] = {} => ledger[<<o, n>>] = 0
Attributed ==
    /\ \A o \in Orgs, id \in Ids : RowIsGiven(o, id)
    /\ \A r \in Requests : SourceIsGiven(request[r])
    /\ \A o \in Orgs, n \in Names : CursorIsGiven(o, n)

\* What a cursor skips is indexed: the ledger's cursor, and that of a run which
\* is still to be recorded, except for what that run pulled itself.
Has(o, s, d) == <<s, d>> \in indexed[o]
CursorIsCovered(o, n) ==
    \A s \in Sources : sourcesOf[o][n] = {s} =>
        \A d \in published.docs : d <= ledger[<<o, n>>] => Has(o, s, d)
RunIsCovered(q) ==
    q.step = "pulled" =>
        \A s \in Sources : sourcesOf[q.org][q.name] = {s} =>
            \A d \in published.docs : d <= q.cursor => d \in q.docs \/ Has(q.org, s, d)
Covered ==
    /\ \A o \in Orgs, n \in Names : CursorIsCovered(o, n)
    /\ \A r \in Requests : RunIsCovered(request[r])

\* A run of this process is on record and its name is in the registry.
Listed ==
    /\ ranHere \subseteq recorded
    /\ \A o \in Orgs, n \in Names : <<o, n>> \in ranHere => n \in registry[o]

LedgerInv == ConnTypes /\ Attributed /\ Covered /\ Listed

\* Names are given more sources, documents are indexed and new ones appear later.
Grows ==
    /\ \A d \in published'.docs : d \in published.docs \/ d > published.now
    /\ \A o \in Orgs, n \in Names : sourcesOf[o][n] \subseteq sourcesOf'[o][n]
    /\ \A o \in Orgs, s \in Sources, d \in Nat : Has(o, s, d) => Has(o, s, d)'

\* A cursor stays covered while sources and documents grow.
LEMMA CursorStaysCovered ==
    ASSUME LedgerInv, ConnTypes', Grows, NEW o \in Orgs, NEW n \in Names,
           ledger'[<<o, n>>] = ledger[<<o, n>>]
    PROVE  CursorIsGiven(o, n)' /\ CursorIsCovered(o, n)'
<1>1. /\ ledger[<<o, n>>] \in Nat /\ sourcesOf[o][n] \subseteq sourcesOf'[o][n]
      /\ ledger[<<o, n>>] <= published.now /\ published.now \in Nat
  BY DEF LedgerInv, ConnTypes, Grows, Timely
<1>2. CursorIsGiven(o, n) /\ CursorIsCovered(o, n)
  BY DEF LedgerInv, Attributed, Covered
<1>3. CursorIsGiven(o, n)'
  BY <1>1, <1>2 DEF CursorIsGiven
<1>4. ASSUME NEW s \in Sources, sourcesOf'[o][n] = {s}, NEW d \in published'.docs,
             d <= ledger'[<<o, n>>]
      PROVE  Has(o, s, d)'
  <2>0. d \in Nat /\ d \in published.docs
    BY <1>1, <1>4 DEF Grows, ConnTypes, Timely
  <2>1. sourcesOf[o][n] = {s} \/ sourcesOf[o][n] = {}
    BY <1>1, <1>4
  <2>2. CASE sourcesOf[o][n] = {s}
    BY <1>2, <1>4, <2>0, <2>2 DEF CursorIsCovered, Grows
  <2>3. CASE sourcesOf[o][n] = {}
    <3>1. d = 0 /\ 0 \notin published.docs
      BY <1>2, <1>4, <2>0, <2>3 DEF CursorIsGiven, LedgerInv, ConnTypes, Timely
    <3> QED
      BY <2>0, <3>1
  <2> QED
    BY <2>1, <2>2, <2>3
<1> QED
  BY <1>3, <1>4 DEF CursorIsCovered

\* So does a run in flight.
LEMMA RunStaysCovered ==
    ASSUME LedgerInv, ConnTypes', Grows, NEW r \in Requests, request'[r] = request[r]
    PROVE  SourceIsGiven(request[r])' /\ RunIsCovered(request[r])'
<1> DEFINE q == request[r]
<1>1. q \in RequestRow \/ q = Idle
  BY DEF LedgerInv, ConnTypes
<1>2. SourceIsGiven(q) /\ RunIsCovered(q)
  BY DEF LedgerInv, Attributed, Covered
<1>3. CASE q = Idle
  BY <1>3 DEF Idle, InFlight, SourceIsGiven, RunIsCovered
<1>4. CASE q \in RequestRow
  <2>1. /\ q.org \in Orgs /\ q.name \in Names /\ q.cursor \in Nat
        /\ sourcesOf[q.org][q.name] \subseteq sourcesOf'[q.org][q.name]
        /\ q.cursor <= published.now /\ published.now \in Nat
    BY <1>4 DEF RequestRow, Grows, LedgerInv, ConnTypes, Timely
  <2>2. SourceIsGiven(request[r])'
    BY <1>2, <2>1 DEF SourceIsGiven
  <2>3. ASSUME q.step = "pulled", NEW s \in Sources, sourcesOf'[q.org][q.name] = {s},
               NEW d \in published'.docs, d <= q.cursor
        PROVE  d \in q.docs \/ Has(q.org, s, d)'
    <3>0. d \in Nat /\ d \in published.docs
      BY <2>1, <2>3 DEF Grows, ConnTypes, Timely
    <3>1. sourcesOf[q.org][q.name] = {s}
      BY <1>2, <2>1, <2>3 DEF SourceIsGiven
    <3>2. d \in q.docs \/ Has(q.org, s, d)
      BY <1>2, <2>3, <3>0, <3>1 DEF RunIsCovered
    <3> QED
      BY <2>1, <2>3, <3>0, <3>2 DEF Grows
  <2> QED
    BY <2>2, <2>3 DEF RunIsCovered
<1> QED
  BY <1>1, <1>3, <1>4

\* A request that ends is accounted for.
LEMMA IdleIsCovered ==
    ASSUME NEW r, request'[r] = Idle
    PROVE  SourceIsGiven(request[r])' /\ RunIsCovered(request[r])'
  BY DEF Idle, InFlight, SourceIsGiven, RunIsCovered

\* A step that leaves ledger, knowledge and records alone, gives sources at most
\* and sees to the requests it changes.
LEMMA ConfigStep ==
    ASSUME LedgerInv, ConnTypes', Grows, UNCHANGED <<ledger, recorded, ranHere>>,
           \A o \in Orgs : registry[o] \subseteq registry'[o],
           \A o \in Orgs, id \in Ids : RowIsGiven(o, id)',
           \A r \in Requests : \/ request'[r] = request[r]
                               \/ SourceIsGiven(request[r])' /\ RunIsCovered(request[r])'
    PROVE  LedgerInv'
<1>1. \A o \in Orgs, n \in Names : CursorIsGiven(o, n)' /\ CursorIsCovered(o, n)'
  BY CursorStaysCovered
<1>2. \A r \in Requests : SourceIsGiven(request[r])' /\ RunIsCovered(request[r])'
  BY RunStaysCovered
<1>3. Listed'
  BY DEF LedgerInv, Listed
<1> QED
  BY <1>1, <1>2, <1>3 DEF LedgerInv, Attributed, Covered

\* A row is stored or dropped, and its name is given its source either way.
LEMMA UpsertGives ==
    ASSUME LedgerInv, NEW o \in Orgs, NEW id \in Ids, NEW n \in Names, NEW s \in Sources,
           Upsert(o, id, [name |-> n, source |-> s]), RecordConnector(o, n), Given(o, n, s),
           UNCHANGED <<indexed, published>>
    PROVE  /\ cfgs' \in [Orgs -> [Ids -> CfgRow \cup {Nil}]]
           /\ registry' \in [Orgs -> SUBSET Names]
           /\ sourcesOf' \in [Orgs -> [Names -> SUBSET Sources]]
           /\ Grows
           /\ \A p \in Orgs : registry[p] \subseteq registry'[p]
           /\ \A p \in Orgs, i \in Ids : RowIsGiven(p, i)'
<1> DEFINE row == [name |-> n, source |-> s]
<1>1. cfgs' = cfgs \/ cfgs' = [cfgs EXCEPT ![o][id] = row]
  BY DEF Upsert
<1>2. row \in CfgRow /\ row.name = n /\ row.source = s
  BY DEF CfgRow
<1> HIDE DEF row
<1>3. /\ cfgs \in [Orgs -> [Ids -> CfgRow \cup {Nil}]]
      /\ registry \in [Orgs -> SUBSET Names]
      /\ sourcesOf \in [Orgs -> [Names -> SUBSET Sources]]
  BY DEF LedgerInv, ConnTypes
<1>4. /\ registry' \in [Orgs -> SUBSET Names]
      /\ \A p \in Orgs : registry[p] \subseteq registry'[p]
  BY <1>3 DEF RecordConnector
<1>5. /\ sourcesOf' \in [Orgs -> [Names -> SUBSET Sources]]
      /\ s \in sourcesOf'[o][n]
      /\ \A p \in Orgs, m \in Names : sourcesOf[p][m] \subseteq sourcesOf'[p][m]
  BY <1>3 DEF Given
<1>6. Grows
  BY <1>5 DEF Grows, Has
<1>7. /\ cfgs' \in [Orgs -> [Ids -> CfgRow \cup {Nil}]]
      /\ \A p \in Orgs, i \in Ids : cfgs'[p][i] = cfgs[p][i] \/ (p = o /\ cfgs'[p][i] = row)
  <2>1. CASE cfgs' = cfgs
    BY <1>3, <2>1
  <2>2. CASE cfgs' = [cfgs EXCEPT ![o][id] = row]
    <3>1. cfgs' = [cfgs EXCEPT ![o] = [cfgs[o] EXCEPT ![id] = row]]
      BY <2>2
    <3>2. [cfgs[o] EXCEPT ![id] = row] \in [Ids -> CfgRow \cup {Nil}]
      BY <1>2, <1>3
    <3> QED
      BY <1>2, <1>3, <3>1, <3>2
  <2> QED
    BY <1>1, <2>1, <2>2
<1>8. ASSUME NEW p \in Orgs, NEW i \in Ids
      PROVE  RowIsGiven(p, i)'
  <2>1. CASE cfgs'[p][i] = cfgs[p][i]
    <3>1. RowIsGiven(p, i)
      BY DEF LedgerInv, Attributed
    <3>2. cfgs[p][i] # Nil => cfgs[p][i].name \in Names
      BY <1>3 DEF CfgRow
    <3> QED
      BY <1>5, <2>1, <3>1, <3>2 DEF RowIsGiven
  <2>2. CASE p = o /\ cfgs'[p][i] = row
    BY <1>2, <1>5, <2>2 DEF RowIsGiven
  <2> QED
    BY <1>7, <2>1, <2>2
<1> QED
  BY <1>4, <1>5, <1>6, <1>7, <1>8

\* A request that is changed or ends does so in time, while the time and the
\* ledger stand still.
LEMMA StaysTimely ==
    ASSUME LedgerInv, UNCHANGED <<published, ledger>>, NEW r \in Requests,
           NEW q, q.cursor <= published.now, request' = [request EXCEPT ![r] = q]
    PROVE  Timely'
<1>1. \A i \in Requests : request'[i] = IF i = r THEN q ELSE request[i]
  BY DEF LedgerInv, ConnTypes
<1> QED
  BY <1>1 DEF LedgerInv, ConnTypes, Timely

\* Time does not run backwards for an empty request.
LEMMA IdleIsTimely == LedgerInv => Idle.cursor <= published.now
  BY DEF LedgerInv, ConnTypes, Timely, Idle, InFlight

\* create_connector.
LEMMA CreateKeeps ==
    ASSUME LedgerInv, NEW o \in Orgs, NEW id \in Ids, NEW n \in Names, NEW s \in Sources,
           CreateConnector(o, id, n, s)
    PROVE  LedgerInv'
<1>1. /\ Upsert(o, id, [name |-> n, source |-> s]) /\ RecordConnector(o, n) /\ Given(o, n, s)
      /\ UNCHANGED <<ledger, recorded, ranHere, published, indexed, request>>
  BY DEF CreateConnector
<1>2. ConnTypes'
  BY <1>1, UpsertGives DEF LedgerInv, ConnTypes, Timely
<1> QED
  BY <1>1, <1>2, UpsertGives, ConfigStep

\* update_connector, its read and its write.
LEMMA UpdateKeeps ==
    ASSUME LedgerInv, NEW r \in Requests,
           \/ UpdatePut(r)
           \/ \E o \in Orgs, id \in Ids, n \in Names, s \in Sources : UpdateGet(r, o, id, n, s)
    PROVE  LedgerInv'
<1>1. CASE UpdatePut(r)
  <2> DEFINE q == request[r]
  <2>1. /\ q.step = "update" /\ Upsert(q.org, q.id, [name |-> q.name, source |-> q.source])
        /\ RecordConnector(q.org, q.name) /\ Given(q.org, q.name, q.source)
        /\ request' = [request EXCEPT ![r] = Idle]
        /\ UNCHANGED <<ledger, recorded, ranHere, published, indexed>>
    BY <1>1 DEF UpdatePut
  <2>2. q.org \in Orgs /\ q.id \in Ids /\ q.name \in Names /\ q.source \in Sources
    <3>1. q \in RequestRow
      BY <2>1 DEF LedgerInv, ConnTypes, Idle, InFlight
    <3> QED
      BY <3>1 DEF RequestRow
  <2>3. request' \in [Requests -> RequestRow \cup {Idle}]
    BY <2>1 DEF LedgerInv, ConnTypes
  <2>4. ConnTypes'
    BY <2>1, <2>2, <2>3, UpsertGives, StaysTimely, IdleIsTimely DEF LedgerInv, ConnTypes
  <2>5. request'[r] = Idle /\ \A i \in Requests \ {r} : request'[i] = request[i]
    BY <2>1 DEF LedgerInv, ConnTypes
  <2>6. SourceIsGiven(request[r])' /\ RunIsCovered(request[r])'
    BY <2>5, IdleIsCovered
  <2>7. \A i \in Requests : \/ request'[i] = request[i]
                            \/ SourceIsGiven(request[i])' /\ RunIsCovered(request[i])'
    BY <2>5, <2>6
  <2>8. /\ Grows /\ \A p \in Orgs : registry[p] \subseteq registry'[p]
        /\ \A p \in Orgs, i \in Ids : RowIsGiven(p, i)'
    BY <2>1, <2>2, UpsertGives
  <2> QED
    BY <2>1, <2>4, <2>7, <2>8, ConfigStep
<1>2. ASSUME NEW o \in Orgs, NEW id \in Ids, NEW n \in Names, NEW s \in Sources,
             UpdateGet(r, o, id, n, s)
      PROVE  LedgerInv'
  <2> DEFINE q == InFlight("update", o, id, n, s)
  <2>1. /\ request' = [request EXCEPT ![r] = q]
        /\ UNCHANGED <<cfgs, ledger, recorded, registry, ranHere, published, indexed, sourcesOf>>
    BY <1>2 DEF UpdateGet
  <2>3. q \in RequestRow /\ q.step = "update" /\ q.cursor <= published.now
    BY DEF RequestRow, InFlight, LedgerInv, ConnTypes, Timely
  <2> HIDE DEF q
  <2>4. /\ request' \in [Requests -> RequestRow \cup {Idle}] /\ request'[r] = q
        /\ \A i \in Requests \ {r} : request'[i] = request[i]
    BY <2>1, <2>3 DEF LedgerInv, ConnTypes
  <2>5. ConnTypes'
    BY <2>1, <2>3, <2>4, StaysTimely DEF LedgerInv, ConnTypes
  <2>6. SourceIsGiven(request[r])' /\ RunIsCovered(request[r])'
    BY <2>3, <2>4 DEF SourceIsGiven, RunIsCovered
  <2>7. Grows /\ \A p \in Orgs, i \in Ids : RowIsGiven(p, i)'
    BY <2>1 DEF Grows, Has, LedgerInv, Attributed, RowIsGiven
  <2>8. \A i \in Requests : \/ request'[i] = request[i]
                            \/ SourceIsGiven(request[i])' /\ RunIsCovered(request[i])'
    BY <2>4, <2>6
  <2> QED
    BY <2>1, <2>5, <2>7, <2>8, ConfigStep
<1> QED
  BY <1>1, <1>2

\* delete_connector.
LEMMA DeleteKeeps ==
    ASSUME LedgerInv, NEW o \in Orgs, NEW id \in Ids, DeleteConnector(o, id)
    PROVE  LedgerInv'
<1>1. UNCHANGED <<ledger, recorded, registry, ranHere, published, indexed, sourcesOf, request>>
  BY DEF DeleteConnector
<1>2. /\ cfgs' \in [Orgs -> [Ids -> CfgRow \cup {Nil}]]
      /\ \A p \in Orgs, i \in Ids : cfgs'[p][i] \in {cfgs[p][i], Nil}
  BY DEF DeleteConnector, LedgerInv, ConnTypes
<1>3. ConnTypes'
  BY <1>1, <1>2 DEF LedgerInv, ConnTypes, Timely
<1>4. Grows /\ \A p \in Orgs, i \in Ids : RowIsGiven(p, i)'
  BY <1>1, <1>2 DEF Grows, Has, LedgerInv, Attributed, RowIsGiven
<1> QED
  BY <1>1, <1>3, <1>4, ConfigStep

\* A document that appears is later than every cursor.
LEMMA PublishKeeps ==
    ASSUME LedgerInv, Publish
    PROVE  LedgerInv'
<1>1. UNCHANGED <<cfgs, ledger, recorded, registry, ranHere, indexed, sourcesOf, request>>
  BY DEF Publish
<1>2. /\ published \in [now : Nat, docs : SUBSET (Nat \ {0})]
      /\ \A d \in published.docs : d <= published.now
      /\ \A k \in Orgs \X Names : ledger[k] <= published.now /\ ledger[k] \in Nat
      /\ \A r \in Requests : request[r].cursor <= published.now /\ request[r].cursor \in Nat
  BY DEF LedgerInv, ConnTypes, Timely, RequestRow, Idle, InFlight
<1>3. PICK new \in {{}, {published.now + 1}} :
         published' = [now |-> published.now + 1, docs |-> published.docs \cup new]
  BY DEF Publish
<1>4. /\ published' \in [now : Nat, docs : SUBSET (Nat \ {0})]
      /\ published'.now = published.now + 1
      /\ \A d \in published'.docs : d \in published.docs \/ d = published.now + 1
  BY <1>2, <1>3
<1>5. Timely'
  BY <1>1, <1>2, <1>4 DEF Timely
<1>6. ConnTypes'
  BY <1>1, <1>5 DEF LedgerInv, ConnTypes
<1>7. Grows /\ \A p \in Orgs, i \in Ids : RowIsGiven(p, i)'
  BY <1>1, <1>2, <1>4 DEF Grows, Has, LedgerInv, Attributed, RowIsGiven
<1> QED
  BY <1>1, <1>6, <1>7, ConfigStep, RunStaysCovered

\* index_connector reads the row: the source was given to its name.
LEMMA IndexGetKeeps ==
    ASSUME LedgerInv, NEW r \in Requests, NEW o \in Orgs, NEW id \in Ids, IndexGet(r, o, id)
    PROVE  LedgerInv'
<1> DEFINE row == GetConnector(o, id)
           q == [InFlight("index", o, id, row.name, row.source) EXCEPT !.cursor = published.now]
<1>1. /\ row # Nil
      /\ request' = [request EXCEPT ![r] = q]
      /\ UNCHANGED <<cfgs, ledger, recorded, registry, ranHere, published, indexed, sourcesOf>>
  BY DEF IndexGet
<1>2. /\ row \in CfgRow /\ row.source \in sourcesOf[o][row.name]
  BY <1>1 DEF LedgerInv, ConnTypes, Attributed, RowIsGiven, GetConnector
<1> HIDE DEF row
<1>3. published.now \in Nat /\ published.now <= published.now
  BY DEF LedgerInv, ConnTypes, Timely
<1>4. /\ q \in RequestRow /\ q.step = "index" /\ q.org = o /\ q.name = row.name
      /\ q.source = row.source /\ q.cursor <= published.now
  <2>1. q = [step |-> "index", org |-> o, id |-> id, name |-> row.name, source |-> row.source,
             docs |-> {}, cursor |-> published.now]
    BY DEF InFlight
  <2>2. row.name \in Names /\ row.source \in Sources
    BY <1>2 DEF CfgRow
  <2> HIDE DEF q
  <2> QED
    BY <1>3, <2>1, <2>2 DEF RequestRow
<1> HIDE DEF q
<1>5. /\ request' \in [Requests -> RequestRow \cup {Idle}] /\ request'[r] = q
      /\ \A i \in Requests \ {r} : request'[i] = request[i]
  BY <1>1, <1>4 DEF LedgerInv, ConnTypes
<1>6. ConnTypes'
  BY <1>1, <1>4, <1>5, StaysTimely DEF LedgerInv, ConnTypes
<1>7. SourceIsGiven(request[r])' /\ RunIsCovered(request[r])'
  BY <1>1, <1>2, <1>4, <1>5 DEF SourceIsGiven, RunIsCovered
<1>8. Grows /\ \A p \in Orgs, i \in Ids : RowIsGiven(p, i)'
  BY <1>1 DEF Grows, Has, LedgerInv, Attributed, RowIsGiven
<1>9. \A i \in Requests : \/ request'[i] = request[i]
                          \/ SourceIsGiven(request[i])' /\ RunIsCovered(request[i])'
  BY <1>5, <1>7
<1> QED
  BY <1>1, <1>6, <1>8, <1>9, ConfigStep

\* The order of the naturals is a well-founded relation.
LEMMA NatOrder ==
    \E R : /\ IsWellFoundedOn(R, Nat)
           /\ \A a, b \in Nat : <<a, b>> \in R <=> a < b
<1>1. \A a, b \in Nat : <<a, b>> \in OpToRel(<, Nat) <=> a < b
  BY Zenon DEF OpToRel
<1> QED
  BY <1>1, NatLessThanWellFounded, Zenon

\* A set of times up to the present that is not empty has a last one.
LEMMA LastExists ==
    ASSUME NEW now \in Nat, NEW S \in SUBSET (0 .. now), S # {}
    PROVE  \E t \in S : \A u \in S : u <= t
<1> DEFINE T == {now - t : t \in S}
<1>1. PICK R : /\ IsWellFoundedOn(R, Nat)
               /\ \A a, b \in Nat : <<a, b>> \in R <=> a < b
  BY NatOrder, Zenon
<1>2. T \subseteq Nat /\ \A t \in S : now - t \in T
  OBVIOUS
<1>3. T # {}
  BY <1>2
<1> HIDE DEF T
<1>4. IsWellFoundedOn(R, Nat)
  BY <1>1
<1>5. \E x \in T : \A y \in T : ~(<<y, x>> \in R)
  BY <1>2, <1>3, <1>4, WFMin, Zenon
<1>6. PICK x \in T : \A y \in T : ~(y < x)
  BY <1>1, <1>2, <1>5
<1>7. PICK t \in S : x = now - t
  BY <1>6 DEF T
<1>8. ASSUME NEW u \in S PROVE u <= t
  <2>1. ~(now - u < now - t)
    BY <1>2, <1>6, <1>7
  <2> QED
    BY <2>1
<1> QED
  BY <1>8

\* The cursor of a run is not later than the present.
LEMMA PulledCursorIsTimely ==
    ASSUME NEW now \in Nat, NEW docs \in SUBSET (0 .. now), NEW timeless \in BOOLEAN,
           NEW startedAt \in 0 .. now, NEW since \in 0 .. now
    PROVE  PulledCursor(docs, timeless, startedAt, since) \in 0 .. now
<1>1. CASE docs # {}
  <2>1. \E t \in docs : \A d \in docs : d <= t
    BY <1>1, LastExists
  <2>2. PulledCursor(docs, timeless, startedAt, since) = CHOOSE t \in docs : \A d \in docs : d <= t
    BY <1>1 DEF PulledCursor
  <2>3. PulledCursor(docs, timeless, startedAt, since) \in docs
    BY <2>1, <2>2
  <2> QED
    BY <2>3
<1>2. CASE docs = {}
  BY <1>2 DEF PulledCursor
<1> QED
  BY <1>1, <1>2

\* run_once pulls from the ledger's cursor on, or everything: what lies below
\* the pull is indexed.
LEMMA PullKeeps ==
    ASSUME LedgerInv, NEW r \in Requests, IndexPull(r)
    PROVE  LedgerInv'
<1> DEFINE q == request[r]
           key == <<q.org, q.name>>
<1>1. /\ q.step = "index"
      /\ UNCHANGED <<cfgs, ledger, recorded, registry, ranHere, published, indexed, sourcesOf>>
  BY DEF IndexPull
<1>2. /\ q \in RequestRow /\ q.org \in Orgs /\ q.name \in Names
      /\ published.now \in Nat /\ published.docs \in SUBSET (0 .. published.now)
      /\ ledger[key] \in 0 .. published.now /\ q.cursor \in Nat
      /\ q.source \in sourcesOf[q.org][q.name]
      /\ request \in [Requests -> RequestRow \cup {Idle}]
  <2>1. q \in RequestRow /\ request \in [Requests -> RequestRow \cup {Idle}]
    BY <1>1 DEF LedgerInv, ConnTypes, Idle, InFlight
  <2>2. q.org \in Orgs /\ q.name \in Names /\ q.cursor \in Nat
    BY <2>1 DEF RequestRow
  <2>3. q.source \in sourcesOf[q.org][q.name]
    BY <1>1 DEF LedgerInv, Attributed, SourceIsGiven
  <2>4. /\ published.now \in Nat /\ published.docs \in SUBSET (0 .. published.now)
        /\ ledger[key] \in 0 .. published.now
    <3>1. key \in Orgs \X Names
      BY <2>2
    <3> QED
      BY <3>1 DEF LedgerInv, ConnTypes, Timely
  <2> QED
    BY <2>1, <2>2, <2>3, <2>4
<1>3. PICK failed \in BOOLEAN, timeless \in BOOLEAN, startedAt \in 0 .. published.now :
        LET since == LatestCursor(key, failed)
            docs == {d \in published.docs : d >= since}
        IN request' = [request EXCEPT
             ![r].step = "pulled", ![r].docs = docs,
             ![r].cursor = PulledCursor(docs, timeless, startedAt, since)]
  <2>1. q.cursor .. published.now \subseteq 0 .. published.now
    BY <1>2
  <2> QED
    BY <2>1 DEF IndexPull, Swallowed, ScopedKey
<1> DEFINE since == LatestCursor(key, failed)
           docs == {d \in published.docs : d >= since}
           cursor == PulledCursor(docs, timeless, startedAt, since)
           pulled == request'[r]
<1>4. since \in {0, ledger[key]} /\ since \in 0 .. published.now
  BY <1>2 DEF LatestCursor
<1>5. docs \in SUBSET Nat /\ cursor \in 0 .. published.now /\ cursor \in Nat /\ cursor <= published.now
  <2>1. docs \in SUBSET (0 .. published.now)
    BY <1>2
  <2>2. cursor \in 0 .. published.now
    <3> HIDE DEF docs, since
    <3> QED
      BY <1>2, <1>4, <2>1, PulledCursorIsTimely
  <2> HIDE DEF docs, cursor
  <2> QED
    BY <1>2, <2>1, <2>2
<1>6. \A d \in published.docs : d \in docs \/ d <= ledger[key]
  BY <1>2, <1>4
<1>7. request' = [request EXCEPT ![r].step = "pulled", ![r].docs = docs, ![r].cursor = cursor]
  BY <1>3
<1> HIDE DEF since, docs, cursor
<1>8. pulled = [q EXCEPT !.step = "pulled", !.docs = docs, !.cursor = cursor]
  BY <1>2, <1>7
<1>9. /\ pulled \in RequestRow
      /\ pulled.step = "pulled" /\ pulled.org = q.org /\ pulled.name = q.name
      /\ pulled.source = q.source /\ pulled.docs = docs /\ pulled.cursor = cursor
  <2> HIDE DEF pulled, q
  <2> QED
    BY <1>2, <1>5, <1>8 DEF RequestRow
<1>10. /\ request' \in [Requests -> RequestRow \cup {Idle}]
       /\ \A i \in Requests \ {r} : request'[i] = request[i]
  <2>1. request' = [request EXCEPT ![r] = pulled]
    BY <1>2, <1>7, <1>8
  <2> QED
    BY <1>2, <1>9, <2>1
<1>11. ConnTypes'
  <2>1. request' = [request EXCEPT ![r] = pulled]
    BY <1>2, <1>7, <1>8
  <2>2. Timely'
    <3> HIDE DEF pulled
    <3> QED
      BY <1>1, <1>5, <1>9, <2>1, StaysTimely
  <2> QED
    BY <1>1, <1>10, <2>2 DEF LedgerInv, ConnTypes
<1>12. SourceIsGiven(request[r])'
  BY <1>1, <1>2, <1>9 DEF SourceIsGiven
<1>13. ASSUME NEW s \in Sources, sourcesOf[q.org][q.name] = {s}, NEW d \in published.docs
       PROVE  d \in docs \/ Has(q.org, s, d)
  BY <1>2, <1>6, <1>13 DEF LedgerInv, Covered, CursorIsCovered
<1>14. RunIsCovered(request[r])'
  <2>1. \A o, s, d : Has(o, s, d) => Has(o, s, d)'
    BY <1>1 DEF Has
  <2>2. cursor \in Nat
    BY <1>5
  <2> QED
    BY <1>1, <1>9, <1>13, <2>1, <2>2 DEF RunIsCovered
<1>15. Grows /\ \A p \in Orgs, i \in Ids : RowIsGiven(p, i)'
  BY <1>1 DEF Grows, Has, LedgerInv, Attributed, RowIsGiven
<1>16. \A i \in Requests : \/ request'[i] = request[i]
                           \/ SourceIsGiven(request[i])' /\ RunIsCovered(request[i])'
  BY <1>10, <1>12, <1>14
<1> QED
  BY <1>1, <1>11, <1>15, <1>16, ConfigStep

\* A run that stored everything it pulled moves the ledger to its cursor; one
\* that failed or whose record is lost leaves it.
LEMMA RecordKeeps ==
    ASSUME LedgerInv, NEW r \in Requests, IndexRecord(r)
    PROVE  LedgerInv'
<1> DEFINE q == request[r]
           key == <<q.org, q.name>>
<1>1. /\ q.step = "pulled" /\ RecordConnector(q.org, q.name)
      /\ request' = [request EXCEPT ![r] = Idle]
      /\ UNCHANGED <<cfgs, published, sourcesOf>>
  BY DEF IndexRecord
<1>2. /\ q \in RequestRow /\ q.org \in Orgs /\ q.name \in Names /\ q.source \in Sources
      /\ q.docs \in SUBSET Nat /\ q.cursor \in Nat /\ q.cursor <= published.now
      /\ q.source \in sourcesOf[q.org][q.name] /\ RunIsCovered(q)
  <2>1. q \in RequestRow /\ q.cursor <= published.now
    BY <1>1 DEF LedgerInv, ConnTypes, Timely, Idle, InFlight
  <2>2. SourceIsGiven(q) /\ RunIsCovered(q)
    BY DEF LedgerInv, Attributed, Covered
  <2> QED
    BY <1>1, <2>1, <2>2 DEF RequestRow, SourceIsGiven
<1>3. PICK stored \in SUBSET q.docs, lost \in BOOLEAN :
        /\ indexed' = [indexed EXCEPT ![q.org] = @ \cup ({q.source} \X stored)]
        /\ RecordRun(key, IF stored = q.docs THEN q.cursor ELSE 0, lost)
  BY DEF IndexRecord, Swallowed, ScopedKey
<1> HIDE DEF q
<1>4. /\ ledger \in [Orgs \X Names -> Nat] /\ recorded \subseteq Orgs \X Names
      /\ indexed \in [Orgs -> SUBSET (Sources \X Nat)] /\ registry \in [Orgs -> SUBSET Names]
      /\ request \in [Requests -> RequestRow \cup {Idle}]
      /\ key \in Orgs \X Names
  BY <1>2 DEF LedgerInv, ConnTypes
<1>5. /\ indexed' \in [Orgs -> SUBSET (Sources \X Nat)]
      /\ \A o \in Orgs : indexed[o] \subseteq indexed'[o]
      /\ \A d \in stored : <<q.source, d>> \in indexed'[q.org]
  <2>1. {q.source} \X stored \subseteq Sources \X Nat
    BY <1>2, <1>3
  <2> QED
    BY <1>2, <1>3, <1>4, <2>1
<1>6. Grows
  BY <1>1, <1>5 DEF Grows, Has
<1>7. /\ \/ ledger' = ledger
         \/ stored = q.docs /\ ledger' = [ledger EXCEPT ![key] = q.cursor]
      /\ ledger' \in [Orgs \X Names -> Nat]
  <2>1. \/ ledger' = ledger
        \/ stored = q.docs /\ ledger' = [ledger EXCEPT ![key] = q.cursor]
    <3> DEFINE cursor == IF stored = q.docs THEN q.cursor ELSE 0
    <3>1. ledger[key] \in Nat
      BY <1>4
    <3>2. CASE ~lost /\ cursor > ledger[key]
      <4>1. stored = q.docs
        BY <3>1, <3>2
      <4> QED
        BY <1>3, <3>2, <4>1 DEF RecordRun
    <3>3. CASE ~(~lost /\ cursor > ledger[key])
      BY <1>3, <3>3 DEF RecordRun
    <3> QED
      BY <3>2, <3>3
  <2> QED
    BY <1>2, <1>4, <2>1
<1>8. /\ registry' = [registry EXCEPT ![q.org] = @ \cup {q.name}]
      /\ registry' \in [Orgs -> SUBSET Names]
  BY <1>1, <1>2, <1>4 DEF RecordConnector, q
<1>9. /\ request' \in [Requests -> RequestRow \cup {Idle}]
      /\ \A i \in Requests \ {r} : request'[i] = request[i]
      /\ request'[r] = Idle
  BY <1>1, <1>4
<1>10. recorded' \in {recorded, recorded \cup {key}} /\ ranHere' \in {ranHere, ranHere \cup {key}}
       /\ ranHere' \subseteq recorded'
  <2>1. ranHere \subseteq recorded
    BY DEF LedgerInv, Listed
  <2> QED
    BY <1>3, <2>1 DEF RecordRun
<1>11. ConnTypes'
  <2>1. Timely'
    <3>1. /\ Timely /\ Idle.cursor <= published.now
          /\ \A k \in Orgs \X Names : ledger'[k] = ledger[k] \/ ledger'[k] = q.cursor
      BY <1>4, <1>7, IdleIsTimely DEF LedgerInv, ConnTypes
    <3>2. \A i \in Requests : request'[i] = request[i] \/ request'[i] = Idle
      BY <1>9
    <3> QED
      BY <1>1, <1>2, <3>1, <3>2 DEF Timely
  <2> QED
    BY <1>1, <1>4, <1>5, <1>7, <1>8, <1>9, <1>10, <2>1 DEF LedgerInv, ConnTypes
<1>12. ASSUME NEW o \in Orgs, NEW n \in Names
       PROVE  CursorIsGiven(o, n)' /\ CursorIsCovered(o, n)'
  <2>1. CASE ledger'[<<o, n>>] = ledger[<<o, n>>]
    BY <1>6, <1>11, <2>1, CursorStaysCovered
  <2>2. CASE ledger'[<<o, n>>] # ledger[<<o, n>>]
    <3>1. o = q.org /\ n = q.name /\ stored = q.docs /\ ledger'[<<o, n>>] = q.cursor
      BY <1>2, <1>4, <1>7, <2>2
    <3>2. CursorIsGiven(o, n)'
      BY <1>1, <1>2, <3>1 DEF CursorIsGiven
    <3>3. ASSUME NEW s \in Sources, sourcesOf'[o][n] = {s}, NEW d \in published.docs,
                 d <= q.cursor
          PROVE  Has(o, s, d)'
      <4>1. s = q.source /\ sourcesOf[q.org][q.name] = {s}
        BY <1>1, <1>2, <3>1, <3>3
      <4>2. d \in q.docs \/ Has(o, s, d)
        <5>1. q.step = "pulled"
          BY <1>1 DEF q
        <5> QED
          BY <1>2, <3>1, <3>3, <4>1, <5>1 DEF RunIsCovered
      <4> QED
        BY <1>5, <1>6, <3>1, <4>1, <4>2 DEF Grows, Has
    <3> QED
      BY <1>1, <3>1, <3>2, <3>3 DEF CursorIsCovered
  <2> QED
    BY <2>1, <2>2
<1>13. ASSUME NEW i \in Requests
       PROVE  SourceIsGiven(request[i])' /\ RunIsCovered(request[i])'
  BY <1>6, <1>9, <1>11, IdleIsCovered, RunStaysCovered
<1>14. \A o \in Orgs, id \in Ids : RowIsGiven(o, id)'
  BY <1>1 DEF LedgerInv, Attributed, RowIsGiven
<1>15. Listed'
  <2>1. ASSUME NEW o \in Orgs, NEW n \in Names, <<o, n>> \in ranHere'
        PROVE  n \in registry'[o]
    <3>1. CASE <<o, n>> \in ranHere
      BY <1>4, <1>8, <3>1 DEF LedgerInv, Listed
    <3>2. CASE <<o, n>> = key
      BY <1>2, <1>4, <1>8, <3>2
    <3> QED
      BY <1>10, <2>1, <3>1, <3>2
  <2> QED
    BY <1>10, <2>1 DEF Listed
<1> QED
  BY <1>11, <1>12, <1>13, <1>14, <1>15 DEF LedgerInv, Attributed, Covered

\* A restart loses the requests and the registry, and with stores in memory the
\* ledger together with the knowledge it is about.
LEMMA RestartKeeps ==
    ASSUME LedgerInv, Restart
    PROVE  LedgerInv'
<1>1. /\ registry' = [o \in Orgs |-> {}] /\ ranHere' = {}
      /\ request' = [r \in Requests |-> Idle]
      /\ UNCHANGED <<published, sourcesOf>>
  BY DEF Restart
<1>2. \A r \in Requests : SourceIsGiven(request[r])' /\ RunIsCovered(request[r])'
  BY <1>1, IdleIsCovered
<1>3. Listed'
  BY <1>1 DEF Listed
<1>4. CASE RemoteStore
  <2>1. UNCHANGED <<cfgs, ledger, recorded, indexed>>
    BY <1>4 DEF Restart
  <2>2. ConnTypes' /\ Grows /\ \A o \in Orgs, id \in Ids : RowIsGiven(o, id)'
    BY <1>1, <2>1, IdleIsTimely DEF LedgerInv, ConnTypes, Timely, Grows, Has, Attributed, RowIsGiven
  <2>3. \A o \in Orgs, n \in Names : CursorIsGiven(o, n)' /\ CursorIsCovered(o, n)'
    BY <2>1, <2>2, CursorStaysCovered
  <2> QED
    BY <1>2, <1>3, <2>2, <2>3 DEF LedgerInv, Attributed, Covered
<1>5. CASE ~RemoteStore
  <2>1. /\ cfgs' = [o \in Orgs |-> [id \in Ids |-> Nil]]
        /\ ledger' = [k \in Orgs \X Names |-> 0]
        /\ recorded' = {} /\ indexed' = [o \in Orgs |-> {}]
    BY <1>5 DEF Restart
  <2>2. ConnTypes'
    BY <1>1, <2>1, IdleIsTimely DEF LedgerInv, ConnTypes, Timely, Idle, InFlight
  <2>3. \A o \in Orgs, id \in Ids : RowIsGiven(o, id)'
    BY <2>1 DEF RowIsGiven
  <2>4. \A o \in Orgs, n \in Names : ledger'[<<o, n>>] = 0
    BY <2>1
  <2>5. ASSUME NEW o \in Orgs, NEW n \in Names
        PROVE  CursorIsGiven(o, n)' /\ CursorIsCovered(o, n)'
    <3>1. ledger'[<<o, n>>] = 0 /\ \A d \in published'.docs : ~(d <= 0)
      BY <1>1, <2>4 DEF LedgerInv, ConnTypes, Timely
    <3> QED
      BY <3>1 DEF CursorIsGiven, CursorIsCovered
  <2> QED
    BY <1>2, <1>3, <2>2, <2>3, <2>5 DEF LedgerInv, Attributed, Covered
<1> QED
  BY <1>4, <1>5

\* For any number of organizations, connectors and overlapping runs: the
\* ledger's cursor skips only what is indexed, as long as a name has one source,
\* and the runs of this process are listed.
THEOREM LedgerStaysSound == Spec => []LedgerIsSound
<1>1. Init => LedgerInv
  <2> SUFFICES ASSUME Init PROVE LedgerInv
    OBVIOUS
  <2>1. ConnTypes
    BY DEF Init, ConnTypes, Timely, Idle, InFlight
  <2>2. Attributed /\ Covered /\ Listed
    BY DEF Init, Attributed, RowIsGiven, SourceIsGiven, CursorIsGiven, Covered, CursorIsCovered,
           RunIsCovered, Idle, InFlight, Listed
  <2> QED
    BY <2>1, <2>2 DEF LedgerInv
<1>2. LedgerInv /\ Started /\ [Next]_vars => LedgerInv'
  <2> SUFFICES ASSUME LedgerInv, Started, [Next]_vars PROVE LedgerInv'
    OBVIOUS
  <2>1. CASE UNCHANGED connVars
    BY <2>1 DEF LedgerInv, ConnTypes, Timely, Attributed, RowIsGiven, SourceIsGiven,
                CursorIsGiven, Covered, CursorIsCovered, RunIsCovered, Has, Listed, connVars
  <2>2. CASE part = "connectors" /\ ConnectorsNext
    <3>1. AdmittedOrgs(1) \subseteq Orgs /\ AdmittedOrgs(2) \subseteq Orgs
      BY <2>2, AdmittedHaveOrgs DEF AdmittedOrgs
    <3> QED
      BY <2>2, <3>1, CreateKeeps, UpdateKeeps, DeleteKeeps, PublishKeeps, IndexGetKeeps,
         PullKeeps, RecordKeeps, RestartKeeps DEF ConnectorsNext
  <2> QED
    BY <2>1, <2>2 DEF Next, vars
<1>3. LedgerInv => LedgerIsSound
  <2> SUFFICES ASSUME LedgerInv PROVE LedgerIsSound
    OBVIOUS
  <2>1. ASSUME NEW o \in Orgs, NEW n \in Names, NEW s \in Sources, sourcesOf[o][n] = {s},
               NEW d \in published.docs, d <= ledger[ScopedKey(o, n)]
        PROVE  <<s, d>> \in indexed[o]
    BY <2>1 DEF LedgerInv, Covered, CursorIsCovered, Has, ScopedKey
  <2>2. ASSUME NEW key \in ranHere
        PROVE  ScopedKey(key[1], key[2]) \in ListedRuns(key[1])
    <3>1. PICK o \in Orgs, n \in Names : key = <<o, n>>
      BY DEF LedgerInv, Listed, ConnTypes
    <3>2. n \in registry[o] /\ key \in recorded
      BY <3>1 DEF LedgerInv, Listed
    <3> QED
      BY <3>1, <3>2 DEF ScopedKey, ListedRuns
  <2> QED
    BY <2>1, <2>2 DEF LedgerIsSound
<1> QED
  BY <1>1, <1>2, <1>3, StaysStarted, PTL DEF Spec

-----------------------------------------------------------------------------
(* A pull *)

IssueRow == [at : Nat, comments : Nat]
Documents == [kind : {"file", "issue", "page"}, of : Paths \cup IssueIds \cup Hosts,
              text : Contents, comments : Nat, acl : {{}, {"github:owner/repo"}}]
Steps == {"github", "file", "web", "tree", "files", "issues", "asked", "done", "failed", "refused"}

\* A pull that was started; it asks guarded hosts only, and boundedly many.
PullRecord ==
    [step : Steps, cfg : Configs, auth : {"token", "anonymous", "refused"}, since : Nat,
     todo : SUBSET (Paths \cup IssueIds), changed : Nat, docs : SUBSET Documents,
     partial : SUBSET IssueIds, before : [IssueIds -> IssueRow], pushed : BOOLEAN,
     host : Hosts \cup {"none"}, asked : SUBSET PublicHosts, requests : 0 .. MaxRequests]

\* The sources' types, the last of the issues' times among them.
SourceTypes ==
    /\ tree \in [Paths -> Contents] /\ pinned \in [Paths -> Contents]
    /\ issues \in [IssueIds -> IssueRow]
    /\ \E t \in {issues[i].at : i \in IssueIds} \cup {0} : \A i \in IssueIds : issues[i].at <= t

\* Each step is one of its connector's kind.
KindFits ==
    /\ pull.step \in {"github", "tree", "issues"} => pull.cfg.kind = "github"
    /\ pull.step = "file" => pull.cfg.kind = "file"
    /\ pull.step = "files" => pull.cfg.kind \in {"github", "file"}
    /\ pull.step \in {"web", "asked"} => pull.cfg.kind = "web"

\* The documents carry their connector's list, and a private repository is read
\* with a token.
Scoped ==
    /\ pull.step # "refused" /\ pull.cfg.kind = "github" /\ pull.cfg.private => pull.auth = "token"
    /\ \A d \in pull.docs : d.acl = AclOf(pull.cfg)

\* What is to be read is what the source has, as long as that stands still: a
\* file that the connector indexes is a document already or still to be read.
StandsStill == pull.pushed => AtCommit(pull.cfg)
FilesSoFar ==
    /\ pull.step = "files" => pull.todo \subseteq PathsToRead(pull.cfg)
    /\ \A e \in Eligible(pull.cfg) :
         (pull.step = "files" /\ e[1] \in pull.todo) \/ e \in FilesOf(pull.docs)
    /\ pull.cfg.kind = "github" => FilesOf(pull.docs) \subseteq Eligible(pull.cfg)
FilesRead ==
    /\ pull.step \in {"github", "tree", "file"} => pull.docs = {}
    /\ /\ pull.step \in {"files", "issues", "done"} /\ pull.cfg.kind \in {"github", "file"}
       /\ StandsStill
       => FilesSoFar

\* Issues only change later and get more comments, so an issue that had changed
\* when the pull began is a document with its comments or still to be read.
IssuesMoveOn ==
    \A i \in IssueIds :
        /\ pull.before[i].at <= issues[i].at
        /\ pull.before[i].at > 0 => pull.before[i].comments <= issues[i].comments
IsRead(i) ==
    \E d \in pull.docs :
        /\ d.kind = "issue" /\ d.of = i
        /\ \/ i \in pull.partial
           \/ d.comments >= pull.before[i].comments \/ d.comments >= CommentPage
IssuesRead ==
    pull.step \in {"issues", "done"} /\ pull.cfg.kind = "github" /\ pull.changed <= IssuePage =>
        \A i \in IssueIds : pull.before[i].at > 0 /\ pull.before[i].at >= pull.since =>
            (pull.step = "issues" /\ i \in pull.todo) \/ IsRead(i)

Running == pull \in PullRecord /\ KindFits /\ Scoped /\ FilesRead /\ IssuesMoveOn /\ IssuesRead
PullInv == SourceTypes /\ (pull = [step |-> "idle"] \/ Running)

\* Clock is the time of the last change.
LEMMA ClockIsLast ==
    ASSUME SourceTypes
    PROVE  /\ Clock \in Nat /\ \A i \in IssueIds : issues[i].at <= Clock
           /\ Clock \in {issues[i].at : i \in IssueIds} \cup {0}
<1>1. \A i \in IssueIds : issues[i].at \in Nat
  BY DEF SourceTypes, IssueRow
<1>2. \E t \in {issues[i].at : i \in IssueIds} \cup {0} : \A i \in IssueIds : issues[i].at <= t
  BY DEF SourceTypes
<1>3. /\ Clock \in {issues[i].at : i \in IssueIds} \cup {0}
      /\ \A i \in IssueIds : issues[i].at <= Clock
  BY <1>2 DEF Clock
<1> QED
  BY <1>1, <1>3

\* A source that stands still gives the same files later.
LEMMA SourceStandsStill ==
    ASSUME pinned' = pinned, tree' = tree \/ AtCommit(pull.cfg), pull'.cfg = pull.cfg
    PROVE  /\ Eligible(pull.cfg)' = Eligible(pull.cfg)
           /\ PathsToRead(pull.cfg)' = PathsToRead(pull.cfg)
<1>1. TreeAt(pull.cfg)' = TreeAt(pull.cfg)
  BY DEF TreeAt, AtCommit
<1> QED
  BY <1>1 DEF Eligible, PathsToRead

\* The connectors read the paths whose text they index.
LEMMA EligibleIsRead ==
    ASSUME NEW cfg \in Configs, cfg.kind \in {"github", "file"}
    PROVE  /\ PathsToRead(cfg) \subseteq Paths
           /\ \A e \in Eligible(cfg) :
                /\ e[1] \in PathsToRead(cfg) /\ e = <<e[1], TreeAt(cfg)[e[1]]>>
                /\ TreeAt(cfg)[e[1]] \in {"text", "newer text"}
           /\ \A p \in PathsToRead(cfg) :
                cfg.kind = "github" /\ TreeAt(cfg)[p] \in {"text", "newer text"} =>
                    <<p, TreeAt(cfg)[p]>> \in Eligible(cfg)
<1> DEFINE Indexed(q) ==
             /\ TreeAt(cfg)[q] \in {"text", "newer text"}
             /\ cfg.kind = "github" => ~Shape[q].skip /\ (Shape[q].prose \/ Shape[q].code)
             /\ cfg.kind = "file" => IF cfg.root = "directory" THEN Shape[q].text ELSE q = cfg.root
<1>1. \A p \in Paths : Shape[p].skip \in BOOLEAN /\ Shape[p].prose \in BOOLEAN /\ Shape[p].code \in BOOLEAN
  BY ConnectorsAssumption DEF PathShape
<1>2. \A p \in Paths : ClassifyPath(Shape[p]) # "skip" <=>
                          ~Shape[p].skip /\ (Shape[p].prose \/ Shape[p].code)
  <2> SUFFICES ASSUME NEW p \in Paths
               PROVE  ClassifyPath(Shape[p]) # "skip" <=>
                          ~Shape[p].skip /\ (Shape[p].prose \/ Shape[p].code)
    OBVIOUS
  <2>1. CASE Shape[p].skip
    BY <2>1 DEF ClassifyPath
  <2>2. CASE ~Shape[p].skip /\ Shape[p].prose
    BY <2>2 DEF ClassifyPath
  <2>3. CASE ~Shape[p].skip /\ ~Shape[p].prose /\ Shape[p].code
    BY <2>3 DEF ClassifyPath
  <2>4. CASE ~Shape[p].skip /\ ~Shape[p].prose /\ ~Shape[p].code
    BY <2>4 DEF ClassifyPath
  <2> QED
    BY <2>1, <2>2, <2>3, <2>4
<1>3. Eligible(cfg) = {<<p, TreeAt(cfg)[p]>> : p \in {q \in Paths : Indexed(q)}}
  BY DEF Eligible
<1>4. cfg.kind = "file" => cfg.root \in Paths \cup {"directory"}
  BY DEF Configs, GithubConfig, WebConfig, FileConfig
<1>5. cfg.kind = "github" =>
        PathsToRead(cfg) = {p \in Paths : TreeAt(cfg)[p] # "absent" /\ ClassifyPath(Shape[p]) # "skip"}
  BY DEF PathsToRead
<1>6. cfg.kind = "file" =>
        PathsToRead(cfg) = IF cfg.root = "directory"
                           THEN {p \in Paths : TreeAt(cfg)[p] # "absent" /\ Shape[p].text}
                           ELSE {cfg.root}
  BY DEF PathsToRead
<1>7. PathsToRead(cfg) \subseteq Paths
  BY <1>4, <1>5, <1>6
<1>8. \A p \in Paths : Indexed(p) => p \in PathsToRead(cfg)
  BY <1>2, <1>5, <1>6
<1>9. \A p \in PathsToRead(cfg) :
        cfg.kind = "github" /\ TreeAt(cfg)[p] \in {"text", "newer text"} => Indexed(p)
  BY <1>2, <1>5, <1>7
<1>10. \A e \in Eligible(cfg) : \E p \in Paths : Indexed(p) /\ e = <<p, TreeAt(cfg)[p]>>
  BY <1>3
<1>11. \A p \in Paths : Indexed(p) => TreeAt(cfg)[p] \in {"text", "newer text"}
  OBVIOUS
<1>12. \A p \in Paths : Indexed(p) => <<p, TreeAt(cfg)[p]>> \in Eligible(cfg)
  BY <1>3
<1> HIDE DEF Indexed
<1>13. ASSUME NEW e \in Eligible(cfg)
       PROVE  /\ e[1] \in PathsToRead(cfg) /\ e = <<e[1], TreeAt(cfg)[e[1]]>>
              /\ TreeAt(cfg)[e[1]] \in {"text", "newer text"}
  <2>1. PICK p \in Paths : Indexed(p) /\ e = <<p, TreeAt(cfg)[p]>>
    BY <1>10
  <2>2. e[1] = p
    BY <2>1
  <2> QED
    BY <1>8, <1>11, <2>1, <2>2
<1> QED
  BY <1>7, <1>9, <1>12, <1>13

\* One more document is one more file, or none if it is of another kind.
LEMMA FilesOfMore ==
    ASSUME NEW docs, NEW d
    PROVE  /\ d.kind = "file" => FilesOf(docs \cup {d}) = FilesOf(docs) \cup {<<d.of, d.text>>}
           /\ d.kind # "file" => FilesOf(docs \cup {d}) = FilesOf(docs)
  BY DEF FilesOf

\* Issues that fit a page are all on the first one.
LEMMA FirstPageHasAll ==
    ASSUME NEW S \in SUBSET IssueIds, Cardinality(S) <= IssuePage
    PROVE  FirstPage(S) = S
<1>1. IsFiniteSet(S) /\ Cardinality(S) \in Nat
  BY ConnectorsAssumption, FS_Subset, FS_CardinalityType
<1>2. ASSUME NEW i \in S
      PROVE  Cardinality({j \in S : j > i}) < IssuePage
  <2> DEFINE T == {j \in S : j > i}
  <2>1. T \in SUBSET S /\ i \notin T
    BY ConnectorsAssumption
  <2>2. Cardinality(T) < Cardinality(S)
    <3>1. T # S
      BY <2>1
    <3>2. IsFiniteSet(T) /\ Cardinality(T) \in Nat /\ Cardinality(T) <= Cardinality(S)
          /\ (Cardinality(S) = Cardinality(T) => S = T)
      BY <1>1, <2>1, FS_Subset, FS_CardinalityType
    <3> QED
      BY <1>1, <3>1, <3>2
  <2>3. Cardinality(T) \in Nat
    BY <1>1, <2>1, FS_Subset, FS_CardinalityType
  <2> HIDE DEF T
  <2>4. Cardinality(T) < IssuePage
    BY <1>1, <2>2, <2>3, ConnectorsAssumption
  <2> QED
    BY <2>4 DEF T
<1> QED
  BY <1>2 DEF FirstPage

\* A step of the pull itself: its configuration and the sources stay.
SameRun ==
    /\ pull \in PullRecord /\ pull' \in PullRecord /\ pull.step # "refused"
    /\ pull'.cfg = pull.cfg /\ pull'.auth = pull.auth /\ pull'.since = pull.since
    /\ pull'.before = pull.before /\ pull'.pushed = pull.pushed
    /\ UNCHANGED <<tree, pinned, issues>>

\* What such a step leaves as it was.
LEMMA SameRunKeeps ==
    ASSUME Running, SameRun
    PROVE  /\ IssuesMoveOn' /\ (StandsStill' <=> StandsStill)
           /\ Eligible(pull.cfg)' = Eligible(pull.cfg)
           /\ PathsToRead(pull.cfg)' = PathsToRead(pull.cfg)
           /\ (\A d \in pull'.docs : d \in pull.docs \/ d.acl = AclOf(pull.cfg)) => Scoped'
<1>1. IssuesMoveOn'
  BY DEF Running, SameRun, IssuesMoveOn
<1>2. /\ Eligible(pull.cfg)' = Eligible(pull.cfg)
      /\ PathsToRead(pull.cfg)' = PathsToRead(pull.cfg)
  BY SourceStandsStill DEF SameRun
<1>3. StandsStill' <=> StandsStill
  BY DEF SameRun, StandsStill, AtCommit
<1>4. (\A d \in pull'.docs : d \in pull.docs \/ d.acl = AclOf(pull.cfg)) => Scoped'
  BY DEF Running, SameRun, Scoped, AclOf
<1> QED
  BY <1>1, <1>2, <1>3, <1>4

\* A failed pull returns no documents.
LEMMA FailKeeps ==
    ASSUME Running, pull.step # "refused", UNCHANGED <<tree, pinned, issues>>,
           \/ pull' = [pull EXCEPT !.step = "failed", !.docs = {}]
           \/ pull' = [pull EXCEPT !.step = "failed"]
    PROVE  Running'
<1>1. /\ SameRun /\ pull'.step = "failed" /\ pull'.docs \subseteq pull.docs
  <2>1. pull \in PullRecord
    BY DEF Running
  <2>2. CASE pull' = [pull EXCEPT !.step = "failed", !.docs = {}]
    BY <2>1, <2>2 DEF SameRun, PullRecord, Steps
  <2>3. CASE pull' = [pull EXCEPT !.step = "failed"]
    BY <2>1, <2>3 DEF SameRun, PullRecord, Steps
  <2> QED
    BY <2>2, <2>3
<1>2. Scoped' /\ IssuesMoveOn'
  BY <1>1, SameRunKeeps
<1>3. KindFits' /\ FilesRead' /\ IssuesRead'
  BY <1>1 DEF KindFits, FilesRead, IssuesRead
<1> QED
  BY <1>1, <1>2, <1>3 DEF Running, SameRun

\* resolve_ref.
LEMMA ResolveKeeps ==
    ASSUME Running, ResolveRef
    PROVE  Running'
<1>0. pull \in PullRecord /\ pull.step = "github"
  BY DEF Running, ResolveRef, InPull
<1>1. SameRun /\ pull'.step = "tree" /\ pull'.docs = pull.docs
  BY <1>0 DEF ResolveRef, SameRun, PullRecord, Steps
<1>2. Scoped' /\ IssuesMoveOn'
  BY <1>1, SameRunKeeps
<1>3. KindFits' /\ FilesRead' /\ IssuesRead'
  BY <1>0, <1>1 DEF Running, SameRun, KindFits, FilesRead, IssuesRead
<1> QED
  BY <1>1, <1>2, <1>3 DEF Running, SameRun

\* list_tree and collect_files: every file to index is to be read.
LEMMA ListPathsKeeps ==
    ASSUME Running, ListPaths
    PROVE  Running'
<1>0. /\ pull \in PullRecord /\ pull.step \in {"tree", "file"} /\ pull.docs = {}
      /\ pull.cfg \in Configs /\ pull.cfg.kind \in {"github", "file"}
  <2>1. pull \in PullRecord /\ pull.step \in {"tree", "file"}
    BY DEF Running, ListPaths, InPull
  <2>2. pull.docs = {} /\ pull.cfg.kind \in {"github", "file"}
    BY <2>1 DEF Running, FilesRead, KindFits
  <2> QED
    BY <2>1, <2>2 DEF PullRecord
<1> DEFINE todo == PathsToRead(pull.cfg)
<1>1. todo \subseteq Paths
  BY <1>0, EligibleIsRead
<1>2. pull' = [pull EXCEPT !.step = "files", !.todo = todo] /\ UNCHANGED <<tree, pinned, issues>>
  BY DEF ListPaths
<1>3. SameRun /\ pull'.step = "files" /\ pull'.docs = pull.docs /\ pull'.todo = PathsToRead(pull.cfg)
  <2> HIDE DEF todo
  <2>1. SameRun /\ pull'.step = "files" /\ pull'.docs = pull.docs /\ pull'.todo = todo
    BY <1>0, <1>1, <1>2 DEF SameRun, PullRecord, Steps
  <2> QED
    BY <2>1 DEF todo
<1>4. Scoped' /\ IssuesMoveOn'
  BY <1>3, SameRunKeeps
<1>5. KindFits' /\ IssuesRead'
  BY <1>0, <1>3 DEF SameRun, KindFits, IssuesRead
<1>6. FilesSoFar'
  <2>1. FilesOf(pull'.docs) = {}
    BY <1>0, <1>3 DEF FilesOf
  <2>2. \A e \in Eligible(pull.cfg)' : e[1] \in pull'.todo
    BY <1>0, <1>3, SameRunKeeps, EligibleIsRead
  <2>3. pull'.todo \subseteq PathsToRead(pull.cfg)'
    BY <1>3, SameRunKeeps
  <2> QED
    BY <1>3, <2>1, <2>2, <2>3 DEF FilesSoFar
<1>7. FilesRead'
  BY <1>3, <1>6 DEF FilesRead
<1> QED
  BY <1>3, <1>4, <1>5, <1>7 DEF Running, SameRun

\* The files are read: a file connector is done, a repository's issues are next.
\* Those that had changed when the pull began are still among the changed ones.
LEMMA FilesEndKeeps ==
    ASSUME SourceTypes, Running, FilesDone \/ ListIssues
    PROVE  Running'
<1>0. /\ pull \in PullRecord /\ pull.step = "files" /\ pull.todo = {}
      /\ UNCHANGED <<tree, pinned, issues>>
  BY DEF Running, FilesDone, ListIssues, InPull
<1>1. ASSUME SameRun, pull'.docs = pull.docs, pull'.step \in {"issues", "done"}
      PROVE  Scoped' /\ IssuesMoveOn' /\ FilesRead'
  <2>1. Scoped' /\ IssuesMoveOn'
    BY <1>1, SameRunKeeps
  <2>2. ASSUME StandsStill
        PROVE  FilesSoFar'
    <3>1. FilesSoFar
      BY <1>0, <2>2 DEF Running, FilesRead, KindFits
    <3>2. /\ Eligible(pull.cfg)' = Eligible(pull.cfg) /\ pull'.cfg = pull.cfg
          /\ pull'.docs = pull.docs /\ pull'.step # "files"
      BY <1>1, SameRunKeeps DEF SameRun
    <3>3. Eligible(pull.cfg) \subseteq FilesOf(pull.docs)
      BY <1>0, <3>1 DEF FilesSoFar
    <3> QED
      BY <3>1, <3>2, <3>3 DEF FilesSoFar
  <2>3. FilesRead'
    BY <1>1, <2>2, SameRunKeeps DEF FilesRead
  <2> QED
    BY <2>1, <2>3
<1>2. CASE FilesDone
  <2>1. SameRun /\ pull'.step = "done" /\ pull'.docs = pull.docs /\ pull.cfg.kind = "file"
    BY <1>0, <1>2 DEF FilesDone, SameRun, PullRecord, Steps
  <2>2. KindFits' /\ IssuesRead'
    BY <2>1 DEF SameRun, KindFits, IssuesRead
  <2> QED
    BY <1>1, <2>1, <2>2 DEF Running, SameRun
<1>3. CASE ListIssues
  <2> DEFINE changed == ChangedSince(pull.since)
             page == FirstPage(changed)
             many == Cardinality(changed)
  <2>1. pull' = [pull EXCEPT !.step = "issues", !.todo = page, !.changed = many]
    BY <1>3 DEF ListIssues
  <2>2. changed \subseteq IssueIds /\ page \subseteq IssueIds /\ many \in Nat
    <3>1. changed \subseteq IssueIds /\ page \subseteq changed
      BY DEF ChangedSince, FirstPage
    <3>2. IsFiniteSet(changed)
      BY <3>1, ConnectorsAssumption, FS_Subset
    <3> QED
      BY <3>1, <3>2, FS_CardinalityType
  <2>3. /\ SameRun /\ pull'.step = "issues" /\ pull'.docs = pull.docs
        /\ pull'.todo = page /\ pull'.changed = many
    <3> HIDE DEF page, many
    <3> QED
      BY <1>0, <2>1, <2>2 DEF SameRun, PullRecord, Steps
  <2>4. pull.cfg.kind = "github"
    BY <1>3 DEF ListIssues
  <2>5. KindFits'
    BY <2>3, <2>4 DEF SameRun, KindFits
  <2>6. ASSUME many <= IssuePage, NEW i \in IssueIds,
               pull.before[i].at > 0, pull.before[i].at >= pull.since
        PROVE  i \in page
    <3>1. pull.before[i].at \in Nat /\ issues[i].at \in Nat /\ pull.since \in Nat
      BY <1>0 DEF PullRecord, SourceTypes, IssueRow
    <3>2. pull.before[i].at <= issues[i].at
      BY DEF Running, IssuesMoveOn
    <3>3. i \in changed
      BY <2>6, <3>1, <3>2 DEF ChangedSince
    <3> QED
      BY <2>2, <2>6, <3>3, FirstPageHasAll
  <2>7. IssuesRead'
    <3> HIDE DEF page, many
    <3> QED
      BY <2>3, <2>6 DEF SameRun, IssuesRead
  <2> QED
    BY <1>1, <2>3, <2>5, <2>7 DEF Running, SameRun
<1> QED
  BY <1>2, <1>3

\* A path is read: a file to index becomes a document or fails the pull.
LEMMA ReadPathKeeps ==
    ASSUME SourceTypes, Running, NEW p \in Paths, ReadPath(p)
    PROVE  Running'
<1> DEFINE content == TreeAt(pull.cfg)[p]
           result == IF pull.cfg.kind = "github" THEN BlobResult(content) ELSE ReadResult(content)
           doc == Doc("file", p, content, 0)
           docs == IF result = "document" THEN pull.docs \cup {doc} ELSE pull.docs
<1>0. /\ pull \in PullRecord /\ pull.step = "files" /\ p \in pull.todo
      /\ pull.cfg \in Configs /\ pull.cfg.kind \in {"github", "file"}
      /\ UNCHANGED <<tree, pinned, issues>>
  <2>1. /\ pull \in PullRecord /\ pull.step = "files" /\ p \in pull.todo
        /\ UNCHANGED <<tree, pinned, issues>>
    BY DEF Running, ReadPath, InPull
  <2> QED
    BY <2>1 DEF Running, KindFits, PullRecord
<1>1. CASE result = "error"
  <2>1. pull' = [pull EXCEPT !.step = "failed", !.docs = {}]
    BY <1>1 DEF ReadPath
  <2> QED
    BY <1>0, <2>1, FailKeeps
<1>2. CASE result # "error"
  <2>1. pull' = [pull EXCEPT !.todo = @ \ {p}, !.docs = docs]
    BY <1>2 DEF ReadPath
  <2>2. content \in Contents
    BY DEF SourceTypes, TreeAt
  <2>3. /\ doc \in Documents /\ doc.kind = "file" /\ doc.of = p /\ doc.text = content
        /\ doc.acl = AclOf(pull.cfg)
    <3>1. AclOf(pull.cfg) \in {{}, {"github:owner/repo"}}
      BY DEF AclOf
    <3> HIDE DEF content
    <3> QED
      BY <2>2, <3>1 DEF Doc, Documents
  <2>4. docs \in SUBSET Documents /\ \A d \in docs : d \in pull.docs \/ d.acl = AclOf(pull.cfg)
    <3>1. pull.docs \in SUBSET Documents
      BY <1>0 DEF PullRecord
    <3> HIDE DEF doc, result
    <3> QED
      BY <2>3, <3>1
  <2>5. SameRun /\ pull'.step = "files" /\ pull'.docs = docs /\ pull'.todo = pull.todo \ {p}
    <3> HIDE DEF docs
    <3> QED
      BY <1>0, <2>1, <2>4 DEF SameRun, PullRecord
  <2>6. Scoped' /\ IssuesMoveOn'
    BY <2>4, <2>5, SameRunKeeps
  <2>7. KindFits' /\ IssuesRead'
    BY <1>0, <2>5 DEF SameRun, KindFits, IssuesRead
  <2>8. ASSUME StandsStill
        PROVE  FilesSoFar'
    <3>1. /\ pull.todo \subseteq PathsToRead(pull.cfg)
          /\ \A e \in Eligible(pull.cfg) : e[1] \in pull.todo \/ e \in FilesOf(pull.docs)
          /\ pull.cfg.kind = "github" => FilesOf(pull.docs) \subseteq Eligible(pull.cfg)
      BY <1>0, <2>8 DEF Running, FilesRead, FilesSoFar
    <3>2. content \in {"text", "newer text"} => result = "document"
      BY DEF BlobResult, ReadResult
    <3>3. result = "document" /\ pull.cfg.kind = "github" => content \in {"text", "newer text"}
      BY <2>2 DEF BlobResult, Contents
    <3> HIDE DEF doc, result
    <3>4. /\ result = "document" => FilesOf(docs) = FilesOf(pull.docs) \cup {<<p, content>>}
          /\ result # "document" => FilesOf(docs) = FilesOf(pull.docs)
      BY <2>3, FilesOfMore
    <3>5. ASSUME NEW e \in Eligible(pull.cfg)
          PROVE  e[1] \in pull.todo \ {p} \/ e \in FilesOf(docs)
      <4>1. e = <<e[1], TreeAt(pull.cfg)[e[1]]>> /\ TreeAt(pull.cfg)[e[1]] \in {"text", "newer text"}
        BY <1>0, EligibleIsRead
      <4> HIDE DEF docs
      <4>2. CASE e[1] = p
        BY <3>2, <3>4, <4>1, <4>2
      <4>3. CASE e[1] # p
        BY <3>1, <3>4, <4>3
      <4> QED
        BY <4>2, <4>3
    <3>6. pull.cfg.kind = "github" => FilesOf(docs) \subseteq Eligible(pull.cfg)
      <4>1. pull.cfg.kind = "github" /\ result = "document" => <<p, content>> \in Eligible(pull.cfg)
        BY <1>0, <3>1, <3>3, EligibleIsRead
      <4> HIDE DEF docs, content
      <4> QED
        BY <3>1, <3>4, <4>1
    <3>7. /\ Eligible(pull.cfg)' = Eligible(pull.cfg) /\ PathsToRead(pull.cfg)' = PathsToRead(pull.cfg)
          /\ pull'.cfg = pull.cfg
      BY <2>5, SameRunKeeps DEF SameRun
    <3> HIDE DEF docs
    <3> QED
      BY <2>5, <3>1, <3>5, <3>6, <3>7 DEF FilesSoFar
  <2>9. FilesRead'
    BY <2>5, <2>8, SameRunKeeps DEF FilesRead
  <2> QED
    BY <2>5, <2>6, <2>7, <2>9 DEF Running, SameRun
<1> QED
  BY <1>1, <1>2

\* issue_to_doc: the issue has at least the comments it had when the pull began.
LEMMA ReadIssueKeeps ==
    ASSUME SourceTypes, Running, NEW i \in IssueIds, ReadIssue(i)
    PROVE  Running'
<1>0. /\ pull \in PullRecord /\ pull.step = "issues" /\ i \in pull.todo
      /\ UNCHANGED <<tree, pinned, issues>> /\ pull.cfg.kind = "github"
      /\ pull.docs \in SUBSET Documents
  <2>1. /\ pull \in PullRecord /\ pull.step = "issues" /\ i \in pull.todo
        /\ UNCHANGED <<tree, pinned, issues>>
    BY DEF Running, ReadIssue, InPull
  <2> QED
    BY <2>1 DEF Running, KindFits, PullRecord
<1> DEFINE all == issues[i].comments
           Read(failed) == IF failed THEN 0 ELSE IF all > CommentPage THEN CommentPage ELSE all
<1>1. PICK failed \in BOOLEAN :
        pull' = [pull EXCEPT !.todo = @ \ {i},
                             !.docs = @ \cup {Doc("issue", i, "text", Read(failed))},
                             !.partial = IF failed THEN @ \cup {i} ELSE @]
  BY DEF ReadIssue
<1> DEFINE read == Read(failed)
           doc == Doc("issue", i, "text", read)
           partial == IF failed THEN pull.partial \cup {i} ELSE pull.partial
<1>2. all \in Nat /\ CommentPage \in Nat
  BY ConnectorsAssumption DEF SourceTypes, IssueRow
<1>3. read \in Nat /\ (failed \/ read >= all \/ read >= CommentPage)
  BY <1>2
<1> HIDE DEF all, read
<1>4. /\ doc \in Documents /\ doc.kind = "issue" /\ doc.of = i /\ doc.comments = read
      /\ doc.acl = AclOf(pull.cfg)
  <2>1. AclOf(pull.cfg) \in {{}, {"github:owner/repo"}}
    BY DEF AclOf
  <2> QED
    BY <1>3, <2>1 DEF Doc, Documents, Contents
<1>5. pull' = [pull EXCEPT !.todo = @ \ {i}, !.docs = @ \cup {doc}, !.partial = partial]
  BY <1>1 DEF read
<1> HIDE DEF doc
<1>6. partial \in SUBSET IssueIds /\ pull.partial \subseteq partial /\ (failed => i \in partial)
  BY <1>0 DEF PullRecord
<1> HIDE DEF partial
<1>7. /\ SameRun /\ pull'.step = "issues" /\ pull'.docs = pull.docs \cup {doc}
      /\ pull'.todo = pull.todo \ {i} /\ pull'.partial = partial /\ pull'.changed = pull.changed
  BY <1>0, <1>4, <1>5, <1>6 DEF SameRun, PullRecord
<1>8. Scoped' /\ IssuesMoveOn'
  BY <1>4, <1>7, SameRunKeeps
<1>9. KindFits'
  BY <1>0, <1>7 DEF SameRun, KindFits
<1>10. FilesRead'
  <2>1. ASSUME StandsStill
        PROVE  FilesSoFar'
    <3>1. FilesSoFar
      BY <1>0, <2>1 DEF Running, FilesRead
    <3>2. FilesOf(pull'.docs) = FilesOf(pull.docs)
      BY <1>4, <1>7, FilesOfMore
    <3>3. Eligible(pull.cfg)' = Eligible(pull.cfg) /\ pull'.cfg = pull.cfg
      BY <1>7, SameRunKeeps DEF SameRun
    <3> QED
      BY <1>0, <1>7, <3>1, <3>2, <3>3 DEF FilesSoFar
  <2> QED
    BY <1>7, <2>1, SameRunKeeps DEF FilesRead
<1>11. ASSUME pull.changed <= IssuePage, NEW j \in IssueIds,
              pull.before[j].at > 0, pull.before[j].at >= pull.since
       PROVE  j \in pull.todo \ {i} \/ IsRead(j)'
  <2>1. CASE j = i
    <3>1. pull.before[i].comments <= all /\ pull.before[i].comments \in Nat
      BY <1>0, <1>11, <2>1 DEF Running, IssuesMoveOn, PullRecord, IssueRow, all
    <3>2. i \in partial \/ read >= pull.before[i].comments \/ read >= CommentPage
      BY <1>2, <1>3, <1>6, <3>1
    <3>3. doc \in pull'.docs /\ pull'.partial = partial /\ pull'.before = pull.before
      BY <1>7 DEF SameRun
    <3> QED
      BY <1>4, <2>1, <3>2, <3>3 DEF IsRead
  <2>2. CASE j # i
    <3>1. j \in pull.todo \/ IsRead(j)
      BY <1>0, <1>11 DEF Running, IssuesRead
    <3>2. /\ pull.docs \subseteq pull'.docs /\ pull.partial \subseteq pull'.partial
          /\ pull'.before = pull.before
      BY <1>6, <1>7 DEF SameRun
    <3>3. IsRead(j) => IsRead(j)'
      BY <3>2 DEF IsRead
    <3> QED
      BY <2>2, <3>1, <3>3
  <2> QED
    BY <2>1, <2>2
<1>12. IssuesRead'
  BY <1>7, <1>11 DEF SameRun, IssuesRead
<1> QED
  BY <1>7, <1>8, <1>9, <1>10, <1>12 DEF Running, SameRun

\* The issues are read.
LEMMA IssuesDoneKeeps ==
    ASSUME Running, IssuesDone
    PROVE  Running'
<1>0. pull \in PullRecord /\ pull.step = "issues" /\ pull.todo = {} /\ pull.cfg.kind = "github"
  BY DEF Running, KindFits, IssuesDone, InPull
<1>1. /\ SameRun /\ pull'.step = "done" /\ pull'.docs = pull.docs
      /\ pull'.partial = pull.partial /\ pull'.changed = pull.changed
  BY <1>0 DEF IssuesDone, SameRun, PullRecord, Steps
<1>2. Scoped' /\ IssuesMoveOn' /\ KindFits'
  BY <1>1, SameRunKeeps DEF KindFits
<1>3. FilesRead'
  <2>1. ASSUME StandsStill
        PROVE  FilesSoFar'
    <3>1. FilesSoFar
      BY <1>0, <2>1 DEF Running, FilesRead
    <3>2. Eligible(pull.cfg)' = Eligible(pull.cfg) /\ pull'.cfg = pull.cfg
      BY <1>1, SameRunKeeps DEF SameRun
    <3> QED
      BY <1>0, <1>1, <3>1, <3>2 DEF FilesSoFar
  <2> QED
    BY <1>1, <2>1, SameRunKeeps DEF FilesRead
<1>4. IssuesRead'
  <2>1. \A i \in IssueIds : IsRead(i) => IsRead(i)'
    BY <1>1 DEF SameRun, IsRead
  <2> QED
    BY <1>0, <1>1, <2>1 DEF Running, SameRun, IssuesRead
<1> QED
  BY <1>1, <1>2, <1>3, <1>4 DEF Running, SameRun

\* A web pull: every host that is asked was guarded.
LEMMA WebKeeps ==
    ASSUME Running, AskHost \/ TakeBody \/ \E h \in Hosts : FollowRedirect(h)
    PROVE  Running'
<1>0. /\ pull \in PullRecord /\ pull.step \in {"web", "asked"} /\ UNCHANGED <<tree, pinned, issues>>
      /\ pull.cfg \in Configs /\ pull.cfg.kind = "web" /\ pull.cfg.host \in Hosts
      /\ MaxRequests \in Nat \ {0} /\ pull.requests \in 0 .. MaxRequests
      /\ pull.asked \subseteq PublicHosts /\ PublicHosts \subseteq Hosts
  <2>1. /\ pull \in PullRecord /\ pull.step \in {"web", "asked"}
        /\ UNCHANGED <<tree, pinned, issues>>
    BY DEF Running, AskHost, TakeBody, FollowRedirect, InPull
  <2>2. pull.cfg \in Configs /\ pull.requests \in 0 .. MaxRequests /\ pull.asked \subseteq PublicHosts
    BY <2>1 DEF PullRecord
  <2>3. pull.cfg.kind = "web"
    BY <2>1 DEF Running, KindFits
  <2>4. pull.cfg.host \in Hosts
    BY <2>2, <2>3 DEF Configs, GithubConfig, WebConfig, FileConfig
  <2> QED
    BY <2>1, <2>2, <2>3, <2>4, ConnectorsAssumption
<1>1. ASSUME SameRun, pull'.step \in {"asked", "done"},
             \A d \in pull'.docs : d \in pull.docs \/ d.acl = AclOf(pull.cfg)
      PROVE  Running'
  <2>1. Scoped' /\ IssuesMoveOn'
    BY <1>1, SameRunKeeps
  <2>2. KindFits' /\ FilesRead' /\ IssuesRead'
    BY <1>0, <1>1 DEF SameRun, KindFits, FilesRead, IssuesRead
  <2> QED
    BY <1>1, <2>1, <2>2 DEF Running, SameRun
<1>2. CASE pull' = [pull EXCEPT !.step = "failed"]
  BY <1>0, <1>2, FailKeeps
<1>3. ASSUME NEW h \in PublicHosts,
             pull' = [pull EXCEPT !.step = "asked", !.host = h, !.asked = {h}, !.requests = 1]
      PROVE  Running'
  <2>1. h \in Hosts /\ 1 \in 0 .. MaxRequests
    BY <1>0
  <2>2. SameRun /\ pull'.step = "asked" /\ pull'.docs = pull.docs
    BY <1>0, <1>3, <2>1 DEF SameRun, PullRecord, Steps
  <2> QED
    BY <1>1, <2>2
<1>4. ASSUME NEW h \in PublicHosts, pull.requests < MaxRequests, pull.step = "asked",
             pull' = [pull EXCEPT !.host = h, !.asked = @ \cup {h}, !.requests = @ + 1]
      PROVE  Running'
  <2>1. h \in Hosts /\ pull.requests + 1 \in 0 .. MaxRequests /\ pull.asked \cup {h} \subseteq PublicHosts
    BY <1>0, <1>4
  <2>2. SameRun /\ pull'.step = "asked" /\ pull'.docs = pull.docs
    BY <1>0, <1>4, <2>1 DEF SameRun, PullRecord
  <2> QED
    BY <1>1, <2>2
<1>5. CASE TakeBody
  <2> DEFINE doc == Doc("page", pull.cfg.host, "text", 0)
  <2>1. doc \in Documents /\ doc.acl = AclOf(pull.cfg)
    <3>1. AclOf(pull.cfg) \in {{}, {"github:owner/repo"}}
      BY DEF AclOf
    <3> QED
      BY <1>0, <3>1 DEF Doc, Documents, Contents
  <2>2. pull' = [pull EXCEPT !.step = "done", !.docs = {doc}]
    BY <1>5 DEF TakeBody
  <2> HIDE DEF doc
  <2>3. SameRun /\ pull'.step = "done" /\ pull'.docs = {doc}
    BY <1>0, <2>1, <2>2 DEF SameRun, PullRecord, Steps
  <2> QED
    BY <1>1, <2>1, <2>3
<1>6. CASE AskHost
  BY <1>2, <1>3, <1>6 DEF AskHost, IsPublic
<1>7. ASSUME NEW h \in Hosts, FollowRedirect(h)
      PROVE  Running'
  BY <1>2, <1>4, <1>7 DEF FollowRedirect, IsPublic, InPull
<1> QED
  BY <1>5, <1>6, <1>7

\* index_connector builds the connector: with a token if the repository is
\* private, or it refuses.
LEMMA StartKeeps ==
    ASSUME SourceTypes, NEW cfg \in Configs, NEW since \in Nat, ValidateConnector(cfg),
           \/ BuildConnector(cfg) # "refused" /\ pull' = Built(cfg, since)
           \/ pull' = [Built(cfg, since) EXCEPT !.step = "refused"],
           UNCHANGED <<tree, pinned, issues>>
    PROVE  Running'
<1> DEFINE built == Built(cfg, since)
<1>1. cfg.kind \in {"github", "web", "file"}
  BY DEF ValidateConnector, ParseKind
<1>2. BuildConnector(cfg) \in {"token", "anonymous", "refused"}
  <2>1. cfg.kind = "github" => cfg.auth_ref \in {"none", "resolves", "unset"}
    BY DEF Configs, GithubConfig, WebConfig, FileConfig
  <2> QED
    BY <2>1 DEF BuildConnector, ResolveGithubAuth
<1>3. issues \in [IssueIds -> IssueRow] /\ 0 \in 0 .. MaxRequests
  BY ConnectorsAssumption DEF SourceTypes
<1>4. /\ built \in PullRecord /\ built.step = cfg.kind /\ built.cfg = cfg
      /\ built.auth = BuildConnector(cfg) /\ built.docs = {} /\ built.before = issues
  <2>1. /\ built.step = cfg.kind /\ built.cfg = cfg
        /\ built.auth = BuildConnector(cfg) /\ built.docs = {} /\ built.before = issues
    BY DEF Built
  <2>2. built \in PullRecord
    BY <1>1, <1>2, <1>3 DEF Built, PullRecord, Steps
  <2> QED
    BY <2>1, <2>2
<1> HIDE DEF built
<1>5. /\ pull' \in PullRecord /\ pull'.cfg = cfg /\ pull'.auth = BuildConnector(cfg)
      /\ pull'.docs = {} /\ pull'.before = issues /\ pull'.step \in {cfg.kind, "refused"}
      /\ pull'.step # "refused" => BuildConnector(cfg) # "refused"
  <2>1. CASE BuildConnector(cfg) # "refused" /\ pull' = built
    BY <1>4, <2>1
  <2>2. CASE pull' = [built EXCEPT !.step = "refused"]
    BY <1>4, <2>2 DEF PullRecord, Steps
  <2> QED
    BY <2>1, <2>2 DEF built
<1>6. KindFits' /\ FilesRead' /\ IssuesRead'
  BY <1>1, <1>5 DEF KindFits, FilesRead, IssuesRead
<1>7. IssuesMoveOn'
  <2>1. \A i \in IssueIds : issues[i].at \in Nat /\ issues[i].comments \in Nat
    BY <1>3 DEF IssueRow
  <2> QED
    BY <1>5, <2>1 DEF IssuesMoveOn
<1>8. Scoped'
  <2>1. cfg.kind = "github" => cfg.private \in BOOLEAN /\ cfg.auth_ref \in {"none", "resolves", "unset"}
    BY DEF Configs, GithubConfig, WebConfig, FileConfig
  <2>2. cfg.kind = "github" /\ cfg.private /\ BuildConnector(cfg) # "refused" =>
          BuildConnector(cfg) = "token"
    BY <2>1 DEF BuildConnector, ResolveGithubAuth
  <2> QED
    BY <1>5, <2>2 DEF Scoped
<1> QED
  BY <1>5, <1>6, <1>7, <1>8 DEF Running

\* A push while a pull reads a branch takes back what is said of its files.
LEMMA PushKeeps ==
    ASSUME PullInv, NEW p \in Paths, NEW content \in PushContents, Push(p, content)
    PROVE  PullInv'
<1>1. SourceTypes'
  <2>1. content \in Contents /\ tree' = [tree EXCEPT ![p] = content]
    BY ConnectorsAssumption DEF Push
  <2> QED
    BY <2>1 DEF PullInv, SourceTypes, Push
<1>2. CASE pull = [step |-> "idle"]
  BY <1>1, <1>2 DEF PullInv, Push, InPull
<1>3. CASE Running
  <2>0. pull \in PullRecord /\ pull.step # "idle"
    BY <1>3 DEF Running, PullRecord, Steps
  <2>1. /\ pull' = [pull EXCEPT !.pushed = TRUE] /\ UNCHANGED <<pinned, issues>>
    BY <2>0 DEF Push, InPull
  <2>2. /\ pull' \in PullRecord /\ pull'.pushed
        /\ pull'.step = pull.step /\ pull'.cfg = pull.cfg /\ pull'.auth = pull.auth
        /\ pull'.since = pull.since /\ pull'.todo = pull.todo /\ pull'.changed = pull.changed
        /\ pull'.docs = pull.docs /\ pull'.partial = pull.partial /\ pull'.before = pull.before
    BY <2>0, <2>1 DEF PullRecord
  <2>3. KindFits' /\ Scoped' /\ IssuesMoveOn'
    BY <1>3, <2>1, <2>2 DEF Running, KindFits, Scoped, IssuesMoveOn, AclOf
  <2>4. IssuesRead'
    <3>1. \A i \in IssueIds : IsRead(i) => IsRead(i)'
      BY <2>2 DEF IsRead
    <3> QED
      BY <1>3, <2>2, <3>1 DEF Running, IssuesRead
  <2>5. FilesRead'
    <3>1. ASSUME pull.step \in {"files", "issues", "done"}, pull.cfg.kind \in {"github", "file"},
                 AtCommit(pull.cfg)
          PROVE  FilesSoFar'
      <4>1. FilesSoFar
        BY <1>3, <3>1 DEF Running, FilesRead, StandsStill
      <4>2. /\ Eligible(pull.cfg)' = Eligible(pull.cfg)
            /\ PathsToRead(pull.cfg)' = PathsToRead(pull.cfg)
        BY <2>1, <2>2, <3>1, SourceStandsStill
      <4> QED
        BY <2>2, <4>1, <4>2 DEF FilesSoFar
    <3>2. StandsStill' => AtCommit(pull.cfg)
      BY <2>2 DEF StandsStill, AtCommit
    <3> QED
      BY <1>3, <2>2, <3>1, <3>2 DEF Running, FilesRead
  <2> QED
    BY <1>1, <2>2, <2>3, <2>4, <2>5 DEF PullInv, Running
<1> QED
  BY <1>2, <1>3 DEF PullInv

\* An issue changes later than all others have, with one more comment.
LEMMA ChangeIssueKeeps ==
    ASSUME PullInv, NEW i \in IssueIds, ChangeIssue(i)
    PROVE  PullInv'
<1> DEFINE row == [at |-> Clock + 1,
                   comments |-> IF issues[i].at = 0 THEN 0 ELSE issues[i].comments + 1]
<1>1. issues' = [issues EXCEPT ![i] = row] /\ UNCHANGED <<tree, pinned, pull>>
  BY DEF ChangeIssue
<1>2. /\ Clock \in Nat /\ issues \in [IssueIds -> IssueRow]
      /\ \A j \in IssueIds : issues[j].at \in Nat /\ issues[j].comments \in Nat
                             /\ issues[j].at <= Clock
  BY ClockIsLast DEF PullInv, SourceTypes, IssueRow
<1>3. /\ row \in IssueRow /\ row.at = Clock + 1
      /\ issues[i].at > 0 => issues[i].comments <= row.comments
  BY <1>2 DEF IssueRow
<1> HIDE DEF row
<1>4. /\ issues' \in [IssueIds -> IssueRow] /\ issues'[i] = row
      /\ \A j \in IssueIds \ {i} : issues'[j] = issues[j]
  BY <1>1, <1>2, <1>3
<1>5. \A j \in IssueIds : issues'[j].at <= issues'[i].at
  BY <1>2, <1>3, <1>4
<1>6. SourceTypes'
  BY <1>1, <1>4, <1>5 DEF PullInv, SourceTypes
<1>7. CASE pull = [step |-> "idle"]
  BY <1>1, <1>6, <1>7 DEF PullInv
<1>8. CASE Running
  <2>1. IssuesMoveOn'
    <3> SUFFICES ASSUME NEW j \in IssueIds
                 PROVE  /\ pull.before[j].at <= issues'[j].at
                        /\ pull.before[j].at > 0 => pull.before[j].comments <= issues'[j].comments
      BY <1>1 DEF IssuesMoveOn
    <3>1. /\ pull.before[j].at \in Nat /\ pull.before[j].comments \in Nat
          /\ pull.before[j].at <= issues[j].at
          /\ pull.before[j].at > 0 => pull.before[j].comments <= issues[j].comments
      BY <1>8 DEF Running, PullRecord, IssueRow, IssuesMoveOn
    <3>2. row.comments \in Nat
      BY <1>3 DEF IssueRow
    <3>3. CASE j = i
      BY <1>2, <1>3, <1>4, <3>1, <3>2, <3>3
    <3>4. CASE j # i
      BY <1>4, <3>1, <3>4
    <3> QED
      BY <3>3, <3>4
  <2>2. Eligible(pull.cfg)' = Eligible(pull.cfg) /\ PathsToRead(pull.cfg)' = PathsToRead(pull.cfg)
    BY <1>1, SourceStandsStill
  <2>3. FilesRead' /\ IssuesRead' /\ KindFits' /\ Scoped' /\ pull' \in PullRecord
    BY <1>1, <1>8, <2>2 DEF Running, FilesRead, FilesSoFar, StandsStill, AtCommit, IssuesRead,
       IsRead, KindFits, Scoped, AclOf
  <2> QED
    BY <1>6, <2>1, <2>3 DEF PullInv, Running
<1> QED
  BY <1>7, <1>8 DEF PullInv

\* For any repository, issues, pages and configurations, and however the source
\* changes under a pull: it is whole or it fails, its documents carry the access
\* list of their source, and only guarded hosts are asked.
THEOREM PullStaysSound == Spec => []PullIsSound
<1>1. Init => PullInv
  <2> SUFFICES ASSUME Init PROVE PullInv
    OBVIOUS
  <2>1. pull = [step |-> "idle"] /\ issues = [i \in IssueIds |-> [at |-> 0, comments |-> 0]]
    BY DEF Init, PullInit
  <2>2. tree \in Trees /\ pinned \in Trees
    <3>1. PICK start \in IF part = "pull" THEN Trees ELSE {CHOOSE t \in Trees : TRUE} : PullInit(start)
      BY DEF Init
    <3>2. Trees # {}
      BY ConnectorsAssumption
    <3> QED
      BY <3>1, <3>2 DEF PullInit
  <2>3. SourceTypes
    BY <2>1, <2>2, ConnectorsAssumption DEF SourceTypes, IssueRow
  <2> QED
    BY <2>1, <2>3 DEF PullInv
<1>2. PullInv /\ [Next]_vars => PullInv'
  <2> SUFFICES ASSUME PullInv, [Next]_vars PROVE PullInv'
    OBVIOUS
  <2>1. CASE UNCHANGED pullVars
    <3>1. UNCHANGED <<tree, pinned, issues, pull>>
      BY <2>1 DEF pullVars
    <3>2. SourceTypes'
      BY <3>1 DEF PullInv, SourceTypes
    <3>3. Eligible(pull.cfg)' = Eligible(pull.cfg) /\ PathsToRead(pull.cfg)' = PathsToRead(pull.cfg)
      BY <3>1, SourceStandsStill
    <3>4. Running => Running'
      BY <3>1, <3>3 DEF Running, KindFits, Scoped, FilesRead, FilesSoFar, StandsStill, AtCommit,
                        AclOf, IssuesMoveOn, IssuesRead, IsRead
    <3> QED
      BY <3>1, <3>2, <3>4 DEF PullInv
  <2>2. CASE PullNext
    <3>1. ASSUME NEW cfg \in Configs, RefusePull(cfg) \/ \E since \in 0 .. Clock : StartPull(cfg, since)
          PROVE  PullInv'
      <4>1. SourceTypes /\ UNCHANGED <<tree, pinned, issues>> /\ ValidateConnector(cfg)
        BY <3>1 DEF PullInv, RefusePull, StartPull
      <4>2. SourceTypes'
        BY <4>1 DEF SourceTypes
      <4>3. 0 .. Clock \subseteq Nat /\ 0 \in Nat
        BY <4>1, ClockIsLast
      <4>4. \E since \in Nat :
              \/ BuildConnector(cfg) # "refused" /\ pull' = Built(cfg, since)
              \/ pull' = [Built(cfg, since) EXCEPT !.step = "refused"]
        BY <3>1, <4>3 DEF RefusePull, StartPull
      <4>5. Running'
        BY <4>1, <4>4, StartKeeps
      <4> QED
        BY <4>2, <4>5 DEF PullInv
    <3>2. ASSUME NEW p \in Paths, NEW content \in PushContents, Push(p, content)
          PROVE  PullInv'
      BY <3>2, PushKeeps
    <3>3. ASSUME NEW i \in IssueIds, ChangeIssue(i)
          PROVE  PullInv'
      BY <3>3, ChangeIssueKeeps
    <3>4. CASE \/ PullFails \/ ResolveRef \/ ListPaths
               \/ \E p \in Paths : ReadPath(p)
               \/ FilesDone \/ ListIssues \/ IssuesDone
               \/ \E i \in IssueIds : ReadIssue(i)
               \/ AskHost \/ TakeBody
               \/ \E h \in Hosts : FollowRedirect(h)
      <4>1. UNCHANGED <<tree, pinned, issues>> /\ pull.step # "idle"
        BY <3>4 DEF PullFails, ResolveRef, ListPaths, ReadPath, FilesDone, ListIssues, IssuesDone,
                    ReadIssue, AskHost, TakeBody, FollowRedirect, InPull
      <4>2. SourceTypes /\ Running
        BY <4>1 DEF PullInv
      <4>3. SourceTypes'
        BY <4>1, <4>2 DEF SourceTypes
      <4>4. PullFails => Running'
        BY <4>1, <4>2, FailKeeps DEF PullFails
      <4>5. Running'
        BY <3>4, <4>2, <4>4, ResolveKeeps, ListPathsKeeps, ReadPathKeeps, FilesEndKeeps,
           ReadIssueKeeps, IssuesDoneKeeps, WebKeeps
      <4> QED
        BY <4>3, <4>5 DEF PullInv
    <3> QED
      BY <2>2, <3>1, <3>2, <3>3, <3>4 DEF PullNext
  <2> QED
    BY <2>1, <2>2 DEF Next, vars
<1>3. PullInv => PullIsSound
  <2> SUFFICES ASSUME PullInv PROVE PullIsSound
    OBVIOUS
  <2>1. CASE pull = [step |-> "idle"]
    BY <2>1 DEF PullIsSound, FilesAreWhole, IssuesAreWhole, PrivateIsScoped, AsksPublicHosts,
       Pulled, InPull
  <2>2. CASE Running
    <3>1. FilesAreWhole
      BY <2>2 DEF Running, FilesRead, FilesSoFar, StandsStill, FilesAreWhole, Pulled, InPull
    <3>2. IssuesAreWhole
      BY <2>2 DEF Running, IssuesRead, IsRead, IssuesAreWhole, Pulled, InPull
    <3>3. PrivateIsScoped
      BY <2>2 DEF Running, Scoped, AclOf, PrivateIsScoped, Pulled, InPull
    <3>4. AsksPublicHosts
      BY <2>2 DEF Running, PullRecord, AsksPublicHosts
    <3> QED
      BY <3>1, <3>2, <3>3, <3>4 DEF PullIsSound
  <2> QED
    BY <2>1, <2>2 DEF PullInv
<1> QED
  BY <1>1, <1>2, <1>3, PTL DEF Spec
=============================================================================
