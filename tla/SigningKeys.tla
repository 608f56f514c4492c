----------------------------- MODULE SigningKeys -----------------------------
(***************************************************************************)
(* The keys auth-service signs and checks its tokens with.  They come from *)
(* files and variables an operator edits one at a time; the service reads  *)
(* them when it starts and never again, so a restart may find them halfway *)
(* through a change, and tokens outlive the service that issued them.      *)
(***************************************************************************)
EXTENDS Configuration, FiniteSets

CONSTANTS
  Keys,        \* pairs of keys an operator has generated
  Kids,        \* the ids he gives them
  Paths,       \* where he puts public keys
  Skew,        \* jwtClockSkew
  \* bounds of the model
  MaxTime, MaxTokens, MaxEdits

Unusable == "unusable"    \* a file that is missing, no RSA key, or too short

ASSUME SigningKeysAssumption ==
  /\ Unusable \notin Keys /\ "" \notin Kids \cup Paths
  /\ Skew \in Nat /\ {MaxTime, MaxTokens, MaxEdits} \subseteq Nat
  /\ Cardinality(Keys) > 1

VARIABLES
  env,       \* what is set in the environment of auth-service, of all it may set
  private,   \* the private key in the file at JWT_PRIVATE_KEY_PATH
  public,    \* the public keys in the files
  service,   \* the set of the running service: none when it refused to start
  tokens,    \* the tokens it has issued
  now,
  edits

keyVars == <<env, private, public, service, tokens, now, edits>>

Types == {"access", "refresh"}
Lifetime(config, type) == IF type = "access" THEN config.AccessTTL ELSE config.RefreshTTL
Audience(config, type) == IF type = "access" THEN config.AccessAudience ELSE config.RefreshAudience

-----------------------------------------------------------------------------

\* cfg.JWT, without the issuer, which nobody changes.
JWTConfig(config) ==
  [KeyID |-> config.KeyID, PublicKeyPaths |-> config.PublicKeyPaths,
   AccessAudience |-> config.AccessAudience, RefreshAudience |-> config.RefreshAudience,
   AccessTTL |-> config.AccessTTL, RefreshTTL |-> config.RefreshTTL]

\* Slip: a key is active that is not the one tokens are signed with.
NewJWTService_AnyPair(config) ==
  IF /\ private # Unusable
     /\ \A kid \in DOMAIN config.PublicKeyPaths : public[config.PublicKeyPaths[kid]] # Unusable
     /\ config.KeyID \in DOMAIN config.PublicKeyPaths
  THEN {[config |-> config, private |-> private,
         publicKeys |-> [kid \in DOMAIN config.PublicKeyPaths |-> public[config.PublicKeyPaths[kid]]]]}
  ELSE {}

\* Every key of the ring has to be usable, and the active one the public half of
\* the private key.
NewJWTService(config) ==
  IF /\ private # Unusable
     /\ \A kid \in DOMAIN config.PublicKeyPaths : public[config.PublicKeyPaths[kid]] # Unusable
     /\ config.KeyID \in DOMAIN config.PublicKeyPaths
     /\ private = public[config.PublicKeyPaths[config.KeyID]]
  THEN {[config |-> config, private |-> private,
         publicKeys |-> [kid \in DOMAIN config.PublicKeyPaths |-> public[config.PublicKeyPaths[kid]]]]}
  ELSE {}

marshalJWKS(s) == {[kid |-> kid, key |-> s.publicKeys[kid]] : kid \in DOMAIN s.publicKeys}

\* Only the access token carries a role.
generateToken(s, type) ==
  [type |-> type, kid |-> s.config.KeyID, key |-> s.private, role |-> type = "access",
   audience |-> Audience(s.config, type), iat |-> now, exp |-> now + Lifetime(s.config, type)]

\* Slip: the audience is taken to tell the types apart.
validateTokenType_ByAudience(token, want) == TRUE

validateTokenType(token, want) == token.type = want

parseAndValidate(s, token, want) ==
  /\ token.kid \in DOMAIN s.publicKeys
  /\ s.publicKeys[token.kid] = token.key
  /\ token.audience = Audience(s.config, want)
  /\ now < token.exp + Skew /\ token.iat <= now + Skew
  /\ validateTokenType(token, want)
  /\ want = "access" => token.role
  /\ token.exp - token.iat <= Lifetime(s.config, want) + Skew

RemainingTTL(token) == token.exp - now

-----------------------------------------------------------------------------

\* The environment of a first start: one key under one id, and files with what
\* may be a later key in the other paths.
FirstKey == CHOOSE key \in Keys : TRUE
FirstKid == CHOOSE kid \in Kids : TRUE
FirstPath == CHOOSE path \in Paths : TRUE
Compose ==
  [JWT_KEY_ID |-> FirstKid, JWT_PUBLIC_KEYS |-> <<>>,
   JWT_ACCESS_TTL |-> Unset, JWT_REFRESH_TTL |-> Unset,
   JWT_ACCESS_AUDIENCE |-> "", JWT_REFRESH_AUDIENCE |-> ""]

Environment ==
  [NothingSet EXCEPT !.AUTH_COOKIE_SECURE = Written(TRUE), !.JWT_PUBLIC_KEY_PATH = FirstPath,
                     !.JWT_KEY_ID = env.JWT_KEY_ID, !.JWT_PUBLIC_KEYS = env.JWT_PUBLIC_KEYS,
                     !.JWT_ACCESS_TTL = env.JWT_ACCESS_TTL, !.JWT_REFRESH_TTL = env.JWT_REFRESH_TTL,
                     !.JWT_ACCESS_AUDIENCE = env.JWT_ACCESS_AUDIENCE,
                     !.JWT_REFRESH_AUDIENCE = env.JWT_REFRESH_AUDIENCE]

LoadService == UNION {NewJWTService(JWTConfig(config)) : config \in AuthLoad(Environment)}

KeyInit ==
  /\ env = Compose
  /\ private = FirstKey
  /\ public \in {keys \in [Paths -> Keys \cup {Unusable}] : keys[FirstPath] = FirstKey}
  /\ service = LoadService
  /\ tokens = {} /\ now = 0 /\ edits = 0

Edit ==
  /\ edits < MaxEdits
  /\ edits' = edits + 1
  /\ UNCHANGED <<service, tokens, now>>

ReplacePrivateKey ==
  /\ Edit
  /\ private' \in Keys \cup {Unusable}
  /\ UNCHANGED <<env, public>>

ReplacePublicKey ==
  /\ Edit
  /\ \E path \in Paths, key \in Keys \cup {Unusable} : public' = [public EXCEPT ![path] = key]
  /\ UNCHANGED <<env, private>>

\* docker-entrypoint.sh copies the keys the ring names and refuses the same rings.
Entries == [kid : Kids, path : Paths]
Rings == {<<>>, <<[kid |-> "", path |-> ""]>>} \cup [1..1 -> Entries] \cup [1..2 -> Entries]

EditEnvironment ==
  /\ Edit
  /\ \/ \E kid \in Kids, ring \in Rings :
          env' = [env EXCEPT !.JWT_KEY_ID = kid, !.JWT_PUBLIC_KEYS = ring]
     \/ \E ttl \in {Written(0), Garbage} : env' = [env EXCEPT !.JWT_ACCESS_TTL = ttl]
     \/ \E ttl \in {Written(FiveMinutes), Written(FiveMinutes + 1)} : env' = [env EXCEPT !.JWT_REFRESH_TTL = ttl]
     \* the audiences change places, or become one
     \/ \E audience \in {"", "money-tracking-refresh"} : env' = [env EXCEPT !.JWT_ACCESS_AUDIENCE = audience]
     \/ \E audience \in {"", "money-tracking-api"} : env' = [env EXCEPT !.JWT_REFRESH_AUDIENCE = audience]
  /\ UNCHANGED <<private, public>>

\* Also after a refusal: the container is started again.
Restart ==
  /\ service' = LoadService
  /\ UNCHANGED <<env, private, public, tokens, now, edits>>

\* by is the service that issued it.
Issue ==
  /\ Cardinality(tokens) < MaxTokens
  /\ \E s \in service, type \in Types :
       tokens' = tokens \cup {[by |-> s, token |-> generateToken(s, type)]}
  /\ UNCHANGED <<env, private, public, service, now, edits>>

Tick ==
  /\ now < MaxTime
  /\ now' = now + 1
  /\ UNCHANGED <<env, private, public, service, tokens, edits>>

KeyNext == ReplacePrivateKey \/ ReplacePublicKey \/ EditEnvironment \/ Restart \/ Issue \/ Tick
KeySpec == KeyInit /\ [][KeyNext]_keyVars

-----------------------------------------------------------------------------

\* README.md:23-33 of auth-service: keys are changed under the sessions.  A
\* service with all the keys of the one that issued a token in its ring, the
\* same audiences and no shorter lifetimes accepts that token until it expires,
\* whichever key is active by now and whatever was half edited when services
\* started or refused to in between; and whoever reads its JWKS can check it.
LiveTokensVerify ==
  \A s \in service, t \in tokens :
    /\ marshalJWKS(t.by) \subseteq marshalJWKS(s)
    /\ \A type \in Types : Audience(s.config, type) = Audience(t.by.config, type)
    /\ \A type \in Types : Lifetime(s.config, type) >= Lifetime(t.by.config, type)
    /\ RemainingTTL(t.token) > 0
    => /\ parseAndValidate(s, t.token, t.token.type)
       /\ [kid |-> t.token.kid, key |-> t.token.key] \in marshalJWKS(s)

\* A token is accepted for the use it was issued for and no other, also when the
\* audiences changed places since, and never for longer than the lifetime that
\* is configured now and twice the skew of clocks: a shorter lifetime ends the
\* tokens of a longer one.
TokensKeepToTheirUse ==
  \A s \in service, t \in tokens, use \in Types :
    parseAndValidate(s, t.token, use) =>
      /\ use = t.token.type
      /\ now - t.token.iat < Lifetime(s.config, use) + 2 * Skew

=============================================================================
