--------------------------- MODULE Configuration ---------------------------
(***************************************************************************)
(* What each service makes of its environment variables when it starts.    *)
(* Load returns the set of the configuration it loads: the empty set when  *)
(* it refuses to start.  A variable that holds a number, a duration or a   *)
(* flag is a record of what is written there; one that holds a text is the *)
(* text, "" when it is absent.  The services read the same kinds of value  *)
(* by different rules: some take their default for what they cannot read,  *)
(* some stop; some trim blanks, some do not.                               *)
(***************************************************************************)
EXTENDS Integers, Sequences

CONSTANTS
  FiveMinutes, SevenDays,  \* the default lifetimes, in the unit of time of the model
  HalfRange                \* 2^31: an int32 is in -HalfRange..(HalfRange - 1)

ASSUME ConfigurationAssumption ==
  /\ FiveMinutes \in Nat \ {0}
  /\ SevenDays \in Nat /\ SevenDays > FiveMinutes
  /\ HalfRange \in Nat /\ HalfRange > 10

Written(value) == [reads |-> {value}, blanks |-> FALSE]
Padded(value) == [reads |-> {value}, blanks |-> TRUE]  \* with blanks around it
Garbage == [reads |-> {}, blanks |-> FALSE]
Unset == [reads |-> {}, blanks |-> TRUE]   \* or nothing but blanks

The(values) == CHOOSE value \in values : TRUE
Text(text, fallback) == IF text = "" THEN fallback ELSE text

(* auth-service and email-service: what cannot be read, blanks around it   *)
(* included, is the default.                                               *)
getEnvInt(raw, fallback) == IF raw.blanks \/ raw.reads = {} THEN fallback ELSE The(raw.reads)
getEnvInt32(raw, fallback) ==
  LET value == getEnvInt(raw, fallback)
  IN  IF value \in -HalfRange..(HalfRange - 1) THEN value ELSE fallback
getEnvBool(raw, fallback) == getEnvInt(raw, fallback)
getEnvDuration(raw, fallback) == getEnvInt(raw, fallback)

(* api-gateway: blanks are trimmed; flags and the lifetimes of cookies have *)
(* a default.                                                              *)
getDuration(raw, fallback) == IF raw.reads = {} THEN fallback ELSE The(raw.reads)
readBool(raw, fallback) == getDuration(raw, fallback)

(* The others, and every port of theirs: the empty set when the service    *)
(* stops.  Their pool limits are cut to 32 bits as they are taken over.    *)
readInt(raw, fallback) == IF raw = Unset THEN {fallback} ELSE raw.reads
int32(value) == ((value + HalfRange) % (2 * HalfRange)) - HalfRange

Port == 1..65535
PoolFits(config) == config.MaxConns > 0 /\ config.MinConns \in 0..config.MaxConns

-----------------------------------------------------------------------------
(* auth-service.  A key ring is a sequence of entries, each a key id and a *)
(* path, "" where one is missing.                                          *)

parsePublicKeyPaths(entries) ==
  IF /\ \A i \in DOMAIN entries : entries[i].kid # "" /\ entries[i].path # ""
     /\ \A i, j \in DOMAIN entries : entries[i].kid = entries[j].kid => i = j
  THEN {[kid \in {entries[i].kid : i \in DOMAIN entries} |->
           The({entries[i].path : i \in {j \in DOMAIN entries : entries[j].kid = kid}})]}
  ELSE {}

PublicKeyPaths(env) ==
  IF env.JWT_PUBLIC_KEYS = <<>>
  THEN {[kid \in {env.JWT_KEY_ID} |-> env.JWT_PUBLIC_KEY_PATH]}
  ELSE parsePublicKeyPaths(env.JWT_PUBLIC_KEYS)

\* A text with a default is never missing: only the secrets can be.  The id of
\* the key and the paths stand for what their defaults make of them.
AuthConfig(env, paths) ==
  [Ports           |-> {getEnvInt(env.SERVER_PORT, 8080), getEnvInt(env.GRPC_SERVER_PORT, 50051),
                        getEnvInt(env.POSTGRES_PORT, 5432)},
   MaxConns        |-> getEnvInt32(env.POSTGRES_MAX_CONNS, 10),
   MinConns        |-> getEnvInt32(env.POSTGRES_MIN_CONNS, 5),
   Secrets         |-> env.SECRETS,
   PrivateKeyPath  |-> env.JWT_PRIVATE_KEY_PATH,
   KeyID           |-> env.JWT_KEY_ID,
   PublicKeyPaths  |-> paths,
   AccessAudience  |-> Text(env.JWT_ACCESS_AUDIENCE, Text(env.JWT_AUDIENCE, "money-tracking-api")),
   RefreshAudience |-> Text(env.JWT_REFRESH_AUDIENCE, "money-tracking-refresh"),
   AccessTTL       |-> getEnvDuration(env.JWT_ACCESS_TTL, FiveMinutes),
   RefreshTTL      |-> getEnvDuration(env.JWT_REFRESH_TTL, SevenDays),
   CookieNames     |-> <<Text(env.AUTH_ACCESS_COOKIE_NAME, "access_token"),
                         Text(env.AUTH_REFRESH_COOKIE_NAME, "refresh_token"),
                         Text(env.AUTH_CSRF_COOKIE_NAME, "csrf_token")>>,
   CookieSecure    |-> getEnvBool(env.AUTH_COOKIE_SECURE, FALSE),
   CookieSameSite  |-> Text(env.AUTH_COOKIE_SAME_SITE, "None"),
   OTPTTL          |-> getEnvDuration(env.AUTH_OTP_TTL, FiveMinutes),
   OTPMaxAttempts  |-> getEnvInt(env.AUTH_OTP_MAX_ATTEMPTS, 5),
   OriginRegex     |-> env.CORS_ALLOWED_ORIGIN_REGEX]

\* A regular expression of origins is anchored, and restrictive when it has no
\* ".*" in it; the default is both.
AuthConfigIsValid(c) ==
  /\ {"POSTGRES_PASSWORD", "REDIS_PASSWORD", "RABBITMQ_URL"} \subseteq c.Secrets
  /\ c.AccessAudience # c.RefreshAudience
  /\ c.AccessTTL > 0 /\ c.RefreshTTL > 0
  /\ c.AccessTTL <= FiveMinutes
  /\ c.RefreshTTL > c.AccessTTL
  /\ c.Ports \subseteq Port
  /\ PoolFits(c)
  /\ c.OTPMaxAttempts > 0 /\ c.OTPTTL > 0
  /\ \A i, j \in 1..3 : c.CookieNames[i] = c.CookieNames[j] => i = j
  /\ c.CookieSameSite = "None" => c.CookieSecure
  /\ c.OriginRegex \in {"", "restrictive"}

AuthLoad(env) ==
  {c \in {AuthConfig(env, paths) : paths \in PublicKeyPaths(env)} : AuthConfigIsValid(c)}

-----------------------------------------------------------------------------
(* api-gateway                                                             *)

GatewayConfig(env, port, timeout) ==
  [Port           |-> port,
   RequestTimeout |-> timeout,
   AccessTTL      |-> getDuration(env.AUTH_ACCESS_TTL, FiveMinutes),
   RefreshTTL     |-> getDuration(env.AUTH_REFRESH_TTL, SevenDays),
   CookieSecure   |-> readBool(env.AUTH_COOKIE_SECURE, FALSE),
   CookieSameSite |-> Text(env.AUTH_COOKIE_SAME_SITE, "Lax"),
   CSRFCookie     |-> Text(env.GATEWAY_CSRF_COOKIE_NAME, "csrf_token")]

GatewayLoad(env) ==
  {c \in {GatewayConfig(env, port, timeout) : port \in readInt(env.SERVER_PORT, 8080),
                                              timeout \in readInt(env.REQUEST_TIMEOUT, 1)} :
     /\ env.LOG_LEVEL # "unknown"
     /\ env.CORS_ALLOWED_ORIGIN_REGEX \in {"", "restrictive", "anchored"}
     /\ c.Port \in Port
     /\ c.RequestTimeout > 0
     /\ c.AccessTTL > 0 /\ c.RefreshTTL > c.AccessTTL}

-----------------------------------------------------------------------------
(* transaction-service, group-service and email-service                    *)

Pools(env, port, lifetime) ==
  [Port : readInt(env.SERVER_PORT, port),
   MaxConns : {int32(value) : value \in readInt(env.POSTGRES_MAX_CONNS, 10)},
   MinConns : {int32(value) : value \in readInt(env.POSTGRES_MIN_CONNS, 2)},
   MaxConnLifetime : readInt(env.POSTGRES_MAX_CONN_LIFETIME, lifetime)]

TransactionLoad(env) ==
  {c \in Pools(env, 50053, 6 * FiveMinutes) :
     /\ env.LOG_LEVEL # "unknown"
     /\ c.Port \in Port
     /\ \E url \in {"TRANSACTION_DATABASE_URL", "DATABASE_URL"} : url \in env.SECRETS
     /\ PoolFits(c)
     /\ \E timeout \in readInt(env.UPSTREAM_TIMEOUT, 1) : timeout > 0
     /\ env.DEFAULT_CURRENCY \in {"", "letters", "not letters"}}  \* three bytes of any kind

\* Nothing is checked here but that it can be read.
GroupLoad(env) ==
  {c \in Pools(env, 50052, 6 * FiveMinutes) :
     /\ env.LOG_LEVEL # "unknown"
     /\ \E url \in {"GROUP_DATABASE_URL", "DATABASE_URL"} : url \in env.SECRETS}

EmailConfig(env) ==
  [Queues         |-> <<Text(env.RABBITMQ_EMAIL_QUEUE, "auth.email.otp"),
                        Text(env.RABBITMQ_EMAIL_RETRY_QUEUE, "auth.email.otp.retry"),
                        Text(env.RABBITMQ_EMAIL_DEAD_QUEUE, "auth.email.otp.dead")>>,
   PrefetchCount  |-> getEnvInt(env.RABBITMQ_PREFETCH_COUNT, 5),
   MaxRetries     |-> getEnvInt(env.RABBITMQ_EMAIL_MAX_RETRIES, 3),
   RetryDelay     |-> getEnvDuration(env.RABBITMQ_EMAIL_RETRY_DELAY, 1),
   ReconnectDelay |-> getEnvDuration(env.RABBITMQ_RECONNECT_DELAY, 1),
   SMTPPort       |-> getEnvInt(env.SMTP_PORT, 587)]

EmailLoad(env) ==
  {c \in {EmailConfig(env)} :
     /\ {"RABBITMQ_URL", "SMTP_HOST", "EMAIL_FROM"} \subseteq env.SECRETS
     /\ c.SMTPPort \in Port
     /\ env.SENDER_PARSES
     /\ c.PrefetchCount > 0
     /\ c.MaxRetries > 0 /\ c.RetryDelay > 0 /\ c.ReconnectDelay > 0
     /\ \A i, j \in 1..3 : c.Queues[i] = c.Queues[j] => i = j}

-----------------------------------------------------------------------------

\* An environment in which only the secrets are set.
NothingSet ==
  [SECRETS |-> {"POSTGRES_PASSWORD", "REDIS_PASSWORD", "RABBITMQ_URL", "DATABASE_URL",
                "SMTP_HOST", "EMAIL_FROM"},
   SENDER_PARSES |-> TRUE, LOG_LEVEL |-> "", DEFAULT_CURRENCY |-> "",
   SERVER_PORT |-> Unset, GRPC_SERVER_PORT |-> Unset, POSTGRES_PORT |-> Unset, SMTP_PORT |-> Unset,
   POSTGRES_MAX_CONNS |-> Unset, POSTGRES_MIN_CONNS |-> Unset, POSTGRES_MAX_CONN_LIFETIME |-> Unset,
   REQUEST_TIMEOUT |-> Unset, UPSTREAM_TIMEOUT |-> Unset,
   JWT_PRIVATE_KEY_PATH |-> "private", JWT_KEY_ID |-> "kid", JWT_PUBLIC_KEY_PATH |-> "public",
   JWT_PUBLIC_KEYS |-> <<>>,
   JWT_AUDIENCE |-> "", JWT_ACCESS_AUDIENCE |-> "", JWT_REFRESH_AUDIENCE |-> "",
   JWT_ACCESS_TTL |-> Unset, JWT_REFRESH_TTL |-> Unset,
   AUTH_ACCESS_TTL |-> Unset, AUTH_REFRESH_TTL |-> Unset,
   AUTH_OTP_TTL |-> Unset, AUTH_OTP_MAX_ATTEMPTS |-> Unset,
   AUTH_COOKIE_SECURE |-> Unset, AUTH_COOKIE_SAME_SITE |-> "",
   AUTH_ACCESS_COOKIE_NAME |-> "", AUTH_REFRESH_COOKIE_NAME |-> "", AUTH_CSRF_COOKIE_NAME |-> "",
   GATEWAY_CSRF_COOKIE_NAME |-> "", CORS_ALLOWED_ORIGIN_REGEX |-> "",
   RABBITMQ_EMAIL_QUEUE |-> "", RABBITMQ_EMAIL_RETRY_QUEUE |-> "", RABBITMQ_EMAIL_DEAD_QUEUE |-> "",
   RABBITMQ_PREFETCH_COUNT |-> Unset, RABBITMQ_EMAIL_MAX_RETRIES |-> Unset,
   RABBITMQ_EMAIL_RETRY_DELAY |-> Unset, RABBITMQ_RECONNECT_DELAY |-> Unset]

WithPool(most, least) ==
  [NothingSet EXCEPT !.POSTGRES_MAX_CONNS = most, !.POSTGRES_MIN_CONNS = least,
                     !.AUTH_COOKIE_SECURE = Written(TRUE)]

\* With the secrets alone every service starts but one: the default cookies of
\* auth-service, SameSite=None and not Secure, are what it refuses itself.
ASSUME DefaultsStart ==
  /\ AuthLoad(NothingSet) = {}
  /\ AuthLoad([NothingSet EXCEPT !.AUTH_COOKIE_SECURE = Written(TRUE)]) # {}
  /\ \A load \in {GatewayLoad(NothingSet), TransactionLoad(NothingSet),
                   GroupLoad(NothingSet), EmailLoad(NothingSet)} : load # {}

\* A pool that auth-service or transaction-service opens has room for a
\* connection and never a minimum above the maximum.  auth-service opens it with
\* what is written or with its default; the other two may open one of a size
\* nobody wrote, when what is written has no room in 32 bits, and group-service
\* opens any.
ASSUME PoolsFit ==
  \A most, least \in {Unset, Garbage} \cup {Written(n) : n \in {-1, 0, 1, 2, 10, HalfRange, 2 * HalfRange + 1}} :
    LET env == WithPool(most, least)
    IN  /\ \A c \in AuthLoad(env) : PoolFits(c) /\ c.MaxConns \in {10} \cup most.reads
        /\ \A c \in TransactionLoad(env) : PoolFits(c)
        /\ most = Garbage => TransactionLoad(env) = {} /\ GroupLoad(env) = {}
        /\ most = Written(2 * HalfRange + 1) => \A c \in GroupLoad(env) : c.MaxConns = 1
        /\ most = Written(0) => AuthLoad(env) = {} /\ TransactionLoad(env) = {}

\* The worker's three queues are three, so that no message is both waiting for
\* another attempt and given up.
ASSUME QueuesDiffer ==
  \A queue, retry, dead \in {"", "auth.email.otp", "auth.email.otp.retry", "other"} :
    \A c \in EmailLoad([NothingSet EXCEPT !.RABBITMQ_EMAIL_QUEUE = queue,
                                           !.RABBITMQ_EMAIL_RETRY_QUEUE = retry,
                                           !.RABBITMQ_EMAIL_DEAD_QUEUE = dead]) :
      c.Queues[1] # c.Queues[2] /\ c.Queues[3] \notin {c.Queues[1], c.Queues[2]}

\* The cookies of a session live exactly as long as its tokens when the gateway's
\* lifetimes are set from the variables of auth-service, as compose.yaml sets the
\* refresh token's: what neither can read is the same default to both.  Blanks
\* around a lifetime break it: the gateway trims them, auth-service does not.
Lifetimes == {Unset, Garbage} \cup
             UNION {{Written(n), Padded(n)} : n \in {-1, 0, 1, FiveMinutes, FiveMinutes + 1, SevenDays, SevenDays + 1}}
ASSUME LifetimesAgree ==
  \A access, refresh \in Lifetimes :
    \A auth \in AuthLoad([NothingSet EXCEPT !.JWT_ACCESS_TTL = access, !.JWT_REFRESH_TTL = refresh,
                                            !.AUTH_COOKIE_SECURE = Written(TRUE)]),
       gateway \in GatewayLoad([NothingSet EXCEPT !.AUTH_ACCESS_TTL = access, !.AUTH_REFRESH_TTL = refresh]) :
      \/ auth.AccessTTL = gateway.AccessTTL /\ auth.RefreshTTL = gateway.RefreshTTL
      \/ \E raw \in {access, refresh} : raw.blanks /\ raw.reads # {}

=============================================================================
