----------------------------- MODULE AuthRouter -----------------------------
(***************************************************************************)
(* The HTTP side of auth-service: its routes, the middleware a request     *)
(* passes on its way to a handler, and the counters in Redis that limit    *)
(* how often a client gets through.  Counters of different limits and      *)
(* different clients have nothing in common: the module follows one.       *)
(***************************************************************************)
EXTENDS GatewayRoutes, FiniteSetsExt, Functions

CONSTANTS
  Limiters,     \* the limits the model follows one of
  Window,       \* the length of their windows
  Second,       \* the unit Retry-After counts in
  \* bounds of the model: time, and requests counted above a maximum
  MaxClock, MaxAbove

VARIABLES
  limiter,   \* the limit followed
  count,     \* the counter of one client; 0 when Redis has no such key
  until,     \* when the key expires
  clock,
  \* history
  started,   \* when the counter was made
  through,   \* how many requests got through, at each time
  unsaid,    \* how many were counted since started without an answer of Redis
  refused    \* the last refusal, and when its Retry-After lets the client come back

doorVars == <<limiter, count, until, clock, started, through, unsaid, refused>>

-----------------------------------------------------------------------------

\* limit: the name in the key, so that routes of one limit share a counter.
Limited(limit, maximum, minutes, route, success) ==
  [limit |-> limit, maximum |-> maximum, minutes |-> minutes, route |-> route, success |-> success]

\* NewRouter, by the gateway's names for the handlers.
AuthRoutes ==
  [Register       |-> Limited("register", 3, 60, Guarded("POST"), 201),
   VerifyOTP      |-> Limited("verify-otp", 5, 10, Guarded("POST"), 200),
   Login          |-> Limited("login", 5, 15, Guarded("POST"), 200),
   RefreshToken   |-> Limited("refresh", 30, 5, Guarded("POST"), 200),
   Logout         |-> Limited("logout", 30, 5, Guarded("POST"), 200),
   ForgotPassword |-> Limited("forgot-password", 3, 60, Guarded("POST"), 200),
   ResetPassword  |-> Limited("reset-password", 5, 10, Guarded("POST"), 200),
   MobileLogin    |-> Limited("mobile-login", 5, 15, Open("POST"), 200),
   MobileRefresh  |-> Limited("mobile-refresh", 30, 5, Open("POST"), 200),
   MobileLogout   |-> Limited("mobile-logout", 30, 5, Open("POST"), 200),
   ChangePassword |-> Limited("protected", 300, 5, Protected("POST"), 200),
   Me             |-> Limited("protected", 300, 5, Protected("GET"), 200),
   CreateMenu     |-> Limited("protected", 300, 5, Admin("POST"), 201),
   ListMenus      |-> Limited("protected", 300, 5, Admin("GET"), 200),
   TreeMenus      |-> Limited("protected", 300, 5, Protected("GET"), 200),
   GetMenu        |-> Limited("protected", 300, 5, Admin("GET"), 200),
   UpdateMenu     |-> Limited("protected", 300, 5, Admin("PATCH"), 200),
   DeleteMenu     |-> Limited("protected", 300, 5, Admin("DELETE"), 200)]

ASSUME AuthRouterAssumption ==
  /\ {Window, Second} \subseteq Nat \ {0} /\ {MaxClock, MaxAbove} \subseteq Nat
  /\ Limiters \subseteq {AuthRoutes[h].limit : h \in DOMAIN AuthRoutes}

\* A request as the middleware sees it.
Arrivals ==
  [origin : {"", "allowed", "other"},
   csrfCookie : {"", "a", "b"}, csrfHeader : {"", "a", "b"},
   bearer : {"", "bad", "member", "admin"}, cookie : {"", "bad", "member", "admin"},
   json : BOOLEAN]

constantTimeEqual(left, right) == left # "" /\ left = right
Require(r) == r.origin = "allowed" /\ constantTimeEqual(r.csrfCookie, r.csrfHeader)

extractAccessToken(r) == IF r.bearer # "" THEN r.bearer ELSE r.cookie
RequireAuth(r) == extractAccessToken(r) \in {"member", "admin"}
RequireRole(r) == extractAccessToken(r) = "admin"

Admits(access, r) ==
  CASE access = "anyone" -> TRUE
    [] access = "user" -> RequireAuth(r)
    [] access = "admin" -> RequireRole(r)

\* What is refused behind the limit, and the status of what is not, when its
\* service does not refuse it.
Status(h, r) ==
  CASE AuthRoutes[h].route.csrf /\ ~Require(r) -> AuthErrors["ErrForbidden"]
    [] ~Admits(AuthRoutes[h].route.access, r) -> AuthErrors["ErrUnauthorized"]
    [] Handlers[h].decodes /\ ~r.json -> AuthErrors["Validation"]
    [] OTHER -> AuthRoutes[h].success

\* The doors of auth-service and of the gateway, which calls it over gRPC, are
\* the same ones: the same access token, the same role and the same double-
\* submitted token for each handler, and the same status of its success.  Two
\* things differ: a request without an Origin passes at the gateway alone, and
\* auth-service only parses the access token here, where the gateway has it
\* compared with the account.
ASSUME SameDoors ==
  \A h \in DOMAIN AuthRoutes :
    /\ AuthRoutes[h].route = Router[h]
    /\ AuthRoutes[h].success = Handlers[h].success

\* Every route that changes something and takes its session from a cookie asks
\* for the token of the page: the cookie alone, which any page makes a browser
\* send, changes nothing.
ASSUME CookiesChangeNothingAlone ==
  \A h \in DOMAIN AuthRoutes, r \in Arrivals :
    /\ AuthRoutes[h].route.method # "GET"
    /\ r.csrfHeader = "" /\ r.bearer = ""
    /\ AuthRoutes[h].route.access # "anyone"
    => Status(h, r) = 403

-----------------------------------------------------------------------------

Maximum == AuthRoutes[CHOOSE h \in DOMAIN AuthRoutes : AuthRoutes[h].limit = limiter].maximum

DoorInit ==
  /\ limiter \in Limiters
  /\ count = 0 /\ until = 0 /\ clock = 0
  /\ started = 0 /\ through = [t \in 0..MaxClock |-> 0] /\ unsaid = 0 /\ refused = {}

\* The script, in one step: a new key gets its lifetime as it is made.
rateLimitScript ==
  LET fresh == count = 0 \/ clock >= until
  IN  /\ fresh \/ count < Maximum + MaxAbove
      /\ count' = IF fresh THEN 1 ELSE count + 1
      /\ until' = IF fresh THEN clock + Window ELSE until
      /\ started' = IF fresh THEN clock ELSE started

\* Slip: what is left of a second is cut off.
retryAfter_Down == Max({1, (until' - clock) \div Second})

retryAfter == Max({1, (until' - clock + Second - 1) \div Second})

Unsaid == IF started' = started /\ count # 0 THEN unsaid ELSE 0

LetThrough ==
  /\ rateLimitScript
  /\ count' <= Maximum
  /\ through' = [through EXCEPT ![clock] = @ + 1]
  /\ unsaid' = Unsaid
  /\ UNCHANGED <<limiter, clock, refused>>

TooMany ==
  /\ rateLimitScript
  /\ count' > Maximum
  /\ refused' = {[at |-> clock, back |-> clock + Second * retryAfter,
                 since |-> started', unsaid |-> Unsaid]}
  /\ unsaid' = Unsaid
  /\ UNCHANGED <<limiter, clock, through>>

\* Redis fails before it has run the script, or after; the client is answered an
\* internal error and gets through to nothing.
RedisFails ==
  /\ \/ rateLimitScript /\ unsaid' = Unsaid + 1
     \/ UNCHANGED <<count, until, started, unsaid>>
  /\ UNCHANGED <<limiter, clock, through, refused>>

DoorTick ==
  /\ clock < MaxClock
  /\ clock' = clock + 1
  /\ UNCHANGED <<limiter, count, until, started, through, unsaid, refused>>

DoorNext == LetThrough \/ TooMany \/ RedisFails \/ DoorTick
DoorSpec == DoorInit /\ [][DoorNext]_doorVars

-----------------------------------------------------------------------------

Through(from, to) == SumFunctionOnSet(through, from..to)

\* However the requests fall on the windows, no stretch of a window's length lets
\* through more than twice the maximum; nobody is refused before the maximum has
\* been let through since the counter was made, those Redis counted without an
\* answer included; and a refusal ends: there is no counter without a lifetime,
\* and a client that comes back after the Retry-After it was told, whatever it
\* tried in between, does not meet the counter that refused it.
LimitsHold ==
  /\ \A t \in 0..(MaxClock - Window + 1) : Through(t, t + Window - 1) <= 2 * Maximum
  /\ \A r \in refused : Through(r.since, r.at) + r.unsaid >= Maximum
  /\ count > 0 => until <= started + Window
  /\ \A r \in refused : clock >= r.back => clock >= until \/ started > r.at

=============================================================================
