------------------------------- MODULE Gateway -------------------------------
(***************************************************************************)
(* api-gateway between its clients and auth-service.  A browser has tabs   *)
(* that share one cookie jar; an app keeps its tokens itself and sends     *)
(* them in the Authorization header or the body.  Cookies go out with a    *)
(* request as they stand when it is sent, and change when the answer       *)
(* arrives, in whatever order answers arrive.                              *)
(*                                                                         *)
(* auth-service answers each call in one step, as its own handlers do      *)
(* when nothing else happens to the account meanwhile (module Session has  *)
(* their interleavings).  Pairs of tokens are numbered as they are issued; *)
(* their lifetimes are not modelled.                                       *)
(***************************************************************************)
EXTENDS GatewayRoutes, FiniteSets

CONSTANTS
  Browsers, Apps,       \* the clients
  Tabs,                 \* what sends requests, one at a time
  ClientOf,             \* the client each tab belongs to
  Users,
  Logins,               \* the clients that are logged in at the start, and who as
  Calls,                \* the handlers each client calls
  Failures,             \* the codes of calls that fail
  Refusals,             \* the errors each service answers a forwarded call with
  Interventions,        \* the roles and states an operator may give an account
  MaxInFlight,          \* bound on the requests under way at once
  MaxPairs,             \* bound on the pairs issued
  MaxUserChanges        \* bound on the changes of one account

Clients == Browsers \cup Apps

ASSUME GatewayAssumption ==
  /\ ClientOf \in [Tabs -> Clients]
  /\ Logins \in Seq([client : Clients, user : Users])
  /\ \A i, j \in 1..Len(Logins) : Logins[i].client = Logins[j].client => i = j
  /\ Calls \in [Clients -> SUBSET DOMAIN Handlers]
  /\ Interventions \subseteq [role : {"admin", "user"}, active : BOOLEAN]
  /\ Failures \subseteq Codes /\ DOMAIN Refusals = {"auth", "group", "transaction"}
  /\ MaxInFlight \in Nat /\ MaxPairs \in Nat /\ MaxUserChanges \in Nat

None == 0
PairIds == 1..MaxPairs

VARIABLES
  jar,        \* what each client holds: access and refresh token, and whether
              \* a CSRF token
  request,    \* the request of each tab, with what it carried
  phase,      \* where the gateway stands with it
  answer,     \* the status and the Set-Cookie headers, or tokens, it sends
  users,      \* the rows of each account, the current one last
  pairs,      \* the pairs of tokens issued
  consumed,   \* the pairs whose refresh token was used
  revoked,    \* the sessions that were revoked
  replayed,   \* the pairs whose session ended as replayed
  troubled    \* the pairs whose rotation was doubled or came to nothing

vars == <<jar, request, phase, answer, users, pairs, consumed, revoked, replayed,
          troubled>>
upstream == <<users, pairs, consumed, revoked>>
client == <<jar, request>>

User(u) == users[u][Len(users[u])]

NoRequest == [handler |-> "none"]

\* What Set-Cookie, or the body of a mobile answer, changes in what is held.
Keep == [held \in {} |-> None]
Hand(j) == [access |-> j, refresh |-> j]

\* Slip: the refresh token is left.
Clear_AccessOnly == [access |-> None]

\* clearBrowserSessionCookies.
Clear == [access |-> None, refresh |-> None]

NoAnswer == [status |-> 0, tokens |-> Keep]

\* The pair of the first login is pair 1, and so on.
FirstPair(c) ==
  LET mine == {i \in 1..Len(Logins) : Logins[i].client = c}
  IN  IF mine = {} THEN None ELSE CHOOSE i \in mine : TRUE

Init ==
  /\ jar = [c \in Clients |->
              [access |-> FirstPair(c), refresh |-> FirstPair(c), csrf |-> FALSE]]
  /\ pairs = [i \in 1..Len(Logins) |->
                [user |-> Logins[i].user, session |-> i, version |-> 1, role |-> "admin",
                 since |-> 1]]
  /\ request = [t \in Tabs |-> NoRequest]
  /\ phase = [t \in Tabs |-> "idle"]
  /\ answer = [t \in Tabs |-> NoAnswer]
  /\ users = [u \in Users |-> <<[version |-> 1, role |-> "admin", active |-> TRUE]>>]
  /\ consumed = {}
  /\ revoked = {}
  /\ replayed = {}
  /\ troubled = {}

-----------------------------------------------------------------------------
(* The clients.                                                            *)

IsApp(t) == ClientOf[t] \in Apps
Mobile == {"MobileLogin", "MobileRefresh", "MobileLogout"}
Rotates == {"RefreshToken", "MobileRefresh"}
NamesUser == {"Login", "VerifyOTP", "ResetPassword", "MobileLogin"}

Anybody == CHOOSE u \in Users : TRUE

\* The refresh token a request presents, in the cookie or in the body.
Presents(r) == IF r.handler \in Mobile THEN r.token ELSE r.refresh

\* Another tab has asked to rotate the same pair and has not had its answer.
Doubled(t, j) ==
  \E s \in Tabs \ {t} :
    phase[s] # "idle" /\ request[s].handler \in Rotates /\ Presents(request[s]) = j

LooksAt(h, token) == \E f \in Handlers[h].passes : f[2] = token

\* A browser adds its cookies, and its pages repeat the CSRF token in a header;
\* an app has none.  What the gateway does not look at is left out.
Carried(t, h, u) ==
  LET held    == jar[ClientOf[t]]
      access  == IF Router[h].access # "anyone" \/ LooksAt(h, "bearer") THEN held.access
                                                                       ELSE None
      named   == <<"refresh_token", "body">> \in Handlers[h].passes
  IN  [handler |-> h, user |-> u, csrf |-> Router[h].csrf /\ held.csrf,
       bearer  |-> IF IsApp(t) THEN access ELSE None,
       access  |-> IF IsApp(t) THEN None ELSE access,
       token   |-> IF IsApp(t) /\ named THEN held.refresh ELSE None,
       refresh |-> IF ~IsApp(t) /\ LooksAt(h, "cookie") THEN held.refresh ELSE None]

Answer(t, status, given) ==
  /\ phase' = [phase EXCEPT ![t] = "answered"]
  /\ answer' = [answer EXCEPT ![t] = [status |-> status, tokens |-> given]]

\* writeError.
Refuse(t, code) == Answer(t, grpcStatusToHTTP(code), Keep)

Goto(t, next) == phase' = [phase EXCEPT ![t] = next] /\ UNCHANGED answer

\* extractToken: the header before the cookie.
extractToken(r) == IF r.bearer # None THEN r.bearer ELSE r.access

\* requireCSRF: the routes of browsers need the token, whoever calls them.
PassesCSRF(r) == Router[r.handler].csrf => r.csrf

\* The middleware of the route, up to its call that validates the token.
Admit(t, r) ==
  \/ ~PassesCSRF(r) /\ Refuse(t, "PermissionDenied")
  \/ PassesCSRF(r) /\ Router[r.handler].access = "anyone" /\ Goto(t, "handler")
  \/ /\ PassesCSRF(r) /\ Router[r.handler].access # "anyone"
     /\ IF extractToken(r) = None THEN Refuse(t, "Unauthenticated") ELSE Goto(t, "token")

\* Sending a request takes it to the first call the gateway makes for it: what
\* stands before that looks at nothing but the request.
Send(t) ==
  /\ phase[t] = "idle"
  /\ Cardinality({s \in Tabs : phase[s] # "idle"}) < MaxInFlight
  /\ \E h \in Calls[ClientOf[t]], u \in Users :
       /\ h \notin NamesUser => u = Anybody
       /\ request' = [request EXCEPT ![t] = Carried(t, h, u)]
       /\ Admit(t, request'[t])
       /\ troubled' = troubled \cup
            {j \in {Presents(request'[t])} \ {None} : h \in Rotates /\ Doubled(t, j)}
  /\ UNCHANGED <<jar, upstream, replayed>>

\* What a client has afterwards: the new ones replace those of their name.
Stored(held, given) ==
  [x \in DOMAIN held |-> IF x \in DOMAIN given THEN given[x] ELSE held[x]]

\* The answer arrives: Set-Cookie changes the jar, an app stores what it got.
Receive(t) ==
  /\ phase[t] = "answered"
  /\ jar' = [jar EXCEPT ![ClientOf[t]] = Stored(@, answer[t].tokens)]
  /\ phase' = [phase EXCEPT ![t] = "idle"]
  /\ request' = [request EXCEPT ![t] = NoRequest]
  /\ answer' = [answer EXCEPT ![t] = NoAnswer]
  /\ UNCHANGED <<upstream, replayed, troubled>>

\* It does not arrive: the connection breaks, or the tab was closed.
Lose(t) ==
  /\ phase[t] = "answered"
  /\ phase' = [phase EXCEPT ![t] = "idle"]
  /\ request' = [request EXCEPT ![t] = NoRequest]
  /\ answer' = [answer EXCEPT ![t] = NoAnswer]
  /\ troubled' = troubled \cup
       {j \in consumed : request[t].handler \in Rotates /\ Presents(request[t]) = j}
  /\ UNCHANGED <<jar, upstream, replayed>>

-----------------------------------------------------------------------------
(* The calls of the middleware.                                            *)

\* The call fails, or its answer does not come before the deadline.
Unreached(t) == \E code \in Failures : Refuse(t, code)

\* AuthClaims are the token's: the role too, whatever the row says by now.
claims(t) == pairs[extractToken(request[t])]

\* ValidateAccessToken, which looks at the row, and requireRole.
Authenticated(t) ==
  LET row == User(claims(t).user)
      valid == row.active /\ row.version = claims(t).version
      permitted == Router[request[t].handler].access = "admin" => claims(t).role = "admin"
  IN  \/ ~valid /\ Refuse(t, authMapError(IF row.active THEN "ErrSessionRevoked"
                                                       ELSE "ErrAccountInactive"))
      \/ valid /\ ~permitted /\ Refuse(t, "PermissionDenied")
      \/ valid /\ permitted /\ Goto(t, "handler")

\* requireAuth.
Authenticate(t) ==
  /\ phase[t] = "token"
  /\ Authenticated(t) \/ Unreached(t)
  /\ UNCHANGED <<client, upstream, replayed, troubled>>

-----------------------------------------------------------------------------
(* The handlers.  Each is at "handler" until it has its answer.            *)

\* A body that decodeJSON refuses is no status of gRPC.
RefusesBody(t) ==
  /\ phase[t] = "handler"
  /\ Handlers[request[t].handler].decodes
  /\ Refuse(t, "Internal")
  /\ UNCHANGED <<client, upstream, replayed, troubled>>

\* The call was not carried out, as far as anybody can tell.
CallFails(t) ==
  /\ phase[t] = "handler"
  /\ Handlers[request[t].handler].service # "none"
  /\ Unreached(t)
  /\ UNCHANGED <<client, upstream, replayed, troubled>>

\* The call is carried out; its answer can still be late.
Answered(t, given) ==
  \/ Answer(t, Handlers[request[t].handler].success, given)
  \/ Refuse(t, "DeadlineExceeded")

Handles(t, handlers) ==
  /\ phase[t] = "handler"
  /\ request[t].handler \in handlers

CSRF(t) ==
  /\ Handles(t, {"CSRF"})
  /\ Answer(t, 200, [csrf |-> TRUE])
  /\ UNCHANGED <<client, upstream, replayed, troubled>>

\* Slip: the cookies are set after the header of the answer was sent.
TokensGiven_TooLate == Keep

\* setBrowserSessionCookies, or toTokenResponse: the next pair.
TokensGiven == Hand(Len(pairs) + 1)

\* issueTokenPair for the row as it stands.
Issue(u, session) ==
  /\ Len(pairs) < MaxPairs
  /\ pairs' = Append(pairs, [user |-> u, session |-> session, version |-> User(u).version,
                             role |-> User(u).role, since |-> Len(users[u])])

\* Login, MobileLogin and VerifyOTP of a registration: a session of its own.
Login(t) ==
  /\ Handles(t, {"Login", "MobileLogin", "VerifyOTP"})
  /\ LET u == request[t].user
     IN  \/ User(u).active /\ Issue(u, Len(pairs) + 1) /\ Answered(t, TokensGiven)
         \/ ~User(u).active /\ Refuse(t, authMapError("ErrAccountInactive")) /\ UNCHANGED pairs
         \/ Refuse(t, authMapError("ErrInvalidCredentials")) /\ UNCHANGED pairs
  /\ UNCHANGED <<client, users, consumed, revoked, replayed, troubled>>

\* Slip: the new pair has the role of the old one.
Rotate_SameRole(j) ==
  /\ consumed' = consumed \cup {j}
  /\ Len(pairs) < MaxPairs
  /\ pairs' = Append(pairs, [pairs[j] EXCEPT !.since = Len(users[pairs[j].user])])

Rotate(j) ==
  /\ consumed' = consumed \cup {j}
  /\ Issue(pairs[j].user, pairs[j].session)

\* Redis lost the reply to SETNX: sent again, it finds the key, and the session
\* ends although the token was presented once.
Resent(j) ==
  /\ consumed' = consumed \cup {j}
  /\ revoked' = revoked \cup {pairs[j].session}
  /\ replayed' = replayed \cup {j}
  /\ troubled' = troubled \cup {j}

\* RefreshToken and MobileRefresh: rotateSession.
RefreshToken(t) ==
  /\ Handles(t, Rotates)
  /\ LET j == Presents(request[t])
         row == User(pairs[j].user)
         good == row.active /\ row.version = pairs[j].version
     IN  \/ /\ j = None
            /\ Refuse(t, "Unauthenticated")
            /\ UNCHANGED <<pairs, consumed, revoked, replayed, troubled>>
         \/ /\ j # None /\ pairs[j].session \in revoked
            /\ Refuse(t, authMapError("ErrSessionRevoked"))
            /\ UNCHANGED <<pairs, consumed, revoked, replayed, troubled>>
         \/ /\ j # None /\ pairs[j].session \notin revoked
            /\ ~good \/ j \in consumed
            /\ revoked' = revoked \cup {pairs[j].session}
            /\ replayed' = IF good THEN replayed \cup {j} ELSE replayed
            /\ Refuse(t, authMapError(IF row.active THEN "ErrSessionRevoked" ELSE "ErrAccountInactive"))
            /\ UNCHANGED <<pairs, consumed, troubled>>
         \/ /\ j # None /\ pairs[j].session \notin revoked /\ good /\ j \notin consumed
            /\ Rotate(j)
            /\ Answered(t, TokensGiven)
            /\ troubled' = IF answer'[t].status = 200 THEN troubled ELSE troubled \cup {j}
            /\ UNCHANGED <<revoked, replayed>>
         \/ /\ j # None /\ pairs[j].session \notin revoked /\ good /\ j \notin consumed
            /\ Resent(j)
            /\ Refuse(t, authMapError("ErrSessionRevoked"))
            /\ UNCHANGED pairs
  /\ UNCHANGED <<client, users>>

\* An app forgets its tokens when it is told that it is logged out.  For a
\* browser the cookies are cleared by a deferred call, after the status and
\* the headers have gone out: they stay.
AfterLogout(t) == IF IsApp(t) THEN Clear ELSE Keep

\* Logout and MobileLogout: revokeSessionFromTokens.
Logout(t) ==
  /\ Handles(t, {"Logout", "MobileLogout"})
  /\ LET a == extractToken(request[t])
         j == Presents(request[t])
         mixed == a # None /\ j # None
                  /\ (pairs[a].session # pairs[j].session \/ pairs[a].user # pairs[j].user)
     IN  \/ a = None /\ j = None /\ Answer(t, 200, AfterLogout(t)) /\ UNCHANGED revoked
         \/ mixed /\ Refuse(t, authMapError("ErrInvalidToken")) /\ UNCHANGED revoked
         \/ /\ ~mixed /\ (a # None \/ j # None)
            /\ revoked' = revoked \cup {pairs[IF j # None THEN j ELSE a].session}
            /\ Answered(t, AfterLogout(t))
  /\ UNCHANGED <<client, users, pairs, consumed, replayed, troubled>>

\* UpdatePasswordAndIncrementSessionVersion.
NewPassword(u) ==
  /\ Len(users[u]) <= MaxUserChanges
  /\ users' = [users EXCEPT ![u] = Append(@, [User(u) EXCEPT !.version = @ + 1])]

\* ResetPassword, for the account of the password in the body, and
\* ChangePassword, for the caller's.
SetPassword(t) ==
  /\ Handles(t, {"ResetPassword", "ChangePassword"})
  /\ LET reset == request[t].handler = "ResetPassword"
     IN  \/ /\ NewPassword(IF reset THEN request[t].user ELSE claims(t).user)
            /\ Answered(t, Clear)
         \/ /\ Refuse(t, authMapError(IF reset THEN "ErrInvalidOTP" ELSE "ErrInvalidCredentials"))
            /\ UNCHANGED users
  /\ UNCHANGED <<client, pairs, consumed, revoked, replayed, troubled>>

\* Every other handler passes the call on and returns what comes back.
Forwards ==
  DOMAIN Handlers \ (Mobile \cup Rotates \cup {"CSRF", "Login", "VerifyOTP", "Logout",
                                               "ResetPassword", "ChangePassword"})

Forward(t) ==
  /\ Handles(t, Forwards)
  /\ \/ Answered(t, Keep)
     \/ LET service == Handlers[request[t].handler].service
        IN  \E e \in Refusals[service] : Refuse(t, mapError(service, e))
  /\ UNCHANGED <<client, upstream, replayed, troubled>>

-----------------------------------------------------------------------------
(* What else happens.                                                      *)

\* An operator changes the role of an account, or closes or opens it.
UserChanges ==
  /\ \E u \in Users :
       /\ Len(users[u]) <= MaxUserChanges
       /\ \E row \in Interventions :
            users' = [users EXCEPT ![u] =
                        Append(@, [User(u) EXCEPT !.role = row.role, !.active = row.active])]
  /\ UNCHANGED <<client, phase, answer, pairs, consumed, revoked, replayed,
                 troubled>>

Handle(t) ==
  \/ CSRF(t)
  \/ Login(t)
  \/ RefreshToken(t)
  \/ Logout(t)
  \/ SetPassword(t)
  \/ Forward(t)

Serve(t) == Authenticate(t) \/ RefusesBody(t) \/ CallFails(t) \/ Handle(t)

Next ==
  \/ \E t \in Tabs : Send(t) \/ Serve(t) \/ Receive(t) \/ Lose(t)
  \/ UserChanges

Spec == Init /\ [][Next]_vars

-----------------------------------------------------------------------------
(* Properties.                                                             *)

\* The two session cookies, or the tokens of an app, always come from one
\* answer: a client never goes on with the access token of one session and the
\* refresh token of another, which no logout would accept.
OneSessionInJar == \A c \in Clients : jar[c].access = jar[c].refresh

\* Logged-in users are not logged out by their own browser: a session ends as
\* replayed only if two requests asked for the rotation of one token at once or
\* if an answer was lost, the gateway's to the browser or Redis's to
\* auth-service.
ReplayNeedsTrouble == replayed \subseteq troubled

\* Where a role is needed, the caller had it, in an active account, at some
\* moment since the token was issued: a rotation reads the row again, so a role
\* that was taken away is gone at the next one.
RoleWasHeld ==
  \A t \in Tabs :
    phase[t] = "handler" /\ Router[request[t].handler].access = "admin" =>
      \E k \in claims(t).since..Len(users[claims(t).user]) :
        users[claims(t).user][k].role = "admin" /\ users[claims(t).user][k].active

=============================================================================
