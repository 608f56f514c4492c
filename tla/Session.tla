------------------------------- MODULE Session -------------------------------
(***************************************************************************)
(* The sessions of one account in auth-service: login, rotation of refresh *)
(* tokens, logout, change of password and the check of access tokens, over *)
(* the users row in PostgreSQL and the keys in Redis.                      *)
(*                                                                         *)
(* Tokens come in pairs, an access and a refresh token issued together; a  *)
(* pair is its place in pairs, which is also its jti, and the session      *)
(* (sid) of a login is its first pair.  The signature is taken to hold, so *)
(* a client can only present tokens that were issued.                      *)
(*                                                                         *)
(* A handler is a sequence of reads and writes of the two stores, each an  *)
(* action.  users is a history: its last element is the row as it stands.  *)
(***************************************************************************)
EXTENDS Integers, Sequences, FiniteSets

CONSTANTS
  Requests,
  Passwords,
  FirstPassword,     \* the account's password at the start
  RefreshTTL,        \* lifetime of a refresh token and of a revocation
  AccessTTL,         \* lifetime of an access token, the leeway included
  Leeway,            \* how long parsing goes on accepting a refresh token
  Calls,             \* the calls clients may make
  MaxTime,           \* bound on the clock
  MaxUserChanges     \* bound on the changes of the row no request here makes

ASSUME SessionAssumption ==
  /\ FirstPassword \in Passwords
  /\ RefreshTTL \in Nat \ {0}
  /\ AccessTTL \in Nat
  /\ Leeway \in Nat
  /\ MaxTime \in Nat
  /\ MaxUserChanges \in Nat
  /\ IsFiniteSet(Requests)

Account == [password : Passwords, version : Nat \ {0}, active : BOOLEAN]

\* Every request issues at most one pair; there is one at the start.
Pairs == 1..(Cardinality(Requests) + 1)

\* from is the pair whose refresh token was rotated, 0 for a login.
Pair == [session : Pairs, version : Nat \ {0}, issued : Nat, from : Pairs \cup {0}]

Call ==
  [op : {"login"}, password : Passwords]
    \cup [op : {"refresh", "access"}, token : Pairs]
    \cup [op : {"change"}, token : Pairs, password : Passwords, next : Passwords]
    \cup [op : {"logout"}, refresh : Pairs \cup {0}, access : Pairs \cup {0}]

ASSUME CallsAssumption == Calls \subseteq Call

NoCall == [op |-> "none"]

VARIABLES
  now,           \* the clock
  users,         \* the account's row, the current state last
  pairs,         \* the token pairs issued so far
  usedUntil,     \* expiry of auth:refresh:used:<jti>
  revokedUntil,  \* expiry of auth:session:revoked:<sid>
  call, pc,      \* what each request is and where its handler stands
  seen,          \* the row it read
  verdict,       \* the error it will answer once the session is revoked
  since,         \* when it began: the length of users, and buried
  answer,        \* its result
  buried         \* the pairs that existed when their session was revoked

vars == <<now, users, pairs, usedUntil, revokedUntil, call, pc, seen, verdict, since,
          answer, buried>>

User == users[Len(users)]

Expiry(j) == pairs[j].issued + RefreshTTL

\* ParseRefreshToken and ParseAccessToken.
ParsesRefresh(j) == now < Expiry(j) + Leeway
ParsesAccess(j) == now < pairs[j].issued + AccessTTL

\* A key is there until it expires.
Consumed(j) == now < usedUntil[j]
Revoked(s) == now < revokedUntil[s]

-----------------------------------------------------------------------------
Init ==
  /\ now = 0
  /\ users = <<[password |-> FirstPassword, version |-> 1, active |-> TRUE]>>
  /\ pairs = <<[session |-> 1, version |-> 1, issued |-> 0, from |-> 0]>>
  /\ usedUntil = [j \in Pairs |-> 0]
  /\ revokedUntil = [s \in Pairs |-> 0]
  /\ call = [r \in Requests |-> NoCall]
  /\ pc = [r \in Requests |-> "idle"]
  /\ seen = [r \in Requests |-> User]
  /\ verdict = [r \in Requests |-> "none"]
  /\ since = [r \in Requests |-> [users |-> 1, buried |-> {}]]
  /\ answer = [r \in Requests |-> "none"]
  /\ buried = {}

keys == <<usedUntil, revokedUntil, buried>>
stores == <<users, pairs, keys>>
begun == <<now, call, since>>

Goto(r, next) == pc' = [pc EXCEPT ![r] = next] /\ UNCHANGED answer

Return(r, result) ==
  /\ pc' = [pc EXCEPT ![r] = "done"]
  /\ answer' = [answer EXCEPT ![r] = result]

\* A write was carried out; the connection may be lost before it is known.
Acknowledged(r) == Return(r, "OK") \/ Return(r, "Internal")

FirstStep(op) ==
  CASE op = "login"              -> "credentials"
    [] op = "refresh"            -> "session"
    [] op \in {"access", "change"} -> "token"
    [] op = "logout"             -> "logout"

\* A client presents a password, or tokens it was once given.  A logout with
\* no token does nothing.
Begin(r) ==
  /\ pc[r] = "idle"
  /\ \E c \in Calls :
       /\ c.op \in {"refresh", "access", "change"} => c.token <= Len(pairs)
       /\ c.op = "logout" =>
            c.refresh <= Len(pairs) /\ c.access <= Len(pairs) /\ c.refresh + c.access > 0
       /\ call' = [call EXCEPT ![r] = c]
       /\ Goto(r, FirstStep(c.op))
  /\ since' = [since EXCEPT ![r] = [users |-> Len(users), buried |-> buried]]
  /\ UNCHANGED <<now, stores, seen, verdict>>

\* issueTokenPair for the row the handler read.
Issue(r, session, from) ==
  /\ pairs' = Append(pairs, [session |-> session, version |-> seen[r].version,
                             issued |-> now, from |-> from])
  /\ Return(r, "OK")
  /\ UNCHANGED <<users, keys, begun, seen, verdict>>

-----------------------------------------------------------------------------
(* Login and MobileLogin.                                                  *)

\* authenticate: FindByEmail, the password, the account.
Authenticates(r) ==
  /\ pc[r] = "credentials"
  /\ seen' = [seen EXCEPT ![r] = User]
  /\ \/ User.password # call[r].password /\ Return(r, "InvalidCredentials")
     \/ User.password = call[r].password /\ ~User.active /\ Return(r, "AccountInactive")
     \/ User.password = call[r].password /\ User.active /\ Goto(r, "open")
  /\ UNCHANGED <<begun, stores, verdict>>

\* A session of its own for every login.
OpensSession(r) ==
  /\ pc[r] = "open"
  /\ Issue(r, Len(pairs) + 1, 0)

-----------------------------------------------------------------------------
(* rotateSession.                                                          *)

\* ParseRefreshToken and ensureSessionActive.
RefreshChecksSession(r) ==
  /\ pc[r] = "session"
  /\ LET j == call[r].token
     IN  \/ ~ParsesRefresh(j) /\ Return(r, "InvalidToken")
         \/ ParsesRefresh(j) /\ Revoked(pairs[j].session) /\ Return(r, "SessionRevoked")
         \/ ParsesRefresh(j) /\ ~Revoked(pairs[j].session) /\ Goto(r, "user")
  /\ UNCHANGED <<begun, stores, seen, verdict>>

\* Slip: nobody looks at the version.
RefreshReadsUser_AnyVersion(r) ==
  /\ pc[r] = "user"
  /\ seen' = [seen EXCEPT ![r] = User]
  /\ Goto(r, "consume")
  /\ UNCHANGED <<begun, stores, verdict>>

\* FindByID: an inactive account or an older version ends the session.
RefreshReadsUser(r) ==
  /\ pc[r] = "user"
  /\ seen' = [seen EXCEPT ![r] = User]
  /\ LET good == User.active /\ User.version = pairs[call[r].token].version
     IN  \/ good /\ Goto(r, "consume") /\ UNCHANGED verdict
         \/ /\ ~good
            /\ verdict' = [verdict EXCEPT ![r] =
                 IF User.active THEN "SessionRevoked" ELSE "AccountInactive"]
            /\ Goto(r, "revoke")
  /\ UNCHANGED <<begun, stores>>

\* Slip: the key is looked up and not claimed.
RefreshConsumes_Unclaimed(r) ==
  /\ pc[r] = "consume"
  /\ IF Consumed(call[r].token)
     THEN verdict' = [verdict EXCEPT ![r] = "replay"] /\ Goto(r, "revoke")
     ELSE Goto(r, "issue") /\ UNCHANGED verdict
  /\ UNCHANGED <<begun, stores, seen>>

\* SETNX auth:refresh:used:<jti>, for as long as the token has left.  A token
\* that has been used is a replay.  The client of Redis sends a command again
\* whose reply was lost: the second SETNX finds the key of the first, and the
\* only use of the token looks like a replay.
RefreshConsumes(r) ==
  /\ pc[r] = "consume"
  /\ LET j == call[r].token
     IN  \/ /\ now >= Expiry(j)
            /\ Return(r, "InvalidToken")
            /\ UNCHANGED <<usedUntil, verdict>>
         \/ /\ now < Expiry(j) /\ ~Consumed(j)
            /\ usedUntil' = [usedUntil EXCEPT ![j] = Expiry(j)]
            /\ \/ Goto(r, "issue") /\ UNCHANGED verdict
               \/ Goto(r, "revoke") /\ verdict' = [verdict EXCEPT ![r] = "replay"]
         \/ /\ now < Expiry(j) /\ Consumed(j)
            /\ verdict' = [verdict EXCEPT ![r] = "replay"]
            /\ Goto(r, "revoke")
            /\ UNCHANGED usedUntil
  /\ UNCHANGED <<begun, users, pairs, revokedUntil, buried, seen>>

RefreshIssues(r) ==
  /\ pc[r] = "issue"
  /\ Issue(r, pairs[call[r].token].session, call[r].token)

\* Slip: the revocation is shorter than a token may last.
Revoke_Briefly(s) ==
  /\ revokedUntil' = [revokedUntil EXCEPT ![s] = now + AccessTTL]
  /\ buried' = buried \cup {j \in 1..Len(pairs) : pairs[j].session = s}

\* revokeSession: SET with the lifetime of a refresh token.
Revoke(s) ==
  /\ revokedUntil' = [revokedUntil EXCEPT ![s] = now + RefreshTTL]
  /\ buried' = buried \cup {j \in 1..Len(pairs) : pairs[j].session = s}

\* Slip: a replay is only refused.
RefreshRevokes_Nothing(r) ==
  /\ pc[r] = "revoke"
  /\ Return(r, IF verdict[r] = "replay" THEN "SessionRevoked" ELSE verdict[r])
  /\ UNCHANGED <<begun, stores, seen, verdict>>

\* The session goes.  If Redis does not answer, having done it or not, only a
\* replay is reported as a failure; the other errors still win.
RefreshRevokes(r) ==
  /\ pc[r] = "revoke"
  /\ \/ /\ Revoke(pairs[call[r].token].session)
        /\ Return(r, IF verdict[r] = "replay" THEN "SessionRevoked" ELSE verdict[r])
     \/ /\ Revoke(pairs[call[r].token].session) \/ UNCHANGED <<revokedUntil, buried>>
        /\ Return(r, IF verdict[r] = "replay" THEN "Internal" ELSE verdict[r])
  /\ UNCHANGED <<begun, users, pairs, usedUntil, seen, verdict>>

-----------------------------------------------------------------------------
(* Logout and MobileLogout: revokeSessionFromTokens.                       *)

LogoutRevokes(r) ==
  /\ pc[r] = "logout"
  /\ LET c == call[r]
         access == c.access # 0 /\ ParsesAccess(c.access)
         ok == /\ c.refresh # 0 => ParsesRefresh(c.refresh)
               /\ c.refresh # 0 \/ access
               /\ c.refresh # 0 /\ access => pairs[c.access].session = pairs[c.refresh].session
         session == pairs[IF c.refresh # 0 THEN c.refresh ELSE c.access].session
     IN  \/ ~ok /\ Return(r, "InvalidToken") /\ UNCHANGED <<revokedUntil, buried>>
         \/ ok /\ Revoke(session) /\ Acknowledged(r)
  /\ UNCHANGED <<begun, users, pairs, usedUntil, seen, verdict>>

-----------------------------------------------------------------------------
(* ValidateAccessToken, and ChangePassword behind it.                      *)

ValidatesAccess(r) ==
  /\ pc[r] = "token"
  /\ LET j == call[r].token
         failure == CASE ~ParsesAccess(j)                 -> "InvalidToken"
                      [] ParsesAccess(j) /\ ~User.active  -> "AccountInactive"
                      [] OTHER                            -> "SessionRevoked"
         good == ParsesAccess(j) /\ User.active /\ User.version = pairs[j].version
     IN  \/ ~good /\ Return(r, failure)
         \/ good /\ call[r].op = "access" /\ Return(r, "OK")
         \/ good /\ call[r].op = "change" /\ Goto(r, "compare")
  /\ UNCHANGED <<begun, stores, seen, verdict>>

\* FindByID and ComparePassword.
ChangeCompares(r) ==
  /\ pc[r] = "compare"
  /\ seen' = [seen EXCEPT ![r] = User]
  /\ \/ User.password # call[r].password /\ Return(r, "InvalidCredentials")
     \/ User.password = call[r].password /\ Goto(r, "update")
  /\ UNCHANGED <<begun, stores, verdict>>

\* UpdatePasswordAndIncrementSessionVersion: one statement, whatever the
\* password is by now.
NewPassword(password) ==
  users' = Append(users, [User EXCEPT !.password = password, !.version = @ + 1])

ChangeUpdates(r) ==
  /\ pc[r] = "update"
  /\ NewPassword(call[r].next)
  /\ Acknowledged(r)
  /\ UNCHANGED <<begun, pairs, keys, seen, verdict>>

-----------------------------------------------------------------------------
(* What else happens.                                                      *)

\* A store does nothing, the request is cancelled or the process dies.
Fail(r) ==
  /\ pc[r] \notin {"idle", "done"}
  /\ Return(r, "Internal")
  /\ UNCHANGED <<begun, stores, seen, verdict>>

\* ResetPassword elsewhere, or an operator who closes the account or its role
\* or opens it again.
UserChanges ==
  /\ Len(users) <= MaxUserChanges
  /\ \/ \E password \in Passwords : NewPassword(password)
     \/ users' = Append(users, [User EXCEPT !.active = ~@])
  /\ UNCHANGED <<begun, pairs, keys, pc, seen, verdict, answer>>

Tick ==
  /\ now < MaxTime
  /\ now' = now + 1
  /\ UNCHANGED <<stores, call, since, pc, seen, verdict, answer>>

Login(r) == Authenticates(r) \/ OpensSession(r)

Refresh(r) ==
  \/ RefreshChecksSession(r)
  \/ RefreshReadsUser(r)
  \/ RefreshConsumes(r)
  \/ RefreshIssues(r)
  \/ RefreshRevokes(r)

Logout(r) == LogoutRevokes(r)

AccessOrChange(r) == ValidatesAccess(r) \/ ChangeCompares(r) \/ ChangeUpdates(r)

Step(r) == Login(r) \/ Refresh(r) \/ Logout(r) \/ AccessOrChange(r)

Next ==
  \/ \E r \in Requests : Begin(r) \/ Step(r) \/ Fail(r)
  \/ UserChanges
  \/ Tick

Spec == Init /\ [][Next]_vars

-----------------------------------------------------------------------------
(* Properties.                                                             *)

\* A rotated pair stays in the session of the one it came from.
TypeOK ==
  /\ now \in 0..MaxTime
  /\ users \in Seq(Account) \ {<<>>}
  /\ pairs \in Seq(Pair) \ {<<>>}
  /\ \A j \in 1..Len(pairs) :
       pairs[j].session = IF pairs[j].from = 0 THEN j ELSE pairs[pairs[j].from].session
  /\ usedUntil \in [Pairs -> Nat]
  /\ revokedUntil \in [Pairs -> Nat]
  /\ call \in [Requests -> Calls \cup {NoCall}]
  /\ pc \in [Requests -> {"idle", "credentials", "open", "session", "user", "consume", "issue",
                         "revoke", "logout", "token", "compare", "update", "done"}]
  /\ seen \in [Requests -> Account]
  /\ verdict \in [Requests -> {"none", "replay", "SessionRevoked", "AccountInactive"}]
  /\ since \in [Requests -> [users : Nat \ {0}, buried : SUBSET Pairs]]
  /\ answer \in [Requests -> {"none", "OK", "Internal", "InvalidToken", "InvalidCredentials",
                             "SessionRevoked", "AccountInactive"}]
  /\ buried \in SUBSET Pairs

\* README.md of auth-service, "Refresh tokens ... rotate once": however many
\* requests present a refresh token and however they interleave, at most one
\* pair comes of it, so a session has one newest pair and never two.
RotatesOnce ==
  \A i, j \in 1..Len(pairs) :
    pairs[i].from = pairs[j].from /\ pairs[i].from # 0 => i = j

\* What was accepted was in force at some moment of the request: the account
\* active and the password or the version the one presented.  A password
\* that has changed, and every token from before the change, are worth nothing
\* to a request that begins after it, even a token issued by a login or a
\* rotation that was under way.
CredentialsWereCurrent ==
  \A r \in Requests :
    answer[r] = "OK" /\ call[r].op # "logout" =>
      LET moments == since[r].users..Len(users)
      IN  /\ \E k \in moments :
               /\ users[k].active
               /\ call[r].op = "login" => users[k].password = call[r].password
               /\ call[r].op # "login" => users[k].version = pairs[call[r].token].version
          /\ call[r].op = "change" =>
               \E k \in moments : users[k].password = call[r].password
          /\ \A k, m \in moments :
               users[k].version = users[m].version => users[k].password = users[m].password

\* README.md, "Refresh replay revokes the entire session family": once two
\* presentations of a refresh token have been answered, its session has been
\* revoked, or the version of its tokens is an old one.
ReplayRevokes ==
  \A r, q \in Requests :
    /\ r # q
    /\ call[r].op = "refresh" /\ answer[r] \in {"OK", "SessionRevoked"}
    /\ call[q].op = "refresh" /\ answer[q] \in {"OK", "SessionRevoked"}
    /\ call[r].token = call[q].token
    => \/ \E j \in buried : pairs[j].session = pairs[call[r].token].session
       \/ pairs[call[r].token].version # User.version

\* A revocation lasts as long as the refresh tokens it was for: no rotation
\* that begins after it accepts one of them, not even when the key has gone.
\* Only a pair that a rotation under way issues afterwards escapes.
RevocationOutlivesTokens ==
  \A r \in Requests :
    answer[r] = "OK" /\ call[r].op = "refresh" => call[r].token \notin since[r].buried

\* docs/TOKEN_VERIFY_FLOW_THEO_CODE_VI.md says that sessionVersion serves to
\* invalidate old tokens on events such as a password change or the
\* revocation of a session: no access token from before a revocation is
\* accepted by a request that begins after it.
RevocationEndsAccess ==
  \A r \in Requests :
    answer[r] = "OK" /\ call[r].op = "access" => call[r].token \notin since[r].buried

=============================================================================
