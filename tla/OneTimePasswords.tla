-------------------------- MODULE OneTimePasswords --------------------------
(***************************************************************************)
(* Registration and password reset by one-time password in auth-service,   *)
(* for one e-mail address: the payload in Redis under auth:otp:register:   *)
(* and auth:otp:reset:, the mail that carries the password, and the users  *)
(* row.                                                                    *)
(*                                                                         *)
(* A one-time password has the name of the request that had it made.  The  *)
(* payload is read, compared and written back by commands of their own, so *)
(* any other request may come between.  Two passwords are taken to differ, *)
(* and a guess that is not one of them to be wrong.                        *)
(***************************************************************************)
EXTENDS Integers, FiniteSets

CONSTANTS
  Requests,
  Passwords,
  First,         \* a request that is over at the start
  FirstPassword, \* the password it registered, or the account has by then
  Calls,         \* the calls clients may make
  OTPTTL,        \* lifetime of a one-time password and of its payload
  MaxAttempts,
  MaxTime,       \* bound on the clock
  Wrong,         \* a guess that is none of the passwords sent
  Nil

Purposes == {"register", "reset"}

Call ==
  [op : {"register"}, password : Passwords]
    \cup [op : {"forgot"}]
    \cup [op : {"verify"}, otp : Requests \cup {Wrong}]
    \cup [op : {"reset"}, otp : Requests \cup {Wrong}, password : Passwords]

\* OTPPayload, and how long Redis keeps it.  The draft of the account is the
\* one of the request the password is named after.
Payload == [otp : Requests, attempts : Nat, expires : Nat, until : Nat]

ASSUME PasswordsAssumption ==
  /\ Calls \subseteq Call
  /\ First \in Requests /\ FirstPassword \in Passwords
  /\ OTPTTL \in Nat /\ MaxAttempts \in Nat \ {0} /\ MaxTime \in Nat
  /\ Wrong \notin Requests
  /\ Nil \notin Call \cup Payload \cup Passwords \cup Requests

VARIABLES
  now,       \* the clock
  slot,      \* the payload under the key of each purpose
  account,   \* the password of the users row, Nil if there is none
  mailed,    \* the passwords that went out
  expiry,    \* ExpiresAt of each password made
  counted,   \* the password each wrong guess was written back against
  call, pc,  \* what each request is and where its handler stands
  seen,      \* the payload it read
  since,     \* when it began: had its password expired, what was over by then
  answer     \* its result

vars ==
  <<now, slot, account, mailed, expiry, counted, call, pc, seen, since, answer>>

PurposeOf(c) == IF c.op \in {"register", "verify"} THEN "register" ELSE "reset"

\* First has asked for a password and got it, for a new account or for the one
\* there is.
Init ==
  /\ now = 0
  /\ account \in {Nil, FirstPassword}
  /\ LET c == IF account = Nil
              THEN [op |-> "register", password |-> FirstPassword]
              ELSE [op |-> "forgot"]
     IN  /\ call = [r \in Requests |-> IF r = First THEN c ELSE Nil]
         /\ slot = [p \in Purposes |->
              IF p = PurposeOf(c)
              THEN [otp |-> First, attempts |-> 0, expires |-> OTPTTL, until |-> OTPTTL]
              ELSE Nil]
  /\ mailed = {First}
  /\ expiry = [r \in Requests |-> IF r = First THEN OTPTTL ELSE 0]
  /\ counted = [r \in Requests |-> Nil]
  /\ pc = [r \in Requests |-> IF r = First THEN "done" ELSE "idle"]
  /\ seen = [r \in Requests |-> Nil]
  /\ since = [r \in Requests |-> [late |-> FALSE, done |-> {}]]
  /\ answer = [r \in Requests |-> IF r = First THEN "OK" ELSE "none"]

Purpose(r) == PurposeOf(call[r])

Goto(r, next) == pc' = [pc EXCEPT ![r] = next] /\ UNCHANGED <<seen, answer>>

Return(r, result) ==
  /\ pc' = [pc EXCEPT ![r] = "done"]
  /\ answer' = [answer EXCEPT ![r] = result]
  /\ seen' = [seen EXCEPT ![r] = Nil]

begun == <<now, call, since>>
mails == <<mailed, expiry>>

\* Somebody asks for a password, or presents one that was in the mail.  One of
\* the other purpose is as wrong as any.
Begin(r) ==
  /\ pc[r] = "idle"
  /\ \E c \in Calls :
       /\ c.op \in {"verify", "reset"} =>
            c.otp \in {o \in mailed : Purpose(o) = PurposeOf(c)} \cup {Wrong}
       /\ call' = [call EXCEPT ![r] = c]
       /\ Goto(r, IF c.op \in {"register", "forgot"} THEN "user" ELSE "load")
       /\ since' = [since EXCEPT ![r] =
            [late |-> c.op \in {"verify", "reset"} /\ c.otp # Wrong /\ expiry[c.otp] < now,
             done |-> {q \in Requests : pc[q] = "done"}]]
  /\ UNCHANGED <<now, slot, account, mails, counted>>

-----------------------------------------------------------------------------
(* Register and ForgotPassword.                                            *)

\* FindByEmail.  ForgotPassword does not tell that there is no account.  The
\* account is taken to be active.
RequestChecksUser(r) ==
  /\ pc[r] = "user"
  /\ \/ call[r].op = "register" /\ account # Nil /\ Return(r, "EmailAlreadyExists")
     \/ call[r].op = "forgot" /\ account = Nil /\ Return(r, "OK")
     \/ (call[r].op = "register" <=> account = Nil) /\ Goto(r, "store")
  /\ UNCHANGED <<begun, slot, account, mails, counted>>

\* storeOTPPayload of a new password.
RequestStores(r) ==
  /\ pc[r] = "store"
  /\ slot' = [slot EXCEPT ![Purpose(r)] =
       [otp |-> r, attempts |-> 0, expires |-> now + OTPTTL, until |-> now + OTPTTL]]
  /\ expiry' = [expiry EXCEPT ![r] = now + OTPTTL]
  /\ Goto(r, "publish")
  /\ UNCHANGED <<begun, account, mailed, counted>>

\* PublishRegisterOTP, PublishResetOTP: a mail may go out though publishing is
\* said to have failed.
RequestPublishes(r) ==
  /\ pc[r] = "publish"
  /\ \/ mailed' = mailed \cup {r} /\ Return(r, "OK")
     \/ mailed' \in {mailed, mailed \cup {r}} /\ Goto(r, "undo")
  /\ UNCHANGED <<begun, slot, account, expiry, counted>>

\* The key is deleted, whatever it holds by now, or Redis fails.
RequestUndoes(r) ==
  /\ pc[r] = "undo"
  /\ slot' \in {slot, [slot EXCEPT ![Purpose(r)] = Nil]}
  /\ Return(r, "Internal")
  /\ UNCHANGED <<begun, account, mails, counted>>

-----------------------------------------------------------------------------
(* VerifyOTP and ResetPassword.                                            *)

\* loadOTPPayload finds what Redis still has.
Found(p) == slot[p] # Nil /\ now < slot[p].until

\* Slip: Redis is left to forget the payload.
Good_TrustsRedis(payload) == payload.attempts < MaxAttempts

\* Slip: one attempt too many.
Good_OneMore(payload) == now <= payload.expires /\ payload.attempts <= MaxAttempts

\* verifyOTPPayload, before it compares.
Good(payload) == now <= payload.expires /\ payload.attempts < MaxAttempts

\* GET, and the checks of verifyOTPPayload.
GuessLoads(r) ==
  /\ pc[r] = "load"
  /\ LET p == Purpose(r)
     IN  \/ ~Found(p) /\ Return(r, "OTPExpired")
         \/ Found(p) /\ ~Good(slot[p]) /\ Return(r, "OTPRefused")
         \/ /\ Found(p) /\ Good(slot[p])
            /\ seen' = [seen EXCEPT ![r] = slot[p]]
            /\ pc' = [pc EXCEPT ![r] = IF slot[p].otp = call[r].otp THEN "write" ELSE "count"]
            /\ UNCHANGED answer
  /\ UNCHANGED <<begun, slot, account, mails, counted>>

\* Slip: a wrong guess spoils the payload.
GuessCounts_Drops(r) ==
  /\ pc[r] = "count"
  /\ slot' = [slot EXCEPT ![Purpose(r)] = Nil]
  /\ counted' = [counted EXCEPT ![r] = seen[r].otp]
  /\ Return(r, "InvalidOTP")
  /\ UNCHANGED <<begun, account, mails>>

\* The payload that was read goes back with one attempt more, for another
\* OTPTTL and whatever is there by now; an error of Redis is ignored.
GuessCounts(r) ==
  /\ pc[r] = "count"
  /\ \/ /\ slot' = [slot EXCEPT ![Purpose(r)] =
             [seen[r] EXCEPT !.attempts = @ + 1, !.until = now + OTPTTL]]
        /\ counted' = [counted EXCEPT ![r] = seen[r].otp]
     \/ UNCHANGED <<slot, counted>>
  /\ Return(r, "InvalidOTP")
  /\ UNCHANGED <<begun, account, mails>>

\* Slip: the draft is read again.
VerifyCreates_Rereads(r) ==
  /\ pc[r] = "write" /\ call[r].op = "verify"
  /\ \/ account # Nil /\ Return(r, "EmailAlreadyExists") /\ UNCHANGED account
     \/ /\ account = Nil /\ slot["register"] # Nil
        /\ account' = call[slot["register"].otp].password
        /\ Goto(r, "delete")
  /\ UNCHANGED <<begun, slot, mails, counted>>

\* Create, with the draft of the payload; email is unique.
VerifyCreates(r) ==
  /\ pc[r] = "write" /\ call[r].op = "verify"
  /\ \/ account # Nil /\ Return(r, "EmailAlreadyExists") /\ UNCHANGED account
     \/ account = Nil /\ account' = call[seen[r].otp].password /\ Goto(r, "delete")
  /\ UNCHANGED <<begun, slot, mails, counted>>

\* FindByEmail, and UpdatePasswordAndIncrementSessionVersion.
ResetUpdates(r) ==
  /\ pc[r] = "write" /\ call[r].op = "reset"
  /\ account' = call[r].password
  /\ Goto(r, "delete")
  /\ UNCHANGED <<begun, slot, mails, counted>>

\* Slip: the other key.
GuessDeletes_Other(r) ==
  /\ pc[r] = "delete"
  /\ slot' = [slot EXCEPT !["register"] = Nil]
  /\ Return(r, "OK")
  /\ UNCHANGED <<begun, account, mails, counted>>

\* DEL: only now the password is used up.
GuessDeletes(r) ==
  /\ pc[r] = "delete"
  /\ slot' = [slot EXCEPT ![Purpose(r)] = Nil]
  /\ Return(r, "OK") \/ Return(r, "Internal")
  /\ UNCHANGED <<begun, account, mails, counted>>

-----------------------------------------------------------------------------
(* What else happens.                                                      *)

\* A store does nothing or is not heard of again, the request is cancelled or
\* the process dies.
Fail(r) ==
  /\ pc[r] \notin {"idle", "done"}
  /\ Return(r, "Internal")
  /\ UNCHANGED <<begun, slot, account, mails, counted>>

Tick ==
  /\ now < MaxTime
  /\ now' = now + 1
  /\ UNCHANGED <<slot, account, mails, counted, call, pc, seen, since, answer>>

Request(r) ==
  \/ RequestChecksUser(r)
  \/ RequestStores(r)
  \/ RequestPublishes(r)
  \/ RequestUndoes(r)

Guess(r) ==
  \/ GuessLoads(r)
  \/ GuessCounts(r)
  \/ VerifyCreates(r)
  \/ ResetUpdates(r)
  \/ GuessDeletes(r)

Next ==
  \/ \E r \in Requests : Begin(r) \/ Request(r) \/ Guess(r) \/ Fail(r)
  \/ Tick

Spec == Init /\ [][Next]_vars

-----------------------------------------------------------------------------
(* Properties.                                                             *)

\* A key holds passwords of its own purpose, and there is an account as soon
\* as there is one to reset.
TypeOK ==
  /\ now \in 0..MaxTime
  /\ slot \in [Purposes -> Payload \cup {Nil}]
  /\ \A p \in Purposes :
       slot[p] # Nil =>
         call[slot[p].otp].op = (IF p = "register" THEN "register" ELSE "forgot")
  /\ account \in Passwords \cup {Nil}
  /\ slot["reset"] # Nil => account # Nil
  /\ mailed \in SUBSET Requests
  /\ expiry \in [Requests -> Nat]
  /\ counted \in [Requests -> Requests \cup {Nil}]
  /\ call \in [Requests -> Call \cup {Nil}]
  /\ pc \in [Requests -> {"idle", "user", "store", "publish", "undo", "load", "count",
                         "write", "delete", "done"}]
  /\ seen \in [Requests -> Payload \cup {Nil}]
  /\ since \in [Requests -> [late : BOOLEAN, done : SUBSET Requests]]
  /\ answer \in [Requests -> {"none", "OK", "Internal", "EmailAlreadyExists", "OTPExpired",
                             "OTPRefused", "InvalidOTP"}]

\* r was over when q began, or the two overlapped.
Before(r, q) == r \in since[q].done
Overlap(r, q) == r # q /\ call[r] # Nil /\ call[q] # Nil /\ ~Before(r, q) /\ ~Before(q, r)

IsGuess(r) == call[r] # Nil /\ call[r].op \in {"verify", "reset"}

\* The requests that got something done with password o.
Users(o) ==
  {r \in Requests : IsGuess(r) /\ call[r].otp = o /\ answer[r] = "OK"}

\* AUTH_OTP_MAX_ATTEMPTS: of wrong guesses made one after another, each written
\* back, a password takes MaxAttempts, and after them not even itself.
\* (Guesses that overlap are counted together as one.)
AttemptsAreLimited ==
  \A o \in Requests :
    LET wrong == {r \in Requests : counted[r] = o}
    IN  (\A r, q \in {g \in Requests : IsGuess(g)} : ~Overlap(r, q)) =>
          /\ Cardinality(wrong) <= MaxAttempts
          /\ Cardinality(wrong) = MaxAttempts =>
               \A q \in Users(o) : \E r \in wrong : ~Before(r, q)

\* AUTH_OTP_TTL_SECONDS: a password that has expired when a request begins does
\* nothing for it, even if wrong guesses have kept its payload in Redis.
NothingExpiredWorks ==
  \A o \in Requests : \A r \in Users(o) : ~since[r].late

\* A password that has been used is not used again, except where a wrong guess
\* under way during its use brings its payload back.
UsedOnce ==
  \A o \in Requests : \A r, q \in Users(o) :
    Before(r, q) => \E w \in Requests : counted[w] = o /\ Overlap(w, r)

\* Whoever is told that the account was made gets the password registered
\* with the one-time password they presented, until somebody resets it.
AccountAsRegistered ==
  \A r \in Requests :
    /\ call[r] # Nil /\ call[r].op = "verify" /\ answer[r] = "OK"
    /\ \A q \in Requests : call[q] # Nil => call[q].op # "reset"
    => account = call[call[r].otp].password

\* The password asked for last is the one that counts until it expires, unless
\* it is used, or a guess or another request overlapped with the asking.
LastAskedStands ==
  \A r \in Requests :
    /\ call[r] # Nil /\ call[r].op \in {"register", "forgot"}
    /\ r \in mailed /\ answer[r] = "OK" /\ now < expiry[r]
    /\ \A q \in Requests \ {r} :
         call[q] # Nil /\ Purpose(q) = Purpose(r) =>
           \/ Before(q, r)
           \/ IsGuess(q) /\ Before(r, q) /\ call[q].otp # r
    => slot[Purpose(r)] # Nil /\ slot[Purpose(r)].otp = r

=============================================================================
