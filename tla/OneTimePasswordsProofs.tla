------------------------ MODULE OneTimePasswordsProofs ------------------------
(***************************************************************************)
(* Proofs about OneTimePasswords, for any requests, passwords and calls,   *)
(* any lifetime, and any number of attempts: its types, that nothing       *)
(* expired works, that a used password is not used again but for a racing  *)
(* wrong guess, that an account gets the password registered with the      *)
(* one-time password, and that the password asked for last counts; and     *)
(* about the limits in front of the handlers (AuthRouter), for any window  *)
(* and any of the limits.                                                  *)
(***************************************************************************)
EXTENDS OneTimePasswords, AuthRouter, SumTheorems

-----------------------------------------------------------------------------
(* What the handlers know of one another.                                  *)

RequestPlaces == {"user", "store", "publish", "undo"}
GuessPlaces == {"load", "count", "write", "delete"}

\* The request has made its password.
Made(o) == pc[o] \notin {"idle", "user", "store"}

\* A payload under the key of purpose p is of a password made for p, and expires
\* as it was made to.
Sound(x, p) ==
  /\ call[x.otp].op \in {"register", "forgot"} /\ Purpose(x.otp) = p
  /\ Made(x.otp)
  /\ x.expires = expiry[x.otp]

MatchOf(r) ==
  /\ pc[r] = "idle" <=> call[r] = Nil
  /\ pc[r] \in RequestPlaces => call[r].op \in {"register", "forgot"}
  /\ pc[r] \in GuessPlaces => call[r].op \in {"verify", "reset"}
  /\ seen[r] # Nil <=> pc[r] \in {"count", "write", "delete"}
  /\ seen[r] # Nil => Sound(seen[r], Purpose(r))
  /\ seen[r] # Nil /\ Purpose(r) = "reset" => account # Nil
  /\ pc[r] \in {"write", "delete"} => seen[r].otp = call[r].otp
  /\ pc[r] = "store" /\ call[r].op = "forgot" => account # Nil
  /\ pc[r] # "idle" /\ call[r].op \in {"verify", "reset"} /\ call[r].otp # Wrong =>
       call[r].otp \in mailed /\ Purpose(call[r].otp) = Purpose(r)
  /\ answer[r] # "none" \/ counted[r] # Nil => pc[r] = "done"
  /\ r \in mailed => Made(r)
  /\ \A q \in since[r].done : pc[q] = "done"

Slots == \A p \in Purposes : slot[p] # Nil => Sound(slot[p], p)

Matches == \A r \in Requests : MatchOf(r)

Typed == TypeOK /\ Slots /\ Matches

-----------------------------------------------------------------------------
(* Calls and payloads.                                                     *)

\* The fields of a call, by its operation.
LEMMA CallFields ==
  ASSUME NEW c \in Call
  PROVE  /\ c.op \in {"register", "forgot", "verify", "reset"} /\ c # Nil
         /\ c.op = "register" => c.password \in Passwords
         /\ c.op \in {"verify", "reset"} => c.otp \in Requests \cup {Wrong}
         /\ c.op = "reset" => c.password \in Passwords
         /\ PurposeOf(c) \in Purposes
  BY PasswordsAssumption DEF Call, PurposeOf, Purposes

LEMMA NilIsNothing == Calls \subseteq Call /\ Nil \notin Call /\ Nil \notin Payload /\ Nil \notin Passwords /\ Nil \notin Requests
  BY PasswordsAssumption

\* The call of a request that has begun.
LEMMA CallOf ==
  ASSUME Typed, NEW r \in Requests, pc[r] # "idle"
  PROVE  call[r] \in Call /\ Purpose(r) \in Purposes
<1>1. call[r] \in Call
  BY DEF Typed, TypeOK, Matches, MatchOf
<1> QED
  BY <1>1, CallFields DEF Purpose

LEMMA PayloadFields ==
  ASSUME NEW x \in Payload
  PROVE  /\ x # Nil /\ x.otp \in Requests /\ x.attempts \in Nat /\ x.expires \in Nat /\ x.until \in Nat
  BY NilIsNothing DEF Payload

-----------------------------------------------------------------------------
(* Steps are of one request.                                               *)

Acts(r) == Begin(r) \/ Request(r) \/ Guess(r) \/ Fail(r)

LEMMA ActsAlone ==
  ASSUME Typed, NEW r \in Requests, Acts(r)
  PROVE  /\ now' = now
         /\ \A q \in Requests \ {r} :
              /\ pc'[q] = pc[q] /\ call'[q] = call[q] /\ seen'[q] = seen[q] /\ since'[q] = since[q]
              /\ answer'[q] = answer[q] /\ counted'[q] = counted[q] /\ expiry'[q] = expiry[q]
         /\ mailed \subseteq mailed' /\ mailed' \subseteq mailed \cup {r}
         /\ account # Nil => account' # Nil
         /\ Begin(r) => /\ pc[r] = "idle"
                        /\ UNCHANGED <<slot, account, mailed, expiry, counted, seen, answer>>
         /\ ~Begin(r) => call' = call /\ since' = since /\ pc[r] \notin {"idle", "done"}
         /\ Made(r) => /\ expiry'[r] = expiry[r]
                       /\ call' = call /\ pc'[r] \notin {"idle", "user", "store"}
<1> USE DEF Typed, TypeOK, begun, mails, Goto, Return, Made
<1>1. CASE Begin(r)
  BY <1>1 DEF Begin
<1>2. CASE RequestChecksUser(r) \/ RequestStores(r) \/ RequestPublishes(r) \/ RequestUndoes(r)
  <2>1. CASE RequestChecksUser(r)
    BY <2>1 DEF RequestChecksUser, Begin
  <2>2. CASE RequestStores(r)
    BY <2>2 DEF RequestStores, Begin
  <2>3. CASE RequestPublishes(r)
    BY <2>3 DEF RequestPublishes, Begin
  <2>4. CASE RequestUndoes(r)
    BY <2>4 DEF RequestUndoes, Begin
  <2> QED
    BY <1>2, <2>1, <2>2, <2>3, <2>4
<1>3. CASE GuessLoads(r) \/ GuessCounts(r) \/ GuessDeletes(r)
  <2>1. CASE GuessLoads(r)
    BY <2>1 DEF GuessLoads, Begin
  <2>2. CASE GuessCounts(r)
    BY <2>2 DEF GuessCounts, Begin
  <2>3. CASE GuessDeletes(r)
    BY <2>3 DEF GuessDeletes, Begin
  <2> QED
    BY <1>3, <2>1, <2>2, <2>3
<1>4. CASE VerifyCreates(r)
  <2>1. account # Nil => account' # Nil
    BY <1>4 DEF VerifyCreates
  <2> QED
    BY <1>4, <2>1 DEF VerifyCreates, Begin
<1>5. CASE ResetUpdates(r)
  <2>1. call[r].op = "reset" /\ pc[r] # "idle"
    BY <1>5 DEF ResetUpdates
  <2>2. account' # Nil
    BY <1>5, <2>1, CallOf, CallFields, NilIsNothing DEF ResetUpdates
  <2> QED
    BY <1>5, <2>2 DEF ResetUpdates, Begin
<1>6. CASE Fail(r)
  BY <1>6 DEF Fail, Begin
<1> QED
  BY <1>1, <1>2, <1>3, <1>4, <1>5, <1>6 DEF Acts, Request, Guess

\* What was made stays as it was made.
LEMMA MadeStays ==
  ASSUME Typed, NEW r \in Requests, Acts(r), NEW o \in Requests, Made(o)
  PROVE  Made(o)' /\ call'[o] = call[o] /\ expiry'[o] = expiry[o]
<1>1. CASE o = r
  BY <1>1, ActsAlone DEF Made
<1>2. CASE o # r
  BY <1>2, ActsAlone DEF Made
<1> QED
  BY <1>1, <1>2

LEMMA SoundStays ==
  ASSUME Typed, NEW r \in Requests, Acts(r), NEW x \in Payload, NEW p, Sound(x, p)
  PROVE  call'[x.otp].op \in {"register", "forgot"} /\ PurposeOf(call'[x.otp]) = p
         /\ pc'[x.otp] \notin {"idle", "user", "store"} /\ x.expires = expiry'[x.otp]
<1>1. x.otp \in Requests
  BY PayloadFields
<1> QED
  BY <1>1, MadeStays DEF Sound, Made, Purpose

LEMMA DoneStays ==
  ASSUME Typed, NEW r \in Requests, Acts(r), NEW q \in Requests, pc[q] = "done"
  PROVE  /\ q # r /\ pc'[q] = "done" /\ call'[q] = call[q] /\ answer'[q] = answer[q]
         /\ counted'[q] = counted[q] /\ since'[q] = since[q] /\ seen'[q] = seen[q]
<1>1. q # r
  BY ActsAlone
<1> QED
  BY <1>1, ActsAlone

-----------------------------------------------------------------------------
(* Types.                                                                  *)

LEMMA InitTyped == Init => Typed
<1> SUFFICES ASSUME Init PROVE Typed
  OBVIOUS
<1> DEFINE c == IF account = Nil THEN [op |-> "register", password |-> FirstPassword] ELSE [op |-> "forgot"]
           first == [otp |-> First, attempts |-> 0, expires |-> OTPTTL, until |-> OTPTTL]
<1>1. /\ First \in Requests /\ FirstPassword \in Passwords /\ OTPTTL \in Nat /\ MaxTime \in Nat
      /\ account \in Passwords \cup {Nil}
  BY PasswordsAssumption DEF Init
<1>2. c \in Call
  BY <1>1 DEF Call
<1>3. /\ c # Nil /\ c.op \in {"register", "forgot"} /\ PurposeOf(c) \in Purposes
      /\ PurposeOf(c) = "register" <=> c.op = "register"
      /\ PurposeOf(c) = "reset" => account # Nil
  BY <1>2, PasswordsAssumption DEF PurposeOf, Purposes
<1>4. first \in Payload /\ first # Nil
  BY <1>1, PasswordsAssumption DEF Payload
<1>5. /\ call = [r \in Requests |-> IF r = First THEN c ELSE Nil]
      /\ slot = [p \in Purposes |-> IF p = PurposeOf(c) THEN first ELSE Nil]
  BY DEF Init
<1>6. first.otp = First /\ first.expires = OTPTTL
  OBVIOUS
<1> HIDE DEF c, first
<1>7. TypeOK
  <2>1. /\ slot \in [Purposes -> Payload \cup {Nil}] /\ call \in [Requests -> Call \cup {Nil}]
    BY <1>2, <1>4, <1>5
  <2>2. /\ \A p \in Purposes : slot[p] # Nil =>
             call[slot[p].otp].op = (IF p = "register" THEN "register" ELSE "forgot")
        /\ slot["reset"] # Nil => account # Nil
    BY <1>1, <1>3, <1>5, <1>6 DEF Purposes
  <2>3. /\ now \in 0..MaxTime /\ expiry \in [Requests -> Nat]
        /\ mailed \in SUBSET Requests
        /\ since \in [Requests -> [late : BOOLEAN, done : SUBSET Requests]]
    BY <1>1 DEF Init
  <2>4. /\ counted \in [Requests -> Requests \cup {Nil}]
        /\ seen \in [Requests -> Payload \cup {Nil}]
        /\ pc \in [Requests -> {"idle", "user", "store", "publish", "undo", "load", "count",
                         "write", "delete", "done"}]
        /\ answer \in [Requests -> {"none", "OK", "Internal", "EmailAlreadyExists", "OTPExpired",
                             "OTPRefused", "InvalidOTP"}]
    BY DEF Init
  <2> QED
    BY <1>1, <2>1, <2>2, <2>3, <2>4 DEF TypeOK
<1>8. Slots
  BY <1>1, <1>3, <1>5, <1>6 DEF Init, Slots, Sound, Made, Purpose
<1>9. Matches
  BY <1>1, <1>3, <1>5 DEF Init, Matches, MatchOf, Made, RequestPlaces, GuessPlaces
<1> QED
  BY <1>7, <1>8, <1>9 DEF Typed

\* What a request with a guess read fits its call.
LEMMA SeenPayload ==
  ASSUME Typed, NEW r \in Requests, pc[r] \in {"count", "write", "delete"}
  PROVE  /\ seen[r] \in Payload /\ seen[r].otp \in Requests /\ Sound(seen[r], Purpose(r))
         /\ call[r].op \in {"verify", "reset"} /\ call[r] \in Call /\ call[seen[r].otp] \in Call
         /\ Purpose(r) \in Purposes /\ Made(seen[r].otp)
         /\ call[r].op = "verify" => call[seen[r].otp].op = "register"
<1>1. seen[r] \in Payload /\ Sound(seen[r], Purpose(r)) /\ call[r].op \in {"verify", "reset"}
  BY DEF Typed, TypeOK, Matches, MatchOf, GuessPlaces
<1>2. seen[r].otp \in Requests /\ Made(seen[r].otp)
  BY <1>1, PayloadFields DEF Sound
<1>3. call[r] \in Call /\ call[seen[r].otp] \in Call /\ Purpose(r) \in Purposes
  BY <1>2, CallOf DEF Made
<1> QED
  BY <1>1, <1>2, <1>3 DEF Sound, Purpose, PurposeOf

\* The payload a wrong guess writes back.
LEMMA CountedPayload ==
  ASSUME Typed, NEW r \in Requests, pc[r] = "count"
  PROVE  /\ [seen[r] EXCEPT !.attempts = @ + 1, !.until = now + OTPTTL] \in Payload
         /\ [seen[r] EXCEPT !.attempts = @ + 1, !.until = now + OTPTTL].otp = seen[r].otp
         /\ [seen[r] EXCEPT !.attempts = @ + 1, !.until = now + OTPTTL].expires = seen[r].expires
         /\ [seen[r] EXCEPT !.attempts = @ + 1, !.until = now + OTPTTL].attempts = seen[r].attempts + 1
<1>1. seen[r] \in Payload /\ now \in Nat /\ OTPTTL \in Nat /\ now + OTPTTL \in Nat
  BY SeenPayload, PasswordsAssumption DEF Typed, TypeOK
<1>2. seen[r].attempts + 1 \in Nat
  BY <1>1, PayloadFields
<1> QED
  BY <1>1, <1>2 DEF Payload

\* The payload of a new password.
LEMMA NewPayload ==
  ASSUME Typed, NEW r \in Requests
  PROVE  /\ [otp |-> r, attempts |-> 0, expires |-> now + OTPTTL, until |-> now + OTPTTL] \in Payload
         /\ now + OTPTTL \in Nat
<1>1. now + OTPTTL \in Nat
  BY PasswordsAssumption DEF Typed, TypeOK
<1> QED
  BY <1>1 DEF Payload

-----------------------------------------------------------------------------
(* What becomes of the payloads.                                           *)

\* The key of a request's purpose is emptied, or filled by a new password or by
\* what a wrong guess has read.
Empties(r) == slot'[Purpose(r)] = Nil /\ (pc[r] = "undo" \/ GuessDeletes(r))

Stores(r) ==
  /\ RequestStores(r)
  /\ slot'[Purpose(r)] \in Payload
  /\ slot'[Purpose(r)].otp = r /\ slot'[Purpose(r)].expires = expiry'[r]
  /\ slot'[Purpose(r)].attempts = 0

Restores(r) ==
  /\ GuessCounts(r)
  /\ slot'[Purpose(r)] \in Payload
  /\ slot'[Purpose(r)].otp = seen[r].otp /\ slot'[Purpose(r)].expires = seen[r].expires
  /\ slot'[Purpose(r)].attempts = seen[r].attempts + 1
  /\ counted'[r] = seen[r].otp

LEMMA SlotChanges ==
  ASSUME Typed, NEW r \in Requests, Acts(r)
  PROVE  /\ slot' \in [Purposes -> Payload \cup {Nil}]
         /\ \A p \in Purposes : slot'[p] = slot[p] \/ (p = Purpose(r) /\ (Empties(r) \/ Stores(r) \/ Restores(r)))
<1>1. slot \in [Purposes -> Payload \cup {Nil}] /\ pc[r] # "idle" => Purpose(r) \in Purposes
  BY CallOf DEF Typed, TypeOK
<1>2. CASE slot' = slot
  BY <1>2 DEF Typed, TypeOK
<1>3. CASE RequestStores(r)
  <2> DEFINE new == [otp |-> r, attempts |-> 0, expires |-> now + OTPTTL, until |-> now + OTPTTL]
  <2>1. /\ slot' = [slot EXCEPT ![Purpose(r)] = new] /\ expiry' = [expiry EXCEPT ![r] = now + OTPTTL]
        /\ pc[r] = "store"
    BY <1>3 DEF RequestStores
  <2>2. new \in Payload /\ new.otp = r /\ new.expires = now + OTPTTL /\ new.attempts = 0
    BY NewPayload
  <2>3. expiry'[r] = now + OTPTTL /\ slot \in [Purposes -> Payload \cup {Nil}] /\ Purpose(r) \in Purposes
    BY <2>1, CallOf DEF Typed, TypeOK
  <2> HIDE DEF new
  <2> QED
    BY <1>3, <2>1, <2>2, <2>3 DEF Stores
<1>4. CASE GuessCounts(r) /\ slot' # slot
  <2> DEFINE new == [seen[r] EXCEPT !.attempts = @ + 1, !.until = now + OTPTTL]
  <2>1. /\ slot' = [slot EXCEPT ![Purpose(r)] = new] /\ counted' = [counted EXCEPT ![r] = seen[r].otp]
        /\ pc[r] = "count"
    BY <1>4 DEF GuessCounts
  <2>2. /\ new \in Payload /\ new.otp = seen[r].otp /\ new.expires = seen[r].expires
        /\ new.attempts = seen[r].attempts + 1
    BY <2>1, CountedPayload
  <2>3. counted'[r] = seen[r].otp /\ slot \in [Purposes -> Payload \cup {Nil}] /\ Purpose(r) \in Purposes
    BY <2>1, CallOf DEF Typed, TypeOK
  <2> HIDE DEF new
  <2> QED
    BY <1>4, <2>1, <2>2, <2>3 DEF Restores
<1>5. CASE slot' = [slot EXCEPT ![Purpose(r)] = Nil] /\ (pc[r] = "undo" \/ GuessDeletes(r))
  <2>1. slot \in [Purposes -> Payload \cup {Nil}] /\ Purpose(r) \in Purposes
    BY <1>5, CallOf DEF Typed, TypeOK, GuessDeletes
  <2> QED
    BY <1>5, <2>1 DEF Empties
<1>6. slot' = slot \/ RequestStores(r) \/ (GuessCounts(r) /\ slot' # slot)
        \/ (slot' = [slot EXCEPT ![Purpose(r)] = Nil] /\ (pc[r] = "undo" \/ GuessDeletes(r)))
  <2>1. CASE Request(r)
    BY <2>1 DEF Request, RequestChecksUser, RequestPublishes, RequestUndoes
  <2>2. CASE Guess(r)
    BY <2>2 DEF Guess, GuessLoads, VerifyCreates, ResetUpdates, GuessDeletes
  <2>3. CASE Begin(r) \/ Fail(r)
    BY <2>3 DEF Begin, Fail
  <2> QED
    BY <2>1, <2>2, <2>3 DEF Acts
<1> QED
  BY <1>2, <1>3, <1>4, <1>5, <1>6

LEMMA SlotsKept ==
  ASSUME Typed, NEW r \in Requests, Acts(r)
  PROVE  Slots'
<1> SUFFICES ASSUME NEW p \in Purposes, slot'[p] # Nil
             PROVE  /\ call'[slot'[p].otp].op \in {"register", "forgot"}
                    /\ PurposeOf(call'[slot'[p].otp]) = p
                    /\ pc'[slot'[p].otp] \notin {"idle", "user", "store"}
                    /\ slot'[p].expires = expiry'[slot'[p].otp]
  BY DEF Slots, Sound, Made, Purpose
<1>1. CASE slot'[p] = slot[p]
  <2>1. slot[p] \in Payload /\ Sound(slot[p], p)
    BY <1>1 DEF Typed, TypeOK, Slots
  <2>2. /\ call'[slot[p].otp].op \in {"register", "forgot"} /\ PurposeOf(call'[slot[p].otp]) = p
        /\ pc'[slot[p].otp] \notin {"idle", "user", "store"} /\ slot[p].expires = expiry'[slot[p].otp]
    BY <2>1, SoundStays
  <2> QED
    BY <1>1, <2>2
<1>2. CASE p = Purpose(r) /\ Stores(r)
  <2>1. /\ pc[r] = "store" /\ call' = call /\ pc'[r] = "publish"
        /\ slot'[p].otp = r /\ slot'[p].expires = expiry'[r]
    BY <1>2 DEF Stores, RequestStores, begun, Goto, Typed, TypeOK
  <2>2. call[r].op \in {"register", "forgot"}
    BY <2>1 DEF Typed, Matches, MatchOf, RequestPlaces
  <2> QED
    BY <1>2, <2>1, <2>2 DEF Purpose
<1>3. CASE p = Purpose(r) /\ Restores(r)
  <2>1. pc[r] = "count" /\ slot'[p].otp = seen[r].otp /\ slot'[p].expires = seen[r].expires
    BY <1>3 DEF Restores, GuessCounts
  <2>2. seen[r] \in Payload /\ Sound(seen[r], p)
    BY <1>3, <2>1, SeenPayload
  <2>3. /\ call'[seen[r].otp].op \in {"register", "forgot"} /\ PurposeOf(call'[seen[r].otp]) = p
        /\ pc'[seen[r].otp] \notin {"idle", "user", "store"} /\ seen[r].expires = expiry'[seen[r].otp]
    BY <2>2, SoundStays
  <2> QED
    BY <2>1, <2>3
<1> QED
  BY <1>1, <1>2, <1>3, SlotChanges DEF Empties

LEMMA TypesKept ==
  ASSUME Typed, NEW r \in Requests, Acts(r)
  PROVE  TypeOK'
<1> USE DEF begun, mails, Goto, Return
<1>1. slot' \in [Purposes -> Payload \cup {Nil}]
  BY SlotChanges
<1>2. \A p \in Purposes : slot'[p] # Nil =>
        call'[slot'[p].otp].op = (IF p = "register" THEN "register" ELSE "forgot")
  BY SlotsKept DEF Slots, Sound, Purpose, PurposeOf, Purposes
<1>3. slot'["reset"] # Nil => account' # Nil
  <2>1. SUFFICES ASSUME slot'["reset"] # Nil, slot["reset"] = Nil
                 PROVE  account # Nil
    BY ActsAlone DEF Typed, TypeOK
  <2>2. Purpose(r) = "reset" /\ (Stores(r) \/ Restores(r))
    BY <2>1, SlotChanges DEF Purposes, Empties
  <2>3. CASE Stores(r)
    <3>1. pc[r] = "store" /\ call[r].op = "forgot"
      BY <2>2, <2>3 DEF Stores, RequestStores, Typed, Matches, MatchOf, RequestPlaces, Purpose, PurposeOf
    <3> QED
      BY <3>1 DEF Typed, Matches, MatchOf
  <2>4. CASE Restores(r)
    <3>1. seen[r] # Nil
      BY <2>4, SeenPayload, PayloadFields DEF Restores, GuessCounts
    <3> QED
      BY <2>2, <3>1 DEF Typed, Matches, MatchOf
  <2> QED
    BY <2>2, <2>3, <2>4
<1>4. \/ Begin(r) \/ RequestChecksUser(r) \/ RequestStores(r) \/ RequestPublishes(r) \/ RequestUndoes(r)
      \/ GuessLoads(r) \/ GuessCounts(r) \/ VerifyCreates(r) \/ ResetUpdates(r) \/ GuessDeletes(r)
      \/ Fail(r)
  BY DEF Acts, Request, Guess
<1>5. /\ \E place \in {"user", "store", "publish", "undo", "load", "count", "write", "delete", "done"} :
           pc' = [pc EXCEPT ![r] = place]
      /\ \/ answer' = answer
         \/ \E result \in {"OK", "Internal", "EmailAlreadyExists", "OTPExpired", "OTPRefused", "InvalidOTP"} :
              answer' = [answer EXCEPT ![r] = result]
      /\ \/ seen' \in {seen, [seen EXCEPT ![r] = Nil]}
         \/ slot[Purpose(r)] # Nil /\ pc[r] = "load" /\ seen' = [seen EXCEPT ![r] = slot[Purpose(r)]]
  <2>1. CASE Begin(r)
    BY <2>1 DEF Begin
  <2>2. CASE RequestChecksUser(r) \/ RequestStores(r)
    BY <2>2 DEF RequestChecksUser, RequestStores
  <2>3. CASE RequestPublishes(r) \/ RequestUndoes(r)
    BY <2>3 DEF RequestPublishes, RequestUndoes
  <2>4. CASE GuessLoads(r)
    BY <2>4 DEF GuessLoads, Found
  <2>5. CASE GuessCounts(r) \/ VerifyCreates(r)
    BY <2>5 DEF GuessCounts, VerifyCreates
  <2>6. CASE ResetUpdates(r) \/ GuessDeletes(r) \/ Fail(r)
    BY <2>6 DEF ResetUpdates, GuessDeletes, Fail
  <2> QED
    BY <1>4, <2>1, <2>2, <2>3, <2>4, <2>5, <2>6
<1>6. /\ pc' \in [Requests -> {"idle", "user", "store", "publish", "undo", "load", "count",
                         "write", "delete", "done"}]
      /\ answer' \in [Requests -> {"none", "OK", "Internal", "EmailAlreadyExists", "OTPExpired",
                             "OTPRefused", "InvalidOTP"}]
      /\ seen' \in [Requests -> Payload \cup {Nil}]
  <2>1. /\ pc' \in [Requests -> {"idle", "user", "store", "publish", "undo", "load", "count",
                         "write", "delete", "done"}]
    BY <1>5 DEF Typed, TypeOK
  <2>2. answer' \in [Requests -> {"none", "OK", "Internal", "EmailAlreadyExists", "OTPExpired",
                             "OTPRefused", "InvalidOTP"}]
    BY <1>5 DEF Typed, TypeOK
  <2>3. pc[r] = "load" => Purpose(r) \in Purposes
    BY CallOf
  <2>4. seen' \in [Requests -> Payload \cup {Nil}]
    BY <1>5, <2>3 DEF Typed, TypeOK
  <2> QED
    BY <2>1, <2>2, <2>4
<1>7. account' \in Passwords \cup {Nil}
  <2>1. CASE VerifyCreates(r)
    <3>1. pc[r] = "write" /\ call[r].op = "verify"
      BY <2>1 DEF VerifyCreates
    <3>2. call[seen[r].otp].password \in Passwords
      BY <3>1, SeenPayload, CallFields
    <3> QED
      BY <2>1, <3>2 DEF VerifyCreates, Typed, TypeOK
  <2>2. CASE ResetUpdates(r)
    <3>1. pc[r] = "write" /\ call[r].op = "reset"
      BY <2>2 DEF ResetUpdates
    <3>2. call[r].password \in Passwords
      BY <3>1, SeenPayload, CallFields
    <3> QED
      BY <2>2, <3>2 DEF ResetUpdates
  <2>3. CASE account' = account
    BY <2>3 DEF Typed, TypeOK
  <2> QED
    BY <1>4, <2>1, <2>2, <2>3 DEF Begin, RequestChecksUser, RequestStores, RequestPublishes,
      RequestUndoes, GuessLoads, GuessCounts, GuessDeletes, Fail
<1>8. /\ now' \in 0..MaxTime /\ mailed' \in SUBSET Requests
  BY ActsAlone DEF Typed, TypeOK
<1>9. expiry' \in [Requests -> Nat]
  <2>1. CASE RequestStores(r)
    BY <2>1, NewPayload DEF RequestStores, Typed, TypeOK
  <2>2. CASE expiry' = expiry
    BY <2>2 DEF Typed, TypeOK
  <2> QED
    BY <1>4, <2>1, <2>2 DEF Begin, RequestChecksUser, RequestPublishes, RequestUndoes, GuessLoads,
      GuessCounts, VerifyCreates, ResetUpdates, GuessDeletes, Fail
<1>10. counted' \in [Requests -> Requests \cup {Nil}]
  <2>1. CASE GuessCounts(r)
    <3>1. seen[r].otp \in Requests
      BY <2>1, SeenPayload DEF GuessCounts
    <3> QED
      BY <2>1, <3>1 DEF GuessCounts, Typed, TypeOK
  <2>2. CASE counted' = counted
    BY <2>2 DEF Typed, TypeOK
  <2> QED
    BY <1>4, <2>1, <2>2 DEF Begin, RequestChecksUser, RequestStores, RequestPublishes, RequestUndoes,
      GuessLoads, VerifyCreates, ResetUpdates, GuessDeletes, Fail
<1>11. /\ call' \in [Requests -> Call \cup {Nil}]
       /\ since' \in [Requests -> [late : BOOLEAN, done : SUBSET Requests]]
  <2>1. CASE Begin(r)
    <3>1. PICK c \in Calls :
            /\ call' = [call EXCEPT ![r] = c]
            /\ since' = [since EXCEPT ![r] =
                 [late |-> c.op \in {"verify", "reset"} /\ c.otp # Wrong /\ expiry[c.otp] < now,
                  done |-> {q \in Requests : pc[q] = "done"}]]
      BY <2>1 DEF Begin
    <3>2. c \in Call
      BY NilIsNothing
    <3>3. (c.op \in {"verify", "reset"} /\ c.otp # Wrong /\ expiry[c.otp] < now) \in BOOLEAN
      OBVIOUS
    <3> QED
      BY <3>1, <3>2, <3>3 DEF Typed, TypeOK
  <2>2. CASE ~Begin(r)
    BY <2>2, ActsAlone DEF Typed, TypeOK
  <2> QED
    BY <2>1, <2>2
<1> QED
  BY <1>1, <1>2, <1>3, <1>6, <1>7, <1>8, <1>9, <1>10, <1>11 DEF TypeOK

-----------------------------------------------------------------------------
(* What a handler knows stays so.                                          *)

\* The one-time password of a guess was in the mail, and stays as it was made.
LEMMA GuessedStays ==
  ASSUME Typed, NEW r \in Requests, Acts(r), NEW q \in Requests,
         pc[q] # "idle", call[q].op \in {"verify", "reset"}, call[q].otp # Wrong
  PROVE  /\ call[q].otp \in Requests /\ call[q].otp \in mailed /\ call[q].otp \in mailed'
         /\ Made(call[q].otp) /\ call'[call[q].otp] = call[call[q].otp]
         /\ expiry'[call[q].otp] = expiry[call[q].otp]
<1>1. call[q].otp \in Requests /\ call[q].otp \in mailed
  BY CallOf, CallFields DEF Typed, Matches, MatchOf
<1>2. Made(call[q].otp)
  BY <1>1 DEF Typed, Matches, MatchOf
<1> QED
  BY <1>1, <1>2, MadeStays, ActsAlone

LEMMA MatchOfOthers ==
  ASSUME Typed, NEW r \in Requests, Acts(r), NEW q \in Requests, q # r
  PROVE  MatchOf(q)'
<1>1. /\ pc'[q] = pc[q] /\ call'[q] = call[q] /\ seen'[q] = seen[q] /\ since'[q] = since[q]
      /\ answer'[q] = answer[q] /\ counted'[q] = counted[q] /\ expiry'[q] = expiry[q]
      /\ q \in mailed' => q \in mailed
      /\ account # Nil => account' # Nil
  BY ActsAlone
<1>2. MatchOf(q)
  BY DEF Typed, Matches
<1>3. /\ pc'[q] = "idle" <=> call'[q] = Nil
      /\ pc'[q] \in RequestPlaces => call'[q].op \in {"register", "forgot"}
      /\ pc'[q] \in GuessPlaces => call'[q].op \in {"verify", "reset"}
      /\ seen'[q] # Nil <=> pc'[q] \in {"count", "write", "delete"}
      /\ seen'[q] # Nil /\ PurposeOf(call'[q]) = "reset" => account' # Nil
      /\ pc'[q] \in {"write", "delete"} => seen'[q].otp = call'[q].otp
      /\ pc'[q] = "store" /\ call'[q].op = "forgot" => account' # Nil
      /\ answer'[q] # "none" \/ counted'[q] # Nil => pc'[q] = "done"
      /\ q \in mailed' => pc'[q] \notin {"idle", "user", "store"}
  BY <1>1, <1>2 DEF MatchOf, Made, Purpose
<1>4. seen'[q] # Nil =>
        /\ call'[seen'[q].otp].op \in {"register", "forgot"}
        /\ PurposeOf(call'[seen'[q].otp]) = PurposeOf(call'[q])
        /\ pc'[seen'[q].otp] \notin {"idle", "user", "store"} /\ seen'[q].expires = expiry'[seen'[q].otp]
  <2> SUFFICES ASSUME seen'[q] # Nil
               PROVE  /\ call'[seen[q].otp].op \in {"register", "forgot"}
                      /\ PurposeOf(call'[seen[q].otp]) = Purpose(q)
                      /\ pc'[seen[q].otp] \notin {"idle", "user", "store"}
                      /\ seen[q].expires = expiry'[seen[q].otp]
    BY <1>1 DEF Purpose
  <2>1. seen[q] \in Payload /\ Sound(seen[q], Purpose(q))
    BY <1>1, <1>2 DEF MatchOf, Typed, TypeOK
  <2> QED
    BY <2>1, SoundStays
<1>5. pc'[q] # "idle" /\ call'[q].op \in {"verify", "reset"} /\ call'[q].otp # Wrong =>
        call'[q].otp \in mailed' /\ PurposeOf(call'[call'[q].otp]) = PurposeOf(call'[q])
  BY <1>1, <1>2, GuessedStays DEF MatchOf, Purpose
<1>6. \A p \in since'[q].done : pc'[p] = "done"
  BY <1>1, <1>2, DoneStays DEF MatchOf, Typed, TypeOK
<1> QED
  BY <1>3, <1>4, <1>5, <1>6 DEF MatchOf, Sound, Made, Purpose

LEMMA MatchOfActor ==
  ASSUME Typed, NEW r \in Requests, Acts(r)
  PROVE  MatchOf(r)'
<1> USE DEF Goto, Return, begun, mails
<1>1. MatchOf(r) /\ TypeOK
  BY DEF Typed, Matches
<1>2. CASE Begin(r)
  <2>1. PICK c \in Calls :
          /\ c.op \in {"verify", "reset"} =>
               c.otp \in {o \in mailed : Purpose(o) = PurposeOf(c)} \cup {Wrong}
          /\ call' = [call EXCEPT ![r] = c]
          /\ pc' = [pc EXCEPT ![r] = IF c.op \in {"register", "forgot"} THEN "user" ELSE "load"]
          /\ since' = [since EXCEPT ![r] =
               [late |-> c.op \in {"verify", "reset"} /\ c.otp # Wrong /\ expiry[c.otp] < now,
                done |-> {q \in Requests : pc[q] = "done"}]]
    BY <1>2 DEF Begin
  <2>2. /\ call'[r] = c /\ since'[r].done = {q \in Requests : pc[q] = "done"}
        /\ pc'[r] = IF c.op \in {"register", "forgot"} THEN "user" ELSE "load"
        /\ c \in Call /\ c # Nil /\ c.op \in {"register", "forgot", "verify", "reset"}
    BY <1>1, <2>1, NilIsNothing, CallFields DEF TypeOK
  <2>3. /\ pc[r] = "idle" /\ seen'[r] = seen[r] /\ answer'[r] = answer[r] /\ counted'[r] = counted[r]
        /\ mailed' = mailed
    BY <1>2, ActsAlone
  <2>4. seen'[r] = Nil /\ answer'[r] = "none" /\ counted'[r] = Nil /\ r \notin mailed'
    BY <1>1, <2>3 DEF MatchOf, Made
  <2>5. \A p \in since'[r].done : pc'[p] = "done"
    BY <2>2, DoneStays
  <2>6. \A o \in mailed : o \in Requests /\ call'[o] = call[o]
    BY MadeStays DEF Typed, TypeOK, Matches, MatchOf
  <2>7. c.op \in {"verify", "reset"} /\ c.otp # Wrong =>
          c.otp \in mailed' /\ PurposeOf(call'[c.otp]) = PurposeOf(c)
    BY <2>1, <2>3, <2>6 DEF Purpose
  <2> QED
    BY <2>2, <2>4, <2>5, <2>7 DEF MatchOf, Purpose, RequestPlaces, GuessPlaces
<1>3. CASE ~Begin(r)
  <2>1. /\ call' = call /\ since' = since /\ pc[r] \notin {"idle", "done"} /\ pc'[r] # "idle"
        /\ answer[r] = "none" /\ counted[r] = Nil /\ call[r] \in Call
        /\ account # Nil => account' # Nil
    <3>1. pc'[r] # "idle"
      BY <1>1, <1>3 DEF TypeOK, Acts, Request, Guess, RequestChecksUser, RequestStores, RequestPublishes,
        RequestUndoes, GuessLoads, GuessCounts, VerifyCreates, ResetUpdates, GuessDeletes, Fail
    <3> QED
      BY <1>1, <1>3, <3>1, ActsAlone, CallOf DEF MatchOf
  <2>2. pc'[r] # "idle" /\ call'[r].op \in {"verify", "reset"} /\ call'[r].otp # Wrong =>
          call'[r].otp \in mailed' /\ PurposeOf(call'[call'[r].otp]) = PurposeOf(call'[r])
    BY <1>1, <2>1, GuessedStays DEF MatchOf, Purpose
  <2>3. \A p \in since'[r].done : pc'[p] = "done"
    BY <1>1, <2>1, DoneStays DEF MatchOf, TypeOK
  <2>4. /\ pc'[r] \in RequestPlaces => call[r].op \in {"register", "forgot"}
        /\ pc'[r] \in GuessPlaces => call[r].op \in {"verify", "reset"}
        /\ pc'[r] = "store" /\ call[r].op = "forgot" => account' # Nil
        /\ answer'[r] # "none" \/ counted'[r] # Nil => pc'[r] = "done"
        /\ r \in mailed' => pc'[r] \notin {"idle", "user", "store"}
        /\ seen'[r] # Nil <=> pc'[r] \in {"count", "write", "delete"}
        /\ pc'[r] \in {"write", "delete"} => seen'[r].otp = call[r].otp
        /\ seen'[r] # Nil => \/ seen'[r] = seen[r]
                             \/ pc[r] = "load" /\ seen'[r] = slot[Purpose(r)]
    <3> USE <1>1, <2>1 DEF TypeOK, MatchOf, Made, RequestPlaces, GuessPlaces
    <3>1. CASE RequestChecksUser(r)
      BY <3>1 DEF RequestChecksUser
    <3>2. CASE RequestStores(r)
      BY <3>2 DEF RequestStores
    <3>3. CASE RequestPublishes(r)
      BY <3>3 DEF RequestPublishes
    <3>4. CASE RequestUndoes(r)
      BY <3>4 DEF RequestUndoes
    <3>5. CASE GuessLoads(r)
      <4>1. pc[r] = "load" /\ slot[Purpose(r)] # Nil => slot[Purpose(r)] \in Payload
        BY CallOf
      <4> QED
        BY <3>5, <4>1 DEF GuessLoads, Found
    <3>6. CASE GuessCounts(r)
      BY <3>6 DEF GuessCounts
    <3>7. CASE VerifyCreates(r)
      BY <3>7 DEF VerifyCreates
    <3>8. CASE ResetUpdates(r)
      BY <3>8 DEF ResetUpdates
    <3>9. CASE GuessDeletes(r)
      BY <3>9 DEF GuessDeletes
    <3>10. CASE Fail(r)
      BY <3>10 DEF Fail
    <3> QED
      BY <1>3, <3>1, <3>2, <3>3, <3>4, <3>5, <3>6, <3>7, <3>8, <3>9, <3>10 DEF Acts, Request, Guess
  <2>5. seen'[r] # Nil =>
          /\ call'[seen'[r].otp].op \in {"register", "forgot"}
          /\ PurposeOf(call'[seen'[r].otp]) = PurposeOf(call'[r])
          /\ pc'[seen'[r].otp] \notin {"idle", "user", "store"} /\ seen'[r].expires = expiry'[seen'[r].otp]
          /\ PurposeOf(call'[r]) = "reset" => account' # Nil
    <3> SUFFICES ASSUME seen'[r] # Nil
                 PROVE  /\ call'[seen'[r].otp].op \in {"register", "forgot"}
                        /\ PurposeOf(call'[seen'[r].otp]) = Purpose(r)
                        /\ pc'[seen'[r].otp] \notin {"idle", "user", "store"}
                        /\ seen'[r].expires = expiry'[seen'[r].otp]
                        /\ Purpose(r) = "reset" => account' # Nil
      BY <2>1 DEF Purpose
    <3>1. /\ seen'[r] \in Payload /\ Sound(seen'[r], Purpose(r))
          /\ Purpose(r) = "reset" => account # Nil
      <4>1. CASE seen'[r] = seen[r]
        BY <1>1, <4>1 DEF MatchOf, TypeOK
      <4>2. CASE pc[r] = "load" /\ seen'[r] = slot[Purpose(r)]
        BY <1>1, <4>2, CallOf DEF Typed, Slots, TypeOK
      <4> QED
        BY <2>4, <4>1, <4>2
    <3>2. /\ call'[seen'[r].otp].op \in {"register", "forgot"} /\ PurposeOf(call'[seen'[r].otp]) = Purpose(r)
          /\ pc'[seen'[r].otp] \notin {"idle", "user", "store"}
          /\ seen'[r].expires = expiry'[seen'[r].otp]
      BY <3>1, SoundStays
    <3> QED
      BY <2>1, <3>1, <3>2
  <2>6. pc'[r] = "idle" <=> call'[r] = Nil
    BY <2>1, NilIsNothing
  <2> QED
    BY <2>1, <2>2, <2>3, <2>4, <2>5, <2>6 DEF MatchOf, Sound, Made, Purpose
<1> QED
  BY <1>2, <1>3

\* Time passes, or nothing happens.
Rests == Tick \/ UNCHANGED vars

LEMMA RestsKeeps ==
  ASSUME Typed, Rests
  PROVE  /\ UNCHANGED <<slot, account, mailed, expiry, counted, call, pc, seen, since, answer>>
         /\ now' \in 0..MaxTime /\ now \in 0..MaxTime /\ now' >= now
<1>1. now \in 0..MaxTime /\ MaxTime \in Nat
  BY PasswordsAssumption DEF Typed, TypeOK
<1>2. CASE Tick
  BY <1>1, <1>2 DEF Tick, mails
<1>3. CASE UNCHANGED vars
  BY <1>1, <1>3 DEF vars
<1> QED
  BY <1>2, <1>3 DEF Rests

LEMMA NextTyped ==
  ASSUME Typed, [Next]_vars
  PROVE  Typed'
<1>1. ASSUME NEW r \in Requests, Acts(r)
      PROVE  Typed'
  <2>1. ASSUME NEW q \in Requests
        PROVE  MatchOf(q)'
    <3>1. CASE q = r
      BY <1>1, <3>1, MatchOfActor
    <3>2. CASE q # r
      BY <1>1, <3>2, MatchOfOthers
    <3> QED
      BY <3>1, <3>2
  <2> QED
    BY <1>1, <2>1, TypesKept, SlotsKept DEF Typed, Matches
<1>2. CASE Rests
  <2>1. /\ UNCHANGED <<slot, account, mailed, expiry, counted, call, pc, seen, since, answer>>
        /\ now' \in 0..MaxTime
    BY <1>2, RestsKeeps
  <2>2. TypeOK'
    BY <2>1 DEF Typed, TypeOK
  <2>3. Slots'
    BY <2>1 DEF Typed, Slots, Sound, Made, Purpose
  <2>4. Matches'
    BY <2>1 DEF Typed, Matches, MatchOf, Sound, Made, Purpose
  <2> QED
    BY <2>2, <2>3, <2>4 DEF Typed
<1> QED
  BY <1>1, <1>2 DEF Next, Acts, Rests

LEMMA TypedHolds == Spec => []Typed
<1>1. Typed /\ [Next]_vars => Typed'
  BY NextTyped
<1> QED
  BY <1>1, InitTyped, PTL DEF Spec

\* The types of the state; a key holds passwords of its own purpose.
THEOREM PasswordTypes == Spec => []TypeOK
<1>1. Typed => TypeOK
  BY DEF Typed
<1> QED
  BY <1>1, TypedHolds, PTL

-----------------------------------------------------------------------------
(* Lifetime.  A request that came late came after its password's ExpiresAt, *)
(* which no payload of that password outlives, however often it is stored.  *)

Uses(r, o) == IsGuess(r) /\ call[r].otp = o /\ answer[r] = "OK"

LatenessOf(r) ==
  /\ since[r].late => /\ pc[r] # "idle" /\ call[r].op \in {"verify", "reset"} /\ call[r].otp # Wrong
                      /\ expiry[call[r].otp] < now
  /\ pc[r] \in {"write", "delete"} \/ (answer[r] = "OK" /\ IsGuess(r)) => ~since[r].late

Lateness == \A r \in Requests : LatenessOf(r)

LEMMA LatenessSuffices == Lateness => NothingExpiredWorks
BY DEF Lateness, LatenessOf, NothingExpiredWorks, Users

LEMMA LatenessOfOthers ==
  ASSUME Typed, NEW r \in Requests, Acts(r), NEW q \in Requests, q # r, LatenessOf(q)
  PROVE  LatenessOf(q)'
<1>1. /\ pc'[q] = pc[q] /\ call'[q] = call[q] /\ since'[q] = since[q] /\ answer'[q] = answer[q]
      /\ now' = now
  BY ActsAlone
<1>2. since[q].late => expiry'[call[q].otp] = expiry[call[q].otp]
  BY GuessedStays DEF LatenessOf
<1> QED
  BY <1>1, <1>2 DEF LatenessOf, IsGuess

LEMMA LatenessOfActor ==
  ASSUME Typed, NEW r \in Requests, Acts(r), LatenessOf(r)
  PROVE  LatenessOf(r)'
<1>1. TypeOK /\ MatchOf(r) /\ now' = now
  BY ActsAlone DEF Typed, Matches
<1>2. CASE Begin(r)
  <2>1. PICK c \in Calls :
          /\ call' = [call EXCEPT ![r] = c]
          /\ pc' = [pc EXCEPT ![r] = IF c.op \in {"register", "forgot"} THEN "user" ELSE "load"]
          /\ since' = [since EXCEPT ![r] =
               [late |-> c.op \in {"verify", "reset"} /\ c.otp # Wrong /\ expiry[c.otp] < now,
                done |-> {q \in Requests : pc[q] = "done"}]]
    BY <1>2 DEF Begin, Goto
  <2>2. /\ call'[r] = c /\ pc'[r] \in {"user", "load"}
        /\ since'[r].late => c.op \in {"verify", "reset"} /\ c.otp # Wrong /\ expiry[c.otp] < now
    BY <1>1, <2>1 DEF TypeOK
  <2>3. answer'[r] = "none" /\ expiry' = expiry
    BY <1>1, <1>2, ActsAlone DEF MatchOf
  <2> QED
    BY <1>1, <2>2, <2>3 DEF LatenessOf
<1>3. CASE ~Begin(r)
  <2>1. /\ call' = call /\ since' = since /\ answer[r] = "none" /\ pc[r] # "idle" /\ pc'[r] # "idle"
    BY <1>1, <1>3, ActsAlone, MatchOfActor, NilIsNothing DEF MatchOf
  <2>2. since'[r].late => expiry'[call[r].otp] = expiry[call[r].otp]
    BY <2>1, GuessedStays DEF LatenessOf
  <2>3. pc'[r] = "write" => pc[r] = "load" /\ GuessLoads(r)
    BY <1>1, <1>3 DEF Acts, Request, Guess, RequestChecksUser, RequestStores, RequestPublishes, RequestUndoes,
      GuessLoads, GuessCounts, VerifyCreates, ResetUpdates, GuessDeletes, Fail, Goto, Return, TypeOK
  <2>4. /\ pc'[r] = "delete" => pc[r] = "write"
        /\ answer'[r] = "OK" /\ call[r].op \in {"verify", "reset"} => pc[r] = "delete"
    <3> USE <1>1, <2>1 DEF TypeOK, MatchOf, RequestPlaces, GuessPlaces, Goto, Return
    <3>1. CASE Request(r)
      BY <3>1 DEF Request, RequestChecksUser, RequestStores, RequestPublishes, RequestUndoes
    <3>2. CASE Guess(r)
      BY <3>2 DEF Guess, GuessLoads, GuessCounts, VerifyCreates, ResetUpdates, GuessDeletes
    <3>3. CASE Fail(r)
      BY <3>3 DEF Fail
    <3> QED
      BY <1>3, <3>1, <3>2, <3>3 DEF Acts
  <2>5. pc'[r] = "write" => ~since[r].late
    <3> SUFFICES ASSUME GuessLoads(r), pc'[r] = "write", since[r].late
                 PROVE  FALSE
      BY <2>3
    <3> DEFINE x == slot[Purpose(r)]
    <3>1. x # Nil /\ Good(x) /\ x.otp = call[r].otp
      BY <1>1 DEF GuessLoads, Found, Return, TypeOK
    <3>2. x \in Payload /\ Sound(x, Purpose(r))
      BY <2>1, <3>1, CallOf DEF Typed, TypeOK, Slots
    <3>3. now <= expiry[call[r].otp] /\ x.otp \in Requests
      BY <3>1, <3>2, PayloadFields DEF Good, Sound
    <3>4. expiry[call[r].otp] \in Int /\ now \in Int
      BY <1>1, <3>1, <3>3 DEF TypeOK
    <3> QED
      BY <3>3, <3>4 DEF LatenessOf
  <2> QED
    BY <1>1, <2>1, <2>2, <2>3, <2>4, <2>5 DEF LatenessOf, IsGuess
<1> QED
  BY <1>2, <1>3

LEMMA InitLateness == Init => Lateness
<1> SUFFICES ASSUME Init, NEW r \in Requests PROVE LatenessOf(r)
  BY DEF Lateness
<1>1. since[r].late = FALSE
  BY DEF Init
<1> QED
  BY <1>1 DEF LatenessOf

LEMMA NextLateness ==
  ASSUME Typed, Lateness, [Next]_vars
  PROVE  Lateness'
<1>1. ASSUME NEW q \in Requests
      PROVE  LatenessOf(q)'
  <2>1. LatenessOf(q)
    BY DEF Lateness
  <2>2. ASSUME NEW r \in Requests, Acts(r)
        PROVE  LatenessOf(q)'
    <3>1. CASE q = r
      BY <2>1, <2>2, <3>1, LatenessOfActor
    <3>2. CASE q # r
      BY <2>1, <2>2, <3>2, LatenessOfOthers
    <3> QED
      BY <3>1, <3>2
  <2>3. CASE Rests
    <3>1. UNCHANGED <<expiry, call, pc, since, answer>> /\ now' >= now /\ now \in Int /\ now' \in Int
      BY <2>3, RestsKeeps
    <3>2. since[q].late => expiry[call[q].otp] \in Int
      BY <2>1, CallOf, CallFields DEF LatenessOf, Typed, TypeOK
    <3> QED
      BY <2>1, <3>1, <3>2 DEF LatenessOf, IsGuess
  <2> QED
    BY <2>2, <2>3 DEF Next, Acts, Rests
<1> QED
  BY <1>1 DEF Lateness

\* ExpiresAt bounds the life of a password (verifyOTPPayload), though every
\* wrong guess has Redis keep its payload for another AUTH_OTP_TTL_SECONDS.
THEOREM NothingExpiredWorksHolds == Spec => []NothingExpiredWorks
<1>1. Typed /\ Lateness /\ [Next]_vars => Lateness'
  BY NextLateness
<1> QED
  BY <1>1, TypedHolds, InitLateness, LatenessSuffices, PTL DEF Spec

-----------------------------------------------------------------------------
(* The account.                                                            *)

NoResets == \A q \in Requests : call[q] # Nil => call[q].op # "reset"

Verified(r) == call[r] # Nil /\ call[r].op = "verify" /\ (pc[r] = "delete" \/ answer[r] = "OK")

AccountOf(r) ==
  NoResets /\ Verified(r) =>
    call[r].otp # Wrong /\ account # Nil /\ account = call[call[r].otp].password

Accounts == \A r \in Requests : AccountOf(r)

LEMMA AccountsSuffice == Accounts => AccountAsRegistered
BY DEF Accounts, AccountOf, AccountAsRegistered, NoResets, Verified

\* Calls that were made remain.
LEMMA CallsStay ==
  ASSUME Typed, NEW r \in Requests, Acts(r), NEW q \in Requests, call[q] # Nil
  PROVE  call'[q] = call[q]
<1>1. pc[q] # "idle"
  BY DEF Typed, Matches, MatchOf
<1>2. CASE q = r
  BY <1>1, <1>2, ActsAlone
<1>3. CASE q # r
  BY <1>3, ActsAlone
<1> QED
  BY <1>2, <1>3

LEMMA AccountChanges ==
  ASSUME Typed, NEW r \in Requests, Acts(r), account' # account
  PROVE  (VerifyCreates(r) /\ account = Nil) \/ ResetUpdates(r)
BY DEF Acts, Request, Guess, Begin, RequestChecksUser, RequestStores, RequestPublishes, RequestUndoes,
  GuessLoads, GuessCounts, VerifyCreates, ResetUpdates, GuessDeletes, Fail

LEMMA AccountsKept ==
  ASSUME Typed, Accounts, NEW r \in Requests, Acts(r), NEW q \in Requests
  PROVE  AccountOf(q)'
<1> SUFFICES ASSUME NoResets', Verified(q)'
             PROVE  call'[q].otp # Wrong /\ account' # Nil /\ account' = call'[call'[q].otp].password
  BY DEF AccountOf
<1>1. NoResets
  BY CallsStay DEF NoResets
<1>2. ~ResetUpdates(r)
  BY <1>1, CallOf, NilIsNothing DEF NoResets, ResetUpdates
<1>3. CASE Verified(q)
  <2>1. call[q].otp # Wrong /\ account # Nil /\ account = call[call[q].otp].password
    BY <1>1, <1>3 DEF Accounts, AccountOf
  <2>2. account' = account
    BY <1>2, <2>1, AccountChanges
  <2>3. pc[q] # "idle" /\ call[q].op = "verify" /\ call'[q] = call[q]
    BY <1>3, CallsStay DEF Verified, Typed, Matches, MatchOf
  <2> QED
    BY <2>1, <2>2, <2>3, GuessedStays
<1>4. CASE ~Verified(q)
  <2>1. q = r /\ VerifyCreates(r) /\ pc'[r] = "delete"
    <3>1. q = r
      BY <1>4, ActsAlone DEF Verified
    <3>2. ~Begin(r)
      <4> SUFFICES ASSUME Begin(r) PROVE FALSE
        OBVIOUS
      <4>1. pc[r] = "idle" /\ answer' = answer
        BY ActsAlone
      <4>2. answer'[r] # "OK"
        BY <4>1 DEF Typed, Matches, MatchOf
      <4>3. pc'[r] \in {"user", "load"}
        BY DEF Begin, Goto, Typed, TypeOK
      <4> QED
        BY <1>4, <3>1, <4>2, <4>3 DEF Verified
    <3>3. call' = call /\ answer[r] = "none" /\ pc[r] # "idle"
      BY <3>2, ActsAlone DEF Typed, Matches, MatchOf
    <3>4. call[r].op = "verify" /\ call[r] # Nil /\ pc[r] # "delete" /\ (pc'[r] = "delete" \/ answer'[r] = "OK")
      BY <1>4, <3>1, <3>3 DEF Verified
    <3> USE <3>3, <3>4 DEF Typed, TypeOK, Matches, MatchOf, RequestPlaces, GuessPlaces, Goto, Return
    <3>5. CASE Request(r)
      BY <3>5 DEF Request, RequestChecksUser, RequestStores, RequestPublishes, RequestUndoes
    <3>6. CASE Guess(r)
      BY <3>1, <3>6 DEF Guess, GuessLoads, GuessCounts, VerifyCreates, ResetUpdates, GuessDeletes
    <3>7. CASE Fail(r)
      BY <3>7 DEF Fail
    <3> QED
      BY <3>2, <3>5, <3>6, <3>7 DEF Acts
  <2>2. /\ account' = call[seen[r].otp].password /\ call' = call /\ pc[r] = "write"
        /\ call[r].op = "verify"
    BY <2>1 DEF VerifyCreates, Return, Goto, begun, Typed, TypeOK
  <2>3. /\ seen[r].otp = call[r].otp /\ seen[r].otp \in Requests
        /\ call[seen[r].otp].password \in Passwords
    BY <2>2, SeenPayload, CallFields DEF Typed, Matches, MatchOf
  <2> QED
    BY <2>1, <2>2, <2>3, PasswordsAssumption, NilIsNothing
<1> QED
  BY <1>3, <1>4

LEMMA InitAccounts == Init => Accounts
BY DEF Init, Accounts, AccountOf, Verified

LEMMA NextAccounts ==
  ASSUME Typed, Accounts, [Next]_vars
  PROVE  Accounts'
<1>1. ASSUME NEW q \in Requests
      PROVE  AccountOf(q)'
  <2>1. CASE \E r \in Requests : Acts(r)
    BY <2>1, AccountsKept
  <2>2. CASE Rests
    BY <2>2, RestsKeeps DEF Accounts, AccountOf, NoResets, Verified
  <2> QED
    BY <2>1, <2>2 DEF Next, Acts, Rests
<1> QED
  BY <1>1 DEF Accounts

\* VerifyOTP creates the account from the draft of the payload it compared, and
\* creates it once (email is unique): whoever is told that it was made has the
\* password they registered, whatever other registrations run.
THEOREM AccountAsRegisteredHolds == Spec => []AccountAsRegistered
<1>1. Typed /\ Accounts /\ [Next]_vars => Accounts'
  BY NextAccounts
<1> QED
  BY <1>1, TypedHolds, InitAccounts, AccountsSuffice, PTL DEF Spec

-----------------------------------------------------------------------------
(* Use.  After a use of a password its payload is gone from Redis and from  *)
(* the hands of those who begin later, unless a wrong guess that was under  *)
(* way brought it back.                                                     *)

BroughtBack(o, r) == \E w \in Requests : counted[w] = o /\ Overlap(w, r)

UseOf(r, o) ==
  Uses(r, o) =>
    /\ \A p \in Purposes : slot[p] # Nil /\ slot[p].otp = o => BroughtBack(o, r)
    /\ \A q \in Requests : Before(r, q) /\ seen[q] # Nil /\ seen[q].otp = o => BroughtBack(o, r)
    /\ \A q \in Requests : Before(r, q) /\ Uses(q, o) => BroughtBack(o, r)

UsesKnown == \A r, o \in Requests : UseOf(r, o)

LEMMA UsesSuffice == UsesKnown => UsedOnce
BY DEF UsesKnown, UseOf, Uses, UsedOnce, Users, BroughtBack

LEMMA BroughtBackStays ==
  ASSUME Typed, NEW r \in Requests, Acts(r), NEW o \in Requests, NEW u \in Requests,
         call[u] # Nil, pc[u] # "idle", BroughtBack(o, u)
  PROVE  BroughtBack(o, u)'
<1>1. PICK w \in Requests : counted[w] = o /\ Overlap(w, u)
  BY DEF BroughtBack
<1>2. counted[w] # Nil /\ pc[w] = "done"
  BY <1>1, NilIsNothing DEF Typed, Matches, MatchOf
<1>3. counted'[w] = counted[w] /\ call'[w] = call[w] /\ since'[w] = since[w] /\ call'[u] = call[u]
  BY <1>1, <1>2, DoneStays, CallsStay DEF Overlap
<1>4. since'[u] = since[u]
  BY ActsAlone
<1> QED
  BY <1>1, <1>3, <1>4 DEF BroughtBack, Overlap, Before

\* Whoever gets something done with a password has it in hand.
LEMMA UseBegins ==
  ASSUME Typed, NEW r \in Requests, Acts(r), NEW q \in Requests, NEW o \in Requests,
         Uses(q, o)', ~Uses(q, o)
  PROVE  /\ q = r /\ GuessDeletes(r) /\ seen[r].otp = o /\ seen[r] # Nil /\ call[r].otp = o
         /\ slot' = [slot EXCEPT ![Purpose(r)] = Nil]
<1>1. q = r
  BY ActsAlone DEF Uses, IsGuess
<1>2. ~Begin(r)
  BY <1>1, ActsAlone DEF Uses, IsGuess, Typed, Matches, MatchOf
<1>3. call' = call /\ answer[r] = "none" /\ pc[r] # "idle"
  BY <1>2, ActsAlone DEF Typed, Matches, MatchOf
<1>4. call[r].op \in {"verify", "reset"} /\ call[r].otp = o /\ answer'[r] = "OK"
  BY <1>1, <1>3 DEF Uses, IsGuess
<1>5. GuessDeletes(r)
  <2> USE <1>3, <1>4 DEF Typed, TypeOK, Matches, MatchOf, RequestPlaces, GuessPlaces, Goto, Return
  <2>1. CASE Request(r)
    BY <2>1 DEF Request, RequestChecksUser, RequestStores, RequestPublishes, RequestUndoes
  <2>2. CASE Guess(r)
    BY <2>2 DEF Guess, GuessLoads, GuessCounts, VerifyCreates, ResetUpdates, GuessDeletes
  <2>3. CASE Fail(r)
    BY <2>3 DEF Fail
  <2> QED
    BY <1>2, <2>1, <2>2, <2>3 DEF Acts
<1>6. pc[r] = "delete" /\ slot' = [slot EXCEPT ![Purpose(r)] = Nil]
  BY <1>5 DEF GuessDeletes
<1> QED
  BY <1>1, <1>4, <1>5, <1>6 DEF Typed, Matches, MatchOf

\* Nobody has begun after a request that is not over.
LEMMA BeforeIsDone ==
  ASSUME Typed, NEW r \in Requests, NEW q \in Requests, Before(r, q)
  PROVE  pc[r] = "done"
BY DEF Before, Typed, Matches, MatchOf

LEMMA UsesKept ==
  ASSUME Typed, UsesKnown, NEW r \in Requests, Acts(r), NEW u \in Requests, NEW o \in Requests
  PROVE  UseOf(u, o)'
<1> SUFFICES ASSUME Uses(u, o)'
             PROVE  /\ \A p \in Purposes : slot'[p] # Nil /\ slot'[p].otp = o => BroughtBack(o, u)'
                    /\ \A q \in Requests :
                         Before(u, q)' /\ seen'[q] # Nil /\ seen'[q].otp = o => BroughtBack(o, u)'
                    /\ \A q \in Requests : Before(u, q)' /\ Uses(q, o)' => BroughtBack(o, u)'
  BY DEF UseOf
<1>1. Typed'
  BY NextTyped DEF Next, Acts
<1>2. CASE ~Uses(u, o)
  <2>1. /\ u = r /\ GuessDeletes(r) /\ seen[r].otp = o /\ seen[r] # Nil /\ call[r].otp = o
        /\ slot' = [slot EXCEPT ![Purpose(r)] = Nil] /\ pc[r] = "delete"
    BY <1>2, UseBegins DEF GuessDeletes
  <2>2. \A q \in Requests : ~Before(u, q)'
    <3>1. \A q \in Requests : ~Before(r, q)
      BY <2>1, BeforeIsDone
    <3>2. since' = since
      BY <2>1 DEF GuessDeletes, begun
    <3> QED
      BY <2>1, <3>1, <3>2 DEF Before
  <2>3. \A p \in Purposes : slot'[p] # Nil => slot'[p].otp # o
    <3>1. Purpose(r) \in Purposes /\ Purpose(o) = Purpose(r)
      BY <2>1, SeenPayload DEF Sound
    <3>2. slot \in [Purposes -> Payload \cup {Nil}]
      BY DEF Typed, TypeOK
    <3>3. \A p \in Purposes : slot'[p] # Nil => p # Purpose(r) /\ slot'[p] = slot[p]
      BY <2>1, <3>1, <3>2
    <3> QED
      BY <3>1, <3>3 DEF Typed, Slots, Sound
  <2> QED
    BY <2>2, <2>3
<1>3. CASE Uses(u, o)
  <2>1. /\ pc[u] = "done" /\ call[u] # Nil /\ call[u].otp = o /\ call[u].op \in {"verify", "reset"}
        /\ UseOf(u, o)
    BY <1>3 DEF Uses, IsGuess, Typed, Matches, MatchOf, UsesKnown
  <2>2. o \in mailed /\ Made(o)
    BY <2>1, PasswordsAssumption DEF Typed, Matches, MatchOf
  <2>3. BroughtBack(o, u) => BroughtBack(o, u)'
    BY <2>1, BroughtBackStays
  <2>4. /\ u # r /\ pc'[u] = "done" /\ since'[u] = since[u] /\ call'[u] = call[u]
    BY <2>1, DoneStays
  <2>5. ASSUME NEW p \in Purposes, slot'[p] # Nil, slot'[p].otp = o
        PROVE  BroughtBack(o, u)'
    <3>1. CASE slot'[p] = slot[p]
      BY <1>3, <2>1, <2>3, <2>5, <3>1 DEF UseOf
    <3>2. CASE p = Purpose(r) /\ Stores(r)
      BY <2>2, <2>5, <3>2 DEF Stores, RequestStores, Made
    <3>3. CASE p = Purpose(r) /\ Restores(r)
      <4>1. pc[r] = "count" /\ seen[r].otp = o /\ counted'[r] = o
        BY <2>5, <3>3 DEF Restores, GuessCounts
      <4>2. seen[r] # Nil /\ call[r] # Nil
        BY <4>1 DEF Typed, Matches, MatchOf
      <4>3. CASE Before(u, r)
        BY <1>3, <2>1, <2>3, <4>1, <4>2, <4>3 DEF UseOf
      <4>4. CASE ~Before(u, r)
        <5>1. ~Before(r, u)
          BY <4>1, BeforeIsDone
        <5>2. since' = since /\ call' = call
          BY <4>1, ActsAlone DEF Begin
        <5>3. Overlap(r, u)'
          BY <2>1, <2>4, <4>2, <4>4, <5>1, <5>2 DEF Overlap, Before
        <5> QED
          BY <4>1, <5>3 DEF BroughtBack
      <4> QED
        BY <4>3, <4>4
    <3> QED
      BY <2>5, <3>1, <3>2, <3>3, SlotChanges DEF Empties
  <2>6. ASSUME NEW q \in Requests, Before(u, q)', seen'[q] # Nil, seen'[q].otp = o
        PROVE  BroughtBack(o, u)'
    <3>1. CASE q # r
      <4>1. Before(u, q) /\ seen[q] # Nil /\ seen[q].otp = o
        BY <2>6, <3>1, ActsAlone DEF Before
      <4> QED
        BY <1>3, <2>1, <2>3, <4>1 DEF UseOf
    <3>2. CASE q = r
      <4>1. ~Begin(r)
        BY <1>1, <2>6, <3>2, ActsAlone DEF Begin, Typed, Matches, MatchOf
      <4>2. Before(u, r)
        BY <2>6, <3>2, <4>1, ActsAlone DEF Before
      <4>3. CASE seen'[r] = seen[r]
        BY <1>3, <2>1, <2>3, <2>6, <3>2, <4>2, <4>3 DEF UseOf
      <4>4. CASE seen'[r] # seen[r]
        <5>1. GuessLoads(r)
          BY <2>6, <3>2, <4>1, <4>4 DEF Typed, TypeOK, Acts, Request, Guess, RequestChecksUser, RequestStores,
            RequestPublishes, RequestUndoes, GuessCounts, VerifyCreates, ResetUpdates, GuessDeletes, Fail,
            Goto, Return
        <5>2. seen'[r] = slot[Purpose(r)] /\ pc[r] = "load" /\ slot[Purpose(r)] # Nil
          BY <2>6, <3>2, <5>1 DEF GuessLoads, Found, Return, Typed, TypeOK
        <5>3. Purpose(r) \in Purposes
          BY <5>2, CallOf
        <5> QED
          BY <1>3, <2>1, <2>3, <2>6, <3>2, <5>2, <5>3 DEF UseOf
      <4> QED
        BY <4>3, <4>4
    <3> QED
      BY <3>1, <3>2
  <2>7. ASSUME NEW q \in Requests, Before(u, q)', Uses(q, o)'
        PROVE  BroughtBack(o, u)'
    <3>1. CASE Uses(q, o)
      <4>1. pc[q] = "done" /\ since'[q] = since[q]
        BY <3>1, DoneStays DEF Uses, IsGuess, Typed, Matches, MatchOf
      <4>2. Before(u, q)
        BY <2>7, <4>1 DEF Before
      <4> QED
        BY <1>3, <2>1, <2>3, <3>1, <4>2 DEF UseOf
    <3>2. CASE ~Uses(q, o)
      <4>1. q = r /\ GuessDeletes(r) /\ seen[r].otp = o /\ seen[r] # Nil
        BY <2>7, <3>2, UseBegins
      <4>2. Before(u, r)
        BY <2>7, <4>1 DEF GuessDeletes, begun, Before
      <4> QED
        BY <1>3, <2>1, <2>3, <4>1, <4>2 DEF UseOf
    <3> QED
      BY <3>1, <3>2
  <2> QED
    BY <2>5, <2>6, <2>7
<1> QED
  BY <1>2, <1>3

LEMMA InitUses == Init => UsesKnown
BY DEF Init, UsesKnown, UseOf, Uses, IsGuess

LEMMA NextUses ==
  ASSUME Typed, UsesKnown, [Next]_vars
  PROVE  UsesKnown'
<1>1. ASSUME NEW u \in Requests, NEW o \in Requests
      PROVE  UseOf(u, o)'
  <2>1. CASE \E r \in Requests : Acts(r)
    BY <2>1, UsesKept
  <2>2. CASE Rests
    BY <2>2, RestsKeeps DEF UsesKnown, UseOf, Uses, IsGuess, BroughtBack, Overlap, Before
  <2> QED
    BY <2>1, <2>2 DEF Next, Acts, Rests
<1> QED
  BY <1>1 DEF UsesKnown

\* A password is deleted with its use (VerifyOTP, ResetPassword); only a wrong
\* guess that overlapped with the use can write it back (verifyOTPPayload).
THEOREM UsedOnceHolds == Spec => []UsedOnce
<1>1. Typed /\ UsesKnown /\ [Next]_vars => UsesKnown'
  BY NextUses
<1> QED
  BY <1>1, TypedHolds, InitUses, UsesSuffice, PTL DEF Spec

-----------------------------------------------------------------------------
(* The last password asked for.  While nothing overlaps with the asking,    *)
(* the key holds that password, and so does whoever has read it since.      *)

Rivals(r) == {q \in Requests \ {r} : call[q] # Nil /\ Purpose(q) = Purpose(r)}

Alone(r) ==
  \A q \in Rivals(r) : Before(q, r) \/ (IsGuess(q) /\ Before(r, q) /\ call[q].otp # r)

Stands(r) ==
  /\ call[r] # Nil /\ call[r].op \in {"register", "forgot"}
  /\ pc[r] = "publish" \/ (answer[r] = "OK" /\ r \in mailed)

LastOf(r) ==
  Stands(r) /\ Alone(r) =>
    /\ slot[Purpose(r)] # Nil /\ slot[Purpose(r)].otp = r
    /\ \A q \in Rivals(r) : seen[q] # Nil => seen[q].otp = r

Lasts == \A r \in Requests : LastOf(r)

LEMMA LastsSuffice == Lasts => LastAskedStands
BY DEF Lasts, LastOf, Stands, Alone, Rivals, LastAskedStands

\* Who asked in time and alone had done so before this step.
LEMMA AloneBefore ==
  ASSUME Typed, NEW r \in Requests, Acts(r), NEW u \in Requests, call[u] # Nil, pc[u] # "idle", Alone(u)'
  PROVE  /\ Alone(u) /\ call'[u] = call[u] /\ since'[u] = since[u]
         /\ \A q \in Rivals(u) : q \in Rivals(u)' /\ call'[q] = call[q]
<1>1. call'[u] = call[u] /\ since'[u] = since[u]
  BY CallsStay, ActsAlone
<1>2. \A q \in Rivals(u) : q \in Rivals(u)' /\ call'[q] = call[q]
  BY <1>1, CallsStay DEF Rivals, Purpose
<1>3. \A q \in Rivals(u) : since'[q] = since[q]
  <2> SUFFICES ASSUME NEW q \in Rivals(u) PROVE since'[q] = since[q]
    OBVIOUS
  <2>1. q \in Requests /\ pc[q] # "idle"
    BY DEF Rivals, Typed, Matches, MatchOf
  <2> QED
    BY <2>1, ActsAlone
<1> QED
  BY <1>1, <1>2, <1>3 DEF Alone, IsGuess, Before

LEMMA LastsKept ==
  ASSUME Typed, Lasts, NEW r \in Requests, Acts(r), NEW u \in Requests
  PROVE  LastOf(u)'
<1> SUFFICES ASSUME Stands(u)', Alone(u)'
             PROVE  /\ slot'[PurposeOf(call'[u])] # Nil /\ slot'[PurposeOf(call'[u])].otp = u
                    /\ \A q \in Rivals(u)' : seen'[q] # Nil => seen'[q].otp = u
  BY DEF LastOf, Purpose
<1>1. Typed'
  BY NextTyped DEF Next, Acts
<1>2. pc[u] # "idle" /\ call[u] # Nil
  <2>1. CASE u = r
    <3>1. ~Begin(r)
      <4>1. Begin(r) => pc'[r] \in {"user", "load"} /\ answer'[r] = "none"
        BY ActsAlone DEF Begin, Goto, Typed, TypeOK, Matches, MatchOf
      <4> QED
        BY <2>1, <4>1 DEF Stands
    <3> QED
      BY <2>1, <3>1, ActsAlone DEF Typed, Matches, MatchOf
  <2>2. CASE u # r
    <3>1. call[u] # Nil
      BY <2>2, ActsAlone DEF Stands
    <3> QED
      BY <3>1 DEF Typed, Matches, MatchOf
  <2> QED
    BY <2>1, <2>2
<1>3. /\ Alone(u) /\ call'[u] = call[u] /\ since'[u] = since[u]
      /\ \A q \in Rivals(u) : q \in Rivals(u)' /\ call'[q] = call[q]
  BY <1>2, AloneBefore
<1>4. call[u].op \in {"register", "forgot"} /\ PurposeOf(call'[u]) = Purpose(u)
  BY <1>3 DEF Stands, Purpose
<1>5. \A q \in Rivals(u)' : q \in Rivals(u) \/ (q = r /\ Begin(r))
  <2> SUFFICES ASSUME NEW q \in Rivals(u)', q \notin Rivals(u) PROVE q = r /\ Begin(r)
    OBVIOUS
  <2>1. q \in Requests \ {u} /\ call'[q] # call[q]
    BY <1>3 DEF Rivals, Purpose
  <2>2. q = r
    BY <2>1, ActsAlone
  <2> QED
    BY <2>1, <2>2, ActsAlone
<1>6. CASE Stands(u)
  <2>1. /\ slot[Purpose(u)] # Nil /\ slot[Purpose(u)].otp = u
        /\ \A q \in Rivals(u) : seen[q] # Nil => seen[q].otp = u
    BY <1>3, <1>6 DEF Lasts, LastOf
  <2>2. Purpose(u) \in Purposes
    BY <1>2, CallOf
  <2>3. r # u /\ Purpose(r) = Purpose(u) /\ pc[r] \notin {"idle", "done"} =>
          r \in Rivals(u) /\ IsGuess(r) /\ call[r].otp # u
    <3> SUFFICES ASSUME r # u, Purpose(r) = Purpose(u), pc[r] \notin {"idle", "done"}
                 PROVE  r \in Rivals(u) /\ IsGuess(r) /\ call[r].otp # u
      OBVIOUS
    <3>1. r \in Rivals(u)
      BY DEF Rivals, Typed, Matches, MatchOf
    <3>2. ~Before(r, u)
      BY BeforeIsDone
    <3> QED
      BY <1>3, <3>1, <3>2 DEF Alone
  <2>4. r = u => slot' = slot
    <3> SUFFICES ASSUME r = u PROVE slot' = slot
      OBVIOUS
    <3>1. pc[r] = "publish" \/ pc[r] = "done"
      BY SMTT(30), <1>6 DEF Stands, Typed, Matches, MatchOf
    <3>2. (pc[r] = "publish" /\ RequestPublishes(r)) \/ Fail(r)
      BY <3>1, ActsAlone DEF Acts, Request, Guess, Begin, RequestChecksUser, RequestStores, RequestPublishes,
        RequestUndoes, GuessLoads, GuessCounts, VerifyCreates, ResetUpdates, GuessDeletes, Fail
    <3> QED
      BY <3>2 DEF RequestPublishes, Fail
  <2>5. slot'[Purpose(u)] # Nil /\ slot'[Purpose(u)].otp = u
    <3>1. CASE slot'[Purpose(u)] = slot[Purpose(u)]
      BY <2>1, <3>1
    <3>2. CASE slot'[Purpose(u)] # slot[Purpose(u)]
      <4>1. r # u /\ Purpose(r) = Purpose(u) /\ (Empties(r) \/ Stores(r) \/ Restores(r))
        BY <2>2, <2>4, <3>2, SlotChanges
      <4>2. pc[r] \notin {"idle", "done"}
        BY <4>1 DEF Empties, Stores, Restores, GuessDeletes, RequestStores, GuessCounts
      <4>3. r \in Rivals(u) /\ IsGuess(r) /\ call[r].otp # u
        BY <2>3, <4>1, <4>2
      <4>4. pc[r] \notin {"store", "undo"}
        BY <4>3 DEF IsGuess, Typed, Matches, MatchOf, RequestPlaces
      <4>5. ~GuessDeletes(r)
        <5>1. pc[r] = "delete" => seen[r] # Nil /\ seen[r].otp = call[r].otp
          BY DEF Typed, Matches, MatchOf
        <5> QED
          BY <2>1, <4>3, <5>1 DEF GuessDeletes
      <4>6. Restores(r) /\ pc[r] = "count"
        BY <4>1, <4>4, <4>5 DEF Empties, Stores, RequestStores, Restores, GuessCounts
      <4>7. seen[r] # Nil
        BY <4>6 DEF Typed, Matches, MatchOf
      <4> QED
        BY <2>1, <4>1, <4>3, <4>6, <4>7, PayloadFields DEF Restores
    <3> QED
      BY <3>1, <3>2
  <2>6. ASSUME NEW q \in Rivals(u)', seen'[q] # Nil
        PROVE  seen'[q].otp = u
    <3>1. ~Begin(r) \/ q # r
      BY <1>1, <2>6, ActsAlone DEF Typed, Matches, MatchOf
    <3>2. q \in Rivals(u) /\ q \in Requests
      BY <1>5, <3>1 DEF Rivals
    <3>3. CASE seen'[q] = seen[q]
      BY <2>1, <2>6, <3>2, <3>3
    <3>4. CASE seen'[q] # seen[q]
      <4>1. q = r
        BY <3>2, <3>4, ActsAlone
      <4>2. GuessLoads(r)
        BY <2>6, <3>1, <3>4, <4>1 DEF Typed, TypeOK, Acts, Request, Guess, RequestChecksUser, RequestStores,
          RequestPublishes, RequestUndoes, GuessCounts, VerifyCreates, ResetUpdates, GuessDeletes, Fail,
          Goto, Return
      <4>3. seen'[r] = slot[Purpose(r)]
        BY <2>6, <4>1, <4>2 DEF GuessLoads, Return, Typed, TypeOK
      <4>4. Purpose(r) = Purpose(u)
        BY <3>2, <4>1 DEF Rivals
      <4> QED
        BY <2>1, <4>1, <4>3, <4>4
    <3> QED
      BY <3>3, <3>4
  <2> QED
    BY <1>4, <2>5, <2>6
<1>7. CASE ~Stands(u)
  <2>1. u = r /\ RequestStores(r)
    <3>1. u = r
      BY <1>2, <1>3, <1>4, <1>7, ActsAlone DEF Stands
    <3>2. ~Begin(r)
      BY <1>2, <3>1, ActsAlone
    <3>3. call' = call /\ answer[r] = "none" /\ pc[r] \notin {"idle", "done", "publish"}
      BY <1>2, <1>4, <1>7, <3>1, <3>2, ActsAlone DEF Stands, Typed, Matches, MatchOf
    <3>4. pc'[r] = "publish" \/ (answer'[r] = "OK" /\ r \in mailed')
      BY <3>1 DEF Stands
    <3> USE <1>4, <3>1, <3>3, <3>4 DEF Typed, TypeOK, Matches, MatchOf, Made, RequestPlaces, GuessPlaces,
          Goto, Return, mails
    <3>5. ~RequestChecksUser(r)
      BY DEF RequestChecksUser
    <3>6. ~RequestPublishes(r) /\ ~RequestUndoes(r)
      BY DEF RequestPublishes, RequestUndoes
    <3>7. ~Guess(r)
      BY DEF Guess, GuessLoads, GuessCounts, VerifyCreates, ResetUpdates, GuessDeletes
    <3>8. ~Fail(r)
      BY DEF Fail
    <3> QED
      BY <3>2, <3>5, <3>6, <3>7, <3>8 DEF Acts, Request
  <2>2. slot'[Purpose(u)] # Nil /\ slot'[Purpose(u)].otp = u
    <3>1. /\ slot' = [slot EXCEPT ![Purpose(r)] =
               [otp |-> r, attempts |-> 0, expires |-> now + OTPTTL, until |-> now + OTPTTL]]
          /\ Purpose(r) \in Purposes
      BY <1>2, <2>1, CallOf DEF RequestStores
    <3>2. slot'[Purpose(r)] = [otp |-> r, attempts |-> 0, expires |-> now + OTPTTL, until |-> now + OTPTTL]
      BY <3>1 DEF Typed, TypeOK
    <3> QED
      BY <2>1, <3>2, NewPayload, PayloadFields
  <2>3. ASSUME NEW q \in Rivals(u)'
        PROVE  seen'[q] = Nil
    <3>1. q \in Rivals(u) /\ q \in Requests /\ q # r /\ pc[r] = "store"
      BY <1>5, <2>1 DEF Rivals, RequestStores, Begin
    <3>2. Before(q, u)
      BY <1>3, <2>1, <3>1, BeforeIsDone DEF Alone
    <3>3. pc[q] = "done"
      BY <3>1, <3>2, BeforeIsDone
    <3> QED
      BY <3>1, <3>3, ActsAlone DEF Typed, Matches, MatchOf
  <2> QED
    BY <1>4, <2>2, <2>3
<1> QED
  BY <1>6, <1>7

LEMMA InitLasts == Init => Lasts
<1> SUFFICES ASSUME Init, NEW r \in Requests, Stands(r), Alone(r)
             PROVE  /\ slot[Purpose(r)] # Nil /\ slot[Purpose(r)].otp = r
                    /\ \A q \in Rivals(r) : seen[q] # Nil => seen[q].otp = r
  BY DEF Lasts, LastOf
<1>1. r = First
  BY DEF Init, Stands
<1>2. \A q \in Requests : seen[q] = Nil
  BY DEF Init
<1>3. /\ Purpose(r) \in Purposes
      /\ slot[Purpose(r)] = [otp |-> First, attempts |-> 0, expires |-> OTPTTL, until |-> OTPTTL]
  <2>1. PurposeOf(call[First]) \in Purposes
    BY DEF PurposeOf, Purposes
  <2> QED
    BY <1>1, <2>1, PasswordsAssumption DEF Init, Purpose
<1>4. slot[Purpose(r)] \in Payload
  BY <1>3, PasswordsAssumption DEF Payload
<1> QED
  BY <1>1, <1>2, <1>3, <1>4, NilIsNothing DEF Rivals

LEMMA NextLasts ==
  ASSUME Typed, Lasts, [Next]_vars
  PROVE  Lasts'
<1>1. ASSUME NEW u \in Requests
      PROVE  LastOf(u)'
  <2>1. CASE \E r \in Requests : Acts(r)
    BY <2>1, LastsKept
  <2>2. CASE Rests
    BY <2>2, RestsKeeps DEF Lasts, LastOf, Stands, Alone, Rivals, Purpose, Before, IsGuess
  <2> QED
    BY <2>1, <2>2 DEF Next, Acts, Rests
<1> QED
  BY <1>1 DEF Lasts

\* Asking again replaces the password (storeOTPPayload), and neither wrong
\* guesses at it nor anything that was over before takes it away.
THEOREM LastAskedStandsHolds == Spec => []LastAskedStands
<1>1. Typed /\ Lasts /\ [Next]_vars => Lasts'
  BY NextLasts
<1> QED
  BY <1>1, TypedHolds, InitLasts, LastsSuffice, PTL DEF Spec

-----------------------------------------------------------------------------
(* Attempts.  While guesses follow one another, the payload of a password   *)
(* has counted every wrong guess that was written back against it.          *)

WrongGuesses(o) == {r \in Requests : counted[r] = o}

Calm == \A r, q \in {g \in Requests : IsGuess(g)} : ~Overlap(r, q)

\* Who is about to use a password, or has used it, came before the last attempt.
InTime(q, o) ==
  \/ Cardinality(WrongGuesses(o)) < MaxAttempts
  \/ \E r \in WrongGuesses(o) : ~Before(r, q)

CountOf(o) ==
  /\ IsFiniteSet(WrongGuesses(o))
  /\ WrongGuesses(o) # {} => Made(o)
  /\ \A r \in WrongGuesses(o) : IsGuess(r)
  /\ Calm =>
       /\ \A p \in Purposes :
            slot[p] # Nil /\ slot[p].otp = o => slot[p].attempts = Cardinality(WrongGuesses(o))
       /\ \A r \in Requests :
            pc[r] = "count" /\ seen[r].otp = o =>
              seen[r].attempts = Cardinality(WrongGuesses(o)) /\ seen[r].attempts < MaxAttempts
       /\ Cardinality(WrongGuesses(o)) <= MaxAttempts
       /\ \A q \in Requests :
            (pc[q] \in {"write", "delete"} /\ seen[q].otp = o) \/ Uses(q, o) => InTime(q, o)

CountsKnown == \A o \in Requests : CountOf(o)

LEMMA CountsSuffice == Typed /\ CountsKnown => AttemptsAreLimited
<1> SUFFICES ASSUME CountsKnown, Calm, NEW o \in Requests
             PROVE  /\ Cardinality(WrongGuesses(o)) <= MaxAttempts
                    /\ Cardinality(WrongGuesses(o)) = MaxAttempts =>
                         \A q \in Users(o) : \E r \in WrongGuesses(o) : ~Before(r, q)
  BY DEF AttemptsAreLimited, Calm, WrongGuesses
<1>1. CountOf(o)
  BY DEF CountsKnown
<1>2. MaxAttempts \in Nat /\ Cardinality(WrongGuesses(o)) \in Nat
  BY <1>1, FS_CardinalityType, PasswordsAssumption DEF CountOf
<1>3. \A q \in Users(o) : q \in Requests /\ Uses(q, o)
  BY DEF Users, Uses
<1> QED
  BY <1>1, <1>2, <1>3 DEF CountOf, InTime

LEMMA InitCounts == Init => CountsKnown
<1> SUFFICES ASSUME Init, NEW o \in Requests PROVE CountOf(o)
  BY DEF CountsKnown
<1>1. WrongGuesses(o) = {}
  BY NilIsNothing DEF Init, WrongGuesses
<1>2. /\ IsFiniteSet(WrongGuesses(o)) /\ Cardinality(WrongGuesses(o)) = 0
      /\ Cardinality(WrongGuesses(o)) < MaxAttempts /\ Cardinality(WrongGuesses(o)) <= MaxAttempts
  BY <1>1, FS_EmptySet, PasswordsAssumption
<1>3. \A p \in Purposes : slot[p] # Nil => slot[p].attempts = 0
  BY DEF Init
<1>4. \A r \in Requests : pc[r] # "count"
  BY DEF Init
<1> QED
  BY <1>1, <1>2, <1>3, <1>4 DEF CountOf, InTime

LEMMA CalmBefore ==
  ASSUME Typed, NEW r \in Requests, Acts(r), Calm'
  PROVE  Calm
<1> SUFFICES ASSUME NEW a \in Requests, NEW b \in Requests, IsGuess(a), IsGuess(b), Overlap(a, b)
             PROVE  FALSE
  BY DEF Calm
<1>1. call'[a] = call[a] /\ call'[b] = call[b] /\ pc[a] # "idle" /\ pc[b] # "idle"
  BY CallsStay DEF Overlap, Typed, Matches, MatchOf
<1>2. since'[a] = since[a] /\ since'[b] = since[b]
  BY <1>1, ActsAlone
<1>3. Overlap(a, b)' /\ IsGuess(a)' /\ IsGuess(b)'
  BY <1>1, <1>2 DEF Overlap, Before, IsGuess
<1> QED
  BY <1>3 DEF Calm

\* Of guesses that follow one another one is under way.
LEMMA GuessesApart ==
  ASSUME Typed, Calm, NEW r \in Requests, NEW q \in Requests,
         pc[r] \in GuessPlaces, pc[q] \in GuessPlaces
  PROVE  r = q
<1>1. IsGuess(r) /\ IsGuess(q) /\ call[r] # Nil /\ call[q] # Nil
  BY DEF Typed, Matches, MatchOf, GuessPlaces, IsGuess
<1>2. ~Before(r, q) /\ ~Before(q, r)
  BY BeforeIsDone DEF GuessPlaces
<1> QED
  BY <1>1, <1>2 DEF Calm, Overlap

\* The wrong guesses of a password change by one that is counted.
LEMMA WrongGuessesChange ==
  ASSUME Typed, NEW r \in Requests, Acts(r), NEW o \in Requests
  PROVE  \/ WrongGuesses(o)' = WrongGuesses(o)
         \/ /\ WrongGuesses(o)' = WrongGuesses(o) \cup {r} /\ r \notin WrongGuesses(o)
            /\ GuessCounts(r) /\ seen[r].otp = o /\ Restores(r)
<1>1. CASE counted' = counted
  BY <1>1 DEF WrongGuesses
<1>2. CASE counted' # counted
  <2>1. /\ GuessCounts(r) /\ counted' = [counted EXCEPT ![r] = seen[r].otp] /\ pc[r] = "count"
        /\ slot' = [slot EXCEPT ![Purpose(r)] = [seen[r] EXCEPT !.attempts = @ + 1, !.until = now + OTPTTL]]
    BY <1>2 DEF Acts, Request, Guess, Begin, RequestChecksUser, RequestStores, RequestPublishes, RequestUndoes,
      GuessLoads, GuessCounts, VerifyCreates, ResetUpdates, GuessDeletes, Fail
  <2>2. counted[r] = Nil /\ Purpose(r) \in Purposes /\ slot \in [Purposes -> Payload \cup {Nil}]
    BY <2>1, SeenPayload DEF Typed, TypeOK, Matches, MatchOf
  <2>3. counted'[r] = seen[r].otp /\ \A q \in Requests \ {r} : counted'[q] = counted[q]
    BY <2>1 DEF Typed, TypeOK
  <2>4. slot'[Purpose(r)] = [seen[r] EXCEPT !.attempts = @ + 1, !.until = now + OTPTTL]
    BY <2>1, <2>2
  <2>5. Restores(r)
    BY <2>1, <2>3, <2>4, CountedPayload DEF Restores
  <2> QED
    BY <2>1, <2>2, <2>3, <2>5, NilIsNothing DEF WrongGuesses
<1> QED
  BY <1>1, <1>2

\* A guess that finds a password's payload good finds it with all attempts counted.
LEMMA GuessFinds ==
  ASSUME Typed, Calm, NEW r \in Requests, NEW o \in Requests, CountOf(o), GuessLoads(r),
         seen'[r] # Nil, seen'[r].otp = o
  PROVE  seen'[r].attempts = Cardinality(WrongGuesses(o)) /\ seen'[r].attempts < MaxAttempts
<1>1. /\ seen'[r] = slot[Purpose(r)] /\ pc[r] = "load" /\ slot[Purpose(r)] # Nil
      /\ Good(slot[Purpose(r)])
  BY DEF GuessLoads, Found, Return, Typed, TypeOK
<1>2. Purpose(r) \in Purposes
  BY <1>1, CallOf
<1> QED
  BY <1>1, <1>2 DEF CountOf, Good

LEMMA InTimeStays ==
  ASSUME Typed, NEW r \in Requests, Acts(r), NEW o \in Requests, NEW q \in Requests,
         IsFiniteSet(WrongGuesses(o)), InTime(q, o), since'[q] = since[q]
  PROVE  InTime(q, o)'
<1>1. CASE WrongGuesses(o)' = WrongGuesses(o)
  BY <1>1 DEF InTime, Before
<1>2. CASE WrongGuesses(o)' = WrongGuesses(o) \cup {r} /\ GuessCounts(r)
  <2>1. ~Before(r, q)
    BY <1>2, BeforeIsDone DEF GuessCounts
  <2> QED
    BY <1>2, <2>1 DEF InTime, Before
<1> QED
  BY <1>1, <1>2, WrongGuessesChange

LEMMA CountsKept ==
  ASSUME Typed, CountsKnown, NEW r \in Requests, Acts(r), NEW o \in Requests
  PROVE  CountOf(o)'
<1>1. Typed' /\ CountOf(o)
  BY NextTyped DEF Next, Acts, CountsKnown
<1>2. /\ IsFiniteSet(WrongGuesses(o)')
      /\ WrongGuesses(o)' # {} => Made(o)'
      /\ \A q \in WrongGuesses(o)' : IsGuess(q)'
  <2>1. ASSUME NEW q \in Requests, IsGuess(q)
        PROVE  IsGuess(q)'
    BY <2>1, CallsStay DEF IsGuess
  <2>2. CASE WrongGuesses(o)' = WrongGuesses(o)
    BY <1>1, <2>1, <2>2, MadeStays DEF CountOf, WrongGuesses
  <2>3. CASE WrongGuesses(o)' = WrongGuesses(o) \cup {r} /\ GuessCounts(r) /\ seen[r].otp = o
    <3>1. Made(o) /\ IsGuess(r)
      BY <2>3, SeenPayload DEF GuessCounts, IsGuess, Typed, Matches, MatchOf
    <3>2. IsFiniteSet(WrongGuesses(o)')
      BY <1>1, <2>3, FS_AddElement DEF CountOf
    <3> QED
      BY <1>1, <2>1, <2>3, <3>1, <3>2, MadeStays DEF CountOf, WrongGuesses
  <2> QED
    BY <2>2, <2>3, WrongGuessesChange
<1>3. ASSUME Calm'
      PROVE  /\ \A p \in Purposes : slot'[p] # Nil /\ slot'[p].otp = o =>
                   slot'[p].attempts = Cardinality(WrongGuesses(o)')
             /\ \A q \in Requests : pc'[q] = "count" /\ seen'[q].otp = o =>
                   /\ seen'[q].attempts = Cardinality(WrongGuesses(o)')
                   /\ seen'[q].attempts < MaxAttempts
             /\ Cardinality(WrongGuesses(o)') <= MaxAttempts
  <2>1. Calm
    BY <1>3, CalmBefore
  <2>2. CASE WrongGuesses(o)' = WrongGuesses(o)
    <3>1. ASSUME NEW p \in Purposes, slot'[p] # Nil, slot'[p].otp = o
          PROVE  slot'[p].attempts = Cardinality(WrongGuesses(o))
      <4>1. CASE slot'[p] = slot[p]
        BY <1>1, <2>1, <3>1, <4>1 DEF CountOf
      <4>2. CASE p = Purpose(r) /\ Stores(r)
        <5>1. r = o /\ pc[r] = "store" /\ slot'[p].attempts = 0
          BY <3>1, <4>2 DEF Stores, RequestStores
        <5>2. WrongGuesses(o) = {}
          BY <1>1, <5>1 DEF CountOf, Made
        <5> QED
          BY <5>1, <5>2, FS_EmptySet
      <4>3. ~(p = Purpose(r) /\ Restores(r))
        <5>1. Restores(r) => counted'[r] = o \/ slot'[Purpose(r)].otp # o
          BY DEF Restores
        <5>2. Restores(r) => pc[r] = "count" /\ counted[r] = Nil
          BY DEF Restores, GuessCounts, Typed, Matches, MatchOf
        <5>3. p = Purpose(r) /\ Restores(r) => FALSE
          BY <2>2, <3>1, <5>1, <5>2, NilIsNothing DEF WrongGuesses
        <5> QED
          BY <5>3
      <4> QED
        BY <3>1, <4>1, <4>2, <4>3, SlotChanges DEF Empties
    <3>2. ASSUME NEW q \in Requests, pc'[q] = "count", seen'[q].otp = o
          PROVE  seen'[q].attempts = Cardinality(WrongGuesses(o)) /\ seen'[q].attempts < MaxAttempts
      <4>1. CASE q # r
        BY <1>1, <2>1, <3>2, <4>1, ActsAlone DEF CountOf
      <4>2. CASE q = r
        <5>1. GuessLoads(r)
          BY <3>2, <4>2 DEF Typed, TypeOK, Acts, Request, Guess, Begin, RequestChecksUser, RequestStores,
            RequestPublishes, RequestUndoes, GuessCounts, VerifyCreates, ResetUpdates, GuessDeletes, Fail,
            Goto, Return
        <5>2. seen'[r] # Nil
          BY <1>1, <3>2, <4>2 DEF Typed, Matches, MatchOf
        <5> QED
          BY <1>1, <2>1, <3>2, <4>2, <5>1, <5>2, GuessFinds
      <4> QED
        BY <4>1, <4>2
    <3> QED
      BY <1>1, <2>1, <2>2, <3>1, <3>2 DEF CountOf
  <2>3. CASE /\ WrongGuesses(o)' = WrongGuesses(o) \cup {r} /\ r \notin WrongGuesses(o)
             /\ GuessCounts(r) /\ seen[r].otp = o /\ Restores(r)
    <3>1. Cardinality(WrongGuesses(o)') = Cardinality(WrongGuesses(o)) + 1
      BY <1>1, <2>3, FS_AddElement DEF CountOf
    <3>2. pc[r] = "count" /\ pc'[r] = "done"
      BY <2>3 DEF GuessCounts, Return, Typed, TypeOK
    <3>3. seen[r].attempts = Cardinality(WrongGuesses(o)) /\ seen[r].attempts < MaxAttempts
      BY <1>1, <2>1, <2>3, <3>2 DEF CountOf
    <3>4. Cardinality(WrongGuesses(o)) \in Nat /\ MaxAttempts \in Nat
      BY <1>1, FS_CardinalityType, PasswordsAssumption DEF CountOf
    <3>5. Cardinality(WrongGuesses(o)') <= MaxAttempts
      BY <3>1, <3>3, <3>4
    <3>6. ASSUME NEW p \in Purposes, slot'[p] # Nil, slot'[p].otp = o
          PROVE  slot'[p].attempts = Cardinality(WrongGuesses(o)')
      <4>1. slot'[Purpose(r)] # Nil /\ slot'[Purpose(r)].otp = o /\ Purpose(r) \in Purposes
            /\ slot'[Purpose(r)].attempts = seen[r].attempts + 1
        BY <2>3, <3>2, SeenPayload, PayloadFields DEF Restores
      <4>2. p = Purpose(r)
        BY <1>1, <3>6, <4>1 DEF Typed, Slots, Sound, Purpose
      <4> QED
        BY <3>1, <3>3, <4>1, <4>2
    <3>7. \A q \in Requests : pc'[q] # "count"
      <4>1. \A q \in Requests : pc[q] = "count" => q = r
        BY <2>1, <3>2, GuessesApart DEF GuessPlaces
      <4> QED
        BY <3>2, <4>1, ActsAlone
    <3> QED
      BY <3>5, <3>6, <3>7
  <2> QED
    BY <2>2, <2>3, WrongGuessesChange
<1>4. ASSUME Calm', NEW q \in Requests,
             (pc'[q] \in {"write", "delete"} /\ seen'[q].otp = o) \/ Uses(q, o)'
      PROVE  InTime(q, o)'
  <2>1. Calm /\ IsFiniteSet(WrongGuesses(o))
    BY <1>1, <1>4, CalmBefore DEF CountOf
  <2>2. ~Begin(r) \/ q # r
    BY <1>1, <1>4, ActsAlone DEF Begin, Goto, Uses, IsGuess, Typed, TypeOK, Matches, MatchOf
  <2>3. since'[q] = since[q]
    BY <2>2, ActsAlone
  <2>4. CASE (pc[q] \in {"write", "delete"} /\ seen[q].otp = o) \/ Uses(q, o)
    BY <1>1, <2>1, <2>3, <2>4, InTimeStays DEF CountOf
  <2>5. CASE ~((pc[q] \in {"write", "delete"} /\ seen[q].otp = o) \/ Uses(q, o))
    <3>1. ~Uses(q, o)'
      <4>1. Uses(q, o)' => q = r /\ GuessDeletes(r) /\ seen[r].otp = o
        BY <2>5, UseBegins
      <4> QED
        BY <2>5, <4>1 DEF GuessDeletes
    <3>2. q = r
      BY <1>4, <2>5, <3>1, ActsAlone
    <3>3. GuessLoads(r)
      BY <1>4, <2>5, <3>1, <3>2 DEF Typed, TypeOK, Acts, Request, Guess, Begin, RequestChecksUser, RequestStores,
        RequestPublishes, RequestUndoes, GuessCounts, VerifyCreates, ResetUpdates, GuessDeletes, Fail,
        Goto, Return
    <3>4. seen'[r] # Nil /\ seen'[r].otp = o
      BY <1>1, <1>4, <3>1, <3>2 DEF Typed, Matches, MatchOf
    <3>5. Cardinality(WrongGuesses(o)) < MaxAttempts
      BY <1>1, <2>1, <3>3, <3>4, GuessFinds
    <3> QED
      BY <2>1, <2>3, <3>5, InTimeStays DEF InTime
  <2> QED
    BY <2>4, <2>5
<1> QED
  BY <1>2, <1>3, <1>4 DEF CountOf

LEMMA NextCounts ==
  ASSUME Typed, CountsKnown, [Next]_vars
  PROVE  CountsKnown'
<1>1. ASSUME NEW o \in Requests
      PROVE  CountOf(o)'
  <2>1. CASE \E r \in Requests : Acts(r)
    BY <2>1, CountsKept
  <2>2. CASE Rests
    <3>1. UNCHANGED <<slot, counted, call, pc, seen, since, answer>>
      BY <2>2, RestsKeeps
    <3>2. WrongGuesses(o)' = WrongGuesses(o) /\ Calm' = Calm
      BY <3>1 DEF WrongGuesses, Calm, IsGuess, Overlap, Before
    <3>3. \A q \in Requests : (InTime(q, o) => InTime(q, o)') /\ (Uses(q, o)' => Uses(q, o))
      BY <3>1, <3>2 DEF InTime, Before, Uses, IsGuess
    <3>4. CountOf(o)
      BY DEF CountsKnown
    <3> QED
      BY <3>1, <3>2, <3>3, <3>4 DEF CountOf, Made, IsGuess
  <2> QED
    BY <2>1, <2>2 DEF Next, Acts, Rests
<1> QED
  BY <1>1 DEF CountsKnown

\* AUTH_OTP_MAX_ATTEMPTS bounds the wrong guesses at a password that are made
\* one after another and written back (verifyOTPPayload), and after the last of
\* them the password itself is refused.
THEOREM AttemptsAreLimitedHolds == Spec => []AttemptsAreLimited
<1>1. Typed /\ CountsKnown /\ [Next]_vars => CountsKnown'
  BY NextCounts
<1>2. Typed /\ CountsKnown => AttemptsAreLimited
  BY CountsSuffice
<1> QED
  BY <1>1, <1>2, TypedHolds, InitCounts, PTL DEF Spec

-----------------------------------------------------------------------------
(* Sums over a stretch of time.                                            *)

Over(f, a, b) == SumFunctionOnSet(f, a..b)

LEMMA StretchIsFinite ==
  ASSUME NEW N \in Nat, NEW f \in [0..N -> Nat], NEW a \in Nat, NEW b \in Int, b <= N
  PROVE  IsFiniteSet(a..b) /\ \A t \in a..b : f[t] \in Nat
<1>1. IsFiniteSet(a..b)
  BY FS_Interval
<1>2. \A t \in a..b : t \in 0..N
  OBVIOUS
<1> QED
  BY <1>1, <1>2

LEMMA OverIsNatural ==
  ASSUME NEW N \in Nat, NEW f \in [0..N -> Nat], NEW a \in Nat, NEW b \in Int, b <= N
  PROVE  /\ Over(f, a, b) \in Nat /\ \A t \in a..b : f[t] <= Over(f, a, b)
         /\ b < a => Over(f, a, b) = 0
<1>1. Over(f, a, b) \in Nat /\ \A t \in a..b : f[t] <= Over(f, a, b)
  BY StretchIsFinite, SumOfNaturals DEF Over
<1>2. b < a => a..b = {}
  OBVIOUS
<1> QED
  BY <1>1, <1>2, SumEmpty DEF Over

LEMMA OverSplits ==
  ASSUME NEW N \in Nat, NEW f \in [0..N -> Nat], NEW a \in Nat, NEW b \in Int, b <= N,
         NEW m \in Nat, a <= m, m <= b + 1
  PROVE  Over(f, a, b) = Over(f, a, m - 1) + Over(f, m, b)
<1>1. a..b = (a..(m - 1)) \cup (m..b) /\ (a..(m - 1)) \cap (m..b) = {}
  OBVIOUS
<1>2. /\ IsFiniteSet(a..(m - 1)) /\ IsFiniteSet(m..b)
      /\ \A t \in (a..(m - 1)) \cup (m..b) : f[t] \in Int
  <2>1. m - 1 <= N /\ m - 1 \in Int
    OBVIOUS
  <2>2. IsFiniteSet(a..(m - 1)) /\ IsFiniteSet(m..b)
    <3>1. PICK k \in Int : k = m - 1
      BY <2>1
    <3>2. IsFiniteSet(a..k)
      BY FS_Interval
    <3>3. IsFiniteSet(m..b)
      BY FS_Interval
    <3> QED
      BY <3>1, <3>2, <3>3
  <2>3. \A t \in a..b : f[t] \in Nat
    BY StretchIsFinite
  <2> QED
    BY <1>1, <2>2, <2>3
<1> DEFINE R == a..(m - 1)
           S == m..b
<1> HIDE DEF R, S
<1>3. SumFunctionOnSet(f, R \cup S) = SumFunctionOnSet(f, R) + SumFunctionOnSet(f, S)
  BY <1>1, <1>2, SumSplits DEF R, S
<1> QED
  BY <1>1, <1>3 DEF Over, R, S

LEMMA OverPart ==
  ASSUME NEW N \in Nat, NEW f \in [0..N -> Nat], NEW a \in Nat, NEW b \in Int, b <= N,
         NEW c \in Nat, NEW d \in Int, a <= c, d <= b
  PROVE  Over(f, c, d) <= Over(f, a, b)
<1>1. CASE d < c
  <2>1. d <= N
    OBVIOUS
  <2>2. Over(f, c, d) = 0 /\ Over(f, a, b) \in Nat
    BY <1>1, <2>1, OverIsNatural
  <2> QED
    BY <2>2
<1>2. CASE c <= d
  <2>1. Over(f, a, b) = Over(f, a, c - 1) + Over(f, c, b)
    BY <1>2, OverSplits
  <2>2. Over(f, c, b) = Over(f, c, d) + Over(f, d + 1, b)
    <3>1. PICK e \in Nat : e = d + 1 /\ c <= e /\ e <= b + 1 /\ e - 1 = d
      BY <1>2
    <3>2. Over(f, c, b) = Over(f, c, e - 1) + Over(f, e, b)
      <4>1. c <= e /\ e <= b + 1 /\ b <= N
        BY <3>1
      <4> QED
        BY <4>1, OverSplits
    <3> QED
      BY <3>1, <3>2
  <2>3. Over(f, a, c - 1) \in Nat /\ Over(f, d + 1, b) \in Nat /\ Over(f, c, d) \in Nat
    <3>1. c - 1 \in Int /\ c - 1 <= N /\ d + 1 \in Nat /\ d <= N
      BY <1>2
    <3> QED
      BY <3>1, OverIsNatural
  <2> QED
    BY <2>1, <2>2, <2>3
<1> QED
  BY <1>1, <1>2

LEMMA OverNothing ==
  ASSUME NEW N \in Nat, NEW f \in [0..N -> Nat], NEW a \in Nat, NEW b \in Int, b <= N,
         \A t \in a..b : f[t] = 0
  PROVE  Over(f, a, b) = 0
<1>0. IsFiniteSet(a..b)
  BY FS_Interval
<1>1. PICK S : S = a..b /\ IsFiniteSet(S) /\ \A x \in S : f[x] = 0
  BY <1>0
<1>2. SumFunctionOnSet(f, S) = 0 * Cardinality(S) /\ Cardinality(S) \in Nat
  BY <1>1, SumConstant, FS_CardinalityType
<1> QED
  BY <1>1, <1>2 DEF Over

LEMMA OverSame ==
  ASSUME NEW N \in Nat, NEW f \in [0..N -> Nat], NEW g \in [0..N -> Nat],
         NEW a \in Nat, NEW b \in Int, b <= N, \A t \in a..b : g[t] = f[t]
  PROVE  Over(g, a, b) = Over(f, a, b)
<1>1. PICK S : S = a..b /\ IsFiniteSet(S) /\ \A x \in S : f[x] \in Int /\ g[x] = f[x]
  BY StretchIsFinite
<1>2. SumFunctionOnSet(g, S) = SumFunctionOnSet(f, S)
  BY <1>1, SumEqual
<1> QED
  BY <1>1, <1>2 DEF Over

IsOneMore(f, g, S, y) ==
  /\ IsFiniteSet(S) /\ y \in S /\ g[y] = f[y] + 1
  /\ \A x \in S : f[x] \in Int /\ g[x] \in Int /\ (x # y => g[x] = f[x])

LEMMA OneMore ==
  ASSUME NEW f, NEW g, NEW S, NEW y, IsOneMore(f, g, S, y)
  PROVE  SumFunctionOnSet(g, S) = SumFunctionOnSet(f, S) + 1
<1>1. SumFunctionOnSet(g, S) = SumFunctionOnSet(f, S) + g[y] - f[y] /\ SumFunctionOnSet(f, S) \in Int
  BY SumChanges DEF IsOneMore
<1>2. f[y] \in Int /\ g[y] = f[y] + 1
  BY DEF IsOneMore
<1> QED
  BY <1>1, <1>2

Counts(f, g, t) == g = [f EXCEPT ![t] = @ + 1]
Later(f, g, t) == g = f \/ Counts(f, g, t)

LEMMA OverOneMore ==
  ASSUME NEW N \in Nat, NEW f \in [0..N -> Nat], NEW g \in [0..N -> Nat],
         NEW a \in Nat, NEW b \in Int, b <= N, NEW t \in a..b,
         Counts(f, g, t)
  PROVE  Over(g, a, b) = Over(f, a, b) + 1
<1>1. PICK S : /\ S = a..b /\ IsFiniteSet(S) /\ t \in S
               /\ \A x \in S : f[x] \in Int /\ g[x] \in Int /\ (x # t => g[x] = f[x])
  BY SMTT(30), StretchIsFinite DEF Counts
<1>2. g[t] = f[t] + 1
  BY DEF Counts
<1>3. IsOneMore(f, g, S, t)
  BY <1>1, <1>2 DEF IsOneMore
<1>4. SumFunctionOnSet(g, S) = SumFunctionOnSet(f, S) + 1
  BY <1>3, OneMore
<1> QED
  BY <1>1, <1>4 DEF Over

\* What is let through at a time adds to every stretch that time is in, and to no
\* other.
LEMMA OverAfter ==
  ASSUME NEW N \in Nat, NEW f \in [0..N -> Nat], NEW g \in [0..N -> Nat], NEW t \in 0..N,
         Later(f, g, t), NEW a \in Nat, NEW b \in Int, b <= N
  PROVE  /\ Over(f, a, b) <= Over(g, a, b) /\ Over(g, a, b) <= Over(f, a, b) + 1
         /\ t \notin a..b => Over(g, a, b) = Over(f, a, b)
<1>1. Over(f, a, b) \in Nat
  BY OverIsNatural
<1>2. CASE t \notin a..b
  <2>1. \A x \in a..b : g[x] = f[x]
    BY <1>2 DEF Later, Counts
  <2>2. Over(g, a, b) = Over(f, a, b)
    BY <2>1, OverSame
  <2> QED
    BY <1>1, <1>2, <2>2
<1>3. CASE g # f /\ t \in a..b
  <2>1. PICK y \in a..b : y = t
    BY <1>3
  <2>2. Counts(f, g, y)
    BY <1>3, <2>1 DEF Later
  <2>3. Over(g, a, b) = Over(f, a, b) + 1
    BY <2>2, OverOneMore
  <2> QED
    BY SMTT(30), <1>1, <1>3, <2>3
<1>4. CASE g = f
  BY <1>1, <1>4
<1> QED
  BY <1>2, <1>3, <1>4

\* A window that reaches into a counter's is the end of the one before and the
\* counter's own.
LEMMA TwoWindows ==
  ASSUME NEW N \in Nat, NEW g \in [0..N -> Nat], NEW w \in Nat \ {0}, NEW m \in Nat,
         NEW s \in Nat, NEW c \in Nat, s <= c, c <= N,
         \A x \in 0..N : x > c => g[x] = 0,
         Over(g, s, c) <= m,
         \A x \in 0..(s - 1) : x > s - w => Over(g, x, s - 1) <= m,
         NEW t \in Nat, t <= c, NEW e \in Nat, e = t + w - 1, c <= e, e <= N
  PROVE  Over(g, t, e) <= 2 * m
<1>1. Over(g, t, e) = Over(g, t, c)
  <2>1. PICK d \in Nat : d = c + 1 /\ d - 1 = c
    OBVIOUS
  <2>2. Over(g, t, e) = Over(g, t, d - 1) + Over(g, d, e)
    <3>1. t <= d /\ d <= e + 1
      BY <2>1
    <3> QED
      BY <3>1, OverSplits
  <2>3. Over(g, d, e) = 0
    <3>1. \A x \in d..e : g[x] = 0
      BY <2>1
    <3> QED
      BY <3>1, OverNothing
  <2>4. Over(g, t, c) \in Nat
    <3>1. t \in Nat /\ c \in Int /\ c <= N
      OBVIOUS
    <3> QED
      BY <3>1, OverIsNatural
  <2> QED
    BY <2>1, <2>2, <2>3, <2>4
<1>2. CASE s <= t
  <2>1. Over(g, t, c) <= Over(g, s, c)
    BY <1>2, OverPart
  <2>2. Over(g, t, c) \in Nat
    <3>1. t \in Nat /\ c \in Int /\ c <= N
      OBVIOUS
    <3> QED
      BY <3>1, OverIsNatural
  <2>3. Over(g, s, c) \in Nat
    <3>1. s \in Nat /\ c \in Int /\ c <= N
      OBVIOUS
    <3> QED
      BY <3>1, OverIsNatural
  <2> QED
    BY <1>1, <2>1, <2>2, <2>3
<1>3. CASE t < s
  <2>1. Over(g, t, c) = Over(g, t, s - 1) + Over(g, s, c)
    <3>1. t <= s /\ s <= c + 1
      BY <1>3
    <3> QED
      BY <3>1, OverSplits
  <2>2. t \in 0..(s - 1) /\ t > s - w
    BY <1>3
  <2>3. Over(g, t, s - 1) <= m
    BY <2>2
  <2>4. PICK d \in Int : d = s - 1 /\ d <= N
    OBVIOUS
  <2>5. Over(g, t, d) \in Nat
    BY <2>4, OverIsNatural
  <2>6. Over(g, s, c) \in Nat
    BY OverIsNatural
  <2> QED
    BY <1>1, <2>1, <2>3, <2>4, <2>5, <2>6
<1> QED
  BY <1>2, <1>3

-----------------------------------------------------------------------------
(* The limits.                                                             *)

\* The counter, when there is one, and when what it counted got through.
Counter ==
  /\ limiter \in Limiters
  /\ {count, until, clock, started, unsaid} \subseteq Nat
  /\ clock <= MaxClock /\ started <= clock
  /\ through \in [0..MaxClock -> Nat]
  /\ count > 0 => until = started + Window
  /\ \A t \in 0..MaxClock : count = 0 \/ t > clock \/ t >= until => through[t] = 0

\* What it counted got through, got no answer, or was refused.
Counted ==
  count > 0 =>
    /\ Over(through, started, clock) <= Maximum /\ Over(through, started, clock) <= count
    /\ count <= Maximum => Over(through, started, clock) + unsaid >= count
    /\ count > Maximum => Over(through, started, clock) + unsaid >= Maximum

\* Less than a window before it was made there was but one other.
OneBefore ==
  count > 0 =>
    \A t \in 0..(started - 1) :
      t > started - Window => Over(through, t, started - 1) <= Maximum

Stretches ==
  \A t \in 0..(MaxClock - Window + 1) : Over(through, t, t + Window - 1) <= 2 * Maximum

\* The counter that refused is replaced, or gone by the time it gave.
Refusals ==
  /\ count = 0 => refused = {}
  /\ \A r \in refused :
       /\ {r.at, r.back, r.since, r.unsaid} \subseteq Nat /\ r.at <= clock
       /\ Over(through, r.since, r.at) + r.unsaid >= Maximum
       /\ started > r.at \/ (r.at < until /\ until <= r.back)

DoorInv == Counter /\ Counted /\ OneBefore /\ Stretches /\ Refusals

LEMMA DoorNumbers ==
  Window \in Nat \ {0} /\ Second \in Nat \ {0} /\ MaxClock \in Nat /\ MaxAbove \in Nat
  BY AuthRouterAssumption

LEMMA MaximumIsPositive ==
  ASSUME limiter \in Limiters
  PROVE  Maximum \in Nat \ {0}
<1>1. \A h \in DOMAIN AuthRoutes : AuthRoutes[h].maximum \in Nat \ {0}
  BY DEF AuthRoutes, Limited
<1>2. \E h \in DOMAIN AuthRoutes : AuthRoutes[h].limit = limiter
  BY AuthRouterAssumption
<1>3. (CHOOSE h \in DOMAIN AuthRoutes : AuthRoutes[h].limit = limiter) \in DOMAIN AuthRoutes
  BY <1>2
<1> QED
  BY <1>1, <1>3 DEF Maximum

LEMMA DoorInvMeans ==
  ASSUME DoorInv
  PROVE  LimitsHold
<1>1. \A t \in 0..(MaxClock - Window + 1) : Through(t, t + Window - 1) <= 2 * Maximum
  BY DEF DoorInv, Stretches, Through, Over
<1>2. \A r \in refused : Through(r.since, r.at) + r.unsaid >= Maximum
  BY DEF DoorInv, Refusals, Through, Over
<1>3. count > 0 => until <= started + Window
  BY DoorNumbers DEF DoorInv, Counter
<1>4. \A r \in refused : clock >= r.back => clock >= until \/ started > r.at
  BY DEF DoorInv, Refusals, Counter
<1> QED
  BY <1>1, <1>2, <1>3, <1>4 DEF LimitsHold

LEMMA DoorStarts == DoorInit => DoorInv
<1> SUFFICES ASSUME DoorInit PROVE DoorInv
  OBVIOUS
<1> USE DoorNumbers
<1>1. Counter
  BY DEF DoorInit, Counter
<1>2. Counted /\ OneBefore /\ Refusals
  BY DEF DoorInit, Counted, OneBefore, Refusals
<1>3. Stretches
  <2> SUFFICES ASSUME NEW t \in 0..(MaxClock - Window + 1)
               PROVE  Over(through, t, t + Window - 1) <= 2 * Maximum
    BY DEF Stretches
  <2>1. PICK e \in Nat : e = t + Window - 1 /\ e <= MaxClock
    OBVIOUS
  <2>2. through \in [0..MaxClock -> Nat] /\ \A x \in t..e : through[x] = 0
    BY <2>1 DEF DoorInit
  <2>3. Over(through, t, e) = 0
    BY <2>1, <2>2, OverNothing
  <2>4. Maximum \in Nat
    BY MaximumIsPositive DEF DoorInit
  <2> QED
    BY <2>1, <2>3, <2>4
<1> QED
  BY <1>1, <1>2, <1>3 DEF DoorInv

-----------------------------------------------------------------------------
(* A request that is counted.                                              *)

Fresh == count = 0 \/ clock >= until

\* What the script counted gets through, is refused, or has no answer.
Answer ==
  \/ Counts(through, through', clock) /\ count' <= Maximum /\ unsaid' = Unsaid
  \/ through' = through /\ count' > Maximum /\ unsaid' = Unsaid
  \/ through' = through /\ unsaid' = Unsaid + 1

Hit == rateLimitScript /\ UNCHANGED <<limiter, clock>> /\ Answer

LEMMA HitMakes ==
  ASSUME DoorInv, Hit, Fresh
  PROVE  /\ count' = 1 /\ until' = clock + Window /\ started' = clock
         /\ unsaid' \in Nat /\ (through' = through /\ count' <= Maximum => unsaid' >= 1)
<1>1. count' = 1 /\ until' = clock + Window /\ started' = clock
  BY DEF Hit, rateLimitScript, Fresh
<1>2. Unsaid \in Nat /\ unsaid \in Nat
  BY DEF Unsaid, DoorInv, Counter
<1>3. \/ unsaid' = Unsaid /\ (through' # through \/ ~(count' <= Maximum))
      \/ unsaid' = Unsaid + 1
  <2>1. CASE Counts(through, through', clock) /\ unsaid' = Unsaid
    <3>1. through[clock] \in Nat /\ clock \in 0..MaxClock /\ through \in [0..MaxClock -> Nat]
      BY DoorNumbers DEF DoorInv, Counter
    <3>2. through'[clock] = through[clock] + 1
      BY <2>1, <3>1 DEF Counts
    <3>3. through' # through
      <4>1. PICK n \in Nat : n = through[clock] /\ n + 1 = through'[clock] /\ n # n + 1
        BY <3>1, <3>2
      <4> QED
        BY <4>1
    <3> QED
      BY <2>1, <3>3
  <2>2. limiter \in Limiters /\ Maximum \in Nat
    BY MaximumIsPositive DEF DoorInv, Counter
  <2> QED
    BY <1>1, <2>1, <2>2 DEF Hit, Answer
<1> QED
  BY <1>1, <1>2, <1>3

LEMMA HitCounts ==
  ASSUME DoorInv, Hit, ~Fresh
  PROVE  /\ count > 0 /\ clock < until
         /\ count' = count + 1 /\ until' = until /\ started' = started /\ Unsaid = unsaid
<1>1. count \in Nat /\ count # 0 /\ clock \in Nat /\ until \in Nat /\ ~(clock >= until)
  BY DEF DoorInv, Counter, Fresh
<1>2. count' = count + 1 /\ until' = until /\ started' = started
  BY <1>1 DEF Hit, rateLimitScript
<1>3. Unsaid = unsaid
  BY <1>1, <1>2 DEF Unsaid
<1> QED
  BY <1>1, <1>2, <1>3

LEMMA HitLater ==
  ASSUME DoorInv, Hit
  PROVE  /\ Later(through, through', clock)
         /\ through \in [0..MaxClock -> Nat] /\ through' \in [0..MaxClock -> Nat]
         /\ clock \in 0..MaxClock /\ clock' = clock /\ limiter' = limiter
         /\ Maximum \in Nat \ {0} /\ Maximum' = Maximum
<1>1. through \in [0..MaxClock -> Nat] /\ clock \in 0..MaxClock
  BY DoorNumbers DEF DoorInv, Counter
<1>2. Later(through, through', clock)
  BY DEF Hit, Answer, Later
<1>3. through' \in [0..MaxClock -> Nat]
  BY <1>1, <1>2 DEF Later, Counts
<1>4. clock' = clock /\ limiter' = limiter
  BY DEF Hit
<1>5. Maximum \in Nat \ {0} /\ Maximum' = Maximum
  <2>1. Maximum \in Nat \ {0}
    BY MaximumIsPositive DEF DoorInv, Counter
  <2> QED
    BY <1>4, <2>1 DEF Maximum
<1> QED
  BY <1>1, <1>2, <1>3, <1>4, <1>5

\* What a request that is counted adds to a stretch of time.
LEMMA HitAdds ==
  ASSUME DoorInv, Hit, NEW a \in Nat, NEW b \in Int, b <= MaxClock
  PROVE  /\ Over(through, a, b) \in Nat /\ Over(through', a, b) \in Nat
         /\ Over(through, a, b) <= Over(through', a, b)
         /\ clock \in a..b /\ Counts(through, through', clock)
              => Over(through', a, b) = Over(through, a, b) + 1
         /\ clock \notin a..b => Over(through', a, b) = Over(through, a, b)
<1>0. PICK N \in Nat : N = MaxClock
  BY DoorNumbers
<1>1. PICK f \in [0..N -> Nat], g \in [0..N -> Nat], c \in 0..N :
        f = through /\ g = through' /\ c = clock /\ Later(f, g, c)
  BY <1>0, HitLater
<1>2. b <= N
  BY <1>0
<1>3. Over(f, a, b) \in Nat
  BY <1>2, OverIsNatural
<1>4. Over(g, a, b) \in Nat
  BY <1>2, OverIsNatural
<1>5. /\ Over(f, a, b) <= Over(g, a, b)
      /\ c \notin a..b => Over(g, a, b) = Over(f, a, b)
  <2>1. Later(f, g, c)
    BY <1>1
  <2> QED
    <3>1. ASSUME c \notin a..b
          PROVE  Over(g, a, b) = Over(f, a, b)
      <4>1. \A x \in a..b : g[x] = f[x]
        BY <1>2, <2>1, <3>1 DEF Later, Counts
      <4> QED
        BY <1>2, <4>1, OverSame
    <3>2. Over(f, a, b) <= Over(g, a, b)
      BY <1>2, <2>1, OverAfter
    <3> QED
      BY <3>1, <3>2
<1>6. ASSUME c \in a..b, Counts(f, g, c)
      PROVE  Over(g, a, b) = Over(f, a, b) + 1
  BY <1>2, <1>6, OverOneMore
<1> QED
  BY <1>1, <1>3, <1>4, <1>5, <1>6

LEMMA CounterKept ==
  ASSUME DoorInv, Hit
  PROVE  Counter' /\ count' > 0
<1>1. /\ clock' = clock /\ limiter' = limiter /\ clock \in 0..MaxClock
      /\ through \in [0..MaxClock -> Nat] /\ through' \in [0..MaxClock -> Nat]
      /\ \A t \in 0..MaxClock : t # clock => through'[t] = through[t]
  BY HitLater DEF Later, Counts
<1>2. Counter
  BY DEF DoorInv
<1>3. CASE Fresh
  <2>1. count' = 1 /\ until' = clock + Window /\ started' = clock /\ unsaid' \in Nat
    BY <1>3, HitMakes
  <2>2. \A t \in 0..MaxClock : t > clock \/ t >= clock + Window => through'[t] = 0
    BY <1>1, <1>2, DoorNumbers DEF Counter
  <2> QED
    BY <1>1, <1>2, <2>1, <2>2, DoorNumbers DEF Counter
<1>4. CASE ~Fresh
  <2>1. /\ count > 0 /\ clock < until
        /\ count' = count + 1 /\ until' = until /\ started' = started /\ Unsaid = unsaid
    BY <1>4, HitCounts
  <2>2. unsaid' \in Nat
    BY <1>2, <2>1 DEF Hit, Answer, Counter
  <2>3. \A t \in 0..MaxClock : t > clock \/ t >= until => through'[t] = 0
    BY SMTT(30), <1>1, <1>2, <2>1, DoorNumbers DEF Counter
  <2> QED
    BY SMTT(30), <1>1, <1>2, <2>1, <2>2, <2>3, DoorNumbers DEF Counter
<1> QED
  BY <1>3, <1>4

LEMMA CountedKept ==
  ASSUME DoorInv, Hit
  PROVE  Counted'
<1>0. clock' = clock /\ Maximum' = Maximum /\ Maximum \in Nat \ {0}
  BY HitLater
<1>1. /\ Over(through', started', clock) <= Maximum
      /\ Over(through', started', clock) <= count'
      /\ count' <= Maximum => Over(through', started', clock) + unsaid' >= count'
      /\ count' > Maximum => Over(through', started', clock) + unsaid' >= Maximum
  <2>1. CASE Fresh
    <3>1. /\ count' = 1 /\ started' = clock /\ unsaid' \in Nat
          /\ through' = through /\ count' <= Maximum => unsaid' >= 1
      BY <2>1, HitMakes
    <3>2. through[clock] = 0 /\ clock \in 0..MaxClock
      BY <2>1, HitLater DEF DoorInv, Counter, Fresh
    <3>3. PICK n \in Nat : n = Over(through', clock, clock) /\ n <= 1 /\ (through' # through => n = 1)
      <4>1. PICK c \in 0..MaxClock : c = clock
        BY <3>2
      <4>2. c \in Nat /\ c \in Int /\ c <= MaxClock /\ c \in c..c
        BY DoorNumbers
      <4>3. Over(through, c, c) = 0
        <5>0. PICK N \in Nat : N = MaxClock
          BY DoorNumbers
        <5>1. PICK f \in [0..N -> Nat] : f = through
          BY <5>0, HitLater
        <5>2. c <= N /\ \A x \in c..c : f[x] = 0
          BY <3>2, <4>1, <4>2, <5>0, <5>1
        <5>3. Over(f, c, c) = 0
          BY <4>2, <5>2, OverNothing
        <5> QED
          BY <5>1, <5>3
      <4>4. /\ Over(through', c, c) \in Nat
            /\ Counts(through, through', clock) => Over(through', c, c) = Over(through, c, c) + 1
        BY <4>1, <4>2, HitAdds
      <4>5. Later(through, through', clock)
        BY HitLater
      <4> QED
        BY <4>1, <4>3, <4>4, <4>5 DEF Later
    <3> QED
      BY <1>0, <3>1, <3>3
  <2>2. CASE ~Fresh
    <3>1. count > 0 /\ count' = count + 1 /\ started' = started /\ Unsaid = unsaid
      BY <2>2, HitCounts
    <3>2. {count, unsaid, started} \subseteq Nat /\ started <= clock
      BY DEF DoorInv, Counter
    <3>3. /\ Over(through, started, clock) <= Maximum
          /\ Over(through, started, clock) <= count
          /\ count <= Maximum => Over(through, started, clock) + unsaid >= count
          /\ count > Maximum => Over(through, started, clock) + unsaid >= Maximum
      BY <3>1 DEF DoorInv, Counted
    <3>4. PICK n \in Nat, k \in Nat :
            /\ n = Over(through, started, clock) /\ k = Over(through', started, clock)
            /\ Counts(through, through', clock) => k = n + 1
            /\ through' = through => k = n
      <4>1. PICK a \in Nat, c \in Nat : a = started /\ c = clock /\ c \in a..c /\ c <= MaxClock
        BY <3>2, HitLater, DoorNumbers
      <4>2. /\ Over(through, a, c) \in Nat /\ Over(through', a, c) \in Nat
            /\ Counts(through, through', clock)
                 => Over(through', a, c) = Over(through, a, c) + 1
        BY <4>1, HitAdds
      <4> QED
        BY <4>1, <4>2
    <3>5. CASE Counts(through, through', clock) /\ count' <= Maximum /\ unsaid' = Unsaid
      BY <1>0, <3>1, <3>2, <3>3, <3>4, <3>5
    <3>6. CASE through' = through /\ count' > Maximum /\ unsaid' = Unsaid
      BY <1>0, <3>1, <3>2, <3>3, <3>4, <3>6
    <3>7. CASE through' = through /\ unsaid' = Unsaid + 1
      BY <1>0, <3>1, <3>2, <3>3, <3>4, <3>7
    <3> QED
      BY <3>5, <3>6, <3>7 DEF Hit, Answer
  <2> QED
    BY <2>1, <2>2
<1> QED
  BY <1>0, <1>1 DEF Counted

LEMMA OneBeforeKept ==
  ASSUME DoorInv, Hit
  PROVE  OneBefore'
<1>0. clock' = clock /\ Maximum' = Maximum /\ Maximum \in Nat \ {0} /\ clock \in 0..MaxClock
  BY HitLater
<1>00. started \in Nat /\ started <= clock /\ Window \in Nat \ {0} /\ MaxClock \in Nat
  BY DoorNumbers DEF DoorInv, Counter
<1>1. CASE Fresh
  <2>1. started' = clock /\ (count > 0 => clock >= started + Window)
    BY <1>1, HitMakes DEF DoorInv, Counter, Fresh
  <2> SUFFICES ASSUME NEW t \in 0..(clock - 1), t > clock - Window
               PROVE  Over(through', t, clock - 1) <= Maximum
    BY <1>0, <2>1 DEF OneBefore
  <2>2. PICK e \in Nat : e = clock - 1 /\ e <= MaxClock /\ clock \notin t..e /\ e <= clock
    BY <1>0, <1>00
  <2>3. Over(through', t, e) = Over(through, t, e) /\ Over(through, t, e) \in Nat
    BY <2>2, HitAdds
  <2>4. Over(through, t, e) <= Maximum
    <3>0. PICK N \in Nat : N = MaxClock
      BY <1>00
    <3>1. PICK f \in [0..N -> Nat] : f = through
      BY <3>0, HitLater
    <3>2. CASE count > 0
      <4>1. PICK s \in Nat, c \in Nat : s = started /\ c = clock /\ s <= t /\ e <= c /\ c <= N
        BY <1>0, <1>00, <2>1, <2>2, <3>0, <3>2
      <4>2. Over(f, t, e) <= Over(f, s, c)
        BY <4>1, OverPart
      <4>3. Over(f, s, c) <= Maximum
        BY <3>1, <3>2, <4>1 DEF DoorInv, Counted
      <4>4. Over(f, s, c) \in Nat
        <5>1. c \in Int /\ c <= N
          BY <4>1
        <5> QED
          BY <5>1, OverIsNatural
      <4> QED
        BY <1>0, <2>3, <3>1, <4>2, <4>3, <4>4
    <3>3. CASE ~(count > 0)
      <4>1. count = 0
        BY <3>3 DEF DoorInv, Counter
      <4>2. e <= N /\ \A x \in t..e : f[x] = 0
        BY <2>2, <3>0, <3>1, <4>1 DEF DoorInv, Counter
      <4>3. Over(f, t, e) = 0
        BY <4>2, OverNothing
      <4> QED
        BY <1>0, <3>1, <4>3
    <3> QED
      BY <3>2, <3>3
  <2> QED
    BY <2>2, <2>3, <2>4
<1>2. CASE ~Fresh
  <2>1. count > 0 /\ started' = started
    BY <1>2, HitCounts
  <2> SUFFICES ASSUME NEW t \in 0..(started - 1), t > started - Window
               PROVE  Over(through', t, started - 1) <= Maximum
    BY <1>0, <2>1 DEF OneBefore
  <2>2. PICK e \in Nat : e = started - 1 /\ e <= MaxClock /\ clock \notin t..e
    BY <1>0, <1>00
  <2>3. Over(through', t, e) = Over(through, t, e)
    BY <2>2, HitAdds
  <2>4. Over(through, t, started - 1) <= Maximum
    BY <2>1 DEF DoorInv, OneBefore
  <2> QED
    BY <2>2, <2>3, <2>4
<1> QED
  BY <1>1, <1>2

LEMMA StretchesKept ==
  ASSUME DoorInv, Hit
  PROVE  Stretches'
<1>0. clock' = clock /\ Maximum' = Maximum /\ Maximum \in Nat \ {0} /\ clock \in 0..MaxClock
  BY HitLater
<1>00. Counter' /\ count' > 0 /\ Counted' /\ OneBefore'
  BY CounterKept, CountedKept, OneBeforeKept
<1> SUFFICES ASSUME NEW t \in 0..(MaxClock - Window + 1)
             PROVE  Over(through', t, t + Window - 1) <= 2 * Maximum
  BY <1>0 DEF Stretches
<1>1. PICK N \in Nat : N = MaxClock
  BY DoorNumbers
<1>2. PICK w \in Nat \ {0} : w = Window
  BY DoorNumbers
<1>3. PICK e \in Nat : e = t + w - 1 /\ e <= N /\ t \in Nat
  BY <1>1, <1>2
<1>4. CASE clock \notin t..e
  <2>1. Over(through', t, e) = Over(through, t, e)
    BY <1>1, <1>3, <1>4, HitAdds
  <2>2. Over(through, t, t + Window - 1) <= 2 * Maximum
    BY DEF DoorInv, Stretches
  <2> QED
    BY <1>2, <1>3, <2>1, <2>2
<1>5. CASE clock \in t..e
  <2>1. PICK g \in [0..N -> Nat] : g = through'
    BY <1>1, HitLater
  <2>2. PICK s \in Nat, c \in Nat :
          s = started' /\ c = clock /\ s <= c /\ c <= N /\ t <= c /\ c <= e
    BY <1>0, <1>00, <1>1, <1>3, <1>5 DEF Counter
  <2>3. PICK m \in Nat : m = Maximum
    BY <1>0
  <2>4. \A x \in 0..N : x > c => g[x] = 0
    BY <1>0, <1>00, <1>1, <2>1, <2>2 DEF Counter
  <2>5. Over(g, s, c) <= m
    BY <1>0, <1>00, <2>1, <2>2, <2>3 DEF Counted
  <2>6. \A x \in 0..(s - 1) : x > s - w => Over(g, x, s - 1) <= m
    BY <1>0, <1>00, <1>2, <2>1, <2>2, <2>3 DEF OneBefore
  <2>7. Over(g, t, e) <= 2 * m
    BY <1>3, <2>2, <2>4, <2>5, <2>6, TwoWindows
  <2> QED
    BY <1>2, <1>3, <2>1, <2>3, <2>7
<1> QED
  BY <1>4, <1>5

\* The refusals there were.
RefusalsStay ==
  \A r \in refused :
    /\ {r.at, r.back, r.since, r.unsaid} \subseteq Nat /\ r.at <= clock
    /\ Over(through', r.since, r.at) + r.unsaid >= Maximum
    /\ started' > r.at \/ (r.at < until' /\ until' <= r.back)

LEMMA RefusalsKept ==
  ASSUME DoorInv, Hit
  PROVE  RefusalsStay
<1> SUFFICES ASSUME NEW r \in refused
             PROVE  /\ {r.at, r.back, r.since, r.unsaid} \subseteq Nat /\ r.at <= clock
                    /\ Over(through', r.since, r.at) + r.unsaid >= Maximum
                    /\ started' > r.at \/ (r.at < until' /\ until' <= r.back)
  BY DEF RefusalsStay
<1>0. Maximum \in Nat \ {0} /\ clock \in 0..MaxClock
  BY HitLater
<1>1. /\ count # 0
      /\ {r.at, r.back, r.since, r.unsaid} \subseteq Nat /\ r.at <= clock
      /\ Over(through, r.since, r.at) + r.unsaid >= Maximum
      /\ started > r.at \/ (r.at < until /\ until <= r.back)
  BY DEF DoorInv, Refusals
<1>2. PICK a \in Nat, b \in Nat, u \in Nat :
        a = r.since /\ b = r.at /\ u = r.unsaid /\ b <= MaxClock
  BY <1>0, <1>1, DoorNumbers
<1>3. /\ Over(through, a, b) <= Over(through', a, b)
      /\ Over(through, a, b) \in Nat /\ Over(through', a, b) \in Nat
  BY <1>2, HitAdds
<1>4. started' > r.at \/ (r.at < until' /\ until' <= r.back)
  <2>1. {started, until, clock} \subseteq Nat /\ started <= clock
    BY DEF DoorInv, Counter
  <2>2. CASE Fresh
    <3>1. started' = clock /\ clock >= until
      BY <1>1, <2>2, HitMakes DEF Fresh
    <3> QED
      BY <1>1, <2>1, <3>1
  <2>3. CASE ~Fresh
    BY <1>1, <2>3, HitCounts
  <2> QED
    BY <2>2, <2>3
<1> QED
  BY <1>0, <1>1, <1>2, <1>3, <1>4

-----------------------------------------------------------------------------
(* The steps.                                                              *)

LEMMA HitKept ==
  ASSUME DoorInv, Hit, refused' = refused
  PROVE  DoorInv'
<1>1. Counter' /\ count' > 0 /\ Counted' /\ OneBefore' /\ Stretches'
  BY CounterKept, CountedKept, OneBeforeKept, StretchesKept
<1>2. Refusals'
  <2>1. RefusalsStay /\ clock' = clock /\ Maximum' = Maximum
    BY RefusalsKept, HitLater
  <2>2. count' # 0
    BY <1>1 DEF Counter
  <2> QED
    BY <2>1, <2>2 DEF RefusalsStay, Refusals
<1> QED
  BY <1>1, <1>2 DEF DoorInv

LEMMA MaxOfTwo ==
  ASSUME NEW a \in Int, NEW b \in Int
  PROVE  Max({a, b}) \in Int /\ Max({a, b}) >= a /\ Max({a, b}) >= b
<1>1. \E x \in {a, b} : \A y \in {a, b} : x >= y
  OBVIOUS
<1> QED
  BY <1>1 DEF Max

LEMMA QuotientAndRest ==
  ASSUME NEW x \in Int, NEW w \in Nat \ {0}
  PROVE  x \div w \in Int /\ x % w \in 0..(w - 1) /\ x = w * (x \div w) + (x % w)
  OBVIOUS

\* Whoever waits that many seconds finds the counter gone.
LEMMA SecondsSuffice ==
  ASSUME NEW c \in Nat, NEW u \in Nat, NEW w \in Nat \ {0}, c <= u,
         NEW k \in Int, k = Max({1, (u - c + w - 1) \div w})
  PROVE  k >= 1 /\ c + w * k >= u
<1>1. PICK q \in Int, rest \in Int :
        /\ q = (u - c + w - 1) \div w /\ 0 <= rest /\ rest < w
        /\ u - c + w - 1 = w * q + rest
  <2>1. PICK x \in Int : x = u - c + w - 1
    OBVIOUS
  <2>2. x \div w \in Int /\ x % w \in 0..(w - 1) /\ x = w * (x \div w) + (x % w)
    BY QuotientAndRest
  <2> QED
    BY <2>1, <2>2
<1>2. k >= 1 /\ k >= q
  <2>1. k = Max({1, q})
    BY <1>1
  <2>2. Max({1, q}) >= 1 /\ Max({1, q}) >= q
    <3>1. 1 \in Int /\ q \in Int
      OBVIOUS
    <3> QED
      BY <3>1, MaxOfTwo
  <2> QED
    BY <2>1, <2>2
<1>3. w * k >= w * q /\ w * k \in Int /\ w * q \in Int
  BY <1>2
<1>4. w * q > u - c - 1
  BY <1>1, <1>3
<1> QED
  BY <1>2, <1>3, <1>4

LEMMA TooManyKept ==
  ASSUME DoorInv, TooMany
  PROVE  DoorInv'
<1>0. Hit
  BY DEF TooMany, Hit, Answer
<1>1. Counter' /\ count' > 0 /\ Counted' /\ OneBefore' /\ Stretches'
  BY <1>0, CounterKept, CountedKept, OneBeforeKept, StretchesKept
<1>2. /\ clock' = clock /\ Maximum' = Maximum /\ Maximum \in Nat \ {0}
      /\ clock \in Nat /\ count' > Maximum
  BY <1>0, HitLater, DoorNumbers DEF TooMany
<1>3. clock < until /\ until' = until /\ started' = started /\ Unsaid = unsaid /\ count' # 0
  <2>1. CASE Fresh
    BY <1>0, <1>2, <2>1, HitMakes
  <2>2. CASE ~Fresh
    <3>1. count \in Nat
      BY DEF DoorInv, Counter
    <3> QED
      BY <1>0, <2>2, <3>1, HitCounts
  <2> QED
    BY <2>1, <2>2
<1>4. PICK r : /\ refused' = {r} /\ r.at = clock /\ r.back = clock + Second * retryAfter
               /\ r.since = started /\ r.unsaid = unsaid
  <2> DEFINE told == [at |-> clock, back |-> clock + Second * retryAfter,
                      since |-> started', unsaid |-> Unsaid]
  <2>1. refused' = {told}
    BY DEF TooMany
  <2>2. /\ told.at = clock /\ told.back = clock + Second * retryAfter
        /\ told.since = started /\ told.unsaid = unsaid
    BY <1>3
  <2> HIDE DEF told
  <2> QED
    BY <2>1, <2>2
<1>5. /\ {r.at, r.back, r.since, r.unsaid} \subseteq Nat /\ r.at <= clock
      /\ r.at < until /\ until <= r.back
  <2>1. PICK c \in Nat, u \in Nat, w \in Nat \ {0} :
          c = clock /\ u = until /\ u = until' /\ w = Second /\ c < u
    BY <1>2, <1>3, DoorNumbers DEF DoorInv, Counter
  <2>2. retryAfter = Max({1, (u - c + w - 1) \div w})
    BY <2>1 DEF retryAfter
  <2>3. PICK k \in Int : k = Max({1, (u - c + w - 1) \div w})
    <3>1. PICK x \in Int : x = u - c + w - 1
      OBVIOUS
    <3>2. PICK q \in Int : q = x \div w
      BY QuotientAndRest
    <3>3. Max({1, q}) \in Int
      BY MaxOfTwo
    <3> QED
      BY <3>1, <3>2, <3>3
  <2>4. k >= 1 /\ c + w * k >= u /\ c + w * k \in Int
    <3>1. c <= u
      BY <2>1
    <3>2. c + w * k \in Int
      OBVIOUS
    <3> QED
      BY <2>3, <3>1, <3>2, SecondsSuffice
  <2>5. r.back = c + w * k
    BY <1>4, <2>1, <2>2, <2>3
  <2>6. started \in Nat /\ unsaid \in Nat
    BY DEF DoorInv, Counter
  <2> QED
    BY <1>4, <2>1, <2>4, <2>5, <2>6
<1>6. Over(through', r.since, r.at) + r.unsaid >= Maximum
  <2>1. unsaid' = unsaid
    BY <1>3 DEF TooMany
  <2> QED
    BY <1>1, <1>2, <1>3, <1>4, <2>1 DEF Counted
<1>7. Refusals'
  BY <1>2, <1>3, <1>4, <1>5, <1>6 DEF Refusals
<1> QED
  BY <1>1, <1>7 DEF DoorInv

LEMMA DoorTickKept ==
  ASSUME DoorInv, DoorTick
  PROVE  DoorInv'
<1>0. /\ clock' = clock + 1 /\ clock \in Nat /\ clock < MaxClock /\ MaxClock \in Nat
      /\ started \in Nat /\ started <= clock
      /\ UNCHANGED <<limiter, count, until, started, through, unsaid, refused>>
  BY DoorNumbers DEF DoorTick, DoorInv, Counter
<1>1. Maximum' = Maximum
  BY <1>0 DEF Maximum
<1>2. Counter'
  BY <1>0 DEF DoorInv, Counter
<1>3. Over(through, started, clock + 1) = Over(through, started, clock)
  <2>1. PICK N \in Nat : N = MaxClock
    BY <1>0
  <2>2. PICK f \in [0..N -> Nat] : f = through
    BY <2>1 DEF DoorInv, Counter
  <2>3. PICK s \in Nat, c \in Nat, d \in Nat :
          s = started /\ c = clock /\ d = clock + 1 /\ d - 1 = c /\ s <= d /\ d <= N
    BY <1>0, <2>1
  <2>4. Over(f, s, d) = Over(f, s, d - 1) + Over(f, d, d)
    <3>1. d <= d + 1 /\ s <= d /\ d <= N /\ d \in Int
      BY <2>3
    <3> QED
      BY <3>1, OverSplits
  <2>5. \A x \in d..d : f[x] = 0
    BY <1>0, <2>1, <2>2, <2>3 DEF DoorInv, Counter
  <2>6. Over(f, d, d) = 0
    BY <2>3, <2>5, OverNothing
  <2>7. Over(f, s, c) \in Nat
    <3>1. c <= N /\ c \in Int
      BY <2>3
    <3> QED
      BY <3>1, OverIsNatural
  <2> QED
    BY <2>2, <2>3, <2>4, <2>6, <2>7
<1>4. Counted'
  BY <1>0, <1>1, <1>3 DEF DoorInv, Counted
<1>5. OneBefore' /\ Stretches'
  BY <1>0, <1>1 DEF DoorInv, OneBefore, Stretches
<1>6. Refusals'
  <2> SUFFICES ASSUME NEW r \in refused
               PROVE  /\ {r.at, r.back, r.since, r.unsaid} \subseteq Nat /\ r.at <= clock + 1
                      /\ Over(through, r.since, r.at) + r.unsaid >= Maximum
                      /\ started > r.at \/ (r.at < until /\ until <= r.back)
    BY <1>0, <1>1 DEF DoorInv, Refusals
  <2>1. /\ {r.at, r.back, r.since, r.unsaid} \subseteq Nat /\ r.at <= clock
        /\ Over(through, r.since, r.at) + r.unsaid >= Maximum
        /\ started > r.at \/ (r.at < until /\ until <= r.back)
    BY DEF DoorInv, Refusals
  <2> QED
    BY <1>0, <2>1
<1> QED
  BY <1>2, <1>4, <1>5, <1>6 DEF DoorInv

LEMMA DoorStays ==
  ASSUME DoorInv, UNCHANGED doorVars
  PROVE  DoorInv'
<1>1. Maximum' = Maximum
  BY DEF doorVars, Maximum
<1> QED
  BY <1>1 DEF DoorInv, doorVars, Counter, Counted, OneBefore, Stretches, Refusals

\* By the invariant above: what the counter counted, what got through in the window
\* before it, and what a refusal was told of it.
THEOREM DoorInvariance == DoorSpec => []DoorInv
<1>1. DoorInit => DoorInv
  BY DoorStarts
<1>2. DoorInv /\ [DoorNext]_doorVars => DoorInv'
  <2> SUFFICES ASSUME DoorInv, [DoorNext]_doorVars PROVE DoorInv'
    OBVIOUS
  <2>1. CASE LetThrough
    <3>1. Hit /\ refused' = refused
      BY <2>1 DEF LetThrough, Hit, Answer, Counts
    <3> QED
      BY <3>1, HitKept
  <2>2. CASE TooMany
    BY <2>2, TooManyKept
  <2>3. CASE RedisFails
    <3>1. CASE rateLimitScript /\ unsaid' = Unsaid + 1
      <4>1. Hit /\ refused' = refused
        BY <2>3, <3>1 DEF RedisFails, Hit, Answer
      <4> QED
        BY <4>1, HitKept
    <3>2. CASE UNCHANGED <<count, until, started, unsaid>>
      <4>1. UNCHANGED doorVars
        BY <2>3, <3>2 DEF RedisFails, doorVars
      <4> QED
        BY <4>1, DoorStays
    <3> QED
      BY <2>3, <3>1, <3>2 DEF RedisFails
  <2>4. CASE DoorTick
    BY <2>4, DoorTickKept
  <2>5. CASE UNCHANGED doorVars
    BY <2>5, DoorStays
  <2> QED
    BY <2>1, <2>2, <2>3, <2>4, <2>5 DEF DoorNext
<1> QED
  BY <1>1, <1>2, PTL DEF DoorSpec

\* NewRouter's limits hold: twice the maximum at most in any stretch of a window's
\* length, no refusal before the maximum, and none that outlasts its Retry-After.
THEOREM LimitsHoldHolds == DoorSpec => []LimitsHold
<1>1. DoorInv => LimitsHold
  BY DoorInvMeans
<1> QED
  BY <1>1, DoorInvariance, PTL

===============================================================================
