---------------------------- MODULE SessionProofs ----------------------------
(***************************************************************************)
(* Proofs about Session, for any requests, passwords, calls, lifetimes and *)
(* bounds: its types, that a refresh token is rotated once, that what was  *)
(* accepted was in force, and what a replay and a revocation bring about.  *)
(***************************************************************************)
EXTENDS Session, FiniteSetTheorems, TLAPS

-----------------------------------------------------------------------------
(* Types.                                                                  *)

RefreshPlaces == {"session", "user", "consume", "issue", "revoke"}

\* Where a handler is tells which call it executes, and the tokens of the call
\* have been issued.
CallsMatch ==
  \A r \in Requests :
    /\ pc[r] # "idle" => call[r] \in Calls
    /\ pc[r] \in {"credentials", "open"} => call[r].op = "login"
    /\ pc[r] \in RefreshPlaces => call[r].op = "refresh"
    /\ pc[r] = "token" => call[r].op \in {"access", "change"}
    /\ pc[r] \in {"compare", "update"} => call[r].op = "change"
    /\ pc[r] = "logout" => call[r].op = "logout"
    /\ pc[r] # "idle" /\ call[r].op \in {"refresh", "access", "change"} =>
         call[r].token \in 1..Len(pairs)
    /\ pc[r] # "idle" /\ call[r].op = "logout" =>
         /\ call[r].refresh \in 0..Len(pairs) /\ call[r].access \in 0..Len(pairs)
         /\ call[r].refresh + call[r].access > 0
    /\ pc[r] = "revoke" => verdict[r] # "none"
    /\ answer[r] # "none" => pc[r] = "done"

Done == {r \in Requests : pc[r] = "done"}

\* Every pair but the first was issued by a request that is done.
HasRoom == Len(pairs) <= Cardinality(Done) + 1

\* A pair comes from an earlier one.
ComeInOrder == \A j \in 1..Len(pairs) : pairs[j].from < j

Typed == TypeOK /\ CallsMatch /\ HasRoom /\ ComeInOrder

\* The fields of a call, by its operation.
LEMMA CallFields ==
  ASSUME NEW c \in Calls
  PROVE  /\ c.op \in {"login", "refresh", "access", "change", "logout"}
         /\ c.op = "login" => c.password \in Passwords
         /\ c.op \in {"refresh", "access", "change"} => c.token \in Pairs
         /\ c.op = "change" => c.password \in Passwords /\ c.next \in Passwords
         /\ c.op = "logout" => c.refresh \in Pairs \cup {0} /\ c.access \in Pairs \cup {0}
  BY CallsAssumption DEF Call

LEMMA PairsAreNumbers == Cardinality(Requests) \in Nat /\ Pairs \subseteq Nat \ {0} /\ 1 \in Pairs
<1>1. Cardinality(Requests) \in Nat
  BY SessionAssumption, FS_CardinalityType
<1> QED
  BY <1>1 DEF Pairs

LEMMA PairIsNumber ==
  ASSUME NEW j \in Pairs \cup {0}
  PROVE  j \in Nat
  BY DEF Pairs

LEMMA DoneIsFinite ==
  IsFiniteSet(Done) /\ Cardinality(Done) \in Nat /\ Cardinality(Done) <= Cardinality(Requests)
<1>1. Done \in SUBSET Requests
  BY DEF Done
<1> QED
  BY <1>1, SessionAssumption, FS_Subset, FS_CardinalityType

\* A request that ends makes room for a pair.
LEMMA DoneGrows ==
  ASSUME NEW r \in Requests, TypeOK, pc[r] # "done", pc' = [pc EXCEPT ![r] = "done"]
  PROVE  Cardinality(Done') = Cardinality(Done) + 1 /\ Cardinality(Done) < Cardinality(Requests)
<1>1. r \notin Done /\ Done' = Done \cup {r} /\ Done \cup {r} \in SUBSET Requests
  BY DEF Done, TypeOK
<1>2. Cardinality(Done \cup {r}) = Cardinality(Done) + 1
  BY <1>1, DoneIsFinite, FS_AddElement
<1>3. Cardinality(Done \cup {r}) <= Cardinality(Requests)
  BY <1>1, SessionAssumption, FS_Subset
<1> QED
  BY <1>1, <1>2, <1>3, DoneIsFinite, PairsAreNumbers

LEMMA DoneStays ==
  ASSUME NEW r \in Requests, NEW next, TypeOK, pc[r] # "done", next # "done",
         pc' = [pc EXCEPT ![r] = next]
  PROVE  Done' = Done
  BY DEF Done, TypeOK

\* The row and the pairs as they stand.
LEMMA TypedCurrent ==
  ASSUME TypeOK
  PROVE  /\ User \in Account /\ Len(users) \in Nat \ {0} /\ Len(pairs) \in Nat \ {0}
         /\ \A j \in 1..Len(pairs) : pairs[j] \in Pair /\ Expiry(j) \in Nat /\ Expiry(j) > 0
         /\ \A j \in 1..Len(pairs) : pairs[j].session \in Pairs
         /\ \A k \in 1..Len(users) : users[k] \in Account
<1>1. Len(users) \in Nat \ {0} /\ Len(pairs) \in Nat \ {0}
  BY DEF TypeOK
<1>2. \A j \in 1..Len(pairs) : pairs[j] \in Pair
  BY DEF TypeOK
<1>3. \A j \in 1..Len(pairs) : pairs[j].issued \in Nat /\ pairs[j].session \in Pairs
  BY <1>2 DEF Pair
<1>4. \A k \in 1..Len(users) : users[k] \in Account
  BY DEF TypeOK
<1>5. \A j \in 1..Len(pairs) : Expiry(j) \in Nat /\ Expiry(j) > 0
  BY <1>3, SessionAssumption DEF Expiry
<1>6. User \in Account
  BY <1>1, <1>4 DEF User
<1> QED
  BY <1>1, <1>2, <1>3, <1>4, <1>5, <1>6

LEMMA InitTyped == Init => Typed
<1> SUFFICES ASSUME Init PROVE Typed
  OBVIOUS
<1>1. users \in Seq(Account) \ {<<>>} /\ User \in Account
  BY SessionAssumption DEF Init, Account, User
<1>2. pairs \in Seq(Pair) \ {<<>>} /\ Len(pairs) = 1
  BY PairsAreNumbers DEF Init, Pair
<1>3. \A j \in 1..Len(pairs) :
        pairs[j].session = IF pairs[j].from = 0 THEN j ELSE pairs[pairs[j].from].session
  BY DEF Init
<1>4. TypeOK
  BY <1>1, <1>2, <1>3, SessionAssumption DEF Init, TypeOK
<1>5. CallsMatch
  BY DEF Init, CallsMatch, RefreshPlaces
<1>6. HasRoom /\ ComeInOrder
  BY <1>2, DoneIsFinite DEF HasRoom, ComeInOrder, Init
<1> QED
  BY <1>4, <1>5, <1>6 DEF Typed


\* A step that leaves users, pairs and the keys alone.
LEMMA PlainStepTyped ==
  ASSUME Typed, NEW r \in Requests, pc[r] \notin {"idle", "done"},
         UNCHANGED <<now, users, pairs, call, since>>,
         usedUntil' \in [Pairs -> Nat], revokedUntil' \in [Pairs -> Nat], buried' \in SUBSET Pairs,
         seen' \in [Requests -> Account],
         verdict' \in [Requests -> {"none", "replay", "SessionRevoked", "AccountInactive"}],
         NEW next, NEW result,
         \A q \in Requests \ {r} : verdict'[q] = verdict[q],
         pc' = [pc EXCEPT ![r] = next], answer' = [answer EXCEPT ![r] = result],
         \/ /\ next \in {"open", "user", "consume", "issue", "revoke", "compare", "update"}
            /\ result = "none"
            /\ next = "open" => call[r].op = "login"
            /\ next \in {"user", "consume", "issue", "revoke"} => call[r].op = "refresh"
            /\ next \in {"compare", "update"} => call[r].op = "change"
            /\ next = "revoke" => verdict'[r] # "none"
         \/ /\ next = "done"
            /\ result \in {"OK", "Internal", "InvalidToken", "InvalidCredentials",
                           "SessionRevoked", "AccountInactive"}
  PROVE  Typed'
<1>1. TypeOK'
  BY DEF Typed, TypeOK
<1>2. CallsMatch'
  BY DEF Typed, TypeOK, CallsMatch, RefreshPlaces
<1>3. HasRoom'
  <2>1. CASE next = "done"
    <3>1. Cardinality(Done') = Cardinality(Done) + 1
      BY <2>1, DoneGrows DEF Typed
    <3> QED
      BY <3>1, DoneIsFinite, TypedCurrent DEF HasRoom, Typed
  <2>2. CASE next # "done"
    <3>1. Done' = Done
      BY <2>2, DoneStays DEF Typed
    <3> QED
      BY <3>1 DEF HasRoom, Typed
  <2> QED
    BY <2>1, <2>2
<1> QED
  BY <1>1, <1>2, <1>3 DEF Typed, ComeInOrder

LEMMA NotAnswered ==
  ASSUME Typed, NEW r \in Requests, pc[r] # "done"
  PROVE  answer = [answer EXCEPT ![r] = "none"] /\ answer[r] = "none"
  BY DEF Typed, TypeOK, CallsMatch

\* Revoke fills the key of one session and buries pairs that were issued.
LEMMA RevokeTypes ==
  ASSUME Typed, NEW s \in Pairs, Revoke(s)
  PROVE  revokedUntil' \in [Pairs -> Nat] /\ buried' \in SUBSET Pairs
<1>1. now + RefreshTTL \in Nat
  BY SessionAssumption DEF Typed, TypeOK
<1>2. 1..Len(pairs) \subseteq Pairs
  <2>1. Len(pairs) <= Cardinality(Requests) + 1
    BY DoneIsFinite, PairsAreNumbers, TypedCurrent DEF Typed, HasRoom
  <2> QED
    BY <2>1, PairsAreNumbers, TypedCurrent DEF Pairs, Typed
<1> QED
  BY <1>1, <1>2 DEF Revoke, Typed, TypeOK

LEMMA IssueTyped ==
  ASSUME Typed, NEW r \in Requests, pc[r] \in {"open", "issue"},
         NEW session, NEW from, Issue(r, session, from),
         \/ from = 0 /\ session = Len(pairs) + 1
         \/ from \in 1..Len(pairs) /\ session = pairs[from].session
  PROVE  Typed'
<1>1. Cardinality(Done') = Cardinality(Done) + 1 /\ Cardinality(Done) < Cardinality(Requests)
  BY DoneGrows DEF Typed, Issue, Return
<1>2. HasRoom' /\ Len(pairs') = Len(pairs) + 1 /\ Len(pairs) + 1 \in Pairs /\ Len(pairs) \in Nat
  BY <1>1, DoneIsFinite, TypedCurrent, PairsAreNumbers DEF Typed, TypeOK, HasRoom, Issue, Pairs
<1>3. from \in Pairs \cup {0} /\ session \in Pairs
  BY <1>2, TypedCurrent, PairsAreNumbers DEF Pairs, Typed
<1>4. [session |-> session, version |-> seen[r].version, issued |-> now, from |-> from] \in Pair
  BY <1>3 DEF Typed, TypeOK, Account, Pair
<1>5. pairs' \in Seq(Pair) \ {<<>>}
  BY <1>4 DEF Issue, Typed, TypeOK
<1>6. /\ \A j \in 1..Len(pairs') :
            pairs'[j].session = IF pairs'[j].from = 0 THEN j ELSE pairs'[pairs'[j].from].session
      /\ ComeInOrder'
  <2>1. /\ \A j \in 1..Len(pairs) : pairs'[j] = pairs[j]
        /\ pairs'[Len(pairs) + 1] = [session |-> session, version |-> seen[r].version,
                                     issued |-> now, from |-> from]
    BY <1>2 DEF Issue, Typed, TypeOK
  <2>2. ASSUME NEW j \in 1..Len(pairs)
        PROVE  pairs'[j].session = IF pairs'[j].from = 0 THEN j ELSE pairs'[pairs'[j].from].session
    <3>1. /\ pairs[j].session = IF pairs[j].from = 0 THEN j ELSE pairs[pairs[j].from].session
          /\ pairs[j].from < j
      BY DEF Typed, TypeOK, ComeInOrder
    <3>2. pairs[j].from \in Nat
      <4>1. pairs[j] \in Pair
        BY TypedCurrent DEF Typed
      <4>2. pairs[j].from \in Pairs \cup {0}
        BY <4>1 DEF Pair
      <4> QED
        BY <4>2, PairIsNumber
    <3>3. pairs[j].from # 0 => pairs[j].from \in 1..Len(pairs)
      BY <1>2, <3>1, <3>2
    <3> QED
      BY <2>1, <3>1, <3>3
  <2>3. ComeInOrder'
    BY <1>2, <2>1 DEF Typed, ComeInOrder
  <2> QED
    BY <1>2, <2>1, <2>2, <2>3
<1>7. TypeOK'
  BY <1>5, <1>6 DEF Typed, TypeOK, Issue, Return, begun, keys
<1>8. CallsMatch'
  BY <1>2 DEF Typed, TypeOK, CallsMatch, RefreshPlaces, Issue, Return, begun, keys
<1> QED
  BY <1>2, <1>6, <1>7, <1>8 DEF Typed

LEMMA LoginTyped ==
  ASSUME Typed, NEW r \in Requests, Login(r)
  PROVE  Typed'
<1>1. CASE Authenticates(r)
  <2>1. /\ UNCHANGED <<now, users, pairs, call, since, usedUntil, revokedUntil, buried, verdict>>
        /\ seen' = [seen EXCEPT ![r] = User] /\ pc[r] = "credentials"
    BY <1>1 DEF Authenticates, begun, stores, keys
  <2>2. /\ seen' \in [Requests -> Account] /\ usedUntil' \in [Pairs -> Nat]
        /\ revokedUntil' \in [Pairs -> Nat] /\ buried' \in SUBSET Pairs
        /\ verdict' \in [Requests -> {"none", "replay", "SessionRevoked", "AccountInactive"}]
    BY <2>1, TypedCurrent DEF Typed, TypeOK
  <2>3. \/ /\ pc' = [pc EXCEPT ![r] = "open"] /\ answer' = [answer EXCEPT ![r] = "none"]
           /\ call[r].op = "login"
        \/ \E result \in {"InvalidCredentials", "AccountInactive"} :
             /\ pc' = [pc EXCEPT ![r] = "done"] /\ answer' = [answer EXCEPT ![r] = result]
    BY <1>1, <2>1, NotAnswered DEF Authenticates, Goto, Return, Typed, CallsMatch
  <2> QED
    BY <2>1, <2>2, <2>3, PlainStepTyped
<1>2. CASE OpensSession(r)
  BY <1>2, IssueTyped DEF OpensSession
<1> QED
  BY <1>1, <1>2 DEF Login

\* The steps of the other handlers that issue no pair and change no row.
PlainStep(r) ==
  \/ RefreshChecksSession(r) \/ RefreshReadsUser(r) \/ RefreshConsumes(r) \/ RefreshRevokes(r)
  \/ LogoutRevokes(r) \/ ValidatesAccess(r) \/ ChangeCompares(r) \/ Fail(r)

\* The session a handler revokes is that of a pair.
LEMMA RevokedIsSession ==
  ASSUME Typed, NEW r \in Requests, revokedUntil' # revokedUntil \/ buried' # buried,
         PlainStep(r)
  PROVE  \E j \in 1..Len(pairs) : Revoke(pairs[j].session)
<1>1. CASE RefreshRevokes(r)
  <2>1. call[r].token \in 1..Len(pairs)
    BY <1>1 DEF RefreshRevokes, Typed, CallsMatch, RefreshPlaces
  <2> QED
    BY <1>1, <2>1 DEF RefreshRevokes
<1>2. CASE LogoutRevokes(r)
  <2> DEFINE j == IF call[r].refresh # 0 THEN call[r].refresh ELSE call[r].access
  <2>1. /\ call[r].refresh \in 0..Len(pairs) /\ call[r].access \in 0..Len(pairs)
        /\ call[r].refresh + call[r].access > 0
    BY <1>2 DEF LogoutRevokes, Typed, CallsMatch
  <2>2. j \in 1..Len(pairs)
    BY <2>1
  <2>3. Revoke(pairs[j].session)
    BY <1>2 DEF LogoutRevokes
  <2> QED
    BY <2>2, <2>3
<1>3. CASE ~RefreshRevokes(r) /\ ~LogoutRevokes(r)
  BY <1>3 DEF PlainStep, RefreshChecksSession, RefreshReadsUser, RefreshConsumes, ValidatesAccess,
              ChangeCompares, Fail, stores, keys
<1> QED
  BY <1>1, <1>2, <1>3

LEMMA PlainStepsTyped ==
  ASSUME Typed, NEW r \in Requests, PlainStep(r)
  PROVE  Typed'
<1> USE DEF PlainStep
<1>1. /\ UNCHANGED <<now, users, pairs, call, since>> /\ pc[r] \notin {"idle", "done"}
  BY DEF RefreshChecksSession, RefreshReadsUser, RefreshConsumes, RefreshRevokes, LogoutRevokes,
         ValidatesAccess, ChangeCompares, Fail, begun, stores, keys
<1>2. revokedUntil' \in [Pairs -> Nat] /\ buried' \in SUBSET Pairs
  <2>1. CASE revokedUntil' = revokedUntil /\ buried' = buried
    BY <2>1 DEF Typed, TypeOK
  <2>2. CASE revokedUntil' # revokedUntil \/ buried' # buried
    BY <2>2, RevokedIsSession, RevokeTypes, TypedCurrent DEF Typed
  <2> QED
    BY <2>1, <2>2
<1>3. usedUntil' \in [Pairs -> Nat]
  <2>1. CASE usedUntil' = usedUntil
    BY <2>1 DEF Typed, TypeOK
  <2>2. CASE usedUntil' # usedUntil
    <3>1. /\ usedUntil' = [usedUntil EXCEPT ![call[r].token] = Expiry(call[r].token)]
          /\ pc[r] = "consume"
      BY <2>2 DEF RefreshChecksSession, RefreshReadsUser, RefreshConsumes, RefreshRevokes,
                  LogoutRevokes, ValidatesAccess, ChangeCompares, Fail, stores, keys
    <3>2. call[r].token \in 1..Len(pairs)
      BY <3>1 DEF Typed, CallsMatch, RefreshPlaces
    <3>3. Expiry(call[r].token) \in Nat
      BY <3>2, TypedCurrent DEF Typed
    <3> QED
      BY <3>1, <3>3 DEF Typed, TypeOK
  <2> QED
    BY <2>1, <2>2
<1>4. seen' \in [Requests -> Account]
  <2>1. seen' = seen \/ seen' = [seen EXCEPT ![r] = User]
    BY DEF RefreshChecksSession, RefreshReadsUser, RefreshConsumes, RefreshRevokes, LogoutRevokes,
           ValidatesAccess, ChangeCompares, Fail
  <2> QED
    BY <2>1, TypedCurrent DEF Typed, TypeOK
<1>5. /\ verdict' \in [Requests -> {"none", "replay", "SessionRevoked", "AccountInactive"}]
      /\ \A q \in Requests \ {r} : verdict'[q] = verdict[q]
      /\ verdict' # verdict => verdict'[r] # "none"
  <2>1. \/ verdict' = verdict
        \/ \E v \in {"replay", "SessionRevoked", "AccountInactive"} :
             verdict' = [verdict EXCEPT ![r] = v]
    BY DEF RefreshChecksSession, RefreshReadsUser, RefreshConsumes, RefreshRevokes, LogoutRevokes,
           ValidatesAccess, ChangeCompares, Fail
  <2> QED
    BY <2>1 DEF Typed, TypeOK
<1>6. pc[r] \in RefreshPlaces => call[r].op = "refresh"
  BY DEF Typed, CallsMatch
<1>7. answer = [answer EXCEPT ![r] = "none"]
  BY <1>1, NotAnswered
<1>8. \/ \E next \in {"user", "consume", "issue", "revoke", "compare", "update"} :
           /\ pc' = [pc EXCEPT ![r] = next] /\ answer' = [answer EXCEPT ![r] = "none"]
           /\ next \in {"user", "consume", "issue", "revoke"} => call[r].op = "refresh"
           /\ next \in {"compare", "update"} => call[r].op = "change"
           /\ next = "revoke" => verdict'[r] # "none"
      \/ \E result \in {"OK", "Internal", "InvalidToken", "InvalidCredentials",
                         "SessionRevoked", "AccountInactive"} :
           /\ pc' = [pc EXCEPT ![r] = "done"] /\ answer' = [answer EXCEPT ![r] = result]
  <2>1. CASE RefreshChecksSession(r)
    BY <2>1, <1>6, <1>7 DEF RefreshChecksSession, Goto, Return, RefreshPlaces
  <2>2. CASE RefreshReadsUser(r)
    BY <2>2, <1>6, <1>7 DEF RefreshReadsUser, Goto, RefreshPlaces, Typed, TypeOK
  <2>3. CASE RefreshConsumes(r)
    BY <2>3, <1>6, <1>7 DEF RefreshConsumes, Goto, Return, RefreshPlaces, Typed, TypeOK
  <2>4. CASE RefreshRevokes(r)
    <3>1. verdict[r] \in {"none", "replay", "SessionRevoked", "AccountInactive"}
      BY DEF Typed, TypeOK
    <3>2. verdict[r] # "none"
      BY <2>4 DEF RefreshRevokes, Typed, CallsMatch
    <3> QED
      BY <2>4, <3>1, <3>2 DEF RefreshRevokes, Return
  <2>5. CASE LogoutRevokes(r)
    BY <2>5 DEF LogoutRevokes, Acknowledged, Return
  <2>6. CASE ValidatesAccess(r)
    BY <2>6, <1>7 DEF ValidatesAccess, Goto, Return
  <2>7. CASE ChangeCompares(r)
    BY <2>7, <1>7 DEF ChangeCompares, Goto, Return, Typed, CallsMatch
  <2>8. CASE Fail(r)
    BY <2>8 DEF Fail, Return
  <2> QED
    BY <2>1, <2>2, <2>3, <2>4, <2>5, <2>6, <2>7, <2>8
<1> QED
  BY SMTT(30), <1>1, <1>2, <1>3, <1>4, <1>5, <1>8, PlainStepTyped

LEMMA IssuesTyped ==
  ASSUME Typed, NEW r \in Requests, RefreshIssues(r)
  PROVE  Typed'
<1>1. call[r].token \in 1..Len(pairs) /\ pc[r] = "issue"
  BY DEF RefreshIssues, Typed, CallsMatch, RefreshPlaces
<1> QED
  BY <1>1, IssueTyped DEF RefreshIssues

\* A new state of the row.
LEMMA RowTyped ==
  ASSUME Typed, NEW row \in Account, users' = Append(users, row)
  PROVE  users' \in Seq(Account) \ {<<>>}
<1>1. users \in Seq(Account)
  BY DEF Typed, TypeOK
<1>2. Append(users, row) \in Seq(Account) /\ Len(Append(users, row)) = Len(users) + 1
  BY <1>1
<1>3. Len(users) \in Nat
  BY <1>1
<1> QED
  BY <1>2, <1>3

LEMMA NewPasswordTyped ==
  ASSUME Typed, NEW password \in Passwords, NewPassword(password)
  PROVE  users' \in Seq(Account) \ {<<>>}
<1>1. User \in Account
  BY TypedCurrent DEF Typed
<1>2. [User EXCEPT !.password = password, !.version = @ + 1] \in Account
  <2>1. User.version + 1 \in Nat \ {0}
    BY <1>1 DEF Account
  <2> DEFINE row == [User EXCEPT !.password = password]
  <2>2. row \in Account /\ row.version = User.version
    BY <1>1 DEF Account
  <2>3. [row EXCEPT !.version = row.version + 1] \in Account
    <3> HIDE DEF row
    <3> QED
      BY <2>1, <2>2 DEF Account
  <2>4. [User EXCEPT !.password = password, !.version = @ + 1] = [row EXCEPT !.version = row.version + 1]
    BY <2>2
  <2> QED
    BY <2>3, <2>4
<1> QED
  BY <1>2, RowTyped DEF NewPassword

LEMMA ChangeUpdatesTyped ==
  ASSUME Typed, NEW r \in Requests, ChangeUpdates(r)
  PROVE  Typed'
<1>1. call[r].next \in Passwords
  BY CallFields DEF ChangeUpdates, Typed, CallsMatch
<1>2. users' \in Seq(Account) \ {<<>>}
  BY <1>1, NewPasswordTyped DEF ChangeUpdates
<1>3. /\ pc' = [pc EXCEPT ![r] = "done"] /\ pc[r] = "update"
      /\ \E result \in {"OK", "Internal"} : answer' = [answer EXCEPT ![r] = result]
      /\ UNCHANGED <<now, call, since, pairs, usedUntil, revokedUntil, buried, seen, verdict>>
  BY DEF ChangeUpdates, Acknowledged, Return, begun, keys
<1>4. TypeOK'
  BY <1>2, <1>3 DEF Typed, TypeOK
<1>5. CallsMatch'
  BY <1>3 DEF Typed, TypeOK, CallsMatch, RefreshPlaces
<1>6. HasRoom'
  <2>1. Cardinality(Done') = Cardinality(Done) + 1
    BY <1>3, DoneGrows DEF Typed
  <2> QED
    BY <1>3, <2>1, DoneIsFinite, TypedCurrent DEF Typed, HasRoom
<1> QED
  BY <1>3, <1>4, <1>5, <1>6 DEF Typed, ComeInOrder

LEMMA BeginTyped ==
  ASSUME Typed, NEW r \in Requests, Begin(r)
  PROVE  Typed'
<1>1. PICK c \in Calls :
        /\ c.op \in {"refresh", "access", "change"} => c.token <= Len(pairs)
        /\ c.op = "logout" =>
             c.refresh <= Len(pairs) /\ c.access <= Len(pairs) /\ c.refresh + c.access > 0
        /\ call' = [call EXCEPT ![r] = c]
        /\ pc' = [pc EXCEPT ![r] = FirstStep(c.op)] /\ answer' = answer
  BY DEF Begin, Goto
<1>2. /\ since' = [since EXCEPT ![r] = [users |-> Len(users), buried |-> buried]] /\ pc[r] = "idle"
      /\ UNCHANGED <<now, users, pairs, usedUntil, revokedUntil, buried, seen, verdict>>
  BY DEF Begin, stores, keys
<1>3. c.op \in {"login", "refresh", "access", "change", "logout"}
  BY CallFields
<1>4. /\ c.op = "login" => FirstStep(c.op) = "credentials"
      /\ c.op = "refresh" => FirstStep(c.op) = "session"
      /\ c.op \in {"access", "change"} => FirstStep(c.op) = "token"
      /\ c.op = "logout" => FirstStep(c.op) = "logout"
  BY DEF FirstStep
<1>5. TypeOK'
  <2>1. [users |-> Len(users), buried |-> buried] \in [users : Nat \ {0}, buried : SUBSET Pairs]
    BY TypedCurrent DEF Typed, TypeOK
  <2> QED
    BY <1>1, <1>2, <1>3, <1>4, <2>1 DEF Typed, TypeOK
<1>6. /\ c.op \in {"refresh", "access", "change"} => c.token \in 1..Len(pairs)
      /\ c.op = "logout" => /\ c.refresh \in 0..Len(pairs) /\ c.access \in 0..Len(pairs)
                            /\ c.refresh + c.access > 0
  <2>1. /\ c.op \in {"refresh", "access", "change"} => c.token \in Nat \ {0}
        /\ c.op = "logout" => c.refresh \in Nat /\ c.access \in Nat
    BY CallFields, PairIsNumber, PairsAreNumbers
  <2> QED
    BY <1>1, <2>1, TypedCurrent DEF Typed
<1>7. CallsMatch'
  BY <1>1, <1>2, <1>3, <1>4, <1>6 DEF Typed, TypeOK, CallsMatch, RefreshPlaces
<1>8. HasRoom'
  BY <1>1, <1>2, <1>3, <1>4, DoneStays DEF Typed, HasRoom
<1> QED
  BY <1>2, <1>5, <1>7, <1>8 DEF Typed, ComeInOrder

LEMMA UserChangesTyped == Typed /\ UserChanges => Typed'
<1> SUFFICES ASSUME Typed, UserChanges PROVE Typed'
  OBVIOUS
<1>1. UNCHANGED <<now, call, since, pairs, usedUntil, revokedUntil, buried, pc, seen, verdict, answer>>
  BY DEF UserChanges, begun, keys
<1>2. users' \in Seq(Account) \ {<<>>}
  <2>1. [User EXCEPT !.active = ~@] \in Account
    BY TypedCurrent DEF Typed, Account
  <2> QED
    BY <2>1, RowTyped, NewPasswordTyped DEF UserChanges
<1> QED
  BY <1>1, <1>2 DEF Typed, TypeOK, CallsMatch, HasRoom, Done, ComeInOrder

LEMMA NextTyped == Typed /\ [Next]_vars => Typed'
<1> SUFFICES ASSUME Typed, [Next]_vars PROVE Typed'
  OBVIOUS
<1>1. CASE UNCHANGED vars
  BY <1>1 DEF vars, Typed, TypeOK, CallsMatch, HasRoom, Done, ComeInOrder
<1>2. CASE Tick
  <2>1. /\ now' \in 0..MaxTime
        /\ UNCHANGED <<users, pairs, usedUntil, revokedUntil, buried, call, since, pc, seen, verdict,
                       answer>>
    BY <1>2, SessionAssumption DEF Tick, Typed, TypeOK, stores, keys
  <2> QED
    BY <2>1 DEF Typed, TypeOK, CallsMatch, HasRoom, Done, ComeInOrder
<1>3. CASE UserChanges
  BY <1>3, UserChangesTyped
<1>4. ASSUME NEW r \in Requests, Begin(r) \/ Step(r) \/ Fail(r)
      PROVE  Typed'
  BY <1>4, BeginTyped, LoginTyped, PlainStepsTyped, IssuesTyped, ChangeUpdatesTyped
     DEF Step, Login, Refresh, Logout, AccessOrChange, PlainStep
<1> QED
  BY <1>1, <1>2, <1>3, <1>4 DEF Next

-----------------------------------------------------------------------------
(* What any step leaves alone.                                             *)

HandlerSteps(r) == Begin(r) \/ Step(r) \/ Fail(r)

\* A step of a handler is of one request.
LEMMA ActsAlone ==
  ASSUME Typed, NEW r \in Requests, HandlerSteps(r)
  PROVE  /\ now' = now
         /\ \A q \in Requests \ {r} :
              /\ pc'[q] = pc[q] /\ answer'[q] = answer[q] /\ call'[q] = call[q]
              /\ since'[q] = since[q] /\ seen'[q] = seen[q] /\ verdict'[q] = verdict[q]
         /\ pc[r] # "idle" => call' = call /\ since' = since
         /\ pc[r] # "done"
<1> USE DEF Typed, TypeOK, begun, stores, keys, Goto, Return
<1>1. CASE Begin(r)
  BY <1>1 DEF Begin
<1>2. CASE Login(r)
  BY <1>2 DEF Login, Authenticates, OpensSession, Issue
<1>3. CASE Refresh(r)
  BY <1>3 DEF Refresh, RefreshChecksSession, RefreshReadsUser, RefreshConsumes, RefreshIssues,
              RefreshRevokes, Issue
<1>4. CASE Logout(r)
  BY <1>4 DEF Logout, LogoutRevokes, Acknowledged
<1>5. CASE AccessOrChange(r)
  BY <1>5 DEF AccessOrChange, ValidatesAccess, ChangeCompares, ChangeUpdates, Acknowledged
<1>6. CASE Fail(r)
  BY <1>6 DEF Fail
<1> QED
  BY <1>1, <1>2, <1>3, <1>4, <1>5, <1>6 DEF HandlerSteps, Step

\* Nothing but a handler's step changes what the requests are at.
LEMMA OthersActNot ==
  ASSUME UserChanges \/ Tick \/ UNCHANGED vars
  PROVE  UNCHANGED <<pairs, usedUntil, revokedUntil, buried, call, since, pc, seen, verdict, answer>>
  BY DEF UserChanges, Tick, vars, begun, stores, keys

\* A pair is added at the end by the two steps that issue one.
LEMMA PairsGrow ==
  ASSUME Typed, [Next]_vars
  PROVE  /\ Len(pairs) <= Len(pairs') /\ Len(pairs') \in Nat
         /\ \A j \in 1..Len(pairs) : pairs'[j] = pairs[j] /\ Expiry(j)' = Expiry(j)
         /\ \/ pairs' = pairs
            \/ \E r \in Requests : RefreshIssues(r) \/ OpensSession(r)
<1>1. \/ pairs' = pairs
      \/ \E r \in Requests : RefreshIssues(r) \/ OpensSession(r)
  BY OthersActNot
     DEF Next, Begin, Step, Fail, Login, Authenticates, Refresh, RefreshChecksSession,
         RefreshReadsUser, RefreshConsumes, RefreshRevokes, Logout, LogoutRevokes, AccessOrChange,
         ValidatesAccess, ChangeCompares, ChangeUpdates, stores
<1>2. pairs' = pairs \/ \E pair : pairs' = Append(pairs, pair)
  BY <1>1 DEF RefreshIssues, OpensSession, Issue
<1>3. pairs \in Seq(Pair) /\ pairs' \in Seq(Pair)
  BY NextTyped DEF Typed, TypeOK
<1>4. /\ Len(pairs) <= Len(pairs') /\ Len(pairs') \in Nat
      /\ \A j \in 1..Len(pairs) : pairs'[j] = pairs[j]
  BY <1>2, <1>3
<1> QED
  BY SMTT(30), <1>1, <1>4 DEF Expiry

\* The row's history grows, and a state of it with the version of the one
\* before has its password too.
LEMMA UsersGrow ==
  ASSUME Typed, [Next]_vars
  PROVE  \/ users' = users
         \/ \E row \in Account :
              /\ users' = Append(users, row)
              /\ \/ row.version = User.version + 1
                 \/ row.version = User.version /\ row.password = User.password
<1>1. User \in Account /\ users \in Seq(Account)
  BY TypedCurrent DEF Typed, TypeOK
<1>2. \/ users' = users
      \/ \E password \in Passwords : NewPassword(password)
      \/ users' = Append(users, [User EXCEPT !.active = ~@])
  <2>1. ASSUME NEW r \in Requests, Begin(r) \/ Step(r) \/ Fail(r)
        PROVE  users' = users \/ \E password \in Passwords : NewPassword(password)
    <3>1. CASE ChangeUpdates(r)
      <4>1. call[r].next \in Passwords
        BY <3>1, CallFields DEF ChangeUpdates, Typed, CallsMatch
      <4> QED
        BY <3>1, <4>1 DEF ChangeUpdates
    <3>2. CASE ~ChangeUpdates(r)
      BY <2>1, <3>2
         DEF Begin, Step, Fail, Login, Authenticates, OpensSession, Issue, Refresh,
             RefreshChecksSession, RefreshReadsUser, RefreshConsumes, RefreshIssues, RefreshRevokes,
             Logout, LogoutRevokes, AccessOrChange, ValidatesAccess, ChangeCompares, stores
    <3> QED
      BY <3>1, <3>2
  <2> QED
    BY <2>1 DEF Next, UserChanges, Tick, vars, stores
<1>3. users' \in Seq(Account)
  BY NextTyped DEF Typed, TypeOK
<1>4. ASSUME NEW row, users' = Append(users, row)
      PROVE  row \in Account
  <2>1. Len(users) \in Nat /\ Append(users, row)[Len(users) + 1] = row /\ Len(users') = Len(users) + 1
    BY <1>1, <1>4
  <2> QED
    BY <1>3, <1>4, <2>1
<1>5. CASE \E password \in Passwords : NewPassword(password)
  <2>1. PICK password \in Passwords :
          users' = Append(users, [User EXCEPT !.password = password, !.version = @ + 1])
    BY <1>5 DEF NewPassword
  <2>2. [User EXCEPT !.password = password, !.version = @ + 1].version = User.version + 1
    BY <1>1 DEF Account
  <2> QED
    BY <1>4, <2>1, <2>2
<1>6. CASE users' = Append(users, [User EXCEPT !.active = ~@])
  <2>1. /\ [User EXCEPT !.active = ~@].version = User.version
        /\ [User EXCEPT !.active = ~@].password = User.password
    BY <1>1 DEF Account
  <2> QED
    BY <1>4, <1>6, <2>1
<1> QED
  BY <1>2, <1>5, <1>6

LEMMA UsersKept ==
  ASSUME Typed, [Next]_vars
  PROVE  /\ Len(users) <= Len(users') /\ Len(users') \in Nat
         /\ \A k \in 1..Len(users) : users'[k] = users[k]
         /\ User.version <= User'.version
<1>1. users \in Seq(Account) /\ Len(users) \in Nat \ {0} /\ User \in Account
  BY TypedCurrent DEF Typed, TypeOK
<1>2. User.version \in Nat
  BY <1>1 DEF Account
<1>3. CASE users' = users
  BY <1>1, <1>2, <1>3 DEF User
<1>4. ASSUME NEW row \in Account, users' = Append(users, row), row.version \in {User.version, User.version + 1}
      PROVE  /\ Len(users) <= Len(users') /\ Len(users') \in Nat
             /\ \A k \in 1..Len(users) : users'[k] = users[k]
             /\ User.version <= User'.version
  <2>1. /\ Len(users') = Len(users) + 1 /\ users'[Len(users')] = row
        /\ \A k \in 1..Len(users) : users'[k] = users[k]
    BY <1>1, <1>4
  <2>2. User' = row
    BY <2>1 DEF User
  <2> QED
    BY <1>1, <1>2, <1>4, <2>1, <2>2
<1> QED
  BY <1>3, <1>4, UsersGrow

\* A session is revoked by a step that changes neither row nor pairs.
LEMMA RevocationsGrow ==
  ASSUME Typed, [Next]_vars
  PROVE  \/ UNCHANGED <<revokedUntil, buried>>
         \/ /\ now' = now /\ pairs' = pairs /\ users' = users
            /\ \E j \in 1..Len(pairs) : Revoke(pairs[j].session)
<1>1. ASSUME NEW r \in Requests, Begin(r) \/ Step(r) \/ Fail(r)
      PROVE  PlainStep(r) \/ UNCHANGED <<revokedUntil, buried>>
  BY <1>1 DEF PlainStep, Begin, Step, Login, Authenticates, OpensSession, Issue, Refresh,
              RefreshIssues, Logout, AccessOrChange, ChangeUpdates, stores, keys
<1>2. ASSUME NEW r \in Requests, PlainStep(r)
      PROVE  now' = now /\ pairs' = pairs /\ users' = users
  BY <1>2 DEF PlainStep, RefreshChecksSession, RefreshReadsUser, RefreshConsumes, RefreshRevokes,
              LogoutRevokes, ValidatesAccess, ChangeCompares, Fail, begun, stores
<1> QED
  BY <1>1, <1>2, RevokedIsSession, OthersActNot DEF Next

-----------------------------------------------------------------------------
(* One rotation per refresh token.                                         *)

\* The request that claimed the token of its call.
Holds(r) == call[r].op = "refresh" /\ (pc[r] = "issue" \/ answer[r] = "OK")

\* A token is claimed once and for all: the key of one that was lasts until the
\* token expires, and then nobody gets as far as to claim it.
Claims ==
  /\ \A j \in 1..Len(pairs) : usedUntil[j] \in {0, Expiry(j)}
  /\ \A j \in Pairs : j > Len(pairs) => usedUntil[j] = 0
  /\ \A r \in Requests : Holds(r) => usedUntil[call[r].token] # 0
  /\ \A r, q \in Requests : Holds(r) /\ Holds(q) /\ call[r].token = call[q].token => r = q
  /\ \A i \in 1..Len(pairs) : pairs[i].from # 0 => usedUntil[pairs[i].from] # 0
  /\ \A r \in Requests : pc[r] = "issue" => \A i \in 1..Len(pairs) : pairs[i].from # call[r].token
  /\ RotatesOnce

LEMMA InitClaims == Init => Claims
  BY PairsAreNumbers DEF Init, Claims, Holds, RotatesOnce, NoCall

\* A request that has claimed its token, and did not just now, had before.
LEMMA HoldersAreOld ==
  ASSUME Typed, [Next]_vars, NEW q \in Requests, Holds(q)'
  PROVE  \/ /\ Holds(q) /\ call'[q] = call[q]
            /\ pc'[q] = "issue" => pc[q] = "issue"
         \/ RefreshConsumes(q) /\ pc'[q] = "issue"
<1>1. CASE UserChanges \/ Tick \/ UNCHANGED vars
  BY <1>1, OthersActNot DEF Holds
<1>2. ASSUME NEW r \in Requests, HandlerSteps(r), r # q
      PROVE  Holds(q) /\ call'[q] = call[q] /\ (pc'[q] = "issue" => pc[q] = "issue")
  BY <1>2, ActsAlone DEF Holds
<1>3. CASE HandlerSteps(q)
  <2>1. CASE Begin(q)
    BY <1>3, <2>1 DEF Begin, Goto, FirstStep, Holds, Typed, TypeOK, CallsMatch
  <2>2. CASE ~Begin(q)
    <3>1. call' = call /\ pc[q] # "done"
      BY <1>3, <2>2, ActsAlone DEF HandlerSteps, Begin, Step, Login, Authenticates, OpensSession,
         Refresh, RefreshChecksSession, RefreshReadsUser, RefreshConsumes, RefreshIssues,
         RefreshRevokes, Logout, LogoutRevokes, AccessOrChange, ValidatesAccess, ChangeCompares,
         ChangeUpdates, Issue, Fail, begun
    <3>2. answer[q] = "none" /\ call[q].op = "refresh"
      BY <3>1, NotAnswered DEF Holds
    <3>3. pc[q] \in RefreshPlaces
      BY <1>3, <2>2, <3>2 DEF HandlerSteps, Step, Login, Authenticates, OpensSession, Refresh,
         RefreshChecksSession, RefreshReadsUser, RefreshConsumes, RefreshIssues, RefreshRevokes,
         Logout, LogoutRevokes, AccessOrChange, ValidatesAccess, ChangeCompares, ChangeUpdates, Fail,
         Typed, TypeOK, CallsMatch, RefreshPlaces
    <3>4. CASE Refresh(q)
      <4>1. CASE RefreshIssues(q)
        BY <3>1, <3>2, <4>1 DEF RefreshIssues, Issue, Return, Holds, Typed, TypeOK
      <4>2. CASE RefreshRevokes(q)
        <5>1. verdict[q] # "OK"
          BY DEF Typed, TypeOK
        <5> QED
          BY <4>2, <5>1 DEF RefreshRevokes, Return, Holds, Typed, TypeOK
      <4>3. CASE RefreshConsumes(q)
        BY <3>2, <4>3 DEF RefreshConsumes, Goto, Return, Holds, Typed, TypeOK
      <4>4. CASE RefreshChecksSession(q) \/ RefreshReadsUser(q)
        BY <3>2, <4>4 DEF RefreshChecksSession, RefreshReadsUser, Goto, Return, Holds, Typed, TypeOK
      <4> QED
        BY <3>4, <4>1, <4>2, <4>3, <4>4 DEF Refresh
    <3>5. CASE Fail(q)
      BY SMTT(30), <3>5 DEF Fail, Return, Holds, Typed, TypeOK
    <3> QED
      BY <1>3, <2>2, <3>3, <3>4, <3>5
         DEF HandlerSteps, Step, Login, Authenticates, OpensSession, Logout, LogoutRevokes,
             AccessOrChange, ValidatesAccess, ChangeCompares, ChangeUpdates, RefreshPlaces
  <2> QED
    BY <2>1, <2>2
<1> QED
  BY <1>1, <1>2, <1>3 DEF Next, HandlerSteps

\* Only SETNX fills a key.
LEMMA KeysOfUsedTokens ==
  ASSUME Typed, [Next]_vars
  PROVE  \/ usedUntil' = usedUntil
         \/ \E r \in Requests : RefreshConsumes(r)
  BY OthersActNot
     DEF Next, Begin, Step, Fail, Login, Authenticates, OpensSession, Issue, Refresh,
         RefreshChecksSession, RefreshReadsUser, RefreshIssues, RefreshRevokes, Logout, LogoutRevokes,
         AccessOrChange, ValidatesAccess, ChangeCompares, ChangeUpdates, stores, keys

\* A pair that was issued, and the one it comes from, are pairs.
LEMMA PairsInRange ==
  ASSUME Typed
  PROVE  \A i \in 1..Len(pairs) : i \in Pairs /\ (pairs[i].from # 0 => pairs[i].from \in Pairs)
<1>1. Len(pairs) <= Cardinality(Requests) + 1 /\ Len(pairs) \in Nat
  BY DoneIsFinite, PairsAreNumbers, TypedCurrent DEF Typed, HasRoom
<1>2. \A i \in 1..Len(pairs) : i \in Pairs
  BY <1>1, PairsAreNumbers DEF Pairs
<1>3. \A i \in 1..Len(pairs) : pairs[i].from \in Pairs \cup {0}
  BY TypedCurrent DEF Typed, Pair
<1> QED
  BY <1>2, <1>3

LEMMA NewPairInRange ==
  ASSUME Typed', Len(pairs') = Len(pairs) + 1, Len(pairs) \in Nat
  PROVE  Len(pairs) + 1 \in Pairs
<1>1. Done' \in SUBSET Requests
  BY DEF Done
<1>2. Cardinality(Done') <= Cardinality(Requests) /\ Cardinality(Done') \in Nat
  BY <1>1, SessionAssumption, FS_Subset, FS_CardinalityType
<1> QED
  BY <1>2, PairsAreNumbers DEF Typed, HasRoom, Pairs

LEMMA NextClaims == Typed /\ Claims /\ [Next]_vars => Claims'
<1> SUFFICES ASSUME Typed, Claims, [Next]_vars PROVE Claims'
  OBVIOUS
<1>1. Typed'
  BY NextTyped
<1>2. ASSUME pairs' = pairs, usedUntil' = usedUntil,
             \A q \in Requests :
               Holds(q)' => Holds(q) /\ call'[q] = call[q] /\ (pc'[q] = "issue" => pc[q] = "issue")
      PROVE  Claims'
  <2>1. \A j \in 1..Len(pairs) : Expiry(j)' = Expiry(j)
    BY <1>2 DEF Expiry
  <2>2. \A q \in Requests : pc'[q] = "issue" => Holds(q)'
    BY <1>1 DEF Typed, CallsMatch, RefreshPlaces, Holds
  <2>3. /\ \A r \in Requests : Holds(r)' => usedUntil'[call'[r].token] # 0
        /\ \A r, q \in Requests : Holds(r)' /\ Holds(q)' /\ call'[r].token = call'[q].token => r = q
    BY <1>2 DEF Claims
  <2>4. \A r \in Requests : pc'[r] = "issue" => \A i \in 1..Len(pairs') : pairs'[i].from # call'[r].token
    BY <1>2, <2>2 DEF Claims
  <2>5. /\ \A j \in 1..Len(pairs') : usedUntil'[j] \in {0, Expiry(j)'}
        /\ \A j \in Pairs : j > Len(pairs') => usedUntil'[j] = 0
        /\ \A i \in 1..Len(pairs') : pairs'[i].from # 0 => usedUntil'[pairs'[i].from] # 0
        /\ RotatesOnce'
    BY <1>2, <2>1 DEF Claims, RotatesOnce
  <2> QED
    BY <2>3, <2>4, <2>5 DEF Claims
<1>3. CASE \E r \in Requests :
             RefreshConsumes(r) /\ (pc'[r] = "issue" \/ usedUntil' # usedUntil)
  <2> PICK r \in Requests : RefreshConsumes(r) /\ (pc'[r] = "issue" \/ usedUntil' # usedUntil)
    BY <1>3
  <2> DEFINE j == call[r].token
  <2>1. /\ now < Expiry(j) /\ ~Consumed(j) /\ usedUntil' = [usedUntil EXCEPT ![j] = Expiry(j)]
        /\ pairs' = pairs /\ call' = call /\ pc[r] = "consume"
    BY DEF RefreshConsumes, Goto, Return, Typed, TypeOK, begun
  <2>2. j \in 1..Len(pairs) /\ j \in Pairs /\ Expiry(j) \in Nat \ {0}
    <3>1. j \in 1..Len(pairs) /\ call[r] \in Calls /\ call[r].op = "refresh"
      BY <2>1 DEF Typed, CallsMatch, RefreshPlaces
    <3> QED
      BY <3>1, CallFields, TypedCurrent DEF Typed
  <2>3. usedUntil[j] = 0
    BY <2>1, <2>2 DEF Claims, Consumed
  <2>4. /\ \A q \in Requests : Holds(q) => call[q].token # j
        /\ \A i \in 1..Len(pairs) : pairs[i].from # j
    BY <2>2, <2>3 DEF Claims
  <2>5. \A q \in Requests \ {r} : Holds(q)' => Holds(q) /\ pc'[q] = pc[q]
    <3>1. HandlerSteps(r)
      BY DEF HandlerSteps, Step, Refresh
    <3> QED
      BY <3>1, ActsAlone DEF Holds
  <2>6. \A i \in 1..Len(pairs) : Expiry(i)' = Expiry(i)
    BY <2>1 DEF Expiry
  <2>7. \A i \in Pairs : usedUntil'[i] = IF i = j THEN Expiry(j) ELSE usedUntil[i]
    BY <2>1 DEF Typed, TypeOK
  <2>8. \A i \in 1..Len(pairs) : i \in Pairs /\ (pairs[i].from # 0 => pairs[i].from \in Pairs)
    BY PairsInRange
  <2>9. \A q \in Requests : Holds(q) => call[q].token \in Pairs
    <3>1. \A q \in Requests : Holds(q) => call[q] \in Calls
      BY DEF Holds, Typed, CallsMatch
    <3> QED
      BY <3>1, CallFields DEF Holds
  <2>10. \A i \in 1..Len(pairs) : usedUntil'[i] \in {0, Expiry(i)}
    BY <2>7, <2>8 DEF Claims
  <2>11. \A i \in Pairs : i > Len(pairs) => usedUntil'[i] = 0
    BY <2>2, <2>7 DEF Claims
  <2>12. \A q \in Requests : Holds(q)' => usedUntil'[call[q].token] # 0
    BY <2>2, <2>5, <2>7, <2>9 DEF Claims
  <2>13. \A p, q \in Requests : Holds(p)' /\ Holds(q)' /\ call[p].token = call[q].token => p = q
    BY <2>4, <2>5 DEF Claims
  <2>14. \A i \in 1..Len(pairs) : pairs[i].from # 0 => usedUntil'[pairs[i].from] # 0
    BY <2>4, <2>7, <2>8 DEF Claims
  <2>15. \A q \in Requests : pc'[q] = "issue" => \A i \in 1..Len(pairs) : pairs[i].from # call[q].token
    <3>1. ASSUME NEW q \in Requests, q # r, pc'[q] = "issue"
          PROVE  pc[q] = "issue"
      <4>1. Holds(q)'
        BY <1>1, <3>1 DEF Typed, CallsMatch, RefreshPlaces, Holds
      <4> QED
        BY <2>5, <3>1, <4>1
    <3> QED
      BY <2>4, <3>1 DEF Claims
  <2> QED
    BY <2>1, <2>6, <2>10, <2>11, <2>12, <2>13, <2>14, <2>15 DEF Claims, RotatesOnce
<1>4. CASE \E r \in Requests : RefreshIssues(r) \/ OpensSession(r)
  <2> PICK r \in Requests : RefreshIssues(r) \/ OpensSession(r)
    BY <1>4
  <2>1. PICK session, from :
          /\ Issue(r, session, from)
          /\ from = 0 \/ (pc[r] = "issue" /\ from = call[r].token)
    BY DEF RefreshIssues, OpensSession
  <2>2. /\ pairs' = Append(pairs, [session |-> session, version |-> seen[r].version,
                                   issued |-> now, from |-> from])
        /\ usedUntil' = usedUntil /\ call' = call /\ pc' = [pc EXCEPT ![r] = "done"]
    BY <2>1 DEF Issue, Return, begun, keys
  <2>3. /\ Len(pairs') = Len(pairs) + 1 /\ Len(pairs) \in Nat
        /\ \A i \in 1..Len(pairs) : pairs'[i] = pairs[i] /\ Expiry(i)' = Expiry(i)
        /\ pairs'[Len(pairs) + 1].from = from
    BY <2>2 DEF Typed, TypeOK, Expiry
  <2>4. Len(pairs) + 1 \in Pairs
    BY <1>1, <2>3, NewPairInRange
  <2>5. \A q \in Requests : Holds(q)' => Holds(q)
    <3>1. \A q \in Requests : ~RefreshConsumes(q)
      BY <2>3 DEF RefreshConsumes
    <3> QED
      BY <3>1, HoldersAreOld
  <2>6. \A q \in Requests : pc'[q] = "issue" => q # r /\ pc[q] = "issue"
    BY <2>2 DEF Typed, TypeOK
  <2>7. from # 0 => Holds(r)
    BY <2>1 DEF Holds, Typed, CallsMatch, RefreshPlaces
  <2>8. from # 0 => \A i \in 1..Len(pairs) : pairs[i].from # from
    BY <2>1 DEF Claims
  <2>9. RotatesOnce'
    BY <2>3, <2>8 DEF Claims, RotatesOnce
  <2>10. \A q \in Requests : pc'[q] = "issue" => \A i \in 1..Len(pairs') : pairs'[i].from # call'[q].token
    <3>1. ASSUME NEW q \in Requests, pc'[q] = "issue"
          PROVE  call[q].token # from
      <4>1. Holds(q) /\ q # r /\ call[q].token # 0
        BY <2>6, <3>1 DEF Holds, Typed, CallsMatch, RefreshPlaces
      <4> QED
        BY <2>1, <2>7, <4>1 DEF Claims
    <3> QED
      BY <2>2, <2>3, <2>6, <3>1 DEF Claims
  <2>11. \A i \in 1..Len(pairs') : pairs'[i].from # 0 => usedUntil'[pairs'[i].from] # 0
    BY <2>1, <2>2, <2>3, <2>7 DEF Claims
  <2>12. /\ \A i \in 1..Len(pairs') : usedUntil'[i] \in {0, Expiry(i)'}
         /\ \A i \in Pairs : i > Len(pairs') => usedUntil'[i] = 0
    BY <2>2, <2>3, <2>4, PairIsNumber DEF Claims
  <2> QED
    BY <2>2, <2>5, <2>9, <2>10, <2>11, <2>12 DEF Claims
<1>5. CASE /\ ~\E r \in Requests :
                  RefreshConsumes(r) /\ (pc'[r] = "issue" \/ usedUntil' # usedUntil)
           /\ ~\E r \in Requests : RefreshIssues(r) \/ OpensSession(r)
  <2>1. pairs' = pairs
    BY <1>5, PairsGrow
  <2>2. usedUntil' = usedUntil
    BY <1>5, KeysOfUsedTokens
  <2> QED
    BY <1>2, <1>5, <2>1, <2>2, HoldersAreOld
<1> QED
  BY <1>3, <1>4, <1>5

-----------------------------------------------------------------------------
(* What was accepted was in force.                                         *)

\* A version of the row has one password.
VersionsGrow ==
  \A k, m \in 1..Len(users) :
    k <= m => /\ users[k].version <= users[m].version
              /\ users[k].version = users[m].version => users[k].password = users[m].password

Begun(r) == pc[r] # "idle" => since[r].users \in 1..Len(users)

\* The account was active, with the password or the version presented ...
WasValid(r) ==
  \E k \in since[r].users..Len(users) :
    /\ users[k].active
    /\ call[r].op = "login" => users[k].password = call[r].password
    /\ call[r].op # "login" => users[k].version = pairs[call[r].token].version

\* ... and the old password was its password.
KnewPassword(r) == \E k \in since[r].users..Len(users) : users[k].password = call[r].password

Moments ==
  /\ VersionsGrow
  /\ \A r \in Requests :
       /\ Begun(r)
       /\ \/ pc[r] \in {"open", "consume", "issue", "compare", "update"}
          \/ answer[r] = "OK" /\ call[r].op # "logout"
          => WasValid(r)
       /\ pc[r] = "update" \/ (answer[r] = "OK" /\ call[r].op = "change") => KnewPassword(r)

LEMMA InitMoments == Init => Moments
  BY DEF Init, Moments, VersionsGrow, Begun

LEMMA NextVersionsGrow == Typed /\ VersionsGrow /\ [Next]_vars => VersionsGrow'
<1> SUFFICES ASSUME Typed, VersionsGrow, [Next]_vars PROVE VersionsGrow'
  OBVIOUS
<1>1. /\ users \in Seq(Account) /\ Len(users) \in Nat \ {0} /\ User \in Account
      /\ \A k \in 1..Len(users) : users[k].version \in Nat
  BY TypedCurrent DEF Typed, TypeOK, Account
<1>2. CASE users' = users
  BY <1>2 DEF VersionsGrow
<1>3. ASSUME NEW row \in Account, users' = Append(users, row),
             \/ row.version = User.version + 1
             \/ row.version = User.version /\ row.password = User.password
      PROVE  VersionsGrow'
  <2>1. /\ Len(users') = Len(users) + 1 /\ users'[Len(users) + 1] = row
        /\ \A k \in 1..Len(users) : users'[k] = users[k]
    BY <1>1, <1>3
  <2>2. \A k \in 1..Len(users) :
          /\ users[k].version <= User.version
          /\ users[k].version = User.version => users[k].password = User.password
    BY <1>1 DEF VersionsGrow, User
  <2>3. \A k \in 1..Len(users) :
          /\ users[k].version <= row.version
          /\ users[k].version = row.version => users[k].password = row.password
    <3>1. User.version \in Nat /\ \A k \in 1..Len(users) : users[k].version \in Nat
      BY <1>1 DEF Account
    <3>2. CASE row.version = User.version + 1
      BY <2>2, <3>1, <3>2
    <3>3. CASE row.version = User.version /\ row.password = User.password
      BY <2>2, <3>3
    <3> QED
      BY <1>3, <3>2, <3>3
  <2>4. row.version \in Nat
    BY DEF Account
  <2> QED
    BY <1>1, <2>1, <2>3, <2>4 DEF VersionsGrow
<1> QED
  BY <1>2, <1>3, UsersGrow

\* What was so at a moment of a request stays so.
LEMMA EvidenceStays ==
  ASSUME Typed, [Next]_vars, NEW r \in Requests, Begun(r), pc[r] # "idle", call'[r] = call[r],
         since'[r] = since[r], call[r].op \in {"login", "refresh", "access", "change"}
  PROVE  /\ WasValid(r) => WasValid(r)'
         /\ KnewPassword(r) => KnewPassword(r)'
         /\ Begun(r)'
<1>1. /\ Len(users) <= Len(users') /\ Len(users') \in Nat /\ Len(users) \in Nat
      /\ \A k \in 1..Len(users) : users'[k] = users[k]
  BY UsersKept, TypedCurrent DEF Typed
<1>2. since[r].users \in 1..Len(users)
  BY DEF Begun
<1>3. \A k \in since[r].users..Len(users) :
        k \in since'[r].users..Len(users') /\ users'[k] = users[k]
  BY <1>1, <1>2
<1>4. call[r].op # "login" => pairs'[call[r].token] = pairs[call[r].token]
  BY PairsGrow DEF Typed, CallsMatch
<1> QED
  BY <1>1, <1>2, <1>3, <1>4 DEF WasValid, KnewPassword, Begun

\* The row as it stands is a moment of a request.
LEMMA NowIsAMoment ==
  ASSUME Typed, NEW r \in Requests, Begun(r), pc[r] # "idle"
  PROVE  Len(users) \in since[r].users..Len(users) /\ users[Len(users)] = User
  BY TypedCurrent DEF Begun, Typed, User

\* What Moments says of one request.
MomentsOf(r) ==
  /\ Begun(r)
  /\ \/ pc[r] \in {"open", "consume", "issue", "compare", "update"}
     \/ answer[r] = "OK" /\ call[r].op # "logout"
     => WasValid(r)
  /\ pc[r] = "update" \/ (answer[r] = "OK" /\ call[r].op = "change") => KnewPassword(r)

LEMMA MomentsOfOthers ==
  ASSUME Typed, [Next]_vars, NEW r \in Requests, MomentsOf(r),
         pc'[r] = pc[r], answer'[r] = answer[r], call'[r] = call[r], since'[r] = since[r]
  PROVE  MomentsOf(r)'
<1>1. CASE pc[r] = "idle"
  BY <1>1 DEF MomentsOf, Begun, Typed, CallsMatch
<1>2. CASE pc[r] # "idle" /\ call[r].op = "logout"
  <2>1. Begun(r)'
    BY <1>2, UsersKept DEF MomentsOf, Begun
  <2>2. pc[r] \notin {"open", "consume", "issue", "compare", "update"}
    BY <1>2 DEF Typed, CallsMatch, RefreshPlaces
  <2> QED
    BY <1>2, <2>1, <2>2 DEF MomentsOf
<1>3. CASE pc[r] # "idle" /\ call[r].op # "logout"
  <2>1. call[r].op \in {"login", "refresh", "access", "change"}
    BY <1>3, CallFields DEF Typed, CallsMatch
  <2> QED
    BY <1>3, <2>1, EvidenceStays DEF MomentsOf
<1> QED
  BY <1>1, <1>2, <1>3

LEMMA MomentsOfActor ==
  ASSUME Typed, [Next]_vars, NEW r \in Requests, MomentsOf(r), HandlerSteps(r)
  PROVE  MomentsOf(r)'
<1> USE DEF Typed, TypeOK
<1>1. CASE Begin(r)
  <2>1. /\ since'[r].users = Len(users) /\ users' = users /\ answer'[r] = "none"
        /\ pc'[r] \notin {"open", "consume", "issue", "compare", "update"}
    BY <1>1, CallFields DEF Begin, Goto, FirstStep, CallsMatch, stores
  <2> QED
    BY <2>1, TypedCurrent DEF MomentsOf, Begun
<1>2. CASE ~Begin(r)
  <2>1. pc[r] \notin {"idle", "done"} /\ call' = call /\ since' = since /\ answer[r] = "none"
    <3>1. pc[r] # "idle"
      BY <1>2 DEF HandlerSteps, Step, Login, Authenticates, OpensSession, Refresh,
         RefreshChecksSession, RefreshReadsUser, RefreshConsumes, RefreshIssues, RefreshRevokes,
         Logout, LogoutRevokes, AccessOrChange, ValidatesAccess, ChangeCompares, ChangeUpdates, Fail
    <3> QED
      BY <3>1, ActsAlone, NotAnswered
  <2>2. call[r].op \in {"login", "refresh", "access", "change", "logout"}
    BY <2>1, CallFields DEF CallsMatch
  <2>3. Begun(r)'
    BY <2>1, UsersKept DEF MomentsOf, Begun
  <2>4. CASE call[r].op = "logout"
    <3>1. pc[r] = "logout"
      BY <2>1, <2>4 DEF CallsMatch, RefreshPlaces
    <3>2. pc'[r] = "done"
      BY <1>2, <3>1 DEF HandlerSteps, Step, Login, Authenticates, OpensSession, Refresh,
         RefreshChecksSession, RefreshReadsUser, RefreshConsumes, RefreshIssues, RefreshRevokes,
         Logout, LogoutRevokes, AccessOrChange, ValidatesAccess, ChangeCompares, ChangeUpdates, Fail,
         Acknowledged, Return
    <3> QED
      BY <2>1, <2>3, <2>4, <3>2 DEF MomentsOf
  <2>5. CASE call[r].op # "logout"
    <3>1. /\ WasValid(r) => WasValid(r)'
          /\ KnewPassword(r) => KnewPassword(r)'
      BY <2>1, <2>2, <2>5, EvidenceStays DEF MomentsOf
    <3>2. Len(users) \in since[r].users..Len(users) /\ users[Len(users)] = User
      BY <2>1, NowIsAMoment DEF MomentsOf
    <3>3. CASE Authenticates(r)
      <4>1. pc'[r] \in {"open", "done"} /\ answer'[r] # "OK"
        BY <2>1, <3>3 DEF Authenticates, Goto, Return
      <4>2. pc'[r] = "open" => WasValid(r)
        BY <3>2, <3>3 DEF Authenticates, Goto, Return, WasValid, CallsMatch
      <4> QED
        BY <2>3, <3>1, <4>1, <4>2 DEF MomentsOf
    <3>4. CASE OpensSession(r) \/ RefreshIssues(r)
      <4>1. WasValid(r) /\ pc'[r] = "done" /\ call[r].op # "change"
        BY <3>4 DEF OpensSession, RefreshIssues, Issue, Return, MomentsOf, CallsMatch, RefreshPlaces
      <4> QED
        BY <2>1, <2>3, <3>1, <4>1 DEF MomentsOf
    <3>5. CASE RefreshChecksSession(r) \/ RefreshRevokes(r) \/ Fail(r)
      <4>1. pc'[r] \in {"user", "done"} /\ answer'[r] # "OK"
        BY <2>1, <3>5 DEF RefreshChecksSession, RefreshRevokes, Fail, Goto, Return
      <4> QED
        BY <2>3, <4>1 DEF MomentsOf
    <3>6. CASE RefreshReadsUser(r)
      <4>1. pc'[r] \in {"consume", "revoke"} /\ answer'[r] # "OK"
        BY <2>1, <3>6 DEF RefreshReadsUser, Goto
      <4>2. pc'[r] = "consume" => WasValid(r)
        BY <2>1, <3>2, <3>6 DEF RefreshReadsUser, Goto, WasValid, CallsMatch, RefreshPlaces
      <4> QED
        BY <2>3, <3>1, <4>1, <4>2 DEF MomentsOf
    <3>7. CASE RefreshConsumes(r)
      <4>1. pc'[r] \in {"issue", "revoke", "done"} /\ answer'[r] # "OK"
        BY <2>1, <3>7 DEF RefreshConsumes, Goto, Return
      <4>2. WasValid(r)
        BY <3>7 DEF RefreshConsumes, MomentsOf
      <4> QED
        BY <2>3, <3>1, <4>1, <4>2 DEF MomentsOf
    <3>8. CASE ValidatesAccess(r)
      <4>1. /\ pc'[r] \in {"compare", "done"}
            /\ answer'[r] = "OK" => call[r].op = "access"
        BY <2>1, <3>8 DEF ValidatesAccess, Goto, Return
      <4>2. pc'[r] = "compare" \/ answer'[r] = "OK" => WasValid(r)
        BY <2>1, <3>2, <3>8 DEF ValidatesAccess, Goto, Return, WasValid, CallsMatch
      <4> QED
        BY <2>1, <2>3, <3>1, <4>1, <4>2 DEF MomentsOf
    <3>9. CASE ChangeCompares(r)
      <4>1. pc'[r] \in {"update", "done"} /\ answer'[r] # "OK" /\ WasValid(r)
        BY <2>1, <3>9 DEF ChangeCompares, Goto, Return, MomentsOf
      <4>2. pc'[r] = "update" => KnewPassword(r)
        BY <3>2, <3>9 DEF ChangeCompares, Goto, Return, KnewPassword
      <4> QED
        BY <2>3, <3>1, <4>1, <4>2 DEF MomentsOf
    <3>10. CASE ChangeUpdates(r)
      <4>1. WasValid(r) /\ KnewPassword(r)
        BY <3>10 DEF ChangeUpdates, MomentsOf
      <4> QED
        BY <2>3, <3>1, <4>1 DEF MomentsOf
    <3>11. ~LogoutRevokes(r)
      BY <2>5 DEF LogoutRevokes, CallsMatch
    <3> QED
      BY <1>2, <3>3, <3>4, <3>5, <3>6, <3>7, <3>8, <3>9, <3>10, <3>11
         DEF HandlerSteps, Step, Login, Refresh, Logout, AccessOrChange
  <2> QED
    BY <2>4, <2>5
<1> QED
  BY <1>1, <1>2

LEMMA NextMoments == Typed /\ Moments /\ [Next]_vars => Moments'
<1> SUFFICES ASSUME Typed, Moments, [Next]_vars PROVE Moments'
  OBVIOUS
<1>1. VersionsGrow'
  BY NextVersionsGrow DEF Moments
<1>2. ASSUME NEW r \in Requests
      PROVE  MomentsOf(r)'
  <2>1. MomentsOf(r)
    BY DEF Moments, MomentsOf
  <2>2. CASE UserChanges \/ Tick \/ UNCHANGED vars
    BY <2>1, <2>2, OthersActNot, MomentsOfOthers
  <2>3. ASSUME NEW q \in Requests, HandlerSteps(q), q # r
        PROVE  MomentsOf(r)'
    BY <2>1, <2>3, ActsAlone, MomentsOfOthers
  <2>4. CASE HandlerSteps(r)
    BY <2>1, <2>4, MomentsOfActor
  <2> QED
    BY <2>2, <2>3, <2>4 DEF Next, HandlerSteps
<1> QED
  BY <1>1, <1>2 DEF Moments, MomentsOf

-----------------------------------------------------------------------------
(* What a revocation ends.                                                 *)

\* The key of a revoked session lasts as long as the refresh tokens it had then.
Graves ==
  /\ \A j \in 1..Len(pairs) : pairs[j].issued <= now
  /\ \A s \in Pairs : revokedUntil[s] <= now + RefreshTTL
  /\ \A j \in buried : j \in 1..Len(pairs) /\ Expiry(j) <= revokedUntil[pairs[j].session]
  /\ \A s \in Pairs : revokedUntil[s] # 0 => \E j \in buried : pairs[j].session = s

\* So a token that was buried when a request began has expired when the request
\* gets past the check of its session, and is not claimed.
GravesOf(r) ==
  /\ since[r].buried \subseteq buried
  /\ pc[r] \in {"user", "consume"} /\ call[r].token \in since[r].buried => Expiry(call[r].token) <= now
  /\ pc[r] = "issue" \/ (answer[r] = "OK" /\ call[r].op = "refresh") =>
       call[r].token \notin since[r].buried

Burials == Graves /\ \A r \in Requests : GravesOf(r)

LEMMA InitBurials == Init => Burials
  BY SessionAssumption DEF Init, Burials, Graves, GravesOf

\* The clock is a number, and so is what is compared with it.
LEMMA Times ==
  ASSUME Typed
  PROVE  /\ now \in Nat /\ RefreshTTL \in Nat
         /\ \A s \in Pairs : revokedUntil[s] \in Nat
         /\ \A j \in 1..Len(pairs) : /\ pairs[j].issued \in Nat /\ pairs[j].session \in Pairs
                                    /\ Expiry(j) = pairs[j].issued + RefreshTTL
<1>1. \A j \in 1..Len(pairs) : pairs[j] \in Pair
  BY TypedCurrent DEF Typed
<1>2. \A j \in 1..Len(pairs) : pairs[j].issued \in Nat /\ pairs[j].session \in Pairs
  BY <1>1 DEF Pair
<1> QED
  BY <1>2, SessionAssumption DEF Typed, TypeOK, Expiry

LEMMA ClockRuns ==
  ASSUME Typed, [Next]_vars
  PROVE  now \in Nat /\ now' \in Nat /\ now <= now'
<1>1. now \in Nat
  BY Times
<1>2. now' = now \/ now' = now + 1
  BY ActsAlone DEF Next, HandlerSteps, UserChanges, Tick, vars, begun
<1> QED
  BY <1>1, <1>2

LEMMA NextGraves == Typed /\ Graves /\ [Next]_vars => Graves'
<1> SUFFICES ASSUME Typed, Graves, [Next]_vars PROVE Graves'
  OBVIOUS
<1>1. /\ now \in Nat /\ now' \in Nat /\ now <= now'
      /\ Len(pairs) <= Len(pairs') /\ Len(pairs) \in Nat /\ Len(pairs') \in Nat
      /\ \A j \in 1..Len(pairs) : pairs'[j] = pairs[j] /\ Expiry(j)' = Expiry(j)
  BY ClockRuns, PairsGrow, TypedCurrent DEF Typed
<1>2. Typed'
  BY NextTyped
<1>3. \A j \in 1..Len(pairs') : pairs'[j].issued <= now'
  <2>1. \A j \in 1..Len(pairs) : pairs'[j].issued <= now'
    BY <1>1, Times DEF Graves
  <2>2. CASE pairs' = pairs
    BY <2>1, <2>2
  <2>3. ASSUME NEW r \in Requests, NEW session, NEW from, Issue(r, session, from)
        PROVE  \A j \in 1..Len(pairs') : pairs'[j].issued <= now'
    <3>1. /\ Len(pairs') = Len(pairs) + 1
          /\ pairs'[Len(pairs) + 1].issued = now
      BY <2>3 DEF Issue, Typed, TypeOK
    <3> QED
      BY <1>1, <2>1, <3>1
  <2> QED
    BY <2>2, <2>3, PairsGrow DEF RefreshIssues, OpensSession
<1>4. CASE UNCHANGED <<revokedUntil, buried>>
  <2>1. \A s \in Pairs : revokedUntil'[s] <= now' + RefreshTTL
    BY <1>1, <1>4, Times DEF Graves
  <2>2. \A j \in buried' : j \in 1..Len(pairs') /\ Expiry(j)' <= revokedUntil'[pairs'[j].session]
    BY <1>1, <1>4 DEF Graves
  <2>3. \A s \in Pairs : revokedUntil'[s] # 0 => \E j \in buried' : pairs'[j].session = s
    BY <1>1, <1>4 DEF Graves
  <2> QED
    BY <1>3, <2>1, <2>2, <2>3 DEF Graves
<1>5. ASSUME now' = now, pairs' = pairs, NEW i \in 1..Len(pairs), Revoke(pairs[i].session)
      PROVE  Graves'
  <2>1. pairs[i].session \in Pairs
    BY Times
  <2>2. /\ revokedUntil' = [revokedUntil EXCEPT ![pairs[i].session] = now + RefreshTTL]
        /\ buried' = buried \cup {j \in 1..Len(pairs) : pairs[j].session = pairs[i].session}
    BY <1>5 DEF Revoke
  <2>3. \A s \in Pairs : revokedUntil'[s] = IF s = pairs[i].session THEN now + RefreshTTL ELSE revokedUntil[s]
    BY <2>1, <2>2 DEF Typed, TypeOK
  <2>4. \A s \in Pairs : revokedUntil'[s] <= now' + RefreshTTL
    BY <1>5, <2>3, Times DEF Graves
  <2>5. ASSUME NEW j \in buried'
        PROVE  j \in 1..Len(pairs') /\ Expiry(j)' <= revokedUntil'[pairs'[j].session]
    <3>1. j \in 1..Len(pairs) /\ pairs[j].session \in Pairs
      BY <2>2, Times DEF Graves
    <3>2. Expiry(j) <= now + RefreshTTL
      BY <3>1, Times DEF Graves
    <3>3. pairs[j].session # pairs[i].session => j \in buried
      BY <2>2
    <3> QED
      BY <1>1, <1>5, <2>3, <3>1, <3>2, <3>3 DEF Graves
  <2>6. \A s \in Pairs : revokedUntil'[s] # 0 => \E j \in buried' : pairs'[j].session = s
    BY <1>5, <2>2, <2>3 DEF Graves
  <2> QED
    BY <1>3, <2>4, <2>5, <2>6 DEF Graves
<1> QED
  BY <1>4, <1>5, RevocationsGrow

\* Pairs stay buried.
LEMMA BuriedStay ==
  ASSUME Typed, [Next]_vars
  PROVE  buried \subseteq buried'
  BY RevocationsGrow DEF Revoke

LEMMA GravesOfOthers ==
  ASSUME Typed, Graves, [Next]_vars, NEW r \in Requests, GravesOf(r),
         pc'[r] = pc[r], answer'[r] = answer[r], call'[r] = call[r], since'[r] = since[r]
  PROVE  GravesOf(r)'
<1>1. since'[r].buried \subseteq buried'
  BY BuriedStay DEF GravesOf
<1>2. ASSUME pc[r] \in {"user", "consume"}, call[r].token \in since[r].buried
      PROVE  Expiry(call[r].token)' <= now'
  <2>1. call[r].token \in 1..Len(pairs) /\ Expiry(call[r].token) <= now
    BY <1>2 DEF GravesOf, Typed, CallsMatch, RefreshPlaces
  <2>2. pairs'[call'[r].token] = pairs[call[r].token]
    BY <2>1, PairsGrow
  <2>3. /\ pairs[call[r].token].issued + RefreshTTL \in Nat
        /\ pairs[call[r].token].issued + RefreshTTL <= now
    BY <2>1, Times
  <2>4. pairs'[call'[r].token].issued + RefreshTTL <= now'
    BY <2>2, <2>3, ClockRuns
  <2> QED
    BY <2>4 DEF Expiry
<1> QED
  BY <1>1, <1>2 DEF GravesOf

LEMMA GravesOfActor ==
  ASSUME Typed, Graves, [Next]_vars, NEW r \in Requests, GravesOf(r), HandlerSteps(r)
  PROVE  GravesOf(r)'
<1> USE DEF Typed, TypeOK
<1>1. CASE Begin(r)
  <2>1. /\ since'[r].buried = buried /\ buried' = buried /\ answer'[r] = "none"
        /\ pc'[r] \notin {"user", "consume", "issue"}
    BY <1>1, CallFields DEF Begin, Goto, FirstStep, CallsMatch, stores, keys
  <2> QED
    BY <2>1 DEF GravesOf
<1>2. CASE ~Begin(r)
  <2>1. pc[r] \notin {"idle", "done"} /\ call' = call /\ since' = since /\ answer[r] = "none"
    <3>1. pc[r] # "idle"
      BY <1>2 DEF HandlerSteps, Step, Login, Authenticates, OpensSession, Refresh,
         RefreshChecksSession, RefreshReadsUser, RefreshConsumes, RefreshIssues, RefreshRevokes,
         Logout, LogoutRevokes, AccessOrChange, ValidatesAccess, ChangeCompares, ChangeUpdates, Fail
    <3> QED
      BY <3>1, ActsAlone, NotAnswered
  <2>2. since'[r].buried \subseteq buried'
    BY <2>1, BuriedStay DEF GravesOf
  <2>3. CASE ~Refresh(r)
    <3>1. pc'[r] \notin {"user", "consume", "issue"}
      BY <1>2, <2>3 DEF HandlerSteps, Step, Login, Authenticates, OpensSession, Logout, LogoutRevokes,
         AccessOrChange, ValidatesAccess, ChangeCompares, ChangeUpdates, Fail, Issue, Goto, Return,
         Acknowledged
    <3>2. answer'[r] = "OK" => call[r].op # "refresh"
      BY <1>2, <2>1, <2>3 DEF HandlerSteps, Step, Login, Authenticates, OpensSession, Logout,
         LogoutRevokes, AccessOrChange, ValidatesAccess, ChangeCompares, ChangeUpdates, Fail, Issue,
         Goto, Return, Acknowledged, CallsMatch
    <3> QED
      BY <2>1, <2>2, <3>1, <3>2 DEF GravesOf
  <2>4. CASE Refresh(r)
    <3> DEFINE j == call[r].token
    <3>1. j \in 1..Len(pairs) /\ pairs[j].session \in Pairs
      BY <2>4, Times DEF Refresh, RefreshChecksSession, RefreshReadsUser, RefreshConsumes,
         RefreshIssues, RefreshRevokes, CallsMatch, RefreshPlaces
    <3>2. /\ now \in Nat /\ Expiry(j) \in Nat /\ revokedUntil[pairs[j].session] \in Nat
          /\ now' = now /\ Expiry(j)' = Expiry(j) /\ call'[r].token = j
      BY <2>1, <3>1, ActsAlone, PairsGrow, Times, TypedCurrent DEF Expiry
    <3>3. CASE RefreshChecksSession(r)
      <4>1. pc'[r] \in {"user", "done"} /\ answer'[r] # "OK"
        BY <2>1, <3>3 DEF RefreshChecksSession, Goto, Return
      <4>2. pc'[r] = "user" => ~Revoked(pairs[j].session)
        BY <3>3 DEF RefreshChecksSession, Goto, Return
      <4>3. j \in since[r].buried => Expiry(j) <= revokedUntil[pairs[j].session]
        BY DEF GravesOf, Graves
      <4>4. pc'[r] = "user" /\ j \in since[r].buried => Expiry(j) <= now
        BY <3>2, <4>2, <4>3 DEF Revoked
      <4> QED
        BY <2>1, <2>2, <3>2, <4>1, <4>4 DEF GravesOf
    <3>4. CASE RefreshReadsUser(r)
      <4>1. pc'[r] \in {"consume", "revoke"} /\ answer'[r] # "OK" /\ pc[r] = "user"
        BY <2>1, <3>4 DEF RefreshReadsUser, Goto
      <4> QED
        BY <2>1, <2>2, <3>2, <4>1 DEF GravesOf
    <3>5. CASE RefreshConsumes(r)
      <4>1. pc'[r] \in {"issue", "revoke", "done"} /\ answer'[r] # "OK"
        BY <2>1, <3>5 DEF RefreshConsumes, Goto, Return
      <4>2. pc'[r] = "issue" => now < Expiry(j)
        BY <3>5 DEF RefreshConsumes, Goto, Return
      <4>3. pc'[r] = "issue" => j \notin since[r].buried
        BY <3>2, <3>5, <4>2 DEF RefreshConsumes, GravesOf
      <4> QED
        BY <2>1, <2>2, <4>1, <4>3 DEF GravesOf
    <3>6. CASE RefreshIssues(r)
      <4>1. pc'[r] = "done" /\ j \notin since[r].buried
        BY <3>6 DEF RefreshIssues, Issue, Return, GravesOf
      <4> QED
        BY <2>1, <2>2, <4>1 DEF GravesOf
    <3>7. CASE RefreshRevokes(r)
      <4>1. pc'[r] = "done" /\ answer'[r] # "OK"
        BY <2>1, <3>7 DEF RefreshRevokes, Return
      <4> QED
        BY <2>2, <4>1 DEF GravesOf
    <3> QED
      BY <2>4, <3>3, <3>4, <3>5, <3>6, <3>7 DEF Refresh
  <2> QED
    BY <2>3, <2>4
<1> QED
  BY <1>1, <1>2

LEMMA NextBurials == Typed /\ Burials /\ [Next]_vars => Burials'
<1> SUFFICES ASSUME Typed, Burials, [Next]_vars PROVE Burials'
  OBVIOUS
<1>1. Graves'
  BY NextGraves DEF Burials
<1>2. ASSUME NEW r \in Requests
      PROVE  GravesOf(r)'
  <2>1. GravesOf(r) /\ Graves
    BY DEF Burials
  <2>2. CASE UserChanges \/ Tick \/ UNCHANGED vars
    BY <2>1, <2>2, OthersActNot, GravesOfOthers
  <2>3. ASSUME NEW q \in Requests, HandlerSteps(q), q # r
        PROVE  GravesOf(r)'
    BY <2>1, <2>3, ActsAlone, GravesOfOthers
  <2>4. CASE HandlerSteps(r)
    BY <2>1, <2>4, GravesOfActor
  <2> QED
    BY <2>2, <2>3, <2>4 DEF Next, HandlerSteps
<1> QED
  BY <1>1, <1>2 DEF Burials

-----------------------------------------------------------------------------
(* What a second presentation of a refresh token brings about.             *)

\* The session of a pair was revoked, or its version is an old one.
Ended(j) ==
  \/ \E i \in buried : pairs[i].session = pairs[j].session
  \/ pairs[j].version # User.version

\* No pair and no handler is ahead of the row.
Versions ==
  /\ \A r \in Requests : seen[r].version <= User.version
  /\ \A j \in 1..Len(pairs) : pairs[j].version <= User.version

ReplaysOf(r) ==
  /\ pc[r] = "revoke" /\ verdict[r] = "SessionRevoked" => pairs[call[r].token].version # User.version
  /\ answer[r] = "SessionRevoked" /\ call[r].op = "refresh" => Ended(call[r].token)

Replays == Versions /\ \A r \in Requests : ReplaysOf(r)

LEMMA InitReplays == Init => Replays
  BY DEF Init, Replays, Versions, ReplaysOf, User

LEMMA VersionTypes ==
  ASSUME Typed
  PROVE  /\ User.version \in Nat
         /\ \A j \in 1..Len(pairs) : pairs[j].version \in Nat
         /\ \A r \in Requests : seen[r].version \in Nat
<1>1. User \in Account /\ \A j \in 1..Len(pairs) : pairs[j] \in Pair
  BY TypedCurrent DEF Typed
<1>2. \A r \in Requests : seen[r] \in Account
  BY DEF Typed, TypeOK
<1> QED
  BY <1>1, <1>2 DEF Account, Pair

\* The row a handler has read is the one it had read or the present one.
LEMMA SeenIsRead ==
  ASSUME Typed, [Next]_vars, NEW r \in Requests
  PROVE  seen'[r] \in {seen[r], User}
<1>1. ASSUME NEW q \in Requests, HandlerSteps(q), q # r
      PROVE  seen'[r] = seen[r]
  BY <1>1, ActsAlone
<1>2. CASE HandlerSteps(r)
  BY <1>2 DEF HandlerSteps, Begin, Step, Login, Authenticates, OpensSession, Issue, Refresh,
     RefreshChecksSession, RefreshReadsUser, RefreshConsumes, RefreshIssues, RefreshRevokes, Logout,
     LogoutRevokes, AccessOrChange, ValidatesAccess, ChangeCompares, ChangeUpdates, Fail, Typed, TypeOK
<1> QED
  BY <1>1, <1>2, OthersActNot DEF Next, HandlerSteps

LEMMA NextVersions == Typed /\ Versions /\ [Next]_vars => Versions'
<1> SUFFICES ASSUME Typed, Versions, [Next]_vars PROVE Versions'
  OBVIOUS
<1>1. User.version \in Nat /\ User'.version \in Nat /\ User.version <= User'.version
  <2>1. User'.version \in Nat
    <3>1. Typed'
      BY NextTyped
    <3>2. users' \in Seq(Account) /\ users' # <<>>
      BY <3>1 DEF Typed, TypeOK
    <3>3. users'[Len(users')] \in Account
      BY <3>2
    <3> QED
      BY <3>3 DEF User, Account
  <2> QED
    BY <2>1, UsersKept, VersionTypes
<1>2. \A r \in Requests : seen'[r].version <= User'.version
  BY <1>1, SeenIsRead, VersionTypes DEF Versions
<1>3. \A j \in 1..Len(pairs) : pairs'[j].version <= User'.version
  BY <1>1, PairsGrow, VersionTypes DEF Versions
<1>4. CASE pairs' = pairs
  BY <1>2, <1>3, <1>4 DEF Versions
<1>5. ASSUME NEW r \in Requests, NEW session, NEW from, Issue(r, session, from)
      PROVE  Versions'
  <2>1. /\ Len(pairs') = Len(pairs) + 1
        /\ pairs'[Len(pairs) + 1].version = seen[r].version
    BY <1>5 DEF Issue, Typed, TypeOK
  <2>2. seen[r].version <= User'.version
    BY <1>1, VersionTypes DEF Versions
  <2>3. Len(pairs) \in Nat
    BY TypedCurrent DEF Typed
  <2> QED
    BY <1>2, <1>3, <2>1, <2>2, <2>3 DEF Versions
<1> QED
  BY <1>4, <1>5, PairsGrow DEF RefreshIssues, OpensSession

\* An old version stays old.
LEMMA OldStaysOld ==
  ASSUME Typed, Versions, [Next]_vars, NEW j \in 1..Len(pairs), pairs[j].version # User.version
  PROVE  pairs'[j].version # User'.version
<1>1. User'.version \in Nat
  <2>1. Typed'
    BY NextTyped
  <2>2. users' \in Seq(Account) /\ users' # <<>>
    BY <2>1 DEF Typed, TypeOK
  <2>3. users'[Len(users')] \in Account
    BY <2>2
  <2> QED
    BY <2>3 DEF User, Account
<1>2. pairs[j].version <= User.version /\ pairs[j].version \in Nat /\ User.version \in Nat
  BY VersionTypes DEF Versions
<1>3. pairs'[j] = pairs[j] /\ User.version <= User'.version
  BY PairsGrow, UsersKept
<1> QED
  BY <1>1, <1>2, <1>3

LEMMA EndedStays ==
  ASSUME Typed, Versions, Graves, [Next]_vars, NEW j \in 1..Len(pairs), Ended(j)
  PROVE  /\ \/ \E i \in buried' : pairs'[i].session = pairs'[j].session
            \/ pairs'[j].version # User'.version
<1>1. CASE \E i \in buried : pairs[i].session = pairs[j].session
  BY <1>1, BuriedStay, PairsGrow DEF Graves
<1>2. CASE pairs[j].version # User.version
  BY <1>2, OldStaysOld
<1> QED
  BY <1>1, <1>2 DEF Ended

LEMMA ReplaysOfOthers ==
  ASSUME Typed, Versions, Graves, [Next]_vars, NEW r \in Requests, ReplaysOf(r),
         pc'[r] = pc[r], answer'[r] = answer[r], call'[r] = call[r], verdict'[r] = verdict[r]
  PROVE  ReplaysOf(r)'
<1>1. pc[r] = "revoke" \/ (answer[r] # "none" /\ call[r].op = "refresh") => call[r].token \in 1..Len(pairs)
  BY DEF Typed, CallsMatch, RefreshPlaces
<1> QED
  BY ZenonT(60), <1>1, OldStaysOld, EndedStays DEF ReplaysOf, Ended, Typed, TypeOK

LEMMA ReplaysOfActor ==
  ASSUME Typed, Versions, Graves, [Next]_vars, NEW r \in Requests, ReplaysOf(r), HandlerSteps(r)
  PROVE  ReplaysOf(r)'
<1> USE DEF Typed, TypeOK
<1>1. CASE Begin(r)
  <2>1. answer'[r] = "none" /\ pc'[r] # "revoke"
    BY <1>1, CallFields DEF Begin, Goto, FirstStep, CallsMatch
  <2> QED
    BY <2>1 DEF ReplaysOf
<1>2. CASE ~Begin(r)
  <2>1. pc[r] \notin {"idle", "done"} /\ call' = call /\ answer[r] = "none"
    <3>1. pc[r] # "idle"
      BY <1>2 DEF HandlerSteps, Step, Login, Authenticates, OpensSession, Refresh,
         RefreshChecksSession, RefreshReadsUser, RefreshConsumes, RefreshIssues, RefreshRevokes,
         Logout, LogoutRevokes, AccessOrChange, ValidatesAccess, ChangeCompares, ChangeUpdates, Fail
    <3> QED
      BY <3>1, ActsAlone, NotAnswered
  <2>2. CASE ~Refresh(r)
    <3>1. pc'[r] # "revoke"
      BY <1>2, <2>2 DEF HandlerSteps, Step, Login, Authenticates, OpensSession, Logout, LogoutRevokes,
         AccessOrChange, ValidatesAccess, ChangeCompares, ChangeUpdates, Fail, Issue, Goto, Return,
         Acknowledged
    <3>2. answer'[r] = "SessionRevoked" => call[r].op # "refresh"
      BY <1>2, <2>1, <2>2 DEF HandlerSteps, Step, Login, Authenticates, OpensSession, Logout,
         LogoutRevokes, AccessOrChange, ValidatesAccess, ChangeCompares, ChangeUpdates, Fail, Issue,
         Goto, Return, Acknowledged, CallsMatch
    <3> QED
      BY <2>1, <3>1, <3>2 DEF ReplaysOf
  <2>3. CASE Refresh(r)
    <3> DEFINE j == call[r].token
    <3>1. j \in 1..Len(pairs) /\ pairs[j].session \in Pairs
      BY <2>3, Times DEF Refresh, RefreshChecksSession, RefreshReadsUser, RefreshConsumes,
         RefreshIssues, RefreshRevokes, CallsMatch, RefreshPlaces
    <3>2. CASE RefreshChecksSession(r)
      <4>1. pc'[r] # "revoke" /\ UNCHANGED <<pairs, buried, users>>
        BY <2>1, <3>2 DEF RefreshChecksSession, Goto, Return, stores, keys
      <4>2. answer'[r] = "SessionRevoked" => Revoked(pairs[j].session)
        BY <2>1, <3>2 DEF RefreshChecksSession, Goto, Return
      <4>3. answer'[r] = "SessionRevoked" => revokedUntil[pairs[j].session] # 0
        BY <3>1, <4>2, Times DEF Revoked
      <4>4. answer'[r] = "SessionRevoked" => \E i \in buried : pairs[i].session = pairs[j].session
        BY <3>1, <4>3 DEF Graves
      <4> QED
        BY <2>1, <4>1, <4>4 DEF ReplaysOf, Ended
    <3>3. CASE RefreshReadsUser(r)
      <4>1. answer'[r] = "none" /\ UNCHANGED <<pairs, users>>
        BY <2>1, <3>3 DEF RefreshReadsUser, Goto, stores
      <4>2. pc'[r] = "revoke" /\ verdict'[r] = "SessionRevoked" => pairs[j].version # User.version
        BY <3>3 DEF RefreshReadsUser, Goto
      <4>3. User' = User
        BY <4>1 DEF User
      <4> QED
        BY <2>1, <4>1, <4>2, <4>3 DEF ReplaysOf
    <3>4. CASE RefreshConsumes(r)
      <4>1. answer'[r] # "SessionRevoked"
        BY <2>1, <3>4 DEF RefreshConsumes, Goto, Return
      <4>2. pc'[r] = "revoke" => verdict'[r] = "replay"
        BY <3>4 DEF RefreshConsumes, Goto, Return
      <4> QED
        BY <4>1, <4>2 DEF ReplaysOf
    <3>5. CASE RefreshIssues(r)
      <4>1. pc'[r] = "done" /\ answer'[r] = "OK"
        BY <3>5 DEF RefreshIssues, Issue, Return
      <4> QED
        BY <4>1 DEF ReplaysOf
    <3>6. CASE RefreshRevokes(r)
      <4>1. pc'[r] = "done" /\ pc[r] = "revoke" /\ UNCHANGED <<pairs, users>>
        BY <3>6 DEF RefreshRevokes, Return
      <4>2. answer'[r] = "SessionRevoked" =>
              \/ verdict[r] = "SessionRevoked"
              \/ verdict[r] = "replay" /\ Revoke(pairs[j].session)
        BY <3>6 DEF RefreshRevokes, Return
      <4>3. Revoke(pairs[j].session) => j \in buried'
        BY <3>1 DEF Revoke
      <4>4. verdict[r] = "SessionRevoked" => pairs[j].version # User.version
        BY <4>1 DEF ReplaysOf
      <4>5. User' = User
        BY <4>1 DEF User
      <4> QED
        BY <2>1, <4>1, <4>2, <4>3, <4>4, <4>5 DEF ReplaysOf, Ended
    <3> QED
      BY <2>3, <3>2, <3>3, <3>4, <3>5, <3>6 DEF Refresh
  <2> QED
    BY <2>2, <2>3
<1> QED
  BY <1>1, <1>2

LEMMA NextReplays == Typed /\ Graves /\ Replays /\ [Next]_vars => Replays'
<1> SUFFICES ASSUME Typed, Graves, Replays, [Next]_vars PROVE Replays'
  OBVIOUS
<1>1. Versions'
  BY NextVersions DEF Replays
<1>2. ASSUME NEW r \in Requests
      PROVE  ReplaysOf(r)'
  <2>1. ReplaysOf(r) /\ Versions
    BY DEF Replays
  <2>2. CASE UserChanges \/ Tick \/ UNCHANGED vars
    BY <2>1, <2>2, OthersActNot, ReplaysOfOthers
  <2>3. ASSUME NEW q \in Requests, HandlerSteps(q), q # r
        PROVE  ReplaysOf(r)'
    BY <2>1, <2>3, ActsAlone, ReplaysOfOthers
  <2>4. CASE HandlerSteps(r)
    BY <2>1, <2>4, ReplaysOfActor
  <2> QED
    BY <2>2, <2>3, <2>4 DEF Next, HandlerSteps
<1> QED
  BY <1>1, <1>2 DEF Replays

-----------------------------------------------------------------------------
(* The theorems.                                                           *)

IInv == Typed /\ Claims /\ Moments /\ Burials /\ Replays

\* What the theorems below rest on, all of it inductive.
LEMMA IInvHolds == Spec => []IInv
<1>1. Init => IInv
  BY InitTyped, InitClaims, InitMoments, InitBurials, InitReplays DEF IInv
<1>2. IInv /\ [Next]_vars => IInv'
  BY NextTyped, NextClaims, NextMoments, NextBurials, NextReplays DEF IInv, Burials
<1> QED
  BY <1>1, <1>2, PTL DEF Spec

\* The stores and the handlers are of their types, and a rotated pair stays in
\* the session of the one it came from.
THEOREM SessionTypes == Spec => []TypeOK
<1>1. IInv => TypeOK
  BY DEF IInv, Typed
<1> QED
  BY <1>1, IInvHolds, PTL

\* At most one pair comes of a refresh token, however many requests present it.
THEOREM RotatesOnceHolds == Spec => []RotatesOnce
<1>1. IInv => RotatesOnce
  BY DEF IInv, Claims
<1> QED
  BY <1>1, IInvHolds, PTL

\* What was accepted was in force at some moment of the request.
THEOREM CredentialsWereCurrentHolds == Spec => []CredentialsWereCurrent
<1>1. IInv => CredentialsWereCurrent
  <2> SUFFICES ASSUME IInv, NEW r \in Requests, answer[r] = "OK", call[r].op # "logout"
               PROVE  /\ WasValid(r)
                      /\ call[r].op = "change" => KnewPassword(r)
                      /\ \A k, m \in since[r].users..Len(users) :
                           users[k].version = users[m].version => users[k].password = users[m].password
    BY DEF CredentialsWereCurrent, WasValid, KnewPassword
  <2>1. WasValid(r) /\ (call[r].op = "change" => KnewPassword(r)) /\ Begun(r) /\ VersionsGrow
    BY DEF IInv, Moments
  <2>2. since[r].users \in 1..Len(users) /\ Len(users) \in Nat
    BY <2>1, TypedCurrent DEF IInv, Typed, CallsMatch, Begun
  <2>3. ASSUME NEW k \in since[r].users..Len(users), NEW m \in since[r].users..Len(users),
               users[k].version = users[m].version
        PROVE  users[k].password = users[m].password
    <3>1. k \in 1..Len(users) /\ m \in 1..Len(users) /\ (k <= m \/ m <= k)
      BY <2>2
    <3> QED
      BY <2>1, <2>3, <3>1 DEF VersionsGrow
  <2> QED
    BY <2>1, <2>3
<1> QED
  BY <1>1, IInvHolds, PTL

\* Two presentations of a refresh token end its session or find its version old.
THEOREM ReplayRevokesHolds == Spec => []ReplayRevokes
<1>1. IInv => ReplayRevokes
  <2> SUFFICES ASSUME IInv, NEW r \in Requests, NEW q \in Requests, r # q,
                      call[r].op = "refresh", answer[r] \in {"OK", "SessionRevoked"},
                      call[q].op = "refresh", answer[q] \in {"OK", "SessionRevoked"},
                      call[r].token = call[q].token
               PROVE  Ended(call[r].token)
    BY DEF ReplayRevokes, Ended
  <2>1. ~(answer[r] = "OK" /\ answer[q] = "OK")
    BY DEF IInv, Claims, Holds
  <2>2. CASE answer[r] = "SessionRevoked"
    BY <2>2 DEF IInv, Replays, ReplaysOf
  <2>3. CASE answer[q] = "SessionRevoked"
    <3>1. Ended(call[q].token)
      BY <2>3 DEF IInv, Replays, ReplaysOf
    <3> QED
      BY <3>1 DEF Ended
  <2> QED
    BY <2>1, <2>2, <2>3
<1> QED
  BY <1>1, IInvHolds, PTL

\* No rotation that begins after a revocation accepts a token it was for.
THEOREM RevocationOutlivesTokensHolds == Spec => []RevocationOutlivesTokens
<1>1. IInv => RevocationOutlivesTokens
  BY DEF IInv, Burials, GravesOf, RevocationOutlivesTokens
<1> QED
  BY <1>1, IInvHolds, PTL

=============================================================================
