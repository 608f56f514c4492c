# MoneyTracking backend: models, checks and proofs

A verification development of the MoneyTracking backend. The modules are
written from the Go code, the SQL migrations and the compose file; TLC checks
them on small instances, and TLAPS proves every invariant of the passing
runs and both refinements for every instance (section 4).

    tlc -workers 2 -config MCLedgerRaces.cfg MCTransactionService.tla
    tlapm SessionProofs.tla

`PROJECT.json` lists the runs, the theorems, the lines of the source each
definition stands for, the hazards the properties are for, and for each property
a plausible slip in the code that breaks it (the definitions named
`<Definition>_<Slip>`).

## 1. The system

Five programs. Browsers and phones talk HTTP to **api-gateway**, which asks
**auth-service** whether the access token is good and passes the request on by
gRPC to auth-service, **group-service** or **transaction-service**.
auth-service also has an HTTP server of its own. transaction-service calls `Me`
of auth-service and `GetMembership`, `GetGroup`, `ListMembers` of group-service,
with a timeout of five seconds a call. auth-service publishes one-time passwords
to RabbitMQ, where **email-service** picks them up and hands them to an SMTP
server. Every service has its own PostgreSQL database; auth-service also uses
Redis. No handler holds a lock or, with two exceptions, a database transaction
across two of its statements (`CreateGroup` and the inserts of
`CreateGroupTransaction` are one transaction each). So whatever a handler checks
is an observation that may be out of date when it acts on it, and every request,
in every replica, interleaves with every other at every statement.

### Inventory

| Component | State | Operations | Hard about it | Correct when |
|---|---|---|---|---|
| Group ledger (`transaction_service.go`, `postgres_repository.go`) | group_transactions, payments, splits, settlements | create, get, delete transactions; create settlements; balances | role, status and members are answers of another service, each stale when used; the balances read takes many queries; errors after the commit | nobody outside the group gets into the ledger; outcomes were authorised; balances are a snapshot and add up; a transaction is whole, balanced, never altered, deleted once |
| Ledger arithmetic (`calculation.go`, `money.go`) | none | parse and format money and ratios, allocate shares, validate payments, balances, suggestions | rounding, int64, decimal columns | largest remainder, independent of scale; all sums zero; suggestions settle everybody |
| Lists, personal entries, categories (the same files) | personal_transactions, expense_categories and the above | create, list in pages, filter, delete | a client pages while others write; page and total are two statements; a category is closed under a new entry | what was there all along is seen unless something moved it; quiet lists are complete; no entry under a category that was closed before the call |
| Sessions (`auth_service.go`, `jwt_service.go`) | users row (password, session_version, active); Redis keys used:jti and revoked:sid with lifetimes | login, refresh, logout, change password, validate access token | concurrent rotations of one token; Redis failing in mid-revocation; row read early and used late; keys and tokens expiring | a refresh token rotates once; a replay ends the family; nothing out of date is accepted |
| One-time passwords (`auth_service.go`) | payload in Redis per e-mail address and purpose | register, verify, forgot, reset | read-modify-write of the attempt count; payloads overwritten and brought back; delete after failed publish | attempts are bounded; nothing expired works; the newest password stands; a password works once |
| Mail delivery (`rabbitmq.go`, `consumer.go`, `smtp.go`) | three durable queues, deliveries held by the worker | publish with confirm, deliver, send, republish, acknowledge, expire | lost connections and confirmations, killed workers, errors after success | nothing published is lost, duplicates have a cause, retries are counted out, it ends |
| Groups (`group_service.go`) | groups, members, invitations | create, update, delete, add, remove, invite, respond | check and write are separate statements; answers to an invitation race | outcomes were due; an invitation is answered once and in time; a deleted group stays deleted |
| Menus (`menu_service.go`) | tree of menus | create, update, delete, tree | two moves under each other; deleting under a new child | cycles and orphans only by requests that overlap |
| Keys and JWKS (`jwt_service.go`, `docker-entrypoint.sh`) | key files, variables, the ring a running service read | start, sign, parse, publish | rotated by editing one thing at a time, with restarts in between; tokens outlive the service that issued them | live tokens verify; tokens keep to their use and lifetime |
| api-gateway | none; the client's cookie jar | 45 routes: authenticate, check CSRF, translate, set and clear cookies | tabs share a jar, answers overtake each other or get lost; roles are in the token | one session in the jar; nobody is logged out by his own browser without trouble; a role that is needed was held |
| HTTP side of auth-service | rate-limit counters in Redis | routes, CSRF, tokens, limits | the counter outlives or undershoots its window; Redis answers are lost | at most twice the maximum in a window; every refusal ends |
| Configuration of all services | none | load the environment | five services read the same kinds of value by different rules | (statements about `Load`, see 2) |
| Start-up and shutdown | connections, servers, calls in flight | connect, serve, drain, close, restart | signals under calls, servers that fail, peers that are not up yet | no call loses a store while it has time; a signal ends the process; everything comes up |
| Generated gRPC code | none | - | - | - |

### How the components meet in the models

- group-service changes the group between any two calls of transaction-service
  (`ChangeGroup` of TransactionService); which changes there can be is module
  GroupDirectory, and GroupService is proved to implement it.
- `ResetPassword` changes the users row under every session operation
  (`UserChanges` of Session).
- Publisher and worker meet in the queues (EmailDelivery has both).
- Gateway is composed of GatewayRoutes (what the router and the handlers are) and
  Statuses (how a refusal travels); AuthRouter compares auth-service's own router
  with the gateway's.
- SigningKeys starts its service from what Configuration makes of the environment.
- TransactionLists reads a client's words as Wire says.
- A composite MC module (`MCListsAndCalculations`, `MCMenuTree`,
  `MCOneTimePasswords`) checks components that share no state in one run: a
  variable `part` says which of them a behaviour is of, and the others rest.

## 2. The modules

| Module | Models |
|---|---|
| `Decimal` | money and ratio text, minor units, the text of a numeric column, int64 |
| `LedgerCalculation` | `AllocateShares`, `ValidatePayments`, `CalculateBalances`, `mergeBalances` as operators |
| `LedgerArithmetic` | one draft through these functions, for the checks of the arithmetic |
| `SettlementSuggestions` | the loop of `SuggestSettlements` |
| `Ledger` | abstract: what the group ledger promises |
| `TransactionService` | the handlers of the group ledger, step by step |
| `TransactionLists` | lists in pages, personal entries, categories |
| `Wire` | words, enumerations, dates and numbers between client, gateway and service |
| `Session` | the sessions of one account |
| `OneTimePasswords` | registration and reset by one-time password, for one address |
| `EmailDelivery` | publisher, RabbitMQ, worker |
| `GroupDirectory` | abstract: how a group may change |
| `GroupService` | one group, its members and invitations, statement by statement |
| `MenuTree` | menus, statement by statement |
| `Configuration` | what each service makes of its environment |
| `SigningKeys` | keys under rotation, the tokens issued with them |
| `Statuses`, `GatewayRoutes`, `Gateway` | errors and codes; routes and what handlers pass on; the gateway between clients and auth-service |
| `AuthRouter` | routes, middleware and rate limits of auth-service |
| `Deployment` | the four serving processes from start to end |
| `TransactionServiceProofs` | theorems about TransactionService, LedgerArithmetic, SettlementSuggestions |
| `SessionProofs`, `GroupServiceProofs`, `MenuTreeProofs` | about the modules of these names |
| `OneTimePasswordsProofs` | about OneTimePasswords and AuthRouter |
| `DeploymentProofs` | about Deployment, EmailDelivery and SigningKeys |
| `ClientProofs` | about what clients see through races: Gateway and TransactionLists |
| `SumTheorems` | lemmas about sums over finite sets, by induction over their subsets |
| `MC...` | instances of the above |

### Ledger arithmetic

Decimal text is a record of an unscaled number and its number of decimals, all
that parsing and formatting depend on; `ColumnText` is what PostgreSQL prints for
a `numeric(p,s)` column, and an insert fails whose value does not fit the 18 digits
of its column (`FitsColumn`). `Wrap` is int64 addition, with `MaxInt` for the largest
value and `MaxNumeric` for the largest of a column, so that small instances can reach
both. `AllocateShares` returns `Failed` where the code returns an error.
`AcceptedIsBalanced` states the one exception the code has: payments whose true sum is
beyond an int64 (`calculation.go:100` adds without a check) get through although they
do not sum to the amount.
SettlementSuggestions drops settled people from the head of its lists where the
code moves an index, and starts from every order the unstable sort may leave.

### TransactionService

One action per remote call or statement of a handler, named for the handler and the
step: `CreateChecksCreator`, `CreateChecksGroup`, `CreateChecksParties`,
`CreateInserts`, `CreateReadsBack`; `LoadTransaction`, `CheckCaller`,
`DeleteChecksPermission`, `DeleteUpdates`; `SettleChecksPayer` ... `SettleInserts`;
`BalancesChecksCaller`, `LedgerListsIds`, `LedgerLoadsRow` (row by row),
`LedgerReadsSettlements`. `pc` says where a handler is, `view` what a balances read
has still to load, `answer` the gRPC code it returned. `Fail` ends a handler between
any two steps: timeout, cancellation, lost connection or a killed process. A
single-statement write may also commit and have its answer lost (`Acknowledged`).
`CreateInserts` stores a transaction whole or, when a share is zero or a number too
long for its column (`Insertable`), nothing. `groups` and `ledger` are histories;
actions read only the last element, properties the earlier ones, to say "at some
moment of the request".

### TransactionLists and Wire

A client asks for a page at the offset of what it has and goes on until a page is
empty or it has as many rows as the last total said. `SelectPage` is one statement
(with `COUNT(*) OVER()`, which has no value without rows); for the transactions of
a group `CountRows` is a second one, and writes fall between them. The query of a
request goes through `Wire` on the way in: a type nobody knows is no condition, a
date that does not parse is none, a limit that is no number or is too large comes
out as the default or as the maximum, and one beyond 32 bits as another number.
`CallCreate`, `categorySnapshot`, `InsertPersonal` are
`CreatePersonalTransaction`. Nothing in the service changes a category;
`CategoryChanges` is an operator at the database.

### Session

A token pair is its place in `pairs`. `usedUntil` and `revokedUntil` are the expiry
times of the Redis keys, which `Tick` lets pass. Rotation is the sequence
`RefreshChecksSession`, `RefreshReadsUser`, `RefreshConsumes` (SETNX),
`RefreshIssues`, or `RefreshRevokes` on a replay, an old version or an inactive
account, Redis failing included. go-redis sends a command again whose reply was lost
(`redis.go:13` leaves `MaxRetries` at its default), so a SETNX can find the key of
its own first try and take a first presentation for a replay. `users` is the history
of the account's row; `since` what had happened when a request began; `buried` the
pairs that existed when their session was revoked. Signatures are taken to hold:
clients present tokens that were issued.

### OneTimePasswords

`slot` is what Redis has under the two keys of one address; a payload has the
password, the attempts, `ExpiresAt` and the time Redis forgets it, which are not
the same once a wrong guess has stored it again. A one-time password, its
account draft included, has the name of the request that had it made; guesses
are passwords that were mailed, or `Wrong`. The handlers go command by command:
`RequestChecksUser`, `RequestStores`, `RequestPublishes`, `RequestUndoes`;
`GuessLoads` (GET and the checks on what it got), `GuessCounts` (the SET of a
wrong guess), `VerifyCreates` or `ResetUpdates`, `GuessDeletes`. A mail may go
out although publishing failed, and `Fail` ends a handler anywhere. `expiry`,
`counted` and `since` only remember, for the properties. The account stays
active, and has a password from the start in half of the initial states; in all
of them a first password has been asked for.

### EmailDelivery

The queues are counts of copies by retry count: RabbitMQ keeps no order once
messages are requeued or expire. What goes wrong outside the programs is counted
in `trouble` and bounded; a mail may fail without limit. `Disconnect` requeues
what is held while the handler goes on with the delivery in its hand, as the
goroutine does. `SendFailsLate` is the error after the server took the message.

### GroupService

The statements of the repository are the actions; `CreateGroup` is one. An
invitation has the name of the request that made it. A user comes from the
request, as in the code: group-service does not authenticate. `Expire` lets the
time of an invitation pass.

### MenuTree

The statements of `MenuService` and its repository are the actions. `Walk` is one
`FindByID` of `validateParentChain`; `draft`, `at` and `visited` are the menu the
handler is about to write, the next one it looks up and those it has met.
`Writes` is `INSERT` or `UPDATE`, every column of it, under the unique constraints,
which deleted rows count for as well; the two look-ups of `mapMenuConflict`
follow a refusal. `by` and `deletedBy` in a row only remember, for the properties.
`is_active`, texts and order do not enter any check and are left out, and so is
`Tree`, a single read.

### Configuration and SigningKeys

A variable that holds a number, a duration or a flag is a record of what is
written there, whether it reads and whether there are blanks around it; `...Load`
is the set of the configuration a service loads, empty when it refuses to start.
Four assumptions over what may be written are checked by TLC: `DefaultsStart`
(with the secrets alone every service starts but auth-service, whose default
cookies, SameSite=None and not Secure, are what it refuses itself), `PoolsFit`
(transaction-service and group-service cut pool sizes to 32 bits; group-service
validates nothing), `QueuesDiffer`, and `LifetimesAgree` (the gateway trims blanks
around a lifetime and auth-service does not, so a padded lifetime makes cookies
and tokens disagree). The gateway also accepts `.*` as a pattern of origins,
which auth-service refuses.

SigningKeys has key files, variables and a service that reads them when it starts
and never again. An operator replaces a file or edits a variable, one at a time
(`ReplacePrivateKey`, `ReplacePublicKey`, `EditEnvironment`); `Restart` may find
them halfway and refuse. Tokens keep the service that issued them (`by`), for the
properties.

### Gateway

`Router` and `Handlers` of GatewayRoutes are every route with its guards and every
handler with where each field of the call it makes comes from. `CallersComeFromTokens`
says that a caller's identity comes from the token wherever a call names him, and
`DeclaredStatuses` and `StatusesBehindTransactions` of Statuses follow an error from
the service to the client's status: `mapError` of auth-service compares with `==`
(`grpc/server.go:292`), which turns a message that a field is invalid into a failure
of the server, and `ErrAccountInactive` loses its 403.

A browser's tabs share one jar; a request takes the cookies as they stand when it is
sent, and an answer changes them when it arrives, in any order, or never (`Lose`).
`Authenticate`, `RefusesBody`, `CallFails` and the handlers are steps of their own.
auth-service answers in one step, since Session has its interleavings; `Resent` is
the SETNX that Redis was sent twice. Logout's
answer takes no cookies away: the clearing is deferred until after the header was
written (`auth_handlers.go:128`), although `api-gateway/README.md:48` says that it
clears them; the model does what the code does.

### AuthRouter

Arrivals with every combination of origin, CSRF cookie, CSRF header, cookie and
bearer go through the middleware of every route: `SameDoors` compares the two
routers, `CookiesChangeNothingAlone` states what the CSRF check is for. The
middleware here only parses the access token (`auth_middleware.go:41`), where the
gateway has it compared with the account. A behaviour is one counter of a limit
with time, the script's two commands in one, and answers of Redis that fail before
or after it counted; a script that was sent twice is one that failed after it
counted and one that was answered.

### Deployment

A process is down, connecting (one connection after the other, each dial blocking
until its peer listens, or given up), serving, stopping (its servers in order) or
closing (connections in the reverse order). `TimeIsOver` is the end of the grace
period, after which calls in flight lose their stores (`forced`). `ServerFails` is a
server that returns an error: auth-service then leaves the other one running. `Kill`
may come at any time: docker's default, which `compose.yaml` keeps, is 10 s after
the signal, shorter than the 15 s and 20 s the services give themselves. Containers
are restarted; outages of stores end.

## 3. The runs

| Run | Instance | Shows |
|---|---|---|
| `ledger_races` | 3 requests, 2 seeded transactions, 1 change of the group, six kinds of calls; int64 to a million, columns to 700000 | PartiesWereMembers, OutcomesWereAuthorised, BalancesAreASnapshot, BalancesAddUp |
| `ledger_outcomes` | 2 requests, 1 seeded transaction, one call per outcome of the handlers; int64 and columns as above | AnswersTellTheTruth, the refinement of Ledger, EveryCallEnds |
| `lists_and_calculations` | a list of up to 3 rows in pages of 1 and 2, one reader, one writer; every draft of 3 people, amounts to 8, weights to 4; 21 payers whose sum wraps; every balance of 4 people to 4 units, every order of equals | PagesMissAndRepeatOnlyByWrites, QuietPagingIsComplete, CategoryWasActive; AllocationIsLargestRemainder, AcceptedIsBalanced; SettlesEverybody |
| `sessions` | 3 requests, token lifetimes of 2 (refresh) and 1 (access) ticks, leeway 1, 3 ticks, 1 change of the row | RotatesOnce, CredentialsWereCurrent, ReplayRevokes, RevocationOutlivesTokens |
| `one_time_passwords` | 3 requests after a first one, 2 attempts, lifetime 1 of 2 ticks; the limit of registrations over two windows | AttemptsAreLimited, NothingExpiredWorks, UsedOnce, AccountAsRegistered, LastAskedStands; LimitsHold |
| `email_delivery` | 1 password, 1 foreign body, 2 retries, prefetch 2, 3 troubles | NothingLost, DuplicatesNeedTrouble, DeadAfterAllRetries, PublishedIsSettled |
| `groups` | 2 people, 3 requests, 4 changes of the group | OutcomesWereDue, AnsweredOnceAndInTime, the refinement of GroupDirectory |
| `menus` | 3 requests, 3 menus and those created; 2 keys, 2 edits and restarts around a token | CyclesNeedARace, OrphansNeedARace; LiveTokensVerify, TokensKeepToTheirUse |
| `gateway` | a browser with 2 tabs, an app, 3 pairs, 2 requests in flight, 1 change of the account | OneSessionInJar, ReplayNeedsTrouble, RoleWasHeld |
| `deployment` | 4 processes, a call in each server, 2 faults | CallsKeepTheirStores, StopsAfterSignal, EverythingComesUp |
| `fixed_split`, `session_access` | | the findings below; TLC reports a violation |

Why the bounds are enough. Every race here is between a check and a write of one
handler and one interfering commit, or between two handlers on one row; three
requests give a victim, an interferer and a witness that observes, and one change of
the group is the difference between the check and the write. In `ledger_races` one
balances read meets a create, a delete and a settlement in every order, and what the
calls bring together can be more than an int64, so that nets wrap: without its
condition on the money BalancesAddUp fails there. In `ledger_outcomes` one draft has
payments that wrap, another draft and a settlement are too long for their columns;
of two requests that delete the seeded transaction one is refused. In reality a
column holds a ninth of an int64 and it takes nineteen payers to wrap; with columns
of 700000 it takes three. Three rows in pages of one and two put a boundary between
any two rows, with one row coming or going above and below it. Amounts to 8 with
weights to 4 give every pattern of remainders for three people, ties included. In
`sessions` four pairs exist at most, so a token can be rotated, its successor
rotated and the first replayed; three ticks let keys and tokens expire on both sides
of each other. In `one_time_passwords` the three requests are a stale guess, what it
overwrites and a guess that meets the result, all at the password that is there
already; two attempts are a first and a last one, and the second tick comes after
`ExpiresAt` while a payload stored again at the first is still in Redis. A limit
meets the end of one window and the beginning of the next, where a client gets
through twice the maximum. Two retries are the first, a middle and the last attempt;
three troubles can hit publishing, sending and republishing of one message. Three
updates can close a cycle of three menus, one after the other or at once, and two
leave one request to bring in a created menu. Two edits leave a rotation half done
and finish it. In `gateway` three pairs are a session, its rotation and another
session, and two requests in flight overtake each other. Two faults hit a process
and the peer it waits for. Symmetry is used in runs of safety properties only: over
requests whose calls do not tell requests apart or are closed under exchanging them,
and over the tabs of one browser, which are alike.

Deadlock checking is off everywhere: finitely many requests, one loop, or a bounded
clock come to an end in each model.

### Fairness

`ledger_outcomes`: weak fairness of the steps of each handler, which is a
goroutine that is scheduled; nothing makes a request arrive, a group change or a
call fail, and every call has a timeout, which `Fail` stands for.
`email_delivery`: weak fairness of the broker (it delivers and expires), of
`handleDelivery`, and of the reconnect loop of `Run`; sending may fail every
time, and only trouble is bounded, so the property is that the message ends in
the mail *or* among the dead letters. `deployment`: weak fairness of each process's
own steps (connecting, giving up after the dial's timeout, draining or running out
of its grace period, closing, and the restart by `restart: unless-stopped`), and of
the return of a store; calls need not end, and faults are bounded. The other
specifications have no fairness and their properties are safety properties.

## 4. What is proved

For all values of the constants, under the assumptions the modules name:

| Module | Theorems |
|---|---|
| `TransactionServiceProofs` | TypesHold, PartiesWereMembersHolds, OutcomesWereAuthorisedHolds, DeletedOnceHolds, AnswersTellTheTruthHolds, BalancesAreASnapshotHolds, BalancesAddUpHolds, ImplementsLedger; LargestRemainder, AcceptedBalance, SuggestionsSettle |
| `SessionProofs` | SessionTypes, RotatesOnceHolds, CredentialsWereCurrentHolds, ReplayRevokesHolds, RevocationOutlivesTokensHolds |
| `OneTimePasswordsProofs` | PasswordTypes, NothingExpiredWorksHolds, AccountAsRegisteredHolds, UsedOnceHolds, LastAskedStandsHolds, AttemptsAreLimitedHolds; LimitsHoldHolds |
| `DeploymentProofs` | DeploymentTypes, CallsKeepTheirStoresHolds; DeliveryTypes, NothingLostHolds, DeadAfterAllRetriesHolds, DuplicatesNeedTroubleHolds; LiveTokensVerifyHolds, TokensKeepToTheirUseHolds |
| `ClientProofs` | OneSessionInJarHolds, ReplayNeedsTroubleHolds, RoleWasHeldHolds; PagesMissAndRepeatOnlyByWritesHolds, QuietPagingIsCompleteHolds, CategoryWasActiveHolds |
| `GroupServiceProofs` | GroupTypes, OutcomesWereDueHolds, AnsweredOnceAndInTimeHolds, ImplementsDirectory |
| `MenuTreeProofs` | MenuTypes, OrphansNeedARaceHolds, CyclesNeedARaceHolds |

These are all the invariants the passing runs check, and both refinements.

None of the properties is inductive: they speak of answers, and say nothing of what
a handler that has not answered yet has seen. Each proof adds that, in layers that
rest on the ones before; a lemma says that a step is of one request and that the
others rest, so that each layer needs one case per step of the handler it is about.

**Sums.** A sum over a set is a fold that takes its elements in the order of a
CHOOSE. SumTheorems unrolls the recursive function in it: it exists for finite sets
(`SumsExist`), two of them agree, and every element may be taken first
(`SumGrows`), so that sums can be compared, split, scaled, grouped by a key and
counted. All of it rests on `SmallestSet`: of the subsets of a finite set that lack a
property one is smallest, which makes induction possible without an operator as a
parameter.

**Arithmetic.** Of any draft. The remainders of a split by ratio sum to what the
quotients leave over, times the total weight (`LeftOver`), so less than one unit is
left for each split; the ranks number the splits in the order of the remainders
(`RanksNumber`), so the loop gives a unit to the first of them and never starts
again. Scaled weights have the same quotients and the same order
(`OnlyProportionsMatter`). `AmountsByUser` groups the entries of a transaction by
user, and what two groupings of one amount leave cancels out (`NetsCancel`).

**Suggestions.** *SettlingInv*, for any balances over finitely many people that sum
to zero: the lists hold what is still open, a debtor stays a debtor; suggestions and
open entries together are no more than the people with a balance, and one less once
both lists are empty.

**TransactionService.** Assumptions: `CallsAssumption`, calls are well formed and
seeds are drafts the service stores, and those of Decimal, that a column's numbers fit
an int64. Nothing is assumed about what drafts add up to. TLC evaluates the assumptions
in every run over the modules. Layers: *Typed* (`TypeOK`,
and `CallsMatch`, which ties `pc` to the operation); *Written* (what is in the tables
under a request's name is what that request asked for); *Authorised* (for every `pc`,
the checks the handler has passed held at some moment since it began; moments stay
moments because histories only grow); *Truthful* (what an answer says of the tables,
which nothing undoes); *Snapshots* (a balances read has read or has yet to read
exactly the ids that were live when it listed them). The refinement maps every write
to `Post`, `Withdraw` or `Record` of Ledger and everything else to stuttering.

Ledger calls an entry balanced as the code makes it (`BalancedRow`): its shares sum
to its amount, its payers are different people, and its payments sum to its amount
too, or to more than an int64. Nothing in the code rules the latter out, so it is
part of what is refined and not an assumption. BalancesAddUp is about answers whose
money, the payments and settlements read (`Volume`), is an int64: beyond it
CalculateBalances and mergeBalances wrap, and the balances mean nothing. A wrapped
list of payments counts with its true sum, so it never falls under the condition.
*Sound* says that rows are balanced in this sense and positive and that settlements
are between two people; *Noted*, that what a reader has taken down is in the tables
and finite, since it notes one row at a time. Then it is arithmetic: a row moves
nobody's balance by more than what was paid (`RowNetIs`, which rests on
`PaymentsSum`), the settlements none by more than theirs (`SettlementsMove`), and
the fold of mergeBalances therefore never wraps and is the sum of what it merged
(`MergesAddUp`).

**Session.** *Claims*: a used token's key lasts until the token expires, and then no
handler gets as far as to claim it, so one request at most holds it, and its pair, if
any, is the only one. *Moments*: a handler that has passed the read of the account has
a moment since it began when account, version and password were as it needs them.
*Burials*: a pair of a revoked session has its key, or the token has expired. *Replays*:
versions only grow, and a refresh that was refused left its session buried or its
version old. `HasRoom` in *Typed* bounds the pairs by the requests that are over.

**OneTimePasswords.** *Typed* includes that what is under a key is of that purpose and
expires as it was made to. *Lateness*: who is past the comparison was not late when he
began. *Accounts*: the account is that of the payload that was compared. *UsesKnown*: a
used password that is in Redis, in a handler or used again was brought back by a wrong
guess that overlaps with the use. *Lasts*: while no rival has begun since, the key and
every rival's copy are of the password asked for last. *CountsKnown*: when guesses come
one after another, the payload's count is the number of wrong guesses made
(cardinalities, by FiniteSetTheorems).

**AuthRouter.** LimitsHold, for any window and maximum. *Counter*: the key, when it is
there, expires one window after it was made, and nothing got through since that it did
not count (*Counted*, up to answers that were lost). *OneBefore*: less than a window
before it was made there was the time of one other counter at most. So a stretch as
long as a window meets two counters (*Stretches*), and whoever is refused is told a
time by which the counter that refused is gone (*Refusals*). The assumption is that
`Limiters` are limits of the routes.

**EmailDelivery.** *Counts*: copies under way can still be retried, dead ones cannot,
and the worker has failed with a copy at least as often as its header says. *Safe*: a
published message is mailed or has a copy, and so has a delivery about to be
acknowledged. *Budget*: mails, copies and what is under way of one message are at most
one more than the troubles so far (a sum over the letters, of which there are finitely
many); a trouble adds one at most, and nothing else adds any.

**GroupService.** *Typed* includes `Founded`, that nothing is under way in a group
that does not exist. *Evidence*: for every `pc` the group or the membership that was
checked is in the history since the request began. *Answers*: an invitation that was
taken is not pending, and nobody who may still take it began after that. The
refinement maps the writes to the four kinds of change GroupDirectory allows (opened or
closed, deleted, joined, left), the rest to stuttering.

**MenuTree.** *Typed* has the uniqueness of codes and routes, which the constraint
gives whatever was checked before. *Walks*: a handler that has walked knows, for every
menu it met whose row is as it was when it began, where its parent is: among those it
met, or nowhere. *Deletions*: a menu about to be deleted has no children but those
written beside the deletion. A write that closes a cycle then has a writer in the cycle
that overlaps with it, or the walk went through a smaller set that is closed under
parents and was a cycle before: `CyclesStay`. The assumption is that the menus at the
start are a forest.

**SigningKeys.** A running service's active key is in its ring (`WellFormed`), and a
token was issued by a well-formed service under its key, audience and lifetime
(`IssuedBy`).

**Gateway.** *Typed* and *Admitted* (what the middleware has seen of a request behind
it); *Roles*, the role in a token is that of a row the account had when the token was
issued. *Rotation*: no two clients know of one refresh token (*Apart*); one that an
answer brings has been seen nowhere else (*Fresh*); two tabs ask for the rotation of one
only in trouble (*Alone*); and one that was rotated without trouble is held only until
the answer that brings another (*Spent*), which is what ReplayNeedsTrouble needs.

**TransactionLists.** A row's place is the number of rows before it (`Pos`),
whatever the table. *ReadWell* says of what a client has read, page after page: rows
that stayed and were not lifted across it are in it or at a later place (*Covers*);
rows that were not pushed are in it once, at a place before its end (*Overlaps*); in
a quiet list its k-th row has place k - 1 (*Exact*). A write moves the places of the
rows behind it by one, and marks them as lifted or pushed; a page reads the places
after the last (`PositionsMakeOrders`, `OrdersHavePositions`). *Writing*: a writer
past its look at the category saw it active. Assumptions: ids and dates are numbers
and the tables finite, limits are what the service has as constants.

**Deployment.** `Phase` says for every stage of a process which connections it has,
which servers take calls and which are empty.

Checked by TLC and not proved: the liveness properties EveryCallEnds,
PublishedIsSettled, StopsAfterSignal and EverythingComesUp (fairness and ENABLED are
beyond this prover).

## 5. Findings

1. **A fixed split cannot be read back** (`fixed_split`).
   `split_value` is `numeric(18,6)`; `scanSplit` parses it as money with two
   decimals and refuses. The create commits, answers Internal, and from then on
   the transaction and every balance of its group and currency cannot be read.
2. **A revoked session keeps its access token** (`session_access`). The
   token-flow document says `sessionVersion` invalidates old tokens when a session
   is revoked; revoking sets a Redis key that only rotation looks at.

What the models show besides, without a run of its own: payments whose sum wraps around
an int64 are accepted (the exception in AcceptedIsBalanced), from nineteen payers on,
each with no more than a column holds, although `docs/TRANSACTION_SERVICE_VI.md:36`
wants them to sum to the amount; the answer to a
logout at the gateway takes no cookies away (Gateway); a field that is not valid
comes out as a failure of the server where auth-service's errors are compared with
`==` (Statuses); auth-service does not start with its own defaults (Configuration).
`docs/TOKEN_VERIFY_FLOW_THEO_CODE_VI.md:637` describes a bearer flow for apps, while
the gateway asks for the CSRF token on every write that is not one of the mobile
routes, bearer or not (`Router`).

What the models allow and no document rules out, so it is not a finding: a
transaction can enter a group that was closed an instant ago; settlements go on
in an inactive group; a create that answers an error may have committed, and a
retry makes a second one; overlapping answers to an invitation can leave a
rejected member; the last owner can be removed (`group_service.go:174`); a rotation
under way when its session is revoked leaves a pair that works again once the
revocation expires; of two updates of a group one can be lost; wrong guesses at a
one-time password that overlap count as one; a wrong guess under way brings back a
password that was used, or puts it in place of a newer one, which is why UsedOnce and
LastAskedStands speak of requests that do not overlap; a request whose mail could
not be published deletes the password of another; two overlapping moves make a
cycle of menus that no tree shows, and a menu moved under one that is being
deleted is an orphan; the code and route of a deleted menu stay taken; two tabs that
refresh at once end their session; a role that was taken away lasts until the next
rotation; a reply of Redis that was lost can end a session at its next rotation;
an entry can be filed under a category that was closed during the call; a
client that pages while rows go misses some.

## 6. Not modelled

- Generated gRPC code: accessors, descriptors, stubs. What the enumerations do to
  values is in Wire.
- Redis commands sent again by go-redis, but for SETNX and the script of the limits:
  repeating a GET, SET or DEL is what a slower command does, apart from what others see
  between the two tries.
- Signatures and password hashing: taken to hold. Texts of mails, names,
  descriptions, logging.
- At the gateway: request ids, CORS and security headers, recovery, the shape of
  answers. Its part is listed as partly modelled for these.
- Reads of one row by its id (a group, a personal entry, a menu, a category),
  which change nothing.
- Migrations, which run before the services and end.
- The email worker's start and end are in EmailDelivery, not in Deployment.

## 7. Order of work, and what is left

Done in this order: the ledger (arithmetic, handlers, abstract ledger, proofs),
sessions, one-time passwords, mail delivery, groups, suggestions, menus; then the
gateway, keys and configuration, auth-service's own routes and limits, lists and
categories, start-up and shutdown; then the proofs about sessions, one-time
passwords, mail, groups, menus, keys and deployment; then those about sums, the
arithmetic, suggestions and balances, the gateway, lists, limits and duplicates.

Left: TransactionService over GroupService's own steps instead of `ChangeGroup`
(the two are tied through GroupDirectory, on one side by proof); OneTimePasswords
over EmailDelivery, for passwords that arrive late or out of order.
