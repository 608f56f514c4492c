----------------------------- MODULE ClientProofs -----------------------------
(***************************************************************************)
(* Proofs about what a client meets: the tokens it gets (Gateway), for     *)
(* any clients, tabs, accounts and handlers, and any number of requests,   *)
(* pairs and changes of accounts; and the lists it reads page by page      *)
(* (TransactionLists), for any queries, limits and number of changes.      *)
(***************************************************************************)
EXTENDS Gateway, TransactionLists, FiniteSetTheorems, SequenceTheorems, TLAPS

-----------------------------------------------------------------------------
(* Tokens.                                                                 *)

\* The pairs there are, and none.
Held == 0..Len(pairs)

Row == [version : Nat, role : {"admin", "user"}, active : BOOLEAN]

Pair == [user : Users, session : Nat, version : Nat, role : {"admin", "user"}, since : Nat]

Phases == {"idle", "token", "handler", "answered"}

\* What an answer can bring: Clear is Hand(None).
Given(tokens) ==
  \/ tokens = Keep
  \/ tokens = [csrf |-> TRUE]
  \/ \E j \in Held : tokens = Hand(j)

Typed ==
  /\ pairs \in Seq(Pair)
  /\ users \in [Users -> Seq(Row)] /\ \A u \in Users : Len(users[u]) > 0
  /\ jar \in [Clients -> [access : Held, refresh : Held, csrf : BOOLEAN]]
  /\ phase \in [Tabs -> Phases]
  /\ request = [t \in Tabs |-> request[t]]
  /\ answer = [t \in Tabs |-> answer[t]]
  /\ consumed \subseteq 1..Len(pairs)
  /\ \A t \in Tabs : phase[t] = "answered" => Given(answer[t].tokens)
  /\ \A t \in Tabs : phase[t] # "idle" =>
       /\ Presents(request[t]) \in Held /\ extractToken(request[t]) \in Held
       /\ request[t].user \in Users

\* The middleware has done its work for what stands behind it.
Admitted ==
  \A t \in Tabs :
    /\ phase[t] = "token" => extractToken(request[t]) # None
    /\ phase[t] = "handler" /\ Router[request[t].handler].access = "admin" =>
         extractToken(request[t]) # None /\ claims(t).role = "admin"

\* A token has the role of the row it was issued for, which was active.
Granted(p) ==
  /\ p.since \in 1..Len(users[p.user])
  /\ users[p.user][p.since].role = p.role /\ users[p.user][p.since].active

Roles == \A i \in 1..Len(pairs) : Granted(pairs[i])

Hands(t, j) == phase[t] = "answered" /\ answer[t].tokens = Hand(j)

Asks(t, j) == phase[t] # "idle" /\ request[t].handler \in Rotates /\ Presents(request[t]) = j

Mentions(c, j) ==
  \/ jar[c].refresh = j
  \/ \E t \in Tabs : /\ ClientOf[t] = c /\ phase[t] # "idle"
                     /\ Presents(request[t]) = j \/ Hands(t, j)

\* No two clients know of a refresh token.
Apart == \A j \in 1..Len(pairs), c, d \in Clients : Mentions(c, j) /\ Mentions(d, j) => c = d

\* One that an answer brings has been seen nowhere else.
Fresh ==
  \A t \in Tabs, j \in 1..Len(pairs) : Hands(t, j) =>
    /\ j \notin consumed
    /\ \A c \in Clients : jar[c].refresh # j
    /\ \A s \in Tabs : phase[s] # "idle" => Presents(request[s]) # j
    /\ \A s \in Tabs : Hands(s, j) => s = t

\* Two tabs ask for the same rotation only in trouble.
Alone ==
  \A j \in 1..Len(pairs), s, t \in Tabs : Asks(s, j) /\ Asks(t, j) /\ s # t => j \in troubled

\* One that was rotated without trouble is held only until the answer comes,
\* which brings another.
Spent ==
  \A j \in consumed \ troubled :
    /\ \A t \in Tabs : Asks(t, j) => \E k \in 1..Len(pairs) : Hands(t, k)
    /\ \A c \in Clients : jar[c].refresh = j => \E t \in Tabs : ClientOf[t] = c /\ Asks(t, j)

Rotation == Apart /\ Fresh /\ Alone /\ Spent

IInv == Typed /\ Admitted /\ Roles /\ Rotation /\ OneSessionInJar /\ ReplayNeedsTrouble

-----------------------------------------------------------------------------
(* Tokens in answers.                                                      *)

LEMMA TokensDiffer ==
  /\ \A j, k : Hand(j) = Hand(k) => j = k
  /\ \A j : Hand(j) # Keep /\ Hand(j) # [csrf |-> TRUE]
  /\ Clear = Hand(None)
<1>1. \A j : Hand(j).access = j /\ DOMAIN Hand(j) = {"access", "refresh"}
  BY DEF Hand
<1>2. DOMAIN Keep = {} /\ DOMAIN [csrf |-> TRUE] = {"csrf"}
  BY DEF Keep
<1>3. Clear = Hand(None)
  BY DEF Clear, Hand
<1> QED
  BY <1>1, <1>2, <1>3

LEMMA StoredTokens ==
  ASSUME NEW S, NEW held \in [access : S, refresh : S, csrf : BOOLEAN]
  PROVE  /\ Stored(held, Keep) = held
         /\ Stored(held, [csrf |-> TRUE]) \in [access : S, refresh : S, csrf : BOOLEAN]
         /\ Stored(held, [csrf |-> TRUE]).access = held.access
         /\ Stored(held, [csrf |-> TRUE]).refresh = held.refresh
         /\ \A j \in S : /\ Stored(held, Hand(j)) \in [access : S, refresh : S, csrf : BOOLEAN]
                         /\ Stored(held, Hand(j)).access = j
                         /\ Stored(held, Hand(j)).refresh = j
<1>1. /\ held = [access |-> held.access, refresh |-> held.refresh, csrf |-> held.csrf]
      /\ DOMAIN held = {"access", "refresh", "csrf"}
      /\ held.access \in S /\ held.refresh \in S /\ held.csrf \in BOOLEAN
  OBVIOUS
<1>2. Stored(held, Keep) = held
  <2>1. DOMAIN Keep = {}
    BY DEF Keep
  <2>2. Stored(held, Keep) = [x \in DOMAIN held |-> held[x]]
    BY <2>1 DEF Stored
  <2> QED
    BY <1>1, <2>2
<1>3. \A j : Stored(held, Hand(j)) = [access |-> j, refresh |-> j, csrf |-> held.csrf]
  BY <1>1 DEF Stored, Hand
<1> DEFINE given == [csrf |-> TRUE]
<1>4. DOMAIN given = {"csrf"} /\ given["csrf"] \in BOOLEAN
  OBVIOUS
<1> HIDE DEF given
<1>5. Stored(held, given) = [access |-> held.access, refresh |-> held.refresh, csrf |-> given["csrf"]]
  BY <1>1, <1>4 DEF Stored
<1>6. /\ Stored(held, given) \in [access : S, refresh : S, csrf : BOOLEAN]
      /\ Stored(held, given).access = held.access /\ Stored(held, given).refresh = held.refresh
  BY <1>1, <1>4, <1>5
<1>7. ASSUME NEW j \in S
      PROVE  /\ Stored(held, Hand(j)) \in [access : S, refresh : S, csrf : BOOLEAN]
             /\ Stored(held, Hand(j)).access = j
             /\ Stored(held, Hand(j)).refresh = j
  BY <1>1, <1>3
<1> QED
  BY <1>2, <1>6, <1>7 DEF given

-----------------------------------------------------------------------------

LEMMA InitInvariant == Init => IInv
<1> SUFFICES ASSUME Init PROVE IInv
  OBVIOUS
<1>1. /\ Logins \in Seq([client : Clients, user : Users])
      /\ Len(Logins) \in Nat
      /\ \A i \in 1..Len(Logins) : Logins[i].client \in Clients /\ Logins[i].user \in Users
  <2> DEFINE R == [client : Clients, user : Users]
  <2>1. Logins \in Seq(R)
    BY GatewayAssumption
  <2>2. \A r \in R : r.client \in Clients /\ r.user \in Users
    OBVIOUS
  <2> HIDE DEF R
  <2>3. Len(Logins) \in Nat /\ \A i \in 1..Len(Logins) : Logins[i] \in R
    BY <2>1
  <2>4. Logins \in Seq([client : Clients, user : Users])
    BY <2>1 DEF R
  <2> QED
    BY <2>2, <2>3, <2>4
<1>2. /\ pairs \in Seq(Pair) /\ Len(pairs) = Len(Logins)
      /\ \A i \in 1..Len(pairs) : /\ pairs[i].user \in Users /\ pairs[i].since = 1
                                  /\ pairs[i].role = "admin"
  BY <1>1 DEF Init, Pair
<1>3. /\ users \in [Users -> Seq(Row)]
      /\ \A u \in Users : /\ Len(users[u]) = 1 /\ users[u][1].role = "admin"
                          /\ users[u][1].active
  BY DEF Init, Row
<1>4. ASSUME NEW c \in Clients
      PROVE  /\ FirstPair(c) \in Held
             /\ FirstPair(c) # None => Logins[FirstPair(c)].client = c
  <2> DEFINE mine == {i \in 1..Len(Logins) : Logins[i].client = c}
  <2>1. CASE mine = {}
    BY <1>2, <2>1 DEF FirstPair, Held, None
  <2>2. CASE mine # {}
    <3>1. FirstPair(c) = CHOOSE i \in mine : TRUE
      BY <2>2 DEF FirstPair
    <3>2. FirstPair(c) \in mine
      BY <2>2, <3>1
    <3> QED
      BY <1>1, <1>2, <3>2 DEF Held
  <2> QED
    BY <2>1, <2>2
<1>5. Typed
  <2>1. jar \in [Clients -> [access : Held, refresh : Held, csrf : BOOLEAN]]
    BY <1>4 DEF Init
  <2>2. phase \in [Tabs -> Phases] /\ \A t \in Tabs : phase[t] = "idle"
    BY DEF Init, Phases
  <2>3. /\ request = [t \in Tabs |-> request[t]] /\ answer = [t \in Tabs |-> answer[t]]
        /\ consumed = {}
    BY DEF Init
  <2> QED
    BY <1>2, <1>3, <2>1, <2>2, <2>3 DEF Typed
<1>6. Admitted /\ OneSessionInJar /\ ReplayNeedsTrouble
  BY DEF Init, Admitted, OneSessionInJar, ReplayNeedsTrouble
<1>7. Roles
  BY <1>2, <1>3 DEF Roles, Granted
<1>8. Apart
  <2>1. ASSUME NEW j \in 1..Len(pairs), NEW c \in Clients, Mentions(c, j)
        PROVE  Logins[j].client = c
    <3>1. jar[c].refresh = j /\ jar[c].refresh = FirstPair(c) /\ j # None
      BY <1>2, <2>1 DEF Mentions, Init, None
    <3> QED
      BY <1>4, <3>1
  <2> QED
    BY <2>1 DEF Apart
<1>9. Fresh /\ Alone /\ Spent
  BY DEF Init, Fresh, Hands, Alone, Asks, Spent
<1> QED
  BY <1>5, <1>6, <1>7, <1>8, <1>9 DEF IInv, Rotation

-----------------------------------------------------------------------------
(* What steps have in common.                                              *)

\* Accounts only get new rows.
UsersGrow ==
  /\ users' \in [Users -> Seq(Row)]
  /\ \A u \in Users : /\ Len(users'[u]) >= Len(users[u])
                      /\ \A i \in 1..Len(users[u]) : users'[u][i] = users[u][i]

\* So do the pairs.
PairsGrow ==
  /\ pairs' \in Seq(Pair) /\ Len(pairs') >= Len(pairs)
  /\ \A i \in 1..Len(pairs) : pairs'[i] = pairs[i]

\* The gateway goes on with the request of one tab.
Serves(t) ==
  /\ phase[t] \in {"token", "handler"}
  /\ jar' = jar /\ request' = request
  /\ phase' \in [Tabs -> Phases] /\ phase'[t] \in {"handler", "answered"}
  /\ answer' = [s \in Tabs |-> answer'[s]]
  /\ \A s \in Tabs \ {t} : phase'[s] = phase[s] /\ answer'[s] = answer[s]

\* It hands out no tokens.
Silent(t) ==
  phase'[t] = "answered" =>
    \/ answer'[t].tokens = Keep
    \/ answer'[t].tokens = [csrf |-> TRUE]
    \/ answer'[t].tokens = Clear

LEMMA GatewayUserRows ==
  ASSUME Typed, NEW u \in Users
  PROVE  /\ users[u] \in Seq(Row) /\ Len(users[u]) \in Nat \ {0} /\ User(u) \in Row
         /\ User(u) = users[u][Len(users[u])]
  BY DEF Typed, User

LEMMA RowsAppended ==
  ASSUME Typed, NEW u \in Users, NEW row \in Row, users' = [users EXCEPT ![u] = Append(@, row)]
  PROVE  UsersGrow
<1>1. \A v \in Users : users[v] \in Seq(Row) /\ Len(users[v]) \in Nat
  BY DEF Typed
<1>2. \A v \in Users : users'[v] = IF v = u THEN Append(users[u], row) ELSE users[v]
  BY DEF Typed
<1>3. /\ Append(users[u], row) \in Seq(Row) /\ Len(Append(users[u], row)) = Len(users[u]) + 1
      /\ \A i \in 1..Len(users[u]) : Append(users[u], row)[i] = users[u][i]
  BY <1>1
<1>4. users' \in [Users -> Seq(Row)]
  BY <1>1, <1>3 DEF Typed
<1> QED
  BY <1>1, <1>2, <1>3, <1>4 DEF UsersGrow

LEMMA UsersSame ==
  ASSUME Typed, users' = users
  PROVE  UsersGrow
  BY DEF Typed, UsersGrow

LEMMA PairsSame ==
  ASSUME Typed, pairs' = pairs
  PROVE  PairsGrow
  BY DEF Typed, PairsGrow

LEMMA GrantedStays ==
  ASSUME Typed, UsersGrow, NEW p \in Pair, Granted(p)
  PROVE  Granted(p)'
<1>1. p.user \in Users
  BY DEF Pair
<1>2. Len(users[p.user]) \in Nat /\ Len(users'[p.user]) \in Nat
  BY <1>1 DEF Typed, UsersGrow
<1> QED
  BY <1>1, <1>2 DEF Granted, UsersGrow

LEMMA AnswerServes ==
  ASSUME Typed, NEW t \in Tabs, phase[t] \in {"token", "handler"}, UNCHANGED client,
         NEW status, NEW given, Answer(t, status, given)
  PROVE  Serves(t) /\ phase'[t] = "answered" /\ answer'[t] = [status |-> status, tokens |-> given]
  BY DEF Typed, Phases, client, Answer, Serves

LEMMA RefuseServes ==
  ASSUME Typed, NEW t \in Tabs, phase[t] \in {"token", "handler"}, UNCHANGED client,
         NEW code, Refuse(t, code)
  PROVE  Serves(t) /\ Silent(t) /\ phase'[t] = "answered" /\ answer'[t].tokens = Keep
<1>1. Answer(t, grpcStatusToHTTP(code), Keep)
  BY DEF Refuse
<1>2. /\ Serves(t) /\ phase'[t] = "answered"
      /\ answer'[t] = [status |-> grpcStatusToHTTP(code), tokens |-> Keep]
  BY <1>1, AnswerServes
<1> QED
  BY <1>2 DEF Silent

LEMMA GotoServes ==
  ASSUME Typed, NEW t \in Tabs, phase[t] \in {"token", "handler"}, UNCHANGED client,
         Goto(t, "handler")
  PROVE  Serves(t) /\ Silent(t) /\ phase'[t] = "handler"
  BY DEF Typed, Phases, client, Goto, Serves, Silent

-----------------------------------------------------------------------------
(* Refresh tokens, step by step.                                           *)

LEMMA TabsOfClients == \A t \in Tabs : ClientOf[t] \in Clients
  BY GatewayAssumption

\* What a request carries is what its client holds.
LEMMA CarriedTokens ==
  ASSUME Typed, NEW t \in Tabs, NEW h, NEW u
  PROVE  /\ Carried(t, h, u).handler = h /\ Carried(t, h, u).user = u
         /\ Presents(Carried(t, h, u)) \in {None, jar[ClientOf[t]].refresh}
         /\ extractToken(Carried(t, h, u)) \in {None, jar[ClientOf[t]].access}
         /\ Presents(Carried(t, h, u)) \in Held /\ extractToken(Carried(t, h, u)) \in Held
<1> DEFINE r == Carried(t, h, u)
           held == jar[ClientOf[t]]
<1>1. held \in [access : Held, refresh : Held, csrf : BOOLEAN] /\ None \in Held
  BY TabsOfClients DEF Typed, Held, None
<1>2. /\ r.handler = h /\ r.user = u /\ r.token \in {None, held.refresh} /\ r.refresh \in {None, held.refresh}
      /\ r.bearer \in {None, held.access} /\ r.access \in {None, held.access}
  BY DEF Carried
<1> HIDE DEF r, held
<1>3. Presents(r) \in {None, held.refresh} /\ extractToken(r) \in {None, held.access}
  BY <1>2 DEF Presents, extractToken
<1> QED
  BY <1>1, <1>2, <1>3 DEF r, held

\* It uses up no token, or the one it presents, in trouble.
Uses(t) ==
  \/ UNCHANGED <<consumed, troubled>>
  \/ /\ Presents(request[t]) \in 1..Len(pairs)
     /\ consumed' = consumed \cup {Presents(request[t])}
     /\ troubled' = troubled \cup {Presents(request[t])}

\* A step that hands out nothing and changes no pair.
LEMMA QuietKeepsRotation ==
  ASSUME IInv, NEW t \in Tabs, Serves(t), Silent(t), Uses(t), pairs' = pairs
  PROVE  Rotation'
<1>1. \A j \in 1..Len(pairs) : ~Hands(t, j) /\ ~Hands(t, j)'
  <2>1. ASSUME NEW j \in 1..Len(pairs)
        PROVE  j # None
    BY DEF None
  <2> QED
    BY <2>1, TokensDiffer DEF Hands, Serves, Silent
<1>2. \A s \in Tabs, j \in 1..Len(pairs) : Hands(s, j)' <=> Hands(s, j)
  BY <1>1 DEF Hands, Serves
<1>3. \A s \in Tabs : \A j : Asks(s, j)' <=> Asks(s, j)
  BY DEF Asks, Serves, IInv, Typed
<1>4. \A s \in Tabs : (phase'[s] # "idle") <=> (phase[s] # "idle")
  BY DEF Serves
<1>5. /\ Len(pairs') = Len(pairs) /\ jar' = jar /\ request' = request
      /\ troubled \subseteq troubled' /\ consumed' \ troubled' \subseteq consumed \ troubled
      /\ \A j \in consumed' : j \in consumed \/ j = Presents(request[t])
      /\ phase[t] # "idle"
  BY DEF Serves, Uses
<1>6. \A j \in 1..Len(pairs), c \in Clients : Mentions(c, j)' => Mentions(c, j)
  BY <1>2, <1>4, <1>5 DEF Mentions
<1>7. Apart'
  BY <1>5, <1>6 DEF Apart, IInv, Rotation
<1>8. Fresh'
  BY <1>2, <1>4, <1>5 DEF Fresh, IInv, Rotation
<1>9. Alone'
  BY <1>3, <1>5 DEF Alone, IInv, Rotation
<1>10. Spent'
  BY <1>2, <1>3, <1>5 DEF Spent, IInv, Rotation
<1> QED
  BY <1>7, <1>8, <1>9, <1>10 DEF Rotation

\* A step that issues a pair, and consumes one when it rotates.
Issues(t) ==
  /\ Serves(t) /\ phase[t] = "handler" /\ phase'[t] = "answered"
  /\ PairsGrow /\ Len(pairs') = Len(pairs) + 1
  /\ answer'[t].tokens = Keep \/ answer'[t].tokens = Hand(Len(pairs) + 1)

LEMMA IssuingKeepsApart ==
  ASSUME IInv, NEW t \in Tabs, Issues(t),
         \/ consumed' = consumed
         \/ /\ Presents(request[t]) \in 1..Len(pairs)
            /\ consumed' = consumed \cup {Presents(request[t])}
  PROVE  Apart' /\ Fresh'
<1>0. PICK n \in Nat : n = Len(pairs)
  BY DEF IInv, Typed
<1>1. ASSUME NEW s \in Tabs, NEW j \in 1..(n + 1), Hands(s, j)'
      PROVE  \/ j \in 1..n /\ Hands(s, j) /\ s # t
             \/ s = t /\ j = n + 1
  <2>1. CASE s = t
    <3>1. answer'[t].tokens = Hand(j) /\ j # None
      BY <1>1, <2>1 DEF Hands, None
    <3> QED
      BY <1>0, <2>1, <3>1, TokensDiffer DEF Issues
  <2>2. CASE s # t
    <3>1. Hands(s, j) /\ phase[s] = "answered" /\ answer[s].tokens = Hand(j)
      BY <1>1, <2>2 DEF Hands, Issues, Serves
    <3>2. PICK k \in Held : Hand(j) = Hand(k)
      BY <3>1, TokensDiffer DEF IInv, Typed, Given
    <3>3. j = k
      BY <3>2, TokensDiffer
    <3> QED
      BY <1>0, <2>2, <3>1, <3>2, <3>3 DEF Held
  <2> QED
    BY <2>1, <2>2
<1>2. /\ \A s \in Tabs : (phase'[s] # "idle") <=> (phase[s] # "idle")
      /\ jar' = jar /\ request' = request /\ Len(pairs') = n + 1
  BY <1>0 DEF Issues, Serves
<1>3. /\ \A c \in Clients : jar[c].refresh \in 0..n
      /\ \A s \in Tabs : phase[s] # "idle" => Presents(request[s]) \in 0..n
      /\ consumed' \subseteq 1..n
  BY <1>0 DEF IInv, Typed, Held
<1>4. n + 1 \notin 0..n
  OBVIOUS
<1>5. ASSUME NEW j \in 1..(n + 1), NEW c \in Clients, Mentions(c, j)'
      PROVE  \/ j \in 1..n /\ Mentions(c, j)
             \/ j = n + 1 /\ c = ClientOf[t]
  <2>1. CASE jar'[c].refresh = j
    BY <1>2, <1>3, <1>4, <2>1 DEF Mentions
  <2>2. ASSUME NEW s \in Tabs, ClientOf[s] = c, phase'[s] # "idle", Presents(request'[s]) = j
        PROVE  j \in 1..n /\ Mentions(c, j)
    BY <1>2, <1>3, <1>4, <2>2 DEF Mentions
  <2>3. ASSUME NEW s \in Tabs, ClientOf[s] = c, phase'[s] # "idle", Hands(s, j)'
        PROVE  \/ j \in 1..n /\ Mentions(c, j)
               \/ j = n + 1 /\ c = ClientOf[t]
    BY <1>1, <1>2, <2>3 DEF Mentions
  <2> QED
    BY <1>5, <2>1, <2>2, <2>3 DEF Mentions
<1>6. Apart'
  <2> SUFFICES ASSUME NEW j \in 1..(n + 1), NEW c \in Clients, NEW d \in Clients,
                      Mentions(c, j)', Mentions(d, j)'
               PROVE  c = d
    BY <1>2 DEF Apart
  <2>1. CASE j \in 1..n
    <3>1. Mentions(c, j) /\ Mentions(d, j)
      BY <1>4, <1>5, <2>1
    <3> QED
      BY <1>0, <2>1, <3>1 DEF IInv, Rotation, Apart
  <2>2. CASE j = n + 1
    BY <1>4, <1>5, <2>2
  <2> QED
    BY <2>1, <2>2
<1>7. Fresh'
  <2> SUFFICES ASSUME NEW s \in Tabs, NEW j \in 1..(n + 1), Hands(s, j)'
               PROVE  /\ j \notin consumed'
                      /\ \A c \in Clients : jar'[c].refresh # j
                      /\ \A r \in Tabs : phase'[r] # "idle" => Presents(request'[r]) # j
                      /\ \A r \in Tabs : Hands(r, j)' => r = s
    BY <1>2 DEF Fresh
  <2>1. CASE j \in 1..n /\ Hands(s, j) /\ s # t
    <3>1. /\ j \notin consumed
          /\ \A c \in Clients : jar[c].refresh # j
          /\ \A r \in Tabs : phase[r] # "idle" => Presents(request[r]) # j
          /\ \A r \in Tabs : Hands(r, j) => r = s
      BY <1>0, <2>1 DEF IInv, Rotation, Fresh
    <3>2. \A r \in Tabs : Hands(r, j)' => Hands(r, j)
      BY <1>1, <1>4, <2>1
    <3>3. j # Presents(request[t])
      BY <3>1 DEF Issues
    <3> QED
      BY <1>2, <3>1, <3>2, <3>3
  <2>2. CASE s = t /\ j = n + 1
    <3>1. \A r \in Tabs : Hands(r, j)' => r = s
      BY <1>1, <1>4, <2>2
    <3> QED
      BY <1>2, <1>3, <1>4, <2>2, <3>1
  <2> QED
    BY <1>1, <2>1, <2>2
<1> QED
  BY <1>6, <1>7

LEMMA IssuingKeepsAlone ==
  ASSUME IInv, NEW t \in Tabs, Issues(t), troubled \subseteq troubled'
  PROVE  Alone'
<1>1. \A s \in Tabs : \A j : Asks(s, j)' => Asks(s, j)
  BY DEF Asks, Issues, Serves
<1>2. \A s \in Tabs : \A j : Asks(s, j)' => j \in Held
  BY <1>1 DEF Asks, IInv, Typed
<1>3. \A j \in 1..Len(pairs') : j \in Held => j \in 1..Len(pairs)
  BY DEF Held, IInv, Typed, Issues
<1> QED
  BY <1>1, <1>2, <1>3 DEF Alone, IInv, Rotation

LEMMA LoginKeepsRotation ==
  ASSUME IInv, NEW t \in Tabs, Issues(t), UNCHANGED <<consumed, troubled>>
  PROVE  Rotation'
<1>1. Apart' /\ Fresh' /\ Alone'
  BY IssuingKeepsApart, IssuingKeepsAlone
<1>2. Spent'
  <2> SUFFICES ASSUME NEW j \in consumed \ troubled
               PROVE  /\ \A s \in Tabs : Asks(s, j)' => \E k \in 1..Len(pairs') : Hands(s, k)'
                      /\ \A c \in Clients : jar'[c].refresh = j =>
                           \E s \in Tabs : ClientOf[s] = c /\ Asks(s, j)'
    BY DEF Spent
  <2>1. /\ \A s \in Tabs : Asks(s, j) => \E k \in 1..Len(pairs) : Hands(s, k)
        /\ \A c \in Clients : jar[c].refresh = j => \E s \in Tabs : ClientOf[s] = c /\ Asks(s, j)
    BY DEF IInv, Rotation, Spent
  <2>2. \A s \in Tabs : Asks(s, j)' <=> Asks(s, j)
    BY DEF Asks, Issues, Serves
  <2>3. \A s \in Tabs \ {t} : \A k : Hands(s, k)' <=> Hands(s, k)
    BY DEF Hands, Issues, Serves
  <2>4. ~Asks(t, j)
    BY <2>1 DEF Hands, Issues
  <2>5. \A k \in 1..Len(pairs) : k \in 1..Len(pairs')
    BY DEF Issues, IInv, Typed
  <2> QED
    BY <2>1, <2>2, <2>3, <2>4, <2>5 DEF Issues, Serves
<1> QED
  BY <1>1, <1>2 DEF Rotation

LEMMA RotationKeepsRotation ==
  ASSUME IInv, NEW t \in Tabs, Issues(t), request[t].handler \in Rotates,
         NEW j \in 1..Len(pairs), j = Presents(request[t]), consumed' = consumed \cup {j},
         troubled \subseteq troubled', answer'[t].tokens = Keep => j \in troubled'
  PROVE  Rotation'
<1>1. Apart' /\ Fresh' /\ Alone'
  BY IssuingKeepsApart, IssuingKeepsAlone
<1>2. \A s \in Tabs : \A i : Asks(s, i)' <=> Asks(s, i)
  BY DEF Asks, Issues, Serves
<1>3. \A s \in Tabs \ {t} : \A k : Hands(s, k)' <=> Hands(s, k)
  BY DEF Hands, Issues, Serves
<1>4. \A k \in 1..Len(pairs) : k \in 1..Len(pairs')
  BY DEF Issues, IInv, Typed
<1>5. jar' = jar /\ Asks(t, j) /\ phase[t] = "handler"
  BY DEF Issues, Serves, Asks
<1>6. ASSUME NEW i \in consumed' \ troubled', i # j
      PROVE  /\ \A s \in Tabs : Asks(s, i)' => \E k \in 1..Len(pairs') : Hands(s, k)'
             /\ \A c \in Clients : jar'[c].refresh = i =>
                  \E s \in Tabs : ClientOf[s] = c /\ Asks(s, i)'
  <2>1. /\ \A s \in Tabs : Asks(s, i) => \E k \in 1..Len(pairs) : Hands(s, k)
        /\ \A c \in Clients : jar[c].refresh = i => \E s \in Tabs : ClientOf[s] = c /\ Asks(s, i)
    BY <1>6 DEF IInv, Rotation, Spent
  <2>2. ~Asks(t, i)
    BY <1>6 DEF Asks
  <2> QED
    BY <1>2, <1>3, <1>4, <1>5, <2>1, <2>2
<1>7. ASSUME j \notin troubled'
      PROVE  /\ \A s \in Tabs : Asks(s, j)' => \E k \in 1..Len(pairs') : Hands(s, k)'
             /\ \A c \in Clients : jar'[c].refresh = j =>
                  \E s \in Tabs : ClientOf[s] = c /\ Asks(s, j)'
  <2>1. \E k \in 1..Len(pairs') : Hands(t, k)'
    <3>1. answer'[t].tokens = Hand(Len(pairs) + 1) /\ phase'[t] = "answered"
      BY <1>7 DEF Issues
    <3>2. \A n : n = Len(pairs) + 1 => Hands(t, n)'
      BY <3>1 DEF Hands
    <3>3. Len(pairs) + 1 \in 1..Len(pairs')
      BY DEF Issues, IInv, Typed
    <3> QED
      BY <3>2, <3>3
  <2>2. \A s \in Tabs : Asks(s, j) => s = t
    BY <1>5, <1>7 DEF IInv, Rotation, Alone
  <2>3. \A c \in Clients : jar[c].refresh = j => c = ClientOf[t]
    <3>1. Mentions(ClientOf[t], j) /\ ClientOf[t] \in Clients
      BY <1>5, TabsOfClients DEF Mentions
    <3>2. \A c \in Clients : jar[c].refresh = j => Mentions(c, j)
      BY DEF Mentions
    <3> QED
      BY <3>1, <3>2 DEF IInv, Rotation, Apart
  <2> QED
    BY <1>2, <1>5, <2>1, <2>2, <2>3
<1>8. Spent'
  BY <1>6, <1>7 DEF Spent
<1> QED
  BY <1>1, <1>8 DEF Rotation

-----------------------------------------------------------------------------
(* The clients.                                                            *)

\* A request on its way.
LEMMA SendMakes ==
  ASSUME Typed, NEW t \in Tabs, Send(t)
  PROVE  \E h : \E u \in Users :
           /\ phase[t] = "idle" /\ jar' = jar
           /\ request' = [request EXCEPT ![t] = Carried(t, h, u)]
           /\ request'[t] = Carried(t, h, u)
           /\ phase' \in [Tabs -> Phases] /\ phase'[t] \in {"token", "handler", "answered"}
           /\ answer' = [s \in Tabs |-> answer'[s]]
           /\ \A s \in Tabs \ {t} : phase'[s] = phase[s] /\ request'[s] = request[s]
           /\ \A s \in Tabs \ {t} : answer'[s] = answer[s]
           /\ phase'[t] = "answered" => answer'[t].tokens = Keep
           /\ phase'[t] = "token" => extractToken(Carried(t, h, u)) # None
           /\ phase'[t] = "handler" => Router[h].access = "anyone"
           /\ troubled' = troubled \cup
                {j \in {Presents(request'[t])} \ {None} : h \in Rotates /\ Doubled(t, j)}
<1>1. PICK h \in Calls[ClientOf[t]], u \in Users :
        /\ request' = [request EXCEPT ![t] = Carried(t, h, u)]
        /\ Admit(t, request'[t])
        /\ troubled' = troubled \cup
             {j \in {Presents(request'[t])} \ {None} : h \in Rotates /\ Doubled(t, j)}
  BY DEF Send
<1>2. phase[t] = "idle" /\ jar' = jar /\ request'[t] = Carried(t, h, u)
  BY <1>1 DEF Send, Typed
<1>3. \A s \in Tabs \ {t} : request'[s] = request[s]
  BY <1>1 DEF Typed
<1>4. Carried(t, h, u).handler = h
  BY DEF Carried
<1>5. PICK r : r = Carried(t, h, u)
  OBVIOUS
<1>6. Admit(t, r)
  BY <1>1, <1>2, <1>5
<1>7. /\ phase' \in [Tabs -> Phases] /\ phase'[t] \in {"token", "handler", "answered"}
      /\ answer' = [s \in Tabs |-> answer'[s]]
      /\ \A s \in Tabs \ {t} : phase'[s] = phase[s] /\ answer'[s] = answer[s]
      /\ phase'[t] = "answered" => answer'[t].tokens = Keep
      /\ phase'[t] = "token" => extractToken(r) # None
      /\ phase'[t] = "handler" => Router[r.handler].access = "anyone"
  <2>1. ASSUME NEW next \in {"handler", "token"}, Goto(t, next)
        PROVE  /\ phase' \in [Tabs -> Phases] /\ phase'[t] = next
               /\ answer' = [s \in Tabs |-> answer'[s]]
               /\ \A s \in Tabs \ {t} : phase'[s] = phase[s] /\ answer'[s] = answer[s]
    BY <2>1 DEF Goto, Typed, Phases
  <2>2. ASSUME NEW code, Refuse(t, code)
        PROVE  /\ phase' \in [Tabs -> Phases] /\ phase'[t] = "answered"
               /\ answer' = [s \in Tabs |-> answer'[s]]
               /\ \A s \in Tabs \ {t} : phase'[s] = phase[s] /\ answer'[s] = answer[s]
               /\ answer'[t].tokens = Keep
    BY <2>2 DEF Refuse, Answer, Typed, Phases
  <2>3. CASE Refuse(t, "PermissionDenied") \/ Refuse(t, "Unauthenticated")
    BY <2>2, <2>3
  <2>4. CASE Router[r.handler].access = "anyone" /\ Goto(t, "handler")
    BY <2>1, <2>4
  <2>5. CASE extractToken(r) # None /\ Goto(t, "token")
    BY <2>1, <2>5
  <2> QED
    BY <1>6, <2>3, <2>4, <2>5 DEF Admit
<1> QED
  BY <1>1, <1>2, <1>3, <1>4, <1>5, <1>7

LEMMA SendKeepsRotation ==
  ASSUME IInv, NEW t \in Tabs, Send(t)
  PROVE  Rotation'
<1>1. PICK h, u :
        /\ phase[t] = "idle" /\ jar' = jar
        /\ request' = [request EXCEPT ![t] = Carried(t, h, u)]
        /\ request'[t] = Carried(t, h, u)
        /\ phase' \in [Tabs -> Phases] /\ phase'[t] \in {"token", "handler", "answered"}
        /\ answer' = [s \in Tabs |-> answer'[s]]
        /\ \A s \in Tabs \ {t} : phase'[s] = phase[s] /\ request'[s] = request[s]
        /\ \A s \in Tabs \ {t} : answer'[s] = answer[s]
        /\ phase'[t] = "answered" => answer'[t].tokens = Keep
        /\ troubled' = troubled \cup
             {j \in {Presents(request'[t])} \ {None} : h \in Rotates /\ Doubled(t, j)}
  BY SendMakes DEF IInv
<1>2. UNCHANGED <<pairs, consumed>> /\ consumed \subseteq 1..Len(pairs)
  BY DEF Send, upstream, IInv, Typed
<1>3. /\ request'[t].handler = h
      /\ Presents(request'[t]) \in {None, jar[ClientOf[t]].refresh}
  BY <1>1, CarriedTokens DEF IInv
<1>4. \A s \in Tabs : \A j : Hands(s, j)' <=> Hands(s, j) /\ s # t
  BY <1>1, TokensDiffer DEF Hands
<1>5. \A s \in Tabs \ {t} : \A j : Asks(s, j)' <=> Asks(s, j)
  BY <1>1 DEF Asks
<1>6. \A j : Asks(t, j)' <=> h \in Rotates /\ Presents(request'[t]) = j
  BY <1>1, <1>3 DEF Asks
<1>7. \A j \in 1..Len(pairs), c \in Clients : Mentions(c, j)' => Mentions(c, j)
  <2> SUFFICES ASSUME NEW j \in 1..Len(pairs), NEW c \in Clients, Mentions(c, j)'
               PROVE  Mentions(c, j)
    OBVIOUS
  <2>1. CASE jar'[c].refresh = j
    BY <1>1, <2>1 DEF Mentions
  <2>2. ASSUME NEW s \in Tabs, ClientOf[s] = c, phase'[s] # "idle",
               Presents(request'[s]) = j \/ Hands(s, j)'
        PROVE  Mentions(c, j)
    <3>1. CASE s = t
      BY <1>3, <1>4, <2>2, <3>1 DEF Mentions, None
    <3>2. CASE s # t
      BY <1>1, <1>4, <2>2, <3>2 DEF Mentions
    <3> QED
      BY <3>1, <3>2
  <2> QED
    BY <2>1, <2>2 DEF Mentions
<1>8. Apart'
  BY <1>2, <1>7 DEF Apart, IInv, Rotation
<1>9. Fresh'
  <2> SUFFICES ASSUME NEW s \in Tabs, NEW j \in 1..Len(pairs), Hands(s, j)'
               PROVE  /\ j \notin consumed
                      /\ \A c \in Clients : jar'[c].refresh # j
                      /\ \A r \in Tabs : phase'[r] # "idle" => Presents(request'[r]) # j
                      /\ \A r \in Tabs : Hands(r, j)' => r = s
    BY <1>2 DEF Fresh
  <2>1. /\ j \notin consumed
        /\ \A c \in Clients : jar[c].refresh # j
        /\ \A r \in Tabs : phase[r] # "idle" => Presents(request[r]) # j
        /\ \A r \in Tabs : Hands(r, j) => r = s
    BY <1>4 DEF IInv, Rotation, Fresh
  <2>2. Presents(request'[t]) # j
    BY <1>3, <2>1, TabsOfClients DEF None
  <2> QED
    BY <1>1, <1>4, <2>1, <2>2
<1>10. ASSUME NEW s \in Tabs \ {t}, NEW j \in 1..Len(pairs), Asks(s, j), Asks(t, j)'
       PROVE  j \in troubled'
  <2>1. Doubled(t, j) /\ j # None
    BY <1>10 DEF Doubled, Asks, None
  <2> QED
    BY <1>1, <1>6, <1>10, <2>1
<1>11. Alone'
  <2>1. troubled \subseteq troubled'
    BY <1>1
  <2> QED
    BY <1>2, <1>5, <1>10, <2>1 DEF Alone, IInv, Rotation
<1>12. Spent'
  <2> SUFFICES ASSUME NEW j \in consumed \ troubled'
               PROVE  /\ \A s \in Tabs : Asks(s, j)' => \E k \in 1..Len(pairs) : Hands(s, k)'
                      /\ \A c \in Clients : jar'[c].refresh = j =>
                           \E s \in Tabs : ClientOf[s] = c /\ Asks(s, j)'
    BY <1>2 DEF Spent
  <2>1. /\ j \in 1..Len(pairs)
        /\ \A s \in Tabs : Asks(s, j) => \E k \in 1..Len(pairs) : Hands(s, k)
        /\ \A c \in Clients : jar[c].refresh = j => \E s \in Tabs : ClientOf[s] = c /\ Asks(s, j)
    BY <1>1, <1>2 DEF IInv, Rotation, Spent
  <2>2. \A s \in Tabs : Asks(s, j) => s # t
    BY <1>1 DEF Asks
  <2>3. ~Asks(t, j)'
    <3> SUFFICES ASSUME Asks(t, j)' PROVE FALSE
      OBVIOUS
    <3>1. jar[ClientOf[t]].refresh = j
      BY <1>3, <1>6, <2>1 DEF None
    <3>2. PICK s \in Tabs : ClientOf[s] = ClientOf[t] /\ Asks(s, j)
      BY <2>1, <3>1, TabsOfClients
    <3> QED
      BY <1>10, <2>1, <2>2, <3>2
  <2> QED
    BY <1>1, <1>4, <1>5, <2>1, <2>2, <2>3
<1> QED
  BY <1>8, <1>9, <1>11, <1>12 DEF Rotation

LEMMA ReceiveKeepsRotation ==
  ASSUME IInv, NEW t \in Tabs, Receive(t)
  PROVE  Rotation'
<1>1. /\ phase[t] = "answered" /\ phase'[t] = "idle"
      /\ \A s \in Tabs \ {t} : /\ phase'[s] = phase[s] /\ request'[s] = request[s]
                               /\ answer'[s] = answer[s]
      /\ UNCHANGED <<pairs, consumed, troubled>> /\ consumed \subseteq 1..Len(pairs)
  BY DEF Receive, upstream, IInv, Typed
<1> DEFINE c0 == ClientOf[t]
<1>2. /\ \A d \in Clients \ {c0} : jar'[d] = jar[d]
      /\ jar'[c0] = Stored(jar[c0], answer[t].tokens) /\ c0 \in Clients
      /\ jar[c0] \in [access : Held, refresh : Held, csrf : BOOLEAN]
  BY TabsOfClients DEF Receive, IInv, Typed
<1>3. \/ jar'[c0].refresh = jar[c0].refresh /\ \A j : ~Hands(t, j)
      \/ Hands(t, jar'[c0].refresh)
  <2>1. Given(answer[t].tokens)
    BY <1>1 DEF IInv, Typed
  <2>2. CASE answer[t].tokens = Keep \/ answer[t].tokens = [csrf |-> TRUE]
    <3>1. jar'[c0].refresh = jar[c0].refresh
      BY <1>2, <2>2, StoredTokens
    <3> QED
      BY <2>2, <3>1, TokensDiffer DEF Hands
  <2>3. ASSUME NEW j \in Held, answer[t].tokens = Hand(j)
        PROVE  Hands(t, jar'[c0].refresh)
    BY <1>1, <1>2, <2>3, StoredTokens DEF Hands
  <2> QED
    BY <2>1, <2>2, <2>3 DEF Given
<1> HIDE DEF c0
<1>4. \A j, k : Hands(t, j) /\ Hands(t, k) => j = k
  BY TokensDiffer DEF Hands
<1>5. \A s \in Tabs : \A j : Hands(s, j)' <=> Hands(s, j) /\ s # t
  BY <1>1 DEF Hands
<1>6. \A s \in Tabs : \A j : Asks(s, j)' <=> Asks(s, j) /\ s # t
  BY <1>1 DEF Asks
<1>7. \A d \in Clients : \A j : jar'[d].refresh = j =>
        jar[d].refresh = j \/ (d = c0 /\ Hands(t, j))
  BY <1>2, <1>3
<1>8. \A j \in 1..Len(pairs), d \in Clients : Mentions(d, j)' => Mentions(d, j)
  <2>1. ASSUME NEW j \in 1..Len(pairs), NEW d \in Clients, jar'[d].refresh = j
        PROVE  Mentions(d, j)
    BY <1>1, <1>7, <2>1 DEF Mentions, c0
  <2>2. ASSUME NEW j \in 1..Len(pairs), NEW d \in Clients, NEW s \in Tabs, ClientOf[s] = d,
               phase'[s] # "idle", Presents(request'[s]) = j \/ Hands(s, j)'
        PROVE  Mentions(d, j)
    BY <1>1, <1>5, <2>2 DEF Mentions
  <2> QED
    BY <2>1, <2>2 DEF Mentions
<1>9. Apart'
  BY <1>1, <1>8 DEF Apart, IInv, Rotation
<1>10. Fresh'
  <2> SUFFICES ASSUME NEW s \in Tabs, NEW j \in 1..Len(pairs), Hands(s, j)'
               PROVE  /\ j \notin consumed
                      /\ \A d \in Clients : jar'[d].refresh # j
                      /\ \A r \in Tabs : phase'[r] # "idle" => Presents(request'[r]) # j
                      /\ \A r \in Tabs : Hands(r, j)' => r = s
    BY <1>1 DEF Fresh
  <2>1. /\ Hands(s, j) /\ s # t /\ j \notin consumed
        /\ \A d \in Clients : jar[d].refresh # j
        /\ \A r \in Tabs : phase[r] # "idle" => Presents(request[r]) # j
        /\ \A r \in Tabs : Hands(r, j) => r = s
    BY <1>5 DEF IInv, Rotation, Fresh
  <2> QED
    BY <1>1, <1>5, <1>7, <2>1
<1>11. Alone'
  BY <1>1, <1>6 DEF Alone, IInv, Rotation
<1>12. Spent'
  <2> SUFFICES ASSUME NEW j \in consumed \ troubled
               PROVE  /\ \A s \in Tabs : Asks(s, j)' => \E k \in 1..Len(pairs) : Hands(s, k)'
                      /\ \A d \in Clients : jar'[d].refresh = j =>
                           \E s \in Tabs : ClientOf[s] = d /\ Asks(s, j)'
    BY <1>1 DEF Spent
  <2>1. /\ j \in 1..Len(pairs)
        /\ \A s \in Tabs : Asks(s, j) => \E k \in 1..Len(pairs) : Hands(s, k)
        /\ \A d \in Clients : jar[d].refresh = j => \E s \in Tabs : ClientOf[s] = d /\ Asks(s, j)
    BY <1>1 DEF IInv, Rotation, Spent
  <2>2. ASSUME NEW d \in Clients, jar'[d].refresh = j
        PROVE  \E s \in Tabs : ClientOf[s] = d /\ Asks(s, j)'
    <3>1. ~Hands(t, j)
      BY <2>1 DEF IInv, Rotation, Fresh
    <3>2. PICK s \in Tabs : ClientOf[s] = d /\ Asks(s, j)
      BY <1>7, <2>1, <2>2, <3>1
    <3>3. s # t
      <4> SUFFICES ASSUME s = t PROVE FALSE
        OBVIOUS
      <4>1. PICK k \in 1..Len(pairs) : Hands(t, k)
        BY <2>1, <3>2
      <4>2. d = c0
        BY <3>2 DEF c0
      <4>3. Hands(t, j)
        BY <1>3, <2>2, <4>1, <4>2
      <4> QED
        BY <3>1, <4>3
    <3> QED
      BY <1>6, <3>2, <3>3
  <2> QED
    BY <1>5, <1>6, <2>1, <2>2
<1> QED
  BY <1>9, <1>10, <1>11, <1>12 DEF Rotation

LEMMA LoseKeepsRotation ==
  ASSUME IInv, NEW t \in Tabs, Lose(t)
  PROVE  Rotation'
<1>1. /\ phase[t] = "answered" /\ phase'[t] = "idle" /\ jar' = jar
      /\ \A s \in Tabs \ {t} : /\ phase'[s] = phase[s] /\ request'[s] = request[s]
                               /\ answer'[s] = answer[s]
      /\ UNCHANGED <<pairs, consumed>> /\ consumed \subseteq 1..Len(pairs)
      /\ troubled' = troubled \cup
           {j \in consumed : request[t].handler \in Rotates /\ Presents(request[t]) = j}
  BY DEF Lose, upstream, IInv, Typed
<1>2. \A s \in Tabs : \A j : Hands(s, j)' <=> Hands(s, j) /\ s # t
  BY <1>1 DEF Hands
<1>3. \A s \in Tabs : \A j : Asks(s, j)' <=> Asks(s, j) /\ s # t
  BY <1>1 DEF Asks
<1>4. \A j \in 1..Len(pairs), d \in Clients : Mentions(d, j)' => Mentions(d, j)
  BY <1>1, <1>2 DEF Mentions
<1>5. Apart'
  BY <1>1, <1>4 DEF Apart, IInv, Rotation
<1>6. Fresh'
  BY <1>1, <1>2 DEF Fresh, IInv, Rotation
<1>7. Alone'
  <2>1. troubled \subseteq troubled'
    BY <1>1
  <2> QED
    BY <1>1, <1>3, <2>1 DEF Alone, IInv, Rotation
<1>8. Spent'
  <2> SUFFICES ASSUME NEW j \in consumed \ troubled'
               PROVE  /\ \A s \in Tabs : Asks(s, j)' => \E k \in 1..Len(pairs) : Hands(s, k)'
                      /\ \A d \in Clients : jar'[d].refresh = j =>
                           \E s \in Tabs : ClientOf[s] = d /\ Asks(s, j)'
    BY <1>1 DEF Spent
  <2>1. ~Asks(t, j) /\ j \notin troubled
    BY <1>1 DEF Asks
  <2>2. /\ \A s \in Tabs : Asks(s, j) => \E k \in 1..Len(pairs) : Hands(s, k)
        /\ \A d \in Clients : jar[d].refresh = j => \E s \in Tabs : ClientOf[s] = d /\ Asks(s, j)
    BY <2>1 DEF IInv, Rotation, Spent
  <2> QED
    BY <1>1, <1>2, <1>3, <2>1, <2>2
<1> QED
  BY <1>5, <1>6, <1>7, <1>8 DEF Rotation

\* The types, and what each client holds, after a step of a client.
LEMMA ClientKeeps ==
  ASSUME IInv, NEW t \in Tabs, Send(t) \/ Receive(t) \/ Lose(t)
  PROVE  IInv'
<1>1. Rotation'
  BY SendKeepsRotation, ReceiveKeepsRotation, LoseKeepsRotation
<1>2. UNCHANGED <<users, pairs, consumed, revoked, replayed>> /\ Len(pairs') = Len(pairs)
  BY DEF Send, Receive, Lose, upstream
<1>3. Roles'
  BY <1>2 DEF IInv, Roles, Granted
<1>4. ReplayNeedsTrouble'
  <2>1. troubled \subseteq troubled'
    BY DEF Send, Receive, Lose
  <2> QED
    BY <1>2, <2>1 DEF IInv, ReplayNeedsTrouble
<1>5. CASE Send(t)
  <2>1. PICK h : \E u \in Users :
          /\ phase[t] = "idle" /\ jar' = jar
          /\ request' = [request EXCEPT ![t] = Carried(t, h, u)]
          /\ request'[t] = Carried(t, h, u)
          /\ phase' \in [Tabs -> Phases] /\ phase'[t] \in {"token", "handler", "answered"}
          /\ answer' = [s \in Tabs |-> answer'[s]]
          /\ \A s \in Tabs \ {t} : phase'[s] = phase[s] /\ request'[s] = request[s]
          /\ \A s \in Tabs \ {t} : answer'[s] = answer[s]
          /\ phase'[t] = "answered" => answer'[t].tokens = Keep
          /\ phase'[t] = "token" => extractToken(Carried(t, h, u)) # None
          /\ phase'[t] = "handler" => Router[h].access = "anyone"
    BY <1>5, SendMakes DEF IInv
  <2>2. /\ request'[t].handler = h /\ request'[t].user \in Users
        /\ Presents(request'[t]) \in Held /\ extractToken(request'[t]) \in Held
        /\ phase'[t] = "token" => extractToken(request'[t]) # None
    BY <2>1, CarriedTokens DEF IInv
  <2>3. request' = [s \in Tabs |-> request'[s]]
    BY <2>1 DEF IInv, Typed
  <2>4. Typed'
    <3>1. Held' = Held
      BY <1>2 DEF Held
    <3>2. \A s \in Tabs : phase'[s] = "answered" =>
            \/ answer'[s].tokens = Keep
            \/ answer'[s].tokens = [csrf |-> TRUE]
            \/ \E j \in Held : answer'[s].tokens = Hand(j)
      <4> SUFFICES ASSUME NEW s \in Tabs, phase'[s] = "answered", s # t
                   PROVE  \/ answer'[s].tokens = Keep
                          \/ answer'[s].tokens = [csrf |-> TRUE]
                          \/ \E j \in Held : answer'[s].tokens = Hand(j)
        BY <2>1
      <4>1. Given(answer[s].tokens) /\ answer'[s] = answer[s]
        BY <2>1 DEF IInv, Typed
      <4> QED
        BY <4>1 DEF Given
    <3>3. \A s \in Tabs : phase'[s] # "idle" =>
            /\ Presents(request'[s]) \in Held /\ extractToken(request'[s]) \in Held
            /\ request'[s].user \in Users
      BY <2>1, <2>2 DEF IInv, Typed
    <3>4. /\ users' = users /\ pairs' = pairs /\ consumed' \subseteq 1..Len(pairs')
          /\ users \in [Users -> Seq(Row)] /\ (\A u \in Users : Len(users[u]) > 0)
          /\ pairs \in Seq(Pair)
          /\ jar' \in [Clients -> [access : Held, refresh : Held, csrf : BOOLEAN]]
      BY <1>2, <2>1 DEF IInv, Typed
    <3> QED
      BY <2>1, <2>3, <3>1, <3>2, <3>3, <3>4 DEF Typed, Given
  <2>5. Admitted'
    <3>1. phase'[t] = "handler" => Router[request'[t].handler].access # "admin"
      BY <2>1, <2>2
    <3> QED
      BY <1>2, <2>1, <2>2, <3>1 DEF IInv, Admitted, claims
  <2>6. OneSessionInJar'
    BY <2>1 DEF IInv, OneSessionInJar
  <2> QED
    BY <1>1, <1>3, <1>4, <2>4, <2>5, <2>6 DEF IInv
<1>6. CASE Receive(t) \/ Lose(t)
  <2>1. /\ phase[t] = "answered" /\ phase'[t] = "idle" /\ phase' \in [Tabs -> Phases]
        /\ request' = [s \in Tabs |-> request'[s]] /\ answer' = [s \in Tabs |-> answer'[s]]
        /\ \A s \in Tabs \ {t} : /\ phase'[s] = phase[s] /\ request'[s] = request[s]
                                 /\ answer'[s] = answer[s]
    BY <1>6 DEF Receive, Lose, IInv, Typed, Phases
  <2>2. /\ jar' \in [Clients -> [access : Held, refresh : Held, csrf : BOOLEAN]]
        /\ \A c \in Clients : jar'[c].access = jar'[c].refresh
    <3>1. CASE Lose(t)
      BY <3>1 DEF Lose, IInv, Typed, OneSessionInJar
    <3>2. CASE Receive(t)
      <4>1. PICK c \in Clients : c = ClientOf[t]
        BY TabsOfClients
      <4>2. /\ \A d \in Clients \ {c} : jar'[d] = jar[d]
            /\ jar'[c] = Stored(jar[c], answer[t].tokens)
            /\ jar[c] \in [access : Held, refresh : Held, csrf : BOOLEAN]
            /\ jar' = [d \in Clients |-> jar'[d]]
            /\ \A d \in Clients : jar[d] \in [access : Held, refresh : Held, csrf : BOOLEAN]
        BY <3>2, <4>1 DEF Receive, IInv, Typed
      <4>3. Given(answer[t].tokens)
        BY <2>1 DEF IInv, Typed
      <4>4. /\ jar'[c] \in [access : Held, refresh : Held, csrf : BOOLEAN]
            /\ jar'[c].access = jar'[c].refresh
        <5>1. CASE answer[t].tokens = Keep
          BY <4>2, <5>1, StoredTokens DEF IInv, OneSessionInJar
        <5>2. CASE answer[t].tokens = [csrf |-> TRUE]
          <6>1. jar[c].access = jar[c].refresh
            BY DEF IInv, OneSessionInJar
          <6> QED
            BY <4>2, <5>2, <6>1, StoredTokens
        <5>3. ASSUME NEW j \in Held, answer[t].tokens = Hand(j)
              PROVE  /\ jar'[c] \in [access : Held, refresh : Held, csrf : BOOLEAN]
                     /\ jar'[c].access = jar'[c].refresh
          BY <4>2, <5>3, StoredTokens
        <5> QED
          BY <4>3, <5>1, <5>2, <5>3 DEF Given
      <4>5. \A d \in Clients : jar'[d] \in [access : Held, refresh : Held, csrf : BOOLEAN]
        BY <4>2, <4>4
      <4>6. \A d \in Clients : jar'[d].access = jar'[d].refresh
        BY <4>2, <4>4 DEF IInv, OneSessionInJar
      <4> HIDE DEF Held
      <4> QED
        BY <4>2, <4>5, <4>6
    <3> QED
      BY <1>6, <3>1, <3>2
  <2>3. Typed'
    <3>1. Held' = Held
      BY <1>2 DEF Held
    <3>2. \A s \in Tabs : phase'[s] = "answered" =>
            \/ answer'[s].tokens = Keep
            \/ answer'[s].tokens = [csrf |-> TRUE]
            \/ \E j \in Held : answer'[s].tokens = Hand(j)
      BY <2>1 DEF IInv, Typed, Given
    <3>3. \A s \in Tabs : phase'[s] # "idle" =>
            /\ Presents(request'[s]) \in Held /\ extractToken(request'[s]) \in Held
            /\ request'[s].user \in Users
      BY <2>1 DEF IInv, Typed
    <3>4. /\ users' = users /\ pairs' = pairs /\ consumed' \subseteq 1..Len(pairs')
          /\ users \in [Users -> Seq(Row)] /\ (\A u \in Users : Len(users[u]) > 0)
          /\ pairs \in Seq(Pair)
          /\ jar' \in [Clients -> [access : Held, refresh : Held, csrf : BOOLEAN]]
      BY <1>2, <2>1, <2>2 DEF IInv, Typed
    <3> QED
      BY <2>1, <3>1, <3>2, <3>3, <3>4 DEF Typed, Given
  <2>4. Admitted'
    BY <1>2, <2>1 DEF IInv, Admitted, claims
  <2>5. OneSessionInJar'
    BY <2>2 DEF OneSessionInJar
  <2> QED
    BY <1>1, <1>3, <1>4, <2>3, <2>4, <2>5 DEF IInv
<1> QED
  BY <1>5, <1>6

-----------------------------------------------------------------------------
(* The gateway.                                                            *)

LEMMA ServeKeeps ==
  ASSUME IInv, NEW t \in Tabs, Serves(t), UsersGrow, PairsGrow, Rotation',
         consumed' \subseteq 1..Len(pairs'), replayed' \subseteq troubled',
         \A i \in 1..Len(pairs') : i > Len(pairs) => Granted(pairs[i])',
         phase'[t] = "answered" =>
           \/ answer'[t].tokens = Keep
           \/ answer'[t].tokens = [csrf |-> TRUE]
           \/ \E j \in 0..Len(pairs') : answer'[t].tokens = Hand(j),
         phase'[t] = "handler" /\ Router[request[t].handler].access = "admin" =>
           extractToken(request[t]) # None /\ claims(t).role = "admin"
  PROVE  IInv'
<1>1. /\ Len(pairs) \in Nat /\ Len(pairs') \in Nat /\ Len(pairs') >= Len(pairs)
      /\ \A j : j \in 0..Len(pairs) => j \in 0..Len(pairs')
      /\ jar' = jar /\ request' = request
  BY DEF IInv, Typed, PairsGrow, Serves
<1>2. Typed'
  <2>1. jar' \in [Clients -> [access : 0..Len(pairs'), refresh : 0..Len(pairs'), csrf : BOOLEAN]]
    <3> DEFINE S == 0..Len(pairs)
               T == 0..Len(pairs')
    <3>1. S \subseteq T /\ jar \in [Clients -> [access : S, refresh : S, csrf : BOOLEAN]]
      BY <1>1 DEF IInv, Typed, Held
    <3> HIDE DEF S, T
    <3>2. jar \in [Clients -> [access : T, refresh : T, csrf : BOOLEAN]]
      BY <3>1
    <3> QED
      BY <1>1, <3>2 DEF T
  <2>2. \A s \in Tabs : phase'[s] = "answered" =>
          \/ answer'[s].tokens = Keep
          \/ answer'[s].tokens = [csrf |-> TRUE]
          \/ \E j \in 0..Len(pairs') : answer'[s].tokens = Hand(j)
    BY <1>1 DEF IInv, Typed, Given, Held, Serves
  <2>3. \A s \in Tabs : phase'[s] # "idle" =>
          /\ Presents(request'[s]) \in 0..Len(pairs') /\ extractToken(request'[s]) \in 0..Len(pairs')
          /\ request'[s].user \in Users
    BY <1>1 DEF IInv, Typed, Held, Serves
  <2>4. /\ pairs' \in Seq(Pair) /\ users' \in [Users -> Seq(Row)]
        /\ phase' \in [Tabs -> Phases] /\ answer' = [s \in Tabs |-> answer'[s]]
        /\ request' = [s \in Tabs |-> request'[s]]
    BY <1>1 DEF IInv, Typed, PairsGrow, UsersGrow, Serves
  <2>5. \A u \in Users : Len(users'[u]) > 0
    BY <2>4 DEF IInv, Typed, UsersGrow
  <2> QED
    BY <2>1, <2>2, <2>3, <2>4, <2>5 DEF Typed, Held, Given
<1>3. Roles'
  <2>1. ASSUME NEW i \in 1..Len(pairs)
        PROVE  Granted(pairs[i])'
    <3>1. PICK p \in Pair : p = pairs[i]
      BY DEF IInv, Typed
    <3>2. Granted(p)
      BY <3>1 DEF IInv, Roles
    <3>3. Granted(p)' /\ p = pairs'[i]
      BY <3>1, <3>2, GrantedStays DEF IInv, PairsGrow
    <3> QED
      BY <3>3 DEF Granted
  <2> QED
    BY <1>1, <2>1 DEF Roles
<1>4. Admitted'
  <2>1. ASSUME NEW s \in Tabs, phase[s] # "idle", extractToken(request[s]) # None
        PROVE  pairs'[extractToken(request[s])] = pairs[extractToken(request[s])]
    <3>1. extractToken(request[s]) \in 1..Len(pairs)
      BY <1>1, <2>1 DEF IInv, Typed, Held, None
    <3> QED
      BY <3>1 DEF PairsGrow
  <2>2. phase'[t] # "token" /\ phase[t] # "idle"
    BY DEF Serves
  <2>3. \A s \in Tabs \ {t} : phase'[s] = phase[s]
    BY DEF Serves
  <2> QED
    BY <1>1, <2>1, <2>2, <2>3 DEF IInv, Admitted, claims
<1>5. OneSessionInJar' /\ ReplayNeedsTrouble'
  BY <1>1 DEF IInv, OneSessionInJar, ReplayNeedsTrouble
<1> QED
  BY <1>2, <1>3, <1>4, <1>5 DEF IInv

\* A step that hands out nothing.
LEMMA QuietKeeps ==
  ASSUME IInv, NEW t \in Tabs, Serves(t), Silent(t), UsersGrow,
         pairs' = pairs, Uses(t), replayed' \subseteq troubled',
         phase'[t] = "handler" /\ Router[request[t].handler].access = "admin" =>
           extractToken(request[t]) # None /\ claims(t).role = "admin"
  PROVE  IInv'
<1>1. Rotation' /\ PairsGrow
  BY QuietKeepsRotation, PairsSame DEF IInv
<1>2. Len(pairs) \in Nat /\ None \in 0..Len(pairs') /\ consumed' \subseteq 1..Len(pairs')
  BY DEF IInv, Typed, None, Uses
<1>3. phase'[t] = "answered" =>
        \/ answer'[t].tokens = Keep
        \/ answer'[t].tokens = [csrf |-> TRUE]
        \/ \E j \in 0..Len(pairs') : answer'[t].tokens = Hand(j)
  BY <1>2, TokensDiffer DEF Silent
<1>4. \A i \in 1..Len(pairs') : ~(i > Len(pairs))
  BY <1>2
<1> QED
  BY <1>1, <1>2, <1>3, <1>4, ServeKeeps

\* A call that was carried out, whether or not its answer came in time.
LEMMA AnsweredServes ==
  ASSUME Typed, NEW t \in Tabs, phase[t] = "handler", UNCHANGED client,
         NEW given, Answered(t, given)
  PROVE  /\ Serves(t) /\ phase'[t] = "answered"
         /\ answer'[t].tokens = Keep \/ answer'[t].tokens = given
         /\ answer'[t].status = 200 => answer'[t].tokens = given
<1>1. ASSUME NEW status, Answer(t, status, given)
      PROVE  Serves(t) /\ phase'[t] = "answered" /\ answer'[t].tokens = given
  <2>1. phase[t] \in {"token", "handler"}
    OBVIOUS
  <2>2. Serves(t) /\ phase'[t] = "answered" /\ answer'[t] = [status |-> status, tokens |-> given]
    BY <1>1, <2>1, AnswerServes
  <2> QED
    BY <2>2
<1>2. CASE Refuse(t, "DeadlineExceeded")
  <2>1. Answer(t, grpcStatusToHTTP("DeadlineExceeded"), Keep)
    BY <1>2 DEF Refuse
  <2>2. /\ Serves(t) /\ phase'[t] = "answered"
        /\ answer'[t] = [status |-> grpcStatusToHTTP("DeadlineExceeded"), tokens |-> Keep]
    BY <2>1, AnswerServes
  <2>3. grpcStatusToHTTP("DeadlineExceeded") # 200
    BY DEF grpcStatusToHTTP
  <2> QED
    BY <2>2, <2>3
<1> QED
  BY <1>1, <1>2 DEF Answered

\* A refusal, and what comes with it when nothing else changes.
LEMMA RefusalKeeps ==
  ASSUME IInv, NEW t \in Tabs, phase[t] \in {"token", "handler"}, NEW code, Refuse(t, code),
         UNCHANGED <<client, users, pairs>>, Uses(t), replayed' \subseteq troubled'
  PROVE  IInv'
<1>1. Serves(t) /\ Silent(t) /\ phase'[t] = "answered"
  BY RefuseServes DEF IInv
<1>2. UsersGrow
  BY UsersSame DEF IInv
<1> QED
  BY <1>1, <1>2, QuietKeeps

LEMMA AuthenticateKeeps ==
  ASSUME IInv, NEW t \in Tabs, Authenticate(t)
  PROVE  IInv'
<1>1. /\ phase[t] \in {"token", "handler"} /\ phase[t] = "token" /\ UNCHANGED client
      /\ UNCHANGED <<users, pairs, consumed, troubled>> /\ replayed' \subseteq troubled
  BY DEF Authenticate, upstream, IInv, ReplayNeedsTrouble
<1>2. ASSUME NEW code, Refuse(t, code)
      PROVE  IInv'
  BY <1>1, <1>2, RefusalKeeps DEF client, Uses
<1>3. CASE Goto(t, "handler") /\ (Router[request[t].handler].access = "admin" => claims(t).role = "admin")
  <2>1. Serves(t) /\ Silent(t)
    BY <1>1, <1>3, GotoServes DEF IInv
  <2>2. extractToken(request[t]) # None
    BY <1>1 DEF IInv, Admitted
  <2>3. UsersGrow
    BY <1>1, UsersSame DEF IInv
  <2> QED
    BY <1>1, <1>3, <2>1, <2>2, <2>3, QuietKeeps DEF Uses
<1> QED
  BY <1>2, <1>3 DEF Authenticate, Authenticated, Unreached

LEMMA RefusesBodyKeeps ==
  ASSUME IInv, NEW t \in Tabs, RefusesBody(t)
  PROVE  IInv'
  BY RefusalKeeps DEF RefusesBody, upstream, IInv, ReplayNeedsTrouble, Uses

LEMMA CallFailsKeeps ==
  ASSUME IInv, NEW t \in Tabs, CallFails(t)
  PROVE  IInv'
  BY RefusalKeeps DEF CallFails, Unreached, upstream, IInv, ReplayNeedsTrouble, Uses

\* An answer without tokens of a pair.
LEMMA AnsweringKeeps ==
  ASSUME IInv, NEW t \in Tabs, phase[t] = "handler", phase'[t] = "answered", Serves(t),
         \/ answer'[t].tokens = Keep
         \/ answer'[t].tokens = [csrf |-> TRUE]
         \/ answer'[t].tokens = Clear,
         UsersGrow, UNCHANGED <<pairs, consumed, troubled, replayed>>
  PROVE  IInv'
<1>1. Silent(t) /\ replayed' \subseteq troubled
  BY DEF Silent, IInv, ReplayNeedsTrouble
<1> QED
  BY <1>1, QuietKeeps DEF Uses

LEMMA CSRFKeeps ==
  ASSUME IInv, NEW t \in Tabs, CSRF(t)
  PROVE  IInv'
<1>1. /\ phase[t] = "handler" /\ phase[t] \in {"token", "handler"}
      /\ Answer(t, 200, [csrf |-> TRUE]) /\ UNCHANGED client
      /\ UNCHANGED <<users, pairs, consumed, troubled, replayed>>
  BY DEF CSRF, Handles, upstream
<1>2. PICK given : given = [csrf |-> TRUE]
  OBVIOUS
<1>3. Serves(t) /\ phase'[t] = "answered" /\ answer'[t] = [status |-> 200, tokens |-> given]
  <2>1. Answer(t, 200, given)
    BY <1>1, <1>2
  <2> QED
    BY <1>1, <2>1, AnswerServes DEF IInv
<1>4. UsersGrow /\ answer'[t].tokens = [csrf |-> TRUE]
  BY <1>1, <1>2, <1>3, UsersSame DEF IInv
<1> QED
  BY <1>1, <1>3, <1>4, AnsweringKeeps

LEMMA LogoutKeeps ==
  ASSUME IInv, NEW t \in Tabs, Logout(t)
  PROVE  IInv'
<1>1. /\ phase[t] = "handler" /\ phase[t] \in {"token", "handler"} /\ UNCHANGED client
      /\ UNCHANGED <<users, pairs, consumed, troubled, replayed>> /\ UsersGrow
      /\ AfterLogout(t) = Keep \/ AfterLogout(t) = Clear
  BY UsersSame DEF Logout, Handles, AfterLogout, IInv
<1>2. \/ Answer(t, 200, AfterLogout(t))
      \/ Refuse(t, authMapError("ErrInvalidToken"))
      \/ Answered(t, AfterLogout(t))
  BY DEF Logout
<1>3. CASE Answer(t, 200, AfterLogout(t))
  <2>1. /\ Serves(t) /\ phase'[t] = "answered"
        /\ answer'[t] = [status |-> 200, tokens |-> AfterLogout(t)]
    BY <1>1, <1>3, AnswerServes DEF IInv
  <2> QED
    BY <1>1, <2>1, AnsweringKeeps
<1>4. CASE Refuse(t, authMapError("ErrInvalidToken"))
  BY <1>1, <1>4, RefusalKeeps DEF IInv, ReplayNeedsTrouble, Uses
<1>5. CASE Answered(t, AfterLogout(t))
  <2>1. /\ Serves(t) /\ phase'[t] = "answered"
        /\ answer'[t].tokens = Keep \/ answer'[t].tokens = AfterLogout(t)
    BY <1>1, <1>5, AnsweredServes DEF IInv
  <2> QED
    BY <1>1, <2>1, AnsweringKeeps
<1> QED
  BY <1>2, <1>3, <1>4, <1>5

LEMMA SetPasswordKeeps ==
  ASSUME IInv, NEW t \in Tabs, SetPassword(t)
  PROVE  IInv'
<1>1. /\ phase[t] = "handler" /\ phase[t] \in {"token", "handler"} /\ UNCHANGED client
      /\ UNCHANGED <<pairs, consumed, troubled, replayed>>
  BY DEF SetPassword, Handles
<1>2. ASSUME NEW code, Refuse(t, code), UNCHANGED users
      PROVE  IInv'
  BY <1>1, <1>2, RefusalKeeps DEF IInv, ReplayNeedsTrouble, Uses
<1>3. ASSUME NEW u, NewPassword(u), Answered(t, Clear)
      PROVE  IInv'
  <2>1. UsersGrow
    <3>1. CASE u \in Users
      <4>1. PICK row : row = [User(u) EXCEPT !.version = @ + 1]
        OBVIOUS
      <4>2. row \in Row
        BY <3>1, <4>1, GatewayUserRows DEF IInv, Row
      <4>3. users' = [users EXCEPT ![u] = Append(@, row)]
        BY <1>3, <4>1 DEF NewPassword
      <4> QED
        BY <3>1, <4>2, <4>3, RowsAppended DEF IInv
    <3>2. CASE u \notin Users
      <4>1. users' = users
        BY <1>3, <3>2 DEF NewPassword, IInv, Typed
      <4> QED
        BY <4>1, UsersSame DEF IInv
    <3> QED
      BY <3>1, <3>2
  <2>2. /\ Serves(t) /\ phase'[t] = "answered"
        /\ answer'[t].tokens = Keep \/ answer'[t].tokens = Clear
    BY <1>1, <1>3, AnsweredServes DEF IInv
  <2> QED
    BY <1>1, <2>1, <2>2, AnsweringKeeps
<1> QED
  BY <1>2, <1>3 DEF SetPassword

LEMMA ForwardKeeps ==
  ASSUME IInv, NEW t \in Tabs, Forward(t)
  PROVE  IInv'
<1>1. /\ phase[t] = "handler" /\ phase[t] \in {"token", "handler"} /\ UNCHANGED client
      /\ UNCHANGED <<users, pairs, consumed, troubled, replayed>> /\ UsersGrow
  BY UsersSame DEF Forward, Handles, upstream, IInv
<1>2. ASSUME NEW code, Refuse(t, code)
      PROVE  IInv'
  BY <1>1, <1>2, RefusalKeeps DEF IInv, ReplayNeedsTrouble, Uses
<1>3. CASE Answered(t, Keep)
  <2>1. Serves(t) /\ phase'[t] = "answered" /\ answer'[t].tokens = Keep
    BY <1>1, <1>3, AnsweredServes DEF IInv
  <2> QED
    BY <1>1, <2>1, AnsweringKeeps
<1> QED
  BY <1>2, <1>3 DEF Forward

LEMMA IssueMakes ==
  ASSUME IInv, NEW u \in Users, NEW session \in Nat, Issue(u, session), UNCHANGED users,
         User(u).active
  PROVE  /\ UsersGrow /\ PairsGrow /\ Len(pairs') = Len(pairs) + 1
         /\ \A i \in 1..Len(pairs') : i > Len(pairs) => Granted(pairs[i])'
<1>1. PICK p : p = [user |-> u, session |-> session, version |-> User(u).version,
                    role |-> User(u).role, since |-> Len(users[u])]
  OBVIOUS
<1>2. /\ users[u] \in Seq(Row) /\ Len(users[u]) \in Nat \ {0} /\ User(u) \in Row
      /\ User(u) = users[u][Len(users[u])]
  BY GatewayUserRows DEF IInv
<1>3. p \in Pair
  BY <1>1, <1>2 DEF Pair, Row
<1>4. pairs' = Append(pairs, p) /\ pairs \in Seq(Pair)
  BY <1>1 DEF Issue, IInv, Typed
<1>5. /\ PairsGrow /\ Len(pairs') = Len(pairs) + 1 /\ pairs'[Len(pairs')] = p
      /\ Len(pairs) \in Nat
  BY <1>3, <1>4 DEF PairsGrow
<1>6. p.user = u /\ p.since = Len(users[u]) /\ p.role = User(u).role
  BY <1>1
<1>7. Granted(pairs[Len(pairs)])'
  BY <1>2, <1>5, <1>6 DEF Granted
<1>8. UsersGrow
  BY UsersSame DEF IInv
<1>9. ASSUME NEW i \in 1..Len(pairs'), i > Len(pairs)
      PROVE  Granted(pairs[i])'
  <2>1. i = Len(pairs')
    BY <1>5, <1>9
  <2> QED
    BY <1>7, <2>1 DEF Granted
<1> QED
  BY <1>5, <1>8, <1>9

LEMMA LoginKeeps ==
  ASSUME IInv, NEW t \in Tabs, Login(t)
  PROVE  IInv'
<1>1. /\ phase[t] = "handler" /\ phase[t] \in {"token", "handler"} /\ UNCHANGED client
      /\ UNCHANGED <<users, consumed, troubled, replayed>>
  BY DEF Login, Handles
<1>2. ASSUME NEW code, Refuse(t, code), UNCHANGED pairs
      PROVE  IInv'
  BY <1>1, <1>2, RefusalKeeps DEF IInv, ReplayNeedsTrouble, Uses
<1>3. ASSUME User(request[t].user).active, Issue(request[t].user, Len(pairs) + 1),
             Answered(t, TokensGiven)
      PROVE  IInv'
  <2>1. request[t].user \in Users /\ Len(pairs) \in Nat /\ Len(pairs) + 1 \in Nat
    BY <1>1 DEF IInv, Typed
  <2>2. /\ UsersGrow /\ PairsGrow /\ Len(pairs') = Len(pairs) + 1
        /\ \A i \in 1..Len(pairs') : i > Len(pairs) => Granted(pairs[i])'
    BY <1>1, <1>3, <2>1, IssueMakes
  <2>3. /\ Serves(t) /\ phase'[t] = "answered"
        /\ answer'[t].tokens = Keep \/ answer'[t].tokens = Hand(Len(pairs) + 1)
    BY <1>1, <1>3, AnsweredServes DEF IInv, TokensGiven
  <2>4. Issues(t)
    BY <1>1, <2>2, <2>3 DEF Issues
  <2>5. Rotation'
    BY <1>1, <2>4, LoginKeepsRotation
  <2>6. consumed' \subseteq 1..Len(pairs') /\ replayed' \subseteq troubled'
    BY <1>1, <2>1, <2>2 DEF IInv, Typed, ReplayNeedsTrouble
  <2>7. Len(pairs) + 1 \in 0..Len(pairs')
    BY <2>1, <2>2
  <2> QED
    BY <2>2, <2>3, <2>5, <2>6, <2>7, ServeKeeps
<1> QED
  BY <1>2, <1>3 DEF Login

LEMMA RefreshTokenKeeps ==
  ASSUME IInv, NEW t \in Tabs, RefreshToken(t)
  PROVE  IInv'
<1>1. PICK j : j = Presents(request[t])
  OBVIOUS
<1>2. /\ phase[t] = "handler" /\ phase[t] \in {"token", "handler"} /\ UNCHANGED client
      /\ UNCHANGED users /\ request[t].handler \in Rotates
  BY DEF RefreshToken, Handles
<1>3. j \in Held /\ (j # None => j \in 1..Len(pairs)) /\ Asks(t, j)
  BY <1>1, <1>2 DEF IInv, Typed, Held, None, Asks
<1>4. ASSUME NEW code, Refuse(t, code), UNCHANGED <<pairs, consumed, troubled, replayed>>
      PROVE  IInv'
  BY <1>2, <1>4, RefusalKeeps DEF IInv, ReplayNeedsTrouble, Uses
<1>5. ASSUME NEW code, Refuse(t, code), UNCHANGED <<pairs, consumed, troubled>>,
             \/ replayed' = replayed
             \/ j \in consumed /\ replayed' = replayed \cup {j}
      PROVE  IInv'
  <2>1. j \in consumed => j \in troubled
    BY <1>2, <1>3 DEF IInv, Rotation, Spent, Hands
  <2>2. replayed' \subseteq troubled
    BY <1>5, <2>1 DEF IInv, ReplayNeedsTrouble
  <2> QED
    BY <1>2, <1>5, <2>2, RefusalKeeps DEF Uses
<1>6. ASSUME j # None, User(pairs[j].user).active, Rotate(j), Answered(t, TokensGiven),
             troubled' = IF answer'[t].status = 200 THEN troubled ELSE troubled \cup {j},
             UNCHANGED replayed
      PROVE  IInv'
  <2>1. j \in 1..Len(pairs) /\ pairs[j] \in Pair /\ Len(pairs) \in Nat
    BY <1>3, <1>6 DEF IInv, Typed
  <2>2. pairs[j].user \in Users /\ pairs[j].session \in Nat
    BY <2>1 DEF Pair
  <2>3. /\ UsersGrow /\ PairsGrow /\ Len(pairs') = Len(pairs) + 1
        /\ \A i \in 1..Len(pairs') : i > Len(pairs) => Granted(pairs[i])'
    BY <1>2, <1>6, <2>2, IssueMakes DEF Rotate
  <2>4. /\ Serves(t) /\ phase'[t] = "answered"
        /\ answer'[t].tokens = Keep \/ answer'[t].tokens = Hand(Len(pairs) + 1)
        /\ answer'[t].status = 200 => answer'[t].tokens = Hand(Len(pairs) + 1)
    BY <1>2, <1>6, AnsweredServes DEF IInv, TokensGiven
  <2>5. Issues(t)
    BY <1>2, <2>3, <2>4 DEF Issues
  <2>6. answer'[t].tokens = Keep => j \in troubled'
    BY <1>6, <2>4, TokensDiffer
  <2>7. troubled \subseteq troubled' /\ consumed' = consumed \cup {j}
    BY <1>6 DEF Rotate
  <2>8. Rotation'
    BY <1>1, <1>2, <2>1, <2>5, <2>6, <2>7, RotationKeepsRotation
  <2>9. consumed' \subseteq 1..Len(pairs') /\ replayed' \subseteq troubled'
    BY <1>6, <2>1, <2>3, <2>7 DEF IInv, Typed, ReplayNeedsTrouble
  <2>10. Len(pairs) + 1 \in 0..Len(pairs')
    BY <2>1, <2>3
  <2> QED
    BY <2>3, <2>4, <2>8, <2>9, <2>10, ServeKeeps
<1>7. ASSUME NEW code, Refuse(t, code), j # None, Resent(j), UNCHANGED pairs
      PROVE  IInv'
  <2>1. Uses(t) /\ replayed' \subseteq troubled'
    BY <1>1, <1>3, <1>7 DEF Resent, Uses, IInv, ReplayNeedsTrouble
  <2> QED
    BY <1>2, <1>7, <2>1, RefusalKeeps
<1> QED
  BY <1>1, <1>4, <1>5, <1>6, <1>7 DEF RefreshToken

\* An operator's change touches nothing the gateway holds.
LEMMA UserChangesKeeps ==
  ASSUME IInv, UserChanges
  PROVE  IInv'
<1>1. /\ UNCHANGED <<jar, request, phase, answer, pairs, consumed, revoked, replayed, troubled>>
      /\ Held' = Held
  BY DEF UserChanges, client, Held
<1>2. UsersGrow
  <2>1. PICK u \in Users, given \in Interventions :
          users' = [users EXCEPT ![u] =
                      Append(@, [User(u) EXCEPT !.role = given.role, !.active = given.active])]
    BY DEF UserChanges
  <2>2. PICK row : row = [User(u) EXCEPT !.role = given.role, !.active = given.active]
    OBVIOUS
  <2>3. row \in Row
    BY <2>2, GatewayUserRows, GatewayAssumption DEF IInv, Row
  <2> QED
    BY <2>1, <2>2, <2>3, RowsAppended DEF IInv
<1>3. Typed'
  <2>1. \A u \in Users : Len(users'[u]) > 0
    BY <1>2 DEF IInv, Typed, UsersGrow
  <2> QED
    BY <1>1, <1>2, <2>1 DEF IInv, Typed, UsersGrow, Given
<1>4. Roles'
  <2> SUFFICES ASSUME NEW i \in 1..Len(pairs)
               PROVE  Granted(pairs[i])'
    BY <1>1 DEF Roles
  <2>1. PICK p \in Pair : p = pairs[i]
    BY DEF IInv, Typed
  <2>2. Granted(p)'
    BY <1>2, <2>1, GrantedStays DEF IInv, Roles
  <2> QED
    BY <1>1, <2>1, <2>2 DEF Granted
<1>5. Admitted' /\ OneSessionInJar' /\ ReplayNeedsTrouble'
  BY <1>1 DEF IInv, Admitted, claims, OneSessionInJar, ReplayNeedsTrouble
<1>6. Rotation'
  BY <1>1 DEF IInv, Rotation, Apart, Mentions, Hands, Fresh, Alone, Asks, Spent
<1> QED
  BY <1>3, <1>4, <1>5, <1>6 DEF IInv

-----------------------------------------------------------------------------
(* What holds in every state.                                              *)

LEMMA NextKeeps ==
  ASSUME IInv, [Next]_vars
  PROVE  IInv'
<1>1. CASE UNCHANGED vars
  BY <1>1 DEF vars, IInv, Typed, Held, Given, Admitted, claims, Roles, Granted, Rotation, Apart,
     Mentions, Hands, Fresh, Alone, Asks, Spent, OneSessionInJar, ReplayNeedsTrouble
<1>2. ASSUME NEW t \in Tabs, Serve(t)
      PROVE  IInv'
  BY <1>2, AuthenticateKeeps, RefusesBodyKeeps, CallFailsKeeps, CSRFKeeps, LoginKeeps,
     RefreshTokenKeeps, LogoutKeeps, SetPasswordKeeps, ForwardKeeps DEF Serve, Handle
<1> QED
  BY <1>1, <1>2, ClientKeeps, UserChangesKeeps DEF Next

THEOREM GatewayInvariance == Spec => []IInv
<1>1. Init => IInv
  BY InitInvariant
<1>2. IInv /\ [Next]_vars => IInv'
  BY NextKeeps
<1> QED
  BY <1>1, <1>2, PTL DEF Spec

\* No client ever holds the access token of one answer and the refresh token of
\* another, however its answers overtake each other or get lost: this is what
\* setting and clearing both cookies in one answer is for.
THEOREM OneSessionInJarHolds == Spec => []OneSessionInJar
<1>1. IInv => OneSessionInJar
  BY DEF IInv
<1> QED
  BY <1>1, GatewayInvariance, PTL

\* rotateSession ends a session for the replay of a refresh token only after two
\* requests asked to rotate the same pair, or the answer that brought the next
\* one was lost: a client that does one thing at a time is never logged out.
THEOREM ReplayNeedsTroubleHolds == Spec => []ReplayNeedsTrouble
<1>1. IInv => ReplayNeedsTrouble
  BY DEF IInv
<1> QED
  BY <1>1, GatewayInvariance, PTL

\* requireRole goes by the token; the row it was issued for was an active
\* administrator's.
THEOREM RoleWasHeldHolds == Spec => []RoleWasHeld
<1>1. ASSUME IInv, NEW t \in Tabs, phase[t] = "handler",
             Router[request[t].handler].access = "admin"
      PROVE  \E k \in claims(t).since..Len(users[claims(t).user]) :
               users[claims(t).user][k].role = "admin" /\ users[claims(t).user][k].active
  <2>1. PICK a : a = extractToken(request[t])
    OBVIOUS
  <2>2. a \in 1..Len(pairs) /\ claims(t) = pairs[a] /\ claims(t).role = "admin"
    BY <1>1, <2>1 DEF IInv, Typed, Admitted, Held, None, claims
  <2>3. pairs[a] \in Pair /\ Granted(pairs[a])
    BY <1>1, <2>2 DEF IInv, Typed, Roles
  <2>4. pairs[a].user \in Users /\ Len(users[pairs[a].user]) \in Nat
    BY SMTT(30), <1>1, <2>3 DEF IInv, Typed, Pair
  <2>5. PICK k : k = pairs[a].since
    OBVIOUS
  <2>6. /\ k \in claims(t).since..Len(users[claims(t).user])
        /\ users[claims(t).user][k].role = "admin" /\ users[claims(t).user][k].active
    BY <2>2, <2>3, <2>4, <2>5 DEF Granted
  <2> QED
    BY <2>6
<1>2. IInv => RoleWasHeld
  BY <1>1 DEF RoleWasHeld
<1> QED
  BY <1>2, GatewayInvariance, PTL

-----------------------------------------------------------------------------
(* Lists.                                                                  *)

Filters == {NoFilter} \cup {filterFromRequest(query) : query \in Queries}

Cursor ==
  [phase : {"asking", "counting", "done"}, list : Lists, filter : Filters,
   limit : Nat \ {0}, got : Seq(Ids), page : Seq(Ids), total : Nat,
   stayed : SUBSET Ids, lifted : SUBSET Ids, pushed : SUBSET Ids, quiet : BOOLEAN]

Shown(c) == Selected(c.list, c.filter)

\* The rows of S that come before row i, and how many there are.
Above(i, S) == {j \in S : Before(j, i)}
Pos(i, S) == Cardinality(Above(i, S))

\* What a client has read, q, is right up to what was written meanwhile.
Covers(c, q, S) == \A i \in c.stayed \ c.lifted : i \in Range(q) \/ Pos(i, S) >= Len(q)

Overlaps(c, q, S) ==
  /\ \A i \in S \ c.pushed : i \in Range(q) => Pos(i, S) < Len(q)
  /\ \A a, b \in DOMAIN q : a < b /\ q[a] = q[b] => q[a] \in c.pushed

Exact(c, q, S) == c.quiet => \A k \in DOMAIN q : q[k] \in S /\ Pos(q[k], S) = k - 1

Follows(c, q, S) ==
  Range(q) \subseteq DOMAIN rows /\ Covers(c, q, S) /\ Overlaps(c, q, S) /\ Exact(c, q, S)

\* Where a client stands with its list.
Ends(c, S) ==
  /\ c.phase # "counting" => c.page = <<>>
  /\ c.phase = "done" \/ (c.phase = "counting" /\ c.page = <<>>) =>
       c.stayed \ Range(c.got) \subseteq c.lifted
  /\ c.quiet /\ c.phase # "done" => c.got = <<>> \/ Len(c.got) < Cardinality(S)
  /\ c.quiet /\ c.phase = "counting" /\ c.page = <<>> => Len(c.got) >= Cardinality(S)
  /\ c.quiet /\ c.phase = "done" => c.total = Len(c.got) /\ Len(c.got) = Cardinality(S)

ReadWell(c, S) ==
  c.stayed \subseteq S /\ Follows(c, c.got, S) /\ Follows(c, c.got \o c.page, S) /\ Ends(c, S)

Table == /\ rows \in [DOMAIN rows -> ListRow] /\ DOMAIN rows \subseteq Ids
         /\ IsFiniteSet(DOMAIN rows)

Reading ==
  /\ reader \in [Readers -> Cursor \cup {AtRest}]
  /\ \A r \in Readers : Active(r) => ReadWell(reader[r], Shown(reader[r]))

Category == CategoryCodes \cup {NoCategory}
Chosen == [phase : {"chosen"}, user : Owners, category : Category]
Filing == [phase : {"snapshot", "insert"}, user : Owners, category : Category, was : BOOLEAN]

\* A writer that is past its look at the category saw an active one, and one
\* before it remembers whether it may.
Files(w) ==
  /\ writer[w].phase = "snapshot" /\ IsActive(writer[w].category) => writer[w].was
  /\ writer[w].phase = "insert" => writer[w].was

Writing ==
  /\ categories = [c \in DOMAIN categories |-> categories[c]]
  /\ DOMAIN categories \subseteq CategoryCodes
  /\ writer \in [Writers -> {AtRest} \cup Chosen \cup Filing]
  /\ \A w \in Writers : writer[w].phase # "rest" => writer[w].category \in DOMAIN categories \cup {NoCategory}
  /\ \A w \in Writers : Files(w)

ListsInv == Table /\ Reading /\ Writing

-----------------------------------------------------------------------------
(* The order of a list.                                                    *)

LEMMA DatesOfRows ==
  ASSUME Table
  PROVE  \A i \in DOMAIN rows : i \in Nat /\ rows[i].date \in Nat
<1>1. Ids \subseteq Nat /\ Dates \subseteq Nat
  BY ListsAssumption
<1> QED
  BY <1>1 DEF Table, ListRow

LEMMA BeforeIsAnOrder ==
  ASSUME Table, NEW i \in DOMAIN rows, NEW j \in DOMAIN rows
  PROVE  /\ ~Before(i, i) /\ (i # j => Before(i, j) \/ Before(j, i))
         /\ Before(i, j) => \A k \in DOMAIN rows : Before(k, i) => Before(k, j)
  BY DatesOfRows DEF Before

LEMMA ShownRows ==
  ASSUME Table, NEW list, NEW filter
  PROVE  /\ Selected(list, filter) \subseteq DOMAIN rows
         /\ IsFiniteSet(Selected(list, filter))
<1>1. Selected(list, filter) \subseteq DOMAIN rows
  BY DEF Selected
<1> QED
  BY <1>1, FS_Subset DEF Table

LEMMA Positions ==
  ASSUME Table, NEW S, S \subseteq DOMAIN rows, NEW i \in DOMAIN rows
  PROVE  /\ IsFiniteSet(S) /\ Cardinality(S) \in Nat
         /\ Above(i, S) \subseteq S /\ IsFiniteSet(Above(i, S)) /\ Pos(i, S) \in Nat
         /\ i \in S => Pos(i, S) < Cardinality(S)
<1>1. IsFiniteSet(S) /\ Cardinality(S) \in Nat
  BY FS_Subset, FS_CardinalityType DEF Table
<1>2. Above(i, S) \subseteq S /\ i \notin Above(i, S)
  BY BeforeIsAnOrder DEF Above
<1>3. IsFiniteSet(Above(i, S)) /\ Pos(i, S) \in Nat /\ Pos(i, S) <= Cardinality(S)
      /\ (Pos(i, S) = Cardinality(S) => Above(i, S) = S)
  BY <1>1, <1>2, FS_Subset, FS_CardinalityType DEF Pos
<1> QED
  BY <1>1, <1>2, <1>3

\* What stands higher has the smaller number.
LEMMA PositionsDiffer ==
  ASSUME Table, NEW S, S \subseteq DOMAIN rows, NEW i \in S, NEW j \in S
  PROVE  Before(i, j) => Pos(i, S) < Pos(j, S)
<1> SUFFICES ASSUME Before(i, j) PROVE Pos(i, S) < Pos(j, S)
  OBVIOUS
<1>1. Above(i, S) \subseteq Above(j, S) /\ i \in Above(j, S) /\ i \notin Above(i, S)
  BY BeforeIsAnOrder DEF Above
<1>2. /\ IsFiniteSet(Above(j, S)) /\ Pos(i, S) \in Nat /\ Pos(j, S) \in Nat
  BY Positions
<1>3. Pos(i, S) <= Pos(j, S) /\ Pos(i, S) # Pos(j, S)
  BY <1>1, <1>2, FS_Subset DEF Pos
<1> QED
  BY <1>2, <1>3

\* The k-th row the database returns is at position k - 1.
LEMMA OrdersHavePositions ==
  ASSUME Table, NEW S, S \subseteq DOMAIN rows, NEW s \in Orders(S)
  PROVE  /\ s \in Seq(S) /\ Len(s) = Cardinality(S)
         /\ \A k \in DOMAIN s : s[k] \in S /\ Pos(s[k], S) = k - 1
         /\ \A i \in S : \E k \in DOMAIN s : s[k] = i
<1>1. PICK n \in Nat : n = Cardinality(S) /\ IsFiniteSet(S)
  BY FS_Subset, FS_CardinalityType DEF Table
<1>2. /\ s \in [1..n -> S] /\ IsInjective(s) /\ DOMAIN s = 1..n
      /\ \A a, b \in 1..n : a < b => ~Before(s[b], s[a])
  BY <1>1 DEF Orders
<1>3. s \in Seq(S) /\ Len(s) = n
  BY <1>2
<1>4. s \in Surjection(1..n, S)
  <2>1. s \in Injection(1..n, S)
    BY <1>2 DEF Injection
  <2>2. Cardinality(1..n) = n
    BY FS_Interval
  <2> QED
    BY <1>1, <2>1, <2>2, FS_Injection
<1>5. \A i \in S : \E k \in 1..n : s[k] = i
  BY <1>4 DEF Surjection, Range
<1>6. ASSUME NEW k \in 1..n
      PROVE  Pos(s[k], S) = k - 1
  <2> DEFINE f == [m \in 1..(k - 1) |-> s[m]]
             A == Above(s[k], S)
  <2>1. ASSUME NEW m \in 1..(k - 1)
        PROVE  s[m] \in A
    <3>1. m \in 1..n /\ m < k /\ s[m] \in S /\ s[k] \in S /\ s[m] # s[k]
      BY <1>2, <1>6 DEF IsInjective
    <3>2. ~Before(s[k], s[m])
      BY <1>2, <3>1
    <3> QED
      BY <3>1, <3>2, BeforeIsAnOrder DEF Above
  <2>2. ASSUME NEW i \in A
        PROVE  \E m \in 1..(k - 1) : s[m] = i
    <3>1. i \in S /\ Before(i, s[k]) /\ s[k] \in S
      BY <1>2 DEF Above
    <3>2. PICK m \in 1..n : s[m] = i
      BY <1>5, <3>1
    <3>3. m # k
      BY <3>1, <3>2, BeforeIsAnOrder
    <3>4. ~(m > k)
      BY <1>2, <3>1, <3>2
    <3> QED
      BY <3>2, <3>3, <3>4
  <2>3. f \in [1..(k - 1) -> A] /\ DOMAIN f = 1..(k - 1) /\ \A m \in 1..(k - 1) : f[m] = s[m]
    BY <2>1
  <2>4. f \in Surjection(1..(k - 1), A)
    BY <2>2, <2>3 DEF Surjection, Range
  <2>5. f \in Injection(1..(k - 1), A)
    <3>1. \A a, b \in 1..(k - 1) : f[a] = f[b] => a = b
      BY <1>2, <2>3 DEF IsInjective
    <3> QED
      BY <2>3, <3>1 DEF Injection, IsInjective
  <2>6. IsFiniteSet(1..(k - 1)) /\ Cardinality(1..(k - 1)) = k - 1
    BY FS_Interval
  <2> HIDE DEF f, A
  <2>7. Cardinality(A) = k - 1
    BY <2>4, <2>5, <2>6, FS_Surjection
  <2> QED
    BY <2>7 DEF Pos, A
<1> QED
  BY <1>1, <1>2, <1>3, <1>5, <1>6

\* Rows at positions 0, 1, 2... are in the order of the list.
LEMMA PositionsMakeOrders ==
  ASSUME Table, NEW S, S \subseteq DOMAIN rows, NEW q \in Seq(Ids), Len(q) = Cardinality(S),
         \A k \in DOMAIN q : q[k] \in S /\ Pos(q[k], S) = k - 1
  PROVE  q \in Orders(S)
<1>1. DOMAIN q = 1..Cardinality(S) /\ q \in [1..Cardinality(S) -> S]
  BY Positions
<1>2. IsInjective(q)
  BY DEF IsInjective
<1>3. ASSUME NEW a \in DOMAIN q, NEW b \in DOMAIN q, a < b
      PROVE  ~Before(q[b], q[a])
  <2>1. q[a] \in S /\ q[b] \in S /\ Pos(q[a], S) = a - 1 /\ Pos(q[b], S) = b - 1
    OBVIOUS
  <2> QED
    BY <1>3, <2>1, PositionsDiffer
<1> QED
  BY <1>1, <1>2, <1>3 DEF Orders

-----------------------------------------------------------------------------
(* The clients that read.                                                  *)

\* The words of a query, as the service takes them.
LEMMA LimitsArePositive ==
  ASSUME NEW word \in LimitWords
  PROVE  normalizeLimit(int32(parseInt(word, DefaultLimit), HalfInt32)) \in Nat \ {0}
<1>1. /\ DefaultLimit \in Nat \ {0} /\ MaxLimit \in Nat \ {0} /\ HalfInt32 \in Nat \ {0}
      /\ word.value \in Int
  BY ListsAssumption
<1>2. parseInt(word, DefaultLimit) \in Int
  BY <1>1 DEF parseInt
<1>3. int32(parseInt(word, DefaultLimit), HalfInt32) \in Int
  BY <1>1, <1>2 DEF int32
<1> QED
  BY <1>1, <1>3 DEF normalizeLimit

LEMMA SmallerOfTwo ==
  ASSUME NEW a \in Nat, NEW b \in Nat
  PROVE  Min({a, b}) = IF a <= b THEN a ELSE b
<1>1. PICK m \in {a, b} : \A y \in {a, b} : m =< y
  OBVIOUS
<1>2. Min({a, b}) \in {a, b} /\ \A y \in {a, b} : Min({a, b}) =< y
  BY <1>1 DEF Min
<1> QED
  BY <1>2

\* What SelectPage takes of the rows S.
Page(s, offset, limit) == SubSeq(s, offset + 1, Min({offset + limit, Len(s)}))

\* A page of S: the rows at the positions from offset on, and none if there are
\* none.
Numbers(page, S, offset) ==
  /\ page \in Seq(S) /\ Cardinality(S) \in Nat
  /\ \/ offset >= Cardinality(S) /\ page = <<>> /\ Len(page) = 0
     \/ offset < Cardinality(S) /\ Len(page) > 0 /\ offset + Len(page) <= Cardinality(S)
  /\ \A k \in 1..Len(page) : page[k] \in S /\ Pos(page[k], S) = offset + k - 1
  /\ \A i \in S : Pos(i, S) >= offset /\ Pos(i, S) < offset + Len(page) =>
       \E k \in 1..Len(page) : page[k] = i

LEMMA PageRows ==
  ASSUME Table, NEW S, S \subseteq DOMAIN rows, NEW s \in Orders(S),
         NEW offset \in Nat, NEW limit \in Nat \ {0}
  PROVE  Numbers(Page(s, offset, limit), S, offset)
<1>1. PICK n \in Nat : n = Cardinality(S)
  BY FS_Subset, FS_CardinalityType DEF Table
<1>2. /\ s \in Seq(S) /\ Len(s) = n /\ DOMAIN s = 1..n
      /\ \A k \in 1..n : s[k] \in S /\ Pos(s[k], S) = k - 1
      /\ \A i \in S : \E k \in 1..n : s[k] = i
  BY <1>1, OrdersHavePositions
<1>3. PICK to \in Nat : to = Min({offset + limit, Len(s)}) /\ to = IF offset + limit <= n THEN offset + limit ELSE n
  BY SMTT(30), <1>2, SmallerOfTwo
<1>4. PICK page : page = Page(s, offset, limit)
  OBVIOUS
<1>5. /\ page \in Seq(S) /\ DOMAIN page = 1..Len(page)
      /\ Len(page) = IF offset + 1 <= to THEN to - offset ELSE 0
      /\ \A k \in 1..Len(page) : page[k] = s[offset + k]
  <2>1. page = SubSeq(s, offset + 1, to)
    BY <1>3, <1>4 DEF Page
  <2>2. \A k \in (offset + 1)..to : s[k] \in S
    <3>1. to <= n
      BY <1>3
    <3>2. \A k \in (offset + 1)..to : k \in 1..n
      BY <3>1
    <3> QED
      BY <1>2, <3>2
  <2>3. /\ page \in Seq(S)
        /\ Len(page) = IF offset + 1 <= to THEN to - (offset + 1) + 1 ELSE 0
        /\ \A k \in 1..(to - (offset + 1) + 1) : page[k] = s[offset + 1 + k - 1]
    BY <2>1, <2>2, SubSeqProperties
  <2>4. \A k \in 1..Len(page) : k \in 1..(to - (offset + 1) + 1) /\ offset + 1 + k - 1 = offset + k
    BY <2>3
  <2> QED
    BY <2>3, <2>4
<1>6. \/ offset >= n /\ page = <<>> /\ Len(page) = 0
      \/ offset < n /\ Len(page) > 0 /\ offset + Len(page) <= n
  <2>1. Len(page) = 0 => page = <<>>
    BY <1>5
  <2> QED
    BY <1>3, <1>5, <2>1
<1>7. \A k \in 1..Len(page) : page[k] \in S /\ Pos(page[k], S) = offset + k - 1
  <2> SUFFICES ASSUME NEW k \in 1..Len(page)
               PROVE  page[k] \in S /\ Pos(page[k], S) = offset + k - 1
    OBVIOUS
  <2>1. offset + k \in 1..n /\ page[k] = s[offset + k]
    BY <1>3, <1>5
  <2> QED
    BY <1>2, <2>1
<1>8. ASSUME NEW i \in S, Pos(i, S) >= offset, Pos(i, S) < offset + Len(page)
      PROVE  \E k \in 1..Len(page) : page[k] = i
  <2>1. PICK m \in 1..n : s[m] = i /\ Pos(i, S) = m - 1
    BY <1>2
  <2>2. m - offset \in 1..Len(page) /\ page[m - offset] = s[m]
    BY <1>5, <1>8, <2>1
  <2> QED
    BY <2>1, <2>2
<1> QED
  BY <1>1, <1>4, <1>5, <1>6, <1>7, <1>8 DEF Numbers

\* A page that follows what was read follows with it.
LEMMA PageFollows ==
  ASSUME Table, NEW c \in Cursor, NEW S, S \subseteq DOMAIN rows, c.stayed \subseteq S,
         NEW q \in Seq(Ids), Follows(c, q, S), NEW s \in Orders(S),
         NEW page, page = Page(s, Len(q), c.limit)
  PROVE  /\ page \in Seq(Ids) /\ Follows(c, q \o page, S)
         /\ page = <<>> => c.stayed \ Range(q) \subseteq c.lifted
<1>1. /\ Len(q) \in Nat /\ c.limit \in Nat \ {0} /\ DOMAIN q = 1..Len(q)
  BY DEF Cursor
<1>2. /\ page \in Seq(S) /\ Len(page) \in Nat /\ Cardinality(S) \in Nat /\ Len(<<>>) = 0
      /\ \A k \in 1..Len(page) : page[k] \in S /\ Pos(page[k], S) = Len(q) + k - 1
      /\ \A i \in S : Pos(i, S) >= Len(q) /\ Pos(i, S) < Len(q) + Len(page) =>
           \E k \in 1..Len(page) : page[k] = i
      /\ page = <<>> => Len(q) >= Cardinality(S)
      /\ page # <<>> => Len(q) + Len(page) <= Cardinality(S)
  <2>1. PICK offset \in Nat, limit \in Nat \ {0} : offset = Len(q) /\ limit = c.limit
    BY <1>1
  <2>2. page = Page(s, offset, limit)
    BY <2>1
  <2>3. Numbers(page, S, offset)
    BY <2>2, PageRows
  <2> QED
    BY SMTT(30), <2>1, <2>3 DEF Numbers
<1>3. page \in Seq(Ids) /\ S \subseteq Ids
  BY <1>2 DEF Table
<1>4. PICK r : r = q \o page
  OBVIOUS
<1>5. /\ r \in Seq(Ids) /\ Len(r) = Len(q) + Len(page) /\ DOMAIN r = 1..Len(r)
      /\ \A k \in 1..Len(q) : r[k] = q[k]
      /\ \A k \in 1..Len(page) : r[Len(q) + k] = page[k]
      /\ \A k \in 1..Len(r) : k <= Len(q) \/ (k - Len(q) \in 1..Len(page) /\ r[k] = page[k - Len(q)])
  BY <1>1, <1>3, <1>4
<1>6. \A i : i \in Range(r) => i \in Range(q) \/ \E k \in 1..Len(page) : page[k] = i
  BY <1>1, <1>5 DEF Range
<1>7. Range(r) \subseteq DOMAIN rows
  BY <1>2, <1>6 DEF Follows
<1>8. Covers(c, r, S)
  <2> SUFFICES ASSUME NEW i \in c.stayed \ c.lifted, i \notin Range(r)
               PROVE  Pos(i, S) >= Len(r)
    BY DEF Covers
  <2>1. i \notin Range(q)
    BY <1>1, <1>5 DEF Range
  <2>2. Pos(i, S) >= Len(q) /\ i \in S /\ Pos(i, S) \in Nat
    BY <2>1, Positions DEF Follows, Covers
  <2>3. ~\E k \in 1..Len(page) : page[k] = i
    <3> SUFFICES ASSUME NEW k \in 1..Len(page), page[k] = i PROVE FALSE
      OBVIOUS
    <3>1. PICK m : m = Len(q) + k /\ m \in DOMAIN r
      BY <1>1, <1>2, <1>5
    <3>2. r[m] = i
      BY <1>5, <3>1
    <3> QED
      BY <3>1, <3>2 DEF Range
  <2> QED
    BY <1>1, <1>2, <1>5, <2>2, <2>3
<1>9. Overlaps(c, r, S)
  <2>1. ASSUME NEW i \in S \ c.pushed, i \in Range(r)
        PROVE  Pos(i, S) < Len(r)
    <3>1. CASE i \in Range(q)
      <4>1. Pos(i, S) < Len(q) /\ Pos(i, S) \in Nat
        BY <2>1, <3>1, Positions DEF Follows, Overlaps
      <4> QED
        BY <1>1, <1>2, <1>5, <4>1
    <3>2. CASE \E k \in 1..Len(page) : page[k] = i
      BY <1>1, <1>2, <1>5, <3>2
    <3> QED
      BY <1>6, <2>1, <3>1, <3>2
  <2>2. ASSUME NEW a \in 1..Len(r), NEW b \in 1..Len(r), a < b, r[a] = r[b]
        PROVE  r[a] \in c.pushed
    <3>1. CASE b <= Len(q)
      BY SMTT(30), <1>1, <1>5, <2>2, <3>1 DEF Follows, Overlaps
    <3>2. CASE a <= Len(q) /\ b > Len(q)
      <4>1. a \in 1..Len(q) /\ b - Len(q) \in 1..Len(page) /\ r[b] = page[b - Len(q)] /\ r[a] = q[a]
        BY <1>1, <1>5, <3>2
      <4>2. r[b] \in S /\ Pos(r[b], S) >= Len(q)
        <5>1. PICK k \in 1..Len(page) : k = b - Len(q) /\ r[b] = page[k]
          BY <4>1
        <5>2. page[k] \in S /\ Pos(page[k], S) = Len(q) + k - 1
          BY <1>2
        <5>3. Len(q) \in Nat /\ k \in Nat /\ k >= 1
          BY <1>1
        <5> QED
          BY <5>1, <5>2, <5>3
      <4>3. r[a] \in Range(q)
        BY <1>1, <4>1 DEF Range
      <4>4. r[b] \notin c.pushed => Pos(r[b], S) < Len(q)
        BY <2>2, <4>2, <4>3 DEF Follows, Overlaps
      <4>5. Pos(r[b], S) \in Nat
        BY <4>2, Positions
      <4> QED
        BY <1>1, <2>2, <4>2, <4>4, <4>5
    <3>3. CASE a > Len(q)
      <4>1. /\ a - Len(q) \in 1..Len(page) /\ r[a] = page[a - Len(q)]
            /\ b - Len(q) \in 1..Len(page) /\ r[b] = page[b - Len(q)]
        BY <1>1, <1>5, <2>2, <3>3
      <4>2. Pos(r[a], S) = a - 1 /\ Pos(r[b], S) = b - 1
        <5>1. PICK k \in 1..Len(page) : k = a - Len(q) /\ r[a] = page[k]
          BY <4>1
        <5>2. PICK m \in 1..Len(page) : m = b - Len(q) /\ r[b] = page[m]
          BY <4>1
        <5>3. Pos(r[a], S) = Len(q) + k - 1 /\ Pos(r[b], S) = Len(q) + m - 1
          BY <1>2, <5>1, <5>2
        <5>4. a \in Nat /\ b \in Nat
          BY <1>1, <1>2, <1>5
        <5> QED
          BY SMTT(30), <1>1, <5>1, <5>2, <5>3, <5>4
      <4> QED
        BY <2>2, <4>2
    <3> QED
      BY <1>1, <3>1, <3>2, <3>3
  <2> QED
    BY <1>5, <2>1, <2>2 DEF Overlaps
<1>10. Exact(c, r, S)
  <2> SUFFICES ASSUME c.quiet, NEW k \in 1..Len(r)
               PROVE  r[k] \in S /\ Pos(r[k], S) = k - 1
    BY <1>5 DEF Exact
  <2>1. CASE k <= Len(q)
    BY <1>1, <1>5, <2>1 DEF Follows, Exact
  <2>2. CASE k > Len(q)
    <3>1. PICK m \in 1..Len(page) : m = k - Len(q) /\ r[k] = page[m]
      BY <1>1, <1>5, <2>2
    <3>2. page[m] \in S /\ Pos(page[m], S) = Len(q) + m - 1
      BY <1>2
    <3>3. Len(q) \in Nat /\ k \in Nat
      BY <1>1
    <3> QED
      BY <3>1, <3>2, <3>3
  <2> QED
    BY <1>1, <2>1, <2>2
<1>11. ASSUME page = <<>>, NEW i \in c.stayed \ Range(q), i \notin c.lifted
       PROVE  FALSE
  <2>1. Pos(i, S) >= Len(q)
    BY <1>11 DEF Follows, Covers
  <2>2. Pos(i, S) < Cardinality(S) /\ Pos(i, S) \in Nat
    BY Positions
  <2> QED
    BY <1>1, <1>2, <1>11, <2>1, <2>2
<1> QED
  BY <1>3, <1>4, <1>7, <1>8, <1>9, <1>10, <1>11 DEF Follows

\* What a client has read depends on what was written, not on where it stands.
LEMMA FollowsAgain ==
  ASSUME NEW c, NEW d, NEW q, NEW S, Follows(c, q, S),
         d.stayed = c.stayed, d.lifted = c.lifted, d.pushed = c.pushed, d.quiet = c.quiet
  PROVE  Follows(d, q, S)
  BY DEF Follows, Covers, Overlaps, Exact

LEMMA EmptyPage ==
  ASSUME NEW q \in Seq(Ids)
  PROVE  q \o <<>> = q /\ <<>> \in Seq(Ids) /\ Len(<<>>) = 0
  OBVIOUS

LEMMA TakePageKeeps ==
  ASSUME Table, NEW c \in Cursor, NEW S, S \subseteq DOMAIN rows, ReadWell(c, S),
         c.phase \in {"asking", "counting"},
         NEW page \in Seq(Ids), Follows(c, c.got \o page, S),
         page = <<>> => c.stayed \ Range(c.got) \subseteq c.lifted,
         page = <<>> => Len(c.got) >= Cardinality(S) \/ ~c.quiet,
         NEW total \in Nat, total = Cardinality(S) \/ (page = <<>> /\ total = 0)
  PROVE  TakePage(c, page, total) \in Cursor /\ ReadWell(TakePage(c, page, total), S)
         /\ TakePage(c, page, total).list = c.list /\ TakePage(c, page, total).filter = c.filter
<1> DEFINE q == c.got \o page
           to == IF page = <<>> \/ Len(q) >= total THEN "done" ELSE "asking"
<1>1. PICK d : d = TakePage(c, page, total)
  OBVIOUS
<1>2. c.got \in Seq(Ids) /\ q \in Seq(Ids) /\ Len(q) \in Nat /\ Cardinality(S) \in Nat
  BY FS_Subset, FS_CardinalityType DEF Cursor, Table
<1>3. d = [c EXCEPT !.got = q, !.page = <<>>, !.total = total, !.phase = to]
  BY <1>1 DEF TakePage
<1>4. /\ d \in Cursor /\ d.got = q /\ d.page = <<>> /\ d.total = total /\ d.phase = to
      /\ d.list = c.list /\ d.filter = c.filter
      /\ d.stayed = c.stayed /\ d.lifted = c.lifted /\ d.pushed = c.pushed /\ d.quiet = c.quiet
  <2>1. to \in {"asking", "counting", "done"} /\ <<>> \in Seq(Ids)
    OBVIOUS
  <2> HIDE DEF q, to
  <2> QED
    BY <1>2, <1>3, <2>1 DEF Cursor
<1>5. Follows(d, q, S) /\ d.got \o d.page = q
  BY <1>2, <1>4, FollowsAgain, EmptyPage
<1>6. page = <<>> => q = c.got
  BY <1>2, EmptyPage
<1>7. to = "done" => d.stayed \ Range(q) \subseteq d.lifted
  <2>1. ASSUME page # <<>>, to = "done", NEW i \in c.stayed \ Range(q), i \notin c.lifted
        PROVE  FALSE
    <3>1. Pos(i, S) >= Len(q) /\ i \in S /\ Len(q) >= Cardinality(S)
      BY <2>1 DEF Follows, Covers, ReadWell
    <3>2. Pos(i, S) < Cardinality(S) /\ Pos(i, S) \in Nat
      BY <3>1, Positions
    <3> QED
      BY <1>2, <3>1, <3>2
  <2> QED
    BY <1>4, <1>6, <2>1
<1>8. c.quiet /\ to # "done" => q = <<>> \/ Len(q) < Cardinality(S)
  BY <1>2
<1>9. c.quiet /\ to = "done" => total = Len(q) /\ Len(q) = Cardinality(S)
  <2> SUFFICES ASSUME c.quiet, to = "done"
               PROVE  total = Len(q) /\ Len(q) = Cardinality(S)
    OBVIOUS
  <2>1. CASE page = <<>>
    <3>1. (c.got = <<>> \/ Len(c.got) < Cardinality(S)) /\ Len(c.got) >= Cardinality(S)
      BY <2>1 DEF ReadWell, Ends
    <3>2. c.got = <<>> /\ Len(c.got) = 0
      BY <1>2, <3>1
    <3> QED
      BY <1>2, <1>6, <2>1, <3>1, <3>2
  <2>2. CASE page # <<>>
    <3>1. Len(q) >= Cardinality(S) /\ total = Cardinality(S)
      BY <2>2
    <3>2. Len(q) <= Cardinality(S)
      <4>1. CASE Len(q) = 0
        BY <1>2, <4>1
      <4>2. CASE Len(q) # 0
        <5>1. Len(q) \in DOMAIN q
          BY <1>2, <4>2
        <5>2. q[Len(q)] \in S /\ Pos(q[Len(q)], S) = Len(q) - 1
          BY <5>1 DEF Follows, Exact
        <5>3. Pos(q[Len(q)], S) < Cardinality(S)
          BY <5>2, Positions
        <5> QED
          BY <1>2, <5>2, <5>3
      <4> QED
        BY <4>1, <4>2
    <3> QED
      BY <1>2, <3>1, <3>2
  <2> QED
    BY <2>1, <2>2
<1> HIDE DEF q, to
<1>10. to \in {"asking", "done"}
  BY DEF to
<1>11. Ends(d, S)
  BY <1>4, <1>7, <1>8, <1>9, <1>10 DEF Ends
<1>12. ReadWell(d, S)
  BY <1>4, <1>5, <1>11 DEF ReadWell
<1> QED
  BY <1>1, <1>4, <1>12

\* One client moves.
LEMMA ReaderMoves ==
  ASSUME Table, Reading, NEW r \in Readers, NEW d \in Cursor,
         reader' = [reader EXCEPT ![r] = d], UNCHANGED rows,
         ReadWell(d, Shown(d))
  PROVE  Reading'
<1>1. reader' \in [Readers -> Cursor \cup {AtRest}] /\ reader'[r] = d
      /\ \A s \in Readers \ {r} : reader'[s] = reader[s]
  BY DEF Reading
<1>2. ASSUME NEW s \in Readers, Active(s)'
      PROVE  ReadWell(reader[s], Shown(reader[s]))'
  <2>1. PICK c : c = reader'[s]
    OBVIOUS
  <2>2. ReadWell(c, Shown(c))
    BY <1>1, <1>2, <2>1 DEF Reading, Active
  <2>3. Shown(c)' = Shown(c)
    BY DEF Shown, Selected
  <2>4. PICK S : S = Shown(c)
    OBVIOUS
  <2>5. ReadWell(c, S)'
    <3>1. ReadWell(c, S)
      BY <2>2, <2>4
    <3>2. \A t : Pos(t, S)' = Pos(t, S)
      BY DEF Pos, Above, Before
    <3>3. \A q : Follows(c, q, S) => Follows(c, q, S)'
      BY <3>2 DEF Follows, Covers, Overlaps, Exact
    <3> QED
      BY <3>1, <3>3 DEF ReadWell, Ends
  <2>6. Shown(c)' = S
    BY <2>3, <2>4
  <2>7. ReadWell(c, Shown(c))'
    BY <2>5, <2>6
  <2> QED
    BY <2>1, <2>7
<1> QED
  BY <1>1, <1>2 DEF Reading

LEMMA StartKeeps ==
  ASSUME Table, Reading, NEW r \in Readers, Start(r)
  PROVE  Reading'
<1>1. PICK list \in Lists, query \in Queries, word \in LimitWords :
        reader' = [reader EXCEPT ![r] =
          [phase |-> "asking", list |-> list,
           filter |-> IF list.kind = "settlement" THEN NoFilter ELSE filterFromRequest(query),
           limit |-> normalizeLimit(int32(parseInt(word, DefaultLimit), HalfInt32)), got |-> <<>>,
           page |-> <<>>, total |-> 0,
           stayed |-> Selected(list, IF list.kind = "settlement" THEN NoFilter
                                                               ELSE filterFromRequest(query)),
           lifted |-> {}, pushed |-> {}, quiet |-> TRUE]]
  BY Zenon DEF Start
<1>2. PICK filter \in Filters :
        filter = IF list.kind = "settlement" THEN NoFilter ELSE filterFromRequest(query)
  BY DEF Filters
<1>3. PICK limit \in Nat \ {0} : limit = normalizeLimit(int32(parseInt(word, DefaultLimit), HalfInt32))
  BY LimitsArePositive
<1>4. PICK quiet \in BOOLEAN : quiet = TRUE
  OBVIOUS
<1>5. PICK S : S = Selected(list, filter)
  OBVIOUS
<1>6. PICK d : d = [phase |-> "asking", list |-> list, filter |-> filter, limit |-> limit,
                    got |-> <<>>, page |-> <<>>, total |-> 0, stayed |-> S,
                    lifted |-> {}, pushed |-> {}, quiet |-> quiet]
  OBVIOUS
<1>7. reader' = [reader EXCEPT ![r] = d] /\ UNCHANGED rows
  BY <1>1, <1>2, <1>3, <1>4, <1>5, <1>6, Zenon DEF Start
<1>8. /\ Table /\ S \subseteq DOMAIN rows /\ S \subseteq Ids
  BY <1>5, ShownRows DEF Reading, Table
<1>9. d \in Cursor
  BY <1>6, <1>8 DEF Cursor
<1>10. /\ d.list = list /\ d.filter = filter /\ d.got = <<>> /\ d.page = <<>> /\ d.stayed = S
       /\ d.phase = "asking"
  BY <1>6
<1>11. Follows(d, <<>>, S)
  <2>1. Range(<<>>) = {} /\ DOMAIN <<>> = {} /\ Len(<<>>) = 0
    BY DEF Range
  <2>2. \A i \in S : Pos(i, S) >= 0
    BY <1>8, Positions
  <2> QED
    BY <1>10, <2>1, <2>2 DEF Follows, Covers, Overlaps, Exact
<1>12. ReadWell(d, S)
  BY <1>10, <1>11, EmptyPage DEF ReadWell, Ends
<1>13. S = Shown(d)
  BY <1>5, <1>10 DEF Shown
<1> QED
  BY <1>7, <1>9, <1>12, <1>13, ReaderMoves

LEMMA SelectPageKeeps ==
  ASSUME Table, Reading, NEW r \in Readers, SelectPage(r)
  PROVE  Reading'
<1>1. PICK c : c = reader[r]
  OBVIOUS
<1>2. PICK S : S = Selected(c.list, c.filter)
  OBVIOUS
<1>3. /\ c.phase = "asking" /\ c \in Cursor /\ ReadWell(c, S) /\ Table /\ S \subseteq DOMAIN rows
      /\ UNCHANGED rows
  BY <1>1, <1>2, ShownRows DEF SelectPage, Reading, AtRest, Active, Shown, Table
<1>4. PICK s \in Orders(S) :
        reader' = [reader EXCEPT ![r] =
          IF c.list.kind = "group"
          THEN [c EXCEPT !.phase = "counting", !.page = Page(s, Len(c.got), c.limit)]
          ELSE TakePage(c, Page(s, Len(c.got), c.limit),
                        IF Page(s, Len(c.got), c.limit) = <<>> THEN 0 ELSE Cardinality(S))]
  BY <1>1, <1>2 DEF SelectPage, Page
<1>5. PICK page : page = Page(s, Len(c.got), c.limit)
  OBVIOUS
<1>6. /\ c.got \in Seq(Ids) /\ Len(c.got) \in Nat /\ c.limit \in Nat \ {0}
      /\ Cardinality(S) \in Nat /\ c.page = <<>> /\ Follows(c, c.got, S)
  BY <1>3, FS_Subset, FS_CardinalityType DEF Cursor, ReadWell, Ends, Table
<1>7. /\ page \in Seq(Ids) /\ Follows(c, c.got \o page, S)
      /\ page = <<>> => c.stayed \ Range(c.got) \subseteq c.lifted
  BY <1>3, <1>5, <1>6, PageFollows DEF ReadWell
<1>8. page = <<>> => Len(c.got) >= Cardinality(S)
  <2>1. Numbers(page, S, Len(c.got))
    BY <1>3, <1>5, <1>6, PageRows
  <2> QED
    BY <2>1 DEF Numbers
<1>9. CASE c.list.kind = "group"
  <2>1. PICK d : d = [c EXCEPT !.phase = "counting", !.page = page]
    OBVIOUS
  <2>2. reader' = [reader EXCEPT ![r] = d]
    BY <1>4, <1>5, <1>9, <2>1
  <2>3. /\ d \in Cursor /\ d.phase = "counting" /\ d.page = page
        /\ d.got = c.got /\ d.list = c.list /\ d.filter = c.filter
        /\ d.stayed = c.stayed /\ d.lifted = c.lifted /\ d.pushed = c.pushed /\ d.quiet = c.quiet
    BY <1>3, <1>7, <2>1 DEF Cursor
  <2>4. Follows(d, d.got, S) /\ Follows(d, d.got \o d.page, S)
    BY <1>6, <1>7, <2>3, FollowsAgain
  <2>5. ReadWell(d, S)
    BY <1>3, <1>7, <1>8, <2>3, <2>4 DEF ReadWell, Ends
  <2>6. S = Shown(d)
    BY <1>2, <2>3 DEF Shown
  <2> QED
    BY <1>3, <2>2, <2>3, <2>5, <2>6, ReaderMoves
<1>10. CASE c.list.kind # "group"
  <2>1. PICK total \in Nat : total = IF page = <<>> THEN 0 ELSE Cardinality(S)
    BY <1>6
  <2>2. PICK d : d = TakePage(c, page, total)
    OBVIOUS
  <2>3. reader' = [reader EXCEPT ![r] = d]
    BY <1>4, <1>5, <1>10, <2>1, <2>2
  <2>4. d \in Cursor /\ ReadWell(d, S) /\ d.list = c.list /\ d.filter = c.filter
    BY <1>3, <1>7, <1>8, <2>1, <2>2, TakePageKeeps
  <2>5. S = Shown(d)
    BY <1>2, <2>4 DEF Shown
  <2> QED
    BY <1>3, <2>3, <2>4, <2>5, ReaderMoves
<1> QED
  BY <1>9, <1>10

LEMMA CountRowsKeeps ==
  ASSUME Table, Reading, NEW r \in Readers, CountRows(r)
  PROVE  Reading'
<1>1. PICK c : c = reader[r]
  OBVIOUS
<1>2. PICK S : S = Selected(c.list, c.filter)
  OBVIOUS
<1>3. /\ c.phase = "counting" /\ c \in Cursor /\ ReadWell(c, S) /\ Table /\ S \subseteq DOMAIN rows
      /\ UNCHANGED rows
  BY <1>1, <1>2, ShownRows DEF CountRows, Reading, AtRest, Active, Shown, Table
<1>4. PICK d : d = TakePage(c, c.page, Cardinality(S))
  OBVIOUS
<1>5. reader' = [reader EXCEPT ![r] = d]
  BY <1>1, <1>2, <1>4 DEF CountRows
<1>6. /\ c.page \in Seq(Ids) /\ Cardinality(S) \in Nat /\ Follows(c, c.got \o c.page, S)
      /\ c.page = <<>> => c.stayed \ Range(c.got) \subseteq c.lifted
      /\ c.page = <<>> => Len(c.got) >= Cardinality(S) \/ ~c.quiet
  BY <1>3, FS_Subset, FS_CardinalityType DEF Cursor, ReadWell, Ends, Table
<1>7. d \in Cursor /\ ReadWell(d, S) /\ d.list = c.list /\ d.filter = c.filter
  BY <1>3, <1>4, <1>6, TakePageKeeps
<1>8. S = Shown(d)
  BY <1>2, <1>7 DEF Shown
<1> QED
  BY <1>3, <1>5, <1>7, <1>8, ReaderMoves

LEMMA AskAgainKeeps ==
  ASSUME Table, Reading, NEW r \in Readers, AskAgain(r)
  PROVE  Reading'
<1>1. PICK c : c = reader[r]
  OBVIOUS
<1>2. PICK S : S = Selected(c.list, c.filter)
  OBVIOUS
<1>3. /\ c.phase = "counting" /\ c \in Cursor /\ ReadWell(c, S) /\ UNCHANGED rows
  BY <1>1, <1>2 DEF AskAgain, Reading, AtRest, Active, Shown
<1>4. PICK none \in Seq(Ids) : none = <<>>
  BY EmptyPage, <1>3 DEF Cursor
<1>5. PICK d : /\ d = [c EXCEPT !.phase = "asking", !.page = none]
               /\ reader' = [reader EXCEPT ![r] = d]
  BY <1>1, <1>4 DEF AskAgain, Reading
<1>6. /\ d \in Cursor /\ d.phase = "asking" /\ d.page = <<>>
      /\ d.got = c.got /\ d.got \in Seq(Ids) /\ d.list = c.list /\ d.filter = c.filter
      /\ d.stayed = c.stayed /\ d.lifted = c.lifted /\ d.pushed = c.pushed /\ d.quiet = c.quiet
  BY <1>3, <1>4, <1>5 DEF Cursor
<1>7. Follows(d, d.got, S) /\ d.got \o d.page = d.got
  BY <1>3, <1>6, FollowsAgain, EmptyPage DEF ReadWell
<1>8. ReadWell(d, S)
  BY <1>3, <1>6, <1>7 DEF ReadWell, Ends
<1>9. S = Shown(d)
  BY <1>2, <1>6 DEF Shown
<1> QED
  BY <1>3, <1>5, <1>6, <1>8, <1>9, ReaderMoves

-----------------------------------------------------------------------------
(* The writers.                                                            *)

\* The rows there were stand where they stood.
SameOrder ==
  /\ DOMAIN rows \subseteq DOMAIN rows'
  /\ \A i, j \in DOMAIN rows : Before(i, j)' <=> Before(i, j)

\* Nothing in the client's list changes.
LEMMA ReadsOn ==
  ASSUME Table, SameOrder, NEW c, NEW S, S \subseteq DOMAIN rows, ReadWell(c, S)
  PROVE  ReadWell(c, S)'
<1>1. \A i \in DOMAIN rows : Pos(i, S)' = Pos(i, S)
  BY DEF SameOrder, Pos, Above
<1>2. ASSUME NEW q, Follows(c, q, S)
      PROVE  Follows(c, q, S)'
  <2>1. \A i \in S : Pos(i, S)' = Pos(i, S)
    BY <1>1
  <2>2. Range(q) \subseteq DOMAIN rows'
    BY <1>2 DEF Follows, SameOrder
  <2>3. Covers(c, q, S)'
    BY <1>2, <2>1 DEF Follows, Covers, ReadWell
  <2>4. Overlaps(c, q, S)'
    BY <1>2, <2>1 DEF Follows, Overlaps
  <2>5. Exact(c, q, S)'
    BY <1>2, <2>1 DEF Follows, Exact
  <2> QED
    BY <2>2, <2>3, <2>4, <2>5 DEF Follows
<1> QED
  BY <1>2 DEF ReadWell, Ends

\* What Watch makes of a client whose list gets row i.
LEMMA ReadsOnAfterInsert ==
  ASSUME Table, Table', SameOrder, NEW c \in Cursor, NEW S, S \subseteq DOMAIN rows, ReadWell(c, S),
         NEW i \in DOMAIN rows', i \notin DOMAIN rows, NEW T, T = S \cup {i},
         NEW d \in Cursor, d.quiet = FALSE, d.stayed = c.stayed \ {i}, d.lifted = c.lifted,
         d.pushed = c.pushed \cup {j \in S \ {i} : Before(i, j)'},
         d.phase = c.phase, d.got = c.got, d.page = c.page
  PROVE  ReadWell(d, T)'
<1>1. T \subseteq DOMAIN rows' /\ d.stayed \subseteq T /\ i \notin S
  BY DEF SameOrder, ReadWell
<1>2. ASSUME NEW j \in S
      PROVE  /\ Pos(j, S) \in Nat /\ Pos(j, T)' \in Nat /\ Pos(j, T)' >= Pos(j, S)
             /\ ~Before(i, j)' => Pos(j, T)' = Pos(j, S)
  <2>1. Pos(j, S) \in Nat /\ IsFiniteSet(Above(j, S))
    BY Positions
  <2>2. PICK A, B : A = Above(j, S) /\ B = Above(j, T)'
    OBVIOUS
  <2>3. A \subseteq B /\ (~Before(i, j)' => A = B)
    BY <1>2, <2>2 DEF Above, SameOrder
  <2>4. IsFiniteSet(B)
    <3>1. B \subseteq DOMAIN rows'
      BY <1>1, <2>2 DEF Above
    <3> QED
      BY <3>1, FS_Subset DEF Table
  <2>5. Cardinality(A) <= Cardinality(B) /\ Cardinality(B) \in Nat
    BY <2>3, <2>4, FS_Subset, FS_CardinalityType
  <2>6. Pos(j, S) = Cardinality(A) /\ Pos(j, T)' = Cardinality(B)
    BY <2>2 DEF Pos
  <2> QED
    BY <2>1, <2>3, <2>5, <2>6
<1>3. ASSUME NEW q \in Seq(Ids), Follows(c, q, S)
      PROVE  Follows(d, q, T)'
  <2>1. Range(q) \subseteq DOMAIN rows /\ Len(q) \in Nat
    BY <1>3 DEF Follows
  <2>2. Covers(d, q, T)'
    <3> SUFFICES ASSUME NEW j \in d.stayed \ d.lifted, j \notin Range(q)
                 PROVE  Pos(j, T)' >= Len(q)
      BY DEF Covers
    <3>1. j \in S /\ Pos(j, S) >= Len(q)
      BY <1>3 DEF Follows, Covers, ReadWell
    <3>2. Pos(j, S) \in Nat /\ Pos(j, T)' \in Nat /\ Pos(j, T)' >= Pos(j, S)
      BY <1>2, <3>1
    <3> QED
      BY <2>1, <3>1, <3>2
  <2>3. Overlaps(d, q, T)'
    <3>1. ASSUME NEW j \in T \ d.pushed, j \in Range(q)
          PROVE  Pos(j, T)' < Len(q)
      <4>1. j \in S \ c.pushed /\ ~Before(i, j)'
        BY <2>1, <3>1
      <4>2. Pos(j, S) < Len(q)
        BY <1>3, <3>1, <4>1 DEF Follows, Overlaps
      <4> QED
        BY <1>2, <4>1, <4>2
    <3>2. \A a, b \in DOMAIN q : a < b /\ q[a] = q[b] => q[a] \in d.pushed
      BY <1>3 DEF Follows, Overlaps
    <3> QED
      BY <3>1, <3>2 DEF Overlaps
  <2> QED
    BY <2>1, <2>2, <2>3 DEF Follows, Exact, SameOrder
<1>4. c.got \in Seq(Ids) /\ c.page \in Seq(Ids) /\ c.got \o c.page \in Seq(Ids)
  BY DEF Cursor
<1>5. Follows(d, d.got, T)' /\ Follows(d, d.got \o d.page, T)'
  BY <1>3, <1>4 DEF ReadWell
<1>6. Ends(d, T)'
  BY DEF ReadWell, Ends
<1> QED
  BY <1>1, <1>5, <1>6 DEF ReadWell

\* What Watch makes of a client whose list loses row i.
LEMMA ReadsOnAfterDelete ==
  ASSUME Table, Table', SameOrder, DOMAIN rows' = DOMAIN rows,
         NEW c \in Cursor, NEW S, S \subseteq DOMAIN rows, ReadWell(c, S),
         NEW i \in DOMAIN rows, NEW T, T = S \ {i},
         NEW d \in Cursor, d.quiet = FALSE, d.stayed = c.stayed \ {i}, d.pushed = c.pushed,
         d.lifted = c.lifted \cup {j \in S \ {i} : Before(i, j)'},
         d.phase = c.phase, d.got = c.got, d.page = c.page
  PROVE  ReadWell(d, T)'
<1>1. d.stayed \subseteq T
  BY DEF ReadWell
<1>2. ASSUME NEW j \in T
      PROVE  /\ Pos(j, S) \in Nat /\ Pos(j, T)' \in Nat /\ Pos(j, T)' <= Pos(j, S)
             /\ ~Before(i, j)' => Pos(j, T)' = Pos(j, S)
  <2>1. Pos(j, S) \in Nat /\ IsFiniteSet(Above(j, S))
    BY Positions
  <2>2. PICK A, B : A = Above(j, S) /\ B = Above(j, T)'
    OBVIOUS
  <2>3. B \subseteq A /\ (~Before(i, j)' => A = B)
    BY <1>2, <2>2 DEF Above, SameOrder
  <2>4. Cardinality(B) <= Cardinality(A) /\ Cardinality(B) \in Nat
    BY <2>1, <2>2, <2>3, FS_Subset, FS_CardinalityType
  <2>5. Pos(j, S) = Cardinality(A) /\ Pos(j, T)' = Cardinality(B)
    BY <2>2 DEF Pos
  <2> QED
    BY <2>1, <2>3, <2>4, <2>5
<1>3. ASSUME NEW q \in Seq(Ids), Follows(c, q, S)
      PROVE  Follows(d, q, T)'
  <2>1. Range(q) \subseteq DOMAIN rows /\ Len(q) \in Nat
    BY <1>3 DEF Follows
  <2>2. Covers(d, q, T)'
    <3> SUFFICES ASSUME NEW j \in d.stayed \ d.lifted, j \notin Range(q)
                 PROVE  Pos(j, T)' >= Len(q)
      BY DEF Covers
    <3>1. j \in T /\ ~Before(i, j)' /\ Pos(j, S) >= Len(q)
      BY <1>3 DEF Follows, Covers, ReadWell
    <3> QED
      BY <1>2, <2>1, <3>1
  <2>3. Overlaps(d, q, T)'
    <3>1. ASSUME NEW j \in T \ d.pushed, j \in Range(q)
          PROVE  Pos(j, T)' < Len(q)
      <4>1. Pos(j, S) < Len(q)
        BY <1>3, <3>1 DEF Follows, Overlaps
      <4>2. Pos(j, S) \in Nat /\ Pos(j, T)' \in Nat /\ Pos(j, T)' <= Pos(j, S)
        BY <1>2, <3>1
      <4> QED
        BY <2>1, <4>1, <4>2
    <3>2. \A a, b \in DOMAIN q : a < b /\ q[a] = q[b] => q[a] \in d.pushed
      BY <1>3 DEF Follows, Overlaps
    <3> QED
      BY <3>1, <3>2 DEF Overlaps
  <2> QED
    BY <2>1, <2>2, <2>3 DEF Follows, Exact
<1>4. c.got \in Seq(Ids) /\ c.page \in Seq(Ids) /\ c.got \o c.page \in Seq(Ids)
  BY DEF Cursor
<1>5. Follows(d, d.got, T)' /\ Follows(d, d.got \o d.page, T)'
  BY <1>3, <1>4 DEF ReadWell
<1>6. Ends(d, T)'
  BY DEF ReadWell, Ends
<1> QED
  BY <1>1, <1>5, <1>6 DEF ReadWell

LEMMA InsertKeeps ==
  ASSUME Table, Reading, NEW list \in Lists, NEW type \in {"income", "expense", Unspecified},
         NEW category \in Category, NEW date \in Dates, Insert(list, type, category, date)
  PROVE  Table' /\ Reading'
<1>1. PICK live \in BOOLEAN : live = TRUE
  OBVIOUS
<1>2. PICK row : row = [list |-> list, live |-> live, date |-> date, type |-> type,
                        category |-> category]
  OBVIOUS
<1>3. PICK i \in Ids \ DOMAIN rows :
        /\ rows' = [j \in DOMAIN rows \cup {i} |-> IF j \in DOMAIN rows THEN rows[j] ELSE row]
        /\ Watch(i, "pushed")
  BY <1>1, <1>2, Zenon DEF Insert
<1>4. row \in ListRow
  BY <1>2 DEF ListRow, Category
<1>5. /\ DOMAIN rows' = DOMAIN rows \cup {i} /\ rows'[i] = row
      /\ \A j \in DOMAIN rows : rows'[j] = rows[j]
  BY <1>3
<1>6. Table'
  <2>1. rows' \in [DOMAIN rows' -> ListRow]
    BY <1>3, <1>4, <1>5 DEF Table
  <2>2. DOMAIN rows' \subseteq Ids
    BY <1>5 DEF Table
  <2>3. IsFiniteSet(DOMAIN rows')
    BY <1>5, FS_AddElement DEF Table
  <2> QED
    BY <2>1, <2>2, <2>3 DEF Table
<1>7. SameOrder
  BY <1>5 DEF SameOrder, Before
<1>8. ASSUME NEW r \in Readers
      PROVE  /\ reader'[r] \in Cursor \cup {AtRest}
             /\ Active(r)' => ReadWell(reader[r], Shown(reader[r]))'
  <2>1. PICK c, d : c = reader[r] /\ d = reader'[r]
    OBVIOUS
  <2>2. c \in Cursor \cup {AtRest} /\ (c.phase # "rest" => c \in Cursor)
    BY <2>1 DEF Reading, AtRest
  <2>3. CASE ~Active(r)
    <3>1. d = c /\ c.phase = "rest"
      BY <1>3, <2>1, <2>3 DEF Watch, Active
    <3> QED
      BY <2>1, <2>2, <3>1 DEF Active
  <2>4. CASE Active(r)
    <3>1. PICK S : S = Selected(c.list, c.filter)
      OBVIOUS
    <3>2. c \in Cursor /\ ReadWell(c, S) /\ S \subseteq DOMAIN rows
      BY <2>1, <2>2, <2>4, <3>1, ShownRows DEF Reading, Active, Shown
    <3>3. CASE row.list # c.list \/ ~appendFilters(row, c.filter)
      <4>1. d = c
        BY <1>3, <1>5, <2>1, <2>4, <3>3 DEF Watch
      <4>2. S = Selected(c.list, c.filter)'
        BY <1>5, <3>1, <3>3 DEF Selected
      <4>3. ReadWell(c, S)'
        BY <1>7, <3>2, ReadsOn
      <4> QED
        BY <2>1, <3>2, <4>1, <4>2, <4>3 DEF Shown
    <3>4. CASE row.list = c.list /\ appendFilters(row, c.filter)
      <4>1. PICK P, no : no = FALSE /\ P = {j \in S \ {i} : \/ row.date > rows[j].date
                                                            \/ row.date = rows[j].date /\ i > j}
        OBVIOUS
      <4>2. d = [c EXCEPT !.quiet = no, !.stayed = @ \ {i}, !["pushed"] = @ \cup P]
        BY <1>3, <1>5, <2>1, <2>4, <3>1, <3>4, <4>1 DEF Watch
      <4>3. P = {j \in S \ {i} : Before(i, j)'} /\ P \subseteq Ids
        BY <1>5, <3>2, <4>1 DEF Before, Table
      <4>4. /\ d \in Cursor /\ d.quiet = FALSE /\ d.stayed = c.stayed \ {i} /\ d.lifted = c.lifted
            /\ d.pushed = c.pushed \cup P /\ d.phase = c.phase /\ d.got = c.got /\ d.page = c.page
            /\ d.list = c.list /\ d.filter = c.filter
        <5>1. no \in BOOLEAN
          BY <4>1
        <5> QED
          BY <3>2, <4>1, <4>2, <4>3, <5>1 DEF Cursor
      <4>5. PICK T : T = S \cup {i}
        OBVIOUS
      <4>6. T = Selected(d.list, d.filter)'
        <5>1. row.live
          BY <1>1, <1>2
        <5> QED
          BY <1>5, <3>1, <3>4, <4>4, <4>5, <5>1 DEF Selected
      <4>7. i \in DOMAIN rows' /\ i \notin DOMAIN rows
        BY <1>3, <1>5
      <4>8. ReadWell(d, T)'
        BY <1>6, <1>7, <3>2, <4>3, <4>4, <4>5, <4>7, ReadsOnAfterInsert
      <4> QED
        BY <2>1, <4>4, <4>6, <4>8 DEF Shown
    <3> QED
      BY <3>3, <3>4
  <2> QED
    BY <2>3, <2>4
<1>9. reader' = [r \in Readers |-> reader'[r]]
  BY <1>3 DEF Watch
<1> QED
  BY <1>6, <1>8, <1>9 DEF Reading

LEMMA DeleteKeeps ==
  ASSUME Table, Reading, NEW i \in DOMAIN rows, Delete(i)
  PROVE  Table' /\ Reading'
<1>1. PICK no \in BOOLEAN : no = FALSE
  OBVIOUS
<1>2. rows' = [rows EXCEPT ![i].live = no] /\ rows[i].live /\ Watch(i, "lifted")
  BY <1>1 DEF Delete
<1>3. PICK row : row = [rows[i] EXCEPT !.live = no]
  OBVIOUS
<1>4. /\ rows[i] \in ListRow /\ row \in ListRow /\ ~row.live
      /\ row.list = rows[i].list /\ row.date = rows[i].date /\ row.type = rows[i].type
      /\ row.category = rows[i].category
  BY <1>1, <1>3 DEF Table, ListRow
<1>5. /\ rows' \in [DOMAIN rows -> ListRow] /\ DOMAIN rows' = DOMAIN rows /\ rows'[i] = row
      /\ \A j \in DOMAIN rows \ {i} : rows'[j] = rows[j]
  BY <1>2, <1>3, <1>4 DEF Table
<1>6. Table'
  BY <1>5 DEF Table
<1>7. SameOrder /\ \A j \in DOMAIN rows : rows'[j].date = rows[j].date
  BY <1>4, <1>5 DEF SameOrder, Before
<1>8. ASSUME NEW r \in Readers
      PROVE  /\ reader'[r] \in Cursor \cup {AtRest}
             /\ Active(r)' => ReadWell(reader[r], Shown(reader[r]))'
  <2>1. PICK c, d : c = reader[r] /\ d = reader'[r]
    OBVIOUS
  <2>2. c \in Cursor \cup {AtRest} /\ (c.phase # "rest" => c \in Cursor)
    BY <2>1 DEF Reading, AtRest
  <2>3. CASE ~Active(r)
    <3>1. d = c /\ c.phase = "rest"
      BY <1>2, <2>1, <2>3 DEF Watch, Active
    <3> QED
      BY <2>1, <2>2, <3>1 DEF Active
  <2>4. CASE Active(r)
    <3>1. PICK S : S = Selected(c.list, c.filter)
      OBVIOUS
    <3>2. c \in Cursor /\ ReadWell(c, S) /\ S \subseteq DOMAIN rows
      BY <2>1, <2>2, <2>4, <3>1, ShownRows DEF Reading, Active, Shown
    <3>3. appendFilters(row, c.filter) <=> appendFilters(rows[i], c.filter)
      BY <1>4 DEF appendFilters
    <3>4. CASE row.list # c.list \/ ~appendFilters(row, c.filter)
      <4>1. d = c
        BY <1>2, <1>5, <2>1, <2>4, <3>4 DEF Watch
      <4>2. i \notin S /\ i \notin Selected(c.list, c.filter)'
        BY <1>4, <1>5, <3>1, <3>3, <3>4 DEF Selected
      <4>3. S = Selected(c.list, c.filter)'
        BY <1>5, <3>1, <4>2 DEF Selected
      <4>4. ReadWell(c, S)'
        BY <1>7, <3>2, ReadsOn
      <4> QED
        BY <2>1, <3>2, <4>1, <4>3, <4>4 DEF Shown
    <3>5. CASE row.list = c.list /\ appendFilters(row, c.filter)
      <4>1. PICK P : P = {j \in S \ {i} : \/ row.date > rows[j].date
                                          \/ row.date = rows[j].date /\ i > j}
        OBVIOUS
      <4>2. d = [c EXCEPT !.quiet = no, !.stayed = @ \ {i}, !["lifted"] = @ \cup P]
        BY <1>1, <1>2, <1>5, <2>1, <2>4, <3>1, <3>5, <4>1 DEF Watch
      <4>3. P = {j \in S \ {i} : Before(i, j)'} /\ P \subseteq Ids
        BY <1>5, <1>7, <3>2, <4>1 DEF Before, Table
      <4>4. /\ d \in Cursor /\ d.quiet = FALSE /\ d.stayed = c.stayed \ {i} /\ d.pushed = c.pushed
            /\ d.lifted = c.lifted \cup P /\ d.phase = c.phase /\ d.got = c.got /\ d.page = c.page
            /\ d.list = c.list /\ d.filter = c.filter
        BY <1>1, <3>2, <4>2, <4>3 DEF Cursor
      <4>5. PICK T : T = S \ {i}
        OBVIOUS
      <4>6. T = Selected(d.list, d.filter)'
        BY <1>4, <1>5, <3>1, <4>4, <4>5 DEF Selected
      <4>7. ReadWell(d, T)'
        BY <1>5, <1>6, <1>7, <3>2, <4>3, <4>4, <4>5, ReadsOnAfterDelete
      <4> QED
        BY <2>1, <4>4, <4>6, <4>7 DEF Shown
    <3> QED
      BY <3>4, <3>5
  <2> QED
    BY <2>3, <2>4
<1>9. reader' = [r \in Readers |-> reader'[r]]
  BY <1>2 DEF Watch
<1> QED
  BY <1>6, <1>8, <1>9 DEF Reading

\* A step that touches no list.
LEMMA ListsStandStill ==
  ASSUME Table, Reading, UNCHANGED <<rows, reader>>
  PROVE  Table' /\ Reading'
<1>1. Table' /\ SameOrder
  BY DEF Table, SameOrder, Before
<1>2. ASSUME NEW r \in Readers, Active(r)
      PROVE  ReadWell(reader[r], Shown(reader[r]))'
  <2>1. PICK c, S : c = reader[r] /\ S = Selected(c.list, c.filter)
    OBVIOUS
  <2>2. ReadWell(c, S)'
    BY <1>1, <1>2, <2>1, ReadsOn, ShownRows DEF Reading, Shown
  <2>3. S = Selected(c.list, c.filter)'
    BY <2>1 DEF Selected
  <2> QED
    BY <2>1, <2>2, <2>3 DEF Shown
<1> QED
  BY <1>1, <1>2 DEF Reading, Active

\* The writer under way.
LEMMA WriterTypes ==
  ASSUME Writing, NEW w \in Writers
  PROVE  /\ writer[w].phase = "chosen" => writer[w] \in Chosen
         /\ writer[w].phase \in {"snapshot", "insert"} => writer[w] \in Filing
         /\ writer[w].phase # "rest" => writer[w] \in Chosen \cup Filing
         /\ AtRest.phase = "rest"
  BY DEF Writing, Chosen, Filing, AtRest

\* One writer moves.
LEMMA WriterMoves ==
  ASSUME Writing, NEW w \in Writers, NEW v \in {AtRest} \cup Chosen \cup Filing,
         writer' = [writer EXCEPT ![w] = v], UNCHANGED categories,
         v.phase # "rest" => v.category \in DOMAIN categories \cup {NoCategory},
         v.phase = "snapshot" /\ IsActive(v.category) => v.was,
         v.phase = "insert" => v.was
  PROVE  Writing'
<1>1. /\ writer' \in [Writers -> {AtRest} \cup Chosen \cup Filing] /\ writer'[w] = v
      /\ \A x \in Writers \ {w} : writer'[x] = writer[x]
  BY DEF Writing
<1>2. \A x \in Writers : Files(x)'
  BY <1>1 DEF Writing, Files, IsActive
<1>3. \A x \in Writers : writer'[x].phase # "rest" =>
        writer'[x].category \in DOMAIN categories \cup {NoCategory}
  BY <1>1 DEF Writing
<1> QED
  BY <1>1, <1>2, <1>3 DEF Writing

LEMMA ChooseKeeps ==
  ASSUME Writing, NEW w \in Writers, Choose(w)
  PROVE  Writing'
<1>1. PICK c \in ListCategories(FALSE) \cup {NoCategory}, u \in Owners :
        writer' = [writer EXCEPT ![w] = [phase |-> "chosen", user |-> u, category |-> c]]
  BY DEF Choose
<1>2. PICK v : v = [phase |-> "chosen", user |-> u, category |-> c]
  OBVIOUS
<1>3. c \in DOMAIN categories \cup {NoCategory} /\ c \in Category
  BY DEF ListCategories, Writing, Category
<1>4. v \in Chosen /\ v.phase = "chosen" /\ v.category = c
  BY <1>2, <1>3 DEF Chosen
<1> QED
  BY <1>1, <1>2, <1>3, <1>4, WriterMoves DEF Choose

LEMMA CallCreateKeeps ==
  ASSUME Writing, NEW w \in Writers, CallCreate(w)
  PROVE  Writing'
<1>1. PICK x : x = writer[w]
  OBVIOUS
<1>2. x \in Chosen /\ x.category \in DOMAIN categories \cup {NoCategory}
  BY <1>1, WriterTypes DEF CallCreate, Writing
<1>3. PICK was \in BOOLEAN : was = IsActive(x.category)
  BY DEF IsActive
<1>4. PICK v : v = [phase |-> "snapshot", user |-> x.user, category |-> x.category, was |-> was]
  OBVIOUS
<1>5. writer' = [writer EXCEPT ![w] = v] /\ UNCHANGED categories
  BY <1>1, <1>3, <1>4 DEF CallCreate, Writing
<1>6. v \in Filing /\ v.phase = "snapshot" /\ v.category = x.category /\ v.was = was
  BY <1>2, <1>4 DEF Chosen, Filing
<1> QED
  BY <1>2, <1>3, <1>5, <1>6, WriterMoves

LEMMA SnapshotKeeps ==
  ASSUME Writing, NEW w \in Writers, categorySnapshot(w)
  PROVE  Writing'
<1>1. PICK x : x = writer[w]
  OBVIOUS
<1>2. /\ x \in Filing /\ x.category \in DOMAIN categories \cup {NoCategory}
      /\ IsActive(x.category) => x.was
  BY <1>1, WriterTypes DEF categorySnapshot, Writing, Files
<1>3. PICK v : v = IF IsActive(x.category) THEN [x EXCEPT !.phase = "insert"] ELSE AtRest
  OBVIOUS
<1>4. writer' = [writer EXCEPT ![w] = v] /\ UNCHANGED categories
  BY <1>1, <1>3 DEF categorySnapshot, Writing
<1>5. CASE IsActive(x.category)
  <2>1. v \in Filing /\ v.phase = "insert" /\ v.category = x.category /\ v.was = x.was
    BY <1>2, <1>3, <1>5 DEF Filing
  <2> QED
    BY <1>2, <1>4, <1>5, <2>1, WriterMoves
<1>6. CASE ~IsActive(x.category)
  BY <1>3, <1>4, <1>6, WriterMoves, WriterTypes
<1> QED
  BY <1>5, <1>6

LEMMA RestKeeps ==
  ASSUME Writing, NEW w \in Writers, writer' = [writer EXCEPT ![w] = AtRest], UNCHANGED categories
  PROVE  Writing'
  BY WriterMoves, WriterTypes

LEMMA CreateCategoryKeeps ==
  ASSUME Writing, CreateCategory
  PROVE  Writing'
<1>1. PICK c \in CategoryCodes \ DOMAIN categories :
        categories' = [d \in DOMAIN categories \cup {c} |-> IF d = c THEN "active" ELSE categories[d]]
  BY DEF CreateCategory
<1>2. /\ DOMAIN categories' = DOMAIN categories \cup {c} /\ writer' = writer
      /\ \A d \in DOMAIN categories : categories'[d] = categories[d]
  BY <1>1 DEF CreateCategory
<1>3. ASSUME NEW w \in Writers
      PROVE  Files(w)'
  <2>1. writer[w].phase = "snapshot" => (IsActive(writer[w].category)' => IsActive(writer[w].category))
    BY <1>1, <1>2 DEF Writing, IsActive
  <2> QED
    BY <1>2, <2>1 DEF Writing, Files
<1> QED
  BY <1>1, <1>2, <1>3 DEF Writing

LEMMA CategoryChangesKeeps ==
  ASSUME Writing, CategoryChanges
  PROVE  Writing'
<1>1. PICK c \in DOMAIN categories, status \in {"active", "inactive", "deleted"} :
        /\ categories' = [categories EXCEPT ![c] = status]
        /\ writer' = [w \in Writers |->
                        IF writer[w].phase \in {"snapshot", "insert"} /\ writer[w].category = c
                        THEN [writer[w] EXCEPT !.was = @ \/ status = "active"] ELSE writer[w]]
  BY DEF CategoryChanges
<1>2. /\ categories' = [d \in DOMAIN categories' |-> categories'[d]]
      /\ DOMAIN categories' = DOMAIN categories /\ categories'[c] = status
      /\ \A d \in DOMAIN categories \ {c} : categories'[d] = categories[d]
  BY <1>1 DEF Writing
<1>3. ASSUME NEW w \in Writers
      PROVE  /\ writer'[w] \in {AtRest} \cup Chosen \cup Filing /\ Files(w)'
             /\ writer'[w].phase # "rest" => writer'[w].category \in DOMAIN categories \cup {NoCategory}
  <2>1. CASE writer[w].phase \in {"snapshot", "insert"} /\ writer[w].category = c
    <3>1. PICK x \in Filing : x = writer[w]
      BY <2>1, WriterTypes
    <3>2. PICK was \in BOOLEAN : was = (x.was \/ status = "active")
      OBVIOUS
    <3>3. PICK v : v = [x EXCEPT !.was = was]
      OBVIOUS
    <3>4. writer'[w] = v
      BY <1>1, <2>1, <3>1, <3>2, <3>3
    <3>5. v \in Filing /\ v.phase = x.phase /\ v.category = x.category /\ v.was = was
      BY <3>3 DEF Filing
    <3>6. v.phase = "snapshot" /\ IsActive(v.category)' => v.was
      <4>1. c # NoCategory => (IsActive(c)' => status = "active")
        BY <1>2 DEF IsActive
      <4>2. c # NoCategory
        BY ListsAssumption DEF Writing
      <4> QED
        BY <2>1, <3>1, <3>2, <3>5, <4>1, <4>2
    <3>7. v.phase = "insert" => v.was
      BY <3>1, <3>2, <3>5 DEF Writing, Files
    <3>8. Files(w)'
      BY <3>4, <3>6, <3>7 DEF Files
    <3> QED
      BY <2>1, <3>1, <3>4, <3>5, <3>8
  <2>2. CASE ~(writer[w].phase \in {"snapshot", "insert"} /\ writer[w].category = c)
    <3>1. writer'[w] = writer[w]
      BY <1>1, <2>2
    <3>2. PICK x : x = writer[w].category
      OBVIOUS
    <3>3. writer[w].phase = "snapshot" => (IsActive(x)' => IsActive(x))
      BY <1>2, <2>2, <3>2 DEF Writing, IsActive
    <3>4. Files(w)'
      BY <3>1, <3>2, <3>3 DEF Writing, Files
    <3> QED
      BY <3>1, <3>4 DEF Writing
  <2> QED
    BY <2>1, <2>2
<1>4. writer' = [w \in Writers |-> writer'[w]]
  BY <1>1
<1> QED
  BY <1>2, <1>3, <1>4 DEF Writing

LEMMA InsertPersonalKeeps ==
  ASSUME ListsInv, NEW w \in Writers, InsertPersonal(w)
  PROVE  ListsInv'
<1>1. PICK x : x = writer[w]
  OBVIOUS
<1>2. x \in Filing
  BY <1>1, WriterTypes DEF InsertPersonal, ListsInv
<1>3. PICK type \in {"income", "expense"}, date \in Dates :
        Insert([kind |-> "personal", of |-> x.user], type, x.category, date)
  BY <1>1 DEF InsertPersonal
<1>4. PICK list : list = [kind |-> "personal", of |-> x.user]
  OBVIOUS
<1>5. list \in Lists /\ x.category \in Category
  BY <1>2, <1>4 DEF Filing, Lists
<1>6. Table' /\ Reading'
  BY <1>3, <1>4, <1>5, InsertKeeps DEF ListsInv
<1>7. Writing'
  BY RestKeeps DEF InsertPersonal, ListsInv
<1> QED
  BY <1>6, <1>7 DEF ListsInv

LEMMA InsertGroupKeeps ==
  ASSUME ListsInv, InsertGroup \/ InsertSettlement
  PROVE  ListsInv'
<1>1. PICK list \in Lists, type \in {"income", "expense", Unspecified}, date \in Dates,
           c \in Category : Insert(list, type, c, date)
  <2>1. \A g \in Groups : [kind |-> "group", of |-> g] \in Lists
                          /\ [kind |-> "settlement", of |-> g] \in Lists
    BY DEF Lists
  <2>2. CASE InsertGroup
    <3>1. PICK g \in Groups, type \in {"income", "expense"}, date \in Dates,
               c \in DOMAIN categories \cup {NoCategory} :
            Insert([kind |-> "group", of |-> g], type, c, date)
      BY <2>2 DEF InsertGroup
    <3>2. c \in Category
      BY DEF ListsInv, Writing, Category
    <3> QED
      BY <2>1, <3>1, <3>2
  <2>3. CASE InsertSettlement
    <3>1. PICK g \in Groups, date \in Dates :
            Insert([kind |-> "settlement", of |-> g], Unspecified, NoCategory, date)
      BY <2>3 DEF InsertSettlement
    <3>2. NoCategory \in Category
      BY DEF Category
    <3> QED
      BY <2>1, <3>1, <3>2
  <2> QED
    BY <2>2, <2>3
<1>2. Table' /\ Reading'
  BY <1>1, InsertKeeps DEF ListsInv
<1>3. UNCHANGED <<categories, writer>>
  BY DEF InsertGroup, InsertSettlement
<1>4. Writing'
  BY <1>3 DEF ListsInv, Writing, Files, IsActive
<1> QED
  BY <1>2, <1>4 DEF ListsInv

LEMMA ListsInitInv == ListsInit => ListsInv
<1> SUFFICES ASSUME ListsInit PROVE ListsInv
  OBVIOUS
<1>1. Table
  BY ListsAssumption DEF ListsInit, Table
<1>2. \A r \in Readers : reader[r] = AtRest /\ AtRest.phase = "rest"
  BY DEF ListsInit, AtRest
<1>3. Reading
  BY <1>2 DEF ListsInit, Reading, Active
<1>4. Writing
  <2>1. \A w \in Writers : writer[w] = AtRest /\ AtRest.phase = "rest"
    BY DEF ListsInit, AtRest
  <2>2. \A i \in DOMAIN rows : rows[i].category \in CategoryCodes \cup {NoCategory}
    BY <1>1 DEF Table, ListRow
  <2>3. /\ categories = [c \in DOMAIN categories |-> categories[c]]
        /\ DOMAIN categories \subseteq CategoryCodes
    BY <2>2 DEF ListsInit
  <2> QED
    BY <2>1, <2>3 DEF ListsInit, Writing, Files
<1> QED
  BY <1>1, <1>3, <1>4 DEF ListsInv

LEMMA ListsNextInv ==
  ASSUME ListsInv, [ListsNext]_listsVars
  PROVE  ListsInv'
<1>0. Table /\ Reading /\ Writing
  BY DEF ListsInv
<1>1. ASSUME NEW r \in Readers, Read(r)
      PROVE  ListsInv'
  <2>1. Reading'
    BY SMTT(30), <1>0, <1>1, StartKeeps, SelectPageKeeps, CountRowsKeeps, AskAgainKeeps DEF Read
  <2>2. UNCHANGED <<rows, categories, writer>>
    BY <1>1 DEF Read, Start, SelectPage, CountRows, AskAgain
  <2> QED
    BY <1>0, <2>1, <2>2 DEF ListsInv, Table, Writing, Files, IsActive
<1>2. ASSUME NEW w \in Writers, CreatePersonal(w)
      PROVE  ListsInv'
  <2>1. CASE InsertPersonal(w)
    BY <2>1, InsertPersonalKeeps
  <2>2. CASE Choose(w) \/ CallCreate(w) \/ categorySnapshot(w) \/ CreateFails(w)
    <3>1. UNCHANGED <<rows, reader>>
      BY <2>2 DEF Choose, CallCreate, categorySnapshot, CreateFails
    <3>2. Writing'
      BY <1>0, <2>2, ChooseKeeps, CallCreateKeeps, SnapshotKeeps, RestKeeps DEF CreateFails
    <3> QED
      BY <1>0, <3>1, <3>2, ListsStandStill DEF ListsInv
  <2> QED
    BY <1>2, <2>1, <2>2 DEF CreatePersonal
<1>3. CASE DeletePersonal \/ DeleteGroup
  <2>1. PICK i \in DOMAIN rows : Delete(i)
    BY <1>3 DEF DeletePersonal, DeleteGroup
  <2>2. Table' /\ Reading'
    BY <1>0, <2>1, DeleteKeeps
  <2>3. UNCHANGED <<categories, writer>>
    BY <2>1 DEF Delete
  <2> QED
    BY <1>0, <2>2, <2>3 DEF ListsInv, Writing, Files, IsActive
<1>4. CASE CreateCategory \/ CategoryChanges
  <2>1. UNCHANGED <<rows, reader>>
    BY <1>4 DEF CreateCategory, CategoryChanges
  <2>2. Writing'
    BY <1>0, <1>4, CreateCategoryKeeps, CategoryChangesKeeps
  <2> QED
    BY <1>0, <2>1, <2>2, ListsStandStill DEF ListsInv
<1>5. CASE UNCHANGED listsVars
  <2>1. UNCHANGED <<rows, reader>> /\ UNCHANGED <<categories, writer>>
    BY <1>5 DEF listsVars
  <2> QED
    BY <1>0, <2>1, ListsStandStill DEF ListsInv, Writing, Files, IsActive
<1> QED
  BY <1>1, <1>2, <1>3, <1>4, <1>5, InsertGroupKeeps DEF ListsNext

THEOREM ListsInvariance == ListsSpec => []ListsInv
<1>1. ListsInit => ListsInv
  BY ListsInitInv
<1>2. ListsInv /\ [ListsNext]_listsVars => ListsInv'
  BY ListsNextInv
<1> QED
  BY <1>1, <1>2, PTL DEF ListsSpec

\* Whatever is written between two pages, a client that pages to the end has
\* every row that was there all along but for those that a deletion above them
\* moved over the boundary of two pages, and has one twice only when another
\* came in above it.
THEOREM PagesMissAndRepeatOnlyByWritesHolds == ListsSpec => []PagesMissAndRepeatOnlyByWrites
<1>1. ASSUME ListsInv, NEW r \in Readers, reader[r].phase = "done"
      PROVE  reader[r].stayed \ Range(reader[r].got) \subseteq reader[r].lifted
  BY <1>1 DEF ListsInv, Reading, Active, ReadWell, Ends
<1>2. ASSUME ListsInv, NEW r \in Readers, Active(r), NEW a \in DOMAIN reader[r].got,
             NEW b \in DOMAIN reader[r].got, a < b, reader[r].got[a] = reader[r].got[b]
      PROVE  reader[r].got[a] \in reader[r].pushed
  BY <1>2 DEF ListsInv, Reading, ReadWell, Follows, Overlaps
<1>3. ListsInv => PagesMissAndRepeatOnlyByWrites
  BY <1>1, <1>2 DEF PagesMissAndRepeatOnlyByWrites
<1> QED
  BY <1>3, ListsInvariance, PTL

\* With nobody writing, the pages add up to the list, in its order, and the last
\* total is its length.
THEOREM QuietPagingIsCompleteHolds == ListsSpec => []QuietPagingIsComplete
<1>1. ASSUME ListsInv, NEW r \in Readers, reader[r].phase = "done", reader[r].quiet
      PROVE  /\ reader[r].got \in Orders(Selected(reader[r].list, reader[r].filter))
             /\ reader[r].total = Len(reader[r].got)
  <2>1. PICK c, S : c = reader[r] /\ S = Selected(c.list, c.filter)
    OBVIOUS
  <2>2. /\ Table /\ S \subseteq DOMAIN rows /\ c \in Cursor /\ ReadWell(c, S)
        /\ c.phase = "done" /\ c.quiet
    BY <1>1, <2>1, ShownRows DEF ListsInv, Reading, Active, Shown, AtRest
  <2>3. c.got \in Seq(Ids) /\ Len(c.got) = Cardinality(S) /\ c.total = Len(c.got)
    BY <2>2 DEF Cursor, ReadWell, Ends
  <2>4. \A k \in DOMAIN c.got : c.got[k] \in S /\ Pos(c.got[k], S) = k - 1
    BY <2>2 DEF ReadWell, Follows, Exact
  <2>5. c.got \in Orders(S)
    BY <2>2, <2>3, <2>4, PositionsMakeOrders
  <2> QED
    BY <2>1, <2>3, <2>5
<1>2. ListsInv => QuietPagingIsComplete
  BY <1>1 DEF QuietPagingIsComplete
<1> QED
  BY <1>2, ListsInvariance, PTL

\* categorySnapshot keeps out a category that was not active at any time of the
\* call, however old the list the client chose from.
THEOREM CategoryWasActiveHolds == ListsSpec => []CategoryWasActive
<1>1. ListsInv => CategoryWasActive
  BY DEF ListsInv, Writing, Files, CategoryWasActive
<1> QED
  BY <1>1, ListsInvariance, PTL

===============================================================================
