-------------------------- MODULE DeploymentProofs --------------------------
(***************************************************************************)
(* Proofs about the processes and what connects them: Deployment, for any  *)
(* of the services, any number of calls in flight and any number of        *)
(* faults; EmailDelivery, for any messages, foreign bodies, retries and    *)
(* prefetch, and any number of things that go wrong; and SigningKeys, for  *)
(* any keys, ids, paths, lifetimes and skew, and any number of edits and   *)
(* tokens.                                                                 *)
(***************************************************************************)
EXTENDS Deployment, EmailDelivery, SigningKeys, SumTheorems, TLAPS

-----------------------------------------------------------------------------
(***************************************************************************)
(* Deployment: its types, and that calls keep the connections of their     *)
(* process.                                                                *)
(***************************************************************************)

-----------------------------------------------------------------------------
(* The wiring.                                                             *)

\* Every process has servers to stop, and only auth-service has two.
LEMMA ServersOfProcess ==
  ASSUME NEW s \in Services
  PROVE  /\ Len(Servers(s)) \in {1, 2}
         /\ DOMAIN Servers(s) = 1..Len(Servers(s))
         /\ s # "auth" => Len(Servers(s)) = 1
<1>1. CASE s = "auth"
  BY <1>1 DEF Servers
<1>2. CASE s = "gateway"
  BY <1>2 DEF Servers
<1>3. CASE s \notin {"auth", "gateway"}
  <2>1. Servers(s) = <<"grpc">>
    BY <1>3 DEF Servers
  <2> QED
    BY <1>3, <2>1
<1> QED
  BY <1>1, <1>2, <1>3

LEMMA ConnectsOfProcess ==
  ASSUME NEW s \in Services
  PROVE  Len(Connects(s)) \in Nat \ {0}
  BY DeploymentAssumption
     DEF Connects, AuthConnects, GroupConnects, TransactionConnects, GatewayConnects

\* With the first n servers stopped, the n-th is the one that is stopping.
LEMMA StoppingIsLast ==
  ASSUME NEW s \in Services, NEW n \in DOMAIN Servers(s),
         taking[s] = DOMAIN Servers(s) \ 1..n
  PROVE  StoppingServer(s) = n
<1>1. DOMAIN Servers(s) \ taking[s] = 1..n /\ n \in Int /\ n >= 1
  BY ServersOfProcess
<1>2. Cardinality(1..n) = n
  BY <1>1, FS_Interval
<1> QED
  BY <1>1, <1>2 DEF StoppingServer

-----------------------------------------------------------------------------
(* What a stage says of the calls and connections of a process.            *)

NoCalls(s) == \A k \in DOMAIN Servers(s) : calls[s][k] = 0

\* Nothing is taken before it serves.
AtRest(s) == taking[s] = {} /\ NoCalls(s) /\ s \notin forced

Connected(s) == opened[s] = Len(Connects(s)) /\ s \notin forced

\* While it stops, the servers before the one that is stopping have no calls.
StopsInOrder(s) ==
  \E n \in DOMAIN Servers(s) :
    /\ taking[s] = DOMAIN Servers(s) \ 1..n
    /\ \A k \in 1..(n - 1) : calls[s][k] = 0

\* When it closes, either all calls were waited for or it was forced.
ClosesEmpty(s) ==
  /\ s \notin forced => taking[s] = {} /\ NoCalls(s)
  /\ taking[s] # {} => s = "auth"

Phase(s) ==
  /\ stage[s] = "down" => opened[s] = 0 /\ AtRest(s)
  /\ stage[s] = "connecting" => AtRest(s)
  /\ stage[s] = "serving" => Connected(s) /\ taking[s] = DOMAIN Servers(s)
  /\ stage[s] = "stopping" => Connected(s) /\ StopsInOrder(s)
  /\ stage[s] = "closing" => ClosesEmpty(s)

DepInv == DepTypeOK /\ \A s \in Services : Phase(s)

LEMMA PhaseIsSafe == DepInv => CallsKeepTheirStores
<1> SUFFICES ASSUME DepInv, NEW s \in Services, opened[s] < Len(Connects(s))
             PROVE  /\ InFlight(s) => s \in forced
                    /\ taking[s] # {} => s = "auth" /\ s \in forced
  BY DEF CallsKeepTheirStores
<1>1. stage[s] \in Stages /\ Phase(s) /\ opened[s] # Len(Connects(s))
  BY ConnectsOfProcess DEF DepInv, DepTypeOK
<1>2. NoCalls(s) => ~InFlight(s)
  BY DEF NoCalls, InFlight
<1> QED
  BY <1>1, <1>2 DEF Phase, Stages, AtRest, Connected, ClosesEmpty

LEMMA InitDepInv == DepInit => DepInv
<1> SUFFICES ASSUME DepInit PROVE DepInv
  OBVIOUS
<1>1. DepTypeOK
  BY DeploymentAssumption, ConnectsOfProcess DEF DepInit, DepTypeOK, Stages
<1>2. \A s \in Services : Phase(s)
  BY DEF DepInit, Phase, AtRest, NoCalls
<1> QED
  BY <1>1, <1>2 DEF DepInv

-----------------------------------------------------------------------------
(* Steps.                                                                  *)

Local(s) == <<stage[s], opened[s], calls[s], taking[s], s \in forced>>

\* A process nothing happened to is in the phase it was in.
LEMMA OthersKeepPhase ==
  ASSUME NEW s \in Services, Phase(s), Local(s)' = Local(s)
  PROVE  Phase(s)'
<1>1. /\ stage[s]' = stage[s] /\ opened[s]' = opened[s] /\ calls[s]' = calls[s]
      /\ taking[s]' = taking[s] /\ (s \in forced' <=> s \in forced)
  BY DEF Local
<1> QED
  BY <1>1 DEF Phase, AtRest, NoCalls, Connected, StopsInOrder, ClosesEmpty

LEMMA StepOfOne ==
  ASSUME DepInv, NEW s \in Services, DepTypeOK', Phase(s)',
         \A p \in Services \ {s} : Local(p)' = Local(p)
  PROVE  DepInv'
<1>1. ASSUME NEW p \in Services, p # s
      PROVE  Phase(p)'
  BY <1>1, OthersKeepPhase DEF DepInv
<1> QED
  BY <1>1 DEF DepInv

LEMMA EndsKeepsDepInv ==
  ASSUME DepInv, NEW s \in Services, Ends(s),
         outages' \subseteq Stores, faults' \in 0..MaxFaults
  PROVE  DepInv'
<1>1. DepTypeOK'
  BY DeploymentAssumption, ConnectsOfProcess DEF DepInv, DepTypeOK, Ends, Stages
<1>2. Phase(s)'
  BY DEF DepInv, DepTypeOK, Ends, Phase, AtRest, NoCalls
<1>3. \A p \in Services \ {s} : Local(p)' = Local(p)
  BY DEF DepInv, DepTypeOK, Ends, Local
<1> QED
  BY <1>1, <1>2, <1>3, StepOfOne

\* Server k is told to stop, when those before it have no calls.
LEMMA StopKeepsDepInv ==
  ASSUME DepInv, NEW s \in Services, NEW k \in DOMAIN Servers(s), Stop(s, k),
         stage[s] \in {"serving", "stopping"},
         taking[s] = DOMAIN Servers(s) \ 1..(k - 1),
         \A j \in 1..(k - 1) : calls[s][j] = 0,
         outages' = outages, faults' \in 0..MaxFaults
  PROVE  DepInv'
<1>1. DepTypeOK'
  BY DEF DepInv, DepTypeOK, Stop, Stages
<1>2. Connected(s)'
  BY DEF DepInv, Phase, Stop, Connected
<1>3. taking'[s] = DOMAIN Servers(s) \ 1..k
  BY ServersOfProcess DEF DepInv, DepTypeOK, Stop
<1>4. StopsInOrder(s)'
  BY <1>3 DEF StopsInOrder, Stop
<1>5. Phase(s)'
  BY <1>2, <1>4 DEF DepInv, DepTypeOK, Stop, Phase
<1>6. \A p \in Services \ {s} : Local(p)' = Local(p)
  BY DEF DepInv, DepTypeOK, Stop, Local
<1> QED
  BY <1>1, <1>5, <1>6, StepOfOne

\* A fault counts up to the bound.
LEMMA FaultCounts ==
  ASSUME DepTypeOK, Fault
  PROVE  faults' \in 0..MaxFaults
  BY DeploymentAssumption DEF DepTypeOK, Fault

LEMMA ConnectingKeepsDepInv ==
  ASSUME DepInv, NEW s \in Services,
         Start(s) \/ OpenConnection(s) \/ GiveUp(s) \/ Refuse(s) \/ Serve(s)
  PROVE  DepInv'
<1> USE DEF DepInv
<1>1. CASE Start(s)
  <2>1. DepTypeOK' /\ \A p \in Services \ {s} : Local(p)' = Local(p)
    BY <1>1 DEF DepTypeOK, Start, Stages, Local
  <2>2. Phase(s)'
    BY <1>1 DEF DepTypeOK, Start, Phase, AtRest, NoCalls
  <2> QED
    BY <2>1, <2>2, StepOfOne
<1>2. CASE OpenConnection(s)
  <2>1. DepTypeOK' /\ \A p \in Services \ {s} : Local(p)' = Local(p)
    BY <1>2, ConnectsOfProcess DEF DepTypeOK, OpenConnection, Local
  <2>2. Phase(s)'
    BY <1>2 DEF DepTypeOK, OpenConnection, Phase, AtRest, NoCalls
  <2> QED
    BY <2>1, <2>2, StepOfOne
<1>3. CASE GiveUp(s)
  BY <1>3, EndsKeepsDepInv DEF GiveUp, DepTypeOK
<1>4. CASE Refuse(s)
  BY <1>4, EndsKeepsDepInv, FaultCounts DEF Refuse, DepTypeOK
<1>5. CASE Serve(s)
  <2>1. DepTypeOK' /\ \A p \in Services \ {s} : Local(p)' = Local(p)
    BY <1>5 DEF DepTypeOK, Serve, Stages, Local
  <2>2. Phase(s)'
    BY <1>5 DEF DepTypeOK, Serve, Phase, AtRest, Connected
  <2> QED
    BY <2>1, <2>2, StepOfOne
<1> QED
  BY <1>1, <1>2, <1>3, <1>4, <1>5

LEMMA SignalKeepsDepInv ==
  ASSUME DepInv, NEW s \in Services, Signal(s)
  PROVE  DepInv'
<1>1. faults' \in 0..MaxFaults /\ outages' = outages
  BY FaultCounts DEF DepInv, Signal
<1>2. CASE Ends(s)
  BY <1>1, <1>2, EndsKeepsDepInv DEF DepInv, DepTypeOK
<1>3. CASE stage[s] = "serving" /\ Stop(s, 1)
  <2>1. 1 \in DOMAIN Servers(s) /\ taking[s] = DOMAIN Servers(s)
    BY <1>3, ServersOfProcess DEF DepInv, Phase
  <2>2. 1..(1 - 1) = {}
    OBVIOUS
  <2> QED
    BY <1>1, <1>3, <2>1, <2>2, StopKeepsDepInv
<1> QED
  BY <1>2, <1>3 DEF Signal

\* A server fails, or the time of the one that is stopping is over: the process
\* is forced to close, and only that of two servers may go on taking calls.
LEMMA ForcedKeepsDepInv ==
  ASSUME DepInv, NEW s \in Services, ServerFails(s) \/ TimeIsOver(s)
  PROVE  DepInv'
<1>1. /\ stage' = [stage EXCEPT ![s] = "closing"] /\ forced' = forced \cup {s}
      /\ opened' = opened /\ calls' = calls /\ outages' = outages
      /\ faults' \in 0..MaxFaults
  BY FaultCounts DEF DepInv, DepTypeOK, ServerFails, TimeIsOver
<1>2. /\ \A p \in Services \ {s} : taking'[p] = taking[p]
      /\ DOMAIN taking' = Services
      /\ \E k \in DOMAIN Servers(s) : taking'[s] \subseteq DOMAIN Servers(s) \ {k}
  <2>1. CASE ServerFails(s)
    BY <2>1 DEF DepInv, DepTypeOK, ServerFails
  <2>2. CASE TimeIsOver(s)
    <3>1. \E n \in DOMAIN Servers(s) : taking[s] = DOMAIN Servers(s) \ 1..n
      BY <2>2 DEF DepInv, Phase, TimeIsOver, StopsInOrder
    <3> QED
      BY <2>2, <3>1, ServersOfProcess DEF DepInv, DepTypeOK, TimeIsOver
  <2> QED
    BY <2>1, <2>2
<1>3. DepTypeOK'
  BY <1>1, <1>2 DEF DepInv, DepTypeOK, Stages
<1>4. taking'[s] # {} => s = "auth"
  BY <1>2, ServersOfProcess
<1>5. Phase(s)'
  BY <1>1, <1>4 DEF DepInv, DepTypeOK, Phase, ClosesEmpty
<1>6. \A p \in Services \ {s} : Local(p)' = Local(p)
  BY <1>1, <1>2 DEF DepInv, DepTypeOK, Local
<1> QED
  BY <1>3, <1>5, <1>6, StepOfOne

LEMMA DrainedKeepsDepInv ==
  ASSUME DepInv, NEW s \in Services, Drained(s)
  PROVE  DepInv'
<1>1. PICK n \in DOMAIN Servers(s) : /\ taking[s] = DOMAIN Servers(s) \ 1..n
                                     /\ \A k \in 1..(n - 1) : calls[s][k] = 0
  BY DEF DepInv, Phase, Drained, StopsInOrder
<1>2. StoppingServer(s) = n
  BY <1>1, StoppingIsLast
<1>3. \A k \in 1..n : calls[s][k] = 0
  BY <1>1, <1>2, ServersOfProcess DEF Drained
<1>4. CASE n < Len(Servers(s))
  <2>1. n + 1 \in DOMAIN Servers(s) /\ (n + 1) - 1 = n
    BY <1>4, ServersOfProcess
  <2>2. Stop(s, n + 1) /\ stage[s] = "stopping" /\ outages' = outages /\ faults' \in 0..MaxFaults
    BY <1>2, <1>4 DEF Drained, DepInv, DepTypeOK
  <2> QED
    BY <1>1, <1>3, <2>1, <2>2, StopKeepsDepInv
<1>5. CASE ~(n < Len(Servers(s)))
  <2>1. /\ stage' = [stage EXCEPT ![s] = "closing"]
        /\ UNCHANGED <<opened, calls, taking, forced, outages, faults>>
    BY <1>2, <1>5 DEF Drained
  <2>2. taking[s] = {} /\ NoCalls(s)
    BY <1>1, <1>3, <1>5, ServersOfProcess DEF NoCalls
  <2>3. DepTypeOK' /\ \A p \in Services \ {s} : Local(p)' = Local(p)
    BY <2>1 DEF DepInv, DepTypeOK, Stages, Local
  <2>4. Phase(s)'
    BY <2>1, <2>2 DEF DepInv, DepTypeOK, Phase, ClosesEmpty, NoCalls
  <2> QED
    BY <2>3, <2>4, StepOfOne
<1> QED
  BY <1>4, <1>5

LEMMA ClosingKeepsDepInv ==
  ASSUME DepInv, NEW s \in Services, Close(s) \/ Kill(s)
  PROVE  DepInv'
<1>1. CASE Close(s) /\ opened[s] > 0
  <2>1. /\ opened' = [opened EXCEPT ![s] = @ - 1] /\ opened[s] \in Nat \ {0}
        /\ UNCHANGED <<stage, calls, taking, forced, outages, faults>>
    BY <1>1 DEF Close, DepInv, DepTypeOK
  <2>2. opened[s] - 1 \in Nat /\ opened[s] - 1 <= Len(Connects(s))
    BY <2>1, ConnectsOfProcess DEF DepInv, DepTypeOK
  <2>3. DepTypeOK' /\ \A p \in Services \ {s} : Local(p)' = Local(p)
    BY <2>1, <2>2 DEF DepInv, DepTypeOK, Local
  <2>4. Phase(s)'
    BY <1>1 DEF Close, DepInv, DepTypeOK, Phase, ClosesEmpty, NoCalls
  <2> QED
    BY <2>3, <2>4, StepOfOne
<1>2. CASE Close(s) /\ ~(opened[s] > 0)
  BY <1>2, EndsKeepsDepInv DEF Close, DepInv, DepTypeOK
<1>3. CASE Kill(s)
  BY <1>3, EndsKeepsDepInv, FaultCounts DEF Kill, DepInv, DepTypeOK
<1> QED
  BY <1>1, <1>2, <1>3

\* Calls come to a server that takes them, and go.
LEMMA CallsKeepDepInv ==
  ASSUME DepInv, NEW s \in Services, Call(s) \/ Answer(s)
  PROVE  DepInv'
<1>1. PICK k \in DOMAIN Servers(s), n \in 0..MaxCalls :
        /\ calls' = [calls EXCEPT ![s][k] = n]
        /\ calls[s][k] = 0 => k \in taking[s]
  <2>1. CASE Call(s)
    <3>1. PICK k \in taking[s] : calls[s][k] < MaxCalls /\ calls' = [calls EXCEPT ![s][k] = @ + 1]
      BY <2>1 DEF Call
    <3>2. k \in DOMAIN Servers(s) /\ calls[s][k] \in 0..MaxCalls
      BY DEF DepInv, DepTypeOK
    <3>3. calls[s][k] + 1 \in 0..MaxCalls
      BY <3>1, <3>2, DeploymentAssumption
    <3> QED
      BY <3>1, <3>2, <3>3
  <2>2. CASE Answer(s)
    <3>1. PICK k \in DOMAIN Servers(s) : calls[s][k] > 0 /\ calls' = [calls EXCEPT ![s][k] = @ - 1]
      BY <2>2 DEF Answer
    <3>2. calls[s][k] \in 0..MaxCalls
      BY DEF DepInv, DepTypeOK
    <3>3. calls[s][k] - 1 \in 0..MaxCalls /\ calls[s][k] # 0
      BY <3>1, <3>2, DeploymentAssumption
    <3> QED
      BY <3>1, <3>3
  <2> QED
    BY <2>1, <2>2
<1>2. UNCHANGED <<stage, opened, taking, forced, outages, faults>>
  BY DEF Call, Answer
<1>3. /\ calls'[s] = [calls[s] EXCEPT ![k] = n]
      /\ \A p \in Services \ {s} : calls'[p] = calls[p]
      /\ DOMAIN calls' = Services
  BY <1>1 DEF DepInv, DepTypeOK
<1>4. calls'[s] \in [DOMAIN Servers(s) -> 0..MaxCalls]
  BY <1>1, <1>3 DEF DepInv, DepTypeOK
<1>5. DepTypeOK' /\ \A p \in Services \ {s} : Local(p)' = Local(p)
  BY <1>2, <1>3, <1>4 DEF DepInv, DepTypeOK, Local
<1>6. \A j \in DOMAIN Servers(s) : calls[s][j] = 0 /\ j \notin taking[s] => calls'[s][j] = 0
  BY <1>1, <1>3 DEF DepInv, DepTypeOK
<1>7. stage[s] \in {"down", "connecting"} => FALSE
  BY <1>1 DEF DepInv, Phase, AtRest, NoCalls
<1>8. StopsInOrder(s) => StopsInOrder(s)'
  <2> SUFFICES ASSUME NEW m \in DOMAIN Servers(s), taking[s] = DOMAIN Servers(s) \ 1..m,
                      \A j \in 1..(m - 1) : calls[s][j] = 0
               PROVE  StopsInOrder(s)'
    BY DEF StopsInOrder
  <2>1. \A j \in 1..(m - 1) : j \in DOMAIN Servers(s) /\ j \in 1..m
    BY ServersOfProcess
  <2>2. \A j \in 1..(m - 1) : calls'[s][j] = 0
    BY <1>6, <2>1
  <2> QED
    BY <1>2, <2>2 DEF StopsInOrder
<1>9. ClosesEmpty(s) => ClosesEmpty(s)'
  BY <1>1, <1>2 DEF ClosesEmpty, NoCalls
<1>10. Phase(s)'
  BY <1>2, <1>7, <1>8, <1>9 DEF DepInv, Phase, Connected
<1> QED
  BY <1>5, <1>10, StepOfOne

LEMMA StoresKeepDepInv ==
  ASSUME DepInv, StoreFails \/ StoreReturns
  PROVE  DepInv'
<1>1. DepTypeOK'
  BY FaultCounts DEF DepInv, DepTypeOK, StoreFails, StoreReturns
<1>2. \A s \in Services : Local(s)' = Local(s)
  BY DEF StoreFails, StoreReturns, Local
<1>3. \A s \in Services : Phase(s)'
  BY <1>2, OthersKeepPhase DEF DepInv
<1> QED
  BY <1>1, <1>3 DEF DepInv

LEMMA NextKeepsDepInv == DepInv /\ [DepNext]_depVars => DepInv'
<1> SUFFICES ASSUME DepInv, [DepNext]_depVars PROVE DepInv'
  OBVIOUS
<1>1. CASE UNCHANGED depVars
  <2>1. DepTypeOK' /\ \A s \in Services : Local(s)' = Local(s)
    BY <1>1 DEF depVars, DepInv, DepTypeOK, Local
  <2>2. \A s \in Services : Phase(s)'
    BY <2>1, OthersKeepPhase DEF DepInv
  <2> QED
    BY <2>1, <2>2 DEF DepInv
<1>2. CASE StoreFails \/ StoreReturns
  BY <1>2, StoresKeepDepInv
<1>3. ASSUME NEW s \in Services,
             \/ Start(s) \/ OpenConnection(s) \/ GiveUp(s) \/ Refuse(s) \/ Serve(s)
             \/ Signal(s) \/ ServerFails(s) \/ Drained(s) \/ TimeIsOver(s) \/ Close(s) \/ Kill(s)
             \/ Call(s) \/ Answer(s)
      PROVE  DepInv'
  BY <1>3, ConnectingKeepsDepInv, SignalKeepsDepInv, ForcedKeepsDepInv, DrainedKeepsDepInv,
     ClosingKeepsDepInv, CallsKeepDepInv
<1> QED
  BY <1>1, <1>2, <1>3 DEF DepNext

\* The connections a phase needs are open, at every moment.
LEMMA DepInvHolds == DepSpec => []DepInv
<1>1. DepInit => DepInv
  BY InitDepInv
<1>2. DepInv /\ [DepNext]_depVars => DepInv'
  BY NextKeepsDepInv
<1> QED
  BY <1>1, <1>2, PTL DEF DepSpec

\* Processes, connections, calls and servers are of their types.
THEOREM DeploymentTypes == DepSpec => []DepTypeOK
<1>1. DepInv => DepTypeOK
  BY DEF DepInv
<1> QED
  BY <1>1, DepInvHolds, PTL

\* A call in flight has every connection of its process unless it was not given
\* the time to finish, and a process takes no call without them but where the
\* two servers of auth-service end apart.
THEOREM CallsKeepTheirStoresHolds == DepSpec => []CallsKeepTheirStores
<1>1. DepInv => CallsKeepTheirStores
  BY PhaseIsSafe
<1> QED
  BY <1>1, DepInvHolds, PTL

-----------------------------------------------------------------------------
(***************************************************************************)
(* EmailDelivery: its types, that nothing published is lost, what becomes  *)
(* a dead letter, and how often a message can be mailed.                   *)
(***************************************************************************)

\* The worker has failed with a letter at least as often as its count says.
Counted(l) == l.msg \in Messages => failures[l.msg] >= l.tries

\* Letters on their way can still be retried, dead ones cannot, and only
\* passwords are republished.
Counts ==
  /\ \A l \in Letters : queue[l] > 0 \/ held[l] > 0 \/ retry[l] > 0 => l.tries <= MaxRetries
  /\ \A l \in Letters : dead[l] > 0 => l.tries = MaxRetries + 1
  /\ \A l \in Letters : retry[l] > 0 \/ dead[l] > 0 => l.msg \in Messages
  /\ \A l \in Letters : queue[l] > 0 \/ held[l] > 0 \/ retry[l] > 0 \/ dead[l] > 0 => Counted(l)
  /\ hand # None => hand.tries <= MaxRetries /\ Counted(hand)
  /\ pc \in {"republish", "ack"} => hand.msg \in Messages
  /\ pc = "republish" => failures[hand.msg] > hand.tries
  /\ \A m \in Messages : pub[m] \in {"new", "publishing"} => attempt[m] < MaxAttempts

\* RabbitMQ has a copy.
Somewhere(l) == queue[l] > 0 \/ held[l] > 0 \/ retry[l] > 0 \/ dead[l] > 0

\* A letter that is about to be acknowledged has been mailed or stored anew.
Safe ==
  /\ \A m \in Messages :
       pub[m] = "published" => mailed[m] > 0 \/ \E t \in 0..(MaxRetries + 1) : Somewhere(Letter(m, t))
  /\ pc = "ack" => mailed[hand.msg] > 0 \/ Somewhere(Letter(hand.msg, hand.tries + 1))

IInv == TypeOK /\ Counts /\ Safe

-----------------------------------------------------------------------------
(* Letters.                                                                *)

LEMMA LetterTypes ==
  ASSUME NEW l \in Letters
  PROVE  /\ l.msg \in Messages \cup Foreign /\ l.tries \in 0..(MaxRetries + 1)
         /\ l = Letter(l.msg, l.tries) /\ l # None /\ l.tries \in Int
  BY DeliveryAssumption, NoneAssumption DEF Letters, Letter

LEMMA LettersMade ==
  ASSUME NEW m \in Messages, NEW t \in 0..(MaxRetries + 1)
  PROVE  Letter(m, t) \in Letters /\ Letter(m, t).msg = m /\ Letter(m, t).tries = t
  BY DEF Letters, Letter

LEMMA FirstLetter ==
  ASSUME NEW m \in Messages
  PROVE  Letter(m, 0) \in Letters /\ Letter(m, 0).msg = m /\ Letter(m, 0).tries = 0
  BY LettersMade, DeliveryAssumption

\* The copy that is stored when a delivery has failed.
LEMMA NextLetter ==
  ASSUME TypeOK, Counts, pc \in {"republish", "ack"}
  PROVE  /\ hand \in Letters /\ hand.msg \in Messages /\ hand.tries \in 0..MaxRetries
         /\ Letter(hand.msg, hand.tries + 1) \in Letters
         /\ Letter(hand.msg, hand.tries + 1).msg = hand.msg
         /\ Letter(hand.msg, hand.tries + 1).tries = hand.tries + 1
         /\ Letter(hand.msg, hand.tries + 1) # hand
<1>1. hand \in Letters /\ hand # None
  BY DEF TypeOK
<1>2. hand.tries \in 0..MaxRetries /\ hand.msg \in Messages
  BY <1>1, LetterTypes, DeliveryAssumption DEF Counts
<1>3. hand.tries + 1 \in 0..(MaxRetries + 1)
  BY <1>2, DeliveryAssumption
<1>4. hand.tries + 1 # hand.tries
  BY <1>2
<1> QED
  BY <1>1, <1>2, <1>3, <1>4, LettersMade

LEMMA PutTypes ==
  ASSUME NEW copies \in [Letters -> Nat], NEW l \in Letters
  PROVE  /\ Put(copies, l) \in [Letters -> Nat]
         /\ \A k \in Letters : Put(copies, l)[k] = IF k = l THEN copies[k] + 1 ELSE copies[k]
  BY DEF Put

LEMMA DropTypes ==
  ASSUME NEW copies \in [Letters -> Nat], NEW l \in Letters, copies[l] > 0
  PROVE  /\ Drop(copies, l) \in [Letters -> Nat]
         /\ \A k \in Letters : Drop(copies, l)[k] = IF k = l THEN copies[k] - 1 ELSE copies[k]
  BY DEF Drop

-----------------------------------------------------------------------------

LEMMA InitInvariant == Init => IInv
<1> SUFFICES ASSUME Init PROVE IInv
  OBVIOUS
<1>1. TypeOK
  <2>1. /\ queue \in [Letters -> Nat] /\ held \in [Letters -> Nat]
        /\ retry \in [Letters -> Nat] /\ dead \in [Letters -> Nat]
    BY DEF Init
  <2>2. /\ pub \in [Messages -> {"new", "publishing", "published", "failed"}]
        /\ attempt \in [Messages -> 0..MaxAttempts]
        /\ mailed \in [Messages -> Nat] /\ failures \in [Messages -> Nat]
    BY DEF Init, MaxAttempts
  <2>3. trouble \in 0..MaxTrouble
    BY DeliveryAssumption DEF Init
  <2> QED
    BY <2>1, <2>2, <2>3 DEF Init, TypeOK
<1>2. Counts
  <2>1. \A l \in Letters : queue[l] > 0 => l.msg \notin Messages /\ l.tries = 0
    BY DeliveryAssumption DEF Init
  <2> QED
    BY <2>1, DeliveryAssumption DEF Init, Counts, Counted, MaxAttempts
<1>3. Safe
  BY DEF Init, Safe
<1> QED
  BY <1>1, <1>2, <1>3 DEF IInv

\* What Store does to the stores of letters.
LEMMA StoreTypes ==
  ASSUME TypeOK, Counts, pc = "republish", Store
  PROVE  /\ retry' \in [Letters -> Nat] /\ dead' \in [Letters -> Nat]
         /\ \A l \in Letters : retry[l] > 0 => retry'[l] > 0
         /\ \A l \in Letters : dead[l] > 0 => dead'[l] > 0
         /\ \A l \in Letters : retry'[l] > 0 =>
              retry[l] > 0 \/ (l = Letter(hand.msg, hand.tries + 1) /\ l.tries <= MaxRetries)
         /\ \A l \in Letters : dead'[l] > 0 =>
              dead[l] > 0 \/ (l = Letter(hand.msg, hand.tries + 1) /\ l.tries = MaxRetries + 1)
         /\ \/ retry'[Letter(hand.msg, hand.tries + 1)] > 0
            \/ dead'[Letter(hand.msg, hand.tries + 1)] > 0
<1> DEFINE next == Letter(hand.msg, hand.tries + 1)
<1> SUFFICES
      /\ retry' \in [Letters -> Nat] /\ dead' \in [Letters -> Nat]
      /\ \A l \in Letters : retry[l] > 0 => retry'[l] > 0
      /\ \A l \in Letters : dead[l] > 0 => dead'[l] > 0
      /\ \A l \in Letters : retry'[l] > 0 => retry[l] > 0 \/ (l = next /\ l.tries <= MaxRetries)
      /\ \A l \in Letters : dead'[l] > 0 => dead[l] > 0 \/ (l = next /\ l.tries = MaxRetries + 1)
      /\ retry'[next] > 0 \/ dead'[next] > 0
  OBVIOUS
<1>1. /\ next \in Letters /\ next.tries = hand.tries + 1 /\ hand.tries \in 0..MaxRetries
  BY NextLetter
<1>2. retry \in [Letters -> Nat] /\ dead \in [Letters -> Nat]
  BY DEF TypeOK
<1> HIDE DEF next
<1>3. CASE hand.tries >= MaxRetries
  <2>1. dead' = Put(dead, next) /\ retry' = retry
    BY <1>3 DEF Store, TargetQueue, next
  <2>2. next.tries = MaxRetries + 1
    BY <1>1, <1>3, DeliveryAssumption
  <2>3. /\ dead' \in [Letters -> Nat]
        /\ \A l \in Letters : dead'[l] = IF l = next THEN dead[l] + 1 ELSE dead[l]
    BY <1>1, <1>2, <2>1, PutTypes
  <2>4. /\ \A l \in Letters : dead[l] > 0 => dead'[l] > 0
        /\ \A l \in Letters : dead'[l] > 0 => dead[l] > 0 \/ l = next
        /\ dead'[next] > 0
    BY <1>1, <1>2, <2>3
  <2>5. \A l \in Letters : dead'[l] > 0 => dead[l] > 0 \/ (l = next /\ l.tries = MaxRetries + 1)
    BY <2>2, <2>4
  <2>6. retry' \in [Letters -> Nat] /\ retry' = retry
    BY <1>2, <2>1
  <2> QED
    BY <2>3, <2>4, <2>5, <2>6
<1>4. CASE ~(hand.tries >= MaxRetries)
  <2>1. retry' = Put(retry, next) /\ dead' = dead
    BY <1>4 DEF Store, TargetQueue, next
  <2>2. next.tries <= MaxRetries
    BY <1>1, <1>4, DeliveryAssumption
  <2>3. /\ retry' \in [Letters -> Nat]
        /\ \A l \in Letters : retry'[l] = IF l = next THEN retry[l] + 1 ELSE retry[l]
    BY <1>1, <1>2, <2>1, PutTypes
  <2>4. /\ \A l \in Letters : retry[l] > 0 => retry'[l] > 0
        /\ \A l \in Letters : retry'[l] > 0 => retry[l] > 0 \/ l = next
        /\ retry'[next] > 0
    BY <1>1, <1>2, <2>3
  <2>5. \A l \in Letters : retry'[l] > 0 => retry[l] > 0 \/ (l = next /\ l.tries <= MaxRetries)
    BY <2>2, <2>4
  <2>6. dead' \in [Letters -> Nat] /\ dead' = dead
    BY <1>2, <2>1
  <2> QED
    BY <2>3, <2>4, <2>5, <2>6
<1> QED
  BY <1>3, <1>4

-----------------------------------------------------------------------------
(* The steps.                                                              *)

LEMMA PublishKeeps ==
  ASSUME IInv, NEW m \in Messages, Publish(m)
  PROVE  IInv'
<1> USE DEF IInv, publisher, broker, worker, outcome
<1>1. /\ Letter(m, 0) \in Letters /\ Letter(m, 0).msg = m /\ Letter(m, 0).tries = 0
      /\ MaxRetries \in Nat /\ 0 \in 0..(MaxRetries + 1)
  BY FirstLetter, DeliveryAssumption
<1>2. queue' = queue \/ queue' = Put(queue, Letter(m, 0))
  BY DEF Publish, PublishStarts, PublishConfirmed, PublishUnconfirmed, PublishCancelled
<1>3. UNCHANGED <<held, retry, dead, worker, outcome>>
  BY DEF Publish, PublishStarts, PublishConfirmed, PublishUnconfirmed, PublishCancelled
<1>4. /\ queue' \in [Letters -> Nat]
      /\ \A l \in Letters : queue[l] > 0 => queue'[l] > 0
      /\ \A l \in Letters : queue'[l] > 0 => queue[l] > 0 \/ l = Letter(m, 0)
  <2>1. queue \in [Letters -> Nat]
    BY DEF TypeOK
  <2>2. CASE queue' = queue
    BY <2>1, <2>2
  <2>3. CASE queue' = Put(queue, Letter(m, 0))
    <3>1. /\ queue' \in [Letters -> Nat]
          /\ \A l \in Letters : queue'[l] = IF l = Letter(m, 0) THEN queue[l] + 1 ELSE queue[l]
      BY <1>1, <2>1, <2>3, PutTypes
    <3> QED
      BY <2>1, <3>1
  <2> QED
    BY <1>2, <2>2, <2>3
<1>5. /\ attempt' \in [Messages -> 0..MaxAttempts]
      /\ \A n \in Messages : pub'[n] \in {"new", "publishing"} => attempt'[n] < MaxAttempts
  BY DEF TypeOK, Counts, MaxAttempts, Publish, PublishStarts, PublishConfirmed, PublishUnconfirmed,
    PublishCancelled
<1>6. TypeOK'
  <2>1. /\ pub' \in [Messages -> {"new", "publishing", "published", "failed"}]
        /\ trouble' \in 0..MaxTrouble
    BY DeliveryAssumption DEF TypeOK, Publish, PublishStarts, PublishConfirmed, PublishUnconfirmed,
      PublishCancelled, Troubled
  <2> QED
    BY <1>3, <1>4, <1>5, <2>1 DEF TypeOK
<1>7. Counts'
  <2>1. Counted(Letter(m, 0))
    BY <1>1 DEF Counted, TypeOK
  <2>2. \A l \in Letters : Counted(l) => Counted(l)'
    BY <1>3 DEF Counted
  <2> QED
    BY <1>1, <1>3, <1>4, <1>5, <2>1, <2>2 DEF Counts, Counted
<1>8. Safe'
  <2>1. ASSUME NEW n \in Messages, pub'[n] = "published"
        PROVE  mailed'[n] > 0 \/ \E t \in 0..(MaxRetries + 1) : Somewhere(Letter(n, t))'
    <3>1. CASE pub[n] = "published"
      BY <1>3, <1>4, <3>1, LettersMade DEF Safe, Somewhere
    <3>2. CASE pub[n] # "published"
      <4>1. PublishConfirmed(m) /\ n = m
        BY <2>1, <3>2 DEF Publish, PublishStarts, PublishConfirmed, PublishUnconfirmed, PublishCancelled,
          TypeOK
      <4>2. queue' = Put(queue, Letter(m, 0))
        BY <4>1 DEF PublishConfirmed
      <4>3. queue'[Letter(m, 0)] > 0
        BY <1>1, <4>2, PutTypes DEF TypeOK
      <4> QED
        BY <1>1, <4>1, <4>3 DEF Somewhere
    <3> QED
      BY <3>1, <3>2
  <2>2. pc' = "ack" => mailed'[hand'.msg] > 0 \/ Somewhere(Letter(hand.msg, hand.tries + 1))'
    BY <1>3, <1>4, NextLetter DEF Safe, Somewhere
  <2> QED
    BY <2>1, <2>2 DEF Safe
<1> QED
  BY <1>6, <1>7, <1>8

\* Steps that neither lose a copy nor change what has been mailed or was said.
LEMMA CopiesKept ==
  ASSUME IInv, UNCHANGED <<publisher, mailed, failures>>,
         \A l \in Letters : Somewhere(l) => Somewhere(l)',
         pc' # "ack" \/ (pc = "ack" /\ hand' = hand)
  PROVE  Safe'
<1>1. ASSUME NEW n \in Messages, pub'[n] = "published"
      PROVE  mailed'[n] > 0 \/ \E t \in 0..(MaxRetries + 1) : Somewhere(Letter(n, t))'
  BY <1>1, LettersMade DEF IInv, Safe, publisher
<1>2. pc' = "ack" => mailed'[hand'.msg] > 0 \/ Somewhere(Letter(hand.msg, hand.tries + 1))'
  BY NextLetter DEF IInv, Safe
<1> QED
  BY <1>1, <1>2 DEF Safe

LEMMA BrokerKeeps ==
  ASSUME IInv, Broker \/ Connect \/ Disconnect \/ Crash
  PROVE  IInv'
<1> USE DEF IInv, publisher, broker, worker, outcome
<1>1. /\ queue \in [Letters -> Nat] /\ held \in [Letters -> Nat] /\ retry \in [Letters -> Nat]
      /\ dead \in [Letters -> Nat]
  BY DEF TypeOK
<1>2. ASSUME NEW l \in Letters, Deliver(l)
      PROVE  IInv'
  <2>1. queue[l] > 0 /\ queue' = Drop(queue, l) /\ held' = Put(held, l)
        /\ UNCHANGED <<publisher, retry, dead, worker, outcome, trouble>>
    BY <1>2 DEF Deliver
  <2>2. /\ queue' \in [Letters -> Nat] /\ held' \in [Letters -> Nat]
        /\ \A k \in Letters : queue'[k] = IF k = l THEN queue[k] - 1 ELSE queue[k]
        /\ \A k \in Letters : held'[k] = IF k = l THEN held[k] + 1 ELSE held[k]
    BY <1>1, <2>1, PutTypes, DropTypes
  <2>3. /\ \A k \in Letters : held[k] > 0 => held'[k] > 0
        /\ \A k \in Letters : queue'[k] > 0 => queue[k] > 0
        /\ \A k \in Letters : held'[k] > 0 => queue[k] > 0 \/ held[k] > 0
        /\ \A k \in Letters : queue[k] > 0 => queue'[k] > 0 \/ held'[k] > 0
    BY <1>1, <2>1, <2>2
  <2>4. TypeOK'
    BY <2>1, <2>2, <2>3 DEF TypeOK
  <2>5. Counts'
    BY <2>1, <2>3 DEF Counts, Counted
  <2>6. Safe'
    BY <2>1, <2>3, CopiesKept DEF Somewhere
  <2> QED
    BY <2>4, <2>5, <2>6
<1>3. ASSUME NEW l \in Letters, RetryExpires(l)
      PROVE  IInv'
  <2>1. retry[l] > 0 /\ retry' = Drop(retry, l) /\ queue' = Put(queue, l)
        /\ UNCHANGED <<publisher, held, dead, worker, outcome, trouble>>
    BY <1>3 DEF RetryExpires
  <2>2. /\ queue' \in [Letters -> Nat] /\ retry' \in [Letters -> Nat]
        /\ \A k \in Letters : retry'[k] = IF k = l THEN retry[k] - 1 ELSE retry[k]
        /\ \A k \in Letters : queue'[k] = IF k = l THEN queue[k] + 1 ELSE queue[k]
    BY <1>1, <2>1, PutTypes, DropTypes
  <2>3. /\ \A k \in Letters : retry'[k] > 0 => retry[k] > 0
        /\ \A k \in Letters : queue'[k] > 0 => queue[k] > 0 \/ retry[k] > 0
        /\ \A k \in Letters : retry[k] > 0 => queue'[k] > 0 \/ retry'[k] > 0
        /\ \A k \in Letters : queue[k] > 0 => queue'[k] > 0
    BY <1>1, <2>1, <2>2
  <2>4. TypeOK'
    BY <2>1, <2>2, <2>3 DEF TypeOK
  <2>5. Counts'
    BY <2>1, <2>3 DEF Counts, Counted
  <2>6. Safe'
    BY <2>1, <2>3, CopiesKept DEF Somewhere
  <2> QED
    BY <2>4, <2>5, <2>6
<1>4. CASE Connect
  <2>1. TypeOK'
    BY <1>4 DEF TypeOK, Connect
  <2>2. Counts'
    BY <1>4 DEF Counts, Counted, Connect
  <2>3. Safe'
    BY <1>4, CopiesKept DEF Connect, Somewhere
  <2> QED
    BY <2>1, <2>2, <2>3
<1>5. CASE Disconnect \/ Crash
  <2>1. /\ connected' = FALSE /\ Requeue /\ Troubled
        /\ UNCHANGED <<publisher, outcome>>
        /\ (hand' = hand /\ pc' = pc) \/ (hand' = None /\ pc' = "idle")
    <3>1. CASE Disconnect
      BY <3>1 DEF Disconnect
    <3>2. CASE Crash
      BY <3>2 DEF Crash
    <3> QED
      BY <1>5, <3>1, <3>2
  <2>2. /\ queue' \in [Letters -> Nat] /\ held' \in [Letters -> Nat]
        /\ \A k \in Letters : queue'[k] = queue[k] + held[k] /\ held'[k] = 0
        /\ retry' = retry /\ dead' = dead
    BY <1>1, <2>1 DEF Requeue
  <2>3. /\ \A k \in Letters : queue'[k] > 0 => queue[k] > 0 \/ held[k] > 0
        /\ \A k \in Letters : ~(held'[k] > 0)
        /\ \A k \in Letters : queue[k] > 0 \/ held[k] > 0 => queue'[k] > 0
    BY <1>1, <2>2
  <2>4. TypeOK'
    <3>1. trouble' \in 0..MaxTrouble
      BY <2>1, DeliveryAssumption DEF TypeOK, Troubled
    <3> QED
      BY <2>1, <2>2, <3>1 DEF TypeOK
  <2>5. Counts'
    BY <2>1, <2>2, <2>3 DEF Counts, Counted
  <2>6. Safe'
    BY <2>1, <2>2, <2>3, CopiesKept DEF Somewhere
  <2> QED
    BY <2>4, <2>5, <2>6
<1> QED
  BY <1>2, <1>3, <1>4, <1>5 DEF Broker

\* Steps of the worker that leave what RabbitMQ has alone.
LEMMA WorkerKeeps ==
  ASSUME IInv, \/ \E l \in Letters : Take(l)
               \/ Send \/ SendFails \/ SendFailsLate \/ RepublishDisconnected
  PROVE  IInv'
<1> USE DEF IInv, publisher, broker, worker, outcome, Goto, Finish
<1>1. UNCHANGED <<publisher, broker, connected>>
  BY DEF Take, Send, SendFails, SendFailsLate, RepublishDisconnected
<1>2. ASSUME NEW l \in Letters, Take(l)
      PROVE  IInv'
  <2>1. l # None
    BY LetterTypes
  <2>2. held[l] > 0 /\ hand' = l /\ pc' = "send" /\ UNCHANGED <<outcome, trouble>>
    BY <1>2 DEF Take
  <2>3. TypeOK'
    BY <1>1, <2>1, <2>2 DEF TypeOK
  <2>4. Counts'
    BY <1>1, <2>1, <2>2 DEF Counts, Counted
  <2>5. Safe'
    BY <1>1, <2>2, CopiesKept DEF Somewhere
  <2> QED
    BY <2>3, <2>4, <2>5
<1>3. CASE RepublishDisconnected
  <2>1. hand' = None /\ pc' = "idle" /\ UNCHANGED <<outcome, trouble>>
    BY <1>3 DEF RepublishDisconnected
  <2>2. TypeOK'
    BY <1>1, <2>1 DEF TypeOK
  <2>3. Counts'
    BY <1>1, <2>1 DEF Counts, Counted
  <2>4. Safe'
    BY <1>1, <2>1, CopiesKept DEF Somewhere
  <2> QED
    BY <2>2, <2>3, <2>4
<1>4. CASE Send \/ SendFails \/ SendFailsLate
  <2>1. /\ hand' = hand /\ hand \in Letters /\ hand.msg \in Messages
        /\ pc = "send" /\ trouble' \in 0..MaxTrouble
        /\ hand # None /\ hand.tries \in Int
    <3>1. /\ hand' = hand /\ hand.msg \in Messages /\ pc = "send"
          /\ Troubled \/ trouble' = trouble
      BY <1>4 DEF Send, SendFails, SendFailsLate
    <3>2. hand \in Letters /\ hand # None
      BY <3>1 DEF TypeOK
    <3>3. trouble' \in 0..MaxTrouble
      BY <3>1, DeliveryAssumption DEF TypeOK, Troubled
    <3> QED
      BY <3>1, <3>2, <3>3, LetterTypes
  <2>2. /\ \/ pc' = "ack" /\ mailed' = [mailed EXCEPT ![hand.msg] = @ + 1] /\ failures' = failures
        \/ /\ pc' = "republish" /\ failures' = [failures EXCEPT ![hand.msg] = @ + 1]
           /\ mailed' \in {mailed, [mailed EXCEPT ![hand.msg] = @ + 1]}
    <3>1. CASE Send
      BY <3>1 DEF Send
    <3>2. CASE SendFails
      BY <3>2 DEF SendFails
    <3>3. CASE SendFailsLate
      BY <3>3 DEF SendFailsLate
    <3> QED
      BY <1>4, <3>1, <3>2, <3>3
  <2>3. /\ mailed' \in [Messages -> Nat] /\ failures' \in [Messages -> Nat]
        /\ \A m \in Messages : mailed[m] > 0 => mailed'[m] > 0
        /\ \A m \in Messages : failures'[m] >= failures[m]
        /\ pc' = "ack" => mailed'[hand.msg] > 0
        /\ pc' = "republish" => failures'[hand.msg] >= failures[hand.msg] + 1
    BY <2>1, <2>2 DEF TypeOK
  <2>4. TypeOK'
    BY <1>1, <2>1, <2>2, <2>3 DEF TypeOK
  <2>5. Counts'
    <3>1. \A l \in Letters : Counted(l) => Counted(l)'
      BY <2>3, LetterTypes DEF Counted, TypeOK
    <3>2. pc' = "republish" => failures'[hand.msg] > hand.tries
      BY <2>1, <2>3 DEF Counts, Counted, TypeOK
    <3> QED
      BY <1>1, <2>1, <2>2, <3>1, <3>2 DEF Counts, Counted
  <2>6. Safe'
    <3>1. \A l : Somewhere(l)' <=> Somewhere(l)
      BY <1>1 DEF Somewhere
    <3>2. ASSUME NEW n \in Messages, pub'[n] = "published"
          PROVE  mailed'[n] > 0 \/ \E t \in 0..(MaxRetries + 1) : Somewhere(Letter(n, t))'
      BY <1>1, <2>3, <3>1, <3>2 DEF Safe
    <3>3. pc' = "ack" => mailed'[hand'.msg] > 0
      BY <2>1, <2>3
    <3> QED
      BY <3>2, <3>3 DEF Safe
  <2> QED
    BY <2>4, <2>5, <2>6
<1> QED
  BY <1>2, <1>3, <1>4

\* The copy is stored: both copies are there, until one is acknowledged.
LEMMA RepublishKeeps ==
  ASSUME IInv, RepublishConfirmed \/ RepublishFails
  PROVE  IInv'
<1> USE DEF IInv, publisher, broker, worker, outcome, Goto, Finish
<1> DEFINE next == Letter(hand.msg, hand.tries + 1)
<1>1. /\ pc = "republish" /\ connected
      /\ Store \/ UNCHANGED <<dead, retry>>
      /\ UNCHANGED <<publisher, outcome, connected>>
  BY DEF RepublishConfirmed, RepublishFails
<1>2. /\ hand \in Letters /\ hand # None /\ hand.msg \in Messages /\ hand.tries \in 0..MaxRetries
      /\ next \in Letters /\ next.msg = hand.msg /\ next.tries = hand.tries + 1
  BY <1>1, NextLetter DEF TypeOK
<1>3. /\ retry' \in [Letters -> Nat] /\ dead' \in [Letters -> Nat]
      /\ \A l \in Letters : (retry[l] > 0 => retry'[l] > 0) /\ (dead[l] > 0 => dead'[l] > 0)
      /\ \A l \in Letters : retry'[l] > 0 => retry[l] > 0 \/ (l = next /\ l.tries <= MaxRetries)
      /\ \A l \in Letters : dead'[l] > 0 => dead[l] > 0 \/ (l = next /\ l.tries = MaxRetries + 1)
  <2>1. CASE Store
    BY <1>1, <2>1, StoreTypes
  <2>2. CASE UNCHANGED <<dead, retry>>
    BY <2>2 DEF TypeOK
  <2> QED
    BY <1>1, <2>1, <2>2
<1>4. Counted(next)
  BY <1>1, <1>2 DEF Counts, Counted, TypeOK
<1> HIDE DEF next
<1>5. CASE RepublishConfirmed
  <2>1. /\ pc' = "ack" /\ hand' = hand /\ UNCHANGED <<queue, held, trouble>>
    BY <1>5 DEF RepublishConfirmed
  <2>2. retry'[next] > 0 \/ dead'[next] > 0
    BY <1>5, StoreTypes DEF RepublishConfirmed, next
  <2>3. TypeOK'
    BY <1>1, <1>2, <1>3, <2>1 DEF TypeOK
  <2>4. Counts'
    BY <1>1, <1>2, <1>3, <1>4, <2>1 DEF Counts, Counted
  <2>5. \A l \in Letters : Somewhere(l) => Somewhere(l)'
    BY <1>3, <2>1 DEF Somewhere
  <2>6. Safe'
    <3>1. ASSUME NEW n \in Messages, pub'[n] = "published"
          PROVE  mailed'[n] > 0 \/ \E t \in 0..(MaxRetries + 1) : Somewhere(Letter(n, t))'
      BY <1>1, <2>5, <3>1, LettersMade DEF Safe
    <3>2. Somewhere(Letter(hand.msg, hand.tries + 1))'
      BY <2>1, <2>2 DEF Somewhere, next
    <3> QED
      BY <2>1, <3>1, <3>2 DEF Safe
  <2> QED
    BY <2>3, <2>4, <2>6
<1>6. CASE RepublishFails
  <2>1. /\ pc' = "idle" /\ hand' = None /\ Troubled
        /\ held' = Drop(held, hand) /\ queue' = Put(queue, hand)
    BY <1>6 DEF RepublishFails
  <2>2. held[hand] > 0 /\ held \in [Letters -> Nat] /\ queue \in [Letters -> Nat]
    BY <1>1, <1>2 DEF TypeOK
  <2>3. /\ held' \in [Letters -> Nat] /\ queue' \in [Letters -> Nat]
        /\ \A k \in Letters : held'[k] = IF k = hand THEN held[k] - 1 ELSE held[k]
        /\ \A k \in Letters : queue'[k] = IF k = hand THEN queue[k] + 1 ELSE queue[k]
    BY <1>2, <2>1, <2>2, PutTypes, DropTypes
  <2>4. /\ \A k \in Letters : held'[k] > 0 => held[k] > 0
        /\ \A k \in Letters : queue'[k] > 0 => queue[k] > 0 \/ held[k] > 0
        /\ \A k \in Letters : queue[k] > 0 \/ held[k] > 0 => queue'[k] > 0 \/ held'[k] > 0
    BY <1>2, <2>2, <2>3
  <2>5. TypeOK'
    <3>1. trouble' \in 0..MaxTrouble
      BY <2>1, DeliveryAssumption DEF TypeOK, Troubled
    <3> QED
      BY <1>1, <1>3, <2>1, <2>3, <3>1 DEF TypeOK
  <2>6. Counts'
    BY <1>1, <1>2, <1>3, <1>4, <2>1, <2>4 DEF Counts, Counted
  <2>7. Safe'
    BY <1>1, <1>3, <2>1, <2>4, CopiesKept DEF Somewhere
  <2> QED
    BY <2>5, <2>6, <2>7
<1> QED
  BY <1>5, <1>6

\* A delivery goes for good: a foreign body, or a letter mailed or stored anew.
LEMMA SettleKeeps ==
  ASSUME IInv, Discard \/ Acknowledge
  PROVE  IInv'
<1> USE DEF IInv, publisher, broker, worker, outcome, Finish
<1>1. /\ UNCHANGED <<publisher, queue, retry, dead, outcome, trouble, connected>>
      /\ hand' = None /\ pc' = "idle" /\ held' = IF connected THEN Drop(held, hand) ELSE held
      /\ pc # "idle"
  BY DEF Discard, Acknowledge, Settle
<1>2. /\ hand \in Letters /\ hand # None /\ held \in [Letters -> Nat]
      /\ connected => held[hand] > 0
  BY <1>1 DEF TypeOK
<1>3. /\ held' \in [Letters -> Nat]
      /\ \A k \in Letters : held'[k] > 0 => held[k] > 0
      /\ \A k \in Letters : k # hand => held'[k] = held[k]
  <2>1. CASE connected
    <3>1. /\ held' \in [Letters -> Nat]
          /\ \A k \in Letters : held'[k] = IF k = hand THEN held[k] - 1 ELSE held[k]
      BY <1>1, <1>2, <2>1, DropTypes
    <3> QED
      BY <1>2, <3>1
  <2>2. CASE ~connected
    BY <1>1, <1>2, <2>2
  <2> QED
    BY <2>1, <2>2
<1>4. TypeOK'
  BY <1>1, <1>3 DEF TypeOK
<1>5. Counts'
  BY <1>1, <1>3 DEF Counts, Counted
<1>6. \A l \in Letters : Somewhere(l) /\ l # hand => Somewhere(l)'
  BY <1>1, <1>3 DEF Somewhere
<1>7. ASSUME NEW n \in Messages, pub'[n] = "published", ~(mailed[n] > 0)
      PROVE  \E t \in 0..(MaxRetries + 1) : Somewhere(Letter(n, t))'
  <2>1. PICK t \in 0..(MaxRetries + 1) : Somewhere(Letter(n, t))
    BY <1>1, <1>7 DEF Safe
  <2>2. Letter(n, t) \in Letters /\ Letter(n, t).msg = n
    BY LettersMade
  <2>3. CASE Letter(n, t) # hand
    BY <1>6, <2>1, <2>2, <2>3
  <2>4. CASE Letter(n, t) = hand
    <3>1. hand.msg = n /\ pc = "ack"
      BY <2>2, <2>4, DeliveryAssumption DEF Discard, Acknowledge
    <3>2. /\ Somewhere(Letter(n, hand.tries + 1)) /\ Letter(n, hand.tries + 1) \in Letters
          /\ Letter(n, hand.tries + 1) # hand /\ hand.tries + 1 \in 0..(MaxRetries + 1)
      BY <1>7, <3>1, NextLetter, DeliveryAssumption DEF Safe
    <3> QED
      BY <1>6, <3>2
  <2> QED
    BY <2>3, <2>4
<1>8. Safe'
  BY <1>1, <1>7 DEF Safe
<1> QED
  BY <1>4, <1>5, <1>8

LEMMA StutterKeeps ==
  ASSUME IInv, UNCHANGED vars
  PROVE  IInv'
BY DEF IInv, vars, publisher, broker, worker, outcome, TypeOK, Counts, Counted, Safe, Somewhere

LEMMA InvariantHolds == Spec => []IInv
<1>1. IInv /\ [Next]_vars => IInv'
  BY PublishKeeps, BrokerKeeps, WorkerKeeps, RepublishKeeps, SettleKeeps, StutterKeeps DEF Next, Handle
<1> QED
  BY <1>1, InitInvariant, PTL DEF Spec

-----------------------------------------------------------------------------
(* How often a message can be mailed: each copy that RabbitMQ would hand   *)
(* out, each attempt to publish and each delivery on a dead connection may *)
(* still become a mail, and only trouble adds one.                         *)

Standing(l) == queue[l] + held[l] + retry[l]

LettersOf(m) == {l \in Letters : l.msg = m}

Copies(m) == SumFunctionOnSet([l \in Letters |-> Standing(l)], LettersOf(m))

ToCome(m) == IF pub[m] \in {"new", "publishing"} THEN 1 ELSE 0

\* A delivery about to be acknowledged will not be mailed again, unless the
\* connection is gone: then RabbitMQ has put it back.
Underway(m) ==
  IF hand # None /\ hand.msg = m
  THEN IF connected
       THEN IF pc = "ack" THEN -1 ELSE 0
       ELSE IF pc = "send" THEN 1 ELSE 0
  ELSE 0

Budget(m) == mailed[m] + ToCome(m) + Copies(m) + Underway(m) <= 1 + trouble

LEMMA LettersAreFinite ==
  /\ IsFiniteSet(Letters)
  /\ \A m : IsFiniteSet(LettersOf(m)) /\ LettersOf(m) \subseteq Letters
<1>1. IsFiniteSet(Messages \cup Foreign) /\ IsFiniteSet(0..(MaxRetries + 1))
  <2>1. 0 \in Int /\ MaxRetries + 1 \in Int
    BY DeliveryAssumption
  <2> QED
    BY <2>1, DeliveryAssumption, FS_Union, FS_Interval
<1>2. IsFiniteSet((Messages \cup Foreign) \X (0..(MaxRetries + 1)))
  BY <1>1, FS_Product
<1> DEFINE P == (Messages \cup Foreign) \X (0..(MaxRetries + 1))
           f == [p \in P |-> Letter(p[1], p[2])]
<1>3. f \in Surjection(P, Letters)
  <2>1. \A p \in P : f[p] \in Letters
    BY DEF Letters, Letter
  <2>2. ASSUME NEW l \in Letters
        PROVE  \E p \in P : f[p] = l
    <3>1. <<l.msg, l.tries>> \in P /\ f[<<l.msg, l.tries>>] = l
      BY LetterTypes
    <3> QED
      BY <3>1
  <2> HIDE DEF P
  <2>3. f \in [P -> Letters]
    BY <2>1
  <2> QED
    BY <2>2, <2>3 DEF Surjection
<1>4. IsFiniteSet(Letters)
  BY <1>2, <1>3, FS_Surjection
<1>5. \A m : LettersOf(m) \subseteq Letters
  BY DEF LettersOf
<1> QED
  BY <1>4, <1>5, FS_Subset

\* A step that changes the copies of at most one letter.
LEMMA CopiesChange ==
  ASSUME TypeOK, TypeOK', NEW k \in Letters,
         \A l \in Letters : l # k => Standing(l)' = Standing(l)
  PROVE  \A m : /\ Copies(m) \in Int
                /\ Copies(m)' = Copies(m) + (IF k.msg = m THEN Standing(k)' - Standing(k) ELSE 0)
<1> DEFINE f == [l \in Letters |-> Standing(l)]
           g == [l \in Letters |-> Standing(l)']
<1>1. \A l \in Letters : f[l] \in Int /\ g[l] \in Int /\ f[l] = Standing(l) /\ g[l] = Standing(l)'
  BY DEF TypeOK, Standing
<1>2. \A l \in Letters : l # k => g[l] = f[l]
  BY <1>1
<1> SUFFICES ASSUME NEW m
             PROVE  /\ Copies(m) \in Int
                    /\ Copies(m)' = Copies(m) + (IF k.msg = m THEN Standing(k)' - Standing(k) ELSE 0)
  OBVIOUS
<1>3. Copies(m) = SumFunctionOnSet(f, LettersOf(m))
  BY DEF Copies
<1>4. \A n : n = m => Copies(n)' = SumFunctionOnSet(g, LettersOf(n))
  BY DEF Copies, LettersOf
<1>5. IsFiniteSet(LettersOf(m)) /\ \A l \in LettersOf(m) : l \in Letters
  BY LettersAreFinite
<1> HIDE DEF f, g
<1>6. SumFunctionOnSet(f, LettersOf(m)) \in Int
  BY <1>1, <1>5, SumGrows
<1>7. CASE k.msg = m
  <2>1. k \in LettersOf(m)
    BY <1>7 DEF LettersOf
  <2>2. SumFunctionOnSet(g, LettersOf(m)) = SumFunctionOnSet(f, LettersOf(m)) + g[k] - f[k]
    BY <1>1, <1>2, <1>5, <2>1, SumChanges
  <2> QED
    BY <1>1, <1>3, <1>4, <1>6, <1>7, <2>2
<1>8. CASE k.msg # m
  <2>1. k \notin LettersOf(m)
    BY <1>8 DEF LettersOf
  <2>2. SumFunctionOnSet(g, LettersOf(m)) = SumFunctionOnSet(f, LettersOf(m))
    BY <1>1, <1>2, <1>5, <2>1, SumEqual
  <2> QED
    BY <1>1, <1>3, <1>4, <1>6, <1>8, <2>2
<1> QED
  BY <1>7, <1>8

\* A step that only moves copies.
LEMMA CopiesMove ==
  ASSUME TypeOK, TypeOK', \A l \in Letters : Standing(l)' = Standing(l)
  PROVE  \A m \in Messages : Copies(m) \in Int /\ Copies(m)' = Copies(m)
<1> SUFFICES ASSUME NEW m \in Messages
             PROVE  Copies(m) \in Int /\ Copies(m)' = Copies(m)
  OBVIOUS
<1>1. Letter(m, 0) \in Letters /\ Letter(m, 0).msg = m
  BY FirstLetter
<1>2. /\ Copies(m) \in Int
      /\ Copies(m)' = Copies(m) + (Standing(Letter(m, 0))' - Standing(Letter(m, 0)))
  BY <1>1, CopiesChange
<1>3. Standing(Letter(m, 0))' = Standing(Letter(m, 0)) /\ Standing(Letter(m, 0)) \in Int
  BY <1>1 DEF TypeOK, Standing
<1> QED
  BY <1>2, <1>3

LEMMA InitBudget ==
  ASSUME Init, NEW m \in Messages
  PROVE  Budget(m)
<1>1. \A l \in LettersOf(m) : l \in Letters /\ l.msg \notin Foreign /\ Standing(l) = 0
  BY DeliveryAssumption DEF LettersOf, Init, Standing
<1> DEFINE f == [l \in Letters |-> Standing(l)]
<1>2. \A l \in LettersOf(m) : f[l] = 0
  BY <1>1
<1>3. Copies(m) = SumFunctionOnSet(f, LettersOf(m))
  BY DEF Copies
<1> HIDE DEF f
<1>4. IsFiniteSet(LettersOf(m))
  BY LettersAreFinite
<1>5. SumFunctionOnSet(f, LettersOf(m)) = 0 * Cardinality(LettersOf(m)) /\ Cardinality(LettersOf(m)) \in Nat
  BY <1>2, <1>4, SumConstant, FS_CardinalityType
<1>6. Copies(m) = 0
  BY <1>3, <1>5
<1> QED
  BY <1>6 DEF Init, Budget, ToCome, Underway

LEMMA PublishKeepsBudget ==
  ASSUME IInv, IInv', NEW k \in Messages, Publish(k), NEW m \in Messages, Budget(m)
  PROVE  Budget(m)'
<1> USE DEF broker, worker, outcome
<1>1. /\ Letter(k, 0) \in Letters /\ Letter(k, 0).msg = k
  BY FirstLetter
<1>2. UNCHANGED <<held, retry, worker, outcome>>
  BY DEF Publish, PublishStarts, PublishConfirmed, PublishUnconfirmed, PublishCancelled
<1>3. queue' = queue \/ queue' = Put(queue, Letter(k, 0))
  BY DEF Publish, PublishStarts, PublishConfirmed, PublishUnconfirmed, PublishCancelled
<1>4. queue \in [Letters -> Nat] /\ held \in [Letters -> Nat] /\ retry \in [Letters -> Nat]
  BY DEF IInv, TypeOK
<1>5. /\ \A l \in Letters : l # Letter(k, 0) => Standing(l)' = Standing(l)
      /\ queue' = queue => Standing(Letter(k, 0))' = Standing(Letter(k, 0))
      /\ Standing(Letter(k, 0))' \in {Standing(Letter(k, 0)), Standing(Letter(k, 0)) + 1}
      /\ Standing(Letter(k, 0)) \in Int
  <2>1. /\ \A l \in Letters : l # Letter(k, 0) => queue'[l] = queue[l]
        /\ queue'[Letter(k, 0)] \in {queue[Letter(k, 0)], queue[Letter(k, 0)] + 1}
    BY <1>1, <1>3, <1>4, PutTypes
  <2>2. held' = held /\ retry' = retry
    BY <1>2
  <2> QED
    BY <1>1, <1>4, <2>1, <2>2 DEF Standing
<1>6. /\ Copies(m) \in Int
      /\ Copies(m)' = Copies(m)
           + (IF k = m THEN Standing(Letter(k, 0))' - Standing(Letter(k, 0)) ELSE 0)
  BY <1>1, <1>5, CopiesChange DEF IInv
<1>7. /\ Copies(m)' \in {Copies(m), Copies(m) + 1}
      /\ queue' = queue \/ k # m => Copies(m)' = Copies(m)
  BY <1>5, <1>6
<1>8. Underway(m)' = Underway(m) /\ Underway(m) \in Int
  BY <1>2 DEF Underway
<1>9. mailed'[m] = mailed[m] /\ mailed[m] \in Int /\ trouble \in Int
  BY <1>2, DeliveryAssumption DEF IInv, TypeOK
<1>10. /\ ToCome(m) \in 0..1 /\ ToCome(m)' \in 0..1
       /\ k # m => ToCome(m)' = ToCome(m)
  BY DEF ToCome, IInv, TypeOK, Publish, PublishStarts, PublishConfirmed, PublishUnconfirmed,
    PublishCancelled
<1>11. CASE PublishStarts(k) \/ PublishCancelled(k)
  <2>1. queue' = queue /\ trouble' = trouble
    BY <1>11 DEF PublishStarts, PublishCancelled
  <2>2. k = m => ToCome(m) = 1
    BY <1>11 DEF ToCome, PublishStarts, PublishCancelled
  <2>3. ToCome(m)' <= ToCome(m)
    BY <1>10, <2>2
  <2> QED
    BY <1>6, <1>7, <1>8, <1>9, <1>10, <2>1, <2>3 DEF Budget
<1>12. CASE PublishConfirmed(k)
  <2>1. trouble' = trouble
    BY <1>12 DEF PublishConfirmed
  <2>2. k = m => ToCome(m) = 1 /\ ToCome(m)' = 0
    BY <1>12 DEF ToCome, PublishConfirmed, IInv, TypeOK
  <2>3. Copies(m)' + ToCome(m)' <= Copies(m) + ToCome(m)
    BY <1>6, <1>7, <1>10, <2>2
  <2> QED
    BY <1>6, <1>7, <1>8, <1>9, <1>10, <2>1, <2>3 DEF Budget
<1>13. CASE PublishUnconfirmed(k)
  <2>1. trouble' = trouble + 1
    BY <1>13 DEF PublishUnconfirmed, Troubled
  <2>2. k = m => ToCome(m) = 1
    BY <1>13 DEF ToCome, PublishUnconfirmed
  <2>3. ToCome(m)' <= ToCome(m)
    BY <1>10, <2>2
  <2>4. Copies(m)' <= Copies(m) + 1
    BY <1>6, <1>7
  <2> QED
    BY <1>6, <1>7, <1>8, <1>9, <1>10, <2>1, <2>3, <2>4 DEF Budget
<1> QED
  BY <1>11, <1>12, <1>13 DEF Publish

LEMMA BrokerKeepsBudget ==
  ASSUME IInv, IInv', Broker \/ Connect \/ Disconnect \/ Crash, NEW m \in Messages, Budget(m)
  PROVE  Budget(m)'
<1> USE DEF publisher, broker, worker, outcome
<1>1. /\ queue \in [Letters -> Nat] /\ held \in [Letters -> Nat] /\ retry \in [Letters -> Nat]
      /\ TypeOK /\ TypeOK'
  BY DEF IInv, TypeOK
<1>2. UNCHANGED <<pub, mailed>>
  BY DEF Broker, Deliver, RetryExpires, Connect, Disconnect, Crash
<1>3. \A l \in Letters : Standing(l)' = Standing(l)
  <2>1. ASSUME NEW k \in Letters, Deliver(k)
        PROVE  \A l \in Letters : Standing(l)' = Standing(l)
    <3>1. queue[k] > 0 /\ queue' = Drop(queue, k) /\ held' = Put(held, k) /\ retry' = retry
      BY <2>1 DEF Deliver
    <3>2. \A l \in Letters : /\ queue'[l] = IF l = k THEN queue[l] - 1 ELSE queue[l]
                           /\ held'[l] = IF l = k THEN held[l] + 1 ELSE held[l]
      BY <1>1, <3>1, PutTypes, DropTypes
    <3> QED
      BY <1>1, <3>1, <3>2 DEF Standing
  <2>2. ASSUME NEW k \in Letters, RetryExpires(k)
        PROVE  \A l \in Letters : Standing(l)' = Standing(l)
    <3>1. retry[k] > 0 /\ retry' = Drop(retry, k) /\ queue' = Put(queue, k) /\ held' = held
      BY <2>2 DEF RetryExpires
    <3>2. \A l \in Letters : /\ retry'[l] = IF l = k THEN retry[l] - 1 ELSE retry[l]
                           /\ queue'[l] = IF l = k THEN queue[l] + 1 ELSE queue[l]
      BY <1>1, <3>1, PutTypes, DropTypes
    <3> QED
      BY <1>1, <3>1, <3>2 DEF Standing
  <2>3. CASE Connect
    BY <2>3 DEF Connect, Standing
  <2>4. CASE Disconnect \/ Crash
    <3>1. Requeue
      BY <2>4 DEF Disconnect, Crash
    <3> QED
      BY <1>1, <3>1 DEF Requeue, Standing
  <2> QED
    BY <2>1, <2>2, <2>3, <2>4 DEF Broker
<1>4. Copies(m)' = Copies(m) /\ Copies(m) \in Int
  BY <1>1, <1>3, CopiesMove
<1>5. mailed'[m] = mailed[m] /\ mailed[m] \in Int /\ trouble \in Int
  BY <1>2, DeliveryAssumption DEF IInv, TypeOK
<1>6. ToCome(m)' = ToCome(m) /\ ToCome(m) \in Int
  BY <1>2 DEF ToCome
<1>7. Underway(m) \in Int /\ Underway(m)' \in Int
  BY DEF Underway
<1>8. Underway(m)' + trouble <= Underway(m) + trouble'
  <2>1. CASE Broker \/ Connect
    <3>1. trouble' = trouble /\ Underway(m)' = Underway(m)
      BY <1>1, <2>1 DEF Broker, Deliver, RetryExpires, Connect, Underway, TypeOK
    <3> QED
      BY <1>5, <1>7, <3>1
  <2>2. CASE Disconnect
    <3>1. trouble' = trouble + 1 /\ Underway(m)' <= Underway(m) + 1
      BY <1>1, <2>2 DEF Disconnect, Troubled, Underway, TypeOK
    <3> QED
      BY <1>5, <1>7, <3>1
  <2>3. CASE Crash
    <3>1. trouble' = trouble + 1 /\ Underway(m)' <= Underway(m) + 1
      BY <1>1, <2>3 DEF Crash, Troubled, Underway, TypeOK
    <3> QED
      BY <1>5, <1>7, <3>1
  <2> QED
    BY <2>1, <2>2, <2>3
<1>9. trouble' \in Int
  BY <1>1, DeliveryAssumption DEF TypeOK
<1> QED
  BY <1>4, <1>5, <1>6, <1>7, <1>8, <1>9 DEF Budget

LEMMA WorkerKeepsBudget ==
  ASSUME IInv, IInv',
         \/ \E l \in Letters : Take(l)
         \/ Send \/ SendFails \/ SendFailsLate \/ RepublishDisconnected,
         NEW m \in Messages, Budget(m)
  PROVE  Budget(m)'
<1> USE DEF publisher, broker, worker, outcome, Goto, Finish
<1>1. UNCHANGED <<publisher, broker, connected>> /\ TypeOK /\ TypeOK'
  BY DEF Take, Send, SendFails, SendFailsLate, RepublishDisconnected, IInv
<1>2. Copies(m)' = Copies(m) /\ Copies(m) \in Int
  <2>1. \A l \in Letters : Standing(l)' = Standing(l)
    BY <1>1 DEF Standing
  <2> QED
    BY <1>1, <2>1, CopiesMove
<1>3. ToCome(m)' = ToCome(m) /\ ToCome(m) \in Int
  BY <1>1 DEF ToCome
<1>4. /\ mailed[m] \in Int /\ mailed'[m] \in Int /\ trouble \in Int /\ trouble' \in Int
      /\ Underway(m) \in Int /\ Underway(m)' \in Int
  BY <1>1, DeliveryAssumption DEF TypeOK, Underway
<1>5. mailed'[m] + Underway(m)' + trouble <= mailed[m] + Underway(m) + trouble'
  <2>1. CASE (\E l \in Letters : Take(l)) \/ RepublishDisconnected
    <3>1. mailed' = mailed /\ trouble' = trouble
      BY <2>1 DEF Take, RepublishDisconnected
    <3>2. Underway(m)' <= Underway(m)
      BY <1>1, <2>1 DEF Take, RepublishDisconnected, Underway, TypeOK
    <3> QED
      BY <1>4, <3>1, <3>2
  <2>2. CASE Send
    <3>1. /\ trouble' = trouble
          /\ mailed'[m] = IF hand.msg = m THEN mailed[m] + 1 ELSE mailed[m]
      BY <1>1, <2>2 DEF Send, TypeOK
    <3>2. Underway(m)' = IF hand.msg = m THEN Underway(m) - 1 ELSE Underway(m)
      BY <1>1, <2>2 DEF Send, Underway, TypeOK
    <3> QED
      BY <1>4, <3>1, <3>2
  <2>3. CASE SendFails
    <3>1. mailed' = mailed /\ trouble' = trouble
      BY <2>3 DEF SendFails
    <3>2. Underway(m)' <= Underway(m)
      BY <1>1, <2>3 DEF SendFails, Underway, TypeOK
    <3> QED
      BY <1>4, <3>1, <3>2
  <2>4. CASE SendFailsLate
    <3>1. /\ trouble' = trouble + 1
          /\ mailed'[m] \in {mailed[m], mailed[m] + 1}
      BY <1>1, <2>4 DEF SendFailsLate, Troubled, TypeOK
    <3>2. Underway(m)' <= Underway(m)
      BY <1>1, <2>4 DEF SendFailsLate, Underway, TypeOK
    <3> QED
      BY <1>4, <3>1, <3>2
  <2> QED
    BY <2>1, <2>2, <2>3, <2>4
<1> QED
  BY <1>2, <1>3, <1>4, <1>5 DEF Budget

LEMMA RepublishKeepsBudget ==
  ASSUME IInv, IInv', RepublishConfirmed \/ RepublishFails, NEW m \in Messages, Budget(m)
  PROVE  Budget(m)'
<1> USE DEF publisher, broker, worker, outcome, Goto, Finish
<1>1. /\ pc = "republish" /\ connected /\ connected' /\ TypeOK /\ TypeOK'
      /\ Store \/ UNCHANGED <<dead, retry>>
      /\ UNCHANGED <<publisher, outcome>>
  BY DEF RepublishConfirmed, RepublishFails, IInv
<1>2. PICK h \in Letters, next \in Letters :
        h = hand /\ h # None /\ next = Letter(hand.msg, hand.tries + 1) /\ next.msg = h.msg
  BY <1>1, NextLetter DEF IInv, TypeOK
<1>3. /\ queue \in [Letters -> Nat] /\ held \in [Letters -> Nat] /\ retry \in [Letters -> Nat]
      /\ held[h] > 0
  BY <1>1, <1>2 DEF TypeOK
<1>4. retry' = retry \/ retry' = Put(retry, next)
  BY <1>1, <1>2 DEF Store
<1>5. \A l \in Letters : queue'[l] + held'[l] = queue[l] + held[l]
  <2>1. CASE RepublishConfirmed
    BY <2>1 DEF RepublishConfirmed
  <2>2. CASE RepublishFails
    <3>1. held' = Drop(held, h) /\ queue' = Put(queue, h)
      BY <1>2, <2>2 DEF RepublishFails
    <3>2. \A l \in Letters : /\ held'[l] = IF l = h THEN held[l] - 1 ELSE held[l]
                             /\ queue'[l] = IF l = h THEN queue[l] + 1 ELSE queue[l]
      BY <1>3, <3>1, PutTypes, DropTypes
    <3> QED
      BY <1>3, <3>2
  <2> QED
    BY <2>1, <2>2
<1>6. /\ \A l \in Letters : l # next => Standing(l)' = Standing(l)
      /\ Standing(next)' \in {Standing(next), Standing(next) + 1} /\ Standing(next) \in Int
  <2>1. /\ \A l \in Letters : l # next => retry'[l] = retry[l]
        /\ retry'[next] \in {retry[next], retry[next] + 1}
    BY <1>2, <1>3, <1>4, PutTypes
  <2>2. \A l \in Letters : /\ queue[l] \in Int /\ held[l] \in Int /\ retry[l] \in Int
                           /\ queue'[l] \in Int /\ held'[l] \in Int
    BY <1>1 DEF TypeOK
  <2>3. \A l \in Letters : Standing(l)' = Standing(l) + retry'[l] - retry[l] /\ Standing(l) \in Int
    <3> SUFFICES ASSUME NEW l \in Letters
                 PROVE  Standing(l)' = Standing(l) + retry'[l] - retry[l] /\ Standing(l) \in Int
      OBVIOUS
    <3>1. retry'[l] \in Int
      BY <1>1 DEF TypeOK
    <3> QED
      BY <1>5, <2>2, <3>1 DEF Standing
  <2> QED
    BY <1>2, <2>1, <2>2, <2>3
<1>7. /\ Copies(m) \in Int
      /\ Copies(m)' = Copies(m) + (IF next.msg = m THEN Standing(next)' - Standing(next) ELSE 0)
  BY <1>1, <1>2, <1>6, CopiesChange
<1>8. /\ Copies(m)' \in {Copies(m), Copies(m) + 1}
      /\ h.msg # m => Copies(m)' = Copies(m)
  BY <1>2, <1>6, <1>7
<1>9. ToCome(m)' = ToCome(m) /\ ToCome(m) \in Int
  BY <1>1 DEF ToCome
<1>10. mailed'[m] = mailed[m] /\ mailed[m] \in Int /\ trouble \in Int /\ trouble' \in Int
  BY <1>1, DeliveryAssumption DEF TypeOK
<1>11. Underway(m) = 0
  BY <1>1 DEF Underway
<1>12. CASE RepublishConfirmed
  <2>1. trouble' = trouble /\ Underway(m)' = IF h.msg = m THEN -1 ELSE 0
    BY <1>1, <1>2, <1>12 DEF RepublishConfirmed, Underway
  <2> QED
    BY <1>7, <1>8, <1>9, <1>10, <1>11, <2>1 DEF Budget
<1>13. CASE RepublishFails
  <2>1. trouble' = trouble + 1 /\ Underway(m)' = 0
    BY <1>13 DEF RepublishFails, Underway, Troubled
  <2> QED
    BY <1>7, <1>8, <1>9, <1>10, <1>11, <2>1 DEF Budget
<1> QED
  BY <1>12, <1>13

LEMMA SettleKeepsBudget ==
  ASSUME IInv, IInv', Discard \/ Acknowledge, NEW m \in Messages, Budget(m)
  PROVE  Budget(m)'
<1> USE DEF publisher, broker, worker, outcome, Finish
<1>1. /\ UNCHANGED <<publisher, queue, retry, outcome, trouble, connected>>
      /\ hand' = None /\ held' = IF connected THEN Drop(held, hand) ELSE held
      /\ pc # "idle" /\ TypeOK /\ TypeOK'
  BY DEF Discard, Acknowledge, Settle, IInv
<1>2. PICK h \in Letters : h = hand
  BY <1>1 DEF TypeOK
<1>3. /\ h # None /\ (connected => held[h] > 0)
      /\ queue \in [Letters -> Nat] /\ held \in [Letters -> Nat] /\ retry \in [Letters -> Nat]
  BY <1>1, <1>2 DEF TypeOK
<1>4. /\ \A l \in Letters : l # h => Standing(l)' = Standing(l)
      /\ Standing(h)' = IF connected THEN Standing(h) - 1 ELSE Standing(h)
      /\ Standing(h) \in Int
  <2>1. /\ \A l \in Letters : l # h => held'[l] = held[l]
        /\ held'[h] = IF connected THEN held[h] - 1 ELSE held[h]
    BY <1>1, <1>2, <1>3, DropTypes
  <2>2. queue' = queue /\ retry' = retry
    BY <1>1
  <2> QED
    BY <1>3, <2>1, <2>2 DEF Standing
<1>5. /\ Copies(m) \in Int
      /\ Copies(m)' = Copies(m) + (IF h.msg = m THEN Standing(h)' - Standing(h) ELSE 0)
  BY <1>1, <1>4, CopiesChange
<1>6. Underway(m)' = 0
  BY <1>1 DEF Underway
<1>7. /\ h.msg # m => Underway(m) = 0
      /\ h.msg = m => pc = "ack" /\ Underway(m) = IF connected THEN -1 ELSE 0
  BY <1>1, <1>2, <1>3, DeliveryAssumption DEF Underway, Discard, Acknowledge
<1>8. /\ ToCome(m)' = ToCome(m) /\ ToCome(m) \in Int
      /\ mailed'[m] = mailed[m] /\ mailed[m] \in Int /\ trouble \in Int
  BY <1>1, DeliveryAssumption DEF ToCome, TypeOK
<1>9. Copies(m)' = Copies(m) + Underway(m)
  BY <1>4, <1>5, <1>7
<1> QED
  BY <1>1, <1>5, <1>6, <1>7, <1>8, <1>9 DEF Budget

LEMMA BudgetHolds == Spec => [](IInv /\ \A m \in Messages : Budget(m))
<1> DEFINE J == IInv /\ \A m \in Messages : Budget(m)
<1>1. Init => J
  BY InitInvariant, InitBudget
<1>2. J /\ [Next]_vars => J'
  <2>1. ASSUME IInv, NEW m \in Messages, Budget(m), UNCHANGED vars
        PROVE  Budget(m)'
    BY <2>1 DEF vars, publisher, broker, worker, outcome, Budget, ToCome, Copies, Underway,
      Standing, LettersOf
  <2>2. ASSUME J, [Next]_vars
        PROVE  IInv'
    BY <2>2, PublishKeeps, BrokerKeeps, WorkerKeeps, RepublishKeeps, SettleKeeps, StutterKeeps
      DEF Next, Handle
  <2>3. ASSUME J, [Next]_vars, NEW m \in Messages
        PROVE  Budget(m)'
    BY <2>1, <2>2, <2>3, PublishKeepsBudget, BrokerKeepsBudget, WorkerKeepsBudget,
      RepublishKeepsBudget, SettleKeepsBudget DEF Next, Handle
  <2> QED
    BY <2>2, <2>3
<1> HIDE DEF J
<1> QED
  BY <1>1, <1>2, PTL DEF Spec, J

-----------------------------------------------------------------------------

\* The types of the state; an open connection holds the delivery in hand.
THEOREM DeliveryTypes == Spec => []TypeOK
<1>1. IInv => TypeOK
  BY DEF IInv
<1> QED
  BY <1>1, InvariantHolds, PTL

\* The worker acknowledges a delivery only when it is mailed or its copy is
\* stored (handleDelivery), so nothing published is lost, however often
\* connections, confirmations and processes fail.
THEOREM NothingLostHolds == Spec => []NothingLost
<1>1. IInv => NothingLost
  BY DEF IInv, Safe, Somewhere, NothingLost, Stands
<1> QED
  BY <1>1, InvariantHolds, PTL

\* The retry count in a letter's header is never ahead of the failures it
\* stands for (publishCopy), so no letter is given up before its retries.
THEOREM DeadAfterAllRetriesHolds == Spec => []DeadAfterAllRetries
<1>1. IInv => DeadAfterAllRetries
  <2> SUFFICES ASSUME IInv, NEW l \in Letters, dead[l] > 0
               PROVE  l.tries = MaxRetries + 1 /\ failures[l.msg] > MaxRetries
    BY DEF DeadAfterAllRetries
  <2>1. l.tries = MaxRetries + 1 /\ l.msg \in Messages /\ failures[l.msg] >= l.tries
    BY DEF IInv, Counts, Counted
  <2>2. failures[l.msg] \in Nat /\ MaxRetries \in Nat
    BY <2>1, DeliveryAssumption DEF IInv, TypeOK
  <2> QED
    BY <2>1, <2>2
<1> QED
  BY <1>1, InvariantHolds, PTL

\* A message is handed to the SMTP server once, and once more at most for each
\* thing that goes wrong outside the two programs: the retries of
\* handleDelivery and the second attempt of publish alone never repeat a mail.
THEOREM DuplicatesNeedTroubleHolds == Spec => []DuplicatesNeedTrouble
<1>1. IInv /\ (\A m \in Messages : Budget(m)) => DuplicatesNeedTrouble
  <2> SUFFICES ASSUME IInv, NEW m \in Messages, Budget(m)
               PROVE  mailed[m] <= 1 + trouble
    BY DEF DuplicatesNeedTrouble
  <2> DEFINE f == [l \in Letters |-> Standing(l)]
  <2>1. \A l \in Letters : f[l] = Standing(l) /\ f[l] \in Nat
    BY DEF IInv, TypeOK, Standing
  <2>2. Copies(m) = SumFunctionOnSet(f, LettersOf(m))
    BY DEF Copies
  <2> HIDE DEF f
  <2>3. /\ IsFiniteSet(LettersOf(m))
        /\ \A l \in LettersOf(m) : f[l] \in Nat
    BY <2>1, LettersAreFinite
  <2>4. \A l \in LettersOf(m) : f[l] <= Copies(m)
    BY <2>2, <2>3, SumOfNaturals
  <2>5. Copies(m) \in Nat
    BY <2>2, <2>3, SumOfNaturals
  <2>6. Underway(m) \in Int /\ ToCome(m) \in 0..1 /\ mailed[m] \in Int /\ trouble \in Int
    BY DeliveryAssumption DEF Underway, ToCome, IInv, TypeOK
  <2>7. Underway(m) < 0 => Copies(m) >= 1
    <3> SUFFICES ASSUME Underway(m) < 0 PROVE Copies(m) >= 1
      OBVIOUS
    <3>1. hand # None /\ hand.msg = m /\ connected
      BY DEF Underway
    <3>2. hand \in LettersOf(m) /\ hand \in Letters /\ held[hand] > 0
      BY <3>1 DEF IInv, TypeOK, LettersOf
    <3>3. f[hand] >= 1
      BY <2>1, <3>2 DEF IInv, TypeOK, Standing
    <3> QED
      BY <2>1, <2>4, <2>5, <3>2, <3>3
  <2>8. Underway(m) >= -1
    BY DEF Underway
  <2> QED
    BY <2>5, <2>6, <2>7, <2>8 DEF Budget
<1> QED
  BY <1>1, BudgetHolds, PTL

-----------------------------------------------------------------------------
(***************************************************************************)
(* SigningKeys: what restarts in the middle of a change of keys leave      *)
(* valid, and what no change makes valid.                                  *)
(***************************************************************************)

-----------------------------------------------------------------------------
(* What the services that run, and those that issued a token, are like.    *)

LifetimesAreNumbers(config) == config.AccessTTL \in Int /\ config.RefreshTTL \in Int

\* Its active key is in its ring and is the one it signs with.
WellFormed(s) ==
  /\ LifetimesAreNumbers(s.config)
  /\ s.config.KeyID \in DOMAIN s.publicKeys
  /\ s.publicKeys[s.config.KeyID] = s.private

IssuedBy(token, s) ==
  /\ token.type \in Types
  /\ token.kid = s.config.KeyID /\ token.key = s.private
  /\ token.role = (token.type = "access")
  /\ token.audience = Audience(s.config, token.type)
  /\ token.iat \in Int /\ token.iat <= now
  /\ token.exp = token.iat + Lifetime(s.config, token.type)

\* What may be written as a lifetime.
TTLs == {Unset, Garbage} \cup {Written(n) : n \in Int}

TTLsKept ==
  /\ {"JWT_ACCESS_TTL", "JWT_REFRESH_TTL"} \subseteq DOMAIN env
  /\ env.JWT_ACCESS_TTL \in TTLs /\ env.JWT_REFRESH_TTL \in TTLs

KeysInv ==
  /\ TTLsKept
  /\ now \in Nat
  /\ \A s \in service : WellFormed(s)
  /\ \A t \in tokens : WellFormed(t.by) /\ IssuedBy(t.token, t.by)

LEMMA LifetimeIsNumber ==
  ASSUME NEW s, WellFormed(s), NEW type
  PROVE  Lifetime(s.config, type) \in Int
  BY DEF WellFormed, LifetimesAreNumbers, Lifetime

LEMMA SkewIsNumber == Skew \in Nat
  BY SigningKeysAssumption

LEMMA TTLIsNumber ==
  ASSUME NEW raw \in TTLs, NEW fallback \in Int
  PROVE  getEnvDuration(raw, fallback) \in Int
<1>1. CASE raw \in {Unset, Garbage}
  BY <1>1 DEF getEnvDuration, getEnvInt, Unset, Garbage
<1>2. CASE \E n \in Int : raw = Written(n)
  <2>1. PICK n \in Int : raw = Written(n)
    BY <1>2
  <2>2. raw.reads = {n} /\ raw.blanks = FALSE
    BY <2>1 DEF Written
  <2>3. The(raw.reads) = n
    BY <2>2 DEF The
  <2> QED
    BY <2>2, <2>3 DEF getEnvDuration, getEnvInt
<1> QED
  BY <1>1, <1>2 DEF TTLs

LEMMA LoadedIsWellFormed ==
  ASSUME TTLsKept, NEW s \in LoadService
  PROVE  WellFormed(s)
<1>1. PICK config \in AuthLoad(Environment) : s \in NewJWTService(JWTConfig(config))
  BY DEF LoadService
<1> DEFINE c == JWTConfig(config)
<1>2. PICK paths : config = AuthConfig(Environment, paths)
  BY <1>1 DEF AuthLoad
<1>3. /\ Environment.JWT_ACCESS_TTL = env.JWT_ACCESS_TTL
      /\ Environment.JWT_REFRESH_TTL = env.JWT_REFRESH_TTL
  BY DEF Environment, NothingSet
<1>4. config.AccessTTL \in Int /\ config.RefreshTTL \in Int
  BY <1>2, <1>3, TTLIsNumber, ConfigurationAssumption DEF AuthConfig, TTLsKept
<1>5. LifetimesAreNumbers(c)
  BY <1>4 DEF JWTConfig, LifetimesAreNumbers
<1>6. /\ c.KeyID \in DOMAIN c.PublicKeyPaths
      /\ private = public[c.PublicKeyPaths[c.KeyID]]
      /\ s = [config |-> c, private |-> private,
              publicKeys |-> [kid \in DOMAIN c.PublicKeyPaths |-> public[c.PublicKeyPaths[kid]]]]
  <2> HIDE DEF c
  <2> QED
    BY <1>1 DEF NewJWTService, c
<1> QED
  <2> HIDE DEF c
  <2> QED
    BY <1>5, <1>6 DEF WellFormed

-----------------------------------------------------------------------------

LEMMA KeyInitIInv == KeyInit => KeysInv
<1> SUFFICES ASSUME KeyInit PROVE KeysInv
  OBVIOUS
<1>1. TTLsKept
  BY DEF KeyInit, Compose, TTLs, TTLsKept
<1> QED
  BY <1>1, LoadedIsWellFormed DEF KeyInit, KeysInv

LEMMA KeyNextKeepsIInv == KeysInv /\ [KeyNext]_keyVars => KeysInv'
<1> SUFFICES ASSUME KeysInv, [KeyNext]_keyVars PROVE KeysInv'
  OBVIOUS
<1>1. CASE ReplacePrivateKey \/ ReplacePublicKey \/ UNCHANGED keyVars
  BY <1>1 DEF KeysInv, ReplacePrivateKey, ReplacePublicKey, Edit, keyVars, IssuedBy, TTLsKept
<1>2. CASE EditEnvironment
  <2>1. UNCHANGED <<service, tokens, now>>
    BY <1>2 DEF EditEnvironment, Edit
  <2>2. /\ Garbage \in TTLs /\ Written(0) \in TTLs
        /\ Written(FiveMinutes) \in TTLs /\ Written(FiveMinutes + 1) \in TTLs
    BY ConfigurationAssumption DEF TTLs
  <2>3. ASSUME NEW kid, NEW ring, env' = [env EXCEPT !.JWT_KEY_ID = kid, !.JWT_PUBLIC_KEYS = ring]
        PROVE  TTLsKept'
    BY <2>3 DEF KeysInv, TTLsKept
  <2>4. ASSUME NEW ttl \in TTLs, NEW audience,
               \/ env' = [env EXCEPT !.JWT_ACCESS_TTL = ttl]
               \/ env' = [env EXCEPT !.JWT_REFRESH_TTL = ttl]
               \/ env' = [env EXCEPT !.JWT_ACCESS_AUDIENCE = audience]
               \/ env' = [env EXCEPT !.JWT_REFRESH_AUDIENCE = audience]
        PROVE  TTLsKept'
    <3>1. CASE env' = [env EXCEPT !.JWT_ACCESS_TTL = ttl]
      BY <3>1 DEF KeysInv, TTLsKept
    <3>2. CASE env' = [env EXCEPT !.JWT_REFRESH_TTL = ttl]
      BY <3>2 DEF KeysInv, TTLsKept
    <3>3. CASE \/ env' = [env EXCEPT !.JWT_ACCESS_AUDIENCE = audience]
               \/ env' = [env EXCEPT !.JWT_REFRESH_AUDIENCE = audience]
      BY <3>3 DEF KeysInv, TTLsKept
    <3> QED
      BY <2>4, <3>1, <3>2, <3>3
  <2>5. TTLsKept'
    BY <1>2, <2>2, <2>3, <2>4 DEF EditEnvironment
  <2> QED
    BY <2>1, <2>5 DEF KeysInv, IssuedBy
<1>3. CASE Restart
  BY <1>3, LoadedIsWellFormed DEF Restart, KeysInv, IssuedBy, TTLsKept
<1>4. CASE Issue
  <2>1. PICK s \in service, type \in Types :
          tokens' = tokens \cup {[by |-> s, token |-> generateToken(s, type)]}
    BY <1>4 DEF Issue
  <2>2. WellFormed(s) /\ IssuedBy(generateToken(s, type), s)
    BY DEF KeysInv, IssuedBy, generateToken
  <2> QED
    BY <1>4, <2>1, <2>2 DEF Issue, KeysInv, IssuedBy, TTLsKept
<1>5. CASE Tick
  <2>1. now' = now + 1 /\ now \in Nat /\ UNCHANGED <<env, service, tokens>>
    BY <1>5 DEF Tick, KeysInv
  <2>2. \A t \in tokens : IssuedBy(t.token, t.by)'
    BY <2>1 DEF KeysInv, IssuedBy
  <2> QED
    BY <2>1, <2>2 DEF KeysInv, TTLsKept
<1> QED
  BY <1>1, <1>2, <1>3, <1>4, <1>5 DEF KeyNext

\* Running services are well formed, and tokens were issued by keys of theirs.
LEMMA KeysInvHolds == KeySpec => []KeysInv
<1>1. KeyInit => KeysInv
  BY KeyInitIInv
<1>2. KeysInv /\ [KeyNext]_keyVars => KeysInv'
  BY KeyNextKeepsIInv
<1> QED
  BY <1>1, <1>2, PTL DEF KeySpec

\* Keys are changed under the sessions: a service that has the keys, audiences
\* and lifetimes of the one that issued a token accepts it until it expires, and
\* publishes the key to check it with.
THEOREM LiveTokensVerifyHolds == KeySpec => []LiveTokensVerify
<1>1. KeysInv => LiveTokensVerify
  <2> SUFFICES ASSUME KeysInv, NEW s \in service, NEW t \in tokens,
                      marshalJWKS(t.by) \subseteq marshalJWKS(s),
                      \A type \in Types : Audience(s.config, type) = Audience(t.by.config, type),
                      \A type \in Types : Lifetime(s.config, type) >= Lifetime(t.by.config, type),
                      RemainingTTL(t.token) > 0
               PROVE  /\ parseAndValidate(s, t.token, t.token.type)
                      /\ [kid |-> t.token.kid, key |-> t.token.key] \in marshalJWKS(s)
    BY DEF LiveTokensVerify
  <2>1. WellFormed(s) /\ WellFormed(t.by) /\ IssuedBy(t.token, t.by)
    BY DEF KeysInv
  <2>2. [kid |-> t.token.kid, key |-> t.token.key] \in marshalJWKS(t.by)
    BY <2>1 DEF WellFormed, IssuedBy, marshalJWKS
  <2>3. t.token.kid \in DOMAIN s.publicKeys /\ s.publicKeys[t.token.kid] = t.token.key
    BY <2>2 DEF marshalJWKS
  <2>4. /\ Lifetime(s.config, t.token.type) \in Int
        /\ Lifetime(t.by.config, t.token.type) \in Int
    BY <2>1, LifetimeIsNumber
  <2>5. /\ t.token.iat \in Int /\ t.token.iat <= now /\ now \in Int
        /\ t.token.exp = t.token.iat + Lifetime(t.by.config, t.token.type)
        /\ t.token.exp - now > 0
    BY <2>1 DEF KeysInv, IssuedBy, RemainingTTL
  <2>6. Lifetime(s.config, t.token.type) >= Lifetime(t.by.config, t.token.type)
    BY <2>1 DEF IssuedBy
  <2>7. ASSUME NEW l \in Int, NEW m \in Int, l >= m, t.token.exp = t.token.iat + m
        PROVE  /\ now < t.token.exp + Skew /\ t.token.iat <= now + Skew
               /\ t.token.exp - t.token.iat <= l + Skew
    BY <2>5, <2>7, SkewIsNumber
  <2>8. /\ now < t.token.exp + Skew /\ t.token.iat <= now + Skew
        /\ t.token.exp - t.token.iat <= Lifetime(s.config, t.token.type) + Skew
    BY <2>4, <2>5, <2>6, <2>7
  <2> QED
    BY <2>1, <2>2, <2>3, <2>8 DEF parseAndValidate, validateTokenType, IssuedBy
<1> QED
  BY <1>1, KeysInvHolds, PTL

\* A token is accepted for its own use and for no longer than the lifetime that
\* is configured now.
THEOREM TokensKeepToTheirUseHolds == KeySpec => []TokensKeepToTheirUse
<1>1. KeysInv => TokensKeepToTheirUse
  <2> SUFFICES ASSUME KeysInv, NEW s \in service, NEW t \in tokens, NEW use \in Types,
                      parseAndValidate(s, t.token, use)
               PROVE  use = t.token.type /\ now - t.token.iat < Lifetime(s.config, use) + 2 * Skew
    BY DEF TokensKeepToTheirUse
  <2>1. WellFormed(s) /\ WellFormed(t.by) /\ IssuedBy(t.token, t.by)
    BY DEF KeysInv
  <2>2. use = t.token.type
    BY DEF parseAndValidate, validateTokenType
  <2>3. Lifetime(s.config, use) \in Int /\ Lifetime(t.by.config, use) \in Int
    BY <2>1, LifetimeIsNumber
  <2>4. now < t.token.exp + Skew /\ t.token.exp - t.token.iat <= Lifetime(s.config, use) + Skew
    BY DEF parseAndValidate
  <2>5. t.token.iat \in Int /\ now \in Int /\ t.token.exp \in Int
    BY <2>1, <2>2, <2>3 DEF KeysInv, IssuedBy
  <2>6. ASSUME NEW l \in Int, t.token.exp - t.token.iat <= l + Skew
        PROVE  now - t.token.iat < l + 2 * Skew
    BY <2>4, <2>5, <2>6, SkewIsNumber
  <2> QED
    BY <2>2, <2>3, <2>4, <2>6
<1> QED
  BY <1>1, KeysInvHolds, PTL

=============================================================================
