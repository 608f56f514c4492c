----------------------------- MODULE Deployment -----------------------------
(***************************************************************************)
(* The processes of the system from start to end: what each connects to,   *)
(* in which order, before it serves; how a signal, a server that fails or  *)
(* a kill ends it; which calls are in flight then; and how the containers  *)
(* are started again.  What the calls do is the business of the modules of *)
(* the services.                                                           *)
(***************************************************************************)
EXTENDS Integers, Sequences, FiniteSets

CONSTANTS
  Services,     \* of "auth", "group", "transaction", "gateway"
  \* bounds of the model
  MaxCalls,     \* calls in flight in one server
  MaxFaults     \* signals, kills, failures and outages

ASSUME DeploymentAssumption ==
  /\ Services \subseteq {"auth", "group", "transaction", "gateway"}
  /\ {MaxCalls, MaxFaults} \subseteq Nat

VARIABLES
  stage,     \* of each process
  opened,    \* how many of its connections it holds, in the order it opens them
  calls,     \* the calls in flight in each server of each process
  taking,    \* the servers of each process that take calls
  forced,    \* the processes whose calls in flight were not given the time to finish
  outages,   \* the stores that are down
  faults

depVars == <<stage, opened, calls, taking, forced, outages, faults>>

-----------------------------------------------------------------------------
(* The wiring of run, by service.                                          *)

\* Slip: auth-service asks for the service that waits for it.
AuthConnects_Circle == <<"auth-postgres", "redis", "rabbitmq", "transaction">>

\* The stores and services it connects to, in order, and gives up if it cannot.
AuthConnects == <<"auth-postgres", "redis", "rabbitmq">>
GroupConnects == <<"group-postgres">>
TransactionConnects == <<"transaction-postgres", "auth", "group">>
GatewayConnects == <<"auth", "group", "transaction">>

Connects(s) ==
  CASE s = "auth" -> AuthConnects
    [] s = "group" -> GroupConnects
    [] s = "transaction" -> TransactionConnects
    [] s = "gateway" -> GatewayConnects

Stores == UNION {{Connects(s)[i] : i \in DOMAIN Connects(s)} : s \in Services} \ Services

\* The servers of a process in the order it stops them.
Servers(s) ==
  CASE s = "auth" -> <<"http", "grpc">>
    [] s = "gateway" -> <<"http">>
    [] OTHER -> <<"grpc">>

\* A process that is stopping stops one server at a time.
Stages == {"down", "connecting", "serving", "stopping", "closing"}
StoppingServer(s) == Cardinality(DOMAIN Servers(s) \ taking[s])

InFlight(s) == \E k \in DOMAIN Servers(s) : calls[s][k] > 0
Listening(s) == \E k \in taking[s] : Servers(s)[k] = "grpc"
Answers(peer) == IF peer \in Services THEN Listening(peer) ELSE peer \notin outages

-----------------------------------------------------------------------------

DepInit ==
  /\ stage = [s \in Services |-> "down"]
  /\ opened = [s \in Services |-> 0]
  /\ calls = [s \in Services |-> [k \in DOMAIN Servers(s) |-> 0]]
  /\ taking = [s \in Services |-> {}]
  /\ forced = {} /\ outages = {} /\ faults = 0

Fault == faults < MaxFaults /\ faults' = faults + 1

\* A container is started when its process is down, whatever ended it.
\* compose.yaml orders the first starts; nothing orders the later ones.
Start(s) ==
  /\ stage[s] = "down"
  /\ stage' = [stage EXCEPT ![s] = "connecting"]
  /\ UNCHANGED <<opened, calls, taking, forced, outages, faults>>

\* The next connection is open, and answered a ping or took the handshake.
OpenConnection(s) ==
  /\ stage[s] = "connecting"
  /\ opened[s] < Len(Connects(s))
  /\ Answers(Connects(s)[opened[s] + 1])
  /\ opened' = [opened EXCEPT ![s] = @ + 1]
  /\ UNCHANGED <<stage, calls, taking, forced, outages, faults>>

\* The process is gone, and with it its calls.
Ends(s) ==
  /\ stage' = [stage EXCEPT ![s] = "down"]
  /\ opened' = [opened EXCEPT ![s] = 0]
  /\ calls' = [calls EXCEPT ![s] = [k \in DOMAIN @ |-> 0]]
  /\ taking' = [taking EXCEPT ![s] = {}]
  /\ forced' = forced \ {s}

\* A store refuses, or a service does not listen for the time of the dial: run
\* returns the error, and main exits.
GiveUp(s) ==
  /\ stage[s] = "connecting"
  /\ opened[s] < Len(Connects(s))
  /\ ~Answers(Connects(s)[opened[s] + 1])
  /\ Ends(s)
  /\ UNCHANGED <<outages, faults>>

\* The configuration, a key or the address to listen at is refused.
Refuse(s) ==
  /\ stage[s] = "connecting"
  /\ Fault
  /\ Ends(s)
  /\ UNCHANGED outages

Serve(s) ==
  /\ stage[s] = "connecting"
  /\ opened[s] = Len(Connects(s))
  /\ stage' = [stage EXCEPT ![s] = "serving"]
  /\ taking' = [taking EXCEPT ![s] = DOMAIN Servers(s)]
  /\ UNCHANGED <<opened, calls, forced, outages, faults>>

\* Server k is told to stop: it takes no more calls.
Stop(s, k) ==
  /\ stage' = [stage EXCEPT ![s] = "stopping"]
  /\ taking' = [taking EXCEPT ![s] = @ \ {k}]
  /\ UNCHANGED <<opened, calls, forced>>

\* A signal before serve has asked to be told ends the process at once.
Signal(s) ==
  /\ Fault
  /\ \/ stage[s] = "connecting" /\ Ends(s)
     \/ stage[s] = "serving" /\ Stop(s, 1)
  /\ UNCHANGED outages

\* A server fails: serve returns its error at once, and stops no other.
ServerFails(s) ==
  /\ stage[s] = "serving"
  /\ Fault
  /\ \E k \in DOMAIN Servers(s) : taking' = [taking EXCEPT ![s] = @ \ {k}]
  /\ stage' = [stage EXCEPT ![s] = "closing"]
  /\ forced' = forced \cup {s}
  /\ UNCHANGED <<opened, calls, outages>>

\* Slip: the calls of the last server are not waited for.
Drained_Unasked(s) ==
  /\ stage[s] = "stopping"
  /\ IF StoppingServer(s) < Len(Servers(s))
     THEN calls[s][StoppingServer(s)] = 0 /\ Stop(s, StoppingServer(s) + 1)
     ELSE /\ stage' = [stage EXCEPT ![s] = "closing"]
          /\ UNCHANGED <<opened, calls, taking, forced>>
  /\ UNCHANGED <<outages, faults>>

\* Shutdown and GracefulStop return when the calls of their server have.
Drained(s) ==
  /\ stage[s] = "stopping"
  /\ calls[s][StoppingServer(s)] = 0
  /\ IF StoppingServer(s) < Len(Servers(s))
     THEN Stop(s, StoppingServer(s) + 1)
     ELSE /\ stage' = [stage EXCEPT ![s] = "closing"]
          /\ UNCHANGED <<opened, calls, taking, forced>>
  /\ UNCHANGED <<outages, faults>>

\* Slip: the last server is given all the time its callers take.
TimeIsOver_NotLast(s) ==
  /\ stage[s] = "stopping" /\ StoppingServer(s) < Len(Servers(s))
  /\ calls[s][StoppingServer(s)] > 0
  /\ stage' = [stage EXCEPT ![s] = "closing"]
  /\ forced' = forced \cup {s}
  /\ UNCHANGED <<opened, calls, taking, outages, faults>>

\* The time to finish is over: 10 s, or 15 s.  After the HTTP server's, serve
\* returns at once, with the gRPC server as it is; the gRPC server is stopped.
TimeIsOver(s) ==
  /\ stage[s] = "stopping"
  /\ calls[s][StoppingServer(s)] > 0
  /\ stage' = [stage EXCEPT ![s] = "closing"]
  /\ forced' = forced \cup {s}
  /\ UNCHANGED <<opened, calls, taking, outages, faults>>

\* The deferred closes, the last connection first; the gateway closes its three,
\* and transaction-service its two to other services, in the order it opened
\* them, which nothing here tells apart.  The pool of a database, the first, hands
\* out no connection any more and waits for those in use: for the answers to
\* statements, not for calls.
Close(s) ==
  /\ stage[s] = "closing"
  /\ IF opened[s] > 0
     THEN opened' = [opened EXCEPT ![s] = @ - 1] /\ UNCHANGED <<stage, calls, taking, forced>>
     ELSE Ends(s)
  /\ UNCHANGED <<outages, faults>>

Kill(s) ==
  /\ stage[s] # "down"
  /\ Fault
  /\ Ends(s)
  /\ UNCHANGED outages

Call(s) ==
  /\ \E k \in taking[s] :
       /\ calls[s][k] < MaxCalls
       /\ calls' = [calls EXCEPT ![s][k] = @ + 1]
  /\ UNCHANGED <<stage, opened, taking, forced, outages, faults>>

Answer(s) ==
  /\ \E k \in DOMAIN Servers(s) :
       /\ calls[s][k] > 0
       /\ calls' = [calls EXCEPT ![s][k] = @ - 1]
  /\ UNCHANGED <<stage, opened, taking, forced, outages, faults>>

StoreFails ==
  /\ Fault
  /\ \E store \in Stores \ outages : outages' = outages \cup {store}
  /\ UNCHANGED <<stage, opened, calls, taking, forced>>

StoreReturns ==
  /\ \E store \in outages : outages' = outages \ {store}
  /\ UNCHANGED <<stage, opened, calls, taking, forced, faults>>

DepNext ==
  \/ \E s \in Services :
       \/ Start(s) \/ OpenConnection(s) \/ GiveUp(s) \/ Refuse(s) \/ Serve(s)
       \/ Signal(s) \/ ServerFails(s) \/ Drained(s) \/ TimeIsOver(s) \/ Close(s) \/ Kill(s)
       \/ Call(s) \/ Answer(s)
  \/ StoreFails \/ StoreReturns

\* The steps of a process come, and its timers go off, and so does what starts
\* containers and stores again (restart: unless-stopped).  Nothing ends a call
\* while its process runs.
Progress(s) ==
  Start(s) \/ OpenConnection(s) \/ GiveUp(s) \/ Serve(s) \/ Drained(s) \/ TimeIsOver(s) \/ Close(s)

DepFairness ==
  /\ \A s \in Services : WF_depVars(Progress(s))
  /\ WF_depVars(StoreReturns)

DepSpec == DepInit /\ [][DepNext]_depVars /\ DepFairness

-----------------------------------------------------------------------------

DepTypeOK ==
  /\ stage \in [Services -> Stages]
  /\ opened \in [Services -> Nat] /\ \A s \in Services : opened[s] <= Len(Connects(s))
  /\ DOMAIN calls = Services /\ \A s \in Services : calls[s] \in [DOMAIN Servers(s) -> 0..MaxCalls]
  /\ DOMAIN taking = Services /\ \A s \in Services : taking[s] \subseteq DOMAIN Servers(s)
  /\ forced \subseteq Services /\ outages \subseteq Stores /\ faults \in 0..MaxFaults

\* A call in flight has every connection of its process, unless the time to
\* finish was over or a server failed; and a process takes no call without them,
\* but for auth-service, which leaves its gRPC server running when it gives up on
\* its HTTP server, and either running when the other fails.
CallsKeepTheirStores ==
  \A s \in Services :
    opened[s] < Len(Connects(s)) =>
      /\ InFlight(s) => s \in forced
      /\ taking[s] # {} => s = "auth" /\ s \in forced

\* A process that was told to stop, or one of whose servers failed, ends, however
\* long its callers hold on.
StopsAfterSignal ==
  \A s \in Services : stage[s] \in {"stopping", "closing"} ~> stage[s] = "down"

\* From any order of starts, and after any number of ends and outages, all of the
\* system comes to serve and goes on serving: no process waits for one that waits
\* for it.
EverythingComesUp == <>[](\A s \in Services : stage[s] = "serving")

=============================================================================
