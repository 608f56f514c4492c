---------------------------- MODULE EmailDelivery ----------------------------
(***************************************************************************)
(* How a one-time password gets into the mail: the publisher of            *)
(* auth-service (infrastructure/rabbitmq.go), three durable queues of      *)
(* RabbitMQ, and the worker of email-service (internal/worker/consumer.go) *)
(* that hands each message to an SMTP server, retries after a delay and    *)
(* gives up into a dead-letter queue.                                      *)
(*                                                                         *)
(* A queue keeps no order once messages are put back into it, so it is how *)
(* many copies of each letter stand in it.  What goes wrong outside the    *)
(* two programs - a connection, a confirmation or an answer of the SMTP    *)
(* server lost, a process killed - is counted in trouble.                  *)
(***************************************************************************)
EXTENDS Integers, FiniteSetsExt

CONSTANTS
  Messages,     \* the passwords auth-service publishes
  Foreign,      \* bodies in the queue that are not JSON
  MaxRetries,
  Prefetch,
  MaxTrouble,   \* bound on trouble
  None

ASSUME DeliveryAssumption ==
  /\ Messages \cap Foreign = {}
  /\ IsFiniteSet(Messages) /\ IsFiniteSet(Foreign)
  /\ MaxRetries \in Nat \ {0}
  /\ Prefetch \in Nat \ {0}
  /\ MaxTrouble \in Nat

\* Attempts of publish to get a message confirmed.
MaxAttempts == 2

\* A message and its x-email-retry-count.
Letters == [msg : Messages \cup Foreign, tries : 0..(MaxRetries + 1)]

ASSUME NoneAssumption == None \notin Letters

VARIABLES
  pub,        \* where the publication of each message is
  attempt,    \* the attempts it has made
  queue,      \* auth.email.otp
  held,       \* delivered to the worker and not acknowledged
  retry,      \* auth.email.otp.retry
  dead,       \* auth.email.otp.dead
  connected,  \* the worker's connection is open
  hand,       \* the delivery the worker is handling
  pc,         \* where handleDelivery is
  mailed,     \* how often the SMTP server accepted each message
  failures,   \* how often the worker was told it did not
  trouble

publisher == <<pub, attempt>>
broker == <<queue, held, retry, dead>>
worker == <<connected, hand, pc>>
outcome == <<mailed, failures>>

vars == <<publisher, broker, worker, outcome, trouble>>

Letter(m, tries) == [msg |-> m, tries |-> tries]

Put(copies, l) == [copies EXCEPT ![l] = @ + 1]

Drop(copies, l) == [copies EXCEPT ![l] = @ - 1]

HeldCount == MapThenSumSet(LAMBDA l : held[l], Letters)

Init ==
  /\ pub = [m \in Messages |-> "new"]
  /\ attempt = [m \in Messages |-> 0]
  /\ queue = [l \in Letters |-> IF l.msg \in Foreign /\ l.tries = 0 THEN 1 ELSE 0]
  /\ held = [l \in Letters |-> 0]
  /\ retry = [l \in Letters |-> 0]
  /\ dead = [l \in Letters |-> 0]
  /\ connected = FALSE
  /\ hand = None
  /\ pc = "idle"
  /\ mailed = [m \in Messages |-> 0]
  /\ failures = [m \in Messages |-> 0]
  /\ trouble = 0

Troubled == trouble < MaxTrouble /\ trouble' = trouble + 1

-----------------------------------------------------------------------------
(* publish, one message at a time behind its mutex.                        *)

PublishStarts(m) ==
  /\ pub[m] = "new"
  /\ \A other \in Messages : pub[other] # "publishing"
  /\ pub' = [pub EXCEPT ![m] = "publishing"]
  /\ UNCHANGED <<attempt, broker, worker, outcome, trouble>>

PublishConfirmed(m) ==
  /\ pub[m] = "publishing"
  /\ pub' = [pub EXCEPT ![m] = "published"]
  /\ attempt' = [attempt EXCEPT ![m] = @ + 1]
  /\ queue' = Put(queue, Letter(m, 0))
  /\ UNCHANGED <<held, retry, dead, worker, outcome, trouble>>

\* The connection cannot be had, or the confirmation does not come though the
\* broker may have the message: once more, then an error.
PublishUnconfirmed(m) ==
  /\ pub[m] = "publishing"
  /\ attempt' = [attempt EXCEPT ![m] = @ + 1]
  /\ pub' = [pub EXCEPT ![m] = IF attempt'[m] < MaxAttempts THEN "publishing" ELSE "failed"]
  /\ queue' \in {queue, Put(queue, Letter(m, 0))}
  /\ Troubled
  /\ UNCHANGED <<held, retry, dead, worker, outcome>>

\* The request is cancelled between two attempts.
PublishCancelled(m) ==
  /\ pub[m] = "publishing"
  /\ pub' = [pub EXCEPT ![m] = "failed"]
  /\ UNCHANGED <<attempt, broker, worker, outcome, trouble>>

-----------------------------------------------------------------------------
(* RabbitMQ and the connection to it.                                      *)

\* Run connects, at first and again after ReconnectDelay, when no delivery
\* is being handled.
Connect ==
  /\ ~connected /\ pc = "idle"
  /\ connected' = TRUE
  /\ UNCHANGED <<publisher, broker, hand, pc, outcome, trouble>>

\* A copy is delivered, up to Prefetch without an acknowledgement.
Deliver(l) ==
  /\ connected
  /\ queue[l] > 0
  /\ HeldCount < Prefetch
  /\ queue' = Drop(queue, l)
  /\ held' = Put(held, l)
  /\ UNCHANGED <<publisher, retry, dead, worker, outcome, trouble>>

\* RabbitMQ puts back what was held.
Requeue ==
  /\ queue' = [l \in Letters |-> queue[l] + held[l]]
  /\ held' = [l \in Letters |-> 0]
  /\ UNCHANGED <<retry, dead>>

\* The connection is lost; handleDelivery goes on with what it has in hand.
Disconnect ==
  /\ connected
  /\ connected' = FALSE
  /\ Requeue
  /\ Troubled
  /\ UNCHANGED <<publisher, hand, pc, outcome>>

\* The worker is killed and starts again.
Crash ==
  /\ pc # "idle"
  /\ connected' = FALSE
  /\ Requeue
  /\ hand' = None
  /\ pc' = "idle"
  /\ Troubled
  /\ UNCHANGED <<publisher, outcome>>

\* Slip: the queue has no x-message-ttl.
RetryExpires_Never(l) == retry[l] > 0 /\ FALSE

\* x-message-ttl of the retry queue runs out, and its dead-letter exchange
\* routes the message to the main queue.
RetryExpires(l) ==
  /\ retry[l] > 0
  /\ retry' = Drop(retry, l)
  /\ queue' = Put(queue, l)
  /\ UNCHANGED <<publisher, held, dead, worker, outcome, trouble>>

-----------------------------------------------------------------------------
(* handleDelivery.                                                         *)

\* The next delivery, from its channel.
Take(l) ==
  /\ connected
  /\ pc = "idle"
  /\ held[l] > 0
  /\ hand' = l
  /\ pc' = "send"
  /\ UNCHANGED <<publisher, broker, connected, outcome, trouble>>

Goto(next) == pc' = next /\ UNCHANGED <<connected, hand>>

Finish == hand' = None /\ pc' = "idle" /\ UNCHANGED connected

\* Ack, or Nack without requeue; RabbitMQ hears of it only on the connection
\* of the delivery.
Settle ==
  /\ held' = IF connected THEN Drop(held, hand) ELSE held
  /\ Finish
  /\ UNCHANGED <<publisher, queue, retry, dead, outcome, trouble>>

\* A body that is not JSON is refused for good.
Discard ==
  /\ pc = "send" /\ hand.msg \in Foreign
  /\ Settle

\* SendOTP succeeds.
Send ==
  /\ pc = "send" /\ hand.msg \in Messages
  /\ mailed' = [mailed EXCEPT ![hand.msg] = @ + 1]
  /\ Goto("ack")
  /\ UNCHANGED <<publisher, broker, failures, trouble>>

\* SendOTP returns an error ...
SendFails ==
  /\ pc = "send" /\ hand.msg \in Messages
  /\ failures' = [failures EXCEPT ![hand.msg] = @ + 1]
  /\ Goto("republish")
  /\ UNCHANGED <<publisher, broker, mailed, trouble>>

\* ... or one after the server has accepted the message, as when QUIT fails.
SendFailsLate ==
  /\ pc = "send" /\ hand.msg \in Messages
  /\ mailed' = [mailed EXCEPT ![hand.msg] = @ + 1]
  /\ failures' = [failures EXCEPT ![hand.msg] = @ + 1]
  /\ Goto("republish")
  /\ Troubled
  /\ UNCHANGED <<publisher, broker>>

\* Slip: one retry too few.
TargetQueue_Early(l) == IF l.tries + 1 >= MaxRetries THEN "dead" ELSE "retry"

TargetQueue(l) == IF l.tries >= MaxRetries THEN "dead" ELSE "retry"

\* The broker stores the letter with its count raised.
Store ==
  LET next == Letter(hand.msg, hand.tries + 1)
  IN  /\ dead' = IF TargetQueue(hand) = "dead" THEN Put(dead, next) ELSE dead
      /\ retry' = IF TargetQueue(hand) = "retry" THEN Put(retry, next) ELSE retry

\* Slip: nobody waits for the confirmation.
RepublishConfirmed_Blind ==
  /\ pc = "republish" /\ connected
  /\ Store \/ UNCHANGED <<dead, retry>>
  /\ Goto("ack")
  /\ UNCHANGED <<publisher, queue, held, outcome, trouble>>

\* The broker confirms the copy, and the delivery can go.
RepublishConfirmed ==
  /\ pc = "republish" /\ connected
  /\ Store
  /\ Goto("ack")
  /\ UNCHANGED <<publisher, queue, held, outcome, trouble>>

\* It does not, though it may have it: Nack with requeue.
RepublishFails ==
  /\ pc = "republish" /\ connected
  /\ Store \/ UNCHANGED <<dead, retry>>
  /\ held' = Drop(held, hand)
  /\ queue' = Put(queue, hand)
  /\ Troubled
  /\ Finish
  /\ UNCHANGED <<publisher, outcome>>

\* The connection is lost: neither the copy nor the Nack gets through.
RepublishDisconnected ==
  /\ pc = "republish" /\ ~connected
  /\ Finish
  /\ UNCHANGED <<publisher, broker, outcome, trouble>>

\* Slip: the delivery is kept.
Acknowledge_Requeues ==
  /\ pc = "ack" /\ connected
  /\ held' = Drop(held, hand)
  /\ queue' = Put(queue, hand)
  /\ Finish
  /\ UNCHANGED <<publisher, retry, dead, outcome, trouble>>

Acknowledge == pc = "ack" /\ Settle

-----------------------------------------------------------------------------
Publish(m) ==
  \/ PublishStarts(m)
  \/ PublishConfirmed(m)
  \/ PublishUnconfirmed(m)
  \/ PublishCancelled(m)

Handle ==
  \/ \E l \in Letters : Take(l)
  \/ Discard
  \/ Send
  \/ SendFails
  \/ SendFailsLate
  \/ RepublishConfirmed
  \/ RepublishFails
  \/ RepublishDisconnected
  \/ Acknowledge

Broker == \E l \in Letters : Deliver(l) \/ RetryExpires(l)

Next ==
  \/ \E m \in Messages : Publish(m)
  \/ Broker
  \/ Handle
  \/ Connect
  \/ Disconnect
  \/ Crash

\* RabbitMQ delivers and expires, the worker reconnects and goes on with what
\* it handles; a mail may fail every time.
Fairness == WF_vars(Broker) /\ WF_vars(Handle) /\ WF_vars(Connect)

Spec == Init /\ [][Next]_vars /\ Fairness

-----------------------------------------------------------------------------
(* Properties.                                                             *)

\* An open connection holds the delivery in hand.
TypeOK ==
  /\ pub \in [Messages -> {"new", "publishing", "published", "failed"}]
  /\ attempt \in [Messages -> 0..MaxAttempts]
  /\ queue \in [Letters -> Nat]
  /\ held \in [Letters -> Nat]
  /\ retry \in [Letters -> Nat]
  /\ dead \in [Letters -> Nat]
  /\ connected \in BOOLEAN
  /\ hand \in Letters \cup {None}
  /\ pc \in {"idle", "send", "republish", "ack"}
  /\ pc = "idle" <=> hand = None
  /\ mailed \in [Messages -> Nat]
  /\ failures \in [Messages -> Nat]
  /\ trouble \in 0..MaxTrouble
  /\ connected /\ hand # None => held[hand] > 0

Stands(m, copies) == \E t \in 0..(MaxRetries + 1) : copies[Letter(m, t)] > 0

\* A published message is not lost, whatever fails and in whatever order: it
\* has been mailed, or RabbitMQ still has a copy, in the end a dead letter.
NothingLost ==
  \A m \in Messages :
    pub[m] = "published" =>
      mailed[m] > 0 \/ \E copies \in {queue, held, retry, dead} : Stands(m, copies)

\* A message is mailed once, and once more at most for every thing that went
\* wrong: retrying alone never mails a password twice.
DuplicatesNeedTrouble ==
  \A m \in Messages : mailed[m] <= 1 + trouble

\* Nothing becomes a dead letter before the worker has failed with it
\* MaxRetries + 1 times, however its copies were put back and redelivered.
DeadAfterAllRetries ==
  \A l \in Letters :
    dead[l] > 0 => l.tries = MaxRetries + 1 /\ failures[l.msg] > MaxRetries

\* A published message ends in the mail or among the dead letters.
PublishedIsSettled ==
  \A m \in Messages : pub[m] = "published" ~> mailed[m] > 0 \/ Stands(m, dead)

=============================================================================
