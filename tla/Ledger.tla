------------------------------- MODULE Ledger -------------------------------
(***************************************************************************)
(* What transaction-service promises of a group's ledger, whatever happens *)
(* to the requests that write it: entries are posted whole and balanced,   *)
(* stay as they were posted, and may be withdrawn, once; settlements pass  *)
(* a positive amount between two people and stay.                          *)
(***************************************************************************)
EXTENDS Integers

CONSTANTS
  Ids,               \* names of the transactions
  Requests,          \* names of the settlements
  Seeds,             \* the transactions there are at the start
  Nil,
  BalancedEntry(_)   \* whether a transaction's payments and shares add up

VARIABLES
  entries,   \* the transactions ever posted
  live,      \* those not withdrawn
  payouts,   \* the settlements ever recorded
  settled    \* who recorded them

vars == <<entries, live, payouts, settled>>

Init ==
  /\ live = Seeds
  /\ \A i \in Ids : entries[i] # Nil <=> i \in Seeds
  /\ \A i \in Seeds : BalancedEntry(entries[i])
  /\ \A r \in Requests : payouts[r] = Nil
  /\ settled = {}

Post(i) ==
  /\ entries[i] = Nil
  /\ entries'[i] # Nil
  /\ BalancedEntry(entries'[i])
  /\ entries' = [entries EXCEPT ![i] = entries'[i]]
  /\ live' = live \cup {i}
  /\ UNCHANGED <<payouts, settled>>

Withdraw(i) ==
  /\ i \in live
  /\ live' = live \ {i}
  /\ UNCHANGED <<entries, payouts, settled>>

Record(r) ==
  /\ payouts[r] = Nil
  /\ payouts'[r] # Nil
  /\ payouts'[r].amount > 0
  /\ payouts'[r].from # payouts'[r].to
  /\ payouts' = [payouts EXCEPT ![r] = payouts'[r]]
  /\ settled' = settled \cup {r}
  /\ UNCHANGED <<entries, live>>

Next ==
  \/ \E i \in Ids : Post(i) \/ Withdraw(i)
  \/ \E r \in Requests : Record(r)

Spec == Init /\ [][Next]_vars

=============================================================================
