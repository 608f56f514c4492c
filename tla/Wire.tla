-------------------------------- MODULE Wire --------------------------------
(***************************************************************************)
(* What becomes of a client's words on their way in and out: the gateway   *)
(* reads a query or a body into the enumerations and timestamps of the     *)
(* gRPC messages, the service reads those into its domain, and answers go  *)
(* back the same way.  Words are taken in lower case and trimmed, as both  *)
(* sides do first; "" is a word that is absent.                            *)
(***************************************************************************)
EXTENDS Integers

Unspecified == "unspecified"

-----------------------------------------------------------------------------
(* Types of transactions.                                                  *)

transactionTypeFromString(word) == IF word \in {"income", "expense"} THEN word ELSE Unspecified
typeFromProto(value) == IF value \in {"income", "expense"} THEN value ELSE ""
typeToProto(value) == IF value \in {"income", "expense"} THEN value ELSE Unspecified
transactionTypeToString(value) == IF value \in {"income", "expense"} THEN value ELSE Unspecified

validTransactionType(value) == value \in {"income", "expense"}

(* Types of splits.                                                        *)

splitTypeFromString(word) == IF word \in {"fixed", "ratio"} THEN word ELSE Unspecified
splitTypeFromProto(value) == IF value \in {"fixed", "ratio"} THEN value ELSE ""
splitTypeToProto(value) == IF value \in {"fixed", "ratio"} THEN value ELSE Unspecified
splitTypeToString(value) == IF value \in {"fixed", "ratio"} THEN value ELSE Unspecified

(* Roles: no word is a member, and so is, on the other side, any unknown   *)
(* one.                                                                    *)

memberRoleFromString(word) ==
  IF word = "owner" THEN "owner" ELSE IF word \in {"member", ""} THEN "member" ELSE Unspecified
memberRoleFromProto(value) == IF value = "owner" THEN "owner" ELSE "member"
memberRoleToProto(value) == IF value \in {"owner", "member"} THEN value ELSE Unspecified
memberRoleToString(value) == IF value \in {"owner", "member"} THEN value ELSE Unspecified

Statuses == {"pending", "accepted", "rejected", "expired"}
invitationStatusToProto(value) == IF value \in Statuses THEN value ELSE Unspecified
invitationStatusToString(value) == IF value \in Statuses THEN value ELSE Unspecified

(* Times and numbers: a word that parses has a value, any other is the     *)
(* fallback.  The zero time is none, and the message of a number has room  *)
(* for 32 bits: what does not fit wraps.                                   *)

Word(value) == [parses |-> TRUE, value |-> value]
Garbage == [parses |-> FALSE, value |-> 0]
ZeroTime == 0

\* A message or pointer that may be absent is the set of what it holds.
parseTimestamp(word) == IF word.parses THEN {word.value} ELSE {}
optionalTimestamp(time) == {time} \ {ZeroTime}
timeFromProto(value) == IF value = {} THEN ZeroTime ELSE CHOOSE time \in value : TRUE
timePtrFromProto(value) == {timeFromProto(value)} \ {ZeroTime}

parseInt(word, fallback) == IF word.parses THEN word.value ELSE fallback
\* half is 2^31 in the code.
int32(n, half) == ((n + half) % (2 * half)) - half

-----------------------------------------------------------------------------

Words == {"income", "expense", "fixed", "ratio", "owner", "member", "typo", ""}

\* What one side sends the other reads back, and a type nobody knows is refused
\* where one is needed and is no condition where a list is filtered by it: the
\* client who mistypes the type of a list gets all of it.
ASSUME TypesTravel ==
  \A word \in Words :
    LET type == typeFromProto(transactionTypeFromString(word))
        split == splitTypeFromProto(splitTypeFromString(word))
    IN  /\ validTransactionType(type) <=> word \in {"income", "expense"}
        /\ validTransactionType(type) => transactionTypeToString(typeToProto(type)) = word
        /\ ~validTransactionType(type) => type = ""
        /\ split = IF word \in {"fixed", "ratio"} THEN word ELSE ""
        /\ split # "" => splitTypeToString(splitTypeToProto(split)) = word

\* A role nobody knows is a member's, never an owner's, and an invitation comes
\* back in the state it is in.
ASSUME RolesTravel ==
  /\ \A word \in Words :
       LET role == memberRoleFromProto(memberRoleFromString(word))
       IN  /\ role = "owner" <=> word = "owner"
           /\ memberRoleToString(memberRoleToProto(role)) = role
  /\ \A status \in Statuses :
       invitationStatusToString(invitationStatusToProto(status)) = status

\* A date that does not parse and the zero date are no date, which a new entry
\* takes as now and a list as no condition; a number beyond 32 bits comes out as
\* another one.
ASSUME NumbersTravel ==
  /\ timePtrFromProto(parseTimestamp(Garbage)) = {}
  /\ timePtrFromProto(parseTimestamp(Word(ZeroTime))) = {}
  /\ \A time \in 1..3 :
       /\ timePtrFromProto(parseTimestamp(Word(time))) = {time}
       /\ timeFromProto(optionalTimestamp(time)) = time
  /\ \A n \in {-1, 0, 1, 50} : int32(n, 100) = n /\ parseInt(Word(n), 50) = n

=============================================================================
