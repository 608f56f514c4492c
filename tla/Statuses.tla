------------------------------ MODULE Statuses ------------------------------
(***************************************************************************)
(* How a refusal travels: the errors of each service, the gRPC code its    *)
(* mapError gives them, what transaction-service makes of a code that auth-*)
(* or group-service answers it with, and the HTTP status at the gateway.   *)
(***************************************************************************)
EXTENDS Integers, TLC

Codes ==
  {"InvalidArgument", "FailedPrecondition", "Unauthenticated", "PermissionDenied", "NotFound",
   "AlreadyExists", "ResourceExhausted", "Unavailable", "DeadlineExceeded", "Canceled",
   "Internal"}

\* The status each error of auth-service is declared with.
AuthErrors ==
  [e \in {"ErrValidation", "Validation", "ErrOTPExpired", "ErrOTPAttemptsExceeded",
          "ErrMenuHasChildren", "ErrMenuCycle"} |-> 400]
  @@ [e \in {"ErrInvalidCredentials", "ErrInvalidOTP", "ErrInvalidToken", "ErrUnauthorized",
             "ErrSessionRevoked"} |-> 401]
  @@ [e \in {"ErrForbidden", "ErrAccountInactive"} |-> 403]
  @@ [e \in {"ErrUserNotFound", "ErrMenuNotFound"} |-> 404]
  @@ [e \in {"ErrEmailAlreadyExists", "ErrConflict"} |-> 409]
  @@ [e \in {"ErrTooManyRequests"} |-> 429]

\* mapError of auth-service compares with ==, so that the error Validation makes
\* anew for each message, and a wrapped one, is none of those it knows.
authMapError(e) ==
  CASE e = "ErrValidation" -> "InvalidArgument"
    [] e \in {"ErrInvalidCredentials", "ErrInvalidOTP", "ErrInvalidToken", "ErrUnauthorized",
              "ErrSessionRevoked"} -> "Unauthenticated"
    [] e \in {"ErrEmailAlreadyExists", "ErrConflict"} -> "AlreadyExists"
    [] e \in {"ErrUserNotFound", "ErrMenuNotFound"} -> "NotFound"
    [] e \in {"ErrOTPExpired", "ErrOTPAttemptsExceeded", "ErrMenuHasChildren", "ErrMenuCycle",
              "ErrAccountInactive"} -> "FailedPrecondition"
    [] e = "ErrForbidden" -> "PermissionDenied"
    [] e = "ErrTooManyRequests" -> "ResourceExhausted"
    [] OTHER -> "Internal"

GroupErrors ==
  [e \in {"ErrValidation", "Validation", "ErrGroupHasMembers", "ErrGroupInactive",
          "ErrInvitationExpired", "ErrInvitationNotPending"} |-> 400]
  @@ [e \in {"ErrForbidden"} |-> 403]
  @@ [e \in {"ErrGroupNotFound", "ErrGroupMemberNotFound", "ErrInvitationNotFound"} |-> 404]
  @@ [e \in {"ErrConflict"} |-> 409]

\* mapError of group-service goes by the declared status first.
groupMapError(e) ==
  IF e \notin DOMAIN GroupErrors THEN "Internal"
  ELSE CASE GroupErrors[e] = 403 -> "PermissionDenied"
         [] GroupErrors[e] = 404 -> "NotFound"
         [] GroupErrors[e] = 409 -> "AlreadyExists"
         [] OTHER -> IF e \in {"ErrValidation", "Validation"} THEN "InvalidArgument"
                                                              ELSE "FailedPrecondition"

TransactionErrors ==
  {"ErrValidation", "Validation", "ErrNotFound", "ErrCategoryNotFound", "ErrTransactionNotFound",
   "ErrForbidden", "ErrConflict", "ErrInvalidSplit", "ErrInvalidPayment", "ErrCurrencyMismatch",
   "ErrUpstreamUnavailable"}

\* mapError of transaction-service unwraps.
transactionMapError(e) ==
  CASE e \in {"ErrValidation", "Validation", "ErrInvalidSplit", "ErrInvalidPayment",
              "ErrCurrencyMismatch"} -> "InvalidArgument"
    [] e \in {"ErrNotFound", "ErrCategoryNotFound", "ErrTransactionNotFound"} -> "NotFound"
    [] e = "ErrForbidden" -> "PermissionDenied"
    [] e = "ErrConflict" -> "AlreadyExists"
    [] e = "ErrUpstreamUnavailable" -> "Unavailable"
    [] e \in {"DeadlineExceeded", "Canceled"} -> e
    [] OTHER -> "Internal"

\* The error transaction-service makes of another service's answer.  What it
\* only wraps is none that its mapError knows.
mapUpstreamError(code) ==
  CASE code = "InvalidArgument" -> "Validation"
    [] code = "NotFound" -> "ErrNotFound"
    [] code = "PermissionDenied" -> "ErrForbidden"
    [] code \in {"Unavailable", "DeadlineExceeded"} -> "ErrUpstreamUnavailable"
    [] OTHER -> "Wrapped"

grpcStatusToHTTP(code) ==
  CASE code \in {"InvalidArgument", "FailedPrecondition"} -> 400
    [] code = "Unauthenticated"   -> 401
    [] code = "PermissionDenied"  -> 403
    [] code = "NotFound"          -> 404
    [] code = "AlreadyExists"     -> 409
    [] code = "ResourceExhausted" -> 429
    [] code = "Unavailable"       -> 503
    [] code = "DeadlineExceeded"  -> 504
    [] OTHER                      -> 500

mapError(service, e) ==
  CASE service = "auth"        -> authMapError(e)
    [] service = "group"       -> groupMapError(e)
    [] service = "transaction" -> transactionMapError(e)

\* The status a client gets for an error of auth- or group-service is the one
\* the error is declared with, except where mapError of auth-service does not
\* know it or gives it another code: a message that a field is not valid comes
\* out as a failure of the server.
ASSUME DeclaredStatuses ==
  /\ {e \in DOMAIN GroupErrors : grpcStatusToHTTP(groupMapError(e)) # GroupErrors[e]} = {}
  /\ {e \in DOMAIN AuthErrors : grpcStatusToHTTP(authMapError(e)) # AuthErrors[e]}
       = {"Validation", "ErrAccountInactive"}

\* Of what group-service refuses, transaction-service passes on as refused what
\* is not valid, not found or not permitted; a group that is in the wrong state
\* makes it fail.
ASSUME StatusesBehindTransactions ==
  \A e \in DOMAIN GroupErrors :
    LET status == grpcStatusToHTTP(transactionMapError(mapUpstreamError(groupMapError(e))))
    IN  status = IF groupMapError(e) \in {"FailedPrecondition", "AlreadyExists"} THEN 500
                                                                             ELSE GroupErrors[e]

=============================================================================
