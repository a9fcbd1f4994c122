------------------------------ MODULE HttpErrors ------------------------------
(***************************************************************************)
(* Errors and the HTTP status they are rendered with (errors.go).  An      *)
(* error is what errors.As and errors.Is find in its chain: the status of  *)
(* an HTTPError, an OperationError, a sentinel of the executors, the kind  *)
(* of a fault.                                                             *)
(***************************************************************************)
EXTENDS Naturals

NoError == [http |-> 0, operation |-> FALSE, sentinel |-> "none", fault |-> "none"]
HTTPError(status) == [NoError EXCEPT !.http = status]
Fault(kind) == [NoError EXCEPT !.fault = kind]

\* An error that is none of these.
Plain == Fault("plain")

SentinelStatus ==
    [queue_full |-> 503, unavailable |-> 503, invalid |-> 400, not_found |-> 404,
     finished |-> 409, retries |-> 400, prefer |-> 400]

FaultStatus ==
    [invalid |-> 400, unauthenticated |-> 401, forbidden |-> 403, not_found |-> 404,
     conflict |-> 409, rate_limited |-> 429, unavailable |-> 503, internal |-> 500]

ErrorKind ==
    [http: Nat, operation: BOOLEAN, sentinel: DOMAIN SentinelStatus \union {"none"},
     fault: DOMAIN FaultStatus \union {"none", "plain"}]

\* mapHTTPError: an HTTPError anywhere in the chain wins, with its status if that is one
\* of an error; then a failed operation, the errors of the executor, and faults.
MapError(err) ==
    IF err.http # 0 THEN IF err.http \in 400..599 THEN err.http ELSE 500
    ELSE IF err.operation THEN 500
    ELSE IF err.sentinel # "none" THEN SentinelStatus[err.sentinel]
    ELSE IF err.fault \in DOMAIN FaultStatus THEN FaultStatus[err.fault] ELSE 500
================================================================================
