----------------------------- MODULE RetryPolicy -----------------------------
(***************************************************************************)
(* classify_transfer_error (src/src/sync/retry_policy.rs): what a failed   *)
(* transfer does next, from the structured error, the operation and the    *)
(* attempts already spent.  Delays are left out: a deadline is only ever   *)
(* compared with a clock the models leave free.                            *)
(***************************************************************************)
EXTENDS Naturals

CONSTANT MaxAttempts    \* settlement.rs: MAX_AUTOMATIC_ATTEMPTS = 5

ASSUME MaxAttemptsAssumption == MaxAttempts \in Nat \ {0}

(* AppError as the policy sees it.  reached is the error's flag             *)
(* request_may_have_reached_server.                                         *)
TransportError(kind, reached) ==
    [class |-> "transport", kind |-> kind, status |-> 0, reached |-> reached]
StatusError(status, reached) ==
    [class |-> "status", kind |-> "none", status |-> status, reached |-> reached]
QuotaExceeded == [class |-> "quota", kind |-> "none", status |-> 0, reached |-> FALSE]
TokenError == [class |-> "auth", kind |-> "none", status |-> 0, reached |-> FALSE]
SessionExpired ==
    [class |-> "sessionExpired", kind |-> "none", status |-> 0, reached |-> TRUE]
LocalError == [class |-> "generic", kind |-> "none", status |-> 0, reached |-> FALSE]

ModifiesRemote(op) ==
    op \in {"Create", "Update", "Delete", "Move", "Rename", "CreateFolder"}

Decision(d, costs) == [decision |-> d, consumesBudget |-> costs]
Permanent == Decision("Fail", FALSE)
VerifyRemote == Decision("VerifyRemote", TRUE)
WaitForNetwork == Decision("WaitForNetwork", FALSE)
Backoff == Decision("Backoff", TRUE)

BudgetExhausted(attempts) == attempts >= MaxAttempts

ClassifyTransport(e, op, attempts) ==
    CASE e.kind = "Connect" -> WaitForNetwork
      [] e.kind # "Connect" /\ ModifiesRemote(op) /\ e.reached ->
            IF BudgetExhausted(attempts) THEN Permanent ELSE VerifyRemote
      [] e.kind \in {"Network", "Timeout", "ResponseBody"}
            /\ ~(ModifiesRemote(op) /\ e.reached) -> WaitForNetwork
      [] e.kind = "Decode" /\ ~(ModifiesRemote(op) /\ e.reached) ->
            IF BudgetExhausted(attempts) THEN Permanent ELSE Backoff
      [] OTHER -> Permanent

(* A first 401 (RefreshAuth) ends like a repeated one at the runner, which  *)
(* fails the task: the replay with a new token is the Drive client's.       *)
ClassifyStatus(e, attempts) ==
    CASE e.status = 401 -> Decision("RefreshAuth", FALSE)
      [] e.status \in {429, 500, 502, 503, 504} ->
            IF BudgetExhausted(attempts) THEN Permanent ELSE Backoff
      [] OTHER -> Permanent

Classify(e, op, attempts) ==
    CASE e.class = "transport" -> ClassifyTransport(e, op, attempts)
      [] e.class = "status" -> ClassifyStatus(e, attempts)
      [] e.class = "sessionExpired" -> Decision("VerifyRemote", FALSE)
      [] OTHER -> Permanent
=============================================================================
