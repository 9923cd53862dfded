------------------------------ MODULE RunErrors ------------------------------
(***************************************************************************)
(* How a run ends and which errors are retried (sdk/errors.rs, and the     *)
(* RetryConfig of sdk/config.rs).  An error message stands for its class:  *)
(*   "network"       the exact marker network_error                        *)
(*   "server"        names an HTTP 5xx status                              *)
(*   "throttled"     names HTTP 429                                        *)
(*   "client"        names HTTP 401 or 404                                 *)
(*   "nonretryable"  starts with NON_RETRYABLE_PREFIX, whatever else it    *)
(*                   names                                                 *)
(*   "other"         any other message                                     *)
(***************************************************************************)
EXTENDS Naturals

CONSTANT Retry  \* Retry[e]: the retry policy of entry e

MessageClasses == {"network", "server", "throttled", "client", "nonretryable", "other"}

\* RunError::Other carries a message; a limit and a timeout are kinds of their own.
ErrorKinds == MessageClasses \cup {"limit", "timeout"}

RetryRec == [enabled : BOOLEAN, max_attempts : Nat, retry_client_errors : BOOLEAN]

\* A user may write max_attempts: 0.
effective_max_attempts(e) ==
  IF Retry[e].max_attempts = 0 THEN 1 ELSE Retry[e].max_attempts

is_non_retryable_error(m) == m = "nonretryable"
is_network_error_message(m) == m = "network"
is_server_error_message(m) == m = "server"
is_transient_http_error(m) == m = "throttled" \/ is_server_error_message(m)
is_client_error_retryable(m) == m = "client"

is_retryable_message(e, m) ==
  \/ is_transient_http_error(m)
  \/ Retry[e].retry_client_errors /\ is_client_error_retryable(m)

MayRetryMessage(e, m) == ~is_non_retryable_error(m) /\ is_retryable_message(e, m)
=============================================================================
