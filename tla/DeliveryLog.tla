---------------------------- MODULE DeliveryLog ----------------------------
(***************************************************************************)
(* One row of webhook_delivery_logs, the audit record of one delivery, and *)
(* what a session's commit does to it.  The columns kept are the ones the  *)
(* handlers decide by or report: status, attempt_count, status_code and    *)
(* error_message.  response_body is written with status_code and carries   *)
(* no decision; event_type and payload never change.                       *)
(***************************************************************************)
EXTENDS Naturals

CONSTANTS
  GoodCodes,   \* the answers with 200 <= status_code < 300
  BadCodes     \* every other answer of a subscriber

Codes == GoodCodes \cup BadCodes

NoAnswer == "request_error"    \* httpx.RequestError: no answer was read
Disabled == "disabled"         \* "Webhook endpoint is disabled"
None     == "none"             \* SQL NULL

ASSUME CodesAssumption ==
  /\ GoodCodes \cap BadCodes = {}
  /\ {NoAnswer, Disabled, None} \cap Codes = {}

Statuses  == {"pending", "success", "failed", "retrying"}
Unsettled == {"pending", "retrying"}
Outcomes  == Codes \cup {NoAnswer}

\* The text of a non-2xx error names its code, so the code stands for the text.
Columns == [status        : Statuses,
            attempt_count : Nat,
            status_code   : Codes \cup {None},
            error_message : BadCodes \cup {NoAnswer, Disabled, None}]

\* The row create_delivery_log inserts.
NewRow == [status |-> "pending", attempt_count |-> 0,
           status_code |-> None, error_message |-> None]

\* The object reset_delivery_log_for_retry leaves for the commit.
Reset(loaded) == [loaded EXCEPT !.status = "pending", !.error_message = None,
                                !.attempt_count = 0]

\* The object of a delivery to a disabled endpoint: nothing was attempted.
Refused(loaded) == [loaded EXCEPT !.status = "failed", !.error_message = Disabled]

\* Slip: attempt_count is the retries before the attempt.
RecordedRetries(loaded, retries, outcome, status) ==
  [status        |-> status,
   attempt_count |-> retries,
   status_code   |-> IF outcome \in Codes THEN outcome ELSE loaded.status_code,
   error_message |-> IF outcome \in GoodCodes THEN None ELSE outcome]

\* The object of an attempt that ended with `outcome`.  A request that got no
\* answer leaves the status_code of the object as it was loaded.
Recorded(loaded, retries, outcome, status) ==
  [status        |-> status,
   attempt_count |-> retries + 1,
   status_code   |-> IF outcome \in Codes THEN outcome ELSE loaded.status_code,
   error_message |-> IF outcome \in GoodCodes THEN None ELSE outcome]

(***************************************************************************)
(* A commit of the object `mine`, which the session read as `loaded`, over *)
(* the row `stored` now: the UPDATE names only the columns whose value     *)
(* differs from the loaded one, so the other columns keep what concurrent  *)
(* sessions have put there.                                                *)
(***************************************************************************)
Column(stored, loaded, mine) == IF mine = loaded THEN stored ELSE mine

Flush(stored, loaded, mine) ==
  [status        |-> Column(stored.status, loaded.status, mine.status),
   attempt_count |-> Column(stored.attempt_count, loaded.attempt_count,
                            mine.attempt_count),
   status_code   |-> Column(stored.status_code, loaded.status_code,
                            mine.status_code),
   error_message |-> Column(stored.error_message, loaded.error_message,
                            mine.error_message)]
=============================================================================
