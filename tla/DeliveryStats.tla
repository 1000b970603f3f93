--------------------------- MODULE DeliveryStats ---------------------------
(***************************************************************************)
(* GET /stats: one aggregate query over the delivery logs of a user, read  *)
(* at any moment of the engine.  The user and the window only choose rows. *)
(***************************************************************************)
EXTENDS DeliveryEngine, FiniteSets

CONSTANT CodeOf   \* the number of each answer

\* A status line has three digits, and response.status_code is checked as
\* 200 <= status_code < 300 before it is stored.
ASSUME CodeAssumption ==
  /\ CodeOf \in [Codes -> 0..999]
  /\ \A c \in Codes : c \in GoodCodes <=> CodeOf[c] \in 200..299

Buckets == {"http_2xx", "http_4xx", "http_5xx", "http_other"}

\* Slip: the upper bounds are inclusive.
InBucketInclusive(code, b) ==
  /\ code # None
  /\ LET n == CodeOf[code] IN
       \/ b = "http_2xx"   /\ 200 <= n /\ n <= 300
       \/ b = "http_4xx"   /\ 400 <= n /\ n <= 500
       \/ b = "http_5xx"   /\ 500 <= n /\ n <= 600
       \/ b = "http_other" /\ (n < 200 \/ n >= 600)

\* A comparison with NULL is not true, so a row without an answer counts nowhere.
InBucket(code, b) ==
  /\ code # None
  /\ LET n == CodeOf[code] IN
       \/ b = "http_2xx"   /\ 200 <= n /\ n < 300
       \/ b = "http_4xx"   /\ 400 <= n /\ n < 500
       \/ b = "http_5xx"   /\ 500 <= n /\ n < 600
       \/ b = "http_other" /\ (n < 200 \/ n >= 600)

\* What get_user_stats returns of the rows of W.
CountOf(W, status) == Cardinality({l \in W : row[l].status = status})
HttpOf(W, b)       == Cardinality({l \in W : InBucket(row[l].status_code, b)})

----------------------------------------------------------------------------
(* Properties *)

Redirect(l) == row[l].status_code # None /\ CodeOf[row[l].status_code] \in 300..399

\* Whatever the window, while no replay, redelivery or lost message disturbed its
\* deliveries: the successes counted are the deliveries of which a 2xx was read, they
\* are the 2xx answers, what is open is still carried, and an answer is counted in
\* one bucket unless it was a redirect.
StatsTellTheTruth ==
  \A W \in SUBSET {l \in Logs : Live(l) /\ Undisturbed(l) /\ AtRest(l)} :
    /\ CountOf(W, "success") = Cardinality({l \in W : confirmed[l] > 0})
    /\ HttpOf(W, "http_2xx") = CountOf(W, "success")
    /\ CountOf(W, "pending") + CountOf(W, "retrying")
         <= Cardinality({l \in W : Carried(l)})
    /\ HttpOf(W, "http_2xx") + HttpOf(W, "http_4xx") + HttpOf(W, "http_5xx")
         + HttpOf(W, "http_other")
         = Cardinality({l \in W : row[l].status_code # None /\ ~Redirect(l)})
=============================================================================
