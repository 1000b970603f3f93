------------------------ MODULE DeliveryStatsProofs ------------------------
(***************************************************************************)
(* Proof that the statistics tell what became of the deliveries of any     *)
(* window, for every number of endpoints, requests, workers and retries    *)
(* and for every set of answers.                                           *)
(***************************************************************************)
EXTENDS DeliveryStats, DeliveryPromises

USE EngineAssumption

----------------------------------------------------------------------------
(* What is counted is finite: a step inserts one row at most.              *)

LEMMA OneRowAtATime ==
  ASSUME [Next]_vars
  PROVE  \E x : created' \in {created, created \cup {x}}
<1>1. ASSUME NEW d \in Dispatches, DispatchStep(d)
      PROVE  \E x : created' \in {created, created \cup {x}}
  BY <1>1 DEF DispatchStep, DispatchProgress, DispatchList, DispatchCreate,
              DispatchPublish, DispatchFails, history
<1>2. ASSUME ~\E d \in Dispatches : DispatchStep(d)
      PROVE  created' = created
  BY <1>2 DEF Next, vars, OperatorStep, CreateEndpoint, Disable, Enable, Remove, ReplayStep,
     ReplayProgress, ReplayLoad, ReplayReset, ReplayPublish, ReplayFails, WorkerStep,
     WorkerProgress, AttemptEnds, Receive, Post, RecordSuccess, RecordRetry, RecordFailed,
     RecordRefused, Commit, PublishRetry, Ack, CommitStale, TaskFails, WorkerLost, Redeliver,
     history
<1>. QED BY <1>1, <1>2

LEMMA RowsAreFinite == Spec => []IsFiniteSet(created)
<1>1. Init => IsFiniteSet(created)
  BY FS_EmptySet DEF Init
<1>2. IsFiniteSet(created) /\ [Next]_vars => IsFiniteSet(created)'
  <2>. SUFFICES ASSUME IsFiniteSet(created), [Next]_vars PROVE IsFiniteSet(created')
    OBVIOUS
  <2>1. PICK x : created' \in {created, created \cup {x}}
    BY OneRowAtATime
  <2>2. IsFiniteSet(created \cup {x})
    BY FS_AddElement
  <2>. QED BY <2>1, <2>2
<1>. QED BY <1>1, <1>2, PTL DEF Spec

----------------------------------------------------------------------------
(* One row *)

\* What a row must tell to be counted rightly.
Told(l) ==
  /\ row[l] \in Columns
  /\ row[l].status = "success" <=> confirmed[l] > 0
  /\ row[l].status = "success" <=> row[l].status_code \in GoodCodes
  /\ row[l].status \in Unsettled => Carried(l)

LEMMA RowTells ==
  ASSUME TypeOK, Known, NoLostDelivery, NEW l \in Logs, Exact(l),
         Live(l), Undisturbed(l), AtRest(l)
  PROVE  Told(l)
<1>1. row[l] \in Columns /\ confirmed[l] \in Nat
  BY DEF TypeOK, RowType, HistoryType
<1>2. (\E n : OpenAfter(l, n)) \/ SettledExact(l)
  BY UndisturbedRow
<1>3. row[l].status \in Unsettled => Carried(l)
  BY DEF NoLostDelivery, Undisturbed, Settled
<1>. QED BY <1>1, <1>2, <1>3 DEF Told, OpenAfter, SettledExact, Settled, Unsettled, Columns,
                                 Statuses

\* The 2xx bucket holds what raise_for_status lets pass, and an answer that is no
\* redirect is in one bucket only.
LEMMA OneBucket ==
  ASSUME NEW code \in Codes \cup {None}
  PROVE  /\ InBucket(code, "http_2xx") <=> code \in GoodCodes
         /\ \A b, c \in Buckets : InBucket(code, b) /\ InBucket(code, c) => b = c
         /\ (\E b \in Buckets : InBucket(code, b))
              <=> code # None /\ CodeOf[code] \notin 300..399
<1>1. CASE code = None
  BY <1>1, CodesAssumption DEF InBucket, Codes
<1>2. CASE code # None
  <2>1. code \in Codes
    BY <1>2
  <2>2. PICK n : n = CodeOf[code]
    OBVIOUS
  <2>3. n \in 0..999 /\ (code \in GoodCodes <=> n \in 200..299)
    BY <2>1, <2>2, CodeAssumption
  <2>4. \A b : InBucket(code, b) <=>
          \/ b = "http_2xx"   /\ 200 <= n /\ n < 300
          \/ b = "http_4xx"   /\ 400 <= n /\ n < 500
          \/ b = "http_5xx"   /\ 500 <= n /\ n < 600
          \/ b = "http_other" /\ (n < 200 \/ n >= 600)
    BY <1>2, <2>2 DEF InBucket
  <2>5. InBucket(code, "http_2xx") <=> code \in GoodCodes
    BY <2>3, <2>4
  <2>6. \A b, c \in Buckets : InBucket(code, b) /\ InBucket(code, c) => b = c
    BY <2>3, <2>4
  <2>7. (\E b \in Buckets : InBucket(code, b)) <=> n \notin 300..399
    BY <2>3, <2>4 DEF Buckets
  <2>. QED BY <1>2, <2>2, <2>5, <2>6, <2>7
<1>. QED BY <1>1, <1>2

----------------------------------------------------------------------------
\* Whatever the window: the successes counted are the deliveries a subscriber
\* accepted, they are the 2xx answers, what is open is still carried, and an answer
\* is counted in one bucket unless it was a redirect.
THEOREM StatsTrue == Spec => []StatsTellTheTruth
<1>1. ASSUME TypeOK, Known, NoLostDelivery, \A l \in Logs : Exact(l), IsFiniteSet(created)
      PROVE  StatsTellTheTruth
  <2>. SUFFICES ASSUME NEW W \in SUBSET {l \in Logs : Live(l) /\ Undisturbed(l) /\ AtRest(l)}
                PROVE  /\ CountOf(W, "success") = Cardinality({l \in W : confirmed[l] > 0})
                       /\ HttpOf(W, "http_2xx") = CountOf(W, "success")
                       /\ CountOf(W, "pending") + CountOf(W, "retrying")
                            <= Cardinality({l \in W : Carried(l)})
                       /\ HttpOf(W, "http_2xx") + HttpOf(W, "http_4xx")
                            + HttpOf(W, "http_5xx") + HttpOf(W, "http_other")
                            = Cardinality({l \in W : row[l].status_code # None /\ ~Redirect(l)})
    BY DEF StatsTellTheTruth
  <2>1. \A l \in W : Told(l)
    BY <1>1, RowTells
  <2>2. \A l \in W : row[l].status_code \in Codes \cup {None}
    BY <2>1 DEF Told, Columns
  <2>3. \A S \in SUBSET W : IsFiniteSet(S)
    <3>1. W \subseteq created
      BY DEF Live
    <3>. QED BY <1>1, <3>1, FS_Subset
  <2>4. CountOf(W, "success") = Cardinality({l \in W : confirmed[l] > 0})
    <3>1. {l \in W : row[l].status = "success"} = {l \in W : confirmed[l] > 0}
      BY <2>1 DEF Told
    <3>. QED BY <3>1 DEF CountOf
  <2>5. HttpOf(W, "http_2xx") = CountOf(W, "success")
    <3>1. {l \in W : InBucket(row[l].status_code, "http_2xx")}
            = {l \in W : row[l].status = "success"}
      BY <2>1, <2>2, OneBucket DEF Told
    <3>. QED BY <3>1 DEF CountOf, HttpOf
  <2>6. CountOf(W, "pending") + CountOf(W, "retrying") <= Cardinality({l \in W : Carried(l)})
    <3>. DEFINE P == {l \in W : row[l].status = "pending"}
                R == {l \in W : row[l].status = "retrying"}
                C == {l \in W : Carried(l)}
    <3>1. P \cap R = {} /\ P \cup R \subseteq C
      BY <2>1 DEF Told, Unsettled
    <3>2. IsFiniteSet(P) /\ IsFiniteSet(R) /\ IsFiniteSet(C)
      BY <2>3
    <3>3. CountOf(W, "pending") = Cardinality(P) /\ CountOf(W, "retrying") = Cardinality(R)
      BY DEF CountOf
    <3>. HIDE DEF P, R, C
    <3>4. Cardinality(P \cup R) = Cardinality(P) + Cardinality(R)
      BY <3>1, <3>2, CardinalityAdds
    <3>5. Cardinality(P \cup R) <= Cardinality(C)
      BY <3>1, <3>2, FS_Subset
    <3>6. CountOf(W, "pending") + CountOf(W, "retrying") <= Cardinality(C)
      BY <3>3, <3>4, <3>5
    <3>. QED BY <3>6 DEF C
  <2>7. HttpOf(W, "http_2xx") + HttpOf(W, "http_4xx") + HttpOf(W, "http_5xx")
          + HttpOf(W, "http_other")
          = Cardinality({l \in W : row[l].status_code # None /\ ~Redirect(l)})
    <3>. DEFINE In(b) == {l \in W : InBucket(row[l].status_code, b)}
                All   == {l \in W : row[l].status_code # None /\ ~Redirect(l)}
    <3>1. \A b, c \in Buckets : b # c => In(b) \cap In(c) = {}
      BY <2>2, OneBucket
    <3>2. All = UNION {In(b) : b \in Buckets}
      BY <2>2, OneBucket DEF Redirect
    <3>3. \A b : IsFiniteSet(In(b)) /\ HttpOf(W, b) = Cardinality(In(b))
      BY <2>3 DEF HttpOf
    <3>4. PICK A, B, C, D : /\ A = In("http_2xx") /\ B = In("http_4xx")
                            /\ C = In("http_5xx") /\ D = In("http_other")
      OBVIOUS
    <3>5. All = A \cup B \cup C \cup D
      BY <3>2, <3>4 DEF Buckets
    <3>6. /\ IsFiniteSet(A) /\ IsFiniteSet(B) /\ IsFiniteSet(C) /\ IsFiniteSet(D)
          /\ HttpOf(W, "http_2xx") = Cardinality(A) /\ HttpOf(W, "http_4xx") = Cardinality(B)
          /\ HttpOf(W, "http_5xx") = Cardinality(C) /\ HttpOf(W, "http_other") = Cardinality(D)
      BY <3>3, <3>4
    <3>7. /\ A \cap B = {} /\ (A \cup B) \cap C = {} /\ (A \cup B \cup C) \cap D = {}
      BY <3>1, <3>4 DEF Buckets
    <3>. HIDE DEF In, All
    <3>8. IsFiniteSet(A \cup B) /\ Cardinality(A \cup B) = Cardinality(A) + Cardinality(B)
      BY <3>6, <3>7, CardinalityAdds
    <3>9. /\ IsFiniteSet(A \cup B \cup C)
          /\ Cardinality(A \cup B \cup C) = Cardinality(A) + Cardinality(B) + Cardinality(C)
      BY <3>6, <3>7, <3>8, CardinalityAdds
    <3>10. Cardinality(A \cup B \cup C \cup D)
             = Cardinality(A) + Cardinality(B) + Cardinality(C) + Cardinality(D)
      BY <3>6, <3>7, <3>9, CardinalityAdds
    <3>11. Cardinality(All) = HttpOf(W, "http_2xx") + HttpOf(W, "http_4xx")
                                + HttpOf(W, "http_5xx") + HttpOf(W, "http_other")
      BY <3>5, <3>6, <3>10
    <3>. QED BY <3>11 DEF All
  <2>. QED BY <2>4, <2>5, <2>6, <2>7
<1>. QED BY <1>1, TypeCorrect, KnownInvariant, NothingLost, ExactInvariant, RowsAreFinite, PTL
=============================================================================
