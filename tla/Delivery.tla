------------------------------ MODULE Delivery ------------------------------
(***************************************************************************)
(* What a publisher may rely on, without queues, tasks, rows in memory or  *)
(* retries: at-least-once delivery with an audit status.                   *)
(*                                                                         *)
(* A delivery that is open is owed: somebody has still to attempt it.  It  *)
(* stops being owed when it is settled, when its subscriber is deleted, or *)
(* when it is counted as lost.  A status is reported only when what it     *)
(* says has happened, and a settled delivery changes only when it was      *)
(* started again.                                                          *)
(***************************************************************************)
EXTENDS Naturals

CONSTANTS
  Logs,        \* the deliveries
  MaxRetries   \* the attempts a start allows after the first one

VARIABLES
  status,    \* what the publisher is told of each delivery
  closed,    \* the deliveries whose subscriber is disabled or deleted
  gone,      \* the deliveries whose subscriber is deleted
  turned,    \* the deliveries that were turned away from a closed subscriber
  sent,      \* how often each delivery was started
  tried,     \* the attempts made, by delivery
  received,  \* the attempts the subscriber accepted, by delivery
  confirmed, \* those of them the gateway has learnt of, by delivery
  owed,      \* the deliveries somebody has still to attempt
  lost       \* the deliveries that a failure may have left to nobody

taken == <<tried, received, confirmed>>

vars == <<status, closed, gone, turned, sent, taken, owed, lost>>

Open    == {"pending", "retrying"}
Settled == {"success", "failed"}

Init ==
  /\ status    = [l \in Logs |-> "none"]
  /\ closed    = {}
  /\ gone      = {}
  /\ turned    = {}
  /\ sent      = [l \in Logs |-> 0]
  /\ tried     = [l \in Logs |-> 0]
  /\ received  = [l \in Logs |-> 0]
  /\ confirmed = [l \in Logs |-> 0]
  /\ owed      = {}
  /\ lost      = {}

\* The gateway takes the event in.
Accept(l) ==
  /\ status[l] = "none"
  /\ l \notin gone
  /\ status' = [status EXCEPT ![l] = "pending"]
  /\ owed' = owed \cup {l}
  /\ UNCHANGED <<closed, gone, turned, sent, taken, lost>>

\* A delivery is started, and started again by a replay, by a worker's death or
\* by the broker's impatience.
Start(l) ==
  /\ status[l] # "none"
  /\ sent' = [sent EXCEPT ![l] = @ + 1]
  /\ owed' = owed \cup {l}
  /\ UNCHANGED <<status, closed, gone, turned, taken, lost>>

\* An attempt within what the starts allow.  The subscriber may accept it and the
\* gateway may learn of that, which it does once for each start at most: any other
\* attempt may be accepted too, and will be made again for all the gateway knows.
Attempt(l) ==
  /\ tried[l] < (MaxRetries + 1) * sent[l]
  /\ tried' = [tried EXCEPT ![l] = @ + 1]
  /\ received' \in {received, [received EXCEPT ![l] = @ + 1]}
  /\ \/ UNCHANGED confirmed
     \/ /\ confirmed[l] < sent[l]
        /\ received' # received
        /\ confirmed' = [confirmed EXCEPT ![l] = @ + 1]
  /\ UNCHANGED <<status, closed, gone, turned, sent, owed, lost>>

\* The gateway finds the subscriber closed when it comes to attempt a delivery.
TurnAway(l) ==
  /\ l \in owed
  /\ l \in closed \ gone
  /\ turned' = turned \cup {l}
  /\ owed' \in {owed, owed \ {l}}
  /\ status[l] \in Open => UNCHANGED owed
  /\ UNCHANGED <<status, closed, gone, sent, taken, lost>>

\* A status that is true.  Only a delivery started twice is reported twice.
Report(l, s) ==
  /\ \/ status[l] \in Open
     \/ status[l] \in Settled /\ sent[l] > 1
  /\ l \notin gone
  /\ s = "success" => confirmed[l] > 0
  /\ s = "failed" => tried[l] > MaxRetries \/ l \in turned
  /\ status' = [status EXCEPT ![l] = s]
  /\ IF s \in Settled THEN owed' \in {owed, owed \ {l}} ELSE owed' = owed \cup {l}
  /\ UNCHANGED <<closed, gone, turned, sent, taken, lost>>

\* A replay: the delivery is owed again, and pending unless it already was when
\* the replay began.
Reopen(l) ==
  /\ status[l] # "none"
  /\ l \notin gone
  /\ status' \in {status, [status EXCEPT ![l] = "pending"]}
  /\ owed' = owed \cup {l}
  /\ UNCHANGED <<closed, gone, turned, sent, taken, lost>>

\* Nothing is owed any more on a delivery that is settled or deleted.
Rest(l) ==
  /\ status[l] \in Settled \/ l \in gone
  /\ owed' = owed \ {l}
  /\ UNCHANGED <<status, closed, gone, turned, sent, taken, lost>>

Lose(l) ==
  /\ status[l] # "none"
  /\ lost' = lost \cup {l}
  /\ owed' \in {owed, owed \ {l}}
  /\ UNCHANGED <<status, closed, gone, turned, sent, taken>>

\* The operator disables or deletes a subscriber, or lets one in again.
Close(S) ==
  /\ closed' = closed \cup S
  /\ gone' \in {gone, gone \cup S}
  /\ UNCHANGED <<status, turned, sent, taken, owed, lost>>

Admit(S) ==
  /\ closed' = closed \ S
  /\ S \cap gone = {}
  /\ UNCHANGED <<status, gone, turned, sent, taken, owed, lost>>

Next ==
  \/ \E l \in Logs : \/ Accept(l) \/ Start(l) \/ Attempt(l) \/ TurnAway(l)
                     \/ Reopen(l) \/ Rest(l) \/ Lose(l)
                     \/ \E s \in {"success", "failed", "retrying"} : Report(l, s)
  \/ \E S \in SUBSET Logs : Close(S) \/ Admit(S)

Spec == Init /\ [][Next]_vars
=============================================================================
