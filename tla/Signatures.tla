----------------------------- MODULE Signatures -----------------------------
(***************************************************************************)
(* The signature of a delivery from the worker that writes it to the       *)
(* subscriber that checks it, with the verifier the gateway offers and the *)
(* example it publishes.                                                   *)
(*                                                                         *)
(* The gateway and a subscriber read clocks of their own, requests are     *)
(* late, come twice or are lost, and what lies between them may space a    *)
(* header, lengthen it, cut it, join it with another one or alter its time *)
(* stamp, and may encode a body anew.                                      *)
(***************************************************************************)
EXTENDS Integers, Sequences, FiniteSets

CONSTANTS
  Deliveries,      \* the delivery logs, one payload each
  Secrets,         \* the values of secret_token
  MaxRetries,      \* max_retries of send_webhook_event
  Tolerance,       \* tolerance_seconds of the verifier, 300 in the example too
  TicksPerSecond,  \* the resolution of the clocks
  MaxDrift,        \* bound: how far a subscriber's clock is off, in ticks
  MaxTime,         \* bound: when the clock of the gateway stops
  MaxChanged       \* bound: how many requests are changed on their way

ASSUME SignaturesAssumption ==
  /\ MaxRetries \in Nat /\ Tolerance \in Nat /\ TicksPerSecond \in Nat \ {0}
  /\ MaxDrift \in Nat /\ MaxTime \in Nat /\ MaxChanged \in Nat

VARIABLES
  clock,    \* time.time() of the gateway, in ticks
  drift,    \* what the subscriber's clock shows beyond it
  secret,   \* the secret_token of the endpoint
  copy,     \* the secret the subscriber checks with
  task,     \* the delivery's task: its retries and whether it waits for an answer
  wire,     \* the requests that may yet arrive, or arrive again; a lost one does not
  signed    \* history: what was signed, when

vars == <<clock, drift, secret, copy, task, wire, signed>>

----------------------------------------------------------------------------
(* Headers and signatures.  HMAC-SHA256 is ideal: a digest tells its key,  *)
(* its time stamp and its body.                                            *)

Digest(key, timestamp, body) ==
  [key |-> key, timestamp |-> timestamp, body |-> body]

Encodings == {"compact", "anew"}      \* json.dumps with separators, or another's
Bodies    == Deliveries \X Encodings

\* int() of a time in ticks.
Seconds(t) == t \div TicksPerSecond

\* A time stamp that int() refuses: the gateway writes none of this kind.
NoInteger == -1

\* A header is the list of what stands between its commas.
Element(name, value) == [name |-> name, value |-> value, spaced |-> FALSE]

\* generate_signature: t=...,v1=...
Header(key, timestamp, body) ==
  <<Element("t", timestamp), Element("v1", Digest(key, timestamp, body))>>

Named(header, name) == {i \in DOMAIN header : header[i].name = name}

\* Of several elements the last one counts, in a dict as in the loop of parse_header.
Final(places) == CHOOSE i \in places : \A j \in places : j <= i

Position(header, name) == Final(Named(header, name))

Complete(header) == Named(header, "t") # {} /\ Named(header, "v1") # {}

TimeStamp(header) == header[Position(header, "t")].value
Signature(header) == header[Position(header, "v1")].value

Distance(a, b) == IF a < b THEN b - a ELSE a - b

Timely(now, timestamp) == Distance(now, timestamp) <= Tolerance

\* Slip: the payload is encoded anew instead of taken as it came.
AuthenticReencoded(key, body, header) ==
  Signature(header) = Digest(key, TimeStamp(header), <<body[1], "compact">>)

Authentic(key, body, header) ==
  Signature(header) = Digest(key, TimeStamp(header), body)

\* WebhookSignatureVerifier.verify: valid, or which error it raises.  parse_header
\* skips what has no "=" and strips the rest.
Verify(body, header, key, now) ==
  IF ~Complete(header) THEN "malformed"
  ELSE IF TimeStamp(header) = NoInteger THEN "invalid"
  ELSE IF ~Timely(now, TimeStamp(header)) THEN "expired"
  ELSE IF ~Authentic(key, body, header) THEN "mismatch"
  ELSE "valid"

\* The subscriber's example: dict() raises on an element without "=", int() on a
\* text that is no integer, and a name with a space before it is another name.
Exactly(header, name) == {i \in Named(header, name) : ~header[i].spaced}

\* Slip: the time stamp is read and not compared.
ExampleTimelyAlways(now, timestamp) == TRUE

ExampleTimely(now, timestamp) == Distance(now, timestamp) <= Tolerance

Example(body, header, key, now) ==
  LET timestamp == header[Final(Exactly(header, "t"))].value
      signature == header[Final(Exactly(header, "v1"))].value
  IN IF Named(header, "") # {} THEN "raises"
     ELSE IF Exactly(header, "t") = {} \/ Exactly(header, "v1") = {} THEN "false"
     ELSE IF timestamp = NoInteger THEN "raises"
     ELSE IF ExampleTimely(now, timestamp) /\ signature = Digest(key, timestamp, body)
     THEN "true" ELSE "false"

----------------------------------------------------------------------------
Init ==
  /\ clock  \in MaxDrift..(MaxDrift + TicksPerSecond - 1)
  /\ drift  \in (-MaxDrift)..MaxDrift
  /\ secret \in Secrets
  /\ copy   \in Secrets
  /\ task   = [l \in Deliveries |-> [pc |-> "queued", retries |-> 0]]
  /\ wire   = {}
  /\ signed = {}

Tick ==
  /\ clock < MaxTime
  /\ clock' = clock + 1
  /\ UNCHANGED <<drift, secret, copy, task, wire, signed>>

Sent(l, timestamp) ==
  [delivery |-> l, retries |-> task[l].retries, body |-> <<l, "compact">>,
   header |-> Header(secret, timestamp, <<l, "compact">>),
   sent |-> clock, changed |-> FALSE]

\* Slip: the time stamp of the first attempt is used again.
StampKept(l) ==
  IF \E s \in signed : s.body[1] = l
    THEN (CHOOSE s \in signed : s.body[1] = l).timestamp
    ELSE Seconds(clock)

\* timestamp = str(int(time.time())), taken anew in every attempt.
Stamp(l) == Seconds(clock)

\* An attempt of the task, up to the request it sends.
Attempt(l) ==
  /\ task[l].pc = "queued"
  /\ task' = [task EXCEPT ![l].pc = "waiting"]
  /\ wire' = wire \cup {Sent(l, Stamp(l))}
  /\ signed' = signed \cup {[secret |-> secret, timestamp |-> Stamp(l), at |-> clock,
                             body |-> <<l, "compact">>]}
  /\ UNCHANGED <<clock, drift, secret, copy>>

\* Slip: max_retries is not looked at.
NextTryUnlimited(l) == [pc |-> "queued", retries |-> task[l].retries + 1]

\* No answer in time, or one that is not 2xx: the task is retried, or has failed.
NextTry(l) ==
  IF task[l].retries < MaxRetries
    THEN [pc |-> "queued", retries |-> task[l].retries + 1]
    ELSE [pc |-> "failed", retries |-> task[l].retries]

AttemptTimesOut(l) ==
  /\ task[l].pc = "waiting"
  /\ task' = [task EXCEPT ![l] = NextTry(l)]
  /\ UNCHANGED <<clock, drift, secret, copy, wire, signed>>

\* A header with a space after some of its commas.  The one before a header is
\* gone when it is read.
Spaced(header, places) ==
  [i \in DOMAIN header |-> [header[i] EXCEPT !.spaced = i \in places]]

\* What may become of a header on its way: nothing, an empty element at its end, a
\* cut after its first element, another time stamp in it, or another request's
\* header behind it.
Headers(m) ==
  {m.header, Append(m.header, Element("", 0)), SubSeq(m.header, 1, 1)}
  \cup {[m.header EXCEPT ![1] = Element("t", timestamp)] :
          timestamp \in {Seconds(clock), NoInteger}}
  \cup {m.header \o n.header : n \in {k \in wire : ~k.changed}}

Rewritten(m) ==
  {[m EXCEPT !.body[2] = "anew", !.changed = TRUE]}
  \cup UNION {{[m EXCEPT !.header = Spaced(header, places), !.changed = TRUE] :
                 places \in SUBSET (2..Len(header))} : header \in Headers(m)}

Rewrite(m) ==
  /\ ~m.changed
  /\ Cardinality({k \in wire : k.changed}) < MaxChanged
  /\ \E n \in Rewritten(m) : wire' = (wire \ {m}) \cup {n}
  /\ UNCHANGED <<clock, drift, secret, copy, task, signed>>

\* What the subscriber finds, were m to arrive now.
Verdict(m) == Verify(m.body, m.header, copy, Seconds(clock + drift))

\* A request arrives, for the first time or again, and is answered.  The answer
\* counts while the attempt that sent it waits.
Arrive(m) ==
  LET l == m.delivery IN
  /\ task' = IF task[l] # [pc |-> "waiting", retries |-> m.retries] THEN task
             ELSE [task EXCEPT ![l] =
                     IF Verdict(m) = "valid" THEN [@ EXCEPT !.pc = "delivered"]
                                             ELSE NextTry(l)]
  /\ UNCHANGED <<clock, drift, secret, copy, wire, signed>>

----------------------------------------------------------------------------
(* POST /verify-test: a call of the verifier by keyword, which changes     *)
(* nothing.                                                                *)

VerifyParameters == {"raw_body", "header_value", "secret", "current_time"}
VerifyRequired   == {"raw_body", "header_value", "secret"}
TestArguments    == {"raw_body", "header_value", "secret_token"}

VerifiedByGateway(m) ==
  Verify(<<m.delivery, "compact">>, m.header, secret, Seconds(clock)) = "valid"

\* The answer to a subscriber that submits the payload, the header and the secret of
\* m.  A call that does not fit its function raises TypeError, which the handler does
\* not catch.
TestAnswer(m) ==
  IF ~(TestArguments \subseteq VerifyParameters /\ VerifyRequired \subseteq TestArguments)
    THEN 500
  ELSE IF VerifiedByGateway(m) THEN 200 ELSE 400

----------------------------------------------------------------------------
Next ==
  \/ Tick
  \/ \E l \in Deliveries : Attempt(l) \/ AttemptTimesOut(l)
  \/ \E m \in wire : Rewrite(m) \/ Arrive(m)

Spec == Init /\ [][Next]_vars

----------------------------------------------------------------------------
(* Properties *)

Digests == [key : Secrets, timestamp : Nat, body : Bodies]

ElementType(e) ==
  /\ e.name \in {"t", "v1", ""} /\ e.spaced \in BOOLEAN
  /\ e.name = "t" => e.value \in Nat \cup {NoInteger}
  /\ e.name = "v1" => e.value \in Digests

RequestType(m) ==
  /\ m.delivery \in Deliveries /\ m.retries \in 0..MaxRetries /\ m.body \in Bodies
  /\ m.sent \in Nat /\ m.changed \in BOOLEAN
  /\ \A i \in DOMAIN m.header : ElementType(m.header[i])

\* Every variable has its type.
TypeOK ==
  /\ clock \in Nat /\ drift \in (-MaxDrift)..MaxDrift
  /\ secret \in Secrets /\ copy \in Secrets
  /\ task \in [Deliveries -> [pc : {"queued", "waiting", "delivered", "failed"},
                              retries : 0..MaxRetries]]
  /\ \A m \in wire : RequestType(m)
  /\ signed \subseteq [secret : Secrets, timestamp : Nat, at : Nat, body : Bodies]

\* A first attempt or a retry that arrives as it was sent, with the clocks and the
\* way together within the tolerance, is valid however long the task has waited.
FreshIsAccepted ==
  \A m \in wire :
    /\ ~m.changed /\ copy = secret
    /\ Distance(clock + drift, m.sent) <= Tolerance * TicksPerSecond
    => Verdict(m) = "valid"

\* The body of m was signed with the secret the subscriber holds, less than the
\* tolerance and a second away from the subscriber's clock.
Backed(m) ==
  \E s \in signed :
    /\ s.secret = copy /\ s.body = m.body
    /\ Distance(clock + drift, s.at) < (Tolerance + 1) * TicksPerSecond

\* What is valid, now or late or twice, spaced, cut or joined with another header,
\* was signed over this body with this secret within the tolerance.
AcceptedIsAuthentic == \A m \in wire : Verdict(m) = "valid" => Backed(m)

\* What the subscriber's example accepts was signed within the tolerance too.  It
\* agrees with the verifier on every request that arrives as it was sent; on one
\* whose header was joined or spaced the two may differ either way.
ExampleIsSound ==
  \A m \in wire :
    LET example == Example(m.body, m.header, copy, Seconds(clock + drift)) IN
    /\ example = "true" => Backed(m)
    /\ ~m.changed => (Verdict(m) = "valid") = (example = "true")

----------------------------------------------------------------------------
\* "Subscribers can use this endpoint to test their signature generation and
\* verification.": what is valid is answered 200.
VerifyTestTells == \A m \in wire : VerifiedByGateway(m) => TestAnswer(m) = 200
=============================================================================
