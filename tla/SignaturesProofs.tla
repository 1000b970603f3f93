-------------------------- MODULE SignaturesProofs --------------------------
(***************************************************************************)
(* Proofs of what a subscriber may rely on that checks signatures, for     *)
(* every tolerance, resolution and drift of the clocks: what is fresh is   *)
(* accepted, and what is accepted was signed.                              *)
(***************************************************************************)
EXTENDS Signatures, SequenceTheorems, WellFoundedInduction, TLAPS

USE SignaturesAssumption

----------------------------------------------------------------------------
(* Whole seconds. *)

LEMMA Second ==
  ASSUME NEW t \in Int, NEW k \in Nat \ {0}
  PROVE  t \div k \in Int /\ k * (t \div k) <= t /\ t < k * (t \div k) + k
  OBVIOUS

LEMMA SecondsCount ==
  ASSUME NEW t \in Nat
  PROVE  Seconds(t) \in Nat
  BY Second DEF Seconds

\* Times that are near each other show seconds that are.
LEMMA SecondsNear ==
  ASSUME NEW a \in Int, NEW b \in Int, Distance(a, b) <= Tolerance * TicksPerSecond
  PROVE  Distance(Seconds(a), Seconds(b)) <= Tolerance
<1>. DEFINE p == a \div TicksPerSecond
            q == b \div TicksPerSecond
<1>1. /\ p \in Int /\ TicksPerSecond * p <= a /\ a < TicksPerSecond * p + TicksPerSecond
      /\ q \in Int /\ TicksPerSecond * q <= b /\ b < TicksPerSecond * q + TicksPerSecond
  BY Second
<1>. HIDE DEF p, q
<1>2. a - b <= Tolerance * TicksPerSecond /\ b - a <= Tolerance * TicksPerSecond
  BY DEF Distance
<1>3. ASSUME NEW x \in Int, NEW y \in Int, NEW c \in Int, NEW d \in Int,
             TicksPerSecond * x <= c, d < TicksPerSecond * y + TicksPerSecond,
             c - d <= Tolerance * TicksPerSecond
      PROVE  x - y <= Tolerance
  <2>. SUFFICES ASSUME x - y >= Tolerance + 1 PROVE FALSE
    BY <1>3
  <2>1. TicksPerSecond * (x - y) >= TicksPerSecond * (Tolerance + 1)
    BY <1>3
  <2>2. TicksPerSecond * (x - y) = TicksPerSecond * x - TicksPerSecond * y
    BY <1>3
  <2>3. TicksPerSecond * (Tolerance + 1) = Tolerance * TicksPerSecond + TicksPerSecond
    OBVIOUS
  <2>. QED BY <1>3, <2>1, <2>2, <2>3
<1>4. p - q <= Tolerance /\ q - p <= Tolerance
  BY <1>1, <1>2, <1>3
<1>. QED BY <1>1, <1>4 DEF Distance, Seconds, p, q

\* Seconds that are near each other are shown by times that are.
LEMMA TimesNear ==
  ASSUME NEW a \in Int, NEW b \in Int, Distance(Seconds(a), Seconds(b)) <= Tolerance
  PROVE  Distance(a, b) < (Tolerance + 1) * TicksPerSecond
<1>. DEFINE p == a \div TicksPerSecond
            q == b \div TicksPerSecond
<1>1. /\ p \in Int /\ TicksPerSecond * p <= a /\ a < TicksPerSecond * p + TicksPerSecond
      /\ q \in Int /\ TicksPerSecond * q <= b /\ b < TicksPerSecond * q + TicksPerSecond
  BY Second
<1>2. p - q <= Tolerance /\ q - p <= Tolerance
  BY <1>1 DEF Distance, Seconds
<1>. HIDE DEF p, q
<1>3. ASSUME NEW x \in Int, NEW y \in Int, NEW c \in Int, NEW d \in Int,
             c < TicksPerSecond * x + TicksPerSecond, TicksPerSecond * y <= d,
             x - y <= Tolerance
      PROVE  c - d < (Tolerance + 1) * TicksPerSecond
  <2>1. TicksPerSecond * (x - y) <= TicksPerSecond * Tolerance
    BY <1>3
  <2>2. TicksPerSecond * (x - y) = TicksPerSecond * x - TicksPerSecond * y
    BY <1>3
  <2>3. (Tolerance + 1) * TicksPerSecond = TicksPerSecond * Tolerance + TicksPerSecond
    OBVIOUS
  <2>. QED BY <1>3, <2>1, <2>2, <2>3
<1>4. /\ a - b < (Tolerance + 1) * TicksPerSecond
      /\ b - a < (Tolerance + 1) * TicksPerSecond
  BY <1>1, <1>2, <1>3
<1>. QED BY <1>4 DEF Distance

----------------------------------------------------------------------------
(* The invariant. *)

Elements ==
  [name : {"t", "v1", ""}, value : Nat \cup {NoInteger} \cup Digests, spaced : BOOLEAN]

Messages == [delivery : Deliveries, retries : 0..MaxRetries, body : Bodies,
             header : Seq(Elements), sent : Nat, changed : BOOLEAN]

\* Elements with no digest that the gateway has not made.
Honest ==
  {e \in Elements :
     /\ e.name = "t" => e.value \in Nat \cup {NoInteger}
     /\ e.name = "v1" =>
          /\ e.value \in Digests
          /\ \E s \in signed : e.value = Digest(s.secret, s.timestamp, s.body)}

AsSent(m) ==
  /\ m.body = <<m.delivery, "compact">>
  /\ m.header = Header(secret, Seconds(m.sent), m.body)

StateType ==
  /\ clock \in Nat /\ MaxDrift <= clock /\ drift \in (-MaxDrift)..MaxDrift
  /\ secret \in Secrets /\ copy \in Secrets
  /\ task \in [Deliveries -> [pc : {"queued", "waiting", "delivered", "failed"},
                              retries : 0..MaxRetries]]
  /\ signed \subseteq [secret : Secrets, timestamp : Nat, at : Nat, body : Bodies]

Way ==
  /\ \A m \in wire :
       m \in Messages /\ m.header \in Seq(Honest) /\ (~m.changed => AsSent(m))
  /\ \A s \in signed : s.timestamp = Seconds(s.at)

Inv == StateType /\ Way

LEMMA InvTypes ==
  ASSUME Inv
  PROVE  TypeOK
<1>1. \A m \in wire : RequestType(m)
  <2>. SUFFICES ASSUME NEW m \in wire PROVE RequestType(m)
    OBVIOUS
  <2>1. m \in Messages /\ m.header \in Seq(Honest)
    BY DEF Inv, Way
  <2>2. \A i \in DOMAIN m.header : m.header[i] \in Honest
    BY <2>1
  <2>3. \A i \in DOMAIN m.header : ElementType(m.header[i])
    BY <2>2 DEF Honest, ElementType, Elements
  <2>. QED BY <2>1, <2>3 DEF RequestType, Messages
<1>. QED BY <1>1 DEF TypeOK, Inv, StateType

\* A set of numbers up to a bound has a greatest one: the least distance from the
\* bound is its.
LEMMA HasGreatest ==
  ASSUME NEW n \in Nat, NEW S \in SUBSET (1..n), S # {}
  PROVE  \E i \in S : \A j \in S : j <= i
<1>. DEFINE less == {ss \in Nat \X Nat : ss[1] < ss[2]}
            T    == {k \in Nat : n - k \in S}
<1>1. PICK i \in S : TRUE
  OBVIOUS
<1>2. n - i \in T
  OBVIOUS
<1>3. IsWellFoundedOn(less, Nat)
  BY NatLessThanWellFounded DEF OpToRel
<1>4. PICK k \in T : \A j \in T : ~(j < k)
  <2>1. T \subseteq Nat /\ T # {}
    BY <1>2
  <2>2. \A j, k \in T : <<j, k>> \in less <=> j < k
    BY <2>1
  <2>. HIDE DEF T, less
  <2>3. \E k \in T : \A j \in T : ~(<<j, k>> \in less)
    BY <1>3, <2>1, WFMin
  <2>. QED BY <2>2, <2>3
<1>5. \A j \in S : n - j \in T
  OBVIOUS
<1>6. n - k \in S /\ k \in Nat
  OBVIOUS
<1>7. \A j \in S : j \in Int /\ ~(n - j < k)
  BY <1>4, <1>5
<1>. QED BY <1>6, <1>7

\* The last of several places in a header is one of them.
LEMMA FinalIsOne ==
  ASSUME NEW h \in Seq(Honest), NEW places \in SUBSET DOMAIN h, places # {}
  PROVE  Final(places) \in places
<1>1. Len(h) \in Nat /\ DOMAIN h = 1..Len(h)
  BY LenProperties
<1>2. \E i \in places : \A j \in places : j <= i
  BY <1>1, HasGreatest
<1>. QED BY <1>2 DEF Final

\* A digest that stands in a header is one the gateway has made.
LEMMA FoundIsSigned ==
  ASSUME NEW h \in Seq(Honest), NEW places \in SUBSET Named(h, "v1"), places # {}
  PROVE  \E s \in signed : h[Final(places)].value = Digest(s.secret, s.timestamp, s.body)
<1>1. Final(places) \in places
  BY FinalIsOne DEF Named
<1>2. Final(places) \in DOMAIN h /\ h[Final(places)].name = "v1"
  BY <1>1 DEF Named
<1>3. h[Final(places)] \in Honest
  BY <1>2
<1>. QED BY <1>2, <1>3 DEF Honest

\* The header of an attempt.
LEMMA HeaderParts ==
  ASSUME NEW key, NEW timestamp, NEW body
  PROVE  LET header == Header(key, timestamp, body) IN
         /\ DOMAIN header = 1..2
         /\ header[1] = Element("t", timestamp)
         /\ header[2] = Element("v1", Digest(key, timestamp, body))
         /\ Named(header, "t") = {1} /\ Named(header, "v1") = {2}
         /\ Position(header, "t") = 1 /\ Position(header, "v1") = 2
<1>. DEFINE header == Header(key, timestamp, body)
<1>1. /\ DOMAIN header = 1..2
      /\ header[1] = Element("t", timestamp)
      /\ header[2] = Element("v1", Digest(key, timestamp, body))
  BY DEF Header
<1>2. Named(header, "t") = {1} /\ Named(header, "v1") = {2}
  BY <1>1 DEF Named, Element
<1>3. Position(header, "t") = 1 /\ Position(header, "v1") = 2
  BY <1>2 DEF Position, Final
<1>. QED BY <1>1, <1>2, <1>3

\* A sequence is one over a larger set too.
LEMMA SeqGrows ==
  ASSUME NEW S, NEW T, S \subseteq T, NEW h \in Seq(S)
  PROVE  h \in Seq(T)
<1>1. PICK n \in Nat : h \in [1..n -> S]
  BY SeqDef
<1>2. h \in [1..n -> T]
  BY <1>1
<1>. QED BY <1>2, SeqDef

\* What is signed stays signed.
LEMMA HonestKept ==
  ASSUME NEW h \in Seq(Honest), signed \subseteq signed'
  PROVE  h \in Seq(Honest)'
<1>1. PICK T : T = Honest'
  OBVIOUS
<1>2. Honest \subseteq T
  BY <1>1 DEF Honest
<1>3. h \in Seq(T)
  BY <1>2, SeqGrows
<1>. QED BY <1>1, <1>3

\* A space changes no name and no value.
LEMMA SpacedHonest ==
  ASSUME NEW h \in Seq(Honest), NEW places
  PROVE  Spaced(h, places) \in Seq(Honest)
<1>1. PICK n \in Nat : h \in [1..n -> Honest]
  BY SeqDef
<1>2. ASSUME NEW e \in Honest, NEW b \in BOOLEAN
      PROVE  [e EXCEPT !.spaced = b] \in Honest
  BY DEF Honest, Elements
<1>3. Spaced(h, places) = [i \in 1..n |-> [h[i] EXCEPT !.spaced = (i \in places)]]
  BY <1>1 DEF Spaced
<1>4. \A i \in 1..n : h[i] \in Honest /\ (i \in places) \in BOOLEAN
  BY <1>1
<1>5. \A i \in 1..n : [h[i] EXCEPT !.spaced = (i \in places)] \in Honest
  BY <1>2, <1>4
<1>6. Spaced(h, places) \in [1..n -> Honest]
  BY <1>3, <1>5
<1>. QED BY <1>6, SeqDef

LEMMA InvInit ==
  ASSUME Init
  PROVE  Inv
<1>1. clock \in Nat /\ MaxDrift <= clock
  BY DEF Init
<1>2. StateType
  BY <1>1 DEF Init, StateType
<1>. QED BY <1>2 DEF Inv, Way, Init

\* What an attempt sends carries a digest the gateway has made.
LEMMA SentHeaders ==
  ASSUME Inv, NEW l \in Deliveries, Attempt(l), NEW m, m = Sent(l, Stamp(l))
  PROVE  m \in Messages /\ m.header \in Seq(Honest)' /\ AsSent(m)'
<1>1. PICK now, body, h : now = Seconds(clock) /\ body = <<l, "compact">>
                          /\ h = Header(secret, now, body)
  OBVIOUS
<1>2. /\ clock \in Nat /\ secret \in Secrets /\ task[l].retries \in 0..MaxRetries
  BY DEF Inv, StateType
<1>3. now \in Nat
  BY <1>1, <1>2, Second DEF Seconds
<1>4. body \in Bodies
  BY <1>1 DEF Bodies, Encodings
<1>5. m = [delivery |-> l, retries |-> task[l].retries, body |-> body,
           header |-> h, sent |-> clock, changed |-> FALSE]
  BY <1>1 DEF Sent, Stamp
<1>6. Digest(secret, now, body) \in Digests
  BY <1>2, <1>3, <1>4 DEF Digest, Digests
<1>7. /\ Element("t", now) \in Elements
      /\ Element("v1", Digest(secret, now, body)) \in Elements
  BY <1>3, <1>6 DEF Element, Elements
<1>8. h \in Seq(Elements)
  BY <1>1, <1>7 DEF Header
<1>12. secret' = secret
  BY DEF Attempt
<1>13. \E s \in signed' : s.secret = secret /\ s.timestamp = now /\ s.body = body
  <2>1. [secret |-> secret, timestamp |-> now, at |-> clock, body |-> body] \in signed'
    <3>1. signed' = signed \cup {[secret |-> secret, timestamp |-> Stamp(l), at |-> clock,
                                  body |-> <<l, "compact">>]}
      BY Zenon DEF Attempt
    <3>. QED BY <1>1, <3>1 DEF Stamp
  <2>. QED BY <2>1
<1>14. h \in Seq(Honest)'
  <2>1. PICK T : T = Honest'
    OBVIOUS
  <2>2. Element("t", now) \in T /\ Element("v1", Digest(secret, now, body)) \in T
    BY <1>3, <1>6, <1>7, <1>13, <2>1 DEF Honest, Element
  <2>3. h \in Seq(T)
    BY <1>1, <2>2 DEF Header
  <2>. QED BY <2>1, <2>3
<1>15. m \in Messages
  BY <1>2, <1>4, <1>5, <1>8 DEF Messages
<1>16. m.header = h /\ m.body = body /\ m.sent = clock /\ m.delivery = l
  BY <1>5
<1>17. AsSent(m)'
  BY <1>1, <1>12, <1>16 DEF AsSent
<1>. QED BY <1>14, <1>15, <1>16, <1>17

\* Whatever lies on the way makes of a header, it signs nothing.
LEMMA HeadersHonest ==
  ASSUME Inv, NEW m \in wire, ~m.changed, NEW g \in Headers(m)
  PROVE  g \in Seq(Honest)
<1>1. PICK h : h = m.header
  OBVIOUS
<1>2. m \in Messages /\ h \in Seq(Honest) /\ AsSent(m)
  BY <1>1 DEF Inv, Way
<1>3. DOMAIN h = 1..2 /\ Len(h) = 2
  <2>1. DOMAIN h = 1..2
    BY <1>1, <1>2, HeaderParts DEF AsSent
  <2>2. Len(h) = 2
    BY <1>1, <1>2 DEF AsSent, Header
  <2>. QED BY <2>1, <2>2
<1>4. CASE g = Append(h, Element("", 0))
  <2>1. PICK e : e = Element("", 0)
    OBVIOUS
  <2>2. e \in Honest
    BY <2>1 DEF Element, Elements, Honest
  <2>. QED BY <1>2, <1>4, <2>1, <2>2, AppendProperties
<1>5. CASE g = SubSeq(h, 1, 1)
  BY <1>2, <1>3, <1>5, SubSeqProperties
<1>6. ASSUME NEW timestamp \in {Seconds(clock), NoInteger},
             g = [h EXCEPT ![1] = Element("t", timestamp)]
      PROVE  g \in Seq(Honest)
  <2>1. PICK e : e = Element("t", timestamp)
    OBVIOUS
  <2>2. timestamp \in Nat \cup {NoInteger}
    BY Second DEF Inv, StateType, Seconds
  <2>3. e \in Honest
    BY <2>1, <2>2 DEF Element, Elements, Honest
  <2>. QED BY <1>2, <1>3, <1>6, <2>1, <2>3, ExceptSeq
<1>7. ASSUME NEW k \in wire, g = h \o k.header
      PROVE  g \in Seq(Honest)
  <2>1. PICK f : f = k.header
    OBVIOUS
  <2>2. f \in Seq(Honest)
    BY <2>1 DEF Inv, Way
  <2>. QED BY <1>2, <1>7, <2>1, <2>2, ConcatProperties
<1>8. \/ g = h \/ g = Append(h, Element("", 0)) \/ g = SubSeq(h, 1, 1)
      \/ \E timestamp \in {Seconds(clock), NoInteger} :
           g = [h EXCEPT ![1] = Element("t", timestamp)]
      \/ \E k \in wire : g = h \o k.header
  BY <1>1 DEF Headers
<1>. QED BY <1>2, <1>4, <1>5, <1>6, <1>7, <1>8

LEMMA RewrittenType ==
  ASSUME Inv, NEW m \in wire, ~m.changed, NEW n \in Rewritten(m)
  PROVE  n \in Messages /\ n.header \in Seq(Honest) /\ n.changed
<1>1. m \in Messages /\ m.header \in Seq(Honest)
  BY DEF Inv, Way
<1>2. ASSUME NEW header \in Headers(m), NEW places \in SUBSET (2..Len(header)),
             n = [m EXCEPT !.header = Spaced(header, places), !.changed = TRUE]
      PROVE  n \in Messages /\ n.header \in Seq(Honest) /\ n.changed
  <2>1. PICK g : g = Spaced(header, places)
    OBVIOUS
  <2>2. g \in Seq(Honest)
    BY <2>1, HeadersHonest, SpacedHonest
  <2>3. g \in Seq(Elements)
    <3>1. Honest \subseteq Elements
      BY DEF Honest
    <3>. QED BY <2>2, <3>1, SeqGrows
  <2>4. n = [m EXCEPT !.header = g, !.changed = TRUE]
    BY <1>2, <2>1
  <2>5. n.header = g /\ n.changed = TRUE
    BY <1>1, <2>4 DEF Messages
  <2>6. n \in Messages
    BY <1>1, <2>3, <2>4 DEF Messages
  <2>. QED BY <2>2, <2>5, <2>6
<1>3. CASE n = [m EXCEPT !.body[2] = "anew", !.changed = TRUE]
  <2>1. PICK b : b = [m.body EXCEPT ![2] = "anew"]
    OBVIOUS
  <2>2. b \in Bodies
    BY <1>1, <2>1 DEF Messages, Bodies, Encodings
  <2>3. n = [m EXCEPT !.body = b, !.changed = TRUE]
    BY <1>1, <1>3, <2>1 DEF Messages
  <2>4. n \in Messages /\ n.header = m.header /\ n.changed = TRUE
    BY <1>1, <2>2, <2>3 DEF Messages
  <2>. QED BY <1>1, <2>4
<1>4. \/ \E header \in Headers(m) : \E places \in SUBSET (2..Len(header)) :
           n = [m EXCEPT !.header = Spaced(header, places), !.changed = TRUE]
      \/ n = [m EXCEPT !.body[2] = "anew", !.changed = TRUE]
  <2>. DEFINE Variants(header) ==
                {[m EXCEPT !.header = Spaced(header, places), !.changed = TRUE] :
                   places \in SUBSET (2..Len(header))}
  <2>1. \/ n \in UNION {Variants(header) : header \in Headers(m)}
        \/ n \in {[m EXCEPT !.body[2] = "anew", !.changed = TRUE]}
    BY Zenon DEF Rewritten
  <2>2. ASSUME NEW header \in Headers(m), n \in Variants(header)
        PROVE  \E places \in SUBSET (2..Len(header)) :
                 n = [m EXCEPT !.header = Spaced(header, places), !.changed = TRUE]
    BY Zenon, <2>2
  <2>. HIDE DEF Variants
  <2>3. CASE n \in UNION {Variants(header) : header \in Headers(m)}
    <3>1. \E header \in Headers(m) : n \in Variants(header)
      BY <2>3
    <3>. QED BY <2>2, <3>1, Zenon
  <2>. QED BY <2>1, <2>3
<1>. QED BY <1>2, <1>3, <1>4

\* A wire that only loses requests, and only gains what is sound.
LEMMA WayKept ==
  ASSUME Inv, signed' = signed, secret' = secret, NEW new,
         wire' \subseteq wire \cup new,
         \A n \in new : n \in Messages /\ n.header \in Seq(Honest) /\ n.changed
  PROVE  Way'
<1>1. \A m \in wire : m \in Messages /\ m.header \in Seq(Honest) /\ (~m.changed => AsSent(m))
  BY DEF Inv, Way
<1>2. \A h \in Seq(Honest) : h \in Seq(Honest)'
  BY HonestKept
<1>3. \A m : AsSent(m) => AsSent(m)'
  BY DEF AsSent
<1>4. ASSUME NEW m \in wire'
      PROVE  m \in Messages /\ m.header \in Seq(Honest)' /\ (~m.changed => AsSent(m)')
  BY <1>1, <1>2, <1>3
<1>5. \A s \in signed' : s.timestamp = Seconds(s.at)
  BY DEF Inv, Way
<1>. QED BY <1>4, <1>5 DEF Way

LEMMA WayStays ==
  ASSUME Inv, signed' = signed, secret' = secret, wire' \subseteq wire
  PROVE  Way'
<1>. DEFINE new == {}
<1>1. wire' \subseteq wire \cup new
     /\ \A n \in new : n \in Messages /\ n.header \in Seq(Honest) /\ n.changed
  OBVIOUS
<1>. HIDE DEF new
<1>. QED BY <1>1, WayKept

LEMMA TaskKept ==
  ASSUME StateType, NEW l \in Deliveries,
         NEW t \in [pc : {"queued", "waiting", "delivered", "failed"}, retries : 0..MaxRetries],
         task' = [task EXCEPT ![l] = t] \/ task' = task
  PROVE  task' \in [Deliveries -> [pc : {"queued", "waiting", "delivered", "failed"},
                                   retries : 0..MaxRetries]]
  BY DEF StateType

LEMMA NextTryType ==
  ASSUME StateType, NEW l \in Deliveries
  PROVE  NextTry(l) \in [pc : {"queued", "waiting", "delivered", "failed"},
                         retries : 0..MaxRetries]
<1>1. task[l].retries \in 0..MaxRetries
  BY DEF StateType
<1>. QED BY <1>1 DEF NextTry

LEMMA InvNext ==
  ASSUME Inv, [Next]_vars
  PROVE  Inv'
<1>. USE DEF Inv
<1>1. CASE Tick
  <2>1. Way'
    BY <1>1, WayStays DEF Tick
  <2>2. clock' \in Nat /\ MaxDrift <= clock'
    BY <1>1 DEF Tick, StateType
  <2>. QED BY <1>1, <2>1, <2>2 DEF Tick, StateType
<1>2. ASSUME NEW l \in Deliveries, Attempt(l)
      PROVE  Inv'
  <2>1. PICK m : m = Sent(l, Stamp(l))
    OBVIOUS
  <2>2. m \in Messages /\ m.header \in Seq(Honest)' /\ AsSent(m)'
    BY <1>2, <2>1, SentHeaders
  <2>3. wire' = wire \cup {m}
    BY <1>2, <2>1 DEF Attempt
  <2>4. PICK s : s = [secret |-> secret, timestamp |-> Stamp(l), at |-> clock,
                      body |-> <<l, "compact">>]
    OBVIOUS
  <2>5. signed' = signed \cup {s} /\ signed \subseteq signed'
    BY <1>2, <2>4, Zenon DEF Attempt
  <2>6. s.timestamp = Seconds(s.at)
    BY <2>4 DEF Stamp
  <2>7. clock \in Nat /\ secret \in Secrets /\ Seconds(clock) \in Nat
    BY Second DEF StateType, Seconds
  <2>8. s \in [secret : Secrets, timestamp : Nat, at : Nat, body : Bodies]
    BY <2>4, <2>7 DEF Stamp, Bodies, Encodings
  <2>9. UNCHANGED <<clock, drift, secret, copy>>
    BY <1>2 DEF Attempt
  <2>10. \A k \in wire : k \in Messages /\ k.header \in Seq(Honest)' /\ (~k.changed => AsSent(k)')
    BY <2>5, <2>9, HonestKept DEF Way, AsSent
  <2>11. Way'
    <3>1. \A k \in wire' : k \in Messages /\ k.header \in Seq(Honest)' /\ (~k.changed => AsSent(k)')
      BY <2>2, <2>3, <2>10
    <3>2. \A k \in signed' : k.timestamp = Seconds(k.at)
      BY <2>5, <2>6 DEF Way
    <3>. QED BY <3>1, <3>2 DEF Way
  <2>12. task' \in [Deliveries -> [pc : {"queued", "waiting", "delivered", "failed"},
                                   retries : 0..MaxRetries]]
    <3>1. task' = [task EXCEPT ![l].pc = "waiting"]
      BY <1>2 DEF Attempt
    <3>. QED BY <3>1 DEF StateType
  <2>13. signed' \subseteq [secret : Secrets, timestamp : Nat, at : Nat, body : Bodies]
    BY <2>5, <2>8 DEF StateType
  <2>. QED BY <2>9, <2>11, <2>12, <2>13 DEF StateType
<1>3. ASSUME NEW l \in Deliveries, AttemptTimesOut(l)
      PROVE  Inv'
  <2>1. Way'
    BY <1>3, WayStays DEF AttemptTimesOut
  <2>2. task' \in [Deliveries -> [pc : {"queued", "waiting", "delivered", "failed"},
                                  retries : 0..MaxRetries]]
    BY <1>3, NextTryType, TaskKept DEF AttemptTimesOut
  <2>. QED BY <1>3, <2>1, <2>2 DEF AttemptTimesOut, StateType
<1>4. ASSUME NEW m \in wire, Rewrite(m)
      PROVE  Inv'
  <2>1. PICK n \in Rewritten(m) : wire' = (wire \ {m}) \cup {n}
    BY <1>4, Zenon DEF Rewrite
  <2>2. n \in Messages /\ n.header \in Seq(Honest) /\ n.changed
    BY <1>4, RewrittenType DEF Rewrite
  <2>3. UNCHANGED <<clock, drift, secret, copy, task, signed>>
    BY <1>4, Zenon DEF Rewrite
  <2>4. wire' \subseteq wire \cup {n}
    BY <2>1
  <2>5. Way'
    BY <2>2, <2>3, <2>4, WayKept
  <2>. QED BY <2>3, <2>5 DEF StateType
<1>5. ASSUME NEW m \in wire, Arrive(m)
      PROVE  Inv'
  <2>1. UNCHANGED <<clock, drift, secret, copy, wire, signed>>
    BY <1>5, Zenon DEF Arrive
  <2>2. Way'
    BY <2>1, WayStays
  <2>3. m.delivery \in Deliveries
    BY DEF Way, Messages
  <2>4. PICK l \in Deliveries : l = m.delivery
    BY <2>3
  <2>5. [task[l] EXCEPT !.pc = "delivered"] \in
          [pc : {"queued", "waiting", "delivered", "failed"}, retries : 0..MaxRetries]
    BY DEF StateType
  <2>6. \/ task' = task
        \/ task' = [task EXCEPT ![l] = [task[l] EXCEPT !.pc = "delivered"]]
        \/ task' = [task EXCEPT ![l] = NextTry(l)]
    BY <1>5, <2>4, Zenon DEF Arrive
  <2>7. task' \in [Deliveries -> [pc : {"queued", "waiting", "delivered", "failed"},
                                  retries : 0..MaxRetries]]
    BY <2>5, <2>6, NextTryType, TaskKept
  <2>. QED BY <2>1, <2>2, <2>7 DEF StateType
<1>6. CASE UNCHANGED vars
  <2>1. UNCHANGED <<clock, drift, secret, copy, task, wire, signed>>
    BY <1>6 DEF vars
  <2>2. Way'
    BY <2>1, WayStays
  <2>. QED BY <2>1, <2>2 DEF StateType
<1>7. \/ Tick \/ UNCHANGED vars
      \/ \E l \in Deliveries : Attempt(l) \/ AttemptTimesOut(l)
      \/ \E m \in wire : Rewrite(m) \/ Arrive(m)
  BY Zenon DEF Next
<1>. HIDE DEF Inv
<1>. QED BY <1>1, <1>2, <1>3, <1>4, <1>5, <1>6, <1>7, Zenon

LEMMA InvHolds == Spec => []Inv
  BY InvInit, InvNext, PTL DEF Spec

----------------------------------------------------------------------------
(* The theorems. *)

\* Every variable has its type: among them, a task never makes more retries than
\* it may, whatever arrives late or twice.
THEOREM TypeCorrect == Spec => []TypeOK
  BY InvHolds, InvTypes, PTL

\* A first attempt or a retry that arrives as it was sent, with the clocks and the
\* way together within the tolerance, is valid.
THEOREM FreshAccepted == Spec => []FreshIsAccepted
<1>1. ASSUME Inv PROVE FreshIsAccepted
  <2>. SUFFICES ASSUME NEW m \in wire, ~m.changed, copy = secret,
                       Distance(clock + drift, m.sent) <= Tolerance * TicksPerSecond
                PROVE  Verdict(m) = "valid"
    BY DEF FreshIsAccepted
  <2>1. m \in Messages /\ AsSent(m)
    BY <1>1 DEF Inv, Way
  <2>2. PICK h, body, now : h = m.header /\ body = m.body /\ now = clock + drift
    OBVIOUS
  <2>3. h = Header(copy, Seconds(m.sent), body)
    BY <2>1, <2>2 DEF AsSent
  <2>4. /\ h[1] = Element("t", Seconds(m.sent))
        /\ h[2] = Element("v1", Digest(copy, Seconds(m.sent), body))
        /\ Named(h, "t") = {1} /\ Named(h, "v1") = {2}
        /\ Position(h, "t") = 1 /\ Position(h, "v1") = 2
    BY <2>3, HeaderParts
  <2>5. Complete(h)
    BY <2>4 DEF Complete
  <2>6. TimeStamp(h) = Seconds(m.sent) /\ Signature(h) = Digest(copy, Seconds(m.sent), body)
    BY <2>4 DEF TimeStamp, Signature, Element
  <2>7. now \in Int /\ m.sent \in Int
    BY <1>1, <2>1, <2>2 DEF Inv, StateType, Messages
  <2>8. Distance(Seconds(now), Seconds(m.sent)) <= Tolerance
    BY <2>2, <2>7, SecondsNear
  <2>9. Timely(Seconds(now), TimeStamp(h)) /\ Authentic(copy, body, h)
    BY <2>6, <2>8 DEF Timely, Authentic
  <2>10. Seconds(m.sent) # NoInteger
    BY <2>1, SecondsCount DEF Messages, NoInteger
  <2>. QED BY <2>2, <2>5, <2>6, <2>9, <2>10 DEF Verdict, Verify
<1>. QED BY <1>1, InvHolds, PTL

\* A digest over the body of a request, with the subscriber's secret and a time
\* stamp near its clock, that stands in the request's header, backs it.
LEMMA FoundBacks ==
  ASSUME Inv, NEW m \in wire, NEW places \in SUBSET Named(m.header, "v1"), places # {},
         NEW timestamp, Distance(Seconds(clock + drift), timestamp) <= Tolerance,
         m.header[Final(places)].value = Digest(copy, timestamp, m.body)
  PROVE  Backed(m)
<1>1. PICK now : now = clock + drift
  OBVIOUS
<1>2. m.header \in Seq(Honest)
  BY DEF Inv, Way
<1>3. PICK s \in signed : Digest(s.secret, s.timestamp, s.body)
                             = Digest(copy, timestamp, m.body)
  BY <1>2, FoundIsSigned
<1>4. s.secret = copy /\ s.timestamp = timestamp /\ s.body = m.body
  BY <1>3 DEF Digest
<1>5. s.timestamp = Seconds(s.at) /\ s.at \in Int /\ now \in Int
  BY <1>1 DEF Inv, Way, StateType
<1>6. Distance(now, s.at) < (Tolerance + 1) * TicksPerSecond
  BY <1>1, <1>4, <1>5, TimesNear
<1>. QED BY <1>1, <1>4, <1>6 DEF Backed

\* What is valid was signed over this body with the secret the subscriber holds,
\* and less than the tolerance and a second away from the subscriber's clock.
THEOREM AcceptedAuthentic == Spec => []AcceptedIsAuthentic
<1>1. ASSUME Inv PROVE AcceptedIsAuthentic
  <2>. SUFFICES ASSUME NEW m \in wire, Verdict(m) = "valid"
                PROVE  Backed(m)
    BY Zenon DEF AcceptedIsAuthentic
  <2>1. PICK h, now : h = m.header /\ now = Seconds(clock + drift)
    OBVIOUS
  <2>2. Complete(h) /\ Timely(now, TimeStamp(h)) /\ Authentic(copy, m.body, h)
    BY <2>1 DEF Verdict, Verify
  <2>3. Named(h, "v1") # {} /\ Distance(now, TimeStamp(h)) <= Tolerance
    BY <2>2 DEF Complete, Timely
  <2>4. h[Final(Named(h, "v1"))].value = Digest(copy, TimeStamp(h), m.body)
    BY <2>2 DEF Authentic, Signature, Position
  <2>. QED BY <1>1, <2>1, <2>3, <2>4, FoundBacks
<1>. QED BY <1>1, InvHolds, PTL

\* What the subscriber's example accepts, however a header was spaced, joined, cut
\* or lengthened on its way, was signed over this body with the secret the
\* subscriber holds, within the tolerance; and it agrees with the verifier on
\* whatever arrives as it was sent.
THEOREM ExampleIsRight == Spec => []ExampleIsSound
<1>1. ASSUME Inv PROVE ExampleIsSound
  <2>. SUFFICES ASSUME NEW m \in wire
                PROVE  LET example == Example(m.body, m.header, copy, Seconds(clock + drift))
                       IN  /\ example = "true" => Backed(m)
                           /\ ~m.changed => (Verdict(m) = "valid") = (example = "true")
    BY Zenon DEF ExampleIsSound
  <2>1. PICK h, now : h = m.header /\ now = Seconds(clock + drift)
    OBVIOUS
  <2>. DEFINE stamp == h[Final(Exactly(h, "t"))].value
              found == h[Final(Exactly(h, "v1"))].value
  <2>2. ASSUME Example(m.body, h, copy, now) = "true"
        PROVE  Backed(m)
    <3>1. /\ Exactly(h, "v1") # {}
          /\ Distance(now, stamp) <= Tolerance
          /\ found = Digest(copy, stamp, m.body)
      BY <2>2 DEF Example, ExampleTimely
    <3>2. Exactly(h, "v1") \in SUBSET Named(h, "v1")
      BY DEF Exactly
    <3>. HIDE DEF stamp
    <3>. QED BY <1>1, <2>1, <3>1, <3>2, FoundBacks
  <2>3. ASSUME ~m.changed
        PROVE  (Verify(m.body, h, copy, now) = "valid")
                 = (Example(m.body, h, copy, now) = "true")
    <3>1. PICK sent : sent = Seconds(m.sent)
      OBVIOUS
    <3>2. h = Header(secret, sent, m.body) /\ sent # NoInteger
      <4>1. m \in Messages /\ AsSent(m)
        BY <1>1, <2>3 DEF Inv, Way
      <4>2. sent \in Nat
        BY <3>1, <4>1, SecondsCount DEF Messages
      <4>. QED BY <2>1, <3>1, <4>1, <4>2 DEF AsSent, NoInteger
    <3>3. /\ DOMAIN h = 1..2 /\ h[1] = Element("t", sent)
          /\ h[2] = Element("v1", Digest(secret, sent, m.body))
          /\ Named(h, "t") = {1} /\ Named(h, "v1") = {2}
          /\ Position(h, "t") = 1 /\ Position(h, "v1") = 2
      BY <3>2, HeaderParts
    <3>4. Exactly(h, "t") = Named(h, "t") /\ Exactly(h, "v1") = Named(h, "v1")
      BY <3>3 DEF Exactly, Element
    <3>5. /\ stamp = sent /\ TimeStamp(h) = sent
          /\ found = Digest(secret, sent, m.body)
          /\ Signature(h) = Digest(secret, sent, m.body)
      BY <3>3, <3>4 DEF TimeStamp, Signature, Position, Element
    <3>6. Named(h, "") = {}
      <4>1. h[1].name = "t" /\ h[2].name = "v1"
        BY <3>3 DEF Element
      <4>2. \A i \in DOMAIN h : i = 1 \/ i = 2
        BY <3>3
      <4>. QED BY <4>1, <4>2 DEF Named
    <3>7. Complete(h) /\ Exactly(h, "t") # {} /\ Exactly(h, "v1") # {}
      BY <3>3, <3>4 DEF Complete
    <3>8. (Verify(m.body, h, copy, now) = "valid")
            = (/\ Distance(now, sent) <= Tolerance
               /\ Digest(secret, sent, m.body) = Digest(copy, sent, m.body))
      BY <3>2, <3>5, <3>7 DEF Verify, Timely, Authentic
    <3>9. (Example(m.body, h, copy, now) = "true")
            = (/\ Distance(now, sent) <= Tolerance
               /\ Digest(secret, sent, m.body) = Digest(copy, sent, m.body))
      BY <3>2, <3>5, <3>6, <3>7 DEF Example, ExampleTimely
    <3>. QED BY <3>8, <3>9
  <2>. QED BY <2>1, <2>2, <2>3 DEF Verdict
<1>. QED BY <1>1, InvHolds, PTL
=============================================================================
