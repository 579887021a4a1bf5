--------------------------- MODULE AuditTrailProof ---------------------------
(***************************************************************************)
(* What a query of the audit trail finds, for every table, duration and    *)
(* granularity.  An answer is computed from the table as it was; its rows  *)
(* belong to calls of Emit that are over, so nothing it says of them       *)
(* changes afterwards.                                                     *)
(***************************************************************************)
EXTENDS AuditTrail, TLAPS

(* Whole seconds bound the ticks they stand for. *)
LEMMA SecondsBound ==
  ASSUME NEW a \in Int
  PROVE  /\ Seconds(a) \in Int
         /\ Seconds(a) * TicksPerSecond <= a
         /\ a < Seconds(a) * TicksPerSecond + TicksPerSecond
BY AuditTrailAssumption DEF Seconds

LEMMA SecondsApart ==
  ASSUME NEW m \in Int, NEW n \in Int, m + 1 <= n
  PROVE  m * TicksPerSecond + TicksPerSecond <= n * TicksPerSecond
BY AuditTrailAssumption

(* Truncation keeps order (sqlite.go:304 against 339). *)
LEMMA SecondsInOrder ==
  ASSUME NEW a \in Int, NEW b \in Int, b <= a
  PROVE  Seconds(b) <= Seconds(a)
<1>1. CASE Seconds(a) + 1 <= Seconds(b)
  <2>1. Seconds(a) * TicksPerSecond + TicksPerSecond <= Seconds(b) * TicksPerSecond
    BY <1>1, SecondsBound, SecondsApart
  <2> QED
    BY <2>1, SecondsBound, AuditTrailAssumption
<1> QED
  BY <1>1, SecondsBound

(* What is not before in seconds is less than a second before. *)
LEMMA SecondsClose ==
  ASSUME NEW a \in Int, NEW b \in Int, Seconds(b) <= Seconds(a)
  PROVE  a > b - TicksPerSecond
<1>1. CASE a + TicksPerSecond <= b
  <2>1. Seconds(a) * TicksPerSecond + TicksPerSecond <= b
    BY <1>1, SecondsBound, AuditTrailAssumption
  <2>2. Seconds(a + TicksPerSecond) = Seconds(a) + 1
    BY AuditTrailAssumption DEF Seconds
  <2>3. Seconds(a + TicksPerSecond) <= Seconds(b)
    BY <1>1, SecondsInOrder, AuditTrailAssumption
  <2> QED
    BY <2>2, <2>3, SecondsBound
<1> QED
  BY <1>1, AuditTrailAssumption

-----------------------------------------------------------------------------
EmitsTyped ==
  \A e \in Emits :
    /\ emits[e].pc # "idle" => emits[e].at \in Int
    /\ e \in trail => emits[e].pc = "done"

AskedTyped ==
  /\ query.pc \in {"asked", "answered"} =>
       query.filter \in Filters /\ query.askedAt \in Int
  /\ query.pc = "asked" =>
       query.since = IF query.filter.within = Unset THEN Unset
                       ELSE query.askedAt - query.filter.within
  /\ query.pc = "answered" => query.rows \subseteq query.table /\ query.table \subseteq trail

(* Inductive: the answers, and what they were computed from. *)
AInv ==
  /\ clock \in Int
  /\ emits \in [Emits -> {emits[e] : e \in Emits}]
  /\ trail \subseteq Emits
  /\ EmitsTyped
  /\ AskedTyped
  /\ RecentEventsFound
  /\ NothingTooOld

LEMMA AInit == Init => AInv
BY DEF Init, AInv, EmitsTyped, AskedTyped, RecentEventsFound, NothingTooOld, Asked, Answered

(* An answer stays right as long as the calls it is about stay as they are. *)
LEMMA AnswerStays ==
  ASSUME AInv, UNCHANGED query,
         \A e \in trail : /\ emits'[e].about = emits[e].about
                          /\ emits'[e].at = emits[e].at
  PROVE  RecentEventsFound' /\ NothingTooOld'
<1>1. \A e \in trail : Concerns(query.filter, e)' <=> Concerns(query.filter, e)
  BY DEF Concerns
<1>2. RecentEventsFound'
  BY <1>1 DEF AInv, AskedTyped, RecentEventsFound, Asked, Answered, InTime
<1>3. NothingTooOld'
  BY DEF AInv, AskedTyped, NothingTooOld, Answered
<1> QED
  BY <1>2, <1>3

LEMMA WithinTyped ==
  ASSUME NEW f \in Filters
  PROVE  f.within \in Int \cup {Unset} /\ f.limit \in Int
BY AuditTrailAssumption DEF Filter

LEMMA AStep == AInv /\ [Next]_vars => AInv'
<1> SUFFICES ASSUME AInv, [Next]_vars
             PROVE  AInv'
  OBVIOUS
<1>1. ASSUME NEW e \in Emits, NEW s \in Subjects, Stamp(e, s)
      PROVE  AInv'
  <2>1. e \notin trail
    BY <1>1 DEF Stamp, AInv, EmitsTyped
  <2>2. \A d \in trail : emits'[d] = emits[d]
    BY <1>1, <2>1 DEF Stamp, AInv
  <2>3. RecentEventsFound' /\ NothingTooOld'
    BY <1>1, <2>2, AnswerStays DEF Stamp
  <2>4. EmitsTyped'
    BY <1>1, <2>1 DEF Stamp, AInv, EmitsTyped
  <2>5. AskedTyped'
    BY <1>1 DEF Stamp, AInv, AskedTyped
  <2> QED
    BY <1>1, <2>3, <2>4, <2>5 DEF Stamp, AInv
<1>2. ASSUME NEW e \in Emits, AppendEvent(e)
      PROVE  AInv'
  <2>1. \A d \in trail : emits'[d].about = emits[d].about /\ emits'[d].at = emits[d].at
    BY <1>2 DEF AppendEvent, AInv
  <2>2. RecentEventsFound' /\ NothingTooOld'
    BY <1>2, <2>1, AnswerStays DEF AppendEvent
  <2>3. EmitsTyped'
    BY <1>2 DEF AppendEvent, AInv, EmitsTyped
  <2>4. AskedTyped'
    BY <1>2 DEF AppendEvent, AInv, AskedTyped
  <2> QED
    BY <1>2, <2>2, <2>3, <2>4 DEF AppendEvent, AInv
<1>3. ASSUME NEW f \in Filters, Ask(f)
      PROVE  AInv'
  BY <1>3 DEF Ask, AInv, EmitsTyped, AskedTyped, RecentEventsFound, NothingTooOld,
              Asked, Answered
<1>4. ASSUME QueryEvents
      PROVE  AInv'
  <2> DEFINE f == query.filter
             matches == Matches(f, query.since)
  <2>1. PICK rows \in SUBSET trail :
          /\ Selected(rows, matches, f.limit)
          /\ query' = [pc |-> "answered", filter |-> f, askedAt |-> query.askedAt,
                       rows |-> rows, table |-> trail]
    BY <1>4 DEF QueryEvents
  <2>2. /\ f \in Filters /\ query.askedAt \in Int
        /\ query.since = IF f.within = Unset THEN Unset ELSE query.askedAt - f.within
    BY <1>4 DEF QueryEvents, AInv, AskedTyped
  <2>3. f.within \in Int \cup {Unset} /\ f.limit \in Int
    BY <2>2, WithinTyped
  <2>4. \A e \in trail : emits[e].at \in Int
    BY DEF AInv, EmitsTyped
  <2>5. UNCHANGED <<clock, emits, trail>>
    BY <1>4 DEF QueryEvents
  <2>6. RecentEventsFound'
    <3> SUFFICES ASSUME NEW e \in Emits, Asked(e)', InTime(e)',
                        f.limit <= 0 \/ Cardinality(rows) < f.limit
                 PROVE  e \in rows
      BY <2>1, <2>5 DEF RecentEventsFound
    <3>1. e \in trail /\ Concerns(f, e)
      BY <2>1, <2>5 DEF Asked, Concerns
    <3>2. f.within # Unset => emits[e].at >= query.askedAt - f.within
      BY <2>1, <2>5 DEF InTime
    <3>3. NotBefore(query.since, e)
      <4>1. CASE f.within = Unset
        BY <4>1, <2>2 DEF NotBefore
      <4>2. CASE f.within # Unset
        <5>1. query.since \in Int /\ query.since <= emits[e].at
          BY <4>2, <2>2, <2>3, <2>4, <3>1, <3>2
        <5> QED
          BY <5>1, <2>4, <3>1, SecondsInOrder, SecondsBound DEF NotBefore
      <4> QED
        BY <4>1, <4>2
    <3>4. e \in matches
      BY <3>1, <3>3 DEF Matches
    <3>5. rows = matches
      BY <2>1, <2>3 DEF Selected
    <3> QED
      BY <3>4, <3>5
  <2>7. NothingTooOld'
    <3> SUFFICES ASSUME f.within # Unset, NEW e \in rows
                 PROVE  emits[e].at > query.askedAt - f.within - TicksPerSecond
      BY <2>1, <2>5 DEF NothingTooOld
    <3>1. NotBefore(query.since, e)
      BY <2>1 DEF Selected, Matches
    <3>2. query.since \in Int /\ query.since = query.askedAt - f.within
      BY <2>2, <2>3
    <3>3. Seconds(query.since) <= Seconds(emits[e].at)
      BY <3>1, <3>2, <2>4, SecondsBound, AuditTrailAssumption DEF NotBefore
    <3> QED
      BY <3>2, <3>3, <2>4, SecondsClose
  <2>8. AskedTyped'
    BY <2>1, <2>2, <2>5 DEF AskedTyped
  <2> QED
    BY <2>5, <2>6, <2>7, <2>8 DEF AInv, EmitsTyped
<1>5. CASE Tick
  <2>1. RecentEventsFound' /\ NothingTooOld'
    BY <1>5, AnswerStays DEF Tick
  <2> QED
    BY <1>5, <2>1 DEF Tick, AInv, EmitsTyped, AskedTyped
<1>6. CASE UNCHANGED vars
  <2>1. RecentEventsFound' /\ NothingTooOld'
    BY <1>6, AnswerStays DEF vars
  <2> QED
    BY <1>6, <2>1 DEF vars, AInv, EmitsTyped, AskedTyped
<1> QED
  BY <1>1, <1>2, <1>3, <1>4, <1>5, <1>6 DEF Next

LEMMA AuditTrailInvariance == Spec => []AInv
BY AInit, AStep, PTL DEF Spec

(* A query over the last so many minutes misses no event of that time that *)
(* is in the table, whatever the fractions of the seconds involved, as     *)
(* long as its limit was not reached (audit.go:78-84, sqlite.go:337-354).  *)
THEOREM QueryIsComplete == Spec => []RecentEventsFound
<1>1. AInv => RecentEventsFound
  BY DEF AInv
<1> QED
  BY <1>1, AuditTrailInvariance, PTL

(* It finds nothing that is older than asked for by a second or more       *)
(* (sqlite.go:304 and 337-340).                                            *)
THEOREM QueryIsSound == Spec => []NothingTooOld
<1>1. AInv => NothingTooOld
  BY DEF AInv
<1> QED
  BY <1>1, AuditTrailInvariance, PTL
==============================================================================
