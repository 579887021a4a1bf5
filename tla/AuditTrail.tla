------------------------------ MODULE AuditTrail ------------------------------
(***************************************************************************)
(* Reading the audit trail back: Logger.Emit and Logger.Query over the     *)
(* audit_events table, and the two commands that query it.                 *)
(*                                                                         *)
(* Emit takes the time and then inserts; agentid audit query takes the     *)
(* time, subtracts the duration asked for and then selects.  Events are    *)
(* stored, and bounds compared, in whole seconds.                          *)
(***************************************************************************)
EXTENDS Integers, FiniteSets

CONSTANTS Emits,           \* calls of Emit
          Subjects,        \* [event, task, texts] of an emitted event; texts: what
                           \* occurs in the JSON text of its delegation chain
          Filters,         \* what the commands are asked for
          Unset,           \* a filter field left empty
          TicksPerSecond,
          MaxClock         \* bound of the exploration

VARIABLES clock,
          emits,   \* [Emits -> the state of the call]
          trail,   \* the calls whose row is in audit_events
          query    \* the command in progress, or the last one

vars == <<clock, emits, trail, query>>

Filter == [task : {s.task : s \in Subjects} \cup {Unset},
           event : {s.event : s \in Subjects} \cup {Unset},
           authorizer : UNION {s.texts : s \in Subjects} \cup {Unset},
           within : Int \cup {Unset}, limit : Int]

ASSUME AuditTrailAssumption ==
  /\ Filters \subseteq Filter
  /\ Unset \notin Int
  /\ TicksPerSecond \in Nat \ {0}
  /\ MaxClock \in Nat

Seconds(ticks) == ticks \div TicksPerSecond

-----------------------------------------------------------------------------
(* Emit: the event is dated first and inserted later, or never. *)
Stamp(e, subject) ==
  /\ emits[e].pc = "idle"
  /\ emits' = [emits EXCEPT ![e] = [pc |-> "stamped", about |-> subject, at |-> clock]]
  /\ UNCHANGED <<clock, trail, query>>

AppendEvent(e) ==
  /\ emits[e].pc = "stamped"
  /\ emits' = [emits EXCEPT ![e].pc = "done"]
  /\ trail' = trail \cup {e} \/ UNCHANGED trail
  /\ UNCHANGED <<clock, query>>

-----------------------------------------------------------------------------
(* The WHERE clause but for the times. *)
Concerns(filter, e) ==
  LET s == emits[e].about IN
  /\ filter.task \in {Unset, s.task}
  /\ filter.event \in {Unset, s.event}
  /\ filter.authorizer \in s.texts \cup {Unset}

(* Mutants: the bound keeps its fraction; it is rounded away from the event. *)
NotBeforeExactly(since, e) ==
  since = Unset \/ Seconds(emits[e].at) * TicksPerSecond >= since

NotBeforeLoosely(since, e) ==
  since = Unset \/ Seconds(emits[e].at) + 1 >= Seconds(since)

NotBefore(since, e) == since = Unset \/ Seconds(emits[e].at) >= Seconds(since)

Matches(filter, since) == {e \in trail : Concerns(filter, e) /\ NotBefore(since, e)}

(* ORDER BY timestamp LIMIT n: a set of n earliest rows; which ones of the *)
(* same second is not said.                                                *)
Selected(rows, matches, limit) ==
  /\ rows \subseteq matches
  /\ IF limit > 0 /\ limit < Cardinality(matches)
       THEN Cardinality(rows) = limit
       ELSE rows = matches
  /\ \A r \in rows, m \in matches \ rows : Seconds(emits[r].at) <= Seconds(emits[m].at)

(* agentid audit query, and agentid audit tail with all but limit unset. *)
Ask(filter) ==
  /\ query.pc # "asked"
  /\ query' = [pc |-> "asked", filter |-> filter, askedAt |-> clock,
               since |-> IF filter.within = Unset THEN Unset ELSE clock - filter.within]
  /\ UNCHANGED <<clock, emits, trail>>

QueryEvents ==
  /\ query.pc = "asked"
  /\ \E rows \in SUBSET trail :
       /\ Selected(rows, Matches(query.filter, query.since), query.filter.limit)
       /\ query' = [pc |-> "answered", filter |-> query.filter,
                    askedAt |-> query.askedAt, rows |-> rows, table |-> trail]
  /\ UNCHANGED <<clock, emits, trail>>

Tick ==
  /\ clock < MaxClock
  /\ clock' = clock + 1
  /\ UNCHANGED <<emits, trail, query>>

Init ==
  /\ clock = 0
  /\ emits = [e \in Emits |-> [pc |-> "idle"]]
  /\ trail = {}
  /\ query = [pc |-> "idle"]

Next ==
  \/ \E e \in Emits, s \in Subjects : Stamp(e, s)
  \/ \E e \in Emits : AppendEvent(e)
  \/ \E f \in Filters : Ask(f)
  \/ QueryEvents
  \/ Tick

Spec == Init /\ [][Next]_vars

-----------------------------------------------------------------------------
(***************************************************************************)
(* Properties of an answer: query.table is the table it was read from.     *)
(***************************************************************************)
Answered == query.pc = "answered"

Asked(e) == Answered /\ e \in query.table /\ Concerns(query.filter, e)

(* The event is no older than the duration asked for. *)
InTime(e) ==
  query.filter.within # Unset => emits[e].at >= query.askedAt - query.filter.within

(* As long as the limit was not reached, a query over the last so many     *)
(* minutes finds every event of that time that is in the table, the ones   *)
(* of the boundary second included (audit.go:78-84, sqlite.go:304 and      *)
(* 337-340: both sides are truncated).                                     *)
RecentEventsFound ==
  \A e \in Emits :
    Asked(e) /\ InTime(e)
      /\ (query.filter.limit <= 0 \/ Cardinality(query.rows) < query.filter.limit)
    => e \in query.rows

(* Whatever it finds is not older than asked for by a second or more: the  *)
(* two truncations do not add up (sqlite.go:304 and 337-340).              *)
NothingTooOld ==
  Answered /\ query.filter.within # Unset =>
    \A e \in query.rows :
      emits[e].at > query.askedAt - query.filter.within - TicksPerSecond

(* cmd/agentid/audit.go:40 and 50: audit tail shows "recent audit events": *)
(* no event it leaves out is later than all it shows.                      *)
TailShowsRecent ==
  Answered /\ query.filter = [task |-> Unset, event |-> Unset, authorizer |-> Unset,
                              within |-> Unset, limit |-> query.filter.limit]
    => \A e \in query.table \ query.rows :
         \E r \in query.rows : Seconds(emits[r].at) >= Seconds(emits[e].at)
===============================================================================
