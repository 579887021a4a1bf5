-------------------------------- MODULE Router --------------------------------
(***************************************************************************)
(* pkg/proxy/router.go: which adapter answers a tool name, and which tools *)
(* a task is shown.  The router is built once, at start-up, from the list  *)
(* of adapters; NewRouter fills two maps, and a later adapter overwrites   *)
(* an earlier one of the same name in one and, tool by tool, in the other. *)
(***************************************************************************)
EXTENDS Integers, Sequences, Scopes

CONSTANTS Adapters,   \* sequence of [name, scopes], scopes: its tools -> ScopeString
          NoScope     \* the empty string, what a tool configured without a scope requires

ASSUME RouterAssumption ==
  /\ NoScope \in Malformed
  /\ \A i \in 1..Len(Adapters) :
       Adapters[i].scopes \in [DOMAIN Adapters[i].scopes -> ScopeString]

Offers(i, tool) == tool \in DOMAIN Adapters[i].scopes

ToolNames == UNION {DOMAIN Adapters[i].scopes : i \in 1..Len(Adapters)}

(* Router.adapters: what is left of the list under its adapters' names. *)
Kept ==
  {i \in 1..Len(Adapters) :
     \A j \in 1..Len(Adapters) : j > i => Adapters[j].name # Adapters[i].name}

(* Router.tools: the last adapter that offers the tool. *)
Resolve(tool) ==
  CHOOSE i \in 1..Len(Adapters) :
    Offers(i, tool) /\ \A j \in 1..Len(Adapters) : j > i => ~Offers(j, tool)

RequiredScope(tool) == Adapters[Resolve(tool)].scopes[tool]

(* What tools/list shows: the scope is the listed adapter's own. *)
ToolsForScopes(scopes) ==
  {tool \in ToolNames :
     \E i \in Kept :
       Offers(i, tool)
         /\ \/ Adapters[i].scopes[tool] = NoScope
            \/ hasScope(scopes, Adapters[i].scopes[tool])}
==============================================================================
