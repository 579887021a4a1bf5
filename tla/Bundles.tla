------------------------------- MODULE Bundles -------------------------------
(***************************************************************************)
(* Named scope bundles: what the depth-first expansion of                  *)
(* pkg/identity/scopes.go returns, given as the least set of bundles that  *)
(* contains the requested ones and every bundle they include.              *)
(***************************************************************************)
EXTENDS Scopes

CONSTANTS BundleConfigs,  \* name -> [scopes, includes]: ServiceConfig.Bundles
          BundleNames     \* every name a request or an include may mention

ASSUME BundlesAssumption == DOMAIN BundleConfigs \subseteq BundleNames

Defined == DOMAIN BundleConfigs

ClosedUnderIncludes(S) ==
  \A n \in S \cap Defined : BundleConfigs[n].includes \subseteq S

(* The bundles the expansion of names visits. *)
Visited(names) ==
  {n \in BundleNames :
     \A S \in SUBSET BundleNames :
       names \subseteq S /\ ClosedUnderIncludes(S) => n \in S}

IncludesItself(n) == n \in Visited(BundleConfigs[n].includes)

(* ResolveBundles returns an error: an unknown name, or a circular include. *)
ResolveFails(names) ==
  \E n \in Visited(names) : n \notin Defined \/ IncludesItself(n)

ResolveBundles(names) ==
  UNION {BundleConfigs[n].scopes : n \in Visited(names)}

(* ValidateBundleConfigs accepts the configuration: Load refuses to start  *)
(* the program otherwise.                                                  *)
ValidBundleConfigs ==
  \A n \in Defined :
    /\ BundleConfigs[n].scopes # {} \/ BundleConfigs[n].includes # {}
    /\ \A s \in BundleConfigs[n].scopes : WellFormed(s)
    /\ ~ResolveFails({n})
==============================================================================
