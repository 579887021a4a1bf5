--------------------------- MODULE MCBundleResolver ---------------------------
(***************************************************************************)
(* Instance of BundleResolver for TLC: one configuration with every shape. *)
(***************************************************************************)
EXTENDS BundleResolver, TLC, FiniteSetsExt

CONSTANTS name, wild

MCNames == {name}

Sc(t, r, a) == [tool |-> t, resource |-> r, action |-> a]

Bundle(scopes, includes) == [scopes |-> scopes, includes |-> includes]

(* A bundle reached along two paths and once directly; a circle of two, a  *)
(* bundle that includes itself, one that leads into the circle late, and   *)
(* one with an include nobody defines.                                     *)
MCBundles ==
  ("leaf"   :> Bundle({Sc(name, name, name)}, {})) @@
  ("left"   :> Bundle({Sc(name, name, wild)}, {"leaf"})) @@
  ("right"  :> Bundle({}, {"leaf"})) @@
  ("top"    :> Bundle({Sc(name, wild, wild)}, {"left", "right", "leaf"})) @@
  ("ring"   :> Bundle({}, {"gnir"})) @@
  ("gnir"   :> Bundle({}, {"ring", "leaf"})) @@
  ("self"   :> Bundle({}, {"self"})) @@
  ("toring" :> Bundle({}, {"right", "ring"})) @@
  ("broken" :> Bundle({}, {"left", "unknown"}))

MCBundleNames == DOMAIN MCBundles \cup {"unknown"}

MCQuestions == UNION {kSubset(k, MCBundleNames) : k \in 0..3}
===============================================================================
