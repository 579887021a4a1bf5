---------------------------- MODULE BundleResolver ----------------------------
(***************************************************************************)
(* The expansion of bundle names, ResolveBundles in                        *)
(* pkg/identity/scopes.go, as the traversal it is: a recursive closure     *)
(* whose frames are a stack, a map seen of the names under way, which a    *)
(* name leaves on the way out, and the set resolved of scopes collected.   *)
(*                                                                         *)
(* Bundles says what the traversal is for.  The order of the includes of a *)
(* bundle, and of the names asked for, is whatever the lists have: every   *)
(* order is explored.                                                      *)
(***************************************************************************)
EXTENDS Bundles, Sequences, Integers

CONSTANT Questions   \* the sets of names the traversal is called with

ASSUME QuestionsAssumption ==
  /\ Questions \subseteq SUBSET BundleNames
  /\ \A n \in Defined : BundleConfigs[n].includes \subseteq BundleNames

VARIABLES asked,      \* the names of the call
          todo,       \* those it has not turned to
          stack,      \* the calls of resolve under way, innermost last
          seen,
          resolved,
          finished,   \* history: the bundles that resolve has returned from
          outcome

vars == <<asked, todo, stack, seen, resolved, finished, outcome>>

Frame == [name : Defined, left : SUBSET BundleNames]

Top == stack[Len(stack)]

Running == outcome = "running"

-----------------------------------------------------------------------------
(* Mutants: the name is marked before it is looked up; it is never marked. *)
EnterMarkingFirst(n, callers) ==
  /\ seen' = seen \cup {n}
  /\ IF n \in seen \/ n \notin Defined
       THEN outcome' = "failed" /\ stack' = callers
       ELSE /\ stack' = Append(callers, [name |-> n, left |-> BundleConfigs[n].includes])
            /\ UNCHANGED outcome

EnterUnmarked(n, callers) ==
  /\ IF n \in seen \/ n \notin Defined
       THEN outcome' = "failed" /\ stack' = callers
       ELSE /\ stack' = Append(callers, [name |-> n, left |-> BundleConfigs[n].includes])
            /\ UNCHANGED outcome
  /\ UNCHANGED seen

(* Mutant: a name under way is taken for one that is done. *)
RefuseUnknownOnly(n, callers) ==
  IF n \in seen
    THEN stack' = callers /\ UNCHANGED <<seen, outcome>>
    ELSE IF n \notin Defined
      THEN outcome' = "failed" /\ stack' = callers /\ UNCHANGED seen
      ELSE /\ stack' = Append(callers, [name |-> n, left |-> BundleConfigs[n].includes])
           /\ seen' = seen \cup {n}
           /\ UNCHANGED outcome

(* resolve(n) up to its loop; callers are the frames below it. *)
Enter(n, callers) ==
  IF n \in seen \/ n \notin Defined
    THEN outcome' = "failed" /\ stack' = callers /\ UNCHANGED seen
    ELSE /\ stack' = Append(callers, [name |-> n, left |-> BundleConfigs[n].includes])
         /\ seen' = seen \cup {n}
         /\ UNCHANGED outcome

ExpandName(n) ==
  /\ Running /\ stack = <<>>
  /\ n \in todo
  /\ todo' = todo \ {n}
  /\ Enter(n, stack)
  /\ UNCHANGED <<asked, resolved, finished>>

(* Mutant: the loop does not move on. *)
ExpandAgain(n) ==
  /\ Running /\ stack # <<>>
  /\ n \in Top.left
  /\ Enter(n, stack)
  /\ UNCHANGED <<asked, todo, resolved, finished>>

ExpandInclude(n) ==
  /\ Running /\ stack # <<>>
  /\ n \in Top.left
  /\ Enter(n, [stack EXCEPT ![Len(stack)].left = @ \ {n}])
  /\ UNCHANGED <<asked, todo, resolved, finished>>

(* Mutant: the name stays marked. *)
LeaveMarked ==
  /\ Running /\ stack # <<>>
  /\ Top.left = {}
  /\ resolved' = resolved \cup BundleConfigs[Top.name].scopes
  /\ finished' = finished \cup {Top.name}
  /\ stack' = SubSeq(stack, 1, Len(stack) - 1)
  /\ UNCHANGED <<asked, todo, seen, outcome>>

Leave ==
  /\ Running /\ stack # <<>>
  /\ Top.left = {}
  /\ resolved' = resolved \cup BundleConfigs[Top.name].scopes
  /\ finished' = finished \cup {Top.name}
  /\ seen' = seen \ {Top.name}
  /\ stack' = SubSeq(stack, 1, Len(stack) - 1)
  /\ UNCHANGED <<asked, todo, outcome>>

Return ==
  /\ Running /\ stack = <<>> /\ todo = {}
  /\ outcome' = "resolved"
  /\ UNCHANGED <<asked, todo, stack, seen, resolved, finished>>

Init ==
  /\ asked \in Questions
  /\ todo = asked
  /\ stack = <<>>
  /\ seen = {}
  /\ resolved = {}
  /\ finished = {}
  /\ outcome = "running"

Next ==
  \/ \E n \in BundleNames : ExpandName(n) \/ ExpandInclude(n)
  \/ Leave
  \/ Return

Spec == Init /\ [][Next]_vars

(* A function that is called runs. *)
FairSpec == Spec /\ WF_vars(Next)

-----------------------------------------------------------------------------
(* The traversal's state is of its kind (scopes.go:122-153). *)
TypeOK ==
  /\ asked \in Questions
  /\ todo \subseteq asked
  /\ stack \in Seq(Frame)
  /\ seen \subseteq Defined
  /\ finished \subseteq Defined
  /\ outcome \in {"running", "resolved", "failed"}

(* What the call returns are the scopes of exactly the bundles that the    *)
(* names asked for reach, each through any number of paths, and it returns *)
(* them only if none of those is unknown or includes itself                *)
(* (scopes.go:133-145: seen is the path, not the visited set).             *)
ExpansionIsExact ==
  outcome = "resolved" => resolved = ResolveBundles(asked) /\ ~ResolveFails(asked)

(* It refuses only what has to be refused: a bundle reached twice, or a    *)
(* bundle that includes several others, is not a circle (scopes.go:124-129 *)
(* and 145).                                                               *)
RefusalIsJust == outcome = "failed" => ResolveFails(asked)

(* The recursion never goes deeper than there are bundles, whatever the    *)
(* configuration says (scopes.go:124: the marks bound it).                 *)
DepthBounded == \A i, j \in 1..Len(stack) : stack[i].name = stack[j].name => i = j

(* Every expansion ends, circular includes or not (scopes.go:123-147).     *)
Terminates == <>~Running
===============================================================================
