------------------------- MODULE BundleResolverProof -------------------------
(***************************************************************************)
(* The traversal of ResolveBundles returns what Bundles says it does, for  *)
(* every configuration, circular ones included.                            *)
(*                                                                         *)
(* The argument: the bundles resolve has returned from are closed under    *)
(* includes and none of them includes itself, because a bundle joins them  *)
(* only when all it includes has; and the stack is a path, so a name met   *)
(* again on it includes itself.                                            *)
(***************************************************************************)
EXTENDS BundleResolver, SequenceTheorems, TLAPS

Includes(n) == BundleConfigs[n].includes

LEMMA IncludesTyped ==
  ASSUME NEW n \in Defined
  PROVE  n \in BundleNames /\ Includes(n) \subseteq BundleNames
BY BundlesAssumption, QuestionsAssumption DEF Includes, Defined

-----------------------------------------------------------------------------
(* Reachability, from its definition as a least closed set. *)

LEMMA VisitedHasNames ==
  ASSUME NEW names \in SUBSET BundleNames
  PROVE  names \subseteq Visited(names) /\ Visited(names) \subseteq BundleNames
BY DEF Visited

LEMMA VisitedClosed ==
  ASSUME NEW names, NEW n \in Visited(names) \cap Defined
  PROVE  Includes(n) \subseteq Visited(names)
BY IncludesTyped DEF Visited, ClosedUnderIncludes, Includes

LEMMA VisitedLeast ==
  ASSUME NEW names, NEW S \in SUBSET BundleNames,
         names \subseteq S, ClosedUnderIncludes(S)
  PROVE  Visited(names) \subseteq S
BY DEF Visited

LEMMA VisitedThrough ==
  ASSUME NEW names, NEW n \in Defined \cap Visited(names)
  PROVE  Visited(Includes(n)) \subseteq Visited(names)
<1>1. Includes(n) \subseteq Visited(names)
  BY VisitedClosed
<1>2. Visited(names) \subseteq BundleNames
  BY DEF Visited
<1>3. ClosedUnderIncludes(Visited(names))
  BY VisitedClosed DEF ClosedUnderIncludes, Includes
<1> QED
  BY <1>1, <1>2, <1>3, VisitedLeast

-----------------------------------------------------------------------------
(* Stacks. *)

LEMMA StackFrames ==
  ASSUME NEW s \in Seq(Frame), NEW i \in 1..Len(s)
  PROVE  s[i].name \in Defined /\ s # <<>> /\ Len(s) \in 1..Len(s)
<1>1. s[i] \in Frame
  OBVIOUS
<1>2. s # <<>> /\ Len(s) \in 1..Len(s)
  OBVIOUS
<1> QED
  BY <1>1, <1>2 DEF Frame

LEMMA StackTop ==
  ASSUME NEW s \in Seq(Frame), s # <<>>
  PROVE  Len(s) \in 1..Len(s) /\ Len(s) - 1 \in Nat /\ s[Len(s)].name \in Defined
<1>1. Len(s) \in 1..Len(s) /\ Len(s) - 1 \in Nat
  OBVIOUS
<1> QED
  BY <1>1, StackFrames

LEMMA StackPop ==
  ASSUME NEW s \in Seq(Frame), s # <<>>
  PROVE  LET rest == SubSeq(s, 1, Len(s) - 1)
         IN  /\ rest \in Seq(Frame)
             /\ Len(rest) = Len(s) - 1
             /\ \A i \in 1..(Len(s) - 1) : rest[i] = s[i] /\ i \in 1..Len(s)
<1> DEFINE k == Len(s) - 1
           rest == SubSeq(s, 1, k)
<1>1. k \in Nat /\ \A i \in 1..k : i \in 1..Len(s) /\ s[i] \in Frame
  OBVIOUS
<1>2. /\ rest \in Seq(Frame)
      /\ Len(rest) = (IF 1 <= k THEN k - 1 + 1 ELSE 0)
      /\ \A i \in 1..(k - 1 + 1) : rest[i] = s[1 + i - 1]
  <2> HIDE DEF k
  <2> QED
    BY <1>1, SubSeqProperties
<1>3. Len(rest) = k
  <2> HIDE DEF k, rest
  <2> QED
    BY <1>1, <1>2
<1>4. \A i \in 1..k : rest[i] = s[i]
  <2> HIDE DEF k, rest
  <2> QED
    BY <1>1, <1>2
<1> QED
  BY <1>1, <1>2, <1>3, <1>4

-----------------------------------------------------------------------------
Ancestry ==
  \A i, j \in 1..Len(stack) : i < j => stack[j].name \in Visited(Includes(stack[i].name))

(* What a frame has turned to has returned, but for the call it is in. *)
FramesProgress ==
  \A i \in 1..Len(stack) :
    /\ stack[i].left \subseteq Includes(stack[i].name)
    /\ \A m \in Includes(stack[i].name) \ stack[i].left :
         m \in finished \/ (i < Len(stack) /\ m = stack[i + 1].name)

CallProgress ==
  \A m \in asked \ todo : m \in finished \/ (stack # <<>> /\ m = stack[1].name)

FinishedSound ==
  /\ ClosedUnderIncludes(finished)
  /\ \A n \in finished : ~IncludesItself(n) /\ n \in Visited(asked)
  /\ resolved = UNION {BundleConfigs[n].scopes : n \in finished}

PathSound ==
  /\ \A i \in 1..Len(stack) : stack[i].name \in Visited(asked)
  /\ seen = {stack[i].name : i \in 1..Len(stack)}
  /\ DepthBounded
  /\ Ancestry
  /\ FramesProgress
  /\ CallProgress

(* Inductive. *)
BInv ==
  /\ TypeOK
  /\ DepthBounded
  /\ Running => FinishedSound /\ PathSound
  /\ ExpansionIsExact
  /\ RefusalIsJust

LEMMA BInit == Init => BInv
<1> SUFFICES ASSUME Init
             PROVE  BInv
  OBVIOUS
<1>1. stack = <<>> /\ Len(stack) = 0 /\ stack \in Seq(Frame)
  BY DEF Init
<1>2. TypeOK
  BY <1>1 DEF Init, TypeOK
<1>3. FinishedSound
  BY DEF Init, FinishedSound, ClosedUnderIncludes
<1>4. PathSound
  BY <1>1 DEF Init, PathSound, DepthBounded, Ancestry, FramesProgress, CallProgress
<1> QED
  BY <1>2, <1>3, <1>4 DEF Init, BInv, PathSound, ExpansionIsExact, RefusalIsJust

(* Both ways into resolve: callers is the stack as the caller leaves it.   *)
LEMMA EnterKeeps ==
  ASSUME BInv, Running, NEW n \in BundleNames, NEW callers \in Seq(Frame),
         Len(callers) = Len(stack),
         \A i \in 1..Len(stack) : callers[i].name = stack[i].name,
         \A i \in 1..Len(stack) : callers[i].left \subseteq stack[i].left,
         \A i \in 1..Len(stack) :
           \A m \in Includes(stack[i].name) \ callers[i].left :
             \/ m \in finished
             \/ i < Len(stack) /\ m = stack[i + 1].name
             \/ i = Len(stack) /\ m = n,
         n \in Visited(asked),
         stack # <<>> => n \in Includes(Top.name),
         todo' \subseteq asked,
         \A m \in asked \ todo' :
           m \in finished \/ (stack # <<>> /\ m = stack[1].name) \/ (stack = <<>> /\ m = n),
         UNCHANGED <<asked, resolved, finished>>,
         Enter(n, callers)
  PROVE  BInv'
<1>0. stack \in Seq(Frame) /\ Len(stack) \in Nat /\ FinishedSound /\ PathSound
  BY DEF BInv, TypeOK
<1>1. CASE n \in seen \/ n \notin Defined
  <2>1. outcome' = "failed" /\ stack' = callers /\ UNCHANGED seen
    BY <1>1 DEF Enter
  <2>2. TypeOK' /\ DepthBounded'
    BY <2>1, <1>0 DEF BInv, TypeOK, DepthBounded
  <2>3. ResolveFails(asked)
    <3>1. CASE n \in seen
      <4>1. PICK i \in 1..Len(stack) : n = stack[i].name
        BY <3>1, <1>0 DEF PathSound
      <4>2. n \in Defined /\ stack # <<>> /\ Len(stack) \in 1..Len(stack)
        BY <4>1, <1>0, StackFrames
      <4>3. n \in Includes(Top.name) /\ Top.name \in Defined
        BY <4>2, <1>0, StackTop DEF Top
      <4>4. n \in Visited(Includes(n))
        <5>1. CASE i = Len(stack)
          BY <5>1, <4>1, <4>2, <4>3, IncludesTyped, VisitedHasNames DEF Top
        <5>2. CASE i < Len(stack)
          <6>1. Top.name \in Visited(Includes(n))
            BY <5>2, <4>1, <4>2, <1>0 DEF PathSound, Ancestry, Top
          <6> QED
            BY <6>1, <4>3, VisitedClosed
        <5> QED
          BY <5>1, <5>2, <1>0
      <4> QED
        BY <4>2, <4>4 DEF ResolveFails, IncludesItself, Includes
    <3>2. CASE n \notin Defined
      BY <3>2 DEF ResolveFails
    <3> QED
      BY <3>1, <3>2, <1>1
  <2> QED
    BY <2>1, <2>2, <2>3 DEF BInv, Running, ExpansionIsExact, RefusalIsJust, ResolveFails,
                            Visited, IncludesItself
<1>2. CASE n \notin seen /\ n \in Defined
  <2> DEFINE f == [name |-> n, left |-> Includes(n)]
             len == Len(stack)
  <2>1. stack' = Append(callers, f) /\ seen' = seen \cup {n} /\ UNCHANGED outcome
    BY <1>2 DEF Enter, Includes
  <2>2. f \in Frame
    BY <1>2, IncludesTyped DEF Frame
  <2>3. /\ stack' \in Seq(Frame)
        /\ Len(stack') = len + 1
        /\ \A i \in 1..len : stack'[i] = callers[i]
        /\ stack'[len + 1] = f
    BY <2>1, <2>2, <1>0
  <2>4. \A i \in 1..(len + 1) : i \in 1..len \/ i = len + 1
    BY <1>0
  <2>5. TypeOK'
    BY <2>1, <2>3, <1>2 DEF BInv, TypeOK
  <2>6. \A i \in 1..len : stack[i].name # n /\ stack'[i].name = stack[i].name
    BY <2>3, <1>2, <1>0 DEF PathSound
  <2>7. DepthBounded'
    BY <2>3, <2>4, <2>6, <1>0 DEF PathSound, DepthBounded
  <2>8. FinishedSound'
    BY <1>0 DEF FinishedSound, ClosedUnderIncludes, IncludesItself, Visited
  <2>9. \A i \in 1..(len + 1) : stack'[i].name \in Visited(asked)
    BY <2>3, <2>4, <2>6, <1>0 DEF PathSound
  <2>10. seen' = {stack'[i].name : i \in 1..(len + 1)}
    <3>1. seen' = {stack[i].name : i \in 1..len} \cup {n}
      BY <2>1, <1>0 DEF PathSound
    <3>2. len + 1 \in 1..(len + 1) /\ stack'[len + 1].name = n
      BY <2>3, <1>0
    <3>3. \A i \in 1..len : i \in 1..(len + 1)
      BY <1>0
    <3> QED
      BY <3>1, <3>2, <3>3, <2>4, <2>6
  <2>11. Ancestry'
    <3> SUFFICES ASSUME NEW i \in 1..(len + 1), NEW j \in 1..(len + 1), i < j
                 PROVE  stack'[j].name \in Visited(Includes(stack'[i].name))
      BY <2>3 DEF Ancestry, Visited, ClosedUnderIncludes, Includes
    <3>1. i \in 1..len
      BY <1>0
    <3>2. CASE j \in 1..len
      BY <3>1, <3>2, <2>6, <1>0 DEF PathSound, Ancestry
    <3>3. CASE j = len + 1
      <4>1. stack # <<>> /\ len \in 1..len
        BY <3>1, <1>0
      <4>2. n \in Includes(stack[len].name) /\ stack[len].name \in Defined
        BY <4>1, <1>0, StackTop DEF Top
      <4>3. n \in Visited(Includes(stack[i].name))
        <5>1. CASE i = len
          BY <5>1, <4>2, IncludesTyped, VisitedHasNames
        <5>2. CASE i < len
          <6>1. stack[len].name \in Visited(Includes(stack[i].name))
            BY <5>2, <3>1, <4>1, <1>0 DEF PathSound, Ancestry
          <6> QED
            BY <6>1, <4>2, VisitedClosed
        <5> QED
          BY <5>1, <5>2, <3>1, <1>0
      <4> QED
        BY <4>3, <3>1, <3>3, <2>3, <2>6
    <3> QED
      BY <3>2, <3>3, <2>4
  <2>12. FramesProgress'
    <3> SUFFICES ASSUME NEW i \in 1..(len + 1)
                 PROVE  /\ stack'[i].left \subseteq Includes(stack'[i].name)
                        /\ \A m \in Includes(stack'[i].name) \ stack'[i].left :
                             m \in finished \/ (i < len + 1 /\ m = stack'[i + 1].name)
      BY <2>3 DEF FramesProgress, Includes
    <3>1. CASE i \in 1..len
      <4>1. stack'[i].left \subseteq Includes(stack'[i].name)
        BY <3>1, <2>3, <2>6, <1>0 DEF PathSound, FramesProgress
      <4>2. ASSUME NEW m \in Includes(stack[i].name) \ callers[i].left
            PROVE  m \in finished \/ m = stack'[i + 1].name
        <5>1. \/ m \in finished
              \/ i < len /\ m = stack[i + 1].name
              \/ i = len /\ m = n
          BY <3>1
        <5>2. i < len => i + 1 \in 1..len
          BY <3>1, <1>0
        <5> QED
          BY <5>1, <5>2, <2>3, <2>6
      <4>3. i < len + 1
        BY <3>1, <1>0
      <4> QED
        BY <4>1, <4>2, <4>3, <3>1, <2>3, <2>6
    <3>2. CASE i = len + 1
      BY <3>2, <2>3
    <3> QED
      BY <3>1, <3>2, <2>4
  <2>13. CallProgress'
    <3>1. stack' # <<>>
      BY <2>3, <1>0
    <3>2. stack # <<>> => stack'[1].name = stack[1].name
      BY <2>6, <1>0
    <3>3. stack = <<>> => stack'[1].name = n
      BY <2>3, <1>0
    <3> QED
      BY <3>1, <3>2, <3>3 DEF CallProgress
  <2>14. PathSound'
    BY <2>3, <2>7, <2>9, <2>10, <2>11, <2>12, <2>13 DEF PathSound, Visited, ClosedUnderIncludes
  <2> QED
    BY <2>1, <2>5, <2>7, <2>8, <2>14 DEF BInv, Running, ExpansionIsExact, RefusalIsJust
<1> QED
  BY <1>1, <1>2

LEMMA BStep == BInv /\ [Next]_vars => BInv'
<1> SUFFICES ASSUME BInv, [Next]_vars
             PROVE  BInv'
  OBVIOUS
<1>0. stack \in Seq(Frame) /\ Len(stack) \in Nat
  BY DEF BInv, TypeOK
<1>1. ASSUME NEW n \in BundleNames, ExpandName(n)
      PROVE  BInv'
  <2>1. Running /\ stack = <<>> /\ n \in todo /\ Enter(n, stack) /\ todo' = todo \ {n}
        /\ UNCHANGED <<asked, resolved, finished>>
    BY <1>1 DEF ExpandName
  <2>2. asked \in SUBSET BundleNames /\ todo \subseteq asked
    BY QuestionsAssumption DEF BInv, TypeOK
  <2>3. n \in Visited(asked)
    BY <2>1, <2>2, VisitedHasNames
  <2>4. \A m \in asked \ todo' : m \in finished \/ m = n
    BY <2>1 DEF BInv, PathSound, CallProgress
  <2>5. Len(stack) = 0
    BY <2>1
  <2>6. 1..Len(stack) = {}
    BY <2>5
  <2> QED
    BY <2>1, <2>2, <2>3, <2>4, <2>5, <2>6, <1>0, EnterKeeps
<1>2. ASSUME NEW n \in BundleNames, ExpandInclude(n)
      PROVE  BInv'
  <2> DEFINE callers == [stack EXCEPT ![Len(stack)].left = @ \ {n}]
  <2>1. Running /\ stack # <<>> /\ n \in Top.left /\ Enter(n, callers)
        /\ UNCHANGED <<asked, todo, resolved, finished>>
    BY <1>2 DEF ExpandInclude
  <2>2. Len(stack) \in 1..Len(stack)
    BY <2>1, <1>0
  <2>3. PathSound
    BY <2>1 DEF BInv
  <2>4. stack[Len(stack)] \in Frame
    BY <2>2, <1>0
  <2>5. /\ callers \in Seq(Frame)
        /\ Len(callers) = Len(stack)
        /\ \A i \in 1..Len(stack) : i # Len(stack) => callers[i] = stack[i]
        /\ callers[Len(stack)].name = stack[Len(stack)].name
        /\ callers[Len(stack)].left = stack[Len(stack)].left \ {n}
    BY <2>2, <2>4, <1>0 DEF Frame
  <2>6. n \in Includes(Top.name) /\ Top.name \in Defined /\ Top.name \in Visited(asked)
    BY <2>1, <2>2, <2>3, <2>4 DEF PathSound, FramesProgress, Top, Frame
  <2>7. n \in Visited(asked)
    BY <2>6, VisitedClosed
  <2>8. \A i \in 1..Len(stack) :
          \A m \in Includes(stack[i].name) \ callers[i].left :
             \/ m \in finished
             \/ i < Len(stack) /\ m = stack[i + 1].name
             \/ i = Len(stack) /\ m = n
    BY <2>3, <2>5 DEF PathSound, FramesProgress
  <2>9. todo' \subseteq asked
    BY <2>1 DEF BInv, TypeOK
  <2>10. \A m \in asked \ todo' : m \in finished \/ (stack # <<>> /\ m = stack[1].name)
    BY <2>1, <2>3 DEF PathSound, CallProgress
  <2> QED
    BY <2>1, <2>5, <2>6, <2>7, <2>8, <2>9, <2>10, EnterKeeps
<1>3. ASSUME Leave
      PROVE  BInv'
  <2> DEFINE len == Len(stack)
             n == Top.name
  <2>1. Running /\ stack # <<>> /\ Top.left = {}
        /\ resolved' = resolved \cup BundleConfigs[n].scopes
        /\ finished' = finished \cup {n} /\ seen' = seen \ {n}
        /\ stack' = SubSeq(stack, 1, len - 1)
        /\ UNCHANGED <<asked, todo, outcome>>
    BY <1>3 DEF Leave
  <2>2. len \in 1..len /\ len - 1 \in Nat /\ n = stack[len].name /\ n \in Defined
    BY <2>1, <1>0, StackTop DEF Top
  <2>3. FinishedSound /\ PathSound
    BY <2>1 DEF BInv
  <2>4. /\ stack' \in Seq(Frame)
        /\ Len(stack') = len - 1
        /\ \A i \in 1..(len - 1) : stack'[i] = stack[i] /\ i \in 1..len
    BY <2>1, <1>0, StackPop
  <2>5. Includes(n) \subseteq finished
    BY <2>1, <2>2, <2>3, <1>0 DEF PathSound, FramesProgress, Top
  <2>6. FinishedSound'
    <3>1. ClosedUnderIncludes(finished')
      BY <2>1, <2>3, <2>5 DEF FinishedSound, ClosedUnderIncludes, Includes
    <3>2. ~IncludesItself(n)
      <4>1. CASE n \in finished
        BY <4>1, <2>3 DEF FinishedSound
      <4>2. CASE n \notin finished
        <5>1. finished \in SUBSET BundleNames
          BY BundlesAssumption DEF BInv, TypeOK, Defined
        <5>2. Visited(Includes(n)) \subseteq finished
          BY <5>1, <2>3, <2>5, VisitedLeast DEF FinishedSound
        <5> QED
          BY <5>2, <4>2 DEF IncludesItself, Includes
      <4> QED
        BY <4>1, <4>2
    <3>3. n \in Visited(asked)
      BY <2>2, <2>3 DEF PathSound
    <3>4. resolved' = UNION {BundleConfigs[m].scopes : m \in finished'}
      BY <2>1, <2>3 DEF FinishedSound
    <3>5. \A m \in finished' : ~IncludesItself(m) /\ m \in Visited(asked)
      BY <2>1, <2>3, <3>2, <3>3 DEF FinishedSound
    <3> QED
      BY <2>1, <3>1, <3>4, <3>5 DEF FinishedSound, ClosedUnderIncludes, Visited, IncludesItself
  <2>7. TypeOK'
    BY <2>1, <2>2, <2>4 DEF BInv, TypeOK
  <2>8. DepthBounded'
    BY <2>4 DEF BInv, DepthBounded
  <2>9. PathSound'
    <3>1. \A i \in 1..Len(stack') : stack'[i].name \in Visited(asked)
      BY <2>3, <2>4 DEF PathSound
    <3>2. seen' = {stack'[i].name : i \in 1..Len(stack')}
      <4>1. \A i \in 1..(len - 1) : stack[i].name # n
        BY <2>2, <2>3, <2>4, <1>0 DEF PathSound, DepthBounded
      <4>2. \A i \in 1..len : i \in 1..(len - 1) \/ i = len
        BY <2>2
      <4>3. seen = {stack[i].name : i \in 1..len}
        BY <2>3 DEF PathSound
      <4>4. seen \ {n} = {stack[i].name : i \in 1..(len - 1)}
        <5>1. ASSUME NEW x \in seen \ {n}
              PROVE  \E i \in 1..(len - 1) : x = stack[i].name
          <6>1. PICK i \in 1..len : x = stack[i].name
            BY <5>1, <4>3
          <6>2. i # len
            BY <5>1, <6>1, <2>2
          <6> QED
            BY <6>1, <6>2, <4>2
        <5>2. ASSUME NEW i \in 1..(len - 1)
              PROVE  stack[i].name \in seen \ {n}
          BY <5>2, <4>1, <4>3, <2>4
        <5> QED
          BY <5>1, <5>2
      <4>5. {stack'[i].name : i \in 1..(len - 1)} = {stack[i].name : i \in 1..(len - 1)}
        BY <2>4
      <4> QED
        BY <4>4, <4>5, <2>1, <2>4
    <3>3. Ancestry'
      <4>1. \A i, j \in 1..(len - 1) :
              i < j => stack'[j].name \in Visited(Includes(stack'[i].name))
        BY <2>3, <2>4 DEF PathSound, Ancestry
      <4> QED
        BY <4>1, <2>4 DEF Ancestry, Visited, ClosedUnderIncludes, Includes
    <3>4. FramesProgress'
      <4> SUFFICES ASSUME NEW i \in 1..(len - 1)
                   PROVE  /\ stack'[i].left \subseteq Includes(stack'[i].name)
                          /\ \A m \in Includes(stack'[i].name) \ stack'[i].left :
                               \/ m \in finished'
                               \/ i < len - 1 /\ m = stack'[i + 1].name
        BY <2>4 DEF FramesProgress, Includes
      <4>1. i \in 1..len /\ stack'[i] = stack[i] /\ i < len
        BY <2>2, <2>4
      <4>2. stack[i].left \subseteq Includes(stack[i].name)
        BY <4>1, <2>3 DEF PathSound, FramesProgress
      <4>3. ASSUME NEW m \in Includes(stack[i].name) \ stack[i].left
            PROVE  m \in finished' \/ (i < len - 1 /\ m = stack'[i + 1].name)
        <5>1. m \in finished \/ m = stack[i + 1].name
          BY <4>1, <4>3, <2>3 DEF PathSound, FramesProgress
        <5>2. CASE i + 1 = len
          BY <5>1, <5>2, <2>1, <2>2
        <5>3. CASE i + 1 # len
          <6>1. i < len - 1 /\ i + 1 \in 1..(len - 1)
            BY <5>3, <4>1, <2>2
          <6> QED
            BY <6>1, <5>1, <2>1, <2>4
        <5> QED
          BY <5>2, <5>3
      <4> QED
        BY <4>1, <4>2, <4>3
    <3>5. CallProgress'
      <4> SUFFICES ASSUME NEW m \in asked \ todo
                   PROVE  m \in finished' \/ (stack' # <<>> /\ m = stack'[1].name)
        BY <2>1 DEF CallProgress
      <4>1. m \in finished \/ m = stack[1].name
        BY <2>3 DEF PathSound, CallProgress
      <4>2. CASE len = 1
        BY <4>1, <4>2, <2>1, <2>2
      <4>3. CASE len # 1
        <5>1. 1 \in 1..(len - 1) /\ stack' # <<>>
          BY <4>3, <2>2, <2>4
        <5> QED
          BY <5>1, <4>1, <2>1, <2>4
      <4> QED
        BY <4>2, <4>3
    <3> QED
      BY <2>1, <2>8, <3>1, <3>2, <3>3, <3>4, <3>5
         DEF PathSound, Visited, ClosedUnderIncludes
  <2> QED
    BY <2>1, <2>6, <2>7, <2>8, <2>9 DEF BInv, Running, ExpansionIsExact, RefusalIsJust
<1>4. ASSUME Return
      PROVE  BInv'
  <2>1. Running /\ stack = <<>> /\ todo = {} /\ outcome' = "resolved"
        /\ UNCHANGED <<asked, todo, stack, seen, resolved, finished>>
    BY <1>4 DEF Return
  <2>2. FinishedSound /\ asked \subseteq finished
    BY <2>1 DEF BInv, PathSound, CallProgress
  <2>3. finished \in SUBSET BundleNames /\ finished \subseteq Defined
    BY BundlesAssumption DEF BInv, TypeOK, Defined
  <2>4. Visited(asked) = finished
    BY <2>2, <2>3, VisitedLeast DEF FinishedSound
  <2>5. resolved = ResolveBundles(asked) /\ ~ResolveFails(asked)
    BY <2>2, <2>3, <2>4 DEF FinishedSound, ResolveBundles, ResolveFails
  <2>6. ExpansionIsExact'
    BY <2>1, <2>5 DEF ExpansionIsExact, ResolveBundles, ResolveFails, Visited, IncludesItself
  <2>7. TypeOK' /\ DepthBounded'
    BY <2>1 DEF BInv, TypeOK, DepthBounded
  <2> QED
    BY <2>1, <2>6, <2>7 DEF BInv, Running, RefusalIsJust
<1>5. ASSUME UNCHANGED vars
      PROVE  BInv'
  <2>1. UNCHANGED <<asked, todo, stack, seen, resolved, finished, outcome>>
    BY <1>5 DEF vars
  <2>2. TypeOK' /\ DepthBounded'
    BY <2>1 DEF BInv, TypeOK, DepthBounded
  <2>3. (Running => FinishedSound)'
    BY <2>1 DEF BInv, Running, FinishedSound, ClosedUnderIncludes, IncludesItself, Visited
  <2>4. (Running => PathSound)'
    <3>1. Running => Ancestry'
      BY <2>1 DEF BInv, PathSound, Ancestry, Visited, ClosedUnderIncludes, Includes
    <3>2. Running => FramesProgress' /\ CallProgress'
      BY <2>1 DEF BInv, PathSound, FramesProgress, CallProgress, Includes
    <3> QED
      BY <2>1, <2>2, <3>1, <3>2 DEF BInv, Running, PathSound, Visited, ClosedUnderIncludes
  <2>5. ExpansionIsExact' /\ RefusalIsJust'
    BY <2>1 DEF BInv, ExpansionIsExact, RefusalIsJust, ResolveFails, ResolveBundles, Visited,
                ClosedUnderIncludes, IncludesItself
  <2> QED
    BY <2>2, <2>3, <2>4, <2>5 DEF BInv
<1> QED
  BY <1>1, <1>2, <1>3, <1>4, <1>5 DEF Next

LEMMA ResolverInvariance == Spec => []BInv
BY BInit, BStep, PTL DEF Spec

(* The traversal's marks, frames and results are of their kind, for every  *)
(* configuration (scopes.go:122-153).                                      *)
THEOREM ResolverTypeCorrect == Spec => []TypeOK
<1>1. BInv => TypeOK
  BY DEF BInv
<1> QED
  BY <1>1, ResolverInvariance, PTL

(* What the expansion returns is exact, for every configuration and every  *)
(* order of its lists (scopes.go:118-162).                                 *)
THEOREM ResolverIsExact == Spec => []ExpansionIsExact
<1>1. BInv => ExpansionIsExact
  BY DEF BInv
<1> QED
  BY <1>1, ResolverInvariance, PTL

(* It refuses a request only for an unknown name or a circle: unmarking a  *)
(* name on the way out is enough (scopes.go:124-129, 145).                 *)
THEOREM ResolverRefusesJustly == Spec => []RefusalIsJust
<1>1. BInv => RefusalIsJust
  BY DEF BInv
<1> QED
  BY <1>1, ResolverInvariance, PTL

(* The recursion is never deeper than there are bundles (scopes.go:124).   *)
THEOREM ResolverDepthIsBounded == Spec => []DepthBounded
<1>1. BInv => DepthBounded
  BY DEF BInv
<1> QED
  BY <1>1, ResolverInvariance, PTL
==============================================================================
