---------------------------- MODULE AdaptersProof ----------------------------
(***************************************************************************)
(* For any number of calls, branches and commits, and whatever others do   *)
(* in the repository: a call asks for one thing at a time, a new branch    *)
(* starts where its base was, and a result tells what happened upstream,   *)
(* as far as redirects and failing intermediaries let the client know.     *)
(*                                                                         *)
(* The argument: what was carried out for a call follows from where the    *)
(* call is (Told), and every commit a createBranch handles on its way from *)
(* the first reply to the second request is one its base was at (Based).   *)
(* The steps of one call touch another only through a branch that moves.   *)
(***************************************************************************)
EXTENDS Adapters, FiniteSetTheorems, TLAPS

Kinds ==
  /\ heads \in [Branches -> Commits \cup {NoSHA}]
  /\ pushes \in 0..MaxPushes
  /\ call = [c \in Calls |-> call[c]]
  /\ carriedOut = [c \in Calls |-> carriedOut[c]]
  /\ baseHeads \in [Calls -> SUBSET (Commits \cup {NoSHA})]

GetsRef(c) == call[c].request.method = "get ref"

Statuses == {"2xx", "3xx", "4xx", "5xx"}

(* What was carried out for a call: nothing, or the request it is at. *)
NoneOrLast(c) == carriedOut[c] = <<>> \/ carriedOut[c] = <<call[c].request>>

(* What the answer says of it. *)
TrueAnswer(c) ==
  /\ call[c].status \in Statuses
  /\ GetsRef(c) => carriedOut[c] = <<>>
  /\ call[c].status = "2xx" /\ ~GetsRef(c) =>
       carriedOut[c] = <<call[c].request>> \/ call[c].turned
  /\ call[c].status = "4xx" => carriedOut[c] = <<>> \/ call[c].turned

(* A request that has not been turned may still be carried out, once. *)
Told(c) ==
  /\ call[c].state \in {"idle", "sending", "answered", "returned"}
  /\ call[c].state = "idle" => carriedOut[c] = <<>>
  /\ call[c].state # "idle" => NoneOrLast(c)
  /\ call[c].state = "sending" =>
       /\ call[c].request.method # "none"
       /\ carriedOut[c] = <<>> \/ (call[c].turned /\ ~GetsRef(c))
  /\ call[c].state = "answered" => TrueAnswer(c)
  /\ call[c].state = "returned" =>
       /\ call[c].result \in {"ok", "upstream error", "error"}
       /\ call[c].result = "ok" =>
            /\ call[c].status # "none"
            /\ carriedOut[c] = <<call[c].request>> \/ call[c].turned \/ call[c].status = "3xx"
       /\ call[c].result = "upstream error" =>
            /\ call[c].status # "none"
            /\ carriedOut[c] = <<>> \/ call[c].turned \/ call[c].status = "5xx"

Based(c) ==
  Creates(c) =>
    /\ call[c].state = "sending" /\ GetsRef(c) =>
         /\ call[c].request.of = Base(c)
         /\ Base(c) \in Branches => heads[Base(c)] \in baseHeads[c]
    /\ call[c].state = "answered" /\ GetsRef(c) /\ ~IsError(c) =>
         call[c].sha \in baseHeads[c] \cup {NoSHA, Unparsed}
    /\ call[c].request.method \in {"none", "get ref", "create ref"}
    /\ call[c].request.method = "create ref" =>
         call[c].request.sha \in baseHeads[c] \cup {NoSHA}
    /\ carriedOut[c] # <<>> => carriedOut[c][1].sha \in baseHeads[c]

(* Inductive. *)
AInv == Kinds /\ \A c \in Calls : Told(c) /\ Based(c)

LEMMA NoNames == NoSHA \notin Commits /\ Unparsed \notin Commits /\ NoSHA # Unparsed
BY AdaptersAssumption DEF NoSHA, Unparsed

-----------------------------------------------------------------------------
(* What a step of one call, or of others, leaves of another call. *)
LEMMA Undisturbed ==
  ASSUME AInv, NEW d \in Calls,
         call'[d] = call[d], carriedOut'[d] = carriedOut[d],
         \/ heads' = heads /\ baseHeads'[d] = baseHeads[d]
         \/ \E b, sha : Move(b, sha)
  PROVE  Told(d)' /\ Based(d)'
<1>1. Told(d) /\ Based(d)
  BY DEF AInv
<1>2. Told(d)'
  BY <1>1 DEF Told, NoneOrLast, TrueAnswer, GetsRef
<1>3. CASE heads' = heads /\ baseHeads'[d] = baseHeads[d]
  <2>1. Based(d)'
    BY <1>1, <1>3 DEF Based, Creates, IsError, Base, GetsRef
  <2> QED BY <1>2, <2>1
<1>4. CASE \E b, sha : Move(b, sha)
  <2>1. PICK b, sha : Move(b, sha)
    BY <1>4
  <2>2. baseHeads'[d] = IF LooksUp(d, b) THEN baseHeads[d] \cup {sha} ELSE baseHeads[d]
    BY <2>1 DEF Move
  <2>3. \A x \in Branches : heads'[x] = IF x = b THEN sha ELSE heads[x]
    BY <2>1 DEF Move, AInv, Kinds
  <2>4. ASSUME Creates(d), call[d].state = "sending", GetsRef(d), Base(d) \in Branches
        PROVE  heads'[Base(d)] \in baseHeads'[d]
    BY <1>1, <2>2, <2>3, <2>4 DEF Based, LooksUp, GetsRef
  <2>5. baseHeads[d] \subseteq baseHeads'[d]
    BY <2>2
  <2>6. Based(d)'
    BY <1>1, <2>4, <2>5 DEF Based, Creates, IsError, Base, GetsRef
  <2> QED BY <1>2, <2>6
<1> QED BY <1>3, <1>4

(* A branch moves to a commit, or goes: heads and history stay in kind. *)
LEMMA MoveKeepsKinds ==
  ASSUME Kinds, NEW b, NEW sha \in Commits \cup {NoSHA}, Move(b, sha)
  PROVE  /\ heads' \in [Branches -> Commits \cup {NoSHA}]
         /\ baseHeads' \in [Calls -> SUBSET (Commits \cup {NoSHA})]
BY DEF Move, Kinds

(* A call goes on to another state; no other does. *)
LEMMA Onward ==
  ASSUME Kinds, NEW c \in Calls, NEW next, call' = [call EXCEPT ![c] = next]
  PROVE  /\ call' = [d \in Calls |-> call'[d]]
         /\ call'[c] = next
         /\ \A d \in Calls \ {c} : call'[d] = call[d]
BY DEF Kinds

-----------------------------------------------------------------------------
(* Each step keeps the invariant. *)

LEMMA InvokeKeeps ==
  ASSUME AInv, NEW c \in Calls, NEW tool, NEW args, Invoke(c, tool, args)
  PROVE  AInv'
<1> DEFINE request == Request(tool, args)
           next == IF request.method = "none"
                     THEN Returned(tool, args, request, FALSE, "none", "error")
                     ELSE Sending(tool, args, request, FALSE)
<1>1. /\ call[c] = Idle /\ call' = [call EXCEPT ![c] = next]
      /\ heads' = heads /\ pushes' = pushes /\ carriedOut' = carriedOut
  BY DEF Invoke
<1>2. baseHeads' = [baseHeads EXCEPT ![c] =
                     IF IsCreateBranch(tool) /\ OrMain(args.from_ref) \in Branches
                       THEN {heads[OrMain(args.from_ref)]} ELSE {}]
  BY DEF Invoke
<1> HIDE DEF request, next
<1>3. /\ call' = [d \in Calls |-> call'[d]] /\ call'[c] = next
      /\ \A d \in Calls \ {c} : call'[d] = call[d]
  BY <1>1, Onward DEF AInv
<1>4. Kinds'
  BY <1>1, <1>2, <1>3 DEF AInv, Kinds
<1>5. carriedOut'[c] = <<>>
  <2>1. call[c].state = "idle"
    BY <1>1 DEF Idle
  <2>2. carriedOut[c] = <<>>
    BY <2>1 DEF AInv, Told
  <2> QED BY <1>1, <2>2
<1>6. /\ call'[c].state # "idle" /\ call'[c].tool = tool /\ call'[c].args = args
      /\ call'[c].request = request
      /\ call'[c].state \in {"sending", "returned"}
      /\ call'[c].state = "sending" => request.method # "none"
      /\ call'[c].state = "returned" => call'[c].result = "error"
  BY <1>3 DEF next, Returned, Sending
<1>7. Told(c)'
  BY <1>5, <1>6 DEF Told, NoneOrLast
<1>8. ASSUME IsCreateBranch(tool)
      PROVE  /\ request.method \in {"none", "get ref"}
             /\ request.method = "get ref" => request.of = OrMain(args.from_ref)
  BY <1>8 DEF request, Request, IsCreateBranch, FirstRequest, GetBaseRef, Refused, Ask
<1>9. Based(c)'
  <2> SUFFICES ASSUME Creates(c)' PROVE Based(c)'
    BY DEF Based
  <2>1. IsCreateBranch(tool)
    BY <1>6 DEF Creates, IsCreateBranch, IsRest
  <2>2. Base(c)' = OrMain(args.from_ref)
    BY <1>6 DEF Base
  <2>3. OrMain(args.from_ref) \in Branches =>
          heads'[OrMain(args.from_ref)] \in baseHeads'[c]
    BY <1>1, <1>2, <2>1 DEF AInv, Kinds
  <2> QED BY <1>5, <1>6, <1>8, <2>1, <2>2, <2>3 DEF Based, GetsRef
<1>10. ASSUME NEW d \in Calls \ {c} PROVE Told(d)' /\ Based(d)'
  <2>1. baseHeads'[d] = baseHeads[d]
    BY <1>2 DEF AInv, Kinds
  <2> QED BY <1>1, <1>3, <2>1, Undisturbed
<1> QED BY <1>4, <1>7, <1>9, <1>10 DEF AInv

(* The upstream has answered. *)
LEMMA Answered ==
  ASSUME AInv, NEW c \in Calls, NEW status, NEW sha, Answer(c, status, sha)
  PROVE  /\ call' = [d \in Calls |-> call'[d]]
         /\ \A d \in Calls \ {c} : call'[d] = call[d]
         /\ call'[c].state = "answered"
         /\ call'[c].tool = call[c].tool
         /\ call'[c].args = call[c].args
         /\ call'[c].request = call[c].request
         /\ call'[c].turned = call[c].turned
         /\ call'[c].status = status
         /\ call'[c].sha = sha
BY Onward DEF Answer, AInv, Kinds

(* The request goes on as a GET. *)
LEMMA Turned ==
  ASSUME AInv, NEW c \in Calls, Turn(c)
  PROVE  /\ ~GetsRef(c)
         /\ call' = [d \in Calls |-> call'[d]]
         /\ \A d \in Calls \ {c} : call'[d] = call[d]
         /\ call'[c].state = "sending"
         /\ call'[c].tool = call[c].tool
         /\ call'[c].args = call[c].args
         /\ call'[c].request = call[c].request
         /\ call'[c].turned = TRUE
<1>1. ~GetsRef(c)
  BY DEF Turn, Reads, GetsRef
<1>2. call' = [call EXCEPT ![c] = Sending(call[c].tool, call[c].args, call[c].request, TRUE)]
  BY DEF Turn, AInv, Kinds
<1>3. /\ call' = [d \in Calls |-> call'[d]]
      /\ \A d \in Calls \ {c} : call'[d] = call[d]
      /\ call'[c] = Sending(call[c].tool, call[c].args, call[c].request, TRUE)
  BY <1>2, Onward DEF AInv
<1> QED BY <1>1, <1>3 DEF Sending

LEMMA FirstAppended ==
  ASSUME NEW r
  PROVE  Append(<<>>, r) = <<r>>
OBVIOUS

(* A request is carried out that was not before. *)
LEMMA Effect ==
  ASSUME AInv, NEW c \in Calls, call[c].state # "idle", carriedOut[c] = <<>>,
         call[c].request.method \notin {"none", "get ref"}, TakesEffect(c)
  PROVE  /\ heads' \in [Branches -> Commits \cup {NoSHA}]
         /\ baseHeads' \in [Calls -> SUBSET (Commits \cup {NoSHA})]
         /\ carriedOut' = [d \in Calls |-> carriedOut'[d]]
         /\ carriedOut'[c] = <<call[c].request>>
         /\ \A d \in Calls \ {c} : carriedOut'[d] = carriedOut[d]
         /\ baseHeads'[c] = baseHeads[c]
         /\ Creates(c) => call[c].request.sha \in baseHeads[c]
         /\ \A d \in Calls : \/ heads' = heads /\ baseHeads'[d] = baseHeads[d]
                             \/ \E b, sha : Move(b, sha)
<1> DEFINE r == call[c].request
<1>1. Kinds /\ Based(c)
  BY DEF AInv
<1>2. /\ carriedOut' = [d \in Calls |-> carriedOut'[d]]
      /\ carriedOut'[c] = Append(<<>>, r)
      /\ \A d \in Calls \ {c} : carriedOut'[d] = carriedOut[d]
  BY <1>1 DEF TakesEffect, Kinds
<1>3. Append(<<>>, r) = <<r>>
  BY FirstAppended
<1>4. CASE r.method = "create ref"
  <2>1. r.sha \in Commits /\ Move(r.of, r.sha)
    BY <1>4 DEF TakesEffect
  <2>2. /\ heads' \in [Branches -> Commits \cup {NoSHA}]
        /\ baseHeads' \in [Calls -> SUBSET (Commits \cup {NoSHA})]
    BY <1>1, <2>1, MoveKeepsKinds
  <2>3. baseHeads'[c] = baseHeads[c]
    BY <1>1, <1>4, <2>1 DEF Move, LooksUp, Kinds
  <2>4. Creates(c) => r.sha \in baseHeads[c]
    BY <1>1, <1>4, <2>1, NoNames DEF Based
  <2>5. \A d \in Calls : \E b, sha : Move(b, sha)
    BY <2>1
  <2> QED BY <1>2, <1>3, <2>2, <2>3, <2>4, <2>5
<1>5. CASE r.method # "create ref"
  <2>1. heads' = heads /\ baseHeads' = baseHeads
    BY <1>5 DEF TakesEffect
  <2>2. ~Creates(c)
    BY <1>1, <1>5 DEF Based
  <2>3. \A d \in Calls : heads' = heads /\ baseHeads'[d] = baseHeads[d]
    BY <2>1
  <2> QED BY <1>1, <1>2, <1>3, <2>1, <2>2, <2>3 DEF Kinds
<1> QED BY <1>4, <1>5

(* A "get ref" is answered. *)
LEMMA RefAnswered ==
  ASSUME AInv, NEW c \in Calls, call[c].state = "sending", GetsRef(c),
         NEW status \in Statuses, NEW sha, Answer(c, status, sha),
         status \in {"2xx", "3xx"} =>
           \/ sha \in {NoSHA, Unparsed}
           \/ call[c].request.of \in Branches /\ sha = heads[call[c].request.of],
         UNCHANGED <<heads, pushes, carriedOut, baseHeads>>
  PROVE  AInv'
<1>1. /\ call' = [d \in Calls |-> call'[d]]
      /\ \A d \in Calls \ {c} : call'[d] = call[d]
      /\ call'[c].state = "answered"
      /\ call'[c].tool = call[c].tool
      /\ call'[c].args = call[c].args
      /\ call'[c].request = call[c].request
      /\ call'[c].turned = call[c].turned
      /\ call'[c].status = status
      /\ call'[c].sha = sha
  BY Answered
<1>2. Told(c) /\ Based(c)
  BY DEF AInv
<1>3. carriedOut[c] = <<>>
  BY <1>2 DEF Told
<1>4. Kinds'
  BY <1>1 DEF AInv, Kinds
<1>5. TrueAnswer(c)'
  BY <1>1, <1>3 DEF TrueAnswer, GetsRef
<1>6. Told(c)'
  BY <1>1, <1>3, <1>5 DEF Told, NoneOrLast
<1>7. IsError(c)' \/ status \in {"2xx", "3xx"}
  BY <1>1 DEF IsError, Statuses
<1>8. Creates(c)' => Creates(c)
  BY <1>1 DEF Creates, IsCreateBranch, IsRest
<1>9. Creates(c) /\ ~IsError(c)' => sha \in baseHeads[c] \cup {NoSHA, Unparsed}
  BY <1>2, <1>7 DEF Based
<1>10. Based(c)'
  BY <1>1, <1>2, <1>3, <1>8, <1>9 DEF Based, GetsRef
<1>11. ASSUME NEW d \in Calls \ {c} PROVE Told(d)' /\ Based(d)'
  BY <1>1, Undisturbed
<1> QED BY <1>4, <1>6, <1>10, <1>11 DEF AInv

(* Another request is answered, or turned. *)
LEMMA OtherAnswered ==
  ASSUME AInv, NEW c \in Calls, call[c].state = "sending", ~GetsRef(c),
         \/ Turn(c)
         \/ \E status \in Statuses :
              /\ Answer(c, status, NoSHA)
              /\ status = "2xx" => carriedOut'[c] = <<call[c].request>> \/ call[c].turned
              /\ status = "4xx" => carriedOut'[c] = <<>> \/ call[c].turned,
         heads' \in [Branches -> Commits \cup {NoSHA}], UNCHANGED pushes,
         baseHeads' \in [Calls -> SUBSET (Commits \cup {NoSHA})],
         carriedOut' = [d \in Calls |-> carriedOut'[d]],
         carriedOut'[c] = <<>> \/ carriedOut'[c] = <<call[c].request>>,
         \A d \in Calls \ {c} : carriedOut'[d] = carriedOut[d],
         baseHeads'[c] = baseHeads[c],
         Creates(c) /\ carriedOut'[c] # <<>> => call[c].request.sha \in baseHeads[c],
         \A d \in Calls : \/ heads' = heads /\ baseHeads'[d] = baseHeads[d]
                          \/ \E b, sha : Move(b, sha)
  PROVE  AInv'
<1> DEFINE goal ==
             /\ call' = [d \in Calls |-> call'[d]]
             /\ \A d \in Calls \ {c} : call'[d] = call[d]
             /\ call'[c].state \in {"sending", "answered"}
             /\ call'[c].tool = call[c].tool
             /\ call'[c].args = call[c].args
             /\ call'[c].request = call[c].request
             /\ call'[c].state = "sending" => call'[c].turned = TRUE
             /\ call'[c].state = "answered" =>
                  /\ call'[c].turned = call[c].turned
                  /\ call'[c].status \in Statuses
                  /\ call'[c].status = "2xx" => carriedOut'[c] = <<call[c].request>> \/ call[c].turned
                  /\ call'[c].status = "4xx" => carriedOut'[c] = <<>> \/ call[c].turned
<1>1. goal
  <2>1. CASE Turn(c)
    BY <2>1, Turned
  <2>2. ASSUME NEW status \in Statuses, Answer(c, status, NoSHA),
               status = "2xx" => carriedOut'[c] = <<call[c].request>> \/ call[c].turned,
               status = "4xx" => carriedOut'[c] = <<>> \/ call[c].turned
        PROVE  goal
    BY <2>2, Answered
  <2> QED BY <2>1, <2>2
<1>2. Kinds'
  BY <1>1 DEF AInv, Kinds
<1>3. Based(c)
  BY DEF AInv
<1>4. ~GetsRef(c)'
  BY <1>1 DEF GetsRef
<1>5. call'[c].state = "answered" => TrueAnswer(c)'
  BY <1>1, <1>4 DEF TrueAnswer
<1>6. Told(c)'
  <2>1. NoneOrLast(c)'
    BY <1>1 DEF NoneOrLast
  <2>2. call'[c].state = "sending" =>
          call'[c].request.method # "none" /\ call'[c].turned /\ ~GetsRef(c)'
    <3>1. call[c].request.method # "none"
      BY DEF AInv, Told
    <3> QED BY <1>1, <1>4, <3>1
  <2>3. call'[c].state \in {"sending", "answered"}
    BY <1>1
  <2> HIDE DEF goal
  <2> QED BY <1>5, <2>1, <2>2, <2>3 DEF Told
<1>7. Creates(c)' => Creates(c)
  BY <1>1 DEF Creates, IsCreateBranch, IsRest
<1>8. ASSUME carriedOut'[c] # <<>>
      PROVE  carriedOut'[c][1] = call[c].request
  BY <1>8
<1>9. Creates(c) => call[c].request.method = "create ref"
                    /\ call[c].request.sha \in baseHeads[c] \cup {NoSHA}
  <2>1. call[c].request.method # "none"
    BY DEF AInv, Told
  <2> QED BY <1>3, <2>1 DEF Based, GetsRef
<1>10. Based(c)'
  BY <1>1, <1>4, <1>7, <1>8, <1>9 DEF Based
<1>11. ASSUME NEW d \in Calls \ {c} PROVE Told(d)' /\ Based(d)'
  BY <1>1, Undisturbed
<1> QED BY <1>2, <1>6, <1>10, <1>11 DEF AInv

LEMMA GetRefKeeps ==
  ASSUME AInv, NEW c \in Calls, call[c].state = "sending", GetRef(c), UNCHANGED pushes
  PROVE  AInv'
<1>1. /\ GetsRef(c)
      /\ UNCHANGED <<heads, pushes, carriedOut, baseHeads>>
  BY DEF GetRef, GetsRef, HasNoEffect
<1>2. \/ /\ call[c].request.of \in Branches
         /\ \E sha \in {heads[call[c].request.of], NoSHA, Unparsed} : Answer(c, "2xx", sha)
      \/ Answer(c, "3xx", Unparsed)
  BY DEF GetRef
<1>3. "2xx" \in Statuses /\ "3xx" \in Statuses
  BY DEF Statuses
<1> QED BY <1>1, <1>2, <1>3, RefAnswered

LEMMA CarryOutKeeps ==
  ASSUME AInv, NEW c \in Calls, call[c].state = "sending", CarryOut(c), UNCHANGED pushes
  PROVE  AInv'
<1>1. /\ ~GetsRef(c) /\ ~call[c].turned /\ TakesEffect(c)
      /\ Turn(c) \/ \E status \in {"2xx", "5xx"} : Answer(c, status, NoSHA)
  BY DEF CarryOut, GetsRef
<1>2. Told(c) /\ Based(c)
  BY DEF AInv
<1>3. carriedOut[c] = <<>>
  BY <1>1, <1>2 DEF Told
<1>4. call[c].request.method # "none"
  BY <1>2 DEF Told
<1>5. /\ heads' \in [Branches -> Commits \cup {NoSHA}]
      /\ baseHeads' \in [Calls -> SUBSET (Commits \cup {NoSHA})]
      /\ carriedOut' = [d \in Calls |-> carriedOut'[d]]
      /\ carriedOut'[c] = <<call[c].request>>
      /\ \A d \in Calls \ {c} : carriedOut'[d] = carriedOut[d]
      /\ baseHeads'[c] = baseHeads[c]
      /\ Creates(c) => call[c].request.sha \in baseHeads[c]
      /\ \A d \in Calls : \/ heads' = heads /\ baseHeads'[d] = baseHeads[d]
                          \/ \E b, sha : Move(b, sha)
  BY <1>1, <1>3, <1>4, Effect DEF GetsRef
<1>6. \/ Turn(c)
      \/ \E status \in Statuses :
           /\ Answer(c, status, NoSHA)
           /\ status = "2xx" => carriedOut'[c] = <<call[c].request>> \/ call[c].turned
           /\ status = "4xx" => carriedOut'[c] = <<>> \/ call[c].turned
  <2>1. CASE Turn(c)
    BY <2>1
  <2>2. CASE \E status \in {"2xx", "5xx"} : Answer(c, status, NoSHA)
    <3>1. PICK status \in {"2xx", "5xx"} : Answer(c, status, NoSHA)
      BY <2>2
    <3>2. status \in Statuses /\ status # "4xx"
      BY <3>1 DEF Statuses
    <3> QED BY <1>5, <3>1, <3>2
  <2> QED BY <1>1, <2>1, <2>2
<1> QED BY <1>1, <1>5, <1>6, OtherAnswered

LEMMA NotCarriedOutKeeps ==
  ASSUME AInv, NEW c \in Calls, call[c].state = "sending", NotCarriedOut(c), UNCHANGED pushes
  PROVE  AInv'
<1>1. /\ UNCHANGED <<heads, pushes, carriedOut, baseHeads>>
      /\ \/ \E status \in {"3xx", "4xx", "5xx"} : Answer(c, status, NoSHA)
         \/ call[c].turned /\ Answer(c, "2xx", NoSHA)
         \/ Turn(c)
  BY DEF NotCarriedOut, HasNoEffect
<1>2. Told(c) /\ Based(c) /\ Kinds
  BY DEF AInv
<1>3. PICK status \in Statuses :
        \/ Turn(c)
        \/ Answer(c, status, NoSHA) /\ (status = "2xx" => call[c].turned)
  <2>1. CASE \E status \in {"3xx", "4xx", "5xx"} : Answer(c, status, NoSHA)
    <3>1. PICK status \in {"3xx", "4xx", "5xx"} : Answer(c, status, NoSHA)
      BY <2>1
    <3>2. status \in Statuses /\ status # "2xx"
      BY <3>1 DEF Statuses
    <3> QED BY <3>1, <3>2
  <2>2. "2xx" \in Statuses
    BY DEF Statuses
  <2> QED BY <1>1, <2>1, <2>2
<1>4. CASE GetsRef(c)
  <2>1. ~Turn(c)
    BY <1>4, Turned
  <2> QED BY <1>1, <1>3, <1>4, <2>1, RefAnswered
<1>5. CASE ~GetsRef(c)
  <2>1. carriedOut[c] = <<>> \/ (call[c].turned /\ carriedOut[c] = <<call[c].request>>)
    BY <1>2 DEF Told, NoneOrLast
  <2>2. ASSUME Creates(c), carriedOut[c] # <<>>
        PROVE  call[c].request.sha \in baseHeads[c]
    <3>1. carriedOut[c][1].sha \in baseHeads[c]
      BY <1>2, <2>2 DEF Based
    <3>2. carriedOut[c][1] = call[c].request
      BY <2>1, <2>2
    <3> QED BY <3>1, <3>2
  <2>3. \/ Turn(c)
        \/ \E s \in Statuses :
             /\ Answer(c, s, NoSHA)
             /\ s = "2xx" => carriedOut'[c] = <<call[c].request>> \/ call[c].turned
             /\ s = "4xx" => carriedOut'[c] = <<>> \/ call[c].turned
    BY <1>1, <1>3, <2>1
  <2>4. /\ heads' \in [Branches -> Commits \cup {NoSHA}]
        /\ baseHeads' \in [Calls -> SUBSET (Commits \cup {NoSHA})]
        /\ carriedOut' = [d \in Calls |-> carriedOut'[d]]
        /\ \A d \in Calls : carriedOut'[d] = carriedOut[d] /\ baseHeads'[d] = baseHeads[d]
        /\ heads' = heads
    BY <1>1, <1>2 DEF Kinds
  <2> QED BY <1>1, <1>5, <2>1, <2>2, <2>3, <2>4, OtherAnswered
<1> QED BY <1>4, <1>5

LEMMA ArriveLateKeeps ==
  ASSUME AInv, NEW c \in Calls, ArriveLate(c)
  PROVE  AInv'
<1>1. /\ call[c].state = "returned" /\ call[c].status \in {"none", "5xx"}
      /\ call[c].request.method \notin {"none", "get ref"} /\ carriedOut[c] = <<>>
      /\ TakesEffect(c) /\ call' = call /\ pushes' = pushes
  BY DEF ArriveLate
<1>2. /\ heads' \in [Branches -> Commits \cup {NoSHA}]
      /\ baseHeads' \in [Calls -> SUBSET (Commits \cup {NoSHA})]
      /\ carriedOut' = [d \in Calls |-> carriedOut'[d]]
      /\ carriedOut'[c] = <<call[c].request>>
      /\ \A d \in Calls \ {c} : carriedOut'[d] = carriedOut[d]
      /\ baseHeads'[c] = baseHeads[c]
      /\ Creates(c) => call[c].request.sha \in baseHeads[c]
      /\ \A d \in Calls : \/ heads' = heads /\ baseHeads'[d] = baseHeads[d]
                          \/ \E b, sha : Move(b, sha)
  BY <1>1, Effect
<1>3. Told(c) /\ Based(c)
  BY DEF AInv
<1>4. Kinds'
  BY <1>1, <1>2 DEF AInv, Kinds
<1>5. Told(c)'
  BY <1>1, <1>2, <1>3 DEF Told, NoneOrLast
<1>6. carriedOut'[c][1] = call[c].request
  BY <1>2
<1>7. Based(c)'
  BY <1>1, <1>2, <1>3, <1>6 DEF Based, Creates
<1>8. ASSUME NEW d \in Calls \ {c} PROVE Told(d)' /\ Based(d)'
  BY <1>1, <1>2, Undisturbed
<1> QED BY <1>4, <1>5, <1>7, <1>8 DEF AInv

(* A call that returns: nothing else changes. *)
LEMMA ReturnKeeps ==
  ASSUME AInv, NEW c \in Calls, Calling(c),
         NEW status, NEW result \in {"ok", "upstream error", "error"},
         call' = [call EXCEPT ![c] = Returned(@.tool, @.args, @.request, @.turned, status, result)],
         result # "error" => status # "none",
         result = "ok" =>
           carriedOut[c] = <<call[c].request>> \/ call[c].turned \/ status = "3xx",
         result = "upstream error" =>
           carriedOut[c] = <<>> \/ call[c].turned \/ status = "5xx",
         UNCHANGED <<heads, pushes, carriedOut, baseHeads>>
  PROVE  AInv'
<1>1. /\ call' = [d \in Calls |-> call'[d]]
      /\ call'[c] = Returned(call[c].tool, call[c].args, call[c].request, call[c].turned,
                             status, result)
      /\ \A d \in Calls \ {c} : call'[d] = call[d]
  BY Onward DEF AInv, Kinds
<1>2. /\ call'[c].state = "returned"
      /\ call'[c].tool = call[c].tool
      /\ call'[c].args = call[c].args
      /\ call'[c].request = call[c].request
      /\ call'[c].turned = call[c].turned
      /\ call'[c].status = status
      /\ call'[c].result = result
  BY <1>1 DEF Returned
<1>3. Told(c) /\ Based(c) /\ call[c].state # "idle"
  BY DEF AInv, Calling
<1>4. Kinds'
  BY <1>1 DEF AInv, Kinds
<1>5. NoneOrLast(c)'
  BY <1>2, <1>3 DEF Told, NoneOrLast
<1>6. Told(c)'
  BY <1>2, <1>5 DEF Told
<1>7. Creates(c)' => Creates(c)
  BY <1>2, <1>3 DEF Creates, IsCreateBranch, IsRest
<1>8. Based(c)'
  BY <1>2, <1>3, <1>7 DEF Based
<1>9. ASSUME NEW d \in Calls \ {c} PROVE Told(d)' /\ Based(d)'
  BY <1>1, Undisturbed
<1> QED BY <1>4, <1>6, <1>8, <1>9 DEF AInv

LEMMA LostKeeps ==
  ASSUME AInv, NEW c \in Calls, Lost(c)
  PROVE  AInv'
<1> DEFINE status == IF call[c].state = "answered" THEN "lost" ELSE "none"
<1>1. /\ Calling(c) /\ UNCHANGED <<heads, pushes, carriedOut, baseHeads>>
      /\ call' = [call EXCEPT ![c] =
                    Returned(@.tool, @.args, @.request, @.turned, status, "error")]
  BY DEF Lost
<1> HIDE DEF status
<1> QED BY <1>1, ReturnKeeps

LEMMA ReceiveKeeps ==
  ASSUME AInv, NEW c \in Calls, Receive(c)
  PROVE  AInv'
<1> DEFINE r == call[c].request
<1>1. /\ call[c].state = "answered" /\ Calling(c)
      /\ UNCHANGED <<heads, pushes, carriedOut, baseHeads>>
  BY DEF Receive, Calling
<1>2. Told(c) /\ Based(c) /\ TrueAnswer(c) /\ NoneOrLast(c)
  BY <1>1 DEF AInv, Told
<1>3. CASE r.method # "get ref" \/ IsError(c)
  <2> DEFINE status == call[c].status
             result == Outcome(c)
  <2>1. call' = [call EXCEPT ![c] =
                   Returned(@.tool, @.args, @.request, @.turned, status, result)]
    BY <1>3 DEF Receive, AInv, Kinds
  <2>2. result = "ok" =>
          carriedOut[c] = <<call[c].request>> \/ call[c].turned \/ status = "3xx"
    BY <1>2, <1>3 DEF Outcome, IsError, TrueAnswer, Statuses, GetsRef
  <2>3. result = "upstream error" =>
          carriedOut[c] = <<>> \/ call[c].turned \/ status = "5xx"
    BY <1>2 DEF Outcome, IsError, TrueAnswer
  <2>4. result \in {"ok", "upstream error", "error"} /\ status # "none"
    BY <1>2 DEF Outcome, TrueAnswer, Statuses
  <2> HIDE DEF r, status, result
  <2>5. result # "error" => status # "none"
    BY <2>4
  <2>6. result \in {"ok", "upstream error", "error"}
    BY <2>4
  <2>7. UNCHANGED <<heads, pushes, carriedOut, baseHeads>>
    BY <1>1
  <2>8. Calling(c)
    BY <1>1
  <2> QED BY <2>1, <2>2, <2>3, <2>5, <2>6, <2>7, <2>8, ReturnKeeps
<1>4. CASE r.method = "get ref" /\ ~IsError(c) /\ call[c].sha = Unparsed
  <2>1. call' = [call EXCEPT ![c] =
                   Returned(@.tool, @.args, @.request, @.turned, call[c].status, "error")]
    BY <1>4 DEF Receive, AInv, Kinds
  <2> QED BY <1>1, <2>1, ReturnKeeps
<1>5. CASE r.method = "get ref" /\ ~IsError(c) /\ call[c].sha # Unparsed
  <2> DEFINE second == CreateRef(call[c].args, call[c].sha)
             next == Sending(call[c].tool, call[c].args, second, FALSE)
  <2>1. call' = [call EXCEPT ![c] = next]
    BY <1>5 DEF Receive, AInv, Kinds
  <2>2. /\ call' = [d \in Calls |-> call'[d]]
        /\ call'[c] = next
        /\ \A d \in Calls \ {c} : call'[d] = call[d]
    BY <2>1, Onward DEF AInv
  <2>3. /\ call'[c].state = "sending"
        /\ call'[c].tool = call[c].tool
        /\ call'[c].args = call[c].args
        /\ call'[c].request.method = "create ref"
        /\ call'[c].request.sha = call[c].sha
    <3>1. second.method = "create ref" /\ second.sha = call[c].sha
      BY DEF CreateRef, Ask
    <3> HIDE DEF second
    <3>2. /\ next.state = "sending" /\ next.tool = call[c].tool
          /\ next.args = call[c].args /\ next.request = second
      BY DEF Sending
    <3> QED BY <2>2, <3>1, <3>2
  <2>4. carriedOut'[c] = <<>>
    BY <1>1, <1>2, <1>5 DEF TrueAnswer, GetsRef
  <2>5. Kinds'
    BY <1>1, <2>2 DEF AInv, Kinds
  <2>6. Told(c)'
    BY <2>3, <2>4 DEF Told, NoneOrLast
  <2>7. Creates(c)' => Creates(c)
    BY <1>1, <2>3 DEF Creates, IsCreateBranch, IsRest
  <2>8. Creates(c) => call[c].sha \in baseHeads[c] \cup {NoSHA}
    BY <1>1, <1>2, <1>5 DEF Based, GetsRef
  <2>9. Based(c)'
    BY <1>1, <2>3, <2>4, <2>7, <2>8 DEF Based, GetsRef
  <2>10. ASSUME NEW d \in Calls \ {c} PROVE Told(d)' /\ Based(d)'
    BY <1>1, <2>2, Undisturbed
  <2> QED BY <2>5, <2>6, <2>9, <2>10 DEF AInv
<1> QED BY <1>3, <1>4, <1>5

LEMMA OthersPushKeeps ==
  ASSUME AInv, NEW b \in Branches, NEW sha \in Commits \cup {NoSHA}, OthersPush(b, sha)
  PROVE  AInv'
<1>1. /\ pushes < MaxPushes /\ pushes' = pushes + 1
      /\ Move(b, sha) /\ call' = call /\ carriedOut' = carriedOut
  BY DEF OthersPush
<1>2. pushes' \in 0..MaxPushes
  BY <1>1, AdaptersAssumption DEF AInv, Kinds
<1>3. Kinds'
  BY <1>1, <1>2, MoveKeepsKinds DEF AInv, Kinds
<1>4. ASSUME NEW d \in Calls PROVE Told(d)' /\ Based(d)'
  BY <1>1, Undisturbed
<1> QED BY <1>3, <1>4 DEF AInv

-----------------------------------------------------------------------------
LEMMA Initially == Init => AInv
<1> SUFFICES ASSUME Init PROVE AInv
  OBVIOUS
<1>1. Kinds
  BY AdaptersAssumption DEF Init, Kinds
<1>2. ASSUME NEW c \in Calls
      PROVE  call[c].state = "idle" /\ carriedOut[c] = <<>>
  BY <1>2 DEF Init, Idle
<1>3. \A c \in Calls : Told(c) /\ Based(c)
  BY <1>2 DEF Told, Based, Creates
<1> QED BY <1>1, <1>3 DEF AInv

LEMMA ArriveKeeps ==
  ASSUME AInv, NEW c \in Calls, Arrive(c)
  PROVE  AInv'
BY GetRefKeeps, CarryOutKeeps, NotCarriedOutKeeps DEF Arrive

LEMMA Unmoved == AInv /\ UNCHANGED vars => AInv'
<1> SUFFICES ASSUME AInv, UNCHANGED vars PROVE AInv'
  OBVIOUS
<1>1. /\ call' = call /\ carriedOut' = carriedOut /\ heads' = heads
      /\ baseHeads' = baseHeads /\ pushes' = pushes
  BY DEF vars
<1>2. Kinds'
  BY <1>1 DEF AInv, Kinds
<1>3. ASSUME NEW d \in Calls PROVE Told(d)' /\ Based(d)'
  BY <1>1, Undisturbed
<1> QED BY <1>2, <1>3 DEF AInv

LEMMA Stepwise == AInv /\ [Next]_vars => AInv'
BY InvokeKeeps, ArriveKeeps, ArriveLateKeeps, LostKeeps, ReceiveKeeps, OthersPushKeeps,
   Unmoved DEF Next

LEMMA Invariance == Spec => []AInv
BY Initially, Stepwise, PTL DEF Spec

-----------------------------------------------------------------------------
(***************************************************************************)
(* The request of a configured operation.  Its path is the result of a     *)
(* loop, a function defined by recursion.  Rather than by induction, what  *)
(* it computes is found by a least turn at which it would differ from what *)
(* it should have (Filled).                                                *)
(***************************************************************************)

(* A set of naturals has a least element. *)
LEMMA LeastOf ==
  ASSUME NEW T \in SUBSET Nat, T # {}
  PROVE  \E m \in T : \A k \in T : m <= k
<1> DEFINE R == StrictSubsetOrdering(Nat)
           S == FiniteSubsetsOf(Nat)
           Below == {0..(m - 1) : m \in T}
<1>1. IsWellFoundedOn(R, S)
  BY FS_StrictSubsetOrderingWellFounded
<1>2. Below \subseteq S
  <2> SUFFICES ASSUME NEW m \in T PROVE 0..(m - 1) \in S
    OBVIOUS
  <2>1. IsFiniteSet(0..(m - 1))
    BY FS_Interval
  <2> QED BY <2>1 DEF FiniteSubsetsOf
<1>3. Below # {}
  OBVIOUS
<1>4. \E x \in Below : \A y \in Below : ~(<<y, x>> \in R)
  <2> HIDE DEF R, S, Below
  <2> QED BY <1>1, <1>2, <1>3, WFMin
<1>5. PICK m \in T : \A y \in Below : ~(<<y, 0..(m - 1)>> \in R)
  BY <1>4
<1>6. ASSUME NEW k \in T, k < m PROVE FALSE
  <2>1. 0..(k - 1) \in Below /\ 0..(k - 1) \subseteq 0..(m - 1)
    BY <1>6
  <2>2. k \in 0..(m - 1) /\ k \notin 0..(k - 1)
    BY <1>6
  <2>3. 0..(k - 1) # 0..(m - 1)
    BY <2>2
  <2>4. <<0..(k - 1), 0..(m - 1)>> \in (SUBSET Nat) \X (SUBSET Nat)
    OBVIOUS
  <2> QED BY <1>5, <2>1, <2>3, <2>4 DEF StrictSubsetOrdering
<1> QED BY <1>6

(* The path after k turns: the holes met so far are filled, everywhere. *)
Met(template, k, p) == \E j \in 1..k : IsHole(template[j]) /\ template[j].of = p

Failed(template, args, k) == \E j \in 1..k : IsHole(template[j]) /\ Lacks(args, template[j].of)

Filled(template, args, k) ==
  IF Failed(template, args, k) THEN <<>>
  ELSE [i \in 1..Len(template) |->
          IF IsHole(template[i]) /\ Met(template, k, template[i].of)
            THEN Segment(Printed(args[template[i].of])) ELSE template[i]]

IsTemplate(path) == path = [i \in 1..Len(path) |-> path[i]] /\ Len(path) \in Nat \ {0}

LEMMA FilledFirst ==
  ASSUME NEW template, IsTemplate(template), NEW args
  PROVE  Filled(template, args, 0) = template
BY DEF Filled, Failed, Met, IsTemplate

LEMMA FilledNext ==
  ASSUME NEW template, IsTemplate(template), NEW args, NEW k \in 1..Len(template)
  PROVE  Filled(template, args, k) =
           SubstituteOne(Filled(template, args, k - 1), template[k], args)
<1> DEFINE n == Len(template)
           before == Filled(template, args, k - 1)
           piece == template[k]
           text(i) == Segment(Printed(args[template[i].of]))
<1>1. /\ n \in Nat \ {0} /\ k \in Nat /\ k - 1 \in Nat /\ k \in 1..k
      /\ \A j : j \in 1..k <=> (j \in 1..(k - 1) \/ j = k)
  BY DEF IsTemplate
<1>2. /\ Failed(template, args, k) <=>
           (Failed(template, args, k - 1) \/ (IsHole(piece) /\ Lacks(args, piece.of)))
      /\ \A p : Met(template, k, p) <=>
                  (Met(template, k - 1, p) \/ (IsHole(piece) /\ piece.of = p))
  BY <1>1 DEF Failed, Met
<1>3. CASE Failed(template, args, k - 1)
  BY <1>2, <1>3 DEF Filled, SubstituteOne
<1>4. CASE ~Failed(template, args, k - 1)
  <2>1. before = [i \in 1..n |-> IF IsHole(template[i]) /\ Met(template, k - 1, template[i].of)
                                   THEN text(i) ELSE template[i]]
    BY <1>4 DEF Filled
  <2>2. before # <<>>
    <3>1. 1 \in DOMAIN before
      BY <1>1, <2>1
    <3>2. 1 \notin DOMAIN <<>>
      OBVIOUS
    <3> QED BY <3>1, <3>2
  <2>3. CASE ~IsHole(piece)
    <3>1. SubstituteOne(before, piece, args) = before
      BY <2>3 DEF SubstituteOne
    <3> QED BY <1>2, <1>4, <2>3, <3>1 DEF Filled
  <2>4. CASE IsHole(piece) /\ Lacks(args, piece.of)
    BY <1>2, <2>2, <2>4 DEF Filled, SubstituteOne
  <2>5. CASE IsHole(piece) /\ ~Lacks(args, piece.of)
    <3> DEFINE new == Segment(Printed(args[piece.of]))
               next == [i \in DOMAIN before |->
                          IF IsHole(before[i]) /\ before[i].of = piece.of THEN new ELSE before[i]]
    <3>1. SubstituteOne(before, piece, args) = next
      BY <2>2, <2>5 DEF SubstituteOne, FillHole, PathEscape
    <3>2. Filled(template, args, k) =
            [i \in 1..n |-> IF IsHole(template[i]) /\ Met(template, k, template[i].of)
                              THEN text(i) ELSE template[i]]
      BY <1>2, <1>4, <2>5 DEF Filled
    <3>3. DOMAIN before = 1..n
      BY <2>1
    <3>4. ASSUME NEW i \in 1..n
          PROVE  next[i] = IF IsHole(template[i]) /\ Met(template, k, template[i].of)
                             THEN text(i) ELSE template[i]
      <4>1. ~IsHole(text(i))
        BY DEF IsHole, Segment
      <4>2. next[i] = IF IsHole(before[i]) /\ before[i].of = piece.of THEN new ELSE before[i]
        BY <3>3
      <4>3. before[i] = IF IsHole(template[i]) /\ Met(template, k - 1, template[i].of)
                          THEN text(i) ELSE template[i]
        BY <2>1
      <4>4. template[i].of = piece.of => text(i) = new
        OBVIOUS
      <4> HIDE DEF text, new, next, before
      <4> QED BY <1>2, <2>5, <4>1, <4>2, <4>3, <4>4
    <3> QED BY <3>1, <3>2, <3>3, <3>4
  <2> QED BY <2>3, <2>4, <2>5
<1> QED BY <1>3, <1>4

(* The loop computes what it should, for every template and arguments. *)
LEMMA LoopFills ==
  ASSUME NEW template, IsTemplate(template), NEW args
  PROVE  SubstitutePath(template, args) = Filled(template, args, Len(template))
<1> DEFINE n == Len(template)
           Loop(f) == [k \in 0..n |->
                         IF k = 0 THEN template ELSE SubstituteOne(f[k - 1], template[k], args)]
           goal == [k \in 0..n |-> Filled(template, args, k)]
           path == CHOOSE f : f = Loop(f)
<1>1. n \in Nat
  BY DEF IsTemplate
<1>2. SubstitutePath(template, args) = path[n]
  BY DEF SubstitutePath
<1>3. goal = Loop(goal)
  <2> SUFFICES ASSUME NEW k \in 0..n
               PROVE  goal[k] = IF k = 0 THEN template
                                ELSE SubstituteOne(goal[k - 1], template[k], args)
    OBVIOUS
  <2>1. CASE k = 0
    BY <2>1, FilledFirst
  <2>2. CASE k # 0
    <3>1. k \in 1..n /\ k - 1 \in 0..n
      BY <1>1, <2>2
    <3> QED BY <2>2, <3>1, FilledNext
  <2> QED BY <2>1, <2>2
<1>4. path = Loop(path)
  <2>1. \E f : f = Loop(f)
    BY <1>3
  <2> HIDE DEF Loop
  <2> QED BY <2>1
<1>5. ASSUME NEW k \in 0..n, path[k] # goal[k]
      PROVE  FALSE
  <2> DEFINE T == {j \in 0..n : path[j] # goal[j]}
  <2> HIDE DEF path, goal
  <2>1. T \in SUBSET Nat /\ T # {}
    BY <1>1, <1>5
  <2>2. PICK m \in T : \A j \in T : m <= j
    <3> HIDE DEF T
    <3> QED BY <2>1, LeastOf
  <2>3. m \in 0..n /\ path[m] # goal[m]
    OBVIOUS
  <2>4. CASE m = 0
    <3>1. path[m] = template /\ goal[m] = template
      BY <1>1, <1>3, <1>4, <2>4
    <3> QED BY <2>3, <3>1
  <2>5. CASE m # 0
    <3>1. m - 1 \in 0..n /\ ~(m <= m - 1)
      BY <1>1, <2>3, <2>5
    <3>2. path[m - 1] = goal[m - 1]
      BY <2>2, <3>1
    <3>3. /\ path[m] = SubstituteOne(path[m - 1], template[m], args)
          /\ goal[m] = SubstituteOne(goal[m - 1], template[m], args)
      BY <1>3, <1>4, <2>3, <2>5
    <3> QED BY <2>3, <3>2, <3>3
  <2> QED BY <2>4, <2>5
<1>6. n \in 0..n
  BY <1>1
<1>7. path[n] = goal[n]
  BY <1>5, <1>6
<1> QED BY <1>2, <1>6, <1>7

(***************************************************************************)
(* What a step does to a call: it begins, it goes on, its request arrives  *)
(* late, or it is left alone.                                              *)
(***************************************************************************)
OnwardOnly(c) ==
  /\ Calling(c)
  /\ call'[c].state # "idle" /\ call'[c].tool = call[c].tool /\ call'[c].args = call[c].args
  /\ call'[c].request = call[c].request \/ GetsRef(c)

LeftAlone(c) == call'[c] = call[c] /\ carriedOut'[c] = carriedOut[c]

Late(c) ==
  call'[c] = call[c] /\ call[c].state = "returned" /\ call[c].request.method # "none"

LEMMA OnlyTheirs ==
  ASSUME AInv, NEW c \in Calls, TakesEffect(c)
  PROVE  \A x \in Calls \ {c} : carriedOut'[x] = carriedOut[x]
BY DEF TakesEffect, AInv, Kinds

LEMMA StepOfCall ==
  ASSUME AInv, [Next]_vars, NEW d \in Calls
  PROVE  \/ LeftAlone(d)
         \/ OnwardOnly(d)
         \/ Late(d)
         \/ \E tool, args : Invoke(d, tool, args)
<1>1. ASSUME NEW c \in Calls, NEW tool, NEW args, Invoke(c, tool, args), c # d
      PROVE  LeftAlone(d)
  BY <1>1 DEF Invoke, LeftAlone, AInv, Kinds
<1>2. ASSUME NEW c \in Calls, Arrive(c)
      PROVE  LeftAlone(d) \/ OnwardOnly(d)
  <2>1. (\E status, sha : Answer(c, status, sha)) \/ Turn(c)
    BY <1>2 DEF Arrive, GetRef, CarryOut, NotCarriedOut
  <2>2. /\ call'[c].state # "idle"
        /\ call'[c].tool = call[c].tool
        /\ call'[c].args = call[c].args
        /\ call'[c].request = call[c].request
        /\ \A x \in Calls \ {c} : call'[x] = call[x]
    <3>1. CASE \E status, sha : Answer(c, status, sha)
      BY <3>1, Answered
    <3>2. CASE Turn(c)
      BY <3>2, Turned
    <3> QED BY <2>1, <3>1, <3>2
  <2>3. TakesEffect(c) \/ carriedOut' = carriedOut
    BY <1>2 DEF Arrive, GetRef, CarryOut, NotCarriedOut, HasNoEffect
  <2>4. \A x \in Calls \ {c} : carriedOut'[x] = carriedOut[x]
    BY <2>3, OnlyTheirs
  <2>5. CASE c = d
    BY <1>2, <2>2, <2>5 DEF OnwardOnly, Calling, Arrive
  <2>6. CASE c # d
    BY <2>2, <2>4, <2>6 DEF LeftAlone
  <2> QED BY <2>5, <2>6
<1>7. ASSUME NEW c \in Calls, ArriveLate(c)
      PROVE  LeftAlone(d) \/ Late(d)
  <2>1. /\ call' = call /\ TakesEffect(c)
        /\ call[c].state = "returned" /\ call[c].request.method # "none"
    BY <1>7 DEF ArriveLate
  <2>2. \A x \in Calls \ {c} : carriedOut'[x] = carriedOut[x]
    BY <2>1, OnlyTheirs
  <2> QED BY <2>1, <2>2 DEF LeftAlone, Late
<1>3. ASSUME NEW c \in Calls, Lost(c)
      PROVE  LeftAlone(d) \/ OnwardOnly(d)
  <2> DEFINE status == IF call[c].state = "answered" THEN "lost" ELSE "none"
             next == Returned(call[c].tool, call[c].args, call[c].request, call[c].turned,
                              status, "error")
  <2>1. /\ Calling(c) /\ carriedOut' = carriedOut
        /\ call' = [call EXCEPT ![c] = next]
    BY <1>3 DEF Lost, AInv, Kinds
  <2>2. /\ call'[c] = next
        /\ \A x \in Calls \ {c} : call'[x] = call[x]
    BY <2>1, Onward DEF AInv
  <2>3. CASE c = d
    <3>1. /\ call'[c].state = "returned"
          /\ call'[c].tool = call[c].tool
          /\ call'[c].args = call[c].args
          /\ call'[c].request = call[c].request
      BY <2>2 DEF Returned
    <3> QED BY <2>1, <2>3, <3>1 DEF OnwardOnly
  <2>4. CASE c # d
    BY <2>1, <2>2, <2>4 DEF LeftAlone
  <2> QED BY <2>3, <2>4
<1>4. ASSUME NEW c \in Calls, Receive(c)
      PROVE  LeftAlone(d) \/ OnwardOnly(d)
  <2>1. PICK next :
          /\ call' = [call EXCEPT ![c] = next]
          /\ \/ \E status, result : next = Returned(call[c].tool, call[c].args, call[c].request,
                                               call[c].turned, status, result)
             \/ /\ GetsRef(c)
                /\ \E second : next = Sending(call[c].tool, call[c].args, second, FALSE)
    BY <1>4 DEF Receive, AInv, Kinds, GetsRef
  <2>2. /\ call'[c] = next
        /\ \A x \in Calls \ {c} : call'[x] = call[x]
    BY <2>1, Onward DEF AInv
  <2>3. Calling(c) /\ carriedOut' = carriedOut
    BY <1>4 DEF Receive, Calling
  <2>4. CASE c = d
    <3>1. /\ next.state # "idle" /\ next.tool = call[c].tool /\ next.args = call[c].args
          /\ next.request = call[c].request \/ GetsRef(c)
      BY <2>1 DEF Returned, Sending
    <3> QED BY <2>2, <2>3, <2>4, <3>1 DEF OnwardOnly
  <2>5. CASE c # d
    BY <2>2, <2>3, <2>5 DEF LeftAlone
  <2> QED BY <2>4, <2>5
<1>5. ASSUME NEW b, NEW sha, OthersPush(b, sha)
      PROVE  LeftAlone(d)
  BY <1>5 DEF OthersPush, LeftAlone
<1>6. CASE UNCHANGED vars
  <2>1. call' = call /\ carriedOut' = carriedOut
    BY <1>6 DEF vars
  <2> QED BY <2>1 DEF LeftAlone
<1> QED BY <1>1, <1>2, <1>3, <1>4, <1>5, <1>6, <1>7 DEF Next

(* A configured operation has one request, which is made at its start. *)
AsConfigured(c) ==
  call[c].state # "idle" /\ IsRest(call[c].tool) =>
    /\ call[c].request = RestRequest(Operations[call[c].tool], call[c].args)
    /\ call[c].request.method = "none" => ~Calling(c) /\ carriedOut[c] = <<>>

LEMMA ConfiguredMethod ==
  ASSUME NEW tool, IsRest(tool), NEW args
  PROVE  RestRequest(Operations[tool], args).method # "get ref"
<1>1. ASSUME NEW op
      PROVE  RestRequest(op, args).method \in {"none", op.method}
  BY DEF RestRequest, NoRequest
<1>2. RestRequest(Operations[tool], args).method \in {"none", Operations[tool].method}
  BY <1>1
<1>3. Operations[tool].method # "get ref"
  BY OperationsAssumption DEF IsRest
<1> QED BY <1>2, <1>3

LEMMA ConfiguredStep ==
  ASSUME AInv, [Next]_vars, NEW c \in Calls, AsConfigured(c)
  PROVE  AsConfigured(c)'
<1>1. CASE LeftAlone(c)
  BY <1>1 DEF LeftAlone, AsConfigured, Calling, IsRest
<1>2. CASE OnwardOnly(c)
  <2> SUFFICES ASSUME IsRest(call[c].tool) PROVE AsConfigured(c)'
    BY <1>2 DEF OnwardOnly, AsConfigured, IsRest
  <2>1. /\ call[c].request = RestRequest(Operations[call[c].tool], call[c].args)
        /\ call[c].request.method # "none"
    BY <1>2 DEF OnwardOnly, AsConfigured, Calling
  <2>2. ~GetsRef(c)
    BY <2>1, ConfiguredMethod DEF GetsRef
  <2> QED BY <1>2, <2>1, <2>2 DEF OnwardOnly, AsConfigured
<1>3. CASE \E tool, args : Invoke(c, tool, args)
  <2>1. PICK tool, args : Invoke(c, tool, args)
    BY <1>3
  <2> DEFINE request == Request(tool, args)
             next == IF request.method = "none"
                       THEN Returned(tool, args, request, FALSE, "none", "error")
                       ELSE Sending(tool, args, request, FALSE)
  <2>2. call[c] = Idle /\ call' = [call EXCEPT ![c] = next] /\ carriedOut' = carriedOut
    BY <2>1 DEF Invoke
  <2>3. IsRest(tool) => request = RestRequest(Operations[tool], args)
    BY DEF Request
  <2> HIDE DEF request
  <2>4. call'[c] = next
    BY <2>2, Onward DEF AInv
  <2>5. /\ call'[c].tool = tool /\ call'[c].args = args /\ call'[c].request = request
        /\ request.method = "none" => call'[c].state = "returned"
    BY <2>4 DEF Returned, Sending
  <2>6. call[c].state = "idle"
    BY <2>2 DEF Idle
  <2>7. carriedOut'[c] = <<>>
    BY <2>2, <2>6 DEF AInv, Told
  <2> QED BY <2>3, <2>5, <2>7 DEF AsConfigured, Calling, IsRest
<1>4. CASE Late(c)
  BY <1>4 DEF Late, AsConfigured, Calling, IsRest
<1> QED BY <1>1, <1>2, <1>3, <1>4, StepOfCall

LEMMA AlwaysAsConfigured == Spec => [](\A c \in Calls : AsConfigured(c))
<1>1. Init => \A c \in Calls : AsConfigured(c)
  <2> SUFFICES ASSUME Init, NEW c \in Calls PROVE AsConfigured(c)
    OBVIOUS
  <2>1. call[c].state = "idle"
    BY DEF Init, Idle
  <2> QED BY <2>1 DEF AsConfigured
<1>2. AInv /\ [Next]_vars /\ (\A c \in Calls : AsConfigured(c))
        => (\A c \in Calls : AsConfigured(c))'
  BY ConfiguredStep
<1> QED BY <1>1, <1>2, Invariance, PTL DEF Spec

-----------------------------------------------------------------------------
(* A call has asked for at most one thing that took effect, and every      *)
(* variable is of its kind (client.go:47-96, github.go:225-281).           *)
THEOREM AdaptersTypeCorrect == Spec => []TypeOK
<1>1. AInv => TypeOK
  <2> SUFFICES ASSUME AInv, NEW c \in Calls
               PROVE  /\ call[c].state \in {"idle", "sending", "answered", "returned"}
                      /\ call[c].state = "returned" =>
                           call[c].result \in {"ok", "upstream error", "error"}
                      /\ Len(carriedOut[c]) <= 1
                      /\ baseHeads[c] \subseteq Commits \cup {NoSHA}
    BY DEF AInv, Kinds, TypeOK
  <2>1. Told(c) /\ baseHeads[c] \subseteq Commits \cup {NoSHA}
    BY DEF AInv, Kinds
  <2>2. carriedOut[c] = <<>> \/ carriedOut[c] = <<call[c].request>>
    BY <2>1 DEF Told, NoneOrLast
  <2>3. Len(carriedOut[c]) <= 1
    <3>1. ASSUME NEW r PROVE Len(<<r>>) <= 1
      OBVIOUS
    <3>2. Len(<<>>) <= 1
      OBVIOUS
    <3> QED BY <2>2, <3>1, <3>2, Zenon
  <2> QED BY <2>1, <2>3 DEF Told
<1> QED BY <1>1, Invariance, PTL

(* For any number of calls that move, delete and make branches between the *)
(* two requests of a createBranch: the branch it makes starts at a commit  *)
(* its base was at before the upstream looked it up (github.go:253-280).   *)
THEOREM BranchIsBased == Spec => []BranchStartsOnBase
<1>1. AInv => BranchStartsOnBase
  BY DEF AInv, Based, BranchStartsOnBase
<1> QED BY <1>1, Invariance, PTL

(* Whichever requests and replies are lost, turned into a GET or answered  *)
(* by an intermediary: success is reported only of what was done, or at a  *)
(* 3xx, or after such a turn; an error of the upstream only if nothing was *)
(* done, or at a 5xx, or after such a turn; and nothing but the last       *)
(* request was carried out (client.go:32, 73-95, github.go:255-280).       *)
THEOREM ResultIsTrue == Spec => []ResultTellsWhatHappened
<1>1. AInv => ResultTellsWhatHappened
  <2> SUFFICES ASSUME AInv, NEW c \in Calls, call[c].state = "returned"
               PROVE  /\ call[c].result = "ok" =>
                           \/ carriedOut[c] = <<call[c].request>>
                           \/ call[c].turned \/ call[c].status = "3xx"
                      /\ call[c].result = "upstream error" =>
                           carriedOut[c] = <<>> \/ call[c].turned \/ call[c].status = "5xx"
                      /\ carriedOut[c] # <<>> => carriedOut[c] = <<call[c].request>>
    BY DEF ResultTellsWhatHappened
  <2> QED BY DEF AInv, Told, NoneOrLast
<1> QED BY <1>1, Invariance, PTL

(* For every template, with any holes in any order and number, and for all *)
(* arguments: the request of a configured operation has each hole filled   *)
(* with its own argument, which is not looked at again, and the others     *)
(* once in the query or the body; with one that is missing or blank        *)
(* nothing is sent (rest.go:134-182).                                      *)
THEOREM RequestIsExact == Spec => []RestRequestIsExact
<1>1. ASSUME \A c \in Calls : AsConfigured(c)
      PROVE  RestRequestIsExact
  <2> SUFFICES ASSUME NEW c \in Calls, call[c].state # "idle", IsRest(call[c].tool)
               PROVE  LET op == Operations[call[c].tool]
                          r == call[c].request
                          holes == {i \in DOMAIN op.path : IsHole(op.path[i])}
                          named == {op.path[i].of : i \in holes}
                          others == DOMAIN Asked(c) \ named
                      IN  IF \E p \in named : p \notin DOMAIN Asked(c) \/ IsBlank(Printed(Asked(c)[p]))
                            THEN r = NoRequest /\ carriedOut[c] = <<>>
                            ELSE /\ \A i \in DOMAIN op.path :
                                      r.path[i] = IF i \in holes THEN Segment(Printed(Asked(c)[op.path[i].of]))
                                                                 ELSE op.path[i]
                                 /\ IF InQuery(op)
                                      THEN /\ DOMAIN r.query = others \cup DOMAIN op.fixed
                                           /\ \A k \in others : r.query[k] = Printed(Asked(c)[k])
                                      ELSE DOMAIN r.body = others /\ \A k \in others : r.body[k] = Asked(c)[k]
    BY DEF RestRequestIsExact
  <2> DEFINE op == Operations[call[c].tool]
             args == call[c].args
             n == Len(op.path)
             holes == {i \in DOMAIN op.path : IsHole(op.path[i])}
             named == {op.path[i].of : i \in holes}
             others == DOMAIN args \ named
             rest == [k \in others |-> args[k]]
             path == SubstitutePath(op.path, args)
  <2>1. IsTemplate(op.path) /\ DOMAIN op.path = 1..n
    BY OperationsAssumption DEF IsTemplate, IsRest
  <2>2. path = Filled(op.path, args, n)
    BY <2>1, LoopFills
  <2>3. call[c].request = RestRequest(op, args)
    BY <1>1 DEF AsConfigured
  <2>4. Failed(op.path, args, n) <=> \E p \in named : Lacks(args, p)
    BY <2>1 DEF Failed
  <2>5. CASE Failed(op.path, args, n)
    <3>1. path = <<>>
      BY <2>2, <2>5 DEF Filled
    <3>2. call[c].request = NoRequest
      BY <2>3, <3>1 DEF RestRequest
    <3>3. carriedOut[c] = <<>>
      BY <1>1, <3>2 DEF AsConfigured, NoRequest
    <3> QED BY <2>4, <2>5, <3>2, <3>3 DEF Asked, Lacks
  <2>6. CASE ~Failed(op.path, args, n)
    <3>1. path = [i \in 1..n |->
                    IF IsHole(op.path[i]) /\ Met(op.path, n, op.path[i].of)
                      THEN Segment(Printed(args[op.path[i].of])) ELSE op.path[i]]
      BY <2>2, <2>6 DEF Filled
    <3>2. \A i \in 1..n : path[i] = IF i \in holes THEN Segment(Printed(args[op.path[i].of]))
                                                   ELSE op.path[i]
      BY <2>1, <3>1 DEF Met
    <3>3. path # <<>>
      <4>1. 1 \in 1..n
        BY <2>1 DEF IsTemplate
      <4>2. DOMAIN path = 1..n
        <5> HIDE DEF path, n
        <5> QED BY <3>1
      <4>3. 1 \notin DOMAIN <<>>
        OBVIOUS
      <4> HIDE DEF path, n
      <4> QED BY <4>1, <4>2, <4>3
    <3>4. Remaining(op, args) = rest
      BY DEF Remaining, Without, ExtractPathParams
    <3>5. call[c].request =
            [method |-> op.method, path |-> path,
             query |-> IF InQuery(op) THEN SetAll(op.fixed, [k \in DOMAIN rest |-> Printed(rest[k])])
                                      ELSE op.fixed,
             body |-> IF InQuery(op) THEN <<>> ELSE rest]
      BY <2>3, <3>3, <3>4 DEF RestRequest
    <3> HIDE DEF path, op, rest
    <3>6. call[c].request.path = path
      BY <3>5
    <3>7. CASE InQuery(op)
      <4> DEFINE asked == [k \in others |-> Printed(args[k])]
      <4>1. call[c].request.query = SetAll(op.fixed, [k \in DOMAIN rest |-> Printed(rest[k])])
        BY <3>5, <3>7
      <4>2. [k \in DOMAIN rest |-> Printed(rest[k])] = asked
        BY DEF rest
      <4>3. /\ DOMAIN SetAll(op.fixed, asked) = others \cup DOMAIN op.fixed
            /\ \A k \in others : SetAll(op.fixed, asked)[k] = Printed(args[k])
        BY DEF SetAll
      <4> QED BY <2>1, <2>4, <2>6, <3>2, <3>6, <3>7, <4>1, <4>2, <4>3 DEF Asked, Lacks, op
    <3>8. CASE ~InQuery(op)
      <4>1. call[c].request.body = rest
        BY <3>5, <3>8
      <4> QED BY <2>1, <2>4, <2>6, <3>2, <3>6, <3>8, <4>1 DEF Asked, Lacks, op, rest
    <3> QED BY <3>7, <3>8
  <2> QED BY <2>5, <2>6
<1> QED BY <1>1, AlwaysAsConfigured, PTL

=============================================================================
