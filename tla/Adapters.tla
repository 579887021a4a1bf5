------------------------------- MODULE Adapters -------------------------------
(***************************************************************************)
(* Calls of the tools, from Invoke to its return, several at a time, by    *)
(* way of the shared HTTP client (pkg/adapters/httpclient), a plain        *)
(* http.Client: every request travels to the upstream, is carried out      *)
(* there or not, is perhaps redirected, and its reply comes back or not.   *)
(* Meanwhile others work in the same repository: they move a branch,       *)
(* delete it, or make one.                                                 *)
(*                                                                         *)
(* RestAdapter and GitHubAdapter say which request follows.                *)
(***************************************************************************)
EXTENDS RestAdapter, GitHubAdapter

CONSTANTS Calls,       \* the calls, by name
          Questions,   \* what each may call: a set of [tool, args]
          Branches,
          Commits,
          InitialHeads, \* what the repository may look like at first
          MaxPushes    \* bound: how often others work in the repository

ASSUME AdaptersAssumption ==
  /\ {NoSHA, Unparsed} \cap Commits = {} /\ Ill \notin Branches
  /\ InitialHeads \subseteq [Branches -> Commits \cup {NoSHA}]
  /\ MaxPushes \in Nat

VARIABLES heads,       \* branch -> commit; NoSHA where there is no such branch
          pushes,      \* how often others have
          call,        \* of each call, where it is
          carriedOut,  \* history: the requests of a call that took effect
          baseHeads    \* history: the commits its base has been at from its start
                       \* until the upstream looked it up for it

vars == <<heads, pushes, call, carriedOut, baseHeads>>

IsRest(tool) == tool \in DOMAIN Operations

Idle == [state |-> "idle"]

Request(tool, args) ==
  IF IsRest(tool) THEN RestRequest(Operations[tool], args) ELSE FirstRequest(tool, args)

Calling(c) == call[c].state \in {"sending", "answered"}

(* An operation may be configured under the name of another's tool. *)
IsCreateBranch(tool) == tool = "github_create_branch" /\ ~IsRest(tool)

Creates(c) == call[c].state # "idle" /\ IsCreateBranch(call[c].tool)

(* The base of a createBranch. *)
Base(c) == OrMain(call[c].args.from_ref)

LooksUp(c, b) ==
  /\ Creates(c) /\ Base(c) = b
  /\ call[c].state = "sending" /\ call[c].request.method = "get ref"

(* Branch b moves to a commit, or goes. *)
Move(b, sha) ==
  /\ heads' = [heads EXCEPT ![b] = sha]
  /\ baseHeads' = [c \in Calls |-> IF LooksUp(c, b) THEN baseHeads[c] \cup {sha}
                                                    ELSE baseHeads[c]]

-----------------------------------------------------------------------------
(* turned: net/http has made a GET of the request, as it does to follow a  *)
(* 301, 302 or 303.  status: that of the last answer, if there was one and *)
(* it was not lost.                                                        *)
Sending(tool, args, request, turned) ==
  [state |-> "sending", tool |-> tool, args |-> args, request |-> request, turned |-> turned]

Returned(tool, args, request, turned, status, result) ==
  [state |-> "returned", tool |-> tool, args |-> args, request |-> request,
   turned |-> turned, status |-> status, result |-> result]

Invoke(c, tool, args) ==
  /\ call[c] = Idle
  /\ LET request == Request(tool, args)
     IN  call' = [call EXCEPT ![c] =
                    IF request.method = "none"
                      THEN Returned(tool, args, request, FALSE, "none", "error")
                      ELSE Sending(tool, args, request, FALSE)]
  /\ baseHeads' = [baseHeads EXCEPT ![c] =
                     IF IsCreateBranch(tool) /\ OrMain(args.from_ref) \in Branches
                       THEN {heads[OrMain(args.from_ref)]} ELSE {}]
  /\ UNCHANGED <<heads, pushes, carriedOut>>

-----------------------------------------------------------------------------
(* The upstream: carries a request out or not, and answers with a status   *)
(* and, to a "get ref", a commit.  A redirect that keeps the request (307, *)
(* 308, any of a GET) is no step: it is served elsewhere as it would be    *)
(* here.                                                                   *)

Reads(request) ==
  request.method \in {"GET", "HEAD", "get ref", "get contents", "get status"}

Answer(c, status, sha) ==
  call' = [call EXCEPT ![c] = [state |-> "answered", tool |-> @.tool, args |-> @.args,
                               request |-> @.request, turned |-> @.turned,
                               status |-> status, sha |-> sha]]

(* A 301, 302 or 303, which http.Client follows with a GET. *)
Turn(c) ==
  /\ ~Reads(call[c].request) /\ ~call[c].turned
  /\ call' = [call EXCEPT ![c] = Sending(@.tool, @.args, @.request, TRUE)]

TakesEffect(c) ==
  /\ IF call[c].request.method = "create ref"
       THEN /\ heads[call[c].request.of] = NoSHA /\ call[c].request.sha \in Commits
            /\ Move(call[c].request.of, call[c].request.sha)
       ELSE UNCHANGED <<heads, baseHeads>>
  /\ carriedOut' = [carriedOut EXCEPT ![c] = Append(@, call[c].request)]

HasNoEffect == UNCHANGED <<heads, carriedOut, baseHeads>>

(* A reply below 400 that is no commit may be anything. *)
GetRef(c) ==
  /\ call[c].request.method = "get ref"
  /\ \/ /\ call[c].request.of \in Branches /\ heads[call[c].request.of] # NoSHA
        /\ \E sha \in {heads[call[c].request.of], NoSHA, Unparsed} : Answer(c, "2xx", sha)
     \/ Answer(c, "3xx", Unparsed)
  /\ HasNoEffect

(* Done, which the status need not tell: an intermediary may have answered *)
(* 502 or 504, or the upstream see other.                                  *)
CarryOut(c) ==
  /\ call[c].request.method # "get ref" /\ ~call[c].turned
  /\ TakesEffect(c)
  /\ Turn(c) \/ \E status \in {"2xx", "5xx"} : Answer(c, status, NoSHA)

(* Not done: refused, failed, or sent elsewhere, where net/http does not   *)
(* follow (a 304, a 300, no Location), or follows with a GET, for which    *)
(* there may be a page.                                                    *)
NotCarriedOut(c) ==
  /\ \/ \E status \in {"3xx", "4xx", "5xx"} : Answer(c, status, NoSHA)
     \/ call[c].turned /\ Answer(c, "2xx", NoSHA)
     \/ Turn(c)
  /\ HasNoEffect

Arrive(c) ==
  /\ call[c].state = "sending"
  /\ GetRef(c) \/ CarryOut(c) \/ NotCarriedOut(c)
  /\ UNCHANGED pushes

(* A request that was given up without an answer arrives after all, or     *)
(* behind an intermediary that had stopped waiting (504).                  *)
ArriveLate(c) ==
  /\ call[c].state = "returned" /\ call[c].status \in {"none", "5xx"} /\ ~call[c].turned
  /\ call[c].request.method \notin {"none", "get ref"} /\ carriedOut[c] = <<>>
  /\ TakesEffect(c)
  /\ UNCHANGED <<pushes, call>>

(* Mutant: a request without a reply is sent again. *)
LostAndRetried(c) ==
  /\ Calling(c)
  /\ call' = [call EXCEPT ![c] = Sending(@.tool, @.args, @.request, FALSE)]
  /\ UNCHANGED <<heads, pushes, carriedOut, baseHeads>>

(* The request does not arrive, the reply is lost, or a redirect is one    *)
(* too many: http.Client.Do, or the reading of the body, returns an error. *)
Lost(c) ==
  /\ Calling(c)
  /\ LET status == IF call[c].state = "answered" THEN "lost" ELSE "none"
     IN  call' = [call EXCEPT ![c] =
                    Returned(@.tool, @.args, @.request, @.turned, status, "error")]
  /\ UNCHANGED <<heads, pushes, carriedOut, baseHeads>>

-----------------------------------------------------------------------------
(* The reply *)

(* Client.Do asks for no more of a status than whether it is 400 or above. *)
IsError(c) == call[c].status \in {"4xx", "5xx"}

Outcome(c) == IF IsError(c) THEN "upstream error" ELSE "ok"

(* Mutant: a reply that cannot be parsed is taken for the end. *)
ReceiveUnparsed(c) ==
  /\ call[c].state = "answered"
  /\ call' = [call EXCEPT ![c] =
       IF @.request.method # "get ref" \/ IsError(c) \/ @.sha = Unparsed
         THEN Returned(@.tool, @.args, @.request, @.turned, @.status, Outcome(c))
         ELSE Sending(@.tool, @.args, CreateRef(@.args, @.sha), FALSE)]
  /\ UNCHANGED <<heads, pushes, carriedOut, baseHeads>>

(* Client.Do returns the reply; createBranch, unless it is an error or     *)
(* cannot be parsed, sends its second request, with whatever sha the reply *)
(* has or none, and everything else returns.                               *)
Receive(c) ==
  /\ call[c].state = "answered"
  /\ call' = [call EXCEPT ![c] =
       IF @.request.method # "get ref" \/ IsError(c)
         THEN Returned(@.tool, @.args, @.request, @.turned, @.status, Outcome(c))
       ELSE IF @.sha = Unparsed
         THEN Returned(@.tool, @.args, @.request, @.turned, @.status, "error")
       ELSE Sending(@.tool, @.args, CreateRef(@.args, @.sha), FALSE)]
  /\ UNCHANGED <<heads, pushes, carriedOut, baseHeads>>

-----------------------------------------------------------------------------
(* Others push to a branch, make it, or delete it. *)
OthersPush(b, sha) ==
  /\ pushes < MaxPushes
  /\ pushes' = pushes + 1
  /\ heads[b] # sha
  /\ Move(b, sha)
  /\ UNCHANGED <<call, carriedOut>>

Init ==
  /\ heads \in InitialHeads
  /\ pushes = 0
  /\ call = [c \in Calls |-> Idle]
  /\ carriedOut = [c \in Calls |-> <<>>]
  /\ baseHeads = [c \in Calls |-> {}]

Next ==
  \/ \E c \in Calls :
       \/ \E q \in Questions[c] : Invoke(c, q.tool, q.args)
       \/ Arrive(c) \/ ArriveLate(c) \/ Lost(c) \/ Receive(c)
  \/ \E b \in Branches, sha \in Commits \cup {NoSHA} : OthersPush(b, sha)

Spec == Init /\ [][Next]_vars

-----------------------------------------------------------------------------
(* A call asks for one thing at a time, and what was made for it was asked *)
(* for (client.go:47-96, github.go:225-281).                               *)
TypeOK ==
  /\ heads \in [Branches -> Commits \cup {NoSHA}]
  /\ pushes \in 0..MaxPushes
  /\ \A c \in Calls :
       /\ call[c].state \in {"idle", "sending", "answered", "returned"}
       /\ call[c].state = "returned" => call[c].result \in {"ok", "upstream error", "error"}
       /\ Len(carriedOut[c]) <= 1
       /\ baseHeads[c] \subseteq Commits \cup {NoSHA}

(* The branch a call makes starts at a commit its base was at between the  *)
(* start of the call and the upstream's look at it, whatever others did to *)
(* either meanwhile, another call of the same tool included                *)
(* (github.go:253-280).  That the base is still there is more than the     *)
(* adapter can promise.                                                    *)
BranchStartsOnBase ==
  \A c \in Calls :
    Creates(c) /\ carriedOut[c] # <<>> => carriedOut[c][1].sha \in baseHeads[c]

(* What the tool reports is so as far as the client can know: success only *)
(* for a thing done, or where a redirect led elsewhere (a 3xx, or a GET in *)
(* the place of the request); an error of the upstream only if nothing was *)
(* done, or at a 5xx, or after such a redirect; a failure to ask or to     *)
(* hear leaves open what becomes of the last request.  Nothing was done    *)
(* but the last request (client.go:32, 73-95, github.go:255-280).          *)
ResultTellsWhatHappened ==
  \A c \in Calls :
    call[c].state = "returned" =>
      /\ call[c].result = "ok" =>
           carriedOut[c] = <<call[c].request>> \/ call[c].turned \/ call[c].status = "3xx"
      /\ call[c].result = "upstream error" =>
           carriedOut[c] = <<>> \/ call[c].turned \/ call[c].status = "5xx"
      /\ carriedOut[c] # <<>> => carriedOut[c] = <<call[c].request>>

Asked(c) == call[c].args

(* The request of a configured operation has every hole of the template    *)
(* filled with that hole's own argument, whatever the other arguments look *)
(* like, and each other argument once, in the query or in the body; with   *)
(* an argument missing or blank nothing is sent (rest.go:134-182).         *)
RestRequestIsExact ==
  \A c \in Calls :
    call[c].state # "idle" /\ IsRest(call[c].tool) =>
      LET op == Operations[call[c].tool]
          r == call[c].request
          holes == {i \in DOMAIN op.path : IsHole(op.path[i])}
          named == {op.path[i].of : i \in holes}
          others == DOMAIN Asked(c) \ named
      IN  IF \E p \in named : p \notin DOMAIN Asked(c) \/ IsBlank(Printed(Asked(c)[p]))
            THEN r = NoRequest /\ carriedOut[c] = <<>>
            ELSE /\ \A i \in DOMAIN op.path :
                      r.path[i] = IF i \in holes THEN Segment(Printed(Asked(c)[op.path[i].of]))
                                                 ELSE op.path[i]
                 /\ IF InQuery(op)
                      THEN /\ DOMAIN r.query = others \cup DOMAIN op.fixed
                           /\ \A k \in others : r.query[k] = Printed(Asked(c)[k])
                      ELSE DOMAIN r.body = others /\ \A k \in others : r.body[k] = Asked(c)[k]

(* An integer reaches the upstream as the caller wrote it, whether it goes *)
(* into the path, the query or the body (rest.go:9-12: parameters become   *)
(* path, query or body).                                                   *)
IntegersKeepTheirDigits ==
  \A c \in Calls :
    call[c].state = "sending" /\ IsRest(call[c].tool) =>
      LET r == call[c].request
      IN  /\ \A i \in DOMAIN r.path :
               r.path[i].kind = "segment" => r.path[i].of.form # "exponent"
          /\ \A k \in DOMAIN r.query : r.query[k].form # "exponent"
===============================================================================
