---------------------------- MODULE GitHubAdapter ----------------------------
(***************************************************************************)
(* What the GitHub adapter, pkg/adapters/github, asks of its upstream: the *)
(* validation of a tool's parameters and the requests built from them.     *)
(* Three of the tools are one request; github_create_branch is two, the    *)
(* second built from the reply to the first.                               *)
(***************************************************************************)

NotGiven == ""
Ill == "ill-formed"    \* "..", a query character, a NUL; in a repository also a slash

ValidIdentifier(x) == x \notin {NotGiven, Ill}
ValidRef(x) == x \notin {NotGiven, Ill}
ValidPath(x) == x \notin {NotGiven, Ill}

OrMain(ref) == IF ref = NotGiven THEN "main" ELSE ref

(* A request; nothing is asked for when the parameters are refused. *)
Ask(what, of, sha) == [method |-> what, of |-> of, sha |-> sha]
NoSHA == "no sha"
Unparsed == "unparsed"     \* a reply that is no JSON object; one without a sha parses
Refused == Ask("none", NotGiven, NoSHA)

(* Mutant: the base that was asked for is not looked at. *)
GetMainRef(a) ==
  IF /\ ValidIdentifier(a.repo) /\ ValidRef(a.branch) /\ ValidRef(OrMain(a.from_ref))
    THEN Ask("get ref", "main", NoSHA)
    ELSE Refused

(* The first request of createBranch. *)
GetBaseRef(a) ==
  IF /\ ValidIdentifier(a.repo) /\ ValidRef(a.branch) /\ ValidRef(OrMain(a.from_ref))
    THEN Ask("get ref", OrMain(a.from_ref), NoSHA)
    ELSE Refused

(* The second one. *)
CreateRef(a, sha) == Ask("create ref", a.branch, sha)

GetFile(a) ==
  IF /\ ValidIdentifier(a.repo) /\ ValidPath(a.path)
     /\ a.ref # NotGiven => ValidRef(a.ref)
    THEN Ask("get contents", a.ref, NoSHA)
    ELSE Refused

CreatePR(a) ==
  IF ValidIdentifier(a.repo) /\ ValidRef(a.head) /\ ValidRef(OrMain(a.base))
    THEN Ask("create pull", a.head, NoSHA)
    ELSE Refused

GetCIStatus(a) ==
  IF ValidIdentifier(a.repo) /\ ValidRef(a.ref)
    THEN Ask("get status", a.ref, NoSHA)
    ELSE Refused

FirstRequest(tool, a) ==
  CASE tool = "github_create_branch" -> GetBaseRef(a)
    [] tool = "github_get_file"      -> GetFile(a)
    [] tool = "github_create_pr"     -> CreatePR(a)
    [] tool = "github_get_ci_status" -> GetCIStatus(a)
    [] OTHER -> Refused
==============================================================================
