----------------------------- MODULE MCAdapters -----------------------------
(***************************************************************************)
(* Two calls at a time: one of createBranch, the other of createBranch     *)
(* too, of the other GitHub tools, with good and with ill-formed           *)
(* parameters, or of three configured operations: with two holes, with a   *)
(* hole and a query of its own, and with a body.  Others work in the       *)
(* repository up to twice.                                                 *)
(***************************************************************************)
EXTENDS Adapters, TLC

MCOperations ==
  [get_item   |-> [method |-> "GET", fixed |-> <<>>,
                   path |-> <<Fixed("items"), Hole("kind"), Hole("id"), Hole("kind")>>],
   list_items |-> [method |-> "GET", fixed |-> [limit |-> Plain("10")],
                   path |-> <<Fixed("items"), Hole("kind")>>],
   put_item   |-> [method |-> "PUT", fixed |-> <<>>,
                   path |-> <<Fixed("items"), Hole("id")>>]]

Values == {Str(""), HoleLike("id"), Number(1234567), Null}

ItemArguments ==
  {[kind |-> HoleLike("id"), id |-> v] : v \in Values}
    \cup {[kind |-> HoleLike("id"), id |-> HoleLike("kind"), note |-> Number(42)]}

NoteArguments == {[id |-> Number(42), note |-> HoleLike("id")]}

ListArguments ==
  {[kind |-> Str("word"), limit |-> Str(""), id |-> Null]}

RestQuestions ==
  [tool : {"get_item"}, args : ItemArguments \cup {[kind |-> Str("word")]}]
    \cup [tool : {"put_item"}, args : NoteArguments]
    \cup [tool : {"list_items"}, args : ListArguments]

CreateBranchArguments ==
  [repo : {"repo"}, branch : {"work", "dev"}, from_ref : {"dev"}]
    \cup {[repo |-> "repo", branch |-> "work", from_ref |-> Ill],
          [repo |-> Ill, branch |-> "work", from_ref |-> "dev"]}

OtherQuestions ==
  [tool : {"github_get_file"}, args : {[repo |-> "repo", path |-> p, ref |-> "dev"] : p \in {"file", Ill}}]
    \cup [tool : {"github_create_pr"}, args : {[repo |-> "repo", head |-> h, base |-> NotGiven] : h \in {"work", Ill}}]
    \cup [tool : {"github_get_ci_status"}, args : {[repo |-> "repo", ref |-> "work"]}]
    \cup {[tool |-> "unknown", args |-> [repo |-> "repo"]]}

CreateBranchQuestions == [tool : {"github_create_branch"}, args : CreateBranchArguments]

MCQuestions ==
  [c1 |-> [tool : {"github_create_branch"},
           args : [repo : {"repo"}, branch : {"work"}, from_ref : {NotGiven, "dev"}]],
   c2 |-> CreateBranchQuestions \cup OtherQuestions \cup RestQuestions]

MCHeads == {[main |-> "k1", dev |-> "k2", work |-> NoSHA]}
=============================================================================
