------------------------------ MODULE MCIdentity ------------------------------
(***************************************************************************)
(* Instances of IdentityService for TLC.                                   *)
(***************************************************************************)
EXTENDS IdentityInvariant, TLC

CONSTANTS repo, read, wild, bad

Interchangeable == Permutations(TaskIDs) \cup Permutations(Callers)

Sc(t, r, a) == [tool |-> t, resource |-> r, action |-> a]

(* Two names: a segment matches another, differs from it, or is covered. *)
MCNames == {repo, read}

All        == Sc(wild, wild, wild)
RepoAny    == Sc(repo, repo, wild)
RepoRead   == Sc(repo, repo, read)
ReadRead   == Sc(read, repo, read)

(* contributor includes reader; "unknown" may be asked for and is not defined. *)
MCBundles ==
  ("reader"      :> [scopes |-> {RepoRead}, includes |-> {}]) @@
  ("contributor" :> [scopes |-> {ReadRead}, includes |-> {"reader"}])

MCBundleNames == {"reader", "contributor", "unknown"}

(* Load starts the program with these bundles. *)
ASSUME ConfigurationAccepted == ValidBundleConfigs

Ask(scopes, bundles, ttl) == [scopes |-> scopes, bundles |-> bundles, ttl |-> ttl]

(* Structure: every way a request is refused, a bundle that includes       *)
(* another, a redundant scope list, and narrowing at each segment.         *)
StructureRequests ==
  {Ask({All}, {}, 1), Ask({RepoAny, RepoRead}, {}, 1), Ask({}, {"contributor"}, 1),
   Ask({bad}, {}, 1), Ask({}, {"unknown"}, 1)}

(* Refinement: a grant of everything and a narrow one, through a bundle.   *)
RefinementRequests == {Ask({All}, {}, 1), Ask({}, {"contributor"}, 1)}

(* Time: one scope; a lifetime below a second, one that rounds, the        *)
(* default (0) and one over the limit.                                     *)
TimeRequests == {Ask({RepoRead}, {}, ttl) : ttl \in {0, 1, 9}}
===============================================================================
