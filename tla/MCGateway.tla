------------------------------ MODULE MCGateway ------------------------------
(***************************************************************************)
(* Instances of Gateway for TLC.                                           *)
(***************************************************************************)
EXTENDS GatewayInvariant, TLC

CONSTANTS repo, read, wild, empty

Interchangeable == Permutations(TaskIDs) \cup Permutations(ToolCalls)

Sc(t, r, a) == [tool |-> t, resource |-> r, action |-> a]

MCNames == {repo, read}

All      == Sc(wild, wild, wild)
RepoRead == Sc(repo, repo, read)
ReadRead == Sc(read, repo, read)

(* The scopes of two configured adapters: both offer "get", the second one *)
(* answers it; "ping" was configured without a scope.                      *)
MCAdapters ==
  << [name |-> "first",  scopes |-> ("get" :> ReadRead) @@ ("ping" :> empty)],
     [name |-> "second", scopes |-> ("get" :> RepoRead) @@ ("set" :> ReadRead)] >>

(* The same without "ping", of which there is nothing to see upstream. *)
AuditAdapters ==
  << [name |-> "first",  scopes |-> ("get" :> ReadRead)],
     [name |-> "second", scopes |-> ("get" :> RepoRead) @@ ("set" :> ReadRead)] >>

NoBundles == [n \in {} |-> n]

Ask(scopes) == [scopes |-> scopes, bundles |-> {}, ttl |-> 1]

MCRequests == {Ask({All}), Ask({RepoRead})}

(* For what a task is shown: one that may use the second "get" only in the *)
(* listing of the first.                                                   *)
ListingRequests == {Ask({ReadRead})}
==============================================================================
