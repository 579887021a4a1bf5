----------------------------- MODULE RestAdapter -----------------------------
(***************************************************************************)
(* What the configured REST adapter, pkg/adapters/rest, makes of a call:   *)
(* the request it sends, or an error.                                      *)
(*                                                                         *)
(* A path template is a sequence of pieces, fixed ones and holes; an       *)
(* argument is a JSON value.  The texts a value is printed as are told     *)
(* apart as far as it matters to the request: one that reads like a hole,  *)
(* an empty one, and a number in exponent form.                            *)
(***************************************************************************)
EXTENDS Integers, Sequences

CONSTANT Operations   \* tool -> [method, path, fixed]: fixed is the query in the path

(* No template is empty, and a method is none of GitHubAdapter's words. *)
ASSUME OperationsAssumption ==
  \A tool \in DOMAIN Operations :
    LET path == Operations[tool].path
    IN  /\ path = [i \in 1..Len(path) |-> path[i]] /\ Len(path) \in Nat \ {0}
        /\ Operations[tool].method \notin {"none", "get ref", "create ref"}

Fixed(x) == [kind |-> "fixed", of |-> x]
Hole(p) == [kind |-> "hole", of |-> p]
Segment(text) == [kind |-> "segment", of |-> text]

(* JSON values, as they arrive in map[string]any. *)
Str(x) == [type |-> "string", is |-> x]
HoleLike(p) == [type |-> "hole-like string", is |-> p]     \* "{p}"
Number(n) == [type |-> "number", is |-> n]                 \* a float64
Null == [type |-> "null", is |-> ""]

Plain(x) == [form |-> "plain", of |-> x]
IsBlank(text) == text.form = "blank"

(* fmt.Sprintf("%v", v): a float64 of a million or more is printed with an *)
(* exponent, and nil as <nil>.                                             *)
Printed(v) ==
  CASE v.type = "string" -> IF v.is = "" THEN [form |-> "blank", of |-> ""] ELSE Plain(v.is)
    [] v.type = "hole-like string" -> [form |-> "hole", of |-> v.is]
    [] v.type = "number" -> IF v.is >= 10^6 THEN [form |-> "exponent", of |-> v.is]
                                            ELSE Plain(v.is)
    [] v.type = "null" -> Plain("<nil>")

(* Mutant: the text is put into the path as it is. *)
Unescaped(text) == IF text.form = "hole" THEN Hole(text.of) ELSE Segment(text)

(* url.PathEscape escapes braces and slashes: the text is one segment. *)
PathEscape(text) == Segment(text)

IsHole(piece) == piece.kind = "hole"

(* strings.ReplaceAll *)
FillHole(path, p, piece) ==
  [i \in DOMAIN path |-> IF IsHole(path[i]) /\ path[i].of = p THEN piece ELSE path[i]]

ExtractPathParams(path) == {path[i].of : i \in {j \in DOMAIN path : IsHole(path[j])}}

NoRequest == [method |-> "none"]

Lacks(args, p) == p \notin DOMAIN args \/ IsBlank(Printed(args[p]))

(* One turn of the loop over the template's parameters; no path is left of *)
(* a turn that returned an error.                                          *)
SubstituteOne(path, piece, args) ==
  IF path = <<>> \/ ~IsHole(piece) THEN path
  ELSE IF Lacks(args, piece.of) THEN <<>>
  ELSE FillHole(path, piece.of, PathEscape(Printed(args[piece.of])))

SubstitutePath(template, args) ==
  LET path[k \in 0..Len(template)] ==
        IF k = 0 THEN template ELSE SubstituteOne(path[k - 1], template[k], args)
  IN  path[Len(template)]

Without(args, names) == [k \in DOMAIN args \ names |-> args[k]]

InQuery(op) == op.method \in {"GET", "DELETE", "HEAD"}

Remaining(op, args) == Without(args, ExtractPathParams(op.path))

(* q.Set of each value. *)
SetAll(q, values) ==
  [k \in DOMAIN q \cup DOMAIN values |-> IF k \in DOMAIN values THEN values[k] ELSE q[k]]

(* What is not in the path goes to the query, over what the template's own *)
(* query says, or into the body.                                           *)
RestRequest(op, args) ==
  LET path == SubstitutePath(op.path, args)
      rest == Remaining(op, args)
  IN  IF path = <<>> THEN NoRequest
      ELSE [method |-> op.method,
            path   |-> path,
            query  |-> IF InQuery(op)
                         THEN SetAll(op.fixed, [k \in DOMAIN rest |-> Printed(rest[k])])
                         ELSE op.fixed,
            body   |-> IF InQuery(op) THEN <<>> ELSE rest]
==============================================================================
