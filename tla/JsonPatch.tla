------------------------------ MODULE JsonPatch ------------------------------
(***************************************************************************)
(* A program edits a value with engine/json.hpp: by a patch (RFC 6902), of *)
(* its own or as diff made it, by a merge patch (RFC 7386), through a      *)
(* pointer, or by flattening it and making it anew of what came of that.   *)
(* patch_inplace applies one operation after the other; an exception ends  *)
(* it and leaves what was done so far.                                     *)
(***************************************************************************)
EXTENDS Integers, Sequences

CONSTANT Edits  (* what is done, to which documents, with which patches     *)

VARIABLES
  document,  (* the value                                                   *)
  editing,   (* what happens to it next, or how that ended                  *)
  patch,     (* the operations that remain                                  *)
  operand,   (* another value: diff's target, a merge patch                 *)
  original   (* history: the document at first                              *)

editVars == <<document, editing, patch, operand, original>>

LOCAL INSTANCE JsonPointer
LOCAL INSTANCE SequencesExt
LOCAL INSTANCE FiniteSets
LOCAL INSTANCE Functions
LOCAL INSTANCE TLC

-----------------------------------------------------------------------------
(* patch_inplace.  An operation is a record of the members it has.         *)
aborted(j) == [is |-> "aborted", document |-> j]

(* operation_add, seen from the parent, which must be there: one that is   *)
(* no container fails an assertion.                                        *)
withElement(parent, last, value) ==
  LET index == IF last = DASH THEN Found(Len(parent[2])) ELSE array_index(last)
  IN CASE parent = Null        -> done(Object(last :> value))
       [] parent[1] = "object" -> done(Object((last :> value) @@ parent[2]))
       [] parent[1] = "array"  ->
            IF index.is # "found" THEN failed(index.is, parent)
            ELSE IF index.value > Len(parent[2]) THEN failed("out_of_range", parent)
            ELSE done(Array(InsertAt(parent[2], index.value + 1, value)))
       [] OTHER -> aborted(parent)

(* operation_remove: nothing is removed from what is no container.         *)
withoutElement(parent, last) ==
  LET index == array_index(last)
  IN CASE parent[1] = "object" ->
            IF last \notin DOMAIN parent[2] THEN failed("out_of_range", parent)
            ELSE done(Object([k \in DOMAIN parent[2] \ {last} |-> parent[2][k]]))
       [] parent[1] = "array"  ->
            IF index.is # "found" THEN failed(index.is, parent)
            ELSE IF index.value >= Len(parent[2]) THEN failed("out_of_range", parent)
            ELSE done(Array(RemoveAt(parent[2], index.value + 1)))
       [] OTHER -> done(parent)

(* The steps of an operation: what is done, and where.                     *)
Steps ==
  [add     |-> << <<"add", "path">> >>,
   remove  |-> << <<"remove", "path">> >>,
   replace |-> << <<"replace", "path">> >>,
   move    |-> << <<"take", "from">>, <<"remove", "from">>, <<"add", "path">> >>,
   copy    |-> << <<"take", "from">>, <<"add", "path">> >>,
   test    |-> << <<"test", "path">> >>]

(* One step: the document after it, how it ended, and the value at hand.   *)
stepOf(sofar, how, tokens) ==
  LET above  == SubSeq(tokens, 1, Len(tokens) - 1)
      at     == get_checked(sofar.document, tokens)
      parent == get_checked(sofar.document, above)
      within(outcome) == [sofar EXCEPT !.is = outcome.is, !.document = replaced(@, above, outcome.document)]
      fails(why) == [sofar EXCEPT !.is = why]
  IN CASE how = "take"    -> IF at.is = "found" THEN [sofar EXCEPT !.value = at.value] ELSE fails(at.is)
       [] how = "replace" -> IF at.is # "found" THEN fails(at.is)
                             ELSE [sofar EXCEPT !.document = replaced(@, tokens, sofar.value)]
       [] how = "test"    -> IF at.is = "parse_error" THEN fails(at.is)
                             ELSE IF at.is = "found" /\ equals(at.value, sofar.value) THEN sofar
                             ELSE fails("unsuccessful")
       [] how = "add"     -> IF tokens = <<>> THEN [sofar EXCEPT !.document = sofar.value]
                             ELSE IF parent.is # "found" THEN fails(parent.is)
                             ELSE within(withElement(parent.value, tokens[Len(tokens)], sofar.value))
       [] how = "remove"  -> IF tokens = <<>> THEN fails("out_of_range")
                             ELSE IF parent.is # "found" THEN fails(parent.is)
                             ELSE within(withoutElement(parent.value, tokens[Len(tokens)]))

(* The members an operation must have, but for its name and path.          *)
Members ==
  [add |-> {"value"}, remove |-> {}, replace |-> {"value"}, move |-> {"from"},
   copy |-> {"from"}, test |-> {"value"}]

wellFormed(o) ==
  /\ {"op", "path"} \subseteq DOMAIN o /\ o.op \in DOMAIN Members
  /\ Members[o.op] \subseteq DOMAIN o /\ split(o.path).is = "found"

(* One turn of the loop: the steps up to one that fails.  So a move that   *)
(* fails to add has removed.                                               *)
operation(j, o) ==
  LET steps == [i \in DOMAIN Steps[o.op] |-> [how |-> Steps[o.op][i][1], at |-> split(o[Steps[o.op][i][2]])]]
      value == IF "value" \in DOMAIN o THEN o.value ELSE Null
  IN IF ~wellFormed(o) THEN failed("parse_error", j)
     ELSE FoldLeft(LAMBDA sofar, s : IF sofar.is # "found" THEN sofar
                                     ELSE IF s.at.is # "found" THEN [sofar EXCEPT !.is = s.at.is]
                                     ELSE stepOf(sofar, s.how, s.at.value),
                   [is |-> "found", document |-> j, value |-> value], steps)

-----------------------------------------------------------------------------
(* diff.                                                                   *)
add(text, value)     == [op |-> "add", path |-> text, value |-> value]
remove(text)         == [op |-> "remove", path |-> text]
replace(text, value) == [op |-> "replace", path |-> text, value |-> value]

(* A fault to seed: from the first one on.                                 *)
removalsUpwards(text, from, to) ==
  [i \in 1..(from - to) |-> remove(text \o <<SLASH>> \o decimalIndex(to + i - 1))]

(* The elements that are too many go from the last one on.                 *)
removals(text, from, to) ==
  [i \in 1..(from - to) |-> remove(text \o <<SLASH>> \o decimalIndex(from - i))]

RECURSIVE diff(_, _, _)
diff(source, target, text) ==
  LET s == source[2]
      t == target[2]
      shared == IF Len(s) < Len(t) THEN Len(s) ELSE Len(t)
      under(k) == text \o <<SLASH>> \o escape(k)
      ofMember(k) == IF k \in DOMAIN t THEN diff(s[k], t[k], under(k)) ELSE <<remove(under(k))>>
      newKeys == SelectSeq(keysOf(t), LAMBDA k : k \notin DOMAIN s)
  IN IF equals(source, target) THEN <<>>
     ELSE CASE source[1] = "array" /\ target[1] = "array" ->
                 FlattenSeq([i \in 1..shared |-> diff(s[i], t[i], text \o <<SLASH>> \o decimalIndex(i - 1))]) \o
                 removals(text, Len(s), shared) \o
                 [i \in 1..(Len(t) - shared) |-> add(text \o <<SLASH>> \o DASH, t[shared + i])]
            [] source[1] = "object" /\ target[1] = "object" ->
                 FlattenSeq([i \in DOMAIN keysOf(s) |-> ofMember(keysOf(s)[i])]) \o
                 [i \in DOMAIN newKeys |-> add(under(newKeys[i]), t[newKeys[i]])]
            [] OTHER -> <<replace(text, target)>>

(* merge_patch.                                                            *)
RECURSIVE merged(_, _)
merged(j, apply_patch) ==
  LET p == apply_patch[2]
      f == IF j[1] = "object" THEN j[2] ELSE <<>>
      left == (DOMAIN f \cup DOMAIN p) \ {k \in DOMAIN p : p[k] = Null}
  IN IF apply_patch[1] # "object" THEN apply_patch
     ELSE Object([k \in left |-> IF k \in DOMAIN p THEN merged(member(f, k), p[k]) ELSE f[k]])

-----------------------------------------------------------------------------
diff_patch ==
  /\ editing = "diff" /\ editing' = "patch"
  /\ patch' = diff(document, operand, <<>>)
  /\ UNCHANGED <<document, operand, original>>

(* Built with NDEBUG, the assertion does nothing.                          *)
patch_inplace ==
  /\ editing = "patch" /\ patch # <<>>
  /\ patch' = Tail(patch)
  /\ \E outcome \in {operation(document, Head(patch))} :
       /\ document' = outcome.document
       /\ \/ editing' = IF outcome.is = "found" THEN "patch" ELSE outcome.is
          \/ editing' = "patch" /\ outcome.is = "aborted"
  /\ UNCHANGED <<operand, original>>

patched ==
  /\ editing = "patch" /\ patch = <<>> /\ editing' = "patched"
  /\ UNCHANGED <<document, patch, operand, original>>

merge_patch ==
  /\ editing = "merge" /\ editing' = "merged"
  /\ document' = merged(document, operand)
  /\ UNCHANGED <<patch, operand, original>>

(* document[pointer] = value, as the path and value of the one operation.  *)
assign ==
  /\ editing = "assign"
  /\ LET tokens  == split(Head(patch).path)
         outcome == IF tokens.is = "found" THEN get_unchecked(document, tokens.value, Head(patch).value)
                    ELSE failed(tokens.is, document)
     IN document' = outcome.document /\ editing' = IF outcome.is = "found" THEN "assigned" ELSE outcome.is
  /\ UNCHANGED <<patch, operand, original>>

flattened ==
  /\ editing = "flatten" /\ editing' = "unflatten"
  /\ document' = flatten(document)
  /\ UNCHANGED <<patch, operand, original>>

unflattened ==
  /\ editing = "unflatten"
  /\ LET outcome == unflatten(document)
     IN IF outcome.is = "found" THEN document' = outcome.value /\ editing' = "unflattened"
        ELSE editing' = "lost" /\ UNCHANGED document
  /\ UNCHANGED <<patch, operand, original>>

EditInit ==
  \E e \in Edits :
    /\ editing = e.editing
    /\ document \in e.documents /\ original = document
    /\ patch \in e.patches /\ operand \in e.operands

NoOperand == <<"none">>

NoEdit ==
  /\ document = Null /\ original = Null /\ operand = NoOperand
  /\ editing = "none" /\ patch = <<>>

EditNext ==
  diff_patch \/ patch_inplace \/ patched \/ merge_patch \/ assign \/ flattened \/ unflattened

-----------------------------------------------------------------------------
(* Properties.                                                             *)

(* A value as its leaves, each with its path: what is no container, and    *)
(* containers that are empty.                                              *)
tokenOf(j, k) == IF j[1] = "array" THEN decimalIndex(k - 1) ELSE k

RECURSIVE Leaves(_)
Leaves(j) ==
  IF j[1] \notin {"array", "object"} \/ j[2] = <<>> THEN {<< <<>>, j>>}
  ELSE UNION {{<< <<tokenOf(j, k)>> \o leaf[1], leaf[2]>> : leaf \in Leaves(j[2][k])} : k \in DOMAIN j[2]}

RECURSIVE Places(_)
Places(j) ==
  {<<>>} \cup
  IF j[1] \notin {"array", "object"} THEN {}
  ELSE UNION {{<<tokenOf(j, k)>> \o path : path \in Places(j[2][k])} : k \in DOMAIN j[2]}

At(j, path) == get_checked(j, path).value

(* The leaves with another value at a path, in place of what was there, or *)
(* of an empty container or null that becomes one with something in it.    *)
Put(leaves, path, value) ==
  {leaf \in leaves : ~IsPrefix(path, leaf[1]) /\ ~IsPrefix(leaf[1], path)} \cup
  {<<path \o leaf[1], leaf[2]>> : leaf \in Leaves(value)}

(* The leaves of an array at a path, those from an index on moved by some. *)
Shifted(leaves, path, from, by) ==
  {IF IsStrictPrefix(path, leaf[1]) /\ array_index(leaf[1][Len(path) + 1]).value >= from
   THEN <<path \o <<decimalIndex(array_index(leaf[1][Len(path) + 1]).value + by)>>
               \o SubSeq(leaf[1], Len(path) + 2, Len(leaf[1])), leaf[2]>>
   ELSE leaf : leaf \in leaves}

Added(j, path, value) ==
  LET parent == At(j, Front(path))
      index  == IF Last(path) = DASH THEN Len(parent[2]) ELSE array_index(Last(path)).value
  IN IF path # <<>> /\ parent[1] = "array"
     THEN Put(Shifted(Leaves(j), Front(path), index, 1), Append(Front(path), decimalIndex(index)), value)
     ELSE Put(Leaves(j), path, value)

Removed(j, path) ==
  LET parent == At(j, Front(path))
      others == {leaf \in Leaves(j) : ~IsPrefix(path, leaf[1])}
      index  == array_index(Last(path)).value
  IN IF Cardinality(DOMAIN parent[2]) = 1 THEN others \cup {<<Front(path), <<parent[1], <<>>>>>>}
     ELSE IF parent[1] = "array" THEN Shifted(others, Front(path), index + 1, -1)
     ELSE others

(* Numbers count as alike if they differ by 2^64.                          *)
wraps(m, n) == m.negative # n.negative /\ sum(m.magnitude, n.magnitude) = <<1, 0, 0, 0, 0, 0, 0, 0, 0>>

RECURSIVE alike(_, _)
alike(j, k) ==
  \/ j = k
  \/ j[1] = "number" /\ k[1] = "number" /\ wraps(j[2], k[2])
  \/ /\ j[1] = k[1] /\ j[1] \in {"array", "object"} /\ DOMAIN j[2] = DOMAIN k[2]
     /\ \A e \in DOMAIN j[2] : alike(j[2][e], k[2][e])

(* Where the code takes a value to be added: below null, too, and below a  *)
(* value that is no container.                                             *)
canAdd(j, path) ==
  path = <<>> \/ /\ Front(path) \in Places(j)
                 /\ At(j, Front(path))[1] = "array" =>
                      \/ Last(path) = DASH
                      \/ \E n \in 0..Len(At(j, Front(path))[2]) : Last(path) = decimalIndex(n)
below(j, path) == At(j, Front(path))[1]
underPrimitive(j, path) ==
  path # <<>> /\ Front(path) \in Places(j) /\ below(j, path) \notin {"null", "array", "object"}
addedTo(j, path, value, after) ==
  /\ canAdd(j, path)
  /\ IF underPrimitive(j, path) THEN after = j ELSE Leaves(after) = Added(j, path, value)

(* What an operation of a patch makes of a document, by RFC 6902 and, with *)
(* a path that leads below null or a value that is no container, by what   *)
(* the code does, though the RFC has no such place ...                     *)
Applied(j, o, after) ==
  LET path    == split(o.path).value
      from    == split(o.from).value
      between == operation(j, remove(o.from)).document
  IN CASE o.op = "add"     -> addedTo(j, path, o.value, after)
       [] o.op = "remove"  -> IF path \in Places(j) THEN Leaves(after) = Removed(j, path)
                              ELSE after = j /\ below(j, path) \notin {"array", "object"}
       [] o.op = "replace" -> path \in Places(j) /\ Leaves(after) = Put(Leaves(j), path, o.value)
       [] o.op = "move"    -> from \in Places(j) /\ Leaves(between) = Removed(j, from)
                              /\ addedTo(between, path, At(j, from), after)
       [] o.op = "copy"    -> from \in Places(j) /\ addedTo(j, path, At(j, from), after)
       [] o.op = "test"    -> path \in Places(j) /\ alike(At(j, path), o.value) /\ after = j

(* ... when it may fail an assertion ...                                   *)
Stopped(j, o, after) ==
  LET path == split(o.path).value
      from == split(o.from).value
  IN CASE o.op = "add"  -> after = j /\ underPrimitive(j, path)
       [] o.op = "copy" -> after = j /\ underPrimitive(j, path) /\ from \in Places(j)
       [] o.op = "move" -> from \in Places(j) /\ Leaves(after) = Removed(j, from) /\ underPrimitive(after, path)
       [] OTHER -> FALSE

(* ... and when it must not be applied.  All but a move leave the document *)
(* as it was.                                                              *)
Refused(j, o, after) ==
  LET path == split(o.path)
      from == split(o.from)
  IN IF ~wellFormed(o) \/ ("from" \in DOMAIN o /\ from.is # "found") THEN after = j
     ELSE CASE o.op = "add"  -> after = j /\ ~canAdd(j, path.value)
            [] o.op = "copy" -> after = j /\ (from.value \in Places(j) => ~canAdd(j, path.value))
            [] o.op = "test" -> after = j /\ (path.value \in Places(j) => At(j, path.value) # o.value)
            [] o.op \in {"remove", "replace"} ->
                 after = j /\ (path.value \in Places(j) => o.op = "remove" /\ path.value = <<>>)
            [] o.op = "move" ->
                 IF from.value = <<>> \/ from.value \notin Places(j) THEN after = j
                 ELSE Leaves(after) = Removed(j, from.value) /\ ~canAdd(after, path.value)

(* What a merge patch sets, and where; null is for what it removes.        *)
RECURSIVE Entries(_)
Entries(p) ==
  IF p[1] # "object" \/ p[2] = <<>> THEN {<< <<>>, p>>}
  ELSE UNION {{<< <<k>> \o set[1], set[2]>> : set \in Entries(p[2][k])} : k \in DOMAIN p[2]}

related(path, other) == IsPrefix(path, other) \/ IsPrefix(other, path)

(* By RFC 7386: what is named is set or gone, what is not stays, and there *)
(* is nothing else.                                                        *)
Merged(j, p, after) ==
  IF p[1] # "object" THEN after = p
  ELSE /\ \A set \in Entries(p) :
            CASE set[2] = Null         -> set[1] \notin Places(after)
              [] set[2] = Object(<<>>) -> At(after, set[1])[1] = "object"
              [] OTHER                 -> set[1] \in Places(after) /\ At(after, set[1]) = set[2]
       /\ \A leaf \in Leaves(j) :
            \/ leaf \in Leaves(after)
            \/ \E set \in Entries(p) : related(set[1], leaf[1])
            \/ \E path \in Prefixes(leaf[1]) : path # leaf[1] /\ At(j, path)[1] = "array"
       /\ \A leaf \in Leaves(after) :
            leaf \in Leaves(j) \/ leaf[2] = Object(<<>>)
            \/ \E set \in Entries(p) : \E under \in Leaves(set[2]) : leaf = <<set[1] \o under[1], under[2]>>

(* Assigning through a pointer sets the value there, and makes at most     *)
(* containers of nulls and more nulls otherwise; so it does if it throws.  *)
kept(leaves) == {leaf \in leaves : leaf[2] \notin {Null, Array(<<>>), Object(<<>>)}}
AssignedThere(j, o, after) ==
  LET path == split(o.path).value
      upTo(n) == SubSeq(path, 1, n)
      (* "-" is the last element of an array, but a key of an object.      *)
      stands(where) ==
        \A n \in DOMAIN path :
          IF path[n] = DASH /\ ~(upTo(n - 1) \in Places(j) /\ At(j, upTo(n - 1))[1] = "object")
          THEN /\ At(after, SubSeq(where, 1, n - 1))[1] = "array"
               /\ where[n] = decimalIndex(Len(At(after, SubSeq(where, 1, n - 1))[2]) - 1)
          ELSE where[n] = path[n]
  IN \E where \in Places(after) :
       /\ Len(where) = Len(path) /\ stands(where)
       /\ At(after, where) = o.value /\ contains(after, where) = Found(TRUE)
       /\ kept(Leaves(after)) = kept(Put(Leaves(j), where, o.value))

(* An edit does to the document what it says and nothing else, whatever in *)
(* the path has to be escaped, wherever in an array, also if it throws;    *)
(* and the patch that diff makes of two values turns one into the other.   *)
(* In two places this is not so, and what the code does instead is all     *)
(* that is claimed.  A path that leads below a number, string or boolean   *)
(* names no place, though json.hpp:24852 takes it that no patch has one:   *)
(* an add there leaves the document as it is, and stops the program where  *)
(* assertions are compiled in (:24861); a remove there, or below null,     *)
(* changes nothing (:24887).  And where values are compared, by diff and   *)
(* by test, two integers that differ by 2^64 are the same (:23680), so     *)
(* the document may end up with one for the other.                         *)
EditsExact ==
  [][LET o == Head(patch)
     IN CASE editing = "patch" /\ patch' # patch ->
               CASE editing' = "patch" -> Applied(document, o, document')
                 [] editing' = "aborted" -> operand = NoOperand /\ Stopped(document, o, document')
                 [] OTHER -> operand = NoOperand /\ Refused(document, o, document')
          [] editing = "patch" /\ editing' = "patched" -> operand = NoOperand \/ alike(document, operand)
          [] editing = "merge" /\ editing' = "merged" -> Merged(document, operand, document')
          [] editing = "assign" /\ editing' # editing ->
               IF editing' = "assigned" THEN AssignedThere(document, o, document')
               ELSE kept(Leaves(document)) = kept(Leaves(document'))
          [] OTHER -> TRUE]_editVars

(* A value without empty containers.                                       *)
RECURSIVE Emptied(_)
Emptied(j) ==
  IF j[1] \notin {"array", "object"} THEN j
  ELSE IF j[2] = <<>> THEN Null
  ELSE <<j[1], [k \in DOMAIN j[2] |-> Emptied(j[2][k])]>>

zero == \E leaf \in Leaves(original) : \E n \in DOMAIN leaf[1] :
          leaf[1][n] = decimalIndex(0) /\ At(original, SubSeq(leaf[1], 1, n - 1))[1] = "object"

(* unflatten makes what flatten took apart, but for empty containers; only *)
(* an object that has a key "0" may become an array, or be refused.        *)
FlattenRestored ==
  /\ editing = "unflattened" => zero \/ document = Emptied(original)
  /\ editing = "lost" => zero
=============================================================================
