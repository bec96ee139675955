------------------------------ MODULE JSONValues ------------------------------
(***************************************************************************)
(* JSON documents, and what the dashboard and its editor compute with      *)
(* them: lodash's merge and set, diff and pointers of the editor           *)
(* (src/nodepkg/codemirror/src/json), and the server's DiffObj and         *)
(* MergeObj (src/pkg/util/obj.go).                                         *)
(*                                                                         *)
(* A document is a function on the paths of its values: what recurses over *)
(* values in the code is said here of all paths at once, by what is above  *)
(* them.  The items of an array have their index for a key.                *)
(***************************************************************************)
EXTENDS Naturals, Sequences, FiniteSets, SequencesExt

CONSTANT Keys   \* what the keys of objects can be, the texts

Node(is, leaf) == [is |-> is, leaf |-> leaf]
ObjectNode == Node("object", "")
ArrayNode == Node("array", "")
Null == Node("null", "")
Text(s) == Node("text", s)
Number(n) == Node("number", n)
Containers == {ObjectNode, ArrayNode}

Paths == Seq(Keys)
Above(p) == {SubSeq(p, 1, n) : n \in 0..(Len(p) - 1)}
Within(p, q) == p = q \/ q \in Above(p)

(* What is above a value in a document is an object or an array.           *)
IsTree(v) ==
  /\ DOMAIN v \subseteq Paths
  /\ \A p \in DOMAIN v : \A q \in Above(p) : q \in DOMAIN v /\ v[q] \in Containers

Undefined == [p \in {} |-> Null]
IsObject(v, p) == p \in DOMAIN v /\ v[p] = ObjectNode
IsArray(v, p) == p \in DOMAIN v /\ v[p] = ArrayNode
InObjects(v, p) == \A q \in Above(p) : IsObject(v, q)

(* The one over the other, and something at one path alone.                *)
Over(v, w) == [p \in DOMAIN v \union DOMAIN w |-> IF p \in DOMAIN v THEN v[p] ELSE w[p]]
Single(path, x) == [p \in {path} |-> x]

At(v, path) == Restrict(v, {p \in DOMAIN v : Within(p, path)})
Without(v, path) == Restrict(v, {p \in DOMAIN v : ~Within(p, path)})
Children(v, path) == {p \in DOMAIN v : p # <<>> /\ Front(p) = path}

(* The paths at which a document has something that is no object, with     *)
(* nothing but objects above.                                              *)
Leaves(v) == {p \in DOMAIN v : v[p] # ObjectNode /\ InObjects(v, p)}

(* lodash's set, for each of some paths, none above another: there is then *)
(* what w has at the path, as long, that is said for it.  What is nothing  *)
(* or no container on the way becomes an object.                           *)
Moved(p, from, to) == [i \in DOMAIN p |-> IF i <= Len(from) THEN to[i] ELSE p[i]]
SetAll(v, said, w) ==
  LET set(t) == {Moved(p, said[t], t) : p \in DOMAIN At(w, said[t])}
      On(p) == CHOOSE t \in DOMAIN said : Within(p, t)
      written == [p \in UNION {set(t) : t \in DOMAIN said} |-> w[Moved(p, On(p), said[On(p)])]]
      left == Restrict(v, {p \in DOMAIN v : \A t \in DOMAIN said :
                             ~Within(p, t) /\ (p \in Above(t) => v[p] \in Containers)})
      way == [p \in UNION {Above(t) : t \in DOMAIN said} |-> ObjectNode]
  IN Over(written, Over(left, way))

-----------------------------------------------------------------------------
(* JSONPointer: a key with a slash is escaped, and so is what is escaped.  *)
(* The same key becomes two where paths are joined, or split, at slashes.  *)
Escapes == <<"aliyun.com/gpu-mem", "aliyun.com~1gpu-mem", "aliyun.com~01gpu-mem">>
SlashKey == Escapes[1]
Escape(key) ==
  IF key = SlashKey THEN Escapes[2] ELSE IF key = Escapes[2] THEN Escapes[3] ELSE key
Compile(path) == [i \in DOMAIN path |-> Escape(path[i])]
Slashed(path) == \E i \in DOMAIN path : \E n \in 1..3 : path[i] = Escapes[n]
Segments(key) == IF key = SlashKey THEN <<"aliyun.com", "gpu-mem">> ELSE <<key>>
Joined(path) ==
  IF Slashed(path) THEN FlattenSeq([i \in DOMAIN path |-> Segments(path[i])]) ELSE path

(* walkNode: the paths it visits; of what has something below it, two.     *)
WalkNode(v) ==
  {Append(Joined(p), "") : p \in {q \in DOMAIN v : v[q] \in Containers}}
  \union {Append(Joined(Front(p)), Escape(Last(p))) : p \in DOMAIN v \ {<<>>}}

-----------------------------------------------------------------------------
(* JSONDiff: below objects of both, what is deleted, added or modified,    *)
(* arrays as a whole.                                                      *)
Diff(r, l) ==
  LET visited == {p \in DOMAIN r \union DOMAIN l : InObjects(r, p) /\ InObjects(l, p)}
      Differs(p) == ~(IsObject(r, p) /\ IsObject(l, p)) /\ At(r, p) # At(l, p)
  IN {[path |-> p, type |-> "d"] : p \in visited \ DOMAIN r}
     \union {[path |-> p, type |-> "a"] : p \in visited \ DOMAIN l}
     \union {[path |-> p, type |-> "m"] :
               p \in {q \in visited \intersect DOMAIN r \intersect DOMAIN l : Differs(q)}}

CloneWithoutNull(v) ==
  Restrict(v, {p \in DOMAIN v : p = <<>> \/ v[p] # Null \/ v[Front(p)] # ObjectNode})

(* lodash's merge: arrays are merged item by item.                         *)
Merge(a, b) ==
  Over(b, Restrict(a, {p \in DOMAIN a : \A q \in Above(p) \intersect DOMAIN b : b[q] = a[q]}))

-----------------------------------------------------------------------------
(* equal of the server: an object equals anything, as it is compared with  *)
(* itself; of arrays, what has nothing but arrays above it.                *)
Equal(a, b, path) ==
  \A p \in DOMAIN a :
    Within(p, path) /\ (\A q \in Above(p) : Within(q, path) => a[q] = ArrayNode) =>
      \/ a[p] = ObjectNode
      \/ /\ p \in DOMAIN b /\ b[p] = a[p]
         /\ a[p] = ArrayNode => Children(a, p) = Children(b, p)

(* DiffObj: what the right object says otherwise, or Undefined; what it    *)
(* leaves out is no difference.                                            *)
\* Mutant: what the right object adds is no difference.
DiffObj_Visited(left, right) ==
  LET Differs(p) ==
        /\ InObjects(left, p) /\ InObjects(right, p)
        /\ ~(IsObject(left, p) /\ IsObject(right, p))
        /\ p \in DOMAIN left /\ ~Equal(right, left, p)
      diffed == {p \in DOMAIN right : Differs(p)}
  IN Restrict(right, {p \in DOMAIN right : \E t \in diffed : Within(p, t) \/ Within(t, p)})
DiffObj(left, right) ==
  LET Differs(p) ==
        /\ InObjects(left, p) /\ InObjects(right, p)
        /\ ~(IsObject(left, p) /\ IsObject(right, p))
        /\ ~(p \in DOMAIN left /\ Equal(right, left, p))
      diffed == {p \in DOMAIN right : Differs(p)}
  IN Restrict(right, {p \in DOMAIN right : \E t \in diffed : Within(p, t) \/ Within(t, p)})

(* MergeObj: below objects of both, what the patch has and is not null     *)
(* over something replaces, arrays too.                                    *)
MergeObj(from, patch) ==
  LET Ignored(p) ==
        patch[p] = Null /\ p \in DOMAIN from /\ InObjects(from, p) /\ InObjects(patch, p)
      merged == Restrict(patch, {p \in DOMAIN patch : ~Ignored(p)})
  IN Over(merged, Restrict(from, {p \in DOMAIN from :
       \A q \in Above(p) \intersect DOMAIN merged : IsObject(merged, q) /\ IsObject(from, q)}))
=============================================================================
